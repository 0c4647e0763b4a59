----------------------- MODULE PathResolutionProofs -----------------------
(***************************************************************************)
(* Proofs about PathResolution, for every tree and every change of it,     *)
(* every request, every length of paths, every SYMLOOP_MAX > 0 and every   *)
(* outcome of malloc.                                                      *)
(*                                                                         *)
(* Inv is inductive and has three parts: TInv, the types; LInv, the list   *)
(* of links against the count and the limit; HInv, the heap, exactly: the  *)
(* blocks of this frame and those of the frame that called it.             *)
(*                                                                         *)
(* What the function asks of the tree is proved with the recursion of the  *)
(* kernel's walk unfolded: a walk goes on from each of its steps as it     *)
(* went on before it.  DInv says that the lookup directory is a directory, *)
(* QInv that what is left of the path, walked from there, comes to what    *)
(* the whole path comes to.  What the two walks have in common is shown by *)
(* induction along the walk (LastOfWalk): every step takes one of the      *)
(* links that are allowed, or a component off the path.                    *)
(*                                                                         *)
(* What the function says of it rests on three more: EInv, what each label *)
(* of the loop knows of the last component; Holding, that an explanation   *)
(* accounts for the end of the walk it was asked about (Accounts); FInv,   *)
(* that this walk is the kernel's, of the path of the call (Outer) or of   *)
(* the interpreter of the script it leads to (Nested).                     *)
(***************************************************************************)
EXTENDS PathResolution, SequenceTheorems, WellFoundedInduction, TLAPS

-----------------------------------------------------------------------------
(* Paths stay paths. *)

LEMMA LeastElement ==
    ASSUME NEW S \in SUBSET Nat, S # {}
    PROVE  \E least \in S : \A n \in S : least <= n
<1>1. IsWellFoundedOn(OpToRel(<, Nat), Nat)
  BY NatLessThanWellFounded
<1>2. PICK least \in S : \A n \in S : ~ (<<n, least>> \in OpToRel(<, Nat))
  BY <1>1, WFMin
<1>3. \A n \in S : ~ (n < least)
  BY <1>2 DEF OpToRel
<1> QED
  BY <1>3

LEMMA SkipDotsType ==
    ASSUME NEW names \in Seq(Name)
    PROVE  SkipDots(names) \in Seq(Name)
<1> DEFINE kept == {i \in 1 .. Len(names) : names[i] # "."}
<1>1. Len(names) \in Nat /\ <<>> \in Seq(Name)
  BY LenProperties, EmptySeq
<1>2. CASE kept = {}
  BY <1>1, <1>2 DEF SkipDots
<1>3. CASE kept # {}
  <2>1. kept \in SUBSET Nat
    BY <1>1
  <2>2. Min(kept) \in kept
    <3> HIDE DEF kept
    <3> QED
      BY <1>3, <2>1, LeastElement DEF Min
  <2>3. Min(kept) \in 1 .. Len(names)
    BY <2>2
  <2>4. \A i \in Min(kept) .. Len(names) : names[i] \in Name
    <3> HIDE DEF kept
    <3> QED BY <1>1, <2>3, ElementOfSeq
  <2>5. SubSeq(names, Min(kept), Len(names)) \in Seq(Name)
    <3> HIDE DEF kept
    <3> QED BY <1>1, <2>3, <2>4, SubSeqProperties
  <2> QED
    BY <1>3, <2>5 DEF SkipDots
<1> QED
  BY <1>2, <1>3

LEMMA PathJoinType ==
    ASSUME NEW dst \in Path, NEW names \in Seq(Name)
    PROVE  path_join(dst, names) \in Path
<1>1. SkipDots(names) \in Seq(Name)
  BY SkipDotsType
<1>2. dst.names \o SkipDots(names) \in Seq(Name)
  BY <1>1, ConcatProperties DEF Path
<1> QED
  BY <1>1, <1>2 DEF path_join, Path, Rel

LEMMA RelType == \A names \in Seq(Name) : Rel(names) \in Path /\ Abs(names) \in Path
  BY DEF Rel, Abs, Path

LEMMA ConstantPaths == {Empty, DotPath, RootPath} \subseteq Path
<1>1. <<>> \in Seq(Name) /\ <<".">> \in Seq(Name)
  BY NamesAssumption, EmptySeq
<1> QED
  BY <1>1, RelType DEF Empty, DotPath, RootPath

LEMMA InitialNamesType ==
    ASSUME NEW path \in Path, NEW confusing
    PROVE  initial_names(path, confusing) \in Seq(Name)
<1> DEFINE cwd == IF confusing /\ ~path.abs THEN CwdNames ELSE <<>>
           dot == IF path.slash \/ path.names = <<>> THEN <<".">> ELSE <<>>
<1>1. cwd \in Seq(Name) /\ dot \in Seq(Name) /\ path.names \in Seq(Name)
  BY NamesAssumption, EmptySeq DEF Path
<1>2. (cwd \o path.names) \o dot \in Seq(Name)
  BY <1>1, ConcatProperties
<1> QED
  BY <1>2 DEF initial_names

LEMMA NextComponentType ==
    ASSUME pp \in Seq(Name)
    PROVE  next_component \in Seq(Name) /\ Len(next_component) <= 1
<1>1. CASE pp = <<>>
  BY <1>1, EmptySeq DEF next_component
<1>2. CASE pp # <<>>
  <2>1. Head(pp) \in Name
    BY <1>2, HeadTailProperties
  <2>2. Head(pp) \in LongNames => Truncated[Head(pp)] \in Name
    BY NamesAssumption
  <2> QED
    BY <1>2, <2>1, <2>2 DEF next_component
<1> QED
  BY <1>1, <1>2

(* What is read from the disk is a path. *)
LEMMA TreesAreTrees == \A tree \in FileSystems : IsTree(tree)
  BY ScenariosAssumption DEF FileSystems

LEMMA LinkBodyType ==
    ASSUME NEW tree \in FileSystems, NEW path,
           Readlink(tree, path).errno = "OK"
    PROVE  Readlink(tree, path).body \in Path
<1> DEFINE w == WalkFrom(tree, FALSE, Walker(path))
<1>1. Found(tree, w) /\ Readlink(tree, path) = [errno |-> "OK", body |-> tree[w.obj].target]
  <2> HIDE DEF w
  <2>1. Readlink(tree, path) =
          IF Found(tree, w) /\ tree[w.obj].type = "lnk"
          THEN [errno |-> "OK", body |-> tree[w.obj].target]
          ELSE [errno |-> "EINVAL"]
    BY DEF Readlink, w
  <2> QED
    BY <2>1
<1>2. tree[w.obj].target \in Path
  <2> HIDE DEF w
  <2> QED
    BY <1>1, TreesAreTrees DEF IsTree, Found
<1> HIDE DEF w
<1> QED
  BY <1>1, <1>2

LEMMA StatusType ==
    ASSUME NEW tree \in FileSystems, NEW path, Lstat(tree, path).errno = "OK"
    PROVE  Lstat(tree, path).st \in Statuses
<1> DEFINE w == WalkFrom(tree, FALSE, Walker(path))
<1>1. Lstat(tree, path) =
        IF Found(tree, w) THEN [errno |-> "OK", st |-> StatOf(tree[w.obj])]
        ELSE [errno |-> IF w.err \in {"EACCES", "ELOOP", "ENAMETOOLONG", "ENOTDIR"}
                        THEN w.err ELSE "ENOENT"]
  BY DEF Lstat
<1> HIDE DEF w
<1>2. CASE Found(tree, w)
  BY <1>1, <1>2 DEF Found, Statuses
<1>3. CASE ~Found(tree, w)
  BY <1>1, <1>3
<1> QED
  BY <1>2, <1>3

LEMMA ScriptType ==
    ASSUME NEW tree \in FileSystems, NEW path
    PROVE  ReadScript(tree, path) \in Path
<1> DEFINE w == WalkFrom(tree, TRUE, Walker(path))
<1>1. Found(tree, w) => tree[w.obj].script \in Path
  <2> HIDE DEF w
  <2> QED
    BY TreesAreTrees DEF IsTree, Found
<1>2. ReadScript(tree, path) \in {tree[w.obj].script, Empty}
       /\ (~Found(tree, w) => ReadScript(tree, path) = Empty)
  <2>1. ReadScript(tree, path) =
          IF Found(tree, w) /\ tree[w.obj].type = "reg" /\ Granted(tree[w.obj], "r")
          THEN tree[w.obj].script ELSE Empty
    BY DEF ReadScript, w
  <2> HIDE DEF w
  <2> QED
    BY <2>1
<1> HIDE DEF w
<1> QED
  BY <1>1, <1>2, ConstantPaths

-----------------------------------------------------------------------------
(* The verdicts are verdicts. *)

Reasons == DOMAIN explains

LEMMA FirstOfResult ==
    ASSUME NEW cases, NEW otherwise, NEW n \in Nat, Len(cases) = n
    PROVE  \/ FirstOf(cases, otherwise) = otherwise
           \/ \E i \in 1 .. n : /\ cases[i][1]
                                /\ FirstOf(cases, otherwise) = cases[i][2]
<1> DEFINE held == {i \in 1 .. Len(cases) : cases[i][1]}
           first == CHOOSE i \in held : \A j \in held : i <= j
<1>1. CASE held = {}
  BY <1>1 DEF FirstOf
<1>2. CASE held # {}
  <2>1. held \in SUBSET Nat
    OBVIOUS
  <2>2. first \in held
    <3> HIDE DEF held
    <3> QED
      BY <1>2, <2>1, LeastElement
  <2>3. FirstOf(cases, otherwise) = cases[first][2]
    BY <1>2 DEF FirstOf
  <2> HIDE DEF first
  <2> QED
    BY <2>2, <2>3
<1> QED
  BY <1>1, <1>2

LEMMA AbsentReason ==
    ASSUME NEW e PROVE absent_explanation(e) \in Reasons
  BY DEF absent_explanation, Reasons, explains

LEMMA SearchReason ==
    ASSUME NEW st, NEW fc PROVE search_check(st, fc) \in Reasons
  BY DEF search_check, Reasons, explains

LEMMA ExistingReason ==
    ASSUME NEW st
    PROVE  existing_explanation(st) \in Reasons \cup {"interpreter"}
<1> DEFINE a == expected_errno = "EACCES"
           d == expected_errno \in {"EACCES", "EPERM"}
           x == may_not_execute(st)
           cases == <<
        <<final_component.must_not_exist, "eexist">>,
        <<final_component.must_be \notin {"any", st.type}, "wrong_file_type">>,
        <<d /\ final_component.want_to_modify_inode
          /\ ~have_inode_permission(st), "no_inode_permission">>,
        <<d /\ may_not_unlink(st), "no_unlink_permission">>,
        <<a /\ final_component.want_to_read /\ ~have_read_permission(st),
          "no_read_permission">>,
        <<a /\ final_component.want_to_write /\ ~have_write_permission(st),
          "no_write_permission">>,
        <<a /\ final_component.want_to_execute /\ x # "none", x>>,
        <<a /\ final_component.want_to_execute, "interpreter">>,
        <<a /\ final_component.want_to_search /\ ~have_search_permission(st),
          "no_search_permission_final">> >>
<1>1. existing_explanation(st) = FirstOf(cases, "none")
  BY DEF existing_explanation
<1>2. x \in Reasons
  BY DEF may_not_execute, Reasons, explains
<1>3. Len(cases) = 9 /\ 9 \in Nat
  OBVIOUS
<1>4. \A i \in 1 .. 9 : cases[i][2] \in Reasons \cup {"interpreter"}
  <2> HIDE DEF a, d, x
  <2> QED
    BY <1>2 DEF Reasons, explains
<1>5. "none" \in Reasons
  BY DEF Reasons, explains
<1> HIDE DEF cases
<1>6. \/ FirstOf(cases, "none") = "none"
      \/ \E i \in 1 .. 9 : cases[i][1] /\ FirstOf(cases, "none") = cases[i][2]
  BY <1>3, FirstOfResult
<1>7. FirstOf(cases, "none") \in Reasons \cup {"interpreter"}
  BY <1>4, <1>5, <1>6
<1> QED
  BY <1>1, <1>7

-----------------------------------------------------------------------------
(* Types.  fs is one of the trees of the scenarios, whoever put it there. *)
TInv ==
    /\ changed \in BOOLEAN
    /\ fs \in FileSystems
    /\ request \in [op : Syscall, path : Path]
    /\ errno \in explained_errnos(request.op)
    /\ pc \in {"begin", "lookup", "intermediate", "readlink", "target",
              "interpreter", "return", "abort"}
    /\ result \in {0, -1} /\ why \in Reasons
    /\ expected_errno \in {errno, "EACCES"}
    /\ final_component \in Finals
    /\ initial_pathname \in Path /\ lookup_directory \in Path
    /\ intermediate_path \in Path /\ rlb \in Path
    /\ pp \in Seq(Name) /\ component \in Seq(Name) /\ Len(component) <= 1
    /\ intermediate_path_st \in Statuses
    /\ symlinks_so_far \in Seq(Path) \cup {NULL}
    /\ number_of_symlinks_followed \in Nat
    /\ caller \in Frames \cup {NULL}

LEMMA TypeInitial == Init => TInv
<1> SUFFICES ASSUME Init PROVE TInv
  OBVIOUS
<1>1. fs \in FileSystems /\ request \in [op : Syscall, path : Path]
  BY ScenariosAssumption DEF Init, FileSystems
<1>2. request.op \in Syscall /\ request.path \in Path
  BY <1>1
<1>3. "none" \in Reasons
  BY DEF Reasons, explains
<1>4. <<>> \in Seq(Name) /\ Len(<<>>) = 0
  BY EmptySeq
<1>5. errno \in explained_errnos(request.op) /\ expected_errno \in {errno, "EACCES"}
  BY DEF Init, passed_errno
<1>6. final_component \in Finals
  BY <1>2 DEF Init, Finals
<1>7. changed \in BOOLEAN
  BY DEF Init
<1>8. /\ pc = "begin" /\ result = 0 /\ why = "none"
      /\ initial_pathname = request.path
      /\ lookup_directory = DotPath /\ intermediate_path = DotPath /\ rlb = DotPath
      /\ pp = <<>> /\ component = <<>>
      /\ symlinks_so_far = NULL /\ number_of_symlinks_followed = 0 /\ caller = NULL
      /\ intermediate_path_st = NULL
  BY DEF Init
<1>9. DotPath \in Path
  BY ConstantPaths
<1> QED
  BY <1>1, <1>2, <1>3, <1>4, <1>5, <1>6, <1>7, <1>8, <1>9 DEF TInv, Statuses

(* A verdict is one of the reasons. *)
LEMMA ReturnType ==
    ASSUME TInv, NEW found \in Reasons,
           \/ Return(0, found) \/ BareReturn(0, found)
           \/ Return(-1, found) \/ BareReturn(-1, found)
           \/ Return(IF found = "none" THEN -1 ELSE 0, found)
    PROVE  /\ pc' = "return" /\ result' \in {0, -1} /\ why' \in Reasons
           /\ symlinks_so_far' = symlinks_so_far
           /\ number_of_symlinks_followed' = number_of_symlinks_followed
  BY DEF Return, BareReturn, memory

LEMMA ExistingType ==
    ASSUME TInv, NEW st, Existing(st)
    PROVE  /\ pc' \in {"return", "lookup", "interpreter"}
           /\ result' \in {0, -1} /\ why' \in Reasons
           /\ lookup_directory' \in {lookup_directory, intermediate_path}
           /\ symlinks_so_far' = symlinks_so_far
           /\ number_of_symlinks_followed' = number_of_symlinks_followed
<1> DEFINE found == existing_explanation(st)
<1>1. CASE ~final /\ st.type # "dir" /\ BareReturn(0, "not_a_subdirectory")
           /\ UNCHANGED lookup_directory
  BY <1>1, ReturnType DEF Reasons, explains
<1>2. CASE GoTo("lookup") /\ lookup_directory' = intermediate_path /\ UNCHANGED memory
  BY <1>2 DEF GoTo, memory, TInv
<1>3. CASE GoTo("interpreter") /\ UNCHANGED <<memory, lookup_directory>>
  BY <1>3 DEF GoTo, memory, TInv
<1>4. CASE /\ found # "interpreter"
           /\ Return(IF found = "none" THEN -1 ELSE 0, found)
           /\ UNCHANGED lookup_directory
  <2>1. found \in Reasons
    BY <1>4, ExistingReason
  <2> HIDE DEF found
  <2> QED
    BY <1>4, <2>1, ReturnType
<1> QED
  BY <1>1, <1>2, <1>3, <1>4 DEF Existing

LEMMA FollowType ==
    ASSUME TInv, NEW body \in Path, Follow(body)
    PROVE  /\ pc' = "target" /\ UNCHANGED <<result, why>>
           /\ rlb' \in Path /\ pp' \in Seq(Name) /\ intermediate_path' \in Path
<1> DEFINE text == IF body = Empty THEN DotPath ELSE body
<1>1. text \in Path /\ text.names \in Seq(Name) /\ text.slash \in BOOLEAN
  BY ConstantPaths DEF Path
<1>2. path_join(text, pp) \in Path /\ path_join(lookup_directory, text.names) \in Path
  BY <1>1, PathJoinType DEF TInv
<1>3. /\ path_join(text, pp).names \in Seq(Name)
      /\ [path_join(lookup_directory, text.names) EXCEPT !.slash = text.slash] \in Path
  BY <1>1, <1>2 DEF Path
<1>4. /\ pc' = "target" /\ UNCHANGED <<result, why>>
      /\ rlb' = text /\ pp' = path_join(text, pp).names
      /\ intermediate_path' \in {text, lookup_directory,
            [path_join(lookup_directory, text.names) EXCEPT !.slash = text.slash]}
  BY DEF Follow, GoTo
<1> HIDE DEF text
<1> QED
  BY <1>1, <1>3, <1>4 DEF TInv

LEMMA TypeInductive == TInv /\ [Next]_vars => TInv'
<1> SUFFICES ASSUME TInv, [Next]_vars PROVE TInv'
  OBVIOUS
<1> USE DEF world, failure, args, walk, inter, memory, verdict
<1>0. /\ "none" \in Reasons /\ "empty_path" \in Reasons /\ "path_too_long" \in Reasons
      /\ "directory_does_not_exist" \in Reasons /\ "not_a_directory" \in Reasons
      /\ "no_search_permission" \in Reasons /\ "name_too_long" \in Reasons
      /\ "symlink_loop" \in Reasons /\ "dangling_symbolic_link" \in Reasons
      /\ "too_many_symlinks" \in Reasons /\ "too_many_interpreters" \in Reasons
  BY DEF Reasons, explains
<1>1. CASE EmptyPathname
  BY <1>0, <1>1, ReturnType DEF EmptyPathname, TInv
<1>2. CASE PathnameTooLong
  BY <1>0, <1>2, ReturnType DEF PathnameTooLong, TInv
<1>3. CASE Begin
  <2> PICK confusing \in Confusing, allocated \in MallocResults :
        /\ symlinks_so_far' = IF allocated THEN <<>> ELSE NULL
        /\ \/ /\ pc' = "return" /\ result' = -1 /\ why' = "none"
              /\ UNCHANGED <<pp, lookup_directory>>
           \/ /\ pc' = "lookup" /\ UNCHANGED <<result, why>>
              /\ pp' = initial_names(initial_pathname, confusing)
              /\ lookup_directory' = IF initial_pathname.abs \/ confusing
                                     THEN RootPath ELSE DotPath
    BY <1>3 DEF Begin, GoTo
  <2>1. symlinks_so_far' = NULL \/ symlinks_so_far' \in Seq(Path)
    BY EmptySeq
  <2>2. initial_names(initial_pathname, confusing) \in Seq(Name)
    BY InitialNamesType DEF TInv
  <2>3. pp' \in Seq(Name) /\ lookup_directory' \in Path
    BY <2>2, ConstantPaths DEF TInv
  <2>4. pc' \in {"return", "lookup"} /\ result' \in {0, -1} /\ why' \in Reasons
    BY <1>0 DEF TInv
  <2> QED
    BY <1>3, <2>1, <2>3, <2>4 DEF Begin, TInv
<1>4. CASE LookupDirectoryFails
  BY <1>0, <1>4, ReturnType DEF LookupDirectoryFails, TInv
<1>5. CASE AssertionFails
  BY <1>5 DEF AssertionFails, GoTo, TInv
<1>6. CASE LookupDirectoryUnfit
  BY <1>0, <1>6, ReturnType DEF LookupDirectoryUnfit, TInv
<1>7. CASE NextComponent
  <2>1. component' \in Seq(Name) /\ Len(component') <= 1
    BY <1>7, NextComponentType DEF NextComponent, TInv
  <2>2. pp' \in Seq(Name)
    BY <1>7, HeadTailProperties DEF NextComponent, TInv
  <2>3. path_join(lookup_directory, component') \in Path
    BY <2>1, PathJoinType DEF TInv
  <2>4. CASE Return(0, "name_too_long") /\ UNCHANGED intermediate_path
    BY <1>0, <1>7, <2>1, <2>2, <2>4, ReturnType DEF NextComponent, TInv
  <2>5. CASE /\ GoTo("intermediate") /\ UNCHANGED memory
             /\ intermediate_path' = path_join(lookup_directory, component')
    BY <1>7, <2>1, <2>2, <2>3, <2>5 DEF NextComponent, GoTo, TInv
  <2> QED
    BY <1>7, <2>4, <2>5 DEF NextComponent
<1>8. CASE IntermediateFails
  BY <1>8, AbsentReason, ReturnType DEF IntermediateFails, TInv
<1>9. CASE IntermediateExists
  <2> DEFINE answer == Lstat(fs, intermediate_path)
  <2>1. answer.errno = "OK" /\ Existing(answer.st) /\ intermediate_path_st' = answer.st
    BY <1>9 DEF IntermediateExists
  <2>2. answer.st \in Statuses
    BY <2>1, StatusType DEF TInv
  <2> HIDE DEF answer
  <2> QED
    BY <1>9, <2>1, <2>2, ExistingType DEF IntermediateExists, TInv
<1>10. CASE SymbolicLink
  <2>3. intermediate_path_st' \in Statuses
    BY <1>10, StatusType DEF SymbolicLink, TInv
  <2>1. CASE Return(0, "symlink_loop")
    BY <1>0, <1>10, <2>1, <2>3, ReturnType DEF SymbolicLink, TInv
  <2>2. CASE GoTo("readlink") /\ UNCHANGED memory
    BY <1>10, <2>2, <2>3 DEF SymbolicLink, GoTo, TInv
  <2> QED
    BY <1>10, <2>1, <2>2 DEF SymbolicLink
<1>11. CASE ReadlinkFails
  BY <1>11, ExistingType DEF ReadlinkFails, TInv
<1>12. CASE ReadTheLink
  <2> DEFINE body == Readlink(fs, intermediate_path).body
  <2>1. body \in Path
    BY <1>12, LinkBodyType DEF ReadTheLink, TInv
  <2>2. \/ /\ pc' = "return" /\ result' = -1 /\ why' = "none"
           /\ UNCHANGED <<rlb, pp, intermediate_path>>
        \/ Follow(body)
    BY <1>12 DEF ReadTheLink
  <2>3. /\ pc' \in {"return", "target"} /\ result' \in {0, -1} /\ why' \in Reasons
        /\ rlb' \in Path /\ pp' \in Seq(Name) /\ intermediate_path' \in Path
    <3> HIDE DEF body
    <3> QED
      BY <1>0, <2>1, <2>2, FollowType DEF TInv
  <2>4. \/ symlinks_so_far' = NULL \/ symlinks_so_far' = symlinks_so_far
        \/ symlinks_so_far # NULL
           /\ symlinks_so_far' = Append(symlinks_so_far, intermediate_path)
    BY <1>12 DEF ReadTheLink, Remember
  <2>5. symlinks_so_far' \in Seq(Path) \cup {NULL}
    <3>1. ASSUME symlinks_so_far \in Seq(Path), intermediate_path \in Path
          PROVE  Append(symlinks_so_far, intermediate_path) \in Seq(Path)
      BY <3>1, AppendProperties
    <3> QED
      BY <2>4, <3>1 DEF TInv
  <2>6. UNCHANGED <<fs, changed, request, errno, expected_errno, final_component,
                    initial_pathname, lookup_directory, component,
                    intermediate_path_st, number_of_symlinks_followed, caller>>
    BY <1>12 DEF ReadTheLink, Remember
  <2> HIDE DEF body
  <2> QED
    BY <2>3, <2>5, <2>6 DEF TInv
<1>13. CASE DanglingLink
  BY <1>0, <1>13, ReturnType DEF DanglingLink, TInv
<1>14. CASE FollowTheLink
  <2>1. lookup_directory' \in Path
    BY <1>14, ConstantPaths DEF FollowTheLink, lookup_after_link, TInv
  <2>2. intermediate_path_st' \in Statuses
    BY <1>14, StatusType DEF FollowTheLink, TInv
  <2>3. number_of_symlinks_followed' \in Nat
    BY <1>14 DEF FollowTheLink, one_more, TInv
  <2> QED
    BY <1>0, <1>14, <2>1, <2>2, <2>3 DEF FollowTheLink, one_more, GoTo, TInv
<1>15. CASE NoInterpreter
  <2> DEFINE found == IF ReadScript(fs, intermediate_path) # Empty
                      THEN "too_many_interpreters"
                      ELSE search_check(intermediate_path_st, final_component)
  <2>1. found \in Reasons
    BY <1>0, SearchReason
  <2>2. Return(IF found = "none" THEN -1 ELSE 0, found)
    BY <1>15 DEF NoInterpreter
  <2> HIDE DEF found
  <2> QED
    BY <1>15, <2>1, <2>2, ReturnType DEF NoInterpreter, TInv
<1>16. CASE CallForInterpreter
  <2>1. ReadScript(fs, intermediate_path) \in Path
    BY ScriptType DEF TInv
  <2>2. final_interpreter \in Finals
    BY DEF Finals
  <2>3. caller' \in Frames
    BY <1>16 DEF CallForInterpreter, Frames, TInv
  <2> QED
    BY <1>16, <2>1, <2>2, <2>3 DEF CallForInterpreter, GoTo, TInv
<1>17. CASE ReturnToCaller
  <2> DEFINE found == IF result = 0 THEN why
                      ELSE search_check(caller.st, caller.final_component)
  <2>1. found \in Reasons
    BY SearchReason DEF TInv
  <2>2. result' = (IF found = "none" THEN -1 ELSE 0) /\ why' = found
    BY <1>17 DEF ReturnToCaller
  <2>3. result' \in {0, -1} /\ why' \in Reasons
    BY <2>1, <2>2
  <2>4. /\ symlinks_so_far' \in Seq(Path) \cup {NULL}
        /\ number_of_symlinks_followed' \in Nat /\ caller' = NULL
    BY <1>17 DEF ReturnToCaller, Frames, TInv
  <2> QED
    BY <1>17, <2>3, <2>4 DEF ReturnToCaller, TInv
<1>18. CASE Change
  BY <1>18 DEF Change, TInv
<1>19. CASE UNCHANGED vars
  BY <1>19 DEF vars, TInv
<1> QED
  BY <1>1, <1>2, <1>3, <1>4, <1>5, <1>6, <1>7, <1>8, <1>9, <1>10, <1>11, <1>12,
     <1>13, <1>14, <1>15, <1>16, <1>17, <1>18, <1>19 DEF Next, Call, Done

-----------------------------------------------------------------------------
(* The list of links.  "walking" is between the allocation of the list and *)
(* the return; "held" is what the list holds by then, "counted" or not.    *)
walking == pc \in {"lookup", "intermediate", "readlink", "target",
                   "interpreter", "abort"}

uncounted == IF pc = "target" THEN 1 ELSE 0

LInv ==
    /\ number_of_symlinks_followed \in 0 .. SYMLOOP_MAX
    /\ walking => number_of_symlinks_followed < SYMLOOP_MAX
    /\ walking /\ symlinks_so_far # NULL
       => Len(symlinks_so_far) = number_of_symlinks_followed + uncounted
    /\ symlinks_so_far # NULL => IsInjective(symlinks_so_far)
    /\ pc = "readlink" => ~seen_before
    /\ caller # NULL =>
        /\ ~final_component.follow_interpreter
        /\ caller.number < SYMLOOP_MAX
        /\ caller.symlinks_so_far # NULL => IsInjective(caller.symlinks_so_far)

-----------------------------------------------------------------------------
(* The heap: the blocks of this call, and those of the call it was made    *)
(* from.  A frame that returns keeps its own only on two ways out.         *)
Blocks(d, n) == {<<d, i>> : i \in 0 .. n}

own  == IF symlinks_so_far = NULL THEN {}
        ELSE Blocks(depth, number_of_symlinks_followed + uncounted)
lent == IF caller = NULL \/ caller.symlinks_so_far = NULL THEN {}
        ELSE Blocks(0, caller.number)

HInv ==
    /\ pc = "begin" => heap = lent
    /\ walking => heap = own \cup lent
    /\ pc = "return" =>
        /\ lent \subseteq heap
        /\ \/ heap = lent
           \/ why \in {"not_a_subdirectory", "dangling_symbolic_link"} /\ result = 0
    /\ heap \subseteq {0, 1} \X (0 .. SYMLOOP_MAX)

-----------------------------------------------------------------------------
(* What a step does to the memory: five kinds, and four steps of a kind of *)
(* their own.                                                              *)
Kept == UNCHANGED <<symlinks_so_far, number_of_symlinks_followed,
                    final_component, caller>>

Closes ==
    /\ walking /\ pc # "target" /\ pc' = "return"
    /\ heap' = heap \ list_blocks
    /\ Kept

Forgets ==
    /\ walking /\ pc' = "return"
    /\ result' = 0 /\ why' \in {"not_a_subdirectory", "dangling_symbolic_link"}
    /\ heap' \in {heap, heap \ list_blocks}
    /\ Kept

Advances ==
    /\ walking /\ pc # "target"
    /\ pc' \in {"lookup", "intermediate", "readlink", "interpreter", "abort"}
    /\ pc' = "readlink" => ~seen_before /\ UNCHANGED intermediate_path
    /\ heap' = heap
    /\ Kept

Refuses == pc = "begin" /\ pc' = "return" /\ heap' = heap /\ Kept

Stands == UNCHANGED <<pc, result, why, intermediate_path, heap>> /\ Kept

LEMMA ExistingKind ==
    ASSUME NEW st, Existing(st), walking, pc # "target",
           UNCHANGED <<final_component, caller>>
    PROVE  Closes \/ Forgets \/ Advances
<1> USE DEF memory, Kept
<1>1. CASE BareReturn(0, "not_a_subdirectory")
  BY <1>1 DEF BareReturn, Forgets
<1>2. CASE GoTo("lookup") /\ UNCHANGED memory
  BY <1>2 DEF GoTo, Advances
<1>3. CASE GoTo("interpreter") /\ UNCHANGED memory
  BY <1>3 DEF GoTo, Advances
<1>4. CASE \E value, found : Return(value, found)
  BY <1>4 DEF Return, Closes
<1> QED
  BY <1>1, <1>2, <1>3, <1>4 DEF Existing

LEMMA Kinds ==
    ASSUME [Next]_vars
    PROVE  \/ Closes \/ Forgets \/ Advances \/ Refuses \/ Stands
           \/ Begin \/ ReadTheLink \/ FollowTheLink
           \/ CallForInterpreter \/ ReturnToCaller
<1> USE DEF world, failure, args, walk, inter, memory, verdict, Kept
<1>1. CASE EmptyPathname \/ PathnameTooLong
  BY <1>1 DEF EmptyPathname, PathnameTooLong, BareReturn, Refuses
<1>2. CASE LookupDirectoryFails
  <2>1. \E value, found : Return(value, found)
    BY <1>2 DEF LookupDirectoryFails
  <2> QED
    BY <1>2, <2>1 DEF LookupDirectoryFails, Return, Closes, walking
<1>3. CASE AssertionFails
  BY <1>3 DEF AssertionFails, GoTo, Advances, walking
<1>4. CASE LookupDirectoryUnfit
  <2>1. \E value, found : Return(value, found)
    BY <1>4 DEF LookupDirectoryUnfit
  <2> QED
    BY <1>4, <2>1 DEF LookupDirectoryUnfit, Return, Closes, walking
<1>5. CASE NextComponent
  <2>1. pc = "lookup" /\ UNCHANGED <<final_component, caller>>
    BY <1>5 DEF NextComponent
  <2>2. CASE Return(0, "name_too_long")
    BY <2>1, <2>2 DEF Return, Closes, walking
  <2>3. CASE GoTo("intermediate") /\ UNCHANGED memory
    BY <2>1, <2>3 DEF GoTo, Advances, walking
  <2> QED
    BY <1>5, <2>2, <2>3 DEF NextComponent
<1>6. CASE IntermediateFails
  <2>1. \E value, found : Return(value, found)
    BY <1>6 DEF IntermediateFails
  <2> QED
    BY <1>6, <2>1 DEF IntermediateFails, Return, Closes, walking
<1>7. CASE IntermediateExists
  BY <1>7, ExistingKind DEF IntermediateExists, walking
<1>8. CASE SymbolicLink
  <2>1. pc = "intermediate" /\ UNCHANGED <<final_component, caller, intermediate_path>>
    BY <1>8 DEF SymbolicLink
  <2>2. CASE Return(0, "symlink_loop")
    BY <2>1, <2>2 DEF Return, Closes, walking
  <2>3. CASE ~seen_before /\ GoTo("readlink") /\ UNCHANGED memory
    BY <2>1, <2>3 DEF GoTo, Advances, walking
  <2> QED
    BY <1>8, <2>2, <2>3 DEF SymbolicLink
<1>9. CASE ReadlinkFails
  BY <1>9, ExistingKind DEF ReadlinkFails, walking
<1>10. CASE DanglingLink
  BY <1>10 DEF DanglingLink, Return, Forgets, walking
<1>11. CASE NoInterpreter
  <2>1. \E value, found : Return(value, found)
    BY <1>11 DEF NoInterpreter
  <2> QED
    BY <1>11, <2>1 DEF NoInterpreter, Return, Closes, walking
<1>12. CASE Change
  BY <1>12 DEF Change, Stands
<1>13. CASE UNCHANGED vars
  BY <1>13 DEF vars, Stands
<1> QED
  BY <1>1, <1>2, <1>3, <1>4, <1>5, <1>6, <1>7, <1>8, <1>9, <1>10, <1>11, <1>12,
     <1>13 DEF Next, Call, Done

-----------------------------------------------------------------------------
(* A link that is not in the list may be appended to it. *)
LEMMA LinkAppended ==
    ASSUME NEW list \in Seq(Path), NEW link \in Path,
           IsInjective(list), ~Contains(list, link)
    PROVE  /\ IsInjective(Append(list, link))
           /\ Len(Append(list, link)) = Len(list) + 1
<1> DEFINE longer == Append(list, link)
<1>0. longer = Append(list, link)
  OBVIOUS
<1>1. /\ Len(longer) = Len(list) + 1 /\ Len(list) \in Nat
      /\ DOMAIN longer = 1 .. Len(list) + 1 /\ DOMAIN list = 1 .. Len(list)
      /\ \A i \in 1 .. Len(list) : longer[i] = list[i]
      /\ longer[Len(list) + 1] = link
  BY AppendProperties, LenProperties
<1>2. \A i \in 1 .. Len(list) : list[i] # link
  BY DEF Contains
<1> HIDE DEF longer
<1>3. ASSUME NEW i \in DOMAIN longer, NEW j \in DOMAIN longer, longer[i] = longer[j]
      PROVE  i = j
  BY <1>1, <1>2, <1>3 DEF IsInjective
<1> QED
  BY <1>0, <1>1, <1>3 DEF IsInjective

LEMMA EmptyInjective == IsInjective(<<>>) /\ Len(<<>>) = 0
  BY DEF IsInjective

LEMMA ListInitial == Init => LInv
  BY SymloopAssumption DEF Init, LInv, walking

LEMMA ListInductive == TInv /\ LInv /\ [Next]_vars => LInv'
<1> SUFFICES ASSUME TInv, LInv, [Next]_vars PROVE LInv'
  OBVIOUS
<1>1. CASE Closes \/ Forgets \/ Refuses
  <2>1. pc' = "return" /\ Kept
    BY <1>1 DEF Closes, Forgets, Refuses
  <2> QED
    BY <2>1 DEF LInv, Kept, walking
<1>2. CASE Advances
  <2>1. walking /\ uncounted = 0 /\ uncounted' = 0 /\ Kept
    BY <1>2 DEF Advances, uncounted
  <2>2. pc' = "readlink" => ~seen_before'
    BY <1>2 DEF Advances, seen_before, Kept
  <2> QED
    BY <2>1, <2>2 DEF LInv, Kept
<1>3. CASE Stands
  <2>1. walking' = walking /\ uncounted' = uncounted /\ seen_before' = seen_before
    BY <1>3 DEF Stands, Kept, walking, uncounted, seen_before
  <2> QED
    BY <1>3, <2>1 DEF LInv, Kept, Stands
<1>4. CASE Begin
  <2>1. /\ number_of_symlinks_followed' = 0
        /\ symlinks_so_far' \in {<<>>, NULL}
        /\ pc' \in {"return", "lookup"}
        /\ UNCHANGED <<final_component, caller>>
    BY <1>4 DEF Begin, GoTo, args
  <2>2. uncounted' = 0
    BY <2>1 DEF uncounted
  <2>3. symlinks_so_far' # NULL
        => IsInjective(symlinks_so_far') /\ Len(symlinks_so_far') = 0
    BY <2>1, EmptyInjective
  <2> QED
    BY <2>1, <2>2, <2>3, SymloopAssumption DEF LInv
<1>5. CASE ReadTheLink
  <2>1. /\ pc = "readlink" /\ pc' \in {"return", "target"}
        /\ UNCHANGED <<number_of_symlinks_followed, final_component, caller>>
    BY <1>5 DEF ReadTheLink, Follow, GoTo, Remember, memory, args
  <2>2. \/ symlinks_so_far' = NULL
        \/ /\ symlinks_so_far # NULL /\ pc' = "target"
           /\ symlinks_so_far' = Append(symlinks_so_far, intermediate_path)
    BY <1>5 DEF ReadTheLink, Follow, GoTo, Remember, memory
  <2>3. CASE symlinks_so_far' = NULL
    BY <2>1, <2>3 DEF LInv, walking
  <2>4. CASE /\ symlinks_so_far # NULL /\ pc' = "target"
             /\ symlinks_so_far' = Append(symlinks_so_far, intermediate_path)
    <3>1. /\ IsInjective(symlinks_so_far)
          /\ ~Contains(symlinks_so_far, intermediate_path)
          /\ Len(symlinks_so_far) = number_of_symlinks_followed
          /\ symlinks_so_far \in Seq(Path) /\ intermediate_path \in Path
      BY <2>1, <2>4 DEF LInv, TInv, walking, uncounted, seen_before
    <3>2. /\ IsInjective(symlinks_so_far')
          /\ Len(symlinks_so_far') = number_of_symlinks_followed + 1
      <4> DEFINE longer == Append(symlinks_so_far, intermediate_path)
      <4>1. IsInjective(longer) /\ Len(longer) = Len(symlinks_so_far) + 1
        BY <3>1, LinkAppended
      <4> HIDE DEF longer
      <4> QED
        BY <2>4, <3>1, <4>1 DEF longer, IsInjective
    <3>3. uncounted' = 1
      BY <2>4 DEF uncounted
    <3> QED
      BY <2>1, <2>4, <3>2, <3>3 DEF LInv, walking
  <2> QED
    BY <2>2, <2>3, <2>4
<1>6. CASE FollowTheLink
  <2>1. /\ pc = "target" /\ walking
        /\ number_of_symlinks_followed' = number_of_symlinks_followed + 1
        /\ UNCHANGED <<symlinks_so_far, final_component, caller>>
        /\ \/ pc' = "return"
           \/ pc' = "lookup" /\ ~(number_of_symlinks_followed' >= SYMLOOP_MAX)
    BY <1>6 DEF FollowTheLink, one_more, GoTo, args, walking, too_many
  <2>2. uncounted = 1 /\ uncounted' = 0
    BY <2>1 DEF uncounted
  <2> QED
    BY <2>1, <2>2, SymloopAssumption DEF LInv, walking
<1>7. CASE CallForInterpreter
  <2>1. /\ walking /\ pc' = "begin"
        /\ final_component' = final_interpreter
        /\ caller'.symlinks_so_far = symlinks_so_far
        /\ caller'.number = number_of_symlinks_followed
        /\ UNCHANGED <<symlinks_so_far, number_of_symlinks_followed>>
    BY <1>7 DEF CallForInterpreter, GoTo, memory, walking
  <2>2. ~final_component'.follow_interpreter
    BY <2>1 DEF final_interpreter, final_execve, final_init
  <2> QED
    BY <2>1, <2>2 DEF LInv, walking
<1>8. CASE ReturnToCaller
  <2>1. /\ pc' = "return" /\ caller # NULL /\ caller' = NULL
        /\ symlinks_so_far' = caller.symlinks_so_far
        /\ number_of_symlinks_followed' = caller.number
    BY <1>8 DEF ReturnToCaller
  <2>2. caller.number \in Nat
    BY <2>1 DEF TInv, Frames
  <2> QED
    BY <2>1, <2>2, SymloopAssumption DEF LInv, walking
<1> QED
  BY <1>1, <1>2, <1>3, <1>4, <1>5, <1>6, <1>7, <1>8, Kinds

-----------------------------------------------------------------------------
(* The heap is what the invariant says it is. *)
LEMMA Disjoint == own \cap lent = {} /\ list_blocks \cap lent = {}
  BY DEF own, lent, Blocks, depth, list_blocks

LEMMA OwnBlocks ==
    ASSUME TInv, uncounted = 0 PROVE list_blocks = own
<1>1. number_of_symlinks_followed + uncounted = number_of_symlinks_followed
  BY DEF TInv
<1> QED
  BY <1>1 DEF own, Blocks, list_blocks

LEMMA LentKept ==
    ASSUME UNCHANGED caller PROVE lent' = lent /\ depth' = depth
  BY DEF lent, Blocks, depth

LEMMA HeapInitial == Init => HInv
  BY DEF Init, HInv, walking, lent

LEMMA HeapInductive == TInv /\ LInv /\ HInv /\ [Next]_vars => HInv'
<1> SUFFICES ASSUME TInv, LInv, HInv, [Next]_vars PROVE HInv'
  OBVIOUS
<1> DEFINE Room == {0, 1} \X (0 .. SYMLOOP_MAX)
           Leaks == {"not_a_subdirectory", "dangling_symbolic_link"}
<1>0. heap \subseteq Room
  BY DEF HInv
<1>1. CASE Closes
  <2>1. heap = own \cup lent /\ uncounted = 0
    BY <1>1 DEF Closes, HInv, uncounted
  <2>2. heap' = lent
    BY <1>1, <2>1, Disjoint, OwnBlocks DEF Closes
  <2>3. lent' = lent
    BY <1>1, LentKept DEF Closes, Kept
  <2>4. heap' \subseteq Room
    BY <1>0, <2>1, <2>2
  <2> QED
    BY <1>1, <2>2, <2>3, <2>4 DEF Closes, HInv, walking
<1>2. CASE Forgets
  <2>1. heap = own \cup lent
    BY <1>2 DEF Forgets, HInv
  <2>2. lent \subseteq heap' /\ heap' \subseteq heap
    BY <1>2, <2>1, Disjoint DEF Forgets
  <2>3. lent' = lent
    BY <1>2, LentKept DEF Forgets, Kept
  <2>4. heap' \subseteq Room
    BY <1>0, <2>2
  <2> QED
    BY <1>2, <2>2, <2>3, <2>4 DEF Forgets, HInv, walking
<1>3. CASE Advances
  <2>1. heap = own \cup lent /\ uncounted = 0 /\ uncounted' = 0
    BY <1>3 DEF Advances, HInv, uncounted
  <2>2. lent' = lent /\ depth' = depth
    BY <1>3, LentKept DEF Advances, Kept
  <2>3. own' = own
    BY <1>3, <2>1, <2>2 DEF Advances, Kept, own, Blocks
  <2> QED
    BY <1>0, <1>3, <2>1, <2>2, <2>3 DEF Advances, HInv, walking
<1>4. CASE Refuses
  <2>1. heap = lent /\ heap' = heap /\ lent' = lent
    BY <1>4, LentKept DEF Refuses, HInv, Kept
  <2> QED
    BY <1>0, <1>4, <2>1 DEF Refuses, HInv, walking
<1>5. CASE Stands
  <2>1. lent' = lent /\ depth' = depth
    BY <1>5, LentKept DEF Stands, Kept
  <2>2. own' = own /\ walking' = walking
    BY <1>5, <2>1 DEF Stands, Kept, own, Blocks, uncounted, walking
  <2> QED
    BY <1>5, <2>1, <2>2 DEF Stands, HInv
<1>6. CASE Begin
  <2>1. /\ pc = "begin" /\ number_of_symlinks_followed' = 0 /\ UNCHANGED caller
        /\ \/ symlinks_so_far' = <<>> /\ heap' = heap \cup {<<depth, 0>>}
              /\ pc' = "lookup"
           \/ symlinks_so_far' = NULL /\ heap' = heap /\ pc' \in {"return", "lookup"}
    BY <1>6, PointerAssumption DEF Begin, GoTo
  <2>2. heap = lent /\ lent' = lent /\ depth' = depth
    BY <2>1, LentKept DEF HInv
  <2>3. <<depth, 0>> \in Room
    BY SymloopAssumption DEF depth
  <2>4. heap' \subseteq Room
    BY <1>0, <2>1, <2>3
  <2>5. uncounted' = 0
    BY <2>1 DEF uncounted
  <2>6. pc' # "return" => heap' = own' \cup lent'
    <3>1. CASE symlinks_so_far' = <<>> /\ heap' = heap \cup {<<depth, 0>>}
      <4>1. <<>> # NULL
        BY PointerAssumption, EmptySeq
      <4>2. own' = {<<depth, 0>>}
        BY <2>1, <2>2, <2>5, <3>1, <4>1 DEF own, Blocks
      <4> QED
        BY <2>2, <3>1, <4>2
    <3>2. CASE symlinks_so_far' = NULL /\ heap' = heap
      BY <2>2, <3>2 DEF own
    <3> QED
      BY <2>1, <3>1, <3>2
  <2> QED
    BY <2>1, <2>2, <2>4, <2>6 DEF HInv, walking
<1>7. CASE ReadTheLink
  <2>1. /\ pc = "readlink" /\ pc' \in {"return", "target"}
        /\ UNCHANGED <<number_of_symlinks_followed, caller>>
        /\ \/ /\ symlinks_so_far = NULL /\ UNCHANGED <<symlinks_so_far, heap>>
              /\ pc' = "target"
           \/ /\ symlinks_so_far # NULL /\ symlinks_so_far' = NULL
              /\ heap' = heap \ list_blocks
           \/ /\ symlinks_so_far # NULL /\ pc' = "target"
              /\ symlinks_so_far' = Append(symlinks_so_far, intermediate_path)
              /\ heap' = heap \cup {<<depth, number_of_symlinks_followed + 1>>}
    BY <1>7 DEF ReadTheLink, Follow, GoTo, Remember, memory, args
  <2>2. heap = own \cup lent /\ list_blocks = own
    BY <2>1, OwnBlocks DEF HInv, walking, uncounted
  <2>3. lent' = lent /\ depth' = depth
    BY <2>1, LentKept
  <2>4. CASE symlinks_so_far' = NULL
    <3>1. heap' = lent
      <4>1. symlinks_so_far # NULL => heap' = heap \ list_blocks
        <5>1. symlinks_so_far # NULL
              => Append(symlinks_so_far, intermediate_path) \in Seq(Path)
          BY AppendProperties DEF TInv
        <5> QED
          BY <2>1, <2>4, <5>1, PointerAssumption
      <4>2. symlinks_so_far = NULL => heap' = heap /\ own = {}
        BY <2>1 DEF own
      <4> QED
        BY <2>2, <4>1, <4>2, Disjoint
    <3>2. own' = {}
      BY <2>4 DEF own
    <3>3. heap' \subseteq Room
      BY <1>0, <2>2, <3>1
    <3> QED
      BY <2>1, <2>3, <3>1, <3>2, <3>3 DEF HInv, walking
  <2>5. CASE /\ symlinks_so_far # NULL /\ pc' = "target"
             /\ symlinks_so_far' # NULL
             /\ heap' = heap \cup {<<depth, number_of_symlinks_followed + 1>>}
    <3>1. number_of_symlinks_followed + 1 \in 0 .. SYMLOOP_MAX
      BY <2>1, SymloopAssumption DEF LInv, walking
    <3>2. heap' \subseteq Room
      BY <1>0, <2>5, <3>1 DEF depth
    <3>3. own = Blocks(depth, number_of_symlinks_followed)
      <4>1. uncounted = 0
        BY <2>1 DEF uncounted
      <4> QED
        BY <2>5, <4>1 DEF own, TInv
    <3>4. own' = Blocks(depth, number_of_symlinks_followed + 1)
      BY <2>1, <2>3, <2>5 DEF own, uncounted, Blocks
    <3>5. own' = own \cup {<<depth, number_of_symlinks_followed + 1>>}
      BY <3>1, <3>3, <3>4 DEF Blocks, TInv
    <3> QED
      BY <2>2, <2>3, <2>5, <3>2, <3>5 DEF HInv, walking
  <2> QED
    BY <2>1, <2>4, <2>5
<1>8. CASE FollowTheLink
  <2> DEFINE count == number_of_symlinks_followed + 1
  <2>1. /\ pc = "target" /\ number_of_symlinks_followed' = count
        /\ UNCHANGED <<symlinks_so_far, caller>>
        /\ \/ /\ pc' = "return"
              /\ heap' = IF symlinks_so_far = NULL THEN heap
                         ELSE heap \ {<<depth, i>> : i \in 0 .. count}
           \/ pc' = "lookup" /\ heap' = heap
    BY <1>8 DEF FollowTheLink, one_more, GoTo
  <2> HIDE DEF count
  <2>2. heap = own \cup lent /\ lent' = lent /\ depth' = depth
    BY <2>1, LentKept DEF HInv, walking
  <2>3. own = IF symlinks_so_far = NULL THEN {}
              ELSE {<<depth, i>> : i \in 0 .. count}
    BY <2>1 DEF own, uncounted, Blocks, count
  <2>4. CASE pc' = "return"
    <3>1. heap' = lent
      BY <2>1, <2>2, <2>3, <2>4, Disjoint
    <3>2. heap' \subseteq Room
      BY <1>0, <2>2, <3>1
    <3> QED
      BY <2>2, <2>4, <3>1, <3>2 DEF HInv, walking
  <2>5. CASE pc' = "lookup" /\ heap' = heap
    <3>1. count \in Nat /\ count + 0 = count
      BY DEF count, TInv
    <3>2. own' = IF symlinks_so_far = NULL THEN {}
                 ELSE {<<depth, i>> : i \in 0 .. count}
      BY <2>1, <2>2, <2>5, <3>1 DEF own, uncounted, Blocks
    <3> QED
      BY <1>0, <2>2, <2>3, <2>5, <3>2 DEF HInv, walking
  <2> QED
    BY <2>1, <2>4, <2>5
<1>9. CASE CallForInterpreter
  <2>1. /\ pc = "interpreter" /\ final_component.follow_interpreter
        /\ pc' = "begin" /\ heap' = heap
        /\ caller' # NULL
        /\ caller'.symlinks_so_far = symlinks_so_far
        /\ caller'.number = number_of_symlinks_followed
    <3>1. caller' \in Frames
      BY <1>9, TypeInductive DEF CallForInterpreter, Frames, TInv
    <3> QED
      BY <1>9, <3>1, PointerAssumption DEF CallForInterpreter, GoTo, memory
  <2>2. caller = NULL
    BY <2>1 DEF LInv
  <2>3. heap = own /\ depth = 0 /\ uncounted = 0
    BY <2>1, <2>2 DEF HInv, walking, lent, depth, uncounted
  <2>4. lent' = own
    BY <2>1, <2>3 DEF lent, own, Blocks, TInv
  <2> QED
    BY <1>0, <2>1, <2>3, <2>4 DEF HInv, walking
<1>10. CASE ReturnToCaller
  <2> DEFINE found == IF result = 0 THEN why
                      ELSE search_check(caller.st, caller.final_component)
  <2>1. /\ pc = "return" /\ pc' = "return" /\ caller # NULL /\ caller' = NULL
        /\ why' = found /\ result' = (IF found = "none" THEN -1 ELSE 0)
        /\ heap' = IF caller.symlinks_so_far = NULL THEN heap
                   ELSE heap \ {<<0, i>> : i \in 0 .. caller.number}
    BY <1>10 DEF ReturnToCaller
  <2>2. lent' = {}
    BY <2>1 DEF lent
  <2>3. heap' \subseteq Room
    BY <1>0, <2>1
  <2>4. CASE heap = lent
    <3>1. heap' = {}
      BY <2>1, <2>4 DEF lent, Blocks
    <3> QED
      BY <2>1, <2>2, <2>3, <3>1 DEF HInv, walking
  <2>5. CASE why \in Leaks /\ result = 0
    <3>1. why' \in Leaks /\ result' = 0
      BY <2>1, <2>5
    <3> QED
      BY <2>1, <2>2, <2>3, <3>1 DEF HInv, walking
  <2> QED
    BY <2>1, <2>4, <2>5 DEF HInv
<1> QED
  BY <1>1, <1>2, <1>3, <1>4, <1>5, <1>6, <1>7, <1>8, <1>9, <1>10, Kinds

-----------------------------------------------------------------------------
(* The invariant of the specification. *)
Inv == TInv /\ LInv /\ HInv

THEOREM Invariant == Spec => []Inv
<1>1. Init => Inv
  BY TypeInitial, ListInitial, HeapInitial DEF Inv
<1>2. Inv /\ [Next]_vars => Inv'
  BY TypeInductive, ListInductive, HeapInductive DEF Inv
<1> QED
  BY <1>1, <1>2, PTL DEF Spec

(* Whatever the disk holds and others do to it, every variable keeps its   *)
(* type: the verdict is one the explanations know, the links counted and   *)
(* the blocks allocated stay within SYMLOOP_MAX.                           *)
THEOREM TypeCorrect == Spec => []TypeOK
<1>1. Inv => TypeOK
  BY DEF Inv, TInv, LInv, HInv, TypeOK, Reasons
<1> QED
  BY <1>1, Invariant, PTL

(* A nested call checks an interpreter, and never makes a third call. *)
THEOREM OneNesting == Spec => []NestsOnce
<1>1. Inv => NestsOnce
  BY DEF Inv, LInv, NestsOnce
<1> QED
  BY <1>1, Invariant, PTL

(* No link is remembered twice, even while links come and go. *)
THEOREM LinkOnce == Spec => []EachLinkOnce
<1>1. Inv => EachLinkOnce
  BY DEF Inv, LInv, EachLinkOnce
<1> QED
  BY <1>1, Invariant, PTL

(* The list of SYMLOOP_MAX entries is never written past its end, and its  *)
(* length is the count that free_list and the loop go by.                  *)
THEOREM RoomForLinks == Spec => []ListHasRoom
<1>1. Inv => ListHasRoom
  BY DEF Inv, LInv, ListHasRoom, walking, uncounted
<1> QED
  BY <1>1, Invariant, PTL

(* No list is freed twice, or used after it was freed; that of the caller  *)
(* survives the nested call.                                               *)
THEOREM NoDoubleFree == Spec => []ListsAreLive
<1>1. ASSUME Inv PROVE ListsAreLive
  <2>1. TInv /\ HInv
    BY <1>1 DEF Inv
  <2>2. ASSUME walking PROVE list_blocks \subseteq heap
    <3>1. heap = own \cup lent
      BY <2>1, <2>2 DEF HInv
    <3>2. list_blocks \subseteq own
      BY <2>1 DEF list_blocks, own, Blocks, uncounted, TInv
    <3> QED
      BY <3>1, <3>2
  <2>3. pc \notin {"begin", "return"} => walking
    BY <2>1 DEF TInv, walking
  <2>4. lent \subseteq heap
    BY <2>1, <2>3 DEF HInv
  <2> QED
    BY <2>2, <2>3, <2>4 DEF ListsAreLive, lent, Blocks
<1> QED
  BY <1>1, Invariant, PTL

(* What the outermost call has not freed when it returns, it has lost in   *)
(* one of the two ways out that free too little.                           *)
THEOREM TwoLeaks == Spec => []OnlyTwoLeaks
<1>1. Inv => OnlyTwoLeaks
  BY DEF Inv, HInv, OnlyTwoLeaks, over, lent
<1> QED
  BY <1>1, Invariant, PTL

-----------------------------------------------------------------------------
(* The walk of the kernel: the recursion of WalkFrom has a solution.  What *)
(* a walk ends in is what the trace of its steps ends in.                  *)

LEMMA WalkStepType ==
    ASSUME NEW tree \in FileSystems, NEW follow,
           NEW w \in Walkers(tree)
    PROVE  WalkStep(tree, follow, w) \in Walkers(tree)
<1> DEFINE here  == tree[w.dir]
           name  == Head(w.rest)
           tail  == Tail(w.rest)
           child == here.entries[name]
           body  == tree[child].target
<1>0. /\ w.dir \in DOMAIN tree /\ w.obj \in DOMAIN tree /\ w.rest \in Seq(Name)
      /\ w.slash \in BOOLEAN /\ w.links \in Seq(DOMAIN tree) /\ w.err \in Ways
  BY DEF Walkers
<1>1. /\ \A e \in Ways : Failed(w, e) \in Walkers(tree)
      /\ \A obj \in DOMAIN tree : Reached(w, obj) \in Walkers(tree)
      /\ \A dir \in DOMAIN tree :
            Failed([w EXCEPT !.dir = dir], "ENOTDIR") \in Walkers(tree)
  <2>1. ASSUME NEW e \in Ways PROVE Failed(w, e) \in Walkers(tree)
    BY DEF Walkers, Failed
  <2>0. "found" \in Ways /\ "ENOTDIR" \in Ways
    BY DEF Ways
  <2>2. ASSUME NEW obj \in DOMAIN tree PROVE Reached(w, obj) \in Walkers(tree)
    BY <2>0 DEF Walkers, Reached
  <2>3. ASSUME NEW dir \in DOMAIN tree
        PROVE  Failed([w EXCEPT !.dir = dir], "ENOTDIR") \in Walkers(tree)
    BY <2>0 DEF Walkers, Failed
  <2> QED
    BY <2>1, <2>2, <2>3
<1>2. w.rest # <<>> => tail \in Seq(Name)
  BY <1>0, HeadTailProperties
<1>3. name \in DOMAIN here.entries => child \in DOMAIN tree
  BY <1>0, TreesAreTrees DEF IsTree
<1>4. ASSUME child \in DOMAIN tree, w.rest # <<>>
      PROVE  Spliced(tree, w, child, tail) \in Walkers(tree)
  <2>1. body \in Path
    BY <1>4, TreesAreTrees DEF IsTree
  <2>2. Root \in DOMAIN tree
    BY TreesAreTrees DEF IsTree
  <2>3. body.names \o tail \in Seq(Name)
    BY <1>2, <1>4, <2>1, ConcatProperties DEF Path
  <2>4. Append(w.links, child) \in Seq(DOMAIN tree)
    BY <1>0, <1>4, AppendProperties
  <2>5. body.slash \in BOOLEAN
    BY <2>1 DEF Path
  <2> DEFINE dir == IF body.abs THEN Root ELSE w.dir
             slash == w.slash \/ (tail = <<>> /\ body.slash)
  <2>6. dir \in DOMAIN tree
    BY <1>0, <2>2
  <2>7. slash \in BOOLEAN
    BY <1>0, <2>5
  <2>8. Spliced(tree, w, child, tail) =
          [w EXCEPT !.dir = dir, !.rest = body.names \o tail, !.slash = slash,
                    !.links = Append(w.links, child)]
    BY DEF Spliced
  <2> HIDE DEF dir, slash, child, body, tail
  <2> QED
    BY <2>3, <2>4, <2>6, <2>7, <2>8 DEF Walkers
<1>5. ASSUME child \in DOMAIN tree, w.rest # <<>>
      PROVE  [w EXCEPT !.dir = child, !.rest = tail] \in Walkers(tree)
  <2> HIDE DEF child, tail
  <2> QED
    BY <1>2, <1>5 DEF Walkers
<1>6. \/ WalkStep(tree, follow, w) \in {Failed(w, e) : e \in Ways}
      \/ WalkStep(tree, follow, w) = Reached(w, w.dir)
      \/ /\ name \in DOMAIN here.entries /\ w.rest # <<>>
         /\ \/ WalkStep(tree, follow, w) = Spliced(tree, w, child, tail)
            \/ WalkStep(tree, follow, w) = [w EXCEPT !.dir = child, !.rest = tail]
            \/ WalkStep(tree, follow, w) = Failed([w EXCEPT !.dir = child], "ENOTDIR")
            \/ WalkStep(tree, follow, w) = Reached(w, child)
  BY DEF WalkStep, Ways
<1> HIDE DEF here, name, tail, child, body
<1> QED
  BY <1>0, <1>1, <1>3, <1>4, <1>5, <1>6

Trace(tree, follow, w, v) ==
    \E n \in Nat : \E s \in [0 .. n -> Walkers(tree)] :
        /\ s[0] = w /\ s[n] = v /\ v.err # "none"
        /\ \A i \in 0 .. n - 1 :
              s[i].err = "none" /\ s[i + 1] = WalkStep(tree, follow, s[i])

Ends(tree, follow, w) == {v \in Walkers(tree) : Trace(tree, follow, w, v)}

LEMMA EndsOfEnded ==
    ASSUME NEW tree, NEW follow, NEW w \in Walkers(tree), w.err # "none"
    PROVE  Ends(tree, follow, w) = {w}
<1>1. Trace(tree, follow, w, w)
  <2> DEFINE s == [i \in 0 .. 0 |-> w]
  <2>1. /\ s \in [0 .. 0 -> Walkers(tree)] /\ s[0] = w
        /\ \A i \in 0 .. 0 - 1 :
              s[i].err = "none" /\ s[i + 1] = WalkStep(tree, follow, s[i])
    OBVIOUS
  <2> HIDE DEF s
  <2> QED
    BY <2>1 DEF Trace
<1>2. ASSUME NEW v, Trace(tree, follow, w, v) PROVE v = w
  <2>1. PICK n \in Nat : \E s \in [0 .. n -> Walkers(tree)] :
            /\ s[0] = w /\ s[n] = v
            /\ \A i \in 0 .. n - 1 : s[i].err = "none"
    BY <1>2 DEF Trace
  <2>2. CASE n = 0
    BY <2>1, <2>2
  <2>3. CASE n # 0
    <3>1. 0 \in 0 .. n - 1
      BY <2>3
    <3> QED
      BY <2>1, <3>1
  <2> QED
    BY <2>2, <2>3
<1> QED
  BY <1>1, <1>2 DEF Ends

LEMMA EndsOfStep ==
    ASSUME NEW tree, NEW follow, NEW w \in Walkers(tree), w.err = "none",
           WalkStep(tree, follow, w) \in Walkers(tree)
    PROVE  Ends(tree, follow, w) = Ends(tree, follow, WalkStep(tree, follow, w))
<1> DEFINE next == WalkStep(tree, follow, w)
<1>1. ASSUME NEW v, Trace(tree, follow, w, v) PROVE Trace(tree, follow, next, v)
  <2>0. PICK n \in Nat : \E s \in [0 .. n -> Walkers(tree)] :
            /\ s[0] = w /\ s[n] = v /\ v.err # "none"
            /\ \A i \in 0 .. n - 1 :
                  s[i].err = "none" /\ s[i + 1] = WalkStep(tree, follow, s[i])
    BY <1>1 DEF Trace
  <2>1. PICK s \in [0 .. n -> Walkers(tree)] :
            /\ s[0] = w /\ s[n] = v /\ v.err # "none"
            /\ \A i \in 0 .. n - 1 :
                  s[i].err = "none" /\ s[i + 1] = WalkStep(tree, follow, s[i])
    BY <2>0
  <2>2. n # 0
    BY <2>1
  <2>3. PICK m \in Nat : n = m + 1
    <3>1. n - 1 \in Nat /\ n = (n - 1) + 1
      BY <2>2
    <3> QED
      BY <3>1
  <2> DEFINE t == [i \in 0 .. m |-> s[i + 1]]
  <2>4. t \in [0 .. m -> Walkers(tree)]
    BY <2>3
  <2>5. t[0] = next
    BY <2>1, <2>3
  <2>6. t[m] = v
    BY <2>1, <2>3
  <2>7. ASSUME NEW i \in 0 .. m - 1
        PROVE  t[i].err = "none" /\ t[i + 1] = WalkStep(tree, follow, t[i])
    <3>1. i + 1 \in 0 .. n - 1 /\ t[i] = s[i + 1] /\ t[i + 1] = s[(i + 1) + 1]
      BY <2>3
    <3> HIDE DEF t
    <3> QED
      BY <2>1, <3>1
  <2> HIDE DEF t
  <2> QED
    BY <2>1, <2>4, <2>5, <2>6, <2>7 DEF Trace
<1>2. ASSUME NEW v, Trace(tree, follow, next, v) PROVE Trace(tree, follow, w, v)
  <2>0. PICK n \in Nat : \E s \in [0 .. n -> Walkers(tree)] :
            /\ s[0] = next /\ s[n] = v /\ v.err # "none"
            /\ \A i \in 0 .. n - 1 :
                  s[i].err = "none" /\ s[i + 1] = WalkStep(tree, follow, s[i])
    BY <1>2 DEF Trace
  <2>1. PICK s \in [0 .. n -> Walkers(tree)] :
            /\ s[0] = next /\ s[n] = v /\ v.err # "none"
            /\ \A i \in 0 .. n - 1 :
                  s[i].err = "none" /\ s[i + 1] = WalkStep(tree, follow, s[i])
    BY <2>0
  <2> DEFINE t == [i \in 0 .. n + 1 |-> IF i = 0 THEN w ELSE s[i - 1]]
  <2>2. t \in [0 .. n + 1 -> Walkers(tree)]
    OBVIOUS
  <2>3. t[0] = w /\ t[n + 1] = v /\ n + 1 \in Nat
    BY <2>1
  <2>4. ASSUME NEW i \in 0 .. n
        PROVE  t[i].err = "none" /\ t[i + 1] = WalkStep(tree, follow, t[i])
    <3>1. CASE i = 0
      <4>1. t[0] = w /\ t[0 + 1] = s[0]
        OBVIOUS
      <4> HIDE DEF t
      <4> QED
        BY <2>1, <3>1, <4>1
    <3>2. CASE i # 0
      <4>1. i - 1 \in 0 .. n - 1 /\ (i - 1) + 1 = i
            /\ t[i] = s[i - 1] /\ t[i + 1] = s[i]
        BY <3>2
      <4> HIDE DEF t
      <4> QED
        BY <2>1, <4>1
    <3> QED
      BY <3>1, <3>2
  <2>5. 0 .. (n + 1) - 1 = 0 .. n
    OBVIOUS
  <2> HIDE DEF t
  <2> QED
    BY <2>1, <2>2, <2>3, <2>4, <2>5 DEF Trace
<1> QED
  BY <1>1, <1>2 DEF Ends

(* The walk goes on from every step as it went on before it. *)
LEMMA WalkUnfolds ==
    ASSUME NEW tree \in FileSystems, NEW follow, NEW w \in Walkers(tree)
    PROVE  WalkFrom(tree, follow, w) =
             IF w.err # "none" THEN w
             ELSE WalkFrom(tree, follow, WalkStep(tree, follow, w))
<1> DEFINE Def(f) == [x \in Walkers(tree) |->
                        IF x.err # "none" THEN x ELSE f[WalkStep(tree, follow, x)]]
           after == CHOOSE f : f = Def(f)
           end == [x \in Walkers(tree) |-> CHOOSE v : v \in Ends(tree, follow, x)]
<1>1. end = Def(end)
  <2>1. ASSUME NEW x \in Walkers(tree)
        PROVE  end[x] = IF x.err # "none" THEN x ELSE end[WalkStep(tree, follow, x)]
    <3>1. CASE x.err # "none"
      BY <3>1, EndsOfEnded
    <3>2. CASE x.err = "none"
      <4>1. PICK y \in Walkers(tree) : y = WalkStep(tree, follow, x)
        BY WalkStepType
      <4>2. Ends(tree, follow, x) = Ends(tree, follow, y)
        BY <3>2, <4>1, EndsOfStep
      <4> QED
        BY <3>2, <4>1, <4>2
    <3> QED
      BY <3>1, <3>2
  <2> QED
    BY <2>1
<1>2. after = Def(after)
  <2> HIDE DEF Def, end
  <2> QED
    BY <1>1
<1>3. \A x : WalkFrom(tree, follow, x) = after[x]
  BY Zenon DEF WalkFrom
<1>4. WalkStep(tree, follow, w) \in Walkers(tree)
  BY WalkStepType
<1> HIDE DEF after
<1>5. after[w] = IF w.err # "none" THEN w ELSE after[WalkStep(tree, follow, w)]
  BY <1>2
<1> QED
  BY <1>3, <1>5

-----------------------------------------------------------------------------
(* The lookup directory.  "/" and "." are no links; what is looked up in   *)
(* later has just been seen to be a directory.                             *)
LinkAt(tree, path) ==
    Lstat(tree, path).errno = "OK" /\ Lstat(tree, path).st.type = "lnk"

LEMMA WalkerType ==
    ASSUME NEW tree \in FileSystems, NEW path \in Path
    PROVE  Walker(path) \in Walkers(tree)
<1>1. Root \in DOMAIN tree /\ Cwd \in DOMAIN tree
  BY TreesAreTrees DEF IsTree
<1>2. /\ path.names \in Seq(Name) /\ path.slash \in BOOLEAN
      /\ <<>> \in Seq(DOMAIN tree)
  BY EmptySeq DEF Path
<1> QED
  BY <1>1, <1>2 DEF Walker, Walkers, Ways

LEMMA LstatAnswer ==
    ASSUME NEW tree, NEW path, NEW w, WalkFrom(tree, FALSE, Walker(path)) = w,
           LinkAt(tree, path)
    PROVE  w.err = "found" /\ tree[w.obj].type = "lnk"
<1>1. Lstat(tree, path) =
        IF Found(tree, w) THEN [errno |-> "OK", st |-> StatOf(tree[w.obj])]
        ELSE [errno |-> IF w.err \in {"EACCES", "ELOOP", "ENAMETOOLONG", "ENOTDIR"}
                        THEN w.err ELSE "ENOENT"]
  BY DEF Lstat
<1>2. Found(tree, w)
  BY <1>1 DEF LinkAt
<1>3. Lstat(tree, path).st = StatOf(tree[w.obj])
  BY <1>1, <1>2
<1> QED
  BY <1>2, <1>3 DEF LinkAt, StatOf, Found

LEMMA RootIsNoLink ==
    ASSUME NEW tree \in FileSystems PROVE ~LinkAt(tree, RootPath)
<1> DEFINE w == Walker(RootPath)
<1>0. RootPath \in Path
  BY EmptySeq DEF RootPath, Abs, Path
<1>1. w \in Walkers(tree)
  BY <1>0, WalkerType
<1>2. w.dir = Root /\ w.rest = <<>> /\ w.err # "found"
  BY DEF Walker, RootPath, Abs
<1>3. CASE w.err # "none"
  <2>1. WalkFrom(tree, FALSE, w) = w
    BY <1>1, <1>3, WalkUnfolds
  <2> QED
    BY <1>2, <2>1, LstatAnswer
<1>4. CASE w.err = "none"
  <2>1. WalkStep(tree, FALSE, w) = Reached(w, Root)
    BY <1>2 DEF WalkStep
  <2>2. Reached(w, Root) \in Walkers(tree)
    BY <1>1, <2>1, WalkStepType
  <2>3. Reached(w, Root).err = "found" /\ Reached(w, Root).obj = Root
    BY <1>1 DEF Reached, Walkers
  <2>4. WalkFrom(tree, FALSE, w) = Reached(w, Root)
    <3> HIDE DEF w
    <3>1. PICK v \in Walkers(tree) : v = Reached(w, Root) /\ v.err = "found"
      BY <2>2, <2>3
    <3>2. WalkStep(tree, FALSE, w) = v
      BY <2>1, <3>1
    <3>3. WalkFrom(tree, FALSE, w) = WalkFrom(tree, FALSE, v)
      BY <1>1, <1>4, <3>2, WalkUnfolds
    <3>4. WalkFrom(tree, FALSE, v) = v
      BY <3>1, WalkUnfolds
    <3> QED
      BY <3>1, <3>3, <3>4
  <2>5. tree[Root].type # "lnk"
    BY TreesAreTrees DEF IsTree
  <2> QED
    BY <2>3, <2>4, <2>5, LstatAnswer
<1> QED
  BY <1>3, <1>4

LEMMA DotIsNoLink ==
    ASSUME NEW tree \in FileSystems PROVE ~LinkAt(tree, DotPath)
<1> DEFINE w == Walker(DotPath)
           v == WalkStep(tree, FALSE, w)
<1>0. DotPath \in Path
  BY ConstantPaths
<1>1. w \in Walkers(tree) /\ v \in Walkers(tree)
  BY <1>0, WalkerType, WalkStepType
<1>2. w.dir = Cwd /\ w.rest = <<".">> /\ w.err # "found" /\ w.slash = FALSE
  BY DEF Walker, DotPath, Rel
<1>3. CASE w.err # "none"
  <2>1. WalkFrom(tree, FALSE, w) = w
    BY <1>1, <1>3, WalkUnfolds
  <2> QED
    BY <1>2, <2>1, LstatAnswer
<1>4. CASE w.err = "none"
  <2>1. w.rest # <<>> /\ Head(w.rest) = "." /\ Tail(w.rest) = <<>>
    BY <1>2
  <2>2. /\ tree[Cwd].type = "dir"
        /\ "." \in DOMAIN tree[Cwd].entries => tree[Cwd].entries["."] = Cwd
    BY TreesAreTrees DEF IsTree
  <2>3. (\E e \in Ways \ {"none", "found"} : v = Failed(w, e)) \/ v = Reached(w, Cwd)
    BY <1>2, <2>1, <2>2 DEF WalkStep, Ways
  <2>4. v.err # "none" /\ (v.err = "found" => v.obj = Cwd)
    BY <1>1, <2>3 DEF Failed, Reached, Walkers, Ways
  <2>5. WalkFrom(tree, FALSE, w) = v
    <3> HIDE DEF w
    <3>1. WalkFrom(tree, FALSE, w) = WalkFrom(tree, FALSE, v)
      BY <1>1, <1>4, WalkUnfolds
    <3> HIDE DEF v
    <3> QED
      BY <1>1, <2>4, <3>1, WalkUnfolds
  <2> HIDE DEF v
  <2> QED
    BY <2>2, <2>4, <2>5, LstatAnswer
<1> QED
  BY <1>3, <1>4

DInv ==
    /\ pc = "readlink" => intermediate_path_st.type = "lnk"
    /\ quiet => /\ pc \in {"lookup", "intermediate", "readlink", "target"}
                   => ~LinkAt(fs, lookup_directory)
                /\ pc # "abort"

LEMMA DirectoryInitial == Init => DInv
  BY DEF Init, DInv

(* The ways to move on from a path that exists. *)
LEMMA ExistingMoves ==
    ASSUME NEW st, Existing(st)
    PROVE  /\ pc' \in {"return", "lookup", "interpreter"}
           /\ pc' = "lookup" => st.type = "dir" /\ lookup_directory' = intermediate_path
  BY DEF Existing, BareReturn, Return, GoTo

LEMMA DirectoryInductive == TInv /\ DInv /\ [Next]_vars => DInv'
<1> SUFFICES ASSUME TInv, DInv, [Next]_vars PROVE DInv'
  OBVIOUS
<1> USE DEF world, failure, args, walk, inter, memory, verdict
<1>0. fs \in FileSystems
  BY DEF TInv
<1>1. CASE pc' = "return" /\ UNCHANGED world
  BY <1>1 DEF DInv
<1>2. CASE Begin
  <2>1. pc' \in {"return", "lookup"} /\ UNCHANGED world
        /\ (pc' = "lookup" => lookup_directory' \in {RootPath, DotPath})
    BY <1>2 DEF Begin, GoTo
  <2>2. pc' = "lookup" => ~LinkAt(fs, lookup_directory')
    BY <1>0, <2>1, RootIsNoLink, DotIsNoLink
  <2> QED
    BY <2>1, <2>2 DEF DInv
<1>3. CASE AssertionFails
  <2>1. /\ pc = "lookup" /\ pc' = "abort" /\ UNCHANGED world
        /\ LinkAt(fs, lookup_directory)
    BY <1>3 DEF AssertionFails, GoTo, LinkAt
  <2> QED
    BY <2>1 DEF DInv, quiet
<1>4. CASE NextComponent
  <2>1. pc = "lookup" /\ pc' \in {"return", "intermediate"}
        /\ UNCHANGED <<world, lookup_directory>>
    BY <1>4 DEF NextComponent, Return, GoTo
  <2> QED
    BY <2>1 DEF DInv, quiet
<1>5. CASE IntermediateExists
  <2>1. /\ Lstat(fs, intermediate_path).errno = "OK"
        /\ Existing(Lstat(fs, intermediate_path).st)
        /\ UNCHANGED world
    BY <1>5 DEF IntermediateExists
  <2>2. /\ pc' \in {"return", "lookup", "interpreter"}
        /\ pc' = "lookup" => ~LinkAt(fs, lookup_directory')
    BY <2>1, ExistingMoves DEF LinkAt
  <2> QED
    BY <2>1, <2>2 DEF DInv
<1>6. CASE SymbolicLink
  <2>1. /\ pc = "intermediate" /\ pc' \in {"return", "readlink"}
        /\ intermediate_path_st'.type = "lnk"
        /\ UNCHANGED <<world, lookup_directory>>
    BY <1>6 DEF SymbolicLink, Return, GoTo, is_link_to_follow
  <2> QED
    BY <2>1 DEF DInv, quiet
<1>7. CASE ReadlinkFails
  <2>1. pc = "readlink" /\ Existing(intermediate_path_st) /\ UNCHANGED world
    BY <1>7 DEF ReadlinkFails
  <2>2. pc' \in {"return", "interpreter"}
    BY <2>1, ExistingMoves DEF DInv
  <2> QED
    BY <2>2 DEF DInv
<1>8. CASE ReadTheLink
  <2>1. pc = "readlink" /\ pc' \in {"return", "target"}
        /\ UNCHANGED <<world, lookup_directory>>
    BY <1>8 DEF ReadTheLink, Follow, GoTo
  <2> QED
    BY <2>1 DEF DInv, quiet
<1>9. CASE FollowTheLink
  <2>1. pc = "target" /\ pc' \in {"return", "lookup"} /\ UNCHANGED world
        /\ lookup_directory' \in {RootPath, lookup_directory}
    BY <1>9 DEF FollowTheLink, GoTo, lookup_after_link
  <2> QED
    BY <1>0, <2>1, RootIsNoLink DEF DInv, quiet
<1>10. CASE CallForInterpreter
  BY <1>10 DEF CallForInterpreter, GoTo, DInv
<1>11. CASE Change
  BY <1>11 DEF Change, DInv, quiet
<1>12. CASE UNCHANGED vars
  BY <1>12 DEF vars, DInv, quiet
<1>13. CASE \/ EmptyPathname \/ PathnameTooLong \/ LookupDirectoryFails
            \/ LookupDirectoryUnfit \/ IntermediateFails \/ DanglingLink
            \/ NoInterpreter \/ ReturnToCaller
  <2>1. pc' = "return" /\ UNCHANGED world
    BY <1>13 DEF EmptyPathname, PathnameTooLong, LookupDirectoryFails,
         LookupDirectoryUnfit, IntermediateFails, DanglingLink, NoInterpreter,
         ReturnToCaller, BareReturn, Return
  <2> QED
    BY <1>1, <2>1
<1> QED
  BY <1>1, <1>2, <1>3, <1>4, <1>5, <1>6, <1>7, <1>8, <1>9, <1>10, <1>11, <1>12,
     <1>13 DEF Next, Call, Done

(* Left alone, the function never meets its assertion: what the comment    *)
(* above it ensures.                                                       *)
THEOREM NoAssertionMet == Spec => []LookupDirectoryIsNoLink
<1>1. Init => TInv /\ DInv
  BY TypeInitial, DirectoryInitial
<1>2. (TInv /\ DInv) /\ [Next]_vars => (TInv /\ DInv)'
  BY TypeInductive, DirectoryInductive
<1>3. TInv /\ DInv => LookupDirectoryIsNoLink
  BY DEF DInv, LookupDirectoryIsNoLink
<1> QED
  BY <1>1, <1>2, <1>3, PTL DEF Spec

-----------------------------------------------------------------------------
(* Induction along a walk: no set of walkers is closed under the steps     *)
(* unless some walk in it has ended, since every step takes one of the     *)
(* links the kernel allows, or a component off the path.                   *)
Shortens(w, v) ==
    \/ Len(w.links) < MAXSYMLINKS /\ Len(v.links) = Len(w.links) + 1
    \/ v.links = w.links /\ Len(v.rest) < Len(w.rest)

LEMMA StepShortens ==
    ASSUME NEW tree \in FileSystems, NEW follow, NEW w \in Walkers(tree),
           NEW v, v = WalkStep(tree, follow, w), v.err = "none"
    PROVE  Shortens(w, v)
<1> DEFINE here  == tree[w.dir]
           name  == Head(w.rest)
           tail  == Tail(w.rest)
           child == here.entries[name]
<1>0. /\ w.rest \in Seq(Name) /\ w.links \in Seq(DOMAIN tree)
      /\ Len(w.links) \in Nat
  BY LenProperties DEF Walkers
<1>1. w.rest # <<>>
  <2>1. CASE w.rest = <<>>
    <3>1. v = Reached(w, w.dir)
      BY <2>1 DEF WalkStep
    <3>2. v.err = "found"
      BY <3>1 DEF Reached, Walkers
    <3> QED
      BY <3>2
  <2> QED
    BY <2>1
<1>2. Len(tail) < Len(w.rest)
  BY <1>0, <1>1, HeadTailProperties
<1>3. \A u \in Walkers(tree), e \in Ways : Failed(u, e).err = e
  BY DEF Failed, Walkers
<1>4. \/ \E e \in Ways \ {"none"} : v = Failed(w, e)
      \/ v = Reached(w, child)
      \/ ~(Len(w.links) >= MAXSYMLINKS) /\ v = Spliced(tree, w, child, tail)
      \/ v = [w EXCEPT !.dir = child, !.rest = tail]
      \/ v = Failed([w EXCEPT !.dir = child], "ENOTDIR")
  BY <1>1 DEF WalkStep, Ways
<1> HIDE DEF here, name, tail, child
<1>5. CASE (\E e \in Ways \ {"none"} : v = Failed(w, e)) \/ v = Reached(w, child)
           \/ v = Failed([w EXCEPT !.dir = child], "ENOTDIR")
  <2>1. v.err # "none"
    BY <1>5 DEF Failed, Reached, Walkers
  <2> QED
    BY <2>1
<1>6. CASE ~(Len(w.links) >= MAXSYMLINKS) /\ v = Spliced(tree, w, child, tail)
  <2>1. v.links = Append(w.links, child)
    BY <1>6 DEF Spliced, Walkers
  <2>2. Len(v.links) = Len(w.links) + 1
    BY <1>0, <2>1
  <2> QED
    BY <1>0, <1>6, <2>2, SymloopAssumption DEF Shortens
<1>7. CASE v = [w EXCEPT !.dir = child, !.rest = tail]
  <2>1. v.links = w.links /\ v.rest = tail
    BY <1>7 DEF Walkers
  <2> QED
    BY <1>2, <2>1 DEF Shortens
<1> QED
  BY <1>4, <1>5, <1>6, <1>7

LEMMA LastOfWalk ==
    ASSUME NEW tree \in FileSystems, NEW follow, NEW S \in SUBSET Walkers(tree),
           S # {}
    PROVE  \E w \in S : w.err # "none" \/ WalkStep(tree, follow, w) \notin S
<1> DEFINE left(w) == IF Len(w.links) < MAXSYMLINKS THEN MAXSYMLINKS - Len(w.links)
                      ELSE 0
<1>1. \A w \in S : /\ left(w) \in Nat /\ Len(w.rest) \in Nat /\ Len(w.links) \in Nat
  <2>1. \A w \in S : Len(w.rest) \in Nat /\ Len(w.links) \in Nat
    BY LenProperties DEF Walkers
  <2> QED
    BY <2>1, SymloopAssumption
<1>2. PICK u \in S : \A w \in S : left(u) <= left(w)
  <2> DEFINE M == {left(w) : w \in S}
  <2> HIDE DEF left
  <2>1. M \in SUBSET Nat /\ M # {}
    BY <1>1
  <2>2. PICK m \in M : \A n \in M : m <= n
    <3> HIDE DEF M
    <3> QED
      BY <2>1, LeastElement
  <2> QED
    BY <2>2
<1>3. PICK w \in S : left(w) = left(u) /\ \A v \in S : left(v) = left(u)
                                                   => Len(w.rest) <= Len(v.rest)
  <2> DEFINE T == {v \in S : left(v) = left(u)}
             M == {Len(v.rest) : v \in T}
  <2> HIDE DEF left
  <2>1. M \in SUBSET Nat /\ M # {}
    BY <1>1
  <2>2. PICK m \in M : \A n \in M : m <= n
    <3> HIDE DEF M
    <3> QED
      BY <2>1, LeastElement
  <2> QED
    BY <2>2
<1>4. PICK v : v = WalkStep(tree, follow, w)
  OBVIOUS
<1>5. CASE v \in S /\ v.err = "none"
  <2>1. Shortens(w, v)
    BY <1>4, <1>5, StepShortens
  <2>2. left(u) <= left(v) /\ (left(v) = left(u) => Len(w.rest) <= Len(v.rest))
    BY <1>2, <1>3, <1>5
  <2>3. CASE Len(w.links) < MAXSYMLINKS /\ Len(v.links) = Len(w.links) + 1
    <3>1. left(v) < left(w)
      BY <1>1, <2>3, SymloopAssumption
    <3> HIDE DEF left
    <3> QED
      BY <1>1, <1>3, <1>5, <2>2, <3>1
  <2>4. CASE v.links = w.links /\ Len(v.rest) < Len(w.rest)
    <3>1. left(v) = left(w)
      BY <2>4
    <3>2. left(v) = left(u)
      <4> HIDE DEF left
      <4> QED
        BY <1>3, <3>1
    <3>3. Len(w.rest) <= Len(v.rest)
      <4> HIDE DEF left
      <4> QED
        BY <2>2, <3>2
    <3> QED
      BY <1>1, <1>5, <2>4, <3>3
  <2> QED
    BY <2>1, <2>3, <2>4 DEF Shortens
<1> QED
  BY <1>4, <1>5

(* Every walk ends, and what it has read of links stays read. *)
Extends(longer, list) ==
    /\ Len(list) <= Len(longer)
    /\ \A i \in 1 .. Len(list) : longer[i] = list[i]

LEMMA StepExtends ==
    ASSUME NEW tree \in FileSystems, NEW follow, NEW w \in Walkers(tree)
    PROVE  Extends(WalkStep(tree, follow, w).links, w.links)
<1> DEFINE here  == tree[w.dir]
           name  == Head(w.rest)
           tail  == Tail(w.rest)
           child == here.entries[name]
           v     == WalkStep(tree, follow, w)
<1>0. w.links \in Seq(DOMAIN tree) /\ Len(w.links) \in Nat
  BY LenProperties DEF Walkers
<1>1. \/ \E e : v = Failed(w, e)
      \/ \E obj : v = Reached(w, obj)
      \/ v = Spliced(tree, w, child, tail)
      \/ v = [w EXCEPT !.dir = child, !.rest = tail]
      \/ v = Failed([w EXCEPT !.dir = child], "ENOTDIR")
  BY DEF WalkStep
<1> HIDE DEF here, name, tail, child, v
<1>2. v.links = w.links \/ v.links = Append(w.links, child)
  BY <1>1 DEF Failed, Reached, Spliced, Walkers
<1>3. Extends(w.links, w.links)
  BY <1>0 DEF Extends
<1>4. Extends(Append(w.links, child), w.links)
  BY <1>0 DEF Extends
<1> QED
  BY <1>2, <1>3, <1>4 DEF v

LEMMA ExtendsTransitive ==
    ASSUME NEW a, NEW b, NEW c, Len(a) \in Nat, Len(b) \in Nat, Len(c) \in Nat,
           Extends(a, b), Extends(b, c)
    PROVE  Extends(a, c)
  BY DEF Extends

LEMMA WalkEnds ==
    ASSUME NEW tree \in FileSystems, NEW follow, NEW w \in Walkers(tree)
    PROVE  /\ WalkFrom(tree, follow, w) \in Walkers(tree)
           /\ WalkFrom(tree, follow, w).err # "none"
           /\ Extends(WalkFrom(tree, follow, w).links, w.links)
<1> DEFINE Ok(u) == /\ WalkFrom(tree, follow, u) \in Walkers(tree)
                    /\ WalkFrom(tree, follow, u).err # "none"
                    /\ Extends(WalkFrom(tree, follow, u).links, u.links)
           S == {u \in Walkers(tree) : ~Ok(u)}
<1>1. \A u \in Walkers(tree) : Len(u.links) \in Nat
  BY LenProperties DEF Walkers
<1>2. ASSUME NEW u \in Walkers(tree), u.err # "none" PROVE Ok(u)
  <2>1. WalkFrom(tree, follow, u) = u
    BY <1>2, WalkUnfolds
  <2> QED
    BY <1>1, <1>2, <2>1 DEF Extends
<1>3. ASSUME NEW u \in Walkers(tree), Ok(WalkStep(tree, follow, u)) PROVE Ok(u)
  <2>1. CASE u.err # "none"
    BY <1>2, <2>1
  <2>2. CASE u.err = "none"
    <3>1. PICK v \in Walkers(tree) : v = WalkStep(tree, follow, u)
      BY WalkStepType
    <3>2. WalkFrom(tree, follow, u) = WalkFrom(tree, follow, v)
      BY <2>2, <3>1, WalkUnfolds
    <3>3. PICK x \in Walkers(tree) : x = WalkFrom(tree, follow, v) /\ x.err # "none"
                                     /\ Extends(x.links, v.links)
      BY <1>3, <3>1
    <3>4. Extends(v.links, u.links)
      BY <3>1, StepExtends
    <3>5. Extends(x.links, u.links)
      BY <1>1, <3>3, <3>4, ExtendsTransitive
    <3> QED
      BY <3>2, <3>3, <3>5
  <2> QED
    BY <2>1, <2>2
<1> HIDE DEF Ok
<1>4. ASSUME S # {} PROVE FALSE
  <2>1. PICK u \in S : u.err # "none" \/ WalkStep(tree, follow, u) \notin S
    <3>1. S \in SUBSET Walkers(tree)
      OBVIOUS
    <3> HIDE DEF S
    <3> QED
      BY <1>4, <3>1, LastOfWalk
  <2>2. WalkStep(tree, follow, u) \in Walkers(tree)
    BY WalkStepType
  <2>3. FALSE
    BY <1>2, <1>3, <2>1, <2>2
  <2> QED
    BY <2>3
<1>5. Ok(w)
  BY <1>4
<1> QED
  BY <1>5 DEF Ok

-----------------------------------------------------------------------------
(* Sequences of names. *)
LEMMA ConcatHeadTail ==
    ASSUME NEW s \in Seq(Name), NEW t \in Seq(Name), s # <<>>
    PROVE  /\ s \o t \in Seq(Name) /\ s \o t # <<>>
           /\ Head(s \o t) = Head(s) /\ Tail(s \o t) = Tail(s) \o t
<1>1. s \o t \in Seq(Name) /\ s \o t # <<>>
  BY ConcatProperties, ConcatEqualIffEmpty
<1>2. Head(s \o t) = Head(s)
  OBVIOUS
<1>3. Tail(s \o t) = Tail(s) \o t
  OBVIOUS
<1> QED
  BY <1>1, <1>2, <1>3

LEMMA ConcatLast ==
    ASSUME NEW s \in Seq(Name), NEW t \in Seq(Name), t # <<>>
    PROVE  Last(s \o t) = Last(t)
<1>1. Len(s \o t) = Len(s) + Len(t) /\ Len(s) \in Nat /\ Len(t) \in Nat /\ Len(t) # 0
  BY ConcatProperties, LenProperties
<1>2. (s \o t)[Len(s) + Len(t)] = t[Len(t)]
  BY <1>1, ConcatProperties
<1> QED
  BY <1>1, <1>2 DEF Last

LEMMA TailLast ==
    ASSUME NEW s \in Seq(Name), s # <<>>
    PROVE  /\ Tail(s) = <<>> => Last(s) = Head(s) /\ s = <<Head(s)>>
           /\ Tail(s) # <<>> => Last(Tail(s)) = Last(s)
           /\ Len(Tail(s)) + 1 = Len(s)
<1>1. /\ Len(s) \in Nat /\ Len(s) # 0 /\ Len(Tail(s)) = Len(s) - 1
      /\ \A i \in 1 .. Len(Tail(s)) : Tail(s)[i] = s[i + 1]
      /\ Tail(s) \in Seq(Name)
  BY HeadTailProperties, LenProperties
<1>2. Tail(s) = <<>> => Len(s) = 1
  <2>1. PICK t \in Seq(Name) : t = Tail(s) /\ Len(t) = Len(s) - 1
    BY <1>1
  <2>2. t = <<>> => Len(t) = 0
    BY EmptySeq
  <2> QED
    BY <1>1, <2>1, <2>2
<1>3. Len(s) = 1 => s = <<Head(s)>>
  OBVIOUS
<1>4. ASSUME Tail(s) # <<>> PROVE Last(Tail(s)) = Last(s)
  <2>1. Len(Tail(s)) # 0
    BY <1>1, <1>4
  <2>2. Len(Tail(s)) \in 1 .. Len(Tail(s)) /\ Len(Tail(s)) + 1 = Len(s)
    BY <1>1, <2>1
  <2> QED
    BY <1>1, <2>2 DEF Last
<1>5. Len(Tail(s)) + 1 = Len(s)
  BY <1>1
<1> QED
  BY <1>2, <1>3, <1>4, <1>5 DEF Last

LEMMA HeadAndTail ==
    ASSUME NEW c \in Name, NEW t \in Seq(Name)
    PROVE  /\ <<c>> \o t \in Seq(Name) /\ <<c>> \o t # <<>>
           /\ Head(<<c>> \o t) = c /\ Tail(<<c>> \o t) = t
  OBVIOUS

LEMMA NameAndRest ==
    ASSUME NEW s \in Seq(Name), s # <<>>
    PROVE  /\ Head(s) \in Name /\ Tail(s) \in Seq(Name)
           /\ s = <<Head(s)>> \o Tail(s)
<1>1. Head(s) \in Name /\ Tail(s) \in Seq(Name)
  BY HeadTailProperties
<1>2. s = <<Head(s)>> \o Tail(s)
  OBVIOUS
<1> QED
  BY <1>1, <1>2

(* The leading dots. *)
LEMMA NoDotsToSkip ==
    ASSUME NEW s \in Seq(Name), s # <<>>, Head(s) # "."
    PROVE  SkipDots(s) = s
<1> DEFINE kept == {i \in 1 .. Len(s) : s[i] # "."}
<1>1. Len(s) \in Nat /\ Len(s) # 0 /\ s[1] # "."
  BY LenProperties
<1>2. 1 \in kept /\ \A i \in kept : 1 <= i
  BY <1>1
<1>3. kept \subseteq Nat
  BY <1>1
<1>4. Min(kept) = 1
  <2> HIDE DEF kept
  <2>1. \A m \in kept : (\A i \in kept : m <= i) => m = 1
    BY <1>2, <1>3
  <2> QED
    BY <1>2, <2>1 DEF Min
<1>5. SubSeq(s, 1, Len(s)) = s
  BY SubSeqFull
<1> HIDE DEF kept
<1> QED
  BY <1>2, <1>4, <1>5 DEF SkipDots, kept

LEMMA DotSkipped ==
    ASSUME NEW s \in Seq(Name), s # <<>>, Head(s) = "."
    PROVE  SkipDots(s) = SkipDots(Tail(s))
<1> DEFINE kept(t) == {i \in 1 .. Len(t) : t[i] # "."}
           tail == Tail(s)
<1>1. /\ Len(s) \in Nat /\ Len(s) # 0 /\ s[1] = "."
      /\ tail \in Seq(Name) /\ Len(tail) = Len(s) - 1 /\ Len(tail) \in Nat
      /\ \A i \in 1 .. Len(tail) : tail[i] = s[i + 1]
  BY HeadTailProperties, LenProperties
<1>2. \A i \in Nat : i \in kept(tail) <=> i + 1 \in kept(s)
  <2> HIDE DEF tail
  <2>1. ASSUME NEW i \in Nat, i \in kept(tail) PROVE i + 1 \in kept(s)
    BY <1>1, <2>1
  <2>2. ASSUME NEW i \in Nat, i + 1 \in kept(s) PROVE i \in kept(tail)
    <3>1. i + 1 # 1 /\ i + 1 \in 1 .. Len(s)
      BY <1>1, <2>2
    <3>2. i \in 1 .. Len(tail)
      BY <1>1, <3>1
    <3> QED
      BY <1>1, <2>2, <3>2
  <2> QED
    BY <2>1, <2>2
<1>3. 1 \notin kept(s) /\ kept(s) \subseteq Nat \ {0} /\ kept(tail) \subseteq Nat \ {0}
  BY <1>1
<1>4. CASE kept(s) = {}
  <2>1. kept(tail) = {}
    <3> HIDE DEF kept, tail
    <3> QED
      BY <1>2, <1>3, <1>4
  <2> HIDE DEF tail
  <2> QED
    BY <1>4, <2>1 DEF SkipDots, tail
<1>5. CASE kept(s) # {}
  <2> HIDE DEF kept, tail
  <2>1. PICK m \in kept(s) : \A i \in kept(s) : m <= i
    <3>1. kept(s) \in SUBSET Nat
      BY <1>3
    <3> QED
      BY <1>5, <3>1, LeastElement
  <2>2. Min(kept(s)) = m
    <3>1. \A k \in kept(s) : (\A i \in kept(s) : k <= i) => k = m
      BY <1>3, <2>1
    <3> QED
      BY <2>1, <3>1 DEF Min
  <2>3. PICK n \in Nat : m = n + 1
    <3>1. m - 1 \in Nat /\ m = (m - 1) + 1
      BY <1>3, <2>1
    <3> QED
      BY <3>1
  <2>4. n \in kept(tail)
    BY <1>2, <2>1, <2>3
  <2>5. \A i \in kept(tail) : n <= i
    BY <1>2, <1>3, <2>1, <2>3
  <2>6. Min(kept(tail)) = n
    <3>1. \A k \in kept(tail) : (\A i \in kept(tail) : k <= i) => k = n
      BY <1>3, <2>4, <2>5
    <3> QED
      BY <2>4, <2>5, <3>1 DEF Min
  <2>7. n \in 1 .. Len(tail)
    BY <2>4 DEF kept
  <2>8. SubSeq(s, n + 1, Len(s)) = SubSeq(tail, n, Len(tail))
    <3>1. SubSeq(s, n + 1, Len(s)) \in Seq(Name) /\ SubSeq(tail, n, Len(tail)) \in Seq(Name)
      BY <1>1, <2>7, SubSeqProperties, ElementOfSeq
    <3>2. /\ Len(SubSeq(s, n + 1, Len(s))) = Len(SubSeq(tail, n, Len(tail)))
          /\ \A i \in 1 .. Len(SubSeq(s, n + 1, Len(s))) :
                SubSeq(s, n + 1, Len(s))[i] = SubSeq(tail, n, Len(tail))[i]
      BY <1>1, <2>7
    <3> QED
      BY <3>1, <3>2, SeqEqual
  <2>9. SkipDots(s) = SubSeq(s, n + 1, Len(s))
    BY <1>5, <2>2, <2>3 DEF SkipDots, kept
  <2>10. SkipDots(tail) = SubSeq(tail, n, Len(tail))
    BY <2>4, <2>6 DEF SkipDots, kept
  <2> QED
    BY <2>8, <2>9, <2>10 DEF tail
<1> QED
  BY <1>4, <1>5

LEMMA SkipEmpty == SkipDots(<<>>) = <<>>
  BY DEF SkipDots

-----------------------------------------------------------------------------
(* A walk under way, without a trailing slash, and its next step.          *)
Going(dir, rest, links) ==
    [dir |-> dir, rest |-> rest, slash |-> FALSE, links |-> links,
     err |-> "none", obj |-> Root]

Enters(tree, dir, name) ==
    /\ tree[dir].type = "dir" /\ Granted(tree[dir], "x")
    /\ name \notin LongNames /\ name \in DOMAIN tree[dir].entries

Refusal(tree, dir, name, last) ==
    IF tree[dir].type # "dir" THEN "ENOTDIR"
    ELSE IF ~Granted(tree[dir], "x") THEN "EACCES"
    ELSE IF name \in LongNames THEN "ENAMETOOLONG"
    ELSE IF last THEN "absent" ELSE "ENOENT"

Same(w, v) ==
    w.err = v.err /\ w.dir = v.dir /\ w.obj = v.obj /\ w.links = v.links

LEMMA GoingType ==
    ASSUME NEW tree, NEW dir, NEW rest, NEW links,
           tree \in FileSystems, dir \in DOMAIN tree, rest \in Seq(Name),
           links \in Seq(DOMAIN tree)
    PROVE  Going(dir, rest, links) \in Walkers(tree)
<1>1. Root \in DOMAIN tree
  BY TreesAreTrees DEF IsTree
<1> QED
  BY <1>1 DEF Going, Walkers, Ways

LEMMA EntriesLead ==
    ASSUME NEW tree, NEW dir, NEW name,
           tree \in FileSystems, dir \in DOMAIN tree,
           name \in DOMAIN tree[dir].entries
    PROVE  tree[dir].entries[name] \in DOMAIN tree
  BY TreesAreTrees DEF IsTree

(* Named, for the provers: what is there, and a path taken apart. *)
Child(tree, dir, name) == tree[dir].entries[name]
IsLink(tree, object) == tree[object].type = "lnk"
Body(tree, link) == tree[link].target
Base(body, dir) == IF body.abs THEN Root ELSE dir
Onward(follow, body, tail) == tail # <<>> \/ (follow /\ ~body.slash)
Rest(body, tail) == body.names \o tail
Full(links) == Len(links) >= MAXSYMLINKS
More(links, link) == Append(links, link)
Parts(names, name, tail) == names # <<>> /\ name = Head(names) /\ tail = Tail(names)

LEMMA TreeFacts ==
    ASSUME NEW tree \in FileSystems
    PROVE  /\ Root \in DOMAIN tree /\ Cwd \in DOMAIN tree
           /\ ~IsLink(tree, Root) /\ ~IsLink(tree, Cwd)
           /\ \A o \in DOMAIN tree : Body(tree, o) \in Path
  BY TreesAreTrees DEF IsTree, IsLink, Body

LEMMA ChildType ==
    ASSUME NEW tree, NEW dir, NEW name,
           tree \in FileSystems, dir \in DOMAIN tree, Enters(tree, dir, name)
    PROVE  Child(tree, dir, name) \in DOMAIN tree /\ ~IsLink(tree, dir)
  BY EntriesLead DEF Enters, Child, IsLink

LEMMA TakenApart ==
    ASSUME NEW s,
           s \in Seq(Name), s # <<>>
    PROVE  \E c \in Name, t \in Seq(Name) : Parts(s, c, t) /\ s = <<c>> \o t
  BY NameAndRest DEF Parts

LEMMA PutTogether ==
    ASSUME NEW c, NEW t,
           c \in Name, t \in Seq(Name)
    PROVE  \E s \in Seq(Name) : s = <<c>> \o t /\ Parts(s, c, t)
<1>1. PICK s : s = <<c>> \o t
  OBVIOUS
<1> QED
  BY <1>1, HeadAndTail DEF Parts

LEMMA StepHere ==
    ASSUME NEW tree, NEW follow, NEW dir, NEW links
    PROVE  WalkStep(tree, follow, Going(dir, <<>>, links))
             = Reached(Going(dir, <<>>, links), dir)
  BY DEF WalkStep, Going

LEMMA StepRefused ==
    ASSUME NEW tree, NEW follow, NEW dir, NEW rest, NEW links, NEW name,
           NEW tail,
           Parts(rest, name, tail), ~Enters(tree, dir, name)
    PROVE  WalkStep(tree, follow, Going(dir, rest, links))
             = Failed(Going(dir, rest, links),
                      Refusal(tree, dir, name, tail = <<>>))
<1>1. PICK w : w = Going(dir, rest, links)
  OBVIOUS
<1>2. w.dir = dir /\ w.rest = rest
  BY <1>1 DEF Going
<1>3. WalkStep(tree, follow, w) = Failed(w, Refusal(tree, dir, name, tail = <<>>))
  BY <1>2 DEF WalkStep, Enters, Refusal, Parts
<1> QED
  BY <1>1, <1>3

LEMMA StepLink ==
    ASSUME NEW tree, NEW follow, NEW dir, NEW rest, NEW links, NEW name,
           NEW tail, NEW link, NEW body, NEW base, NEW rest2, NEW links2,
           tree \in FileSystems, dir \in DOMAIN tree, rest \in Seq(Name),
           links \in Seq(DOMAIN tree), Parts(rest, name, tail),
           Enters(tree, dir, name), link = Child(tree, dir, name),
           IsLink(tree, link), body = Body(tree, link),
           Onward(follow, body, tail), base = Base(body, dir),
           rest2 = Rest(body, tail), links2 = More(links, link)
    PROVE  WalkStep(tree, follow, Going(dir, rest, links))
             = IF Full(links)
               THEN Failed(Going(dir, rest, links), "ELOOP")
               ELSE Going(base, rest2, links2)
<1>1. PICK w : w = Going(dir, rest, links)
  OBVIOUS
<1>2. w.dir = dir /\ w.rest = rest /\ w.slash = FALSE /\ w.links = links
      /\ w.err = "none" /\ w.obj = Root
  BY <1>1 DEF Going
<1>3. link \in DOMAIN tree
  BY ChildType
<1>4. body.slash \in BOOLEAN
  BY <1>3, TreeFacts DEF Path
<1>5. WalkStep(tree, follow, w) = IF Full(links) THEN Failed(w, "ELOOP")
                                  ELSE Spliced(tree, w, link, tail)
  BY <1>2 DEF WalkStep, Enters, Parts, Child, IsLink, Onward, Full
<1>6. Spliced(tree, w, link, tail)
        = [w EXCEPT !.dir = IF body.abs THEN Root ELSE w.dir,
                    !.rest = body.names \o tail,
                    !.slash = w.slash \/ (tail = <<>> /\ body.slash),
                    !.links = Append(w.links, link)]
  BY DEF Spliced, Body
<1>7. (w.slash \/ (tail = <<>> /\ body.slash)) = FALSE
  BY <1>2, <1>4 DEF Onward
<1>8. Spliced(tree, w, link, tail) = Going(base, rest2, links2)
  BY <1>1, <1>2, <1>6, <1>7 DEF Going, Base, Rest, More
<1> QED
  BY <1>1, <1>5, <1>8

LEMMA StepDown ==
    ASSUME NEW tree, NEW follow, NEW dir, NEW rest, NEW links, NEW name,
           NEW tail, NEW child,
           Parts(rest, name, tail), tail # <<>>, Enters(tree, dir, name),
           child = Child(tree, dir, name), ~IsLink(tree, child)
    PROVE  WalkStep(tree, follow, Going(dir, rest, links)) = Going(child, tail, links)
<1>1. PICK w : w = Going(dir, rest, links)
  OBVIOUS
<1>2. w.dir = dir /\ w.rest = rest /\ w.slash = FALSE
  BY <1>1 DEF Going
<1>3. WalkStep(tree, follow, w) = [w EXCEPT !.dir = child, !.rest = tail]
  BY <1>2 DEF WalkStep, Enters, Parts, Child, IsLink
<1>4. [w EXCEPT !.dir = child, !.rest = tail] = Going(child, tail, links)
  <2>1. PICK v : v = [w EXCEPT !.dir = child, !.rest = tail]
    OBVIOUS
  <2>2. v = [dir |-> child, rest |-> tail, slash |-> FALSE, links |-> links,
             err |-> "none", obj |-> Root]
    BY <1>1, <2>1 DEF Going
  <2>3. v = Going(child, tail, links)
    BY <2>2 DEF Going
  <2> QED
    BY <2>1, <2>3
<1> QED
  BY <1>1, <1>3, <1>4

LEMMA StepReached ==
    ASSUME NEW tree, NEW follow, NEW dir, NEW rest, NEW links, NEW name,
           NEW child,
           Parts(rest, name, <<>>), Enters(tree, dir, name),
           child = Child(tree, dir, name), ~IsLink(tree, child) \/ ~follow
    PROVE  WalkStep(tree, follow, Going(dir, rest, links))
             = Reached(Going(dir, rest, links), child)
<1>1. PICK w : w = Going(dir, rest, links)
  OBVIOUS
<1>2. w.dir = dir /\ w.rest = rest /\ w.slash = FALSE
  BY <1>1 DEF Going
<1>3. WalkStep(tree, follow, w) = Reached(w, child)
  BY <1>2 DEF WalkStep, Enters, Parts, Child, IsLink
<1> QED
  BY <1>1, <1>3

(* What a walk that stops here comes to, and one that goes on. *)
LEMMA Stops ==
    ASSUME NEW tree, NEW follow, NEW dir, NEW rest, NEW links, NEW v,
           tree \in FileSystems, dir \in DOMAIN tree, rest \in Seq(Name),
           links \in Seq(DOMAIN tree),
           WalkStep(tree, follow, Going(dir, rest, links)) = v, v.err # "none"
    PROVE  WalkFrom(tree, follow, Going(dir, rest, links)) = v
<1>1. PICK w \in Walkers(tree) : w = Going(dir, rest, links) /\ w.err = "none"
  BY GoingType DEF Going
<1>2. v \in Walkers(tree)
  BY <1>1, WalkStepType
<1>3. WalkFrom(tree, follow, w) = WalkFrom(tree, follow, v)
  BY <1>1, WalkUnfolds
<1>4. WalkFrom(tree, follow, v) = v
  BY <1>2, WalkUnfolds
<1> QED
  BY <1>1, <1>3, <1>4

LEMMA GoesOn ==
    ASSUME NEW tree, NEW follow, NEW dir, NEW rest, NEW links, NEW v,
           tree \in FileSystems, dir \in DOMAIN tree, rest \in Seq(Name),
           links \in Seq(DOMAIN tree),
           WalkStep(tree, follow, Going(dir, rest, links)) = v
    PROVE  v \in Walkers(tree)
           /\ WalkFrom(tree, follow, Going(dir, rest, links)) = WalkFrom(tree, follow, v)
<1>1. PICK w \in Walkers(tree) : w = Going(dir, rest, links) /\ w.err = "none"
  BY GoingType DEF Going
<1>2. v \in Walkers(tree)
  BY <1>1, WalkStepType
<1>3. WalkFrom(tree, follow, w) = WalkFrom(tree, follow, v)
  BY <1>1, WalkUnfolds
<1> QED
  BY <1>1, <1>2, <1>3

LEMMA RefusalWay ==
    ASSUME NEW tree, NEW dir, NEW name, NEW last, NEW rest, NEW links, NEW e,
           e = Refusal(tree, dir, name, last)
    PROVE  /\ e \in Ways \ {"none", "found"}
           /\ Failed(Going(dir, rest, links), e).err = e
           /\ Failed(Going(dir, rest, links), e).obj = Root
           /\ Failed(Going(dir, rest, links), e).links = links
  BY DEF Refusal, Failed, Going, Ways

Outcome(v, dir, err, obj, links) ==
    v.err = err /\ v.dir = dir /\ v.obj = obj /\ v.links = links

LEMMA OutcomesSame ==
    ASSUME NEW v, NEW u, NEW dir, NEW err, NEW obj, NEW links,
           Outcome(v, dir, err, obj, links), Outcome(u, dir, err, obj, links)
    PROVE  Same(v, u)
  BY DEF Outcome, Same

LEMMA SameIsTransitive ==
    ASSUME NEW u, NEW v, NEW w,
           Same(u, v), Same(v, w)
    PROVE  Same(u, w)
  BY DEF Same

LEMMA WalkFails ==
    ASSUME NEW tree, NEW follow, NEW dir, NEW rest, NEW links, NEW e,
           tree \in FileSystems, dir \in DOMAIN tree, rest \in Seq(Name),
           links \in Seq(DOMAIN tree), e \in Ways \ {"none"}, WalkStep(tree,
           follow, Going(dir, rest, links)) = Failed(Going(dir, rest, links),
           e)
    PROVE  Outcome(WalkFrom(tree, follow, Going(dir, rest, links)), dir, e, Root, links)
<1>1. PICK w : w = Going(dir, rest, links) /\ w.dir = dir /\ w.obj = Root
               /\ w.links = links /\ w \in Walkers(tree)
  BY GoingType DEF Going
<1>2. PICK v : v = Failed(w, e)
  OBVIOUS
<1>3. v.err = e /\ v.dir = dir /\ v.obj = Root /\ v.links = links
  BY <1>1, <1>2 DEF Failed, Walkers
<1>4. WalkFrom(tree, follow, Going(dir, rest, links)) = v
  BY <1>1, <1>2, <1>3, Stops
<1> QED
  BY <1>3, <1>4 DEF Outcome

LEMMA WalkRefused ==
    ASSUME NEW tree, NEW follow, NEW dir, NEW rest, NEW links, NEW name,
           NEW tail, NEW e,
           tree \in FileSystems, dir \in DOMAIN tree, rest \in Seq(Name),
           links \in Seq(DOMAIN tree), Parts(rest, name, tail),
           ~Enters(tree, dir, name), e = Refusal(tree, dir, name, tail = <<>>)
    PROVE  /\ e \in Ways \ {"none", "found"}
           /\ Outcome(WalkFrom(tree, follow, Going(dir, rest, links)), dir, e, Root, links)
<1>1. e \in Ways \ {"none", "found"}
  BY DEF Refusal, Ways
<1>2. WalkStep(tree, follow, Going(dir, rest, links))
        = Failed(Going(dir, rest, links), e)
  BY StepRefused
<1> QED
  BY <1>1, <1>2, WalkFails

LEMMA WalkReaches ==
    ASSUME NEW tree, NEW follow, NEW dir, NEW rest, NEW links, NEW obj,
           tree \in FileSystems, dir \in DOMAIN tree, rest \in Seq(Name),
           links \in Seq(DOMAIN tree), WalkStep(tree, follow, Going(dir, rest,
           links)) = Reached(Going(dir, rest, links), obj)
    PROVE  Outcome(WalkFrom(tree, follow, Going(dir, rest, links)),
                   dir, "found", obj, links)
<1>1. PICK w : w = Going(dir, rest, links) /\ w.dir = dir /\ w.links = links
               /\ w \in Walkers(tree)
  BY GoingType DEF Going
<1>2. PICK v : v = Reached(w, obj)
  OBVIOUS
<1>3. v.err = "found" /\ v.dir = dir /\ v.obj = obj /\ v.links = links
  BY <1>1, <1>2 DEF Reached, Walkers
<1>4. WalkFrom(tree, follow, Going(dir, rest, links)) = v
  BY <1>1, <1>2, <1>3, Stops
<1> QED
  BY <1>3, <1>4 DEF Outcome

LEMMA WalkDown ==
    ASSUME NEW tree, NEW follow, NEW dir, NEW rest, NEW links, NEW name,
           NEW tail, NEW child,
           tree \in FileSystems, dir \in DOMAIN tree, rest \in Seq(Name),
           links \in Seq(DOMAIN tree), Parts(rest, name, tail), tail # <<>>,
           Enters(tree, dir, name), child = Child(tree, dir, name),
           ~IsLink(tree, child)
    PROVE  WalkFrom(tree, follow, Going(dir, rest, links))
             = WalkFrom(tree, follow, Going(child, tail, links))
<1>1. WalkStep(tree, follow, Going(dir, rest, links)) = Going(child, tail, links)
  BY StepDown
<1>2. PICK v : v = Going(child, tail, links)
  OBVIOUS
<1>3. WalkFrom(tree, follow, Going(dir, rest, links)) = WalkFrom(tree, follow, v)
  BY <1>1, <1>2, GoesOn
<1> QED
  BY <1>2, <1>3

LEMMA StepSplices ==
    ASSUME NEW tree, NEW follow, NEW dir, NEW rest, NEW links, NEW name,
           NEW tail, NEW link, NEW body, NEW base, NEW rest2, NEW links2,
           tree \in FileSystems, dir \in DOMAIN tree, rest \in Seq(Name),
           links \in Seq(DOMAIN tree), Parts(rest, name, tail),
           Enters(tree, dir, name), link = Child(tree, dir, name),
           IsLink(tree, link), body = Body(tree, link),
           Onward(follow, body, tail), base = Base(body, dir),
           rest2 = Rest(body, tail), links2 = More(links, link), ~Full(links)
    PROVE  WalkStep(tree, follow, Going(dir, rest, links)) = Going(base, rest2, links2)
<1>1. PICK v : v = Going(base, rest2, links2)
  OBVIOUS
<1>2. WalkStep(tree, follow, Going(dir, rest, links))
        = IF Full(links) THEN Failed(Going(dir, rest, links), "ELOOP") ELSE v
  BY <1>1, StepLink
<1> QED
  BY <1>1, <1>2

LEMMA WalkSplices ==
    ASSUME NEW tree, NEW follow, NEW dir, NEW rest, NEW links, NEW name,
           NEW tail, NEW link, NEW body, NEW base, NEW rest2, NEW links2,
           tree \in FileSystems, dir \in DOMAIN tree, rest \in Seq(Name),
           links \in Seq(DOMAIN tree), Parts(rest, name, tail),
           Enters(tree, dir, name), link = Child(tree, dir, name),
           IsLink(tree, link), body = Body(tree, link),
           Onward(follow, body, tail), base = Base(body, dir),
           rest2 = Rest(body, tail), links2 = More(links, link), ~Full(links)
    PROVE  WalkFrom(tree, follow, Going(dir, rest, links))
             = WalkFrom(tree, follow, Going(base, rest2, links2))
<1>1. PICK v : v = Going(base, rest2, links2)
  OBVIOUS
<1>2. WalkStep(tree, follow, Going(dir, rest, links)) = v
  BY <1>1, StepSplices
<1>3. WalkFrom(tree, follow, Going(dir, rest, links)) = WalkFrom(tree, follow, v)
  BY <1>2, GoesOn
<1> QED
  BY <1>1, <1>3

LEMMA WalkLoops ==
    ASSUME NEW tree, NEW follow, NEW dir, NEW rest, NEW links, NEW name,
           NEW tail, NEW link, NEW body,
           tree \in FileSystems, dir \in DOMAIN tree, rest \in Seq(Name),
           links \in Seq(DOMAIN tree), Parts(rest, name, tail),
           Enters(tree, dir, name), link = Child(tree, dir, name),
           IsLink(tree, link), body = Body(tree, link),
           Onward(follow, body, tail), Full(links)
    PROVE  Outcome(WalkFrom(tree, follow, Going(dir, rest, links)),
                   dir, "ELOOP", Root, links)
<1>1. PICK base, rest2, links2 : base = Base(body, dir) /\ rest2 = Rest(body, tail)
                                 /\ links2 = More(links, link)
  OBVIOUS
<1>2. PICK v : v = Going(base, rest2, links2)
  OBVIOUS
<1>3. WalkStep(tree, follow, Going(dir, rest, links))
        = IF Full(links) THEN Failed(Going(dir, rest, links), "ELOOP") ELSE v
  BY <1>1, <1>2, StepLink
<1>4. WalkStep(tree, follow, Going(dir, rest, links))
        = Failed(Going(dir, rest, links), "ELOOP")
  BY <1>3
<1>5. "ELOOP" \in Ways \ {"none"}
  BY DEF Ways
<1> QED
  BY <1>4, <1>5, WalkFails

LEMMA SkipDotsKeeps ==
    ASSUME NEW r,
           r \in Seq(Name), r # <<>>, Last(r) # "."
    PROVE  /\ SkipDots(r) \in Seq(Name) /\ SkipDots(r) # <<>>
           /\ Last(SkipDots(r)) = Last(r)
<1> DEFINE kept == {i \in 1 .. Len(r) : r[i] # "."}
<1>1. Len(r) \in Nat /\ Len(r) # 0
  BY LenProperties
<1>2. Len(r) \in kept /\ kept \in SUBSET Nat
  BY <1>1 DEF Last
<1>3. PICK m \in kept : m = Min(kept)
  <2> HIDE DEF kept
  <2>1. PICK m \in kept : \A i \in kept : m <= i
    BY <1>2, LeastElement
  <2> QED
    BY <2>1 DEF Min
<1>4. m \in 1 .. Len(r)
  OBVIOUS
<1>5. SkipDots(r) = SubSeq(r, m, Len(r))
  <2> HIDE DEF kept
  <2> QED
    BY <1>2, <1>3 DEF SkipDots, kept
<1> HIDE DEF kept
<1>6. PICK t \in Seq(Name) : t = SkipDots(r)
  BY SkipDotsType
<1>7. Len(t) = Len(r) - m + 1 /\ \A i \in 1 .. Len(r) - m + 1 : t[i] = r[m + i - 1]
  BY <1>1, <1>4, <1>5, <1>6
<1>8. Len(t) # 0 /\ t[Len(t)] = r[Len(r)]
  BY <1>1, <1>4, <1>7
<1>9. t # <<>>
  BY <1>8, EmptySeq
<1> QED
  BY <1>6, <1>8, <1>9 DEF Last

LEMMA TailConcat ==
    ASSUME NEW b, NEW x, NEW r,
           b \in Seq(Name), x \in Seq(Name), r \in Seq(Name)
    PROVE  b \o (x \o r) = (b \o x) \o r
  BY ConcatAssociative, SMTT(60)

LEMMA RestType ==
    ASSUME NEW body, NEW t, body \in Path, t \in Seq(Name)
    PROVE  Rest(body, t) \in Seq(Name)
<1>1. PICK b \in Seq(Name) : b = body.names
  BY DEF Path
<1> QED
  BY <1>1, ConcatProperties DEF Rest

Cat(s, t) == s \o t

LEMMA RestConcat ==
    ASSUME NEW body, NEW t, NEW s,
           body \in Path, t \in Seq(Name), s \in Seq(Name)
    PROVE  Rest(body, Cat(t, s)) = Cat(Rest(body, t), s)
<1>1. PICK b \in Seq(Name) : b = body.names
  BY DEF Path
<1>2. b \o (t \o s) = (b \o t) \o s
  BY TailConcat
<1> QED
  BY <1>1, <1>2 DEF Rest, Cat

LEMMA SameAsItself == ASSUME NEW w PROVE Same(w, w)
  BY DEF Same

LEMMA LongerParts ==
    ASSUME NEW s, NEW t, NEW c, NEW x,
           s \in Seq(Name), t \in Seq(Name), Parts(s, c, x)
    PROVE  Parts(s \o t, c, x \o t)
  BY ConcatHeadTail DEF Parts

LEMMA PartsConcat ==
    ASSUME NEW s, NEW c, NEW t, s \in Seq(Name), Parts(s, c, t)
    PROVE  c \in Name /\ t \in Seq(Name) /\ s = <<c>> \o t
  BY NameAndRest DEF Parts

LEMMA PartsLast ==
    ASSUME NEW s, NEW c, NEW t, s \in Seq(Name), Parts(s, c, t)
    PROVE  Last(s) = IF t = <<>> THEN c ELSE Last(t)
  BY TailLast DEF Parts

LEMMA PartsDots ==
    ASSUME NEW s, NEW c, NEW t, s \in Seq(Name), Parts(s, c, t)
    PROVE  SkipDots(s) = IF c = "." THEN SkipDots(t) ELSE s
  BY DotSkipped, NoDotsToSkip DEF Parts

LEMMA RefusedAlike ==
    ASSUME NEW tree, NEW follow, NEW dir, NEW r, NEW q, NEW links, NEW c,
           NEW t, NEW b, NEW x, NEW e,
           tree \in FileSystems, dir \in DOMAIN tree, r \in Seq(Name),
           q \in Seq(Name), links \in Seq(DOMAIN tree), Parts(r, c, t),
           Parts(q, b, x), ~Enters(tree, dir, c), ~Enters(tree, dir, b),
           e = Refusal(tree, dir, c, t = <<>>),
           e = Refusal(tree, dir, b, x = <<>>)
    PROVE  Same(WalkFrom(tree, follow, Going(dir, r, links)),
                WalkFrom(tree, follow, Going(dir, q, links)))
<1>1. Outcome(WalkFrom(tree, follow, Going(dir, r, links)), dir, e, Root, links)
  BY WalkRefused
<1>2. Outcome(WalkFrom(tree, follow, Going(dir, q, links)), dir, e, Root, links)
  BY WalkRefused
<1> QED
  BY <1>1, <1>2, OutcomesSame

(* The walk is the same with the dots after x left out, if something else  *)
(* follows them.                                                           *)
LEMMA DotsSkipped ==
    ASSUME NEW tree, NEW follow, NEW dir, NEW x, NEW r, NEW links,
           tree \in FileSystems, dir \in DOMAIN tree, x \in Seq(Name),
           r \in Seq(Name), links \in Seq(DOMAIN tree), r # <<>>,
           Last(r) # "."
    PROVE  Same(WalkFrom(tree, follow, Going(dir, x \o r, links)),
                WalkFrom(tree, follow, Going(dir, x \o SkipDots(r), links)))
<1> DEFINE Fair(d, y, s, lk) ==
               Same(WalkFrom(tree, follow, Going(d, y \o s, lk)),
                    WalkFrom(tree, follow, Going(d, y \o SkipDots(s), lk)))
           Foul(w, d, y, s, lk) ==
               /\ w = Going(d, y \o s, lk) /\ s # <<>> /\ Last(s) # "."
               /\ ~Fair(d, y, s, lk)
           S == {w \in Walkers(tree) :
                   \E d \in DOMAIN tree, y \in Seq(Name), s \in Seq(Name),
                      lk \in Seq(DOMAIN tree) : Foul(w, d, y, s, lk)}
<1> HIDE DEF Fair
<1>1. ASSUME NEW w \in S, w.err # "none" \/ WalkStep(tree, follow, w) \notin S
      PROVE  FALSE
  <2>1. PICK d \in DOMAIN tree, y \in Seq(Name), s \in Seq(Name),
             lk \in Seq(DOMAIN tree) : Foul(w, d, y, s, lk)
    OBVIOUS
  <2>2. w = Going(d, y \o s, lk) /\ s # <<>> /\ Last(s) # "." /\ ~Fair(d, y, s, lk)
    BY <2>1
  <2>3. WalkStep(tree, follow, w) \notin S
    BY <1>1, <2>2 DEF Going
  <2> HIDE DEF S, Foul
  <2>4. ASSUME NEW e \in DOMAIN tree, NEW z \in Seq(Name), NEW q \in Seq(Name),
               NEW l \in Seq(DOMAIN tree), q # <<>>, Last(q) # ".",
               WalkStep(tree, follow, w) = Going(e, z \o q, l)
        PROVE  Fair(e, z, q, l)
    <3>1. z \o q \in Seq(Name)
      BY ConcatProperties
    <3>2. Going(e, z \o q, l) \in Walkers(tree)
      BY <3>1, GoingType
    <3> QED
      BY <2>3, <2>4, <3>2 DEF S, Foul
  <2>5. PICK k \in Seq(Name) : k = SkipDots(s) /\ k # <<>> /\ Last(k) = Last(s)
    BY <2>2, SkipDotsKeeps
  <2>6. PICK rest \in Seq(Name) : rest = y \o s
    BY ConcatProperties
  <2>7. PICK rest2 \in Seq(Name) : rest2 = y \o k
    BY ConcatProperties
  <2>8. ~Same(WalkFrom(tree, follow, Going(d, rest, lk)),
              WalkFrom(tree, follow, Going(d, rest2, lk)))
    BY <2>2, <2>5, <2>6, <2>7 DEF Fair
  <2>9. CASE y = <<>>
    <3>1. rest = s /\ rest2 = k
      BY <2>6, <2>7, <2>9, ConcatEmptySeq
    <3>2. PICK c \in Name, t \in Seq(Name) : Parts(s, c, t)
      BY <2>2, TakenApart
    <3>3. c = "."
      <4>1. c # "." => k = s
        BY <2>5, <3>2, PartsDots
      <4> QED
        BY <2>8, <3>1, <4>1, SameAsItself
    <3>4. t # <<>> /\ Last(t) # "." /\ k = SkipDots(t)
      BY <2>2, <2>5, <3>2, <3>3, PartsLast, PartsDots
    <3>5. /\ tree[d].type = "dir"
             => "." \in DOMAIN tree[d].entries /\ tree[d].entries["."] = d
          /\ "." \notin LongNames
      BY TreesAreTrees, NamesAssumption DEF IsTree
    <3>6. CASE ~Enters(tree, d, c)
      <4>1. tree[d].type # "dir" \/ ~Granted(tree[d], "x")
        BY <3>3, <3>5, <3>6 DEF Enters
      <4>2. PICK b \in Name, z \in Seq(Name) : Parts(k, b, z)
        BY <2>5, TakenApart
      <4>3. PICK e : e = Refusal(tree, d, c, t = <<>>)
        OBVIOUS
      <4>4. ~Enters(tree, d, b) /\ e = Refusal(tree, d, b, z = <<>>)
        BY <4>1, <4>3 DEF Enters, Refusal
      <4> QED
        BY <2>8, <3>1, <3>2, <3>6, <4>2, <4>3, <4>4, RefusedAlike
    <3>7. CASE Enters(tree, d, c)
      <4>1. d = Child(tree, d, c) /\ ~IsLink(tree, d)
        BY <3>3, <3>5, <3>7 DEF Enters, Child, IsLink
      <4>2. WalkStep(tree, follow, Going(d, s, lk)) = Going(d, t, lk)
        BY <3>2, <3>4, <3>7, <4>1, StepDown
      <4>3. WalkFrom(tree, follow, Going(d, s, lk))
              = WalkFrom(tree, follow, Going(d, t, lk))
        BY <3>2, <3>4, <3>7, <4>1, WalkDown
      <4>4. <<>> \o t = t /\ <<>> \o k = k /\ <<>> \in Seq(Name)
        BY ConcatEmptySeq, EmptySeq
      <4>5. w = Going(d, s, lk)
        BY <2>2, <2>6, <3>1
      <4>6. Fair(d, <<>>, t, lk)
        BY <2>4, <3>4, <4>2, <4>4, <4>5
      <4>7. Same(WalkFrom(tree, follow, Going(d, t, lk)),
                 WalkFrom(tree, follow, Going(d, k, lk)))
        BY <3>4, <4>4, <4>6 DEF Fair
      <4> QED
        BY <2>8, <3>1, <4>7, <4>3
    <3> QED
      BY <3>6, <3>7
  <2>10. CASE y # <<>>
    <3>1. PICK c \in Name, t \in Seq(Name) : Parts(y, c, t)
      BY <2>10, TakenApart
    <3>2. PICK u \in Seq(Name) : u = t \o s
      BY ConcatProperties
    <3>3. PICK v \in Seq(Name) : v = t \o k
      BY ConcatProperties
    <3>4. Parts(rest, c, u) /\ Parts(rest2, c, v)
      BY <2>6, <2>7, <3>1, <3>2, <3>3, LongerParts
    <3>5. u # <<>> /\ v # <<>>
      BY <2>2, <2>5, <3>2, <3>3, ConcatEqualIffEmpty
    <3>6. CASE ~Enters(tree, d, c)
      <4>1. PICK e : e = Refusal(tree, d, c, FALSE)
        OBVIOUS
      <4>2. e = Refusal(tree, d, c, u = <<>>) /\ e = Refusal(tree, d, c, v = <<>>)
        BY <3>5, <4>1 DEF Refusal
      <4> QED
        BY <2>8, <3>4, <3>6, <4>2, RefusedAlike
    <3>7. CASE Enters(tree, d, c)
      <4>1. PICK child \in DOMAIN tree : child = Child(tree, d, c)
        BY <3>7, ChildType
      <4>2. CASE IsLink(tree, child)
        <5>1. PICK body \in Path : body = Body(tree, child)
          BY TreeFacts
        <5>2. PICK base \in DOMAIN tree : base = Base(body, d)
          BY TreeFacts DEF Base
        <5>3. PICK lk2 \in Seq(DOMAIN tree) : lk2 = More(lk, child)
          BY AppendProperties DEF More
        <5>4. PICK z \in Seq(Name) : z = Rest(body, t)
          BY RestType
        <5>5. PICK q \in Seq(Name) : q = z \o s
          BY ConcatProperties
        <5>6. PICK q2 \in Seq(Name) : q2 = z \o k
          BY ConcatProperties
        <5>7. q = Rest(body, u) /\ q2 = Rest(body, v)
          <6>1. Rest(body, Cat(t, s)) = Cat(Rest(body, t), s)
            BY RestConcat
          <6>2. Rest(body, Cat(t, k)) = Cat(Rest(body, t), k)
            BY RestConcat
          <6>3. u = Cat(t, s) /\ v = Cat(t, k) /\ q = Cat(z, s) /\ q2 = Cat(z, k)
            BY <3>2, <3>3, <5>5, <5>6 DEF Cat
          <6> QED
            BY <5>4, <6>1, <6>2, <6>3
        <5>8. Onward(follow, body, u) /\ Onward(follow, body, v)
          BY <3>5 DEF Onward
        <5>9. CASE Full(lk)
          <6>1. Outcome(WalkFrom(tree, follow, Going(d, rest, lk)), d, "ELOOP", Root, lk)
            BY <3>4, <3>7, <4>1, <4>2, <5>1, <5>8, <5>9, WalkLoops
          <6>2. Outcome(WalkFrom(tree, follow, Going(d, rest2, lk)), d, "ELOOP", Root, lk)
            BY <3>4, <3>7, <4>1, <4>2, <5>1, <5>8, <5>9, WalkLoops
          <6> QED
            BY <2>8, <6>1, <6>2, OutcomesSame
        <5>10. CASE ~Full(lk)
          <6>1. WalkStep(tree, follow, Going(d, rest, lk)) = Going(base, q, lk2)
            BY <3>4, <3>7, <4>1, <4>2, <5>1, <5>2, <5>3, <5>7, <5>8, <5>10, StepSplices
          <6>2. WalkFrom(tree, follow, Going(d, rest, lk))
                  = WalkFrom(tree, follow, Going(base, q, lk2))
            BY <3>4, <3>7, <4>1, <4>2, <5>1, <5>2, <5>3, <5>7, <5>8, <5>10, WalkSplices
          <6>3. WalkFrom(tree, follow, Going(d, rest2, lk))
                  = WalkFrom(tree, follow, Going(base, q2, lk2))
            BY <3>4, <3>7, <4>1, <4>2, <5>1, <5>2, <5>3, <5>7, <5>8, <5>10, WalkSplices
          <6>4. Fair(base, z, s, lk2)
            BY <2>2, <2>4, <2>6, <5>5, <6>1
          <6> QED
            BY <2>5, <2>8, <5>5, <5>6, <6>2, <6>3, <6>4 DEF Fair
        <5> QED
          BY <5>9, <5>10
      <4>3. CASE ~IsLink(tree, child)
        <5>1. WalkStep(tree, follow, Going(d, rest, lk)) = Going(child, u, lk)
          BY <3>4, <3>5, <3>7, <4>1, <4>3, StepDown
        <5>2. WalkFrom(tree, follow, Going(d, rest, lk))
                = WalkFrom(tree, follow, Going(child, u, lk))
          BY <3>4, <3>5, <3>7, <4>1, <4>3, WalkDown
        <5>3. WalkFrom(tree, follow, Going(d, rest2, lk))
                = WalkFrom(tree, follow, Going(child, v, lk))
          BY <3>4, <3>5, <3>7, <4>1, <4>3, WalkDown
        <5>4. Fair(child, t, s, lk)
          BY <2>2, <2>4, <2>6, <3>2, <5>1
        <5> QED
          BY <2>5, <2>8, <3>2, <3>3, <5>2, <5>3, <5>4 DEF Fair
      <4> QED
        BY <4>2, <4>3
    <3> QED
      BY <3>6, <3>7
  <2> QED
    BY <2>9, <2>10
<1>2. S = {}
  <2>1. S \in SUBSET Walkers(tree)
    OBVIOUS
  <2> HIDE DEF S
  <2> QED
    BY <1>1, <2>1, LastOfWalk
<1>3. Going(dir, x \o r, links) \in Walkers(tree)
  <2>1. x \o r \in Seq(Name)
    BY ConcatProperties
  <2> QED
    BY <2>1, GoingType
<1>4. Fair(dir, x, r, links)
  BY <1>2, <1>3
<1> QED
  BY <1>4 DEF Fair

LEMMA CatType ==
    ASSUME NEW s, NEW t, s \in Seq(Name), t \in Seq(Name)
    PROVE  Cat(s, t) \in Seq(Name)
  BY ConcatProperties DEF Cat

LEMMA CatEmpty ==
    ASSUME NEW s, s \in Seq(Name)
    PROVE  Cat(<<>>, s) = s /\ Cat(s, <<>>) = s
  BY ConcatEmptySeq DEF Cat

LEMMA CatParts ==
    ASSUME NEW s, NEW t, NEW c, NEW x,
           s \in Seq(Name), t \in Seq(Name), Parts(s, c, x)
    PROVE  Parts(Cat(s, t), c, Cat(x, t))
  BY LongerParts DEF Cat

LEMMA CatNotEmpty ==
    ASSUME NEW s, NEW t, s \in Seq(Name), t \in Seq(Name), t # <<>>
    PROVE  Cat(s, t) # <<>>
  BY ConcatEqualIffEmpty DEF Cat

(* A walk that follows a link has a link to show for it. *)
LEMMA StepArrives ==
    ASSUME NEW tree, NEW follow, NEW dir, NEW rest, NEW links, NEW name,
           NEW tail, NEW child,
           Parts(rest, name, tail), tail = <<>>, Enters(tree, dir, name),
           child = Child(tree, dir, name), ~IsLink(tree, child) \/ ~follow
    PROVE  WalkStep(tree, follow, Going(dir, rest, links))
             = Reached(Going(dir, rest, links), child)
<1>1. Parts(rest, name, <<>>)
  OBVIOUS
<1> QED
  BY <1>1, StepReached

LEMMA LinkCounts ==
    ASSUME NEW tree, NEW dir, NEW rest, NEW name, NEW tail, NEW nil, NEW obj, NEW yes,
           NEW at,
           tree \in FileSystems, dir \in DOMAIN tree, nil = <<>>, yes = TRUE,
           rest \in Seq(Name),
           Parts(rest, name, tail), Enters(tree, dir, name),
           IsLink(tree, Child(tree, dir, name))
    PROVE  ~Outcome(WalkFrom(tree, yes, Going(dir, rest, nil)), at, "found", obj, nil)
<1>1. nil \in Seq(DOMAIN tree)
  BY EmptySeq
<1>2. Going(dir, rest, nil) \in Walkers(tree)
  BY <1>1, GoingType
<1>3. PICK w \in Walkers(tree) : w = Going(dir, rest, nil)
  BY <1>2
<1>4. /\ w = Going(dir, rest, nil) /\ w.dir = dir /\ w.rest = rest
      /\ w.err = "none" /\ w.links = nil
  BY <1>3 DEF Going
<1>5. PICK child \in DOMAIN tree : child = Child(tree, dir, name)
  BY ChildType
<1>6. PICK v \in Walkers(tree) : v = WalkStep(tree, yes, w)
  BY <1>4, WalkStepType
<1>7. v = Failed(w, "ELOOP") \/ v = Spliced(tree, w, child, tail)
  <2>1. PICK u : u = w
    OBVIOUS
  <2>2. u.dir = dir /\ u.rest = rest
    BY <1>4, <2>1
  <2>3. WalkStep(tree, yes, u)
          = IF Full(u.links) THEN Failed(u, "ELOOP") ELSE Spliced(tree, u, child, tail)
    BY <1>5, <2>2 DEF WalkStep, Enters, Parts, Child, IsLink, Full
  <2> QED
    BY <1>6, <2>1, <2>3
<1>8. WalkFrom(tree, yes, w) = WalkFrom(tree, yes, v)
  BY <1>4, <1>6, WalkUnfolds
<1>9. CASE v = Failed(w, "ELOOP")
  <2>1. v.err = "ELOOP"
    BY <1>9 DEF Failed, Walkers
  <2>2. WalkFrom(tree, yes, v) = v
    BY <2>1, WalkUnfolds
  <2> QED
    BY <1>4, <1>8, <2>1, <2>2 DEF Outcome
<1>10. CASE v = Spliced(tree, w, child, tail)
  <2>1. v.links = Append(w.links, child)
    BY <1>10 DEF Spliced, Walkers
  <2>2. Len(v.links) = 1
    BY <1>4, <2>1
  <2>3. Extends(WalkFrom(tree, yes, v).links, v.links)
    BY WalkEnds
  <2>4. PICK z : z = WalkFrom(tree, yes, v).links
    OBVIOUS
  <2>5. 1 <= Len(z)
    BY <2>2, <2>3, <2>4 DEF Extends
  <2>6. z # <<>>
    BY <2>5
  <2> QED
    BY <1>4, <1>8, <2>4, <2>6 DEF Outcome
<1> QED
  BY <1>7, <1>9, <1>10

IsNil(list) == list = <<>>
IsTrue(flag) == flag = TRUE

(* What is found without a link can be walked through. *)
LEMMA WalkThrough ==
    ASSUME NEW tree, NEW follow, NEW yes, NEW dir, NEW x, NEW t, NEW c, NEW nil,
           NEW at, tree \in FileSystems, dir \in DOMAIN tree, x \in Seq(Name),
           t \in Seq(Name), t # <<>>, IsNil(nil), IsTrue(yes),
           Outcome(WalkFrom(tree, yes, Going(dir, x, nil)), at, "found", c, nil)
    PROVE  WalkFrom(tree, follow, Going(dir, Cat(x, t), nil))
             = WalkFrom(tree, follow, Going(c, t, nil))
<1>1. nil \in Seq(DOMAIN tree) /\ nil = <<>> /\ yes = TRUE
  BY EmptySeq DEF IsNil, IsTrue
<1>2. nil \in Seq(DOMAIN tree)
  BY <1>1
<1> DEFINE Fair(d, y) == Outcome(WalkFrom(tree, yes, Going(d, y, nil)), at, "found", c, nil)
                         => WalkFrom(tree, follow, Going(d, Cat(y, t), nil))
                              = WalkFrom(tree, follow, Going(c, t, nil))
           Foul(w, d, y) == w = Going(d, y, nil) /\ ~Fair(d, y)
           S == {w \in Walkers(tree) :
                   \E d \in DOMAIN tree, y \in Seq(Name) : Foul(w, d, y)}
<1> HIDE DEF Fair
<1>3. ASSUME NEW w \in S, w.err # "none" \/ WalkStep(tree, yes, w) \notin S
      PROVE  FALSE
  <2>1. PICK d \in DOMAIN tree, y \in Seq(Name) : Foul(w, d, y)
    OBVIOUS
  <2>2. w = Going(d, y, nil) /\ ~Fair(d, y)
    BY <2>1
  <2>3. WalkStep(tree, yes, w) \notin S
    BY <1>3, <2>2 DEF Going
  <2> HIDE DEF S, Foul
  <2>4. ASSUME NEW e \in DOMAIN tree, NEW q \in Seq(Name),
               WalkStep(tree, yes, w) = Going(e, q, nil)
        PROVE  Fair(e, q)
    <3>1. Going(e, q, nil) \in Walkers(tree)
      BY <1>2, GoingType
    <3> QED
      BY <2>3, <2>4, <3>1 DEF S, Foul
  <2>5. /\ Outcome(WalkFrom(tree, yes, Going(d, y, nil)), at, "found", c, nil)
        /\ WalkFrom(tree, follow, Going(d, Cat(y, t), nil))
             # WalkFrom(tree, follow, Going(c, t, nil))
    BY <2>2 DEF Fair
  <2>6. CASE y = <<>>
    <3>1. WalkStep(tree, yes, Going(d, y, nil)) = Reached(Going(d, y, nil), d)
      BY <2>6, StepHere
    <3>2. Outcome(WalkFrom(tree, yes, Going(d, y, nil)), d, "found", d, nil)
      BY <1>2, <3>1, WalkReaches
    <3>3. c = d
      BY <2>5, <3>2 DEF Outcome
    <3>4. Cat(y, t) = t
      BY <2>6, CatEmpty
    <3> QED
      BY <2>5, <3>3, <3>4
  <2>7. CASE y # <<>>
    <3>1. PICK n \in Name, z \in Seq(Name) : Parts(y, n, z)
      BY <2>7, TakenApart
    <3>2. PICK yt \in Seq(Name) : yt = Cat(y, t)
      BY CatType
    <3>3. PICK zt \in Seq(Name) : zt = Cat(z, t) /\ zt # <<>>
      BY CatType, CatNotEmpty
    <3>4. Parts(yt, n, zt)
      BY <3>1, <3>2, <3>3, CatParts
    <3>5. Enters(tree, d, n)
      <4>1. PICK e : e = Refusal(tree, d, n, z = <<>>)
        OBVIOUS
      <4>2. ASSUME ~Enters(tree, d, n) PROVE FALSE
        <5>1. e # "found" /\ Outcome(WalkFrom(tree, yes, Going(d, y, nil)), d, e, Root, nil)
          BY <1>2, <3>1, <4>1, <4>2, WalkRefused
        <5> QED
          BY <2>5, <5>1 DEF Outcome
      <4> QED
        BY <4>2
    <3>6. PICK child \in DOMAIN tree : child = Child(tree, d, n)
      BY <3>5, ChildType
    <3>7. ~IsLink(tree, child)
      <4>1. ASSUME IsLink(tree, child) PROVE FALSE
        <5>1. ~Outcome(WalkFrom(tree, yes, Going(d, y, nil)), at, "found", c, nil)
          BY <1>1, <3>1, <3>5, <3>6, <4>1, LinkCounts
        <5> QED
          BY <2>5, <5>1
      <4> QED
        BY <4>1
    <3>8. WalkFrom(tree, follow, Going(d, yt, nil))
            = WalkFrom(tree, follow, Going(child, zt, nil))
      BY <3>3, <3>4, <3>5, <3>6, <3>7, <1>2, WalkDown
    <3>9. CASE z = <<>>
      <4>1. WalkStep(tree, yes, Going(d, y, nil)) = Reached(Going(d, y, nil), child)
        BY <3>1, <3>5, <3>6, <3>7, <3>9, StepArrives
      <4>2. Outcome(WalkFrom(tree, yes, Going(d, y, nil)), d, "found", child, nil)
        BY <1>2, <4>1, WalkReaches
      <4>3. c = child
        BY <2>5, <4>2 DEF Outcome
      <4>4. zt = t
        BY <3>3, <3>9, CatEmpty
      <4> QED
        BY <2>5, <3>2, <3>8, <4>3, <4>4
    <3>10. CASE z # <<>>
      <4>1. WalkStep(tree, yes, Going(d, y, nil)) = Going(child, z, nil)
        BY <3>1, <3>5, <3>6, <3>7, <3>10, StepDown
      <4>2. WalkFrom(tree, yes, Going(d, y, nil))
              = WalkFrom(tree, yes, Going(child, z, nil))
        BY <3>1, <3>5, <3>6, <3>7, <3>10, <1>2, WalkDown
      <4>3. Fair(child, z)
        BY <2>2, <2>4, <4>1
      <4> QED
        BY <2>5, <3>2, <3>3, <3>8, <4>2, <4>3 DEF Fair
    <3> QED
      BY <3>9, <3>10
  <2> QED
    BY <2>6, <2>7
<1>4. S = {}
  <2>1. S \in SUBSET Walkers(tree)
    OBVIOUS
  <2> HIDE DEF S
  <2> QED
    BY <1>3, <2>1, LastOfWalk
<1>5. Going(dir, x, nil) \in Walkers(tree)
  BY <1>2, GoingType
<1>6. Fair(dir, x)
  BY <1>4, <1>5
<1> QED
  BY <1>6 DEF Fair

(* A walk that is not to follow a last link, and meets none, is the walk   *)
(* that would follow it.                                                   *)
AtLink(tree, v) == v.err = "found" /\ IsLink(tree, v.obj)

LEMMA StepFollowsOrMeets ==
    ASSUME NEW tree, NEW w
    PROVE  \/ WalkStep(tree, TRUE, w) = WalkStep(tree, FALSE, w)
           \/ \E o : WalkStep(tree, FALSE, w) = Reached(w, o) /\ IsLink(tree, o)
<1> DEFINE here  == tree[w.dir]
           name  == Head(w.rest)
           tail  == Tail(w.rest)
           child == here.entries[name]
<1>1. CASE IsLink(tree, child) /\ tail = <<>> /\ ~w.slash
  BY <1>1 DEF WalkStep, IsLink
<1>2. CASE ~(IsLink(tree, child) /\ tail = <<>> /\ ~w.slash)
  BY <1>2 DEF WalkStep, IsLink
<1> QED
  BY <1>1, <1>2

LEMMA FollowAlike ==
    ASSUME NEW tree, NEW w, tree \in FileSystems, w \in Walkers(tree),
           ~AtLink(tree, WalkFrom(tree, FALSE, w))
    PROVE  WalkFrom(tree, TRUE, w) = WalkFrom(tree, FALSE, w)
<1> DEFINE Foul(u) == /\ ~AtLink(tree, WalkFrom(tree, FALSE, u))
                      /\ WalkFrom(tree, TRUE, u) # WalkFrom(tree, FALSE, u)
           S == {u \in Walkers(tree) : Foul(u)}
<1>1. ASSUME NEW u \in S, u.err # "none" \/ WalkStep(tree, FALSE, u) \notin S
      PROVE  FALSE
  <2>1. u \in Walkers(tree) /\ ~AtLink(tree, WalkFrom(tree, FALSE, u))
        /\ WalkFrom(tree, TRUE, u) # WalkFrom(tree, FALSE, u)
    OBVIOUS
  <2>2. u.err = "none" /\ WalkStep(tree, FALSE, u) \notin S
    <3>1. u.err # "none" => WalkFrom(tree, TRUE, u) = u /\ WalkFrom(tree, FALSE, u) = u
      BY <2>1, WalkUnfolds
    <3> QED
      BY <1>1, <2>1, <3>1
  <2>3. PICK v \in Walkers(tree) : v = WalkStep(tree, FALSE, u)
    BY <2>1, WalkStepType
  <2>4. WalkFrom(tree, FALSE, u) = WalkFrom(tree, FALSE, v)
    BY <2>1, <2>2, <2>3, WalkUnfolds
  <2>5. CASE WalkStep(tree, TRUE, u) = v
    <3>1. WalkFrom(tree, TRUE, u) = WalkFrom(tree, TRUE, v)
      BY <2>1, <2>2, <2>5, WalkUnfolds
    <3>2. ~Foul(v)
      BY <2>2, <2>3
    <3> QED
      BY <2>1, <2>4, <3>1, <3>2
  <2>6. ASSUME NEW o, v = Reached(u, o), IsLink(tree, o) PROVE FALSE
    <3>1. v.err = "found" /\ v.obj = o
      BY <2>1, <2>6 DEF Reached, Walkers
    <3>2. WalkFrom(tree, FALSE, v) = v
      BY <2>3, <3>1, WalkUnfolds
    <3> QED
      BY <2>1, <2>4, <2>6, <3>1, <3>2 DEF AtLink
  <2> QED
    BY <2>3, <2>5, <2>6, StepFollowsOrMeets
<1>2. S \in SUBSET Walkers(tree)
  OBVIOUS
<1>3. S = {}
  <2> HIDE DEF S
  <2> QED
    BY <1>1, <1>2, LastOfWalk
<1> QED
  BY <1>3

(* What lstat misses is missed by every walk that comes this way, unless   *)
(* it has followed too many links before.                                  *)
Missing(v) == v.err \in {"ENOENT", "absent"}
GivesUp(v, t) ==
    \/ v.err = "ENOENT" \/ (v.err = "absent" /\ t = <<>>)
    \/ v.err = "ELOOP" /\ Full(v.links)

LEMMA MissedHere ==
    ASSUME NEW tree, NEW follow, NEW dir, NEW z, NEW zt, NEW t, NEW links, NEW rest,
           NEW name, NEW e,
           tree \in FileSystems, dir \in DOMAIN tree, rest \in Seq(Name),
           links \in Seq(DOMAIN tree), z \in Seq(Name), t \in Seq(Name),
           Parts(rest, name, zt), ~Enters(tree, dir, name), zt = Cat(z, t),
           e = Refusal(tree, dir, name, z = <<>>), e \in {"ENOENT", "absent"}
    PROVE  GivesUp(WalkFrom(tree, follow, Going(dir, rest, links)), t)
<1>1. PICK e2 : e2 = Refusal(tree, dir, name, zt = <<>>)
  OBVIOUS
<1>2. Outcome(WalkFrom(tree, follow, Going(dir, rest, links)), dir, e2, Root, links)
  BY <1>1, WalkRefused
<1>3. e2 = IF zt = <<>> THEN "absent" ELSE "ENOENT"
  BY <1>1 DEF Refusal
<1>4. zt = <<>> => t = <<>>
  BY CatNotEmpty
<1> QED
  BY <1>2, <1>3, <1>4 DEF GivesUp, Outcome

LEMMA StaysMissing ==
    ASSUME NEW tree, NEW follow, NEW no, NEW dir, NEW x, NEW t, NEW short, NEW links,
           tree \in FileSystems, dir \in DOMAIN tree, x \in Seq(Name),
           t \in Seq(Name), short \in Seq(DOMAIN tree), links \in Seq(DOMAIN tree),
           ~no, Missing(WalkFrom(tree, no, Going(dir, x, short)))
    PROVE  GivesUp(WalkFrom(tree, follow, Going(dir, Cat(x, t), links)), t)
<1> DEFINE Fair(d, y, sh, lk) ==
               Missing(WalkFrom(tree, no, Going(d, y, sh)))
               => GivesUp(WalkFrom(tree, follow, Going(d, Cat(y, t), lk)), t)
           Foul(w, d, y, sh, lk) == w = Going(d, y, sh) /\ ~Fair(d, y, sh, lk)
           S == {w \in Walkers(tree) :
                   \E d \in DOMAIN tree, y \in Seq(Name), sh \in Seq(DOMAIN tree),
                      lk \in Seq(DOMAIN tree) : Foul(w, d, y, sh, lk)}
<1> HIDE DEF Fair
<1>1. ASSUME NEW w \in S, w.err # "none" \/ WalkStep(tree, no, w) \notin S
      PROVE  FALSE
  <2>1. PICK d \in DOMAIN tree, y \in Seq(Name), sh \in Seq(DOMAIN tree),
             lk \in Seq(DOMAIN tree) : Foul(w, d, y, sh, lk)
    OBVIOUS
  <2>2. w = Going(d, y, sh) /\ ~Fair(d, y, sh, lk)
    BY <2>1
  <2>3. WalkStep(tree, no, w) \notin S
    BY <1>1, <2>2 DEF Going
  <2> HIDE DEF S, Foul
  <2>4. ASSUME NEW e \in DOMAIN tree, NEW q \in Seq(Name), NEW sh2 \in Seq(DOMAIN tree),
               NEW lk2 \in Seq(DOMAIN tree), WalkStep(tree, no, w) = Going(e, q, sh2)
        PROVE  Fair(e, q, sh2, lk2)
    <3>1. Going(e, q, sh2) \in Walkers(tree)
      BY GoingType
    <3> QED
      BY <2>3, <2>4, <3>1 DEF S, Foul
  <2>5. /\ Missing(WalkFrom(tree, no, Going(d, y, sh)))
        /\ ~GivesUp(WalkFrom(tree, follow, Going(d, Cat(y, t), lk)), t)
    BY <2>2 DEF Fair
  <2>7. y # <<>>
    <3>1. ASSUME y = <<>> PROVE FALSE
      <4>1. WalkStep(tree, no, Going(d, y, sh)) = Reached(Going(d, y, sh), d)
        BY <3>1, StepHere
      <4>2. Outcome(WalkFrom(tree, no, Going(d, y, sh)), d, "found", d, sh)
        BY <4>1, WalkReaches
      <4> QED
        BY <2>5, <4>2 DEF Outcome, Missing
    <3> QED
      BY <3>1
  <2>8. PICK n \in Name, z \in Seq(Name) : Parts(y, n, z)
    BY <2>7, TakenApart
  <2>9. PICK yt \in Seq(Name) : yt = Cat(y, t)
    BY CatType
  <2>10. PICK zt \in Seq(Name) : zt = Cat(z, t)
    BY CatType
  <2>11. Parts(yt, n, zt)
    BY <2>8, <2>9, <2>10, CatParts
  <2>12. Enters(tree, d, n)
    <3>1. PICK e : e = Refusal(tree, d, n, z = <<>>)
      OBVIOUS
    <3>2. ASSUME ~Enters(tree, d, n) PROVE FALSE
      <4>1. Outcome(WalkFrom(tree, no, Going(d, y, sh)), d, e, Root, sh)
        BY <2>8, <3>1, <3>2, WalkRefused
      <4>2. e \in {"ENOENT", "absent"}
        BY <2>5, <4>1 DEF Outcome, Missing
      <4>3. GivesUp(WalkFrom(tree, follow, Going(d, yt, lk)), t)
        BY <2>10, <2>11, <3>1, <3>2, <4>2, MissedHere
      <4> QED
        BY <2>5, <2>9, <4>3
    <3> QED
      BY <3>2
  <2>13. PICK child \in DOMAIN tree : child = Child(tree, d, n)
    BY <2>12, ChildType
  <2>14. z # <<>>
    <3>1. ASSUME z = <<>> PROVE FALSE
      <4>1. WalkStep(tree, no, Going(d, y, sh)) = Reached(Going(d, y, sh), child)
        BY <2>8, <2>12, <2>13, <3>1, StepArrives
      <4>2. Outcome(WalkFrom(tree, no, Going(d, y, sh)), d, "found", child, sh)
        BY <4>1, WalkReaches
      <4> QED
        BY <2>5, <4>2 DEF Outcome, Missing
    <3> QED
      BY <3>1
  <2>15. zt # <<>>
    BY <2>10, <2>14, ConcatEqualIffEmpty DEF Cat
  <2>16. CASE IsLink(tree, child)
    <3>1. PICK body \in Path : body = Body(tree, child)
      BY TreeFacts
    <3>2. PICK base \in DOMAIN tree : base = Base(body, d)
      BY TreeFacts DEF Base
    <3>3. PICK sh2 \in Seq(DOMAIN tree) : sh2 = More(sh, child)
      BY AppendProperties DEF More
    <3>4. PICK lk2 \in Seq(DOMAIN tree) : lk2 = More(lk, child)
      BY AppendProperties DEF More
    <3>5. PICK q \in Seq(Name) : q = Rest(body, z)
      BY RestType
    <3>6. PICK qt \in Seq(Name) : qt = Cat(q, t)
      BY CatType
    <3>7. qt = Rest(body, zt)
      <4>1. Rest(body, Cat(z, t)) = Cat(Rest(body, z), t)
        BY RestConcat
      <4> QED
        BY <2>10, <3>5, <3>6, <4>1
    <3>8. Onward(no, body, z) /\ Onward(follow, body, zt)
      BY <2>14, <2>15 DEF Onward
    <3>9. ~Full(sh)
      <4>1. ASSUME Full(sh) PROVE FALSE
        <5>1. Outcome(WalkFrom(tree, no, Going(d, y, sh)), d, "ELOOP", Root, sh)
          BY <2>8, <2>12, <2>13, <2>16, <3>1, <3>8, <4>1, WalkLoops
        <5> QED
          BY <2>5, <5>1 DEF Outcome, Missing
      <4> QED
        BY <4>1
    <3>10. ~Full(lk)
      <4>1. ASSUME Full(lk) PROVE FALSE
        <5>1. Outcome(WalkFrom(tree, follow, Going(d, yt, lk)), d, "ELOOP", Root, lk)
          BY <2>11, <2>12, <2>13, <2>16, <3>1, <3>8, <4>1, WalkLoops
        <5>2. GivesUp(WalkFrom(tree, follow, Going(d, yt, lk)), t)
          BY <4>1, <5>1 DEF Outcome, GivesUp
        <5> QED
          BY <2>5, <2>9, <5>2
      <4> QED
        BY <4>1
    <3>11. WalkStep(tree, no, Going(d, y, sh)) = Going(base, q, sh2)
      BY <2>8, <2>12, <2>13, <2>16, <3>1, <3>2, <3>3, <3>5, <3>8, <3>9, StepSplices
    <3>12. WalkFrom(tree, no, Going(d, y, sh)) = WalkFrom(tree, no, Going(base, q, sh2))
      BY <2>8, <2>12, <2>13, <2>16, <3>1, <3>2, <3>3, <3>5, <3>8, <3>9, WalkSplices
    <3>13. WalkFrom(tree, follow, Going(d, yt, lk))
             = WalkFrom(tree, follow, Going(base, qt, lk2))
      BY <2>11, <2>12, <2>13, <2>16, <3>1, <3>2, <3>4, <3>7, <3>8, <3>10, WalkSplices
    <3>14. Fair(base, q, sh2, lk2)
      BY <2>2, <2>4, <3>11
    <3> QED
      BY <2>5, <2>9, <3>6, <3>12, <3>13, <3>14 DEF Fair
  <2>17. CASE ~IsLink(tree, child)
    <3>1. WalkStep(tree, no, Going(d, y, sh)) = Going(child, z, sh)
      BY <2>8, <2>12, <2>13, <2>14, <2>17, StepDown
    <3>2. WalkFrom(tree, no, Going(d, y, sh)) = WalkFrom(tree, no, Going(child, z, sh))
      BY <2>8, <2>12, <2>13, <2>14, <2>17, WalkDown
    <3>3. WalkFrom(tree, follow, Going(d, yt, lk))
            = WalkFrom(tree, follow, Going(child, zt, lk))
      BY <2>11, <2>12, <2>13, <2>15, <2>17, WalkDown
    <3>4. Fair(child, z, sh, lk)
      BY <2>2, <2>4, <3>1
    <3> QED
      BY <2>5, <2>9, <2>10, <3>2, <3>3, <3>4 DEF Fair
  <2> QED
    BY <2>16, <2>17
<1>2. S = {}
  <2>1. S \in SUBSET Walkers(tree)
    OBVIOUS
  <2> HIDE DEF S
  <2> QED
    BY <1>1, <2>1, LastOfWalk
<1>3. Going(dir, x, short) \in Walkers(tree)
  BY GoingType
<1>4. Fair(dir, x, short, links)
  BY <1>2, <1>3
<1> QED
  BY <1>4 DEF Fair

-----------------------------------------------------------------------------
(* Paths and what they lead to. *)
Stem(path) == IF path = DotPath THEN <<>> ELSE path.names
ObjectIn(tree, path) == WalkFrom(tree, FALSE, Walker(path)).obj
Start(path) == Base(path, Cwd)

LEMMA StartType ==
    ASSUME NEW tree, NEW path, NEW dir,
           tree \in FileSystems, dir \in DOMAIN tree
    PROVE  Base(path, dir) \in DOMAIN tree
  BY TreeFacts DEF Base

(* A walk lstat finds something by. *)
LEMMA LstatWalks ==
    ASSUME NEW tree, NEW path, NEW nil,
           tree \in FileSystems, path \in Path, path.slash = FALSE, nil = <<>>,
           WalkFrom(tree, FALSE, Walker(path)).err = "found"
    PROVE  Walker(path) = Going(Start(path), path.names, nil)
<1>1. PICK w \in Walkers(tree) : w = Walker(path)
  BY WalkerType
<1>2. w.err \in {"none", "ENOENT", "ENAMETOOLONG"}
  BY <1>1 DEF Walker
<1>3. w.err # "none" => WalkFrom(tree, FALSE, w) = w
  BY WalkUnfolds
<1>4. w.err = "none"
  BY <1>1, <1>2, <1>3
<1>5. w = [dir |-> Start(path), rest |-> path.names, slash |-> FALSE, links |-> nil,
           err |-> IF path = Empty THEN "ENOENT"
                   ELSE IF Len(path.names) > PATH_MAX THEN "ENAMETOOLONG"
                   ELSE "none",
           obj |-> Root]
  BY <1>1 DEF Walker, Start, Base
<1>6. (IF path = Empty THEN "ENOENT"
       ELSE IF Len(path.names) > PATH_MAX THEN "ENAMETOOLONG"
       ELSE "none") = "none"
  BY <1>4, <1>5
<1>7. w = [dir |-> Start(path), rest |-> path.names, slash |-> FALSE, links |-> nil,
           err |-> "none", obj |-> Root]
  BY <1>5, <1>6
<1> QED
  BY <1>1, <1>7 DEF Going

LEMMA LstatFinds ==
    ASSUME NEW tree, NEW path, NEW w,
           tree \in FileSystems, WalkFrom(tree, FALSE, Walker(path)) = w,
           Lstat(tree, path).errno = "OK"
    PROVE  /\ w.err = "found" /\ w.obj \in DOMAIN tree
           /\ Lstat(tree, path).st = StatOf(tree[w.obj])
<1>1. Lstat(tree, path) =
        IF Found(tree, w) THEN [errno |-> "OK", st |-> StatOf(tree[w.obj])]
        ELSE [errno |-> IF w.err \in {"EACCES", "ELOOP", "ENAMETOOLONG", "ENOTDIR"}
                        THEN w.err ELSE "ENOENT"]
  BY DEF Lstat
<1>2. PICK answer : answer = Lstat(tree, path)
  OBVIOUS
<1>3. Found(tree, w)
  <2>1. ASSUME ~Found(tree, w) PROVE FALSE
    <3>1. answer.errno = IF w.err \in {"EACCES", "ELOOP", "ENAMETOOLONG", "ENOTDIR"}
                         THEN w.err ELSE "ENOENT"
      BY <1>1, <1>2, <2>1
    <3>2. answer.errno = "OK"
      BY <1>2
    <3> QED
      BY <3>1, <3>2
  <2> QED
    BY <2>1
<1>4. answer.st = StatOf(tree[w.obj])
  BY <1>1, <1>2, <1>3
<1> QED
  BY <1>2, <1>3, <1>4 DEF Found

LEMMA ReadlinkFinds ==
    ASSUME NEW tree, NEW path, NEW w,
           tree \in FileSystems, WalkFrom(tree, FALSE, Walker(path)) = w,
           Readlink(tree, path).errno = "OK"
    PROVE  /\ w.err = "found" /\ w.obj \in DOMAIN tree /\ IsLink(tree, w.obj)
           /\ Readlink(tree, path).body = Body(tree, w.obj)
<1>1. Readlink(tree, path) =
          IF Found(tree, w) /\ tree[w.obj].type = "lnk"
          THEN [errno |-> "OK", body |-> tree[w.obj].target]
          ELSE [errno |-> "EINVAL"]
  BY DEF Readlink
<1>2. PICK answer : answer = Readlink(tree, path)
  OBVIOUS
<1>3. Found(tree, w) /\ tree[w.obj].type = "lnk"
  <2>1. ASSUME ~(Found(tree, w) /\ tree[w.obj].type = "lnk") PROVE FALSE
    <3>1. answer.errno = "EINVAL"
      BY <1>1, <1>2, <2>1
    <3>2. answer.errno = "OK"
      BY <1>2
    <3> QED
      BY <3>1, <3>2
  <2> QED
    BY <2>1
<1>4. answer.body = tree[w.obj].target
  BY <1>1, <1>2, <1>3
<1> QED
  BY <1>2, <1>3, <1>4 DEF Found, IsLink, Body

(* Who may search, by the library's lights, may by the kernel's. *)
LEMMA SearchIsGranted ==
    ASSUME NEW node, have_search_permission(StatOf(node))
    PROVE  node.type = "dir" /\ Granted(node, "x")
<1>1. PICK st : st = StatOf(node)
  OBVIOUS
<1>2. st.type = node.type /\ st.uid = node.uid /\ st.gid = node.gid /\ st.mode = node.mode
  BY <1>1 DEF StatOf
<1> QED
  BY <1>1, <1>2 DEF have_search_permission, explain_have_search_permission,
     explain_capability, explain_have_permission, class_of, explain_group_in_groups,
     Granted, KernelMay

-----------------------------------------------------------------------------
(* What is walked to from a lookup directory is walked to from the         *)
(* directory it leads to.                                                  *)
Through(tree, path, dir) ==
    \A t \in Seq(Name) : t # <<>>
        => WalkFrom(tree, FALSE, Going(Start(path), Cat(Stem(path), t), <<>>))
             = WalkFrom(tree, FALSE, Going(dir, t, <<>>))

Leads(tree, path, dir) ==
    /\ path \in Path /\ path.slash = FALSE
    /\ dir \in DOMAIN tree /\ tree[dir].type = "dir"
    /\ WalkFrom(tree, FALSE, Walker(path)).err = "found"
    /\ ObjectIn(tree, path) = dir
    /\ Through(tree, path, dir)

LEMMA RootLeads ==
    ASSUME NEW tree, tree \in FileSystems
    PROVE  Leads(tree, RootPath, Root)
<1>0. PICK nil \in Seq(DOMAIN tree) : nil = <<>>
  BY EmptySeq
<1>1. /\ RootPath \in Path /\ RootPath.slash = FALSE /\ Start(RootPath) = Root
      /\ RootPath.names = <<>> /\ RootPath # DotPath /\ RootPath # Empty
  BY ConstantPaths DEF RootPath, DotPath, Empty, Rel, Abs, Start, Base
<1>2. Root \in DOMAIN tree /\ tree[Root].type = "dir"
  BY TreesAreTrees DEF IsTree
<1>3. Stem(RootPath) = <<>>
  BY <1>1 DEF Stem
<1>4. Through(tree, RootPath, Root)
  <2>1. ASSUME NEW t \in Seq(Name) PROVE Cat(Stem(RootPath), t) = t
    BY <1>3, CatEmpty
  <2> QED
    BY <1>1, <2>1 DEF Through
<1>5. WalkFrom(tree, FALSE, Walker(RootPath)).err = "found"
      /\ ObjectIn(tree, RootPath) = Root
  <2>1. Walker(RootPath) = Going(Root, <<>>, nil)
    <3>1. ~(Len(<<>>) > PATH_MAX)
      BY SymloopAssumption
    <3> QED
      BY <1>0, <1>1, <3>1 DEF Walker, Going, RootPath, Abs
  <2>2. WalkStep(tree, FALSE, Going(Root, <<>>, nil))
          = Reached(Going(Root, <<>>, nil), Root)
    BY StepHere
  <2>3. PICK q \in Seq(Name) : q = <<>>
    BY EmptySeq
  <2>4. WalkStep(tree, FALSE, Going(Root, q, nil)) = Reached(Going(Root, q, nil), Root)
    BY <2>2, <2>3
  <2>5. Outcome(WalkFrom(tree, FALSE, Going(Root, q, nil)), Root, "found", Root, nil)
    BY <1>2, <2>4, WalkReaches
  <2> QED
    BY <2>1, <2>3, <2>5 DEF Outcome, ObjectIn
<1> QED
  BY <1>1, <1>2, <1>4, <1>5 DEF Leads

LEMMA DotStays ==
    ASSUME NEW tree, NEW dir,
           tree \in FileSystems, dir \in DOMAIN tree, tree[dir].type = "dir",
           Granted(tree[dir], "x")
    PROVE  Enters(tree, dir, ".") /\ Child(tree, dir, ".") = dir /\ ~IsLink(tree, dir)
  BY TreesAreTrees, NamesAssumption DEF IsTree, Enters, Child, IsLink

(* Walking "." where one may. *)
LEMMA DotFound ==
    ASSUME NEW tree, NEW follow, NEW dir, NEW links, NEW dot,
           tree \in FileSystems, dir \in DOMAIN tree, tree[dir].type = "dir",
           Granted(tree[dir], "x"), links \in Seq(DOMAIN tree), dot = <<".">>
    PROVE  Outcome(WalkFrom(tree, follow, Going(dir, dot, links)), dir, "found", dir, links)
<1>1. dot \in Seq(Name)
  BY NamesAssumption
<1>2. PICK n \in Name : n = "."
  BY NamesAssumption
<1>3. PICK nil \in Seq(Name) : nil = <<>>
  BY EmptySeq
<1>4. Parts(dot, n, nil)
  BY <1>2, <1>3 DEF Parts
<1>5. Enters(tree, dir, n) /\ dir = Child(tree, dir, n) /\ ~IsLink(tree, dir)
  BY <1>2, DotStays
<1>6. WalkStep(tree, follow, Going(dir, dot, links)) = Reached(Going(dir, dot, links), dir)
  BY <1>3, <1>4, <1>5, StepArrives
<1> QED
  BY <1>1, <1>6, WalkReaches

LEMMA DotLeads ==
    ASSUME NEW tree, tree \in FileSystems, Granted(tree[Cwd], "x")
    PROVE  Leads(tree, DotPath, Cwd)
<1>0. PICK nil \in Seq(DOMAIN tree) : nil = <<>>
  BY EmptySeq
<1>1. /\ DotPath \in Path /\ DotPath.slash = FALSE /\ Start(DotPath) = Cwd
      /\ DotPath.names = <<".">> /\ DotPath # Empty
  BY ConstantPaths DEF DotPath, Empty, Rel, Start, Base
<1>2. Cwd \in DOMAIN tree /\ tree[Cwd].type = "dir"
  BY TreesAreTrees DEF IsTree
<1>3. Stem(DotPath) = <<>>
  BY <1>1 DEF Stem
<1>4. Through(tree, DotPath, Cwd)
  <2>1. ASSUME NEW t \in Seq(Name) PROVE Cat(Stem(DotPath), t) = t
    BY <1>3, CatEmpty
  <2> QED
    BY <1>1, <2>1 DEF Through
<1>5. WalkFrom(tree, FALSE, Walker(DotPath)).err = "found"
      /\ ObjectIn(tree, DotPath) = Cwd
  <2>0. PICK dot : dot = <<".">>
    OBVIOUS
  <2>1. Walker(DotPath) = Going(Cwd, dot, nil)
    <3>1. ~(Len(<<".">>) > PATH_MAX)
      BY SymloopAssumption
    <3> QED
      BY <1>0, <1>1, <2>0, <3>1 DEF Walker, Going, DotPath, Rel
  <2>2. Outcome(WalkFrom(tree, FALSE, Going(Cwd, dot, nil)), Cwd, "found", Cwd, nil)
    BY <1>2, <2>0, DotFound
  <2> QED
    BY <2>1, <2>2 DEF Outcome, ObjectIn
<1> QED
  BY <1>1, <1>2, <1>4, <1>5 DEF Leads

(* One component down from a lookup directory. *)
Below(path, c, one, joined) ==
    /\ joined \in Path /\ joined.slash = FALSE
    /\ Start(joined) = Start(path)
    /\ joined.names = Cat(Stem(path), one)
    /\ Stem(joined) = joined.names

LEMMA JoinedOne ==
    ASSUME NEW path, NEW c, NEW one, NEW joined,
           path \in Path, c \in Name, c # ".", one = <<c>>,
           joined = path_join(path, one), path.slash = FALSE
    PROVE  Below(path, c, one, joined)
<1>1. one \in Seq(Name) /\ one # <<>> /\ Head(one) # "."
  OBVIOUS
<1>2. SkipDots(one) = one
  BY <1>1, NoDotsToSkip
<1>3. joined = IF path = DotPath THEN Rel(one)
               ELSE [abs |-> path.abs, names |-> path.names \o one, slash |-> FALSE]
  BY <1>1, <1>2 DEF path_join
<1>4. joined \in Path
  BY <1>1, PathJoinType
<1>5. DotPath.abs = FALSE
  BY DEF DotPath, Rel
<1>6. joined.abs = path.abs /\ joined.slash = FALSE
  <2>1. CASE path = DotPath
    <3>1. joined.abs = FALSE /\ joined.slash = FALSE
      BY <1>3, <2>1 DEF Rel
    <3>2. path.abs = FALSE
      BY <1>5, <2>1
    <3> QED
      BY <3>1, <3>2
  <2>2. CASE path # DotPath
    BY <1>3, <2>2
  <2> QED
    BY <2>1, <2>2
<1>7. Start(joined) = Start(path)
  BY <1>6 DEF Start, Base
<1>8. joined.names = Stem(path) \o one
  <2>1. CASE path = DotPath
    <3>1. <<>> \o one = one
      BY <1>1, ConcatEmptySeq
    <3> QED
      BY <1>3, <2>1, <3>1 DEF Stem, Rel
  <2>2. CASE path # DotPath
    BY <1>3, <2>2 DEF Stem
  <2> QED
    BY <2>1, <2>2
<1>9. joined # DotPath
  <2>1. PICK s \in Seq(Name) : s = Stem(path)
    BY EmptySeq DEF Stem, Path
  <2>2. Last(s \o one) = Last(one)
    BY <1>1, ConcatLast
  <2>3. Last(one) = c
    BY DEF Last
  <2>4. Last(<<".">>) = "."
    BY DEF Last
  <2> QED
    BY <1>8, <2>1, <2>2, <2>3, <2>4 DEF DotPath, Rel
<1> QED
  BY <1>4, <1>6, <1>7, <1>8, <1>9 DEF Stem, Cat, Below

IsOne(names, c) == names = <<c>>

LEMMA FoundBelow ==
    ASSUME NEW tree, NEW path, NEW dir, NEW c, NEW one, NEW joined, NEW w,
           tree \in FileSystems, Leads(tree, path, dir),
           c \in Name, c # ".", IsOne(one, c), joined = path_join(path, one),
           WalkFrom(tree, FALSE, Walker(joined)) = w, w.err = "found"
    PROVE  Enters(tree, dir, c) /\ w.obj = Child(tree, dir, c)
<1>1. PICK nil \in Seq(DOMAIN tree) : nil = <<>>
  BY EmptySeq
<1>2. one = <<c>>
  BY DEF IsOne
<1>3. one \in Seq(Name) /\ one # <<>>
  BY <1>2
<1>4. path \in Path /\ path.slash = FALSE /\ dir \in DOMAIN tree
  BY DEF Leads
<1>5. Below(path, c, one, joined)
  BY <1>4, <1>2, JoinedOne
<1>6. /\ joined \in Path /\ joined.slash = FALSE
      /\ Start(joined) = Start(path) /\ joined.names = Cat(Stem(path), one)
  BY <1>5 DEF Below
<1>7. Walker(joined) = Going(Start(path), Cat(Stem(path), one), nil)
  <2>1. WalkFrom(tree, FALSE, Walker(joined)).err = "found"
    OBVIOUS
  <2>2. Walker(joined) = Going(Start(joined), joined.names, nil)
    BY <1>1, <1>6, <2>1, LstatWalks
  <2> QED
    BY <1>6, <2>2
<1>8. w = WalkFrom(tree, FALSE, Going(dir, one, nil))
  BY <1>1, <1>3, <1>7 DEF Leads, Through
<1>9. PICK no \in Seq(Name), way \in BOOLEAN : no = <<>> /\ way = FALSE
  BY EmptySeq
<1>10. Parts(one, c, no)
  BY <1>9, <1>2 DEF Parts
<1>11. Enters(tree, dir, c)
  <2>1. PICK e : e = Refusal(tree, dir, c, no = <<>>)
    OBVIOUS
  <2>2. ASSUME ~Enters(tree, dir, c) PROVE FALSE
    <3>1. e # "found" /\ Outcome(WalkFrom(tree, FALSE, Going(dir, one, nil)),
                                 dir, e, Root, nil)
      BY <1>3, <1>4, <1>10, <2>1, <2>2, WalkRefused
    <3> QED
      BY <1>8, <3>1 DEF Outcome
  <2> QED
    BY <2>2
<1>12. PICK child \in DOMAIN tree : child = Child(tree, dir, c)
  BY <1>4, <1>11, ChildType
<1>13. WalkStep(tree, way, Going(dir, one, nil)) = Reached(Going(dir, one, nil), child)
  BY <1>9, <1>10, <1>11, <1>12, StepArrives
<1>14. Outcome(WalkFrom(tree, way, Going(dir, one, nil)), dir, "found", child, nil)
  BY <1>3, <1>4, <1>13, WalkReaches
<1> QED
  BY <1>8, <1>9, <1>11, <1>12, <1>14 DEF Outcome

LEMMA DownLeads ==
    ASSUME NEW tree, NEW path, NEW dir, NEW c, NEW one, NEW joined, NEW child,
           tree \in FileSystems, Leads(tree, path, dir),
           c \in Name, c # ".", IsOne(one, c), joined = path_join(path, one),
           WalkFrom(tree, FALSE, Walker(joined)).err = "found",
           ObjectIn(tree, joined) = child, Enters(tree, dir, c),
           child = Child(tree, dir, c), tree[child].type = "dir"
    PROVE  Leads(tree, joined, child)
<1>1. one = <<c>>
  BY DEF IsOne
<1>2. one \in Seq(Name) /\ one # <<>>
  BY <1>1
<1>3. path \in Path /\ path.slash = FALSE /\ dir \in DOMAIN tree
  BY DEF Leads
<1>4. Below(path, c, one, joined)
  BY <1>3, <1>1, JoinedOne
<1>5. /\ joined \in Path /\ joined.slash = FALSE
      /\ Start(joined) = Start(path) /\ joined.names = Cat(Stem(path), one)
      /\ Stem(joined) = joined.names
  BY <1>4 DEF Below
<1>6. child \in DOMAIN tree
  BY <1>3, ChildType
<1>7. PICK s \in Seq(Name) : s = Stem(path)
  BY <1>3, EmptySeq DEF Stem, Path
<1>8. PICK nil \in Seq(DOMAIN tree) : nil = <<>>
  BY EmptySeq
<1>9. PICK way \in BOOLEAN : way = FALSE
  OBVIOUS
<1>10. ASSUME NEW t \in Seq(Name), t # <<>>
      PROVE  WalkFrom(tree, way, Going(Start(joined), Cat(Stem(joined), t), nil))
               = WalkFrom(tree, way, Going(child, t, nil))
  <2>1. PICK both \in Seq(Name) : both = Cat(one, t)
    BY <1>2, CatType
  <2>2. both # <<>> /\ Parts(both, c, t)
    <3>1. both = <<c>> \o t
      BY <1>1, <2>1 DEF Cat
    <3> QED
      BY <3>1, HeadAndTail DEF Parts
  <2>3. Cat(Stem(joined), t) = Cat(s, both)
    <3>1. s \o (one \o t) = (s \o one) \o t
      BY <1>2, TailConcat, SMTT(60)
    <3> QED
      BY <1>5, <1>7, <2>1, <3>1 DEF Cat
  <2>4. WalkFrom(tree, way, Going(Start(path), Cat(s, both), nil))
          = WalkFrom(tree, way, Going(dir, both, nil))
    BY <1>7, <1>8, <1>9, <2>2 DEF Leads, Through
  <2>5. WalkFrom(tree, way, Going(dir, both, nil))
          = WalkFrom(tree, way, Going(child, t, nil))
    <3>1. ~IsLink(tree, child)
      BY DEF IsLink
    <3> QED
      BY <1>3, <1>10, <2>2, <3>1, WalkDown
  <2> QED
    BY <1>5, <2>3, <2>4, <2>5
<1>11. Through(tree, joined, child)
  BY <1>8, <1>9, <1>10 DEF Through
<1> QED
  BY <1>5, <1>6, <1>11 DEF Leads

-----------------------------------------------------------------------------
(* The path after a link. *)
EndsWell(names) == names = <<>> \/ Last(names) # "."
MayEnd(names) == names = <<".">> \/ EndsWell(names)
Text(body) == IF body = Empty THEN DotPath ELSE body

LEMMA EmptyFacts ==
    /\ DotPath.abs = FALSE /\ DotPath.names = <<".">> /\ DotPath.slash = FALSE
    /\ Empty.abs = FALSE /\ Empty.names = <<>> /\ Empty.slash = FALSE
    /\ DotPath # Empty
  BY DEF DotPath, Empty, Rel

LEMMA TextFacts ==
    ASSUME NEW body, body \in Path
    PROVE  /\ Text(body) \in Path /\ Text(body).abs = body.abs
           /\ Text(body).slash = body.slash
<1>1. CASE body = Empty
  <2>1. Text(body) = DotPath
    BY <1>1 DEF Text
  <2> QED
    BY <1>1, <2>1, EmptyFacts, ConstantPaths
<1>2. CASE body # Empty
  BY <1>2 DEF Text
<1> QED
  BY <1>1, <1>2

LEMMA JoinedNothing ==
    ASSUME NEW text
    PROVE  path_join(text, <<>>) = text
  BY SkipEmpty DEF path_join

LEMMA JoinedNames ==
    ASSUME NEW text, NEW tail,
           tail \in Seq(Name), tail # <<>>, Last(tail) # "."
    PROVE  path_join(text, tail).names = IF text = DotPath THEN SkipDots(tail)
                                         ELSE text.names \o SkipDots(tail)
<1>1. SkipDots(tail) # <<>>
  BY SkipDotsKeeps
<1>2. path_join(text, tail) = IF text = DotPath THEN Rel(SkipDots(tail))
                              ELSE [abs |-> text.abs,
                                    names |-> text.names \o SkipDots(tail),
                                    slash |-> FALSE]
  BY <1>1 DEF path_join
<1>3. CASE text = DotPath
  BY <1>2, <1>3 DEF Rel
<1>4. CASE text # DotPath
  BY <1>2, <1>4
<1> QED
  BY <1>3, <1>4

LEMMA FollowedEnd ==
    ASSUME NEW body, NEW tail, NEW names,
           body \in Path, body = DotPath \/ ~TrailsOff(body), tail \in Seq(Name),
           EndsWell(tail), names = path_join(Text(body), tail).names
    PROVE  MayEnd(names)
<1>0. body.names \in Seq(Name)
  BY DEF Path
<1>1. CASE tail = <<>>
  <2>1. names = Text(body).names
    BY <1>1, JoinedNothing
  <2>2. CASE body = Empty \/ body = DotPath
    <3>1. names = <<".">>
      BY <2>1, <2>2, EmptyFacts DEF Text
    <3> QED
      BY <3>1 DEF MayEnd
  <2>3. CASE body # Empty /\ body # DotPath
    <3>1. names = body.names
      BY <2>1, <2>3 DEF Text
    <3>2. EndsWell(names)
      BY <2>3, <3>1 DEF EndsWell, TrailsOff
    <3> QED
      BY <3>2 DEF MayEnd
  <2> QED
    BY <2>2, <2>3
<1>2. CASE tail # <<>>
  <2>1. Last(tail) # "."
    BY <1>2 DEF EndsWell
  <2>2. PICK q \in Seq(Name) : q = SkipDots(tail) /\ q # <<>> /\ Last(q) # "."
    BY <1>2, <2>1, SkipDotsKeeps
  <2>3. PICK x \in Seq(Name) : x = Text(body).names
    BY TextFacts DEF Path
  <2>4. names = IF Text(body) = DotPath THEN q ELSE x \o q
    BY <1>2, <2>1, <2>2, <2>3, JoinedNames
  <2>5. Last(x \o q) = Last(q)
    BY <2>2, ConcatLast
  <2>6. Last(names) # "."
    BY <2>2, <2>4, <2>5
  <2> QED
    BY <2>6 DEF MayEnd, EndsWell
<1> QED
  BY <1>1, <1>2

(* The kernel walks the body of a link and what was left; so does the      *)
(* function, but for "." here and there.                                   *)
LEMMA FollowedAlike ==
    ASSUME NEW tree, NEW follow, NEW dir, NEW body, NEW tail, NEW links,
           NEW base, NEW whole, NEW names,
           tree \in FileSystems, dir \in DOMAIN tree, tree[dir].type = "dir",
           Granted(tree[dir], "x"), body \in Path, tail \in Seq(Name),
           links \in Seq(DOMAIN tree), base = Base(body, dir), EndsWell(tail),
           whole = Rest(body, tail), names = path_join(Text(body), tail).names
    PROVE  Same(WalkFrom(tree, follow, Going(base, whole, links)),
                WalkFrom(tree, follow, Going(base, names, links)))
<1>0. PICK x \in Seq(Name) : x = body.names
  BY DEF Path
<1>1. PICK nil \in Seq(Name) : nil = <<>>
  BY EmptySeq
<1>2. PICK dot \in Seq(Name) : dot = <<".">>
  <2>1. <<".">> \in Seq(Name)
    BY NamesAssumption
  <2> QED
    BY <2>1
<1>3. base \in DOMAIN tree
  BY StartType
<1>4. PICK w : w = Going(base, whole, links)
  OBVIOUS
<1>5. PICK v : v = Going(base, names, links)
  OBVIOUS
<1>6. whole = x \o tail
  BY <1>0 DEF Rest
<1>7. CASE tail = <<>>
  <2>1. names = Text(body).names
    BY <1>7, JoinedNothing
  <2>2. whole = x
    BY <1>6, <1>7, ConcatEmptySeq
  <2>3. CASE body # Empty
    <3>1. names = whole
      BY <1>0, <2>1, <2>2, <2>3 DEF Text
    <3> QED
      BY <3>1, SameAsItself
  <2>4. CASE body = Empty
    <3>1. whole = nil /\ names = dot /\ base = dir
      BY <1>0, <1>1, <1>2, <2>1, <2>2, <2>4, EmptyFacts DEF Text, Base
    <3>2. WalkStep(tree, follow, Going(dir, nil, links))
            = Reached(Going(dir, nil, links), dir)
      BY <1>1, StepHere
    <3>3. Outcome(WalkFrom(tree, follow, Going(dir, nil, links)), dir, "found", dir, links)
      BY <3>2, WalkReaches
    <3>4. Outcome(WalkFrom(tree, follow, Going(dir, dot, links)), dir, "found", dir, links)
      BY <1>2, DotFound
    <3> QED
      BY <3>1, <3>3, <3>4, OutcomesSame
  <2> QED
    BY <2>3, <2>4
<1>8. CASE tail # <<>>
  <2>1. Last(tail) # "."
    BY <1>8 DEF EndsWell
  <2>2. PICK q \in Seq(Name) : q = SkipDots(tail)
    BY SkipDotsType
  <2>3. names = IF Text(body) = DotPath THEN q ELSE Text(body).names \o q
    BY <1>8, <2>1, <2>2, JoinedNames
  <2>4. CASE body # Empty /\ body # DotPath
    <3>1. names = x \o q
      BY <1>0, <2>3, <2>4 DEF Text
    <3>2. Same(WalkFrom(tree, follow, Going(base, x \o tail, links)),
               WalkFrom(tree, follow, Going(base, x \o SkipDots(tail), links)))
      BY <1>3, <1>8, <2>1, DotsSkipped
    <3> QED
      BY <1>6, <2>2, <3>1, <3>2
  <2>5. CASE body = Empty \/ body = DotPath
    <3>1. names = q /\ base = dir
      BY <2>3, <2>5, EmptyFacts DEF Text, Base
    <3>2. Same(WalkFrom(tree, follow, Going(dir, <<>> \o tail, links)),
               WalkFrom(tree, follow, Going(dir, <<>> \o SkipDots(tail), links)))
      BY <1>1, <1>8, <2>1, DotsSkipped
    <3>3. <<>> \o tail = tail /\ <<>> \o SkipDots(tail) = q
      BY <2>2, ConcatEmptySeq
    <3>4. Same(WalkFrom(tree, follow, Going(dir, tail, links)),
               WalkFrom(tree, follow, Going(dir, q, links)))
      BY <3>2, <3>3
    <3>5. CASE body = Empty
      <4>1. whole = tail
        BY <1>0, <1>6, <3>3, <3>5, EmptyFacts
      <4> QED
        BY <3>1, <3>4, <4>1
    <3>6. CASE body = DotPath
      <4>1. whole = <<".">> \o tail
        BY <1>0, <1>6, <3>6, EmptyFacts
      <4>2. PICK n \in Name : n = "."
        BY NamesAssumption
      <4>3. whole \in Seq(Name) /\ Parts(whole, n, tail)
        BY <4>1, <4>2, HeadAndTail DEF Parts
      <4>4. Enters(tree, dir, n) /\ dir = Child(tree, dir, n) /\ ~IsLink(tree, dir)
        BY <4>2, DotStays
      <4>5. WalkFrom(tree, follow, Going(dir, whole, links))
              = WalkFrom(tree, follow, Going(dir, tail, links))
        BY <1>8, <4>3, <4>4, WalkDown
      <4> QED
        BY <3>1, <3>4, <4>5
    <3> QED
      BY <2>5, <3>5, <3>6
  <2> QED
    BY <2>4, <2>5
<1> QED
  BY <1>7, <1>8

-----------------------------------------------------------------------------
(* What is still to be walked from the lookup directory has the answer of  *)
(* the whole walk.                                                         *)
Ahead(tree, follow, whole, path, dir, rest, links, count) ==
    /\ dir \in DOMAIN tree /\ links \in Seq(DOMAIN tree) /\ Len(links) = count
    /\ Leads(tree, path, dir)
    /\ Same(WalkFrom(tree, follow, Going(dir, rest, links)), whole)

LEMMA OneName ==
    ASSUME NEW s, s \in Seq(Name), s # <<>>, Len(s) <= 1
    PROVE  \E c \in Name : IsOne(s, c)
<1>1. Head(s) \in Name /\ Tail(s) \in Seq(Name)
  BY NameAndRest
<1>2. Len(Tail(s)) + 1 = Len(s) /\ Len(Tail(s)) \in Nat /\ Len(s) \in Nat
  BY <1>1, TailLast, LenProperties
<1>3. PICK t \in Seq(Name) : t = Tail(s)
  BY <1>1
<1>4. Len(t) = 0
  BY <1>2, <1>3
<1>5. t = <<>>
  BY <1>4, EmptySeq
<1>6. s = <<Head(s)>>
  BY <1>3, <1>5, TailLast
<1> QED
  BY <1>1, <1>6 DEF IsOne

LEMMA LooksUp ==
    ASSUME NEW tree, NEW path, NEW dir,
           tree \in FileSystems, Leads(tree, path, dir),
           Lstat(tree, path).errno = "OK",
           have_search_permission(Lstat(tree, path).st)
    PROVE  tree[dir].type = "dir" /\ Granted(tree[dir], "x")
<1>1. PICK w : WalkFrom(tree, FALSE, Walker(path)) = w
  OBVIOUS
<1>2. w.obj = dir
  BY <1>1 DEF Leads, ObjectIn
<1>3. Lstat(tree, path).st = StatOf(tree[w.obj])
  BY <1>1, LstatFinds
<1>4. have_search_permission(StatOf(tree[dir]))
  BY <1>2, <1>3
<1> QED
  BY <1>4, SearchIsGranted

LEMMA LongNameTells ==
    ASSUME NEW tree, NEW follow, NEW whole, NEW path, NEW dir, NEW rest,
           NEW links, NEW count, NEW name, NEW tail,
           tree \in FileSystems, rest \in Seq(Name),
           Ahead(tree, follow, whole, path, dir, rest, links, count),
           tree[dir].type = "dir", Granted(tree[dir], "x"),
           Parts(rest, name, tail), name \in LongNames
    PROVE  whole.err = "ENAMETOOLONG"
<1>1. dir \in DOMAIN tree /\ links \in Seq(DOMAIN tree)
      /\ Same(WalkFrom(tree, follow, Going(dir, rest, links)), whole)
  BY DEF Ahead
<1>2. PICK e : e = Refusal(tree, dir, name, tail = <<>>)
  OBVIOUS
<1>3. ~Enters(tree, dir, name)
  BY DEF Enters
<1>4. e = "ENAMETOOLONG"
  BY <1>2 DEF Refusal
<1>5. e \in Ways \ {"none", "found"}
      /\ Outcome(WalkFrom(tree, follow, Going(dir, rest, links)), dir, e, Root, links)
  BY <1>1, <1>2, <1>3, WalkRefused
<1> QED
  BY <1>1, <1>4, <1>5 DEF Same, Outcome

LEMMA JoinedDot ==
    ASSUME NEW path, NEW one, one = <<".">>
    PROVE  path_join(path, one) = path
<1>1. one # <<>> /\ Head(one) = "." /\ Tail(one) = <<>> /\ one \in Seq(Name)
  BY NamesAssumption
<1>2. SkipDots(one) = SkipDots(Tail(one))
  BY <1>1, DotSkipped
<1>3. SkipDots(one) = <<>>
  BY <1>1, <1>2, SkipEmpty
<1> QED
  BY <1>3 DEF path_join

LEMMA DownAhead ==
    ASSUME NEW tree, NEW follow, NEW whole, NEW path, NEW dir, NEW one,
           NEW tail, NEW links, NEW count, NEW c, NEW joined,
           tree \in FileSystems, c \in Name, tail \in Seq(Name), tail # <<>>,
           IsOne(one, c),
           Ahead(tree, follow, whole, path, dir, Cat(one, tail), links, count),
           tree[dir].type = "dir", Granted(tree[dir], "x"),
           joined = path_join(path, one), Lstat(tree, joined).errno = "OK",
           Lstat(tree, joined).st.type = "dir"
    PROVE  \E child : Ahead(tree, follow, whole, joined, child, tail, links, count)
<1>1. /\ dir \in DOMAIN tree /\ links \in Seq(DOMAIN tree) /\ Len(links) = count
      /\ Leads(tree, path, dir)
      /\ Same(WalkFrom(tree, follow, Going(dir, Cat(one, tail), links)), whole)
  BY DEF Ahead
<1>2. PICK rest \in Seq(Name) : rest = Cat(one, tail) /\ Parts(rest, c, tail)
  BY HeadAndTail DEF Cat, Parts, IsOne
<1>3. ASSUME NEW child, Leads(tree, joined, child), Enters(tree, dir, c),
             child = Child(tree, dir, c), ~IsLink(tree, child)
      PROVE  Ahead(tree, follow, whole, joined, child, tail, links, count)
  <2>1. WalkFrom(tree, follow, Going(dir, rest, links))
          = WalkFrom(tree, follow, Going(child, tail, links))
    BY <1>1, <1>2, <1>3, WalkDown
  <2>2. child \in DOMAIN tree
    BY <1>3 DEF Leads
  <2> QED
    BY <1>1, <1>2, <1>3, <2>1, <2>2 DEF Ahead
<1>4. CASE c = "."
  <2>1. joined = path
    BY <1>4, JoinedDot DEF IsOne
  <2>2. Enters(tree, dir, c) /\ dir = Child(tree, dir, c) /\ ~IsLink(tree, dir)
    BY <1>1, <1>4, DotStays
  <2> QED
    BY <1>1, <1>3, <2>1, <2>2
<1>5. CASE c # "."
  <2>1. PICK w : WalkFrom(tree, FALSE, Walker(joined)) = w
    OBVIOUS
  <2>2. w.err = "found" /\ Lstat(tree, joined).st = StatOf(tree[w.obj])
    BY <2>1, LstatFinds
  <2>3. Enters(tree, dir, c) /\ w.obj = Child(tree, dir, c)
    <3>1. Leads(tree, path, dir) /\ w.err = "found"
      BY <1>1, <2>2
    <3> QED
      BY <1>5, <2>1, <3>1, FoundBelow
  <2>4. PICK child : child = w.obj
    OBVIOUS
  <2>5. tree[child].type = "dir" /\ ~IsLink(tree, child)
    BY <2>2, <2>4 DEF IsLink, StatOf
  <2>6. /\ ObjectIn(tree, joined) = child
        /\ WalkFrom(tree, FALSE, Walker(joined)).err = "found"
    BY <2>1, <2>2, <2>4 DEF ObjectIn
  <2>7. Leads(tree, joined, child)
    BY <1>1, <1>5, <2>3, <2>4, <2>5, <2>6, DownLeads
  <2> QED
    BY <1>3, <2>3, <2>4, <2>5, <2>7
<1> QED
  BY <1>4, <1>5

LEMMA NoLinkRead ==
    ASSUME NEW tree, NEW path, NEW dir,
           tree \in FileSystems, Leads(tree, path, dir)
    PROVE  Readlink(tree, path).errno # "OK"
<1>1. ASSUME Readlink(tree, path).errno = "OK" PROVE FALSE
  <2>1. PICK w : WalkFrom(tree, FALSE, Walker(path)) = w
    OBVIOUS
  <2>2. IsLink(tree, w.obj)
    BY <1>1, <2>1, ReadlinkFinds
  <2> QED
    BY <2>1, <2>2 DEF Leads, ObjectIn, IsLink
<1> QED
  BY <1>1

AfterLink(body, path) == IF body.abs THEN RootPath ELSE path

Follows(tree, follow, whole, path, names, links, count) ==
    /\ MayEnd(names) /\ (names = <<>> => path = RootPath)
    /\ \E base : Ahead(tree, follow, whole, path, base, names, links, count + 1)

LEMMA RootFollowed ==
    ASSUME NEW body, NEW tail, NEW names,
           body \in Path, body.slash = FALSE, tail \in Seq(Name), EndsWell(tail),
           names = path_join(Text(body), tail).names, names = <<>>
    PROVE  body.abs
<1>1. PICK x \in Seq(Name) : x = Text(body).names
  BY TextFacts DEF Path
<1>2. CASE tail = <<>>
  <2>1. Text(body).names = <<>>
    BY <1>2, JoinedNothing
  <2>2. ASSUME body = Empty PROVE FALSE
    <3>1. Text(body) = DotPath
      BY <2>2 DEF Text
    <3>2. DotPath.names = <<>>
      BY <2>1, <3>1
    <3>3. <<".">> # <<>>
      OBVIOUS
    <3> QED
      BY <3>2, <3>3, EmptyFacts
  <2>3. body.names = <<>>
    BY <2>1, <2>2 DEF Text
  <2> QED
    BY <2>2, <2>3 DEF Path, Empty, Rel
<1>3. CASE tail # <<>>
  <2>1. Last(tail) # "."
    BY <1>3 DEF EndsWell
  <2>2. PICK q \in Seq(Name) : q = SkipDots(tail) /\ q # <<>>
    BY <1>3, <2>1, SkipDotsKeeps
  <2>3. names = IF Text(body) = DotPath THEN q ELSE x \o q
    BY <1>1, <1>3, <2>1, <2>2, JoinedNames
  <2>4. x \o q # <<>>
    BY <2>2, ConcatEqualIffEmpty
  <2> QED
    BY <2>2, <2>3, <2>4
<1> QED
  BY <1>2, <1>3

LEMMA LinkAhead ==
    ASSUME NEW tree, NEW follow, NEW whole, NEW path, NEW dir, NEW one,
           NEW tail, NEW links, NEW count, NEW c, NEW joined, NEW body, NEW names,
           tree \in FileSystems, c \in Name, tail \in Seq(Name), EndsWell(tail),
           IsOne(one, c), count \in Nat, count < MAXSYMLINKS,
           Ahead(tree, follow, whole, path, dir, Cat(one, tail), links, count),
           tree[dir].type = "dir", Granted(tree[dir], "x"),
           joined = path_join(path, one), Readlink(tree, joined).errno = "OK",
           body = Readlink(tree, joined).body, tail # <<>> \/ follow,
           \A o \in DOMAIN tree : tree[o].target # DotPath => ~TrailsOff(tree[o].target),
           names = path_join(Text(body), tail).names
    PROVE  Follows(tree, follow, whole, AfterLink(body, path), names,
                   More(links, ObjectIn(tree, joined)), count)
<1>1. /\ dir \in DOMAIN tree /\ links \in Seq(DOMAIN tree) /\ Len(links) = count
      /\ Leads(tree, path, dir)
      /\ Same(WalkFrom(tree, follow, Going(dir, Cat(one, tail), links)), whole)
  BY DEF Ahead
<1>2. PICK rest \in Seq(Name) : rest = Cat(one, tail) /\ Parts(rest, c, tail)
  BY HeadAndTail DEF Cat, Parts, IsOne
<1>3. c # "."
  BY <1>1, JoinedDot, NoLinkRead DEF IsOne
<1>4. PICK w : WalkFrom(tree, FALSE, Walker(joined)) = w
  OBVIOUS
<1>5. /\ w.err = "found" /\ w.obj \in DOMAIN tree /\ IsLink(tree, w.obj)
      /\ body = Body(tree, w.obj)
  BY <1>4, ReadlinkFinds
<1>6. Enters(tree, dir, c) /\ w.obj = Child(tree, dir, c)
  <2>1. Leads(tree, path, dir) /\ w.err = "found"
    BY <1>1, <1>5
  <2> QED
    BY <1>3, <1>4, <2>1, FoundBelow
<1>7. PICK link \in DOMAIN tree : link = w.obj
  BY <1>5
<1>8. body \in Path
  BY <1>5, TreeFacts
<1>9. body = DotPath \/ ~TrailsOff(body)
  BY <1>5 DEF Body
<1>10. body.slash = FALSE
  BY <1>8, <1>9, EmptyFacts DEF TrailsOff, Path
<1>11. Onward(follow, body, tail)
  BY <1>10 DEF Onward
<1>12. PICK base \in DOMAIN tree : base = Base(body, dir)
  BY <1>1, StartType
<1>13. PICK rest2 \in Seq(Name) : rest2 = Rest(body, tail)
  BY <1>8, RestType
<1>14. PICK list \in Seq(DOMAIN tree) : list = More(links, link) /\ Len(list) = count + 1
  <2>1. /\ Append(links, link) \in Seq(DOMAIN tree)
        /\ Len(Append(links, link)) = Len(links) + 1
    BY <1>1, AppendProperties
  <2> QED
    BY <1>1, <2>1 DEF More
<1>15. ~Full(links)
  <2>1. ASSUME NEW n \in Nat, n < MAXSYMLINKS PROVE ~(n >= MAXSYMLINKS)
    BY <2>1, SymloopAssumption
  <2> QED
    BY <1>1, <2>1 DEF Full
<1>16. WalkFrom(tree, follow, Going(dir, rest, links))
         = WalkFrom(tree, follow, Going(base, rest2, list))
  <2>1. link = Child(tree, dir, c) /\ IsLink(tree, link) /\ body = Body(tree, link)
    BY <1>5, <1>6, <1>7
  <2> QED
    BY <1>1, <1>2, <1>6, <1>11, <1>12, <1>13, <1>14, <1>15, <2>1, WalkSplices
<1>17. Same(WalkFrom(tree, follow, Going(base, rest2, list)),
            WalkFrom(tree, follow, Going(base, names, list)))
  BY <1>1, <1>8, <1>12, <1>13, FollowedAlike
<1>18. Same(WalkFrom(tree, follow, Going(base, names, list)), whole)
  BY <1>1, <1>2, <1>16, <1>17 DEF Same
<1>19. Leads(tree, AfterLink(body, path), base)
  <2>1. CASE body.abs
    BY <1>12, <2>1, RootLeads DEF AfterLink, Base
  <2>2. CASE ~body.abs
    BY <1>1, <1>12, <2>2 DEF AfterLink, Base
  <2> QED
    BY <2>1, <2>2
<1>20. Ahead(tree, follow, whole, AfterLink(body, path), base, names, list, count + 1)
  BY <1>14, <1>18, <1>19 DEF Ahead
<1>21. MayEnd(names)
  BY <1>8, <1>9, FollowedEnd
<1>22. names = <<>> => AfterLink(body, path) = RootPath
  BY <1>8, <1>10, RootFollowed DEF AfterLink
<1>23. list = More(links, ObjectIn(tree, joined))
  BY <1>4, <1>7, <1>14 DEF ObjectIn
<1> QED
  BY <1>20, <1>21, <1>22, <1>23 DEF Follows

-----------------------------------------------------------------------------
(* What each system call says of the last component of its path. *)
FinalFacts(op, f) ==
    /\ f.must_not_exist <=> op \in {"mkdir", "mknod", "symlink", "open_excl"}
    /\ f.must_exist <=> op \notin Creates
    /\ f.follow_symlink \in BOOLEAN
    /\ f.follow_symlink <=> op \notin {"lstat", "readlink", "lchown", "mkdir", "mknod"}
    /\ f.follow_interpreter
    /\ f.must_be = IF op \in {"chdir", "chroot", "rmdir"} THEN "dir" ELSE "any"
    /\ f.want_to_read => op \in {"open_rdonly", "readlink", "access_r"}
    /\ f.want_to_write => op \in {"truncate", "utime_now", "access_w", "open_wronly",
                                  "open_creat", "open_excl"}
    /\ f.want_to_execute <=> op \in {"execve", "access_x"}
    /\ f.want_to_search => op \in {"chdir", "chroot", "access_x_directory"}
    /\ f.want_to_modify_inode => op \in {"chmod", "chown", "lchown", "utime_times"}
    /\ f.want_to_unlink => op \in Removes

LEMMA FinalFields ==
    ASSUME NEW op \in Syscall, NEW f, f = final_of[op]
    PROVE  FinalFacts(op, f)
<1> USE DEF final_init, Creates, Removes, FinalFacts
<1>1. CASE op = "stat"
  <2>1. f = final_stat
    BY <1>1 DEF final_of
  <2>2. f.must_not_exist = FALSE /\ f.must_exist = TRUE /\ f.follow_symlink = TRUE
    BY <2>1 DEF final_stat
  <2>3. f.follow_interpreter = TRUE /\ f.must_be = "any" /\ f.want_to_read = FALSE
    BY <2>1 DEF final_stat
  <2>4. /\ f.want_to_write = FALSE /\ f.want_to_search = FALSE
        /\ f.want_to_execute = FALSE /\ f.want_to_modify_inode = FALSE
        /\ f.want_to_unlink = FALSE
    BY <2>1 DEF final_stat
  <2> HIDE DEF final_init
  <2> QED
    BY <1>1, <2>2, <2>3, <2>4
<1>2. CASE op = "lstat"
  <2>1. f = final_lstat
    BY <1>2 DEF final_of
  <2> QED
    BY <1>2, <2>1 DEF final_lstat
<1>3. CASE op = "chdir"
  <2>1. f = final_chdir
    BY <1>3 DEF final_of
  <2> QED
    BY <1>3, <2>1 DEF final_chdir
<1>4. CASE op = "chmod"
  <2>1. f = final_chmod
    BY <1>4 DEF final_of
  <2> QED
    BY <1>4, <2>1 DEF final_chmod
<1>5. CASE op = "unlink"
  <2>1. f = final_unlink
    BY <1>5 DEF final_of
  <2> QED
    BY <1>5, <2>1 DEF final_unlink
<1>6. CASE op = "rmdir"
  <2>1. f = final_rmdir
    BY <1>6 DEF final_of
  <2> QED
    BY <1>6, <2>1 DEF final_rmdir
<1>7. CASE op = "execve"
  <2>1. f = final_execve
    BY <1>7 DEF final_of
  <2> QED
    BY <1>7, <2>1 DEF final_execve
<1>8. CASE op = "mkdir"
  <2>1. f = final_mkdir
    BY <1>8 DEF final_of
  <2> QED
    BY <1>8, <2>1 DEF final_mkdir
<1>9. CASE op = "symlink"
  <2>1. f = final_symlink
    BY <1>9 DEF final_of
  <2> QED
    BY <1>9, <2>1 DEF final_symlink
<1>10. CASE op = "readlink"
  <2>1. f = final_readlink
    BY <1>10 DEF final_of
  <2> QED
    BY <1>10, <2>1 DEF final_readlink
<1>11. CASE op = "truncate"
  <2>1. f = final_truncate
    BY <1>11 DEF final_of
  <2> QED
    BY <1>11, <2>1 DEF final_truncate
<1>12. CASE op = "chroot"
  <2>1. f = final_chroot
    BY <1>12 DEF final_of
  <2> QED
    BY <1>12, <2>1 DEF final_chroot
<1>13. CASE op = "chown"
  <2>1. f = final_chown
    BY <1>13 DEF final_of
  <2> QED
    BY <1>13, <2>1 DEF final_chown
<1>14. CASE op = "lchown"
  <2>1. f = final_lchown
    BY <1>14 DEF final_of
  <2> QED
    BY <1>14, <2>1 DEF final_lchown, final_chown
<1>15. CASE op = "mknod"
  <2>1. f = final_mknod
    BY <1>15 DEF final_of
  <2> QED
    BY <1>15, <2>1 DEF final_mknod
<1>16. CASE op = "utime_now"
  <2>1. f = final_utime(FALSE)
    BY <1>16 DEF final_of
  <2> QED
    BY <1>16, <2>1 DEF final_utime
<1>17. CASE op = "utime_times"
  <2>1. f = final_utime(TRUE)
    BY <1>17 DEF final_of
  <2> QED
    BY <1>17, <2>1 DEF final_utime
<1>18. CASE op = "access_r"
  <2>1. f = final_access({"R_OK"}, FALSE)
    BY <1>18 DEF final_of
  <2> QED
    BY <1>18, <2>1 DEF final_access
<1>19. CASE op = "access_w"
  <2>1. f = final_access({"W_OK"}, FALSE)
    BY <1>19 DEF final_of
  <2> QED
    BY <1>19, <2>1 DEF final_access
<1>20. CASE op = "access_x"
  <2>1. f = final_access({"X_OK"}, FALSE)
    BY <1>20 DEF final_of
  <2> QED
    BY <1>20, <2>1 DEF final_access
<1>21. CASE op = "access_x_directory"
  <2>1. f = final_access({"X_OK"}, TRUE)
    BY <1>21 DEF final_of
  <2> QED
    BY <1>21, <2>1 DEF final_access
<1>22. CASE op = "open_rdonly"
  <2>1. f = final_open({"O_RDONLY"})
    BY <1>22 DEF final_of
  <2> QED
    BY <1>22, <2>1 DEF final_open
<1>23. CASE op = "open_wronly"
  <2>1. f = final_open({"O_WRONLY"})
    BY <1>23 DEF final_of
  <2> QED
    BY <1>23, <2>1 DEF final_open
<1>24. CASE op = "open_creat"
  <2>1. f = final_open({"O_WRONLY", "O_CREAT"})
    BY <1>24 DEF final_of
  <2> QED
    BY <1>24, <2>1 DEF final_open
<1>25. CASE op = "open_excl"
  <2>1. f = final_open({"O_WRONLY", "O_CREAT", "O_EXCL"})
    BY <1>25 DEF final_of
  <2> QED
    BY <1>25, <2>1 DEF final_open
<1>26. op \in {"stat", "lstat", "chdir", "chmod", "unlink", "rmdir", "execve",
               "mkdir", "symlink", "readlink", "truncate", "chroot", "chown",
               "lchown", "mknod", "utime_now", "utime_times", "access_r",
               "access_w", "access_x", "access_x_directory", "open_rdonly",
               "open_wronly", "open_creat", "open_excl"}
  BY DEF Syscall, final_of
<1> QED
  BY <1>1, <1>2, <1>3, <1>4, <1>5, <1>6, <1>7, <1>8, <1>9, <1>10, <1>11, <1>12, <1>13,
     <1>14, <1>15, <1>16, <1>17, <1>18, <1>19, <1>20, <1>21, <1>22, <1>23, <1>24, <1>25,
     <1>26

LEMMA InterpreterFields ==
    ASSUME NEW f, f = final_interpreter
    PROVE  /\ ~f.must_not_exist /\ f.must_exist /\ f.follow_symlink = TRUE
           /\ ~f.follow_interpreter /\ f.must_be = "any" /\ ~f.want_to_read
           /\ ~f.want_to_write /\ f.want_to_execute /\ ~f.want_to_search
           /\ ~f.want_to_modify_inode /\ ~f.want_to_unlink
  BY DEF final_interpreter, final_execve, final_init

LEMMA FollowsOrNot ==
    \A f \in Finals : f.follow_symlink \in BOOLEAN
<1>1. \A op \in Syscall : final_of[op].follow_symlink \in BOOLEAN
  BY FinalFields DEF FinalFacts
<1>2. final_interpreter.follow_symlink \in BOOLEAN
  BY InterpreterFields
<1> QED
  BY <1>1, <1>2 DEF Finals
-----------------------------------------------------------------------------
(* What lstat says of the component looked up.                             *)
LEMMA LstatObject ==
    ASSUME NEW tree, NEW path,
           tree \in FileSystems, Lstat(tree, path).errno = "OK"
    PROVE  /\ ObjectIn(tree, path) \in DOMAIN tree
           /\ Lstat(tree, path).st = StatOf(tree[ObjectIn(tree, path)])
           /\ Lstat(tree, path).st.type = tree[ObjectIn(tree, path)].type
<1>1. PICK w : WalkFrom(tree, FALSE, Walker(path)) = w
  OBVIOUS
<1>2. w.err = "found" /\ w.obj \in DOMAIN tree
      /\ Lstat(tree, path).st = StatOf(tree[w.obj])
  BY <1>1, LstatFinds
<1>3. w.obj = ObjectIn(tree, path)
  BY <1>1 DEF ObjectIn
<1>4. ASSUME NEW node PROVE StatOf(node).type = node.type
  BY DEF StatOf
<1>5. Lstat(tree, path).st.type = tree[w.obj].type
  BY <1>2, <1>4
<1> QED
  BY <1>2, <1>3, <1>5

(* Without search permission on the working directory, even "." is denied. *)
LEMMA BlindDot ==
    ASSUME NEW tree, tree \in FileSystems, ~Granted(tree[Cwd], "x")
    PROVE  Lstat(tree, DotPath).errno = "EACCES"
<1>0. PICK nil \in Seq(DOMAIN tree) : nil = <<>>
  BY EmptySeq
<1>1. PICK none \in Seq(Name), dot \in Seq(Name) : none = <<>> /\ dot = <<".">>
  <2>1. <<".">> \in Seq(Name)
    BY NamesAssumption
  <2> QED
    BY <2>1, EmptySeq
<1>2. PICK c \in Name : c = "." /\ c \notin LongNames
  BY NamesAssumption
<1>3. Cwd \in DOMAIN tree /\ tree[Cwd].type = "dir"
  BY TreesAreTrees DEF IsTree
<1>4. Walker(DotPath) = Going(Cwd, dot, nil)
  <2>1. ~(Len(<<".">>) > PATH_MAX)
    BY SymloopAssumption
  <2> QED
    BY <1>0, <1>1, <2>1, EmptyFacts DEF Walker, Going
<1>5. Parts(dot, c, none)
  BY <1>1, <1>2 DEF Parts
<1>6. ~Enters(tree, Cwd, c)
  BY DEF Enters
<1>7. PICK e : e = Refusal(tree, Cwd, c, none = <<>>)
  OBVIOUS
<1>8. e = "EACCES"
  BY <1>3, <1>7 DEF Refusal
<1>9. PICK no \in BOOLEAN : no = FALSE
  OBVIOUS
<1>10. Outcome(WalkFrom(tree, no, Going(Cwd, dot, nil)), Cwd, e, Root, nil)
  BY <1>3, <1>5, <1>6, <1>7, WalkRefused
<1>11. PICK w : WalkFrom(tree, FALSE, Walker(DotPath)) = w
  OBVIOUS
<1>12. w.err = "EACCES"
  BY <1>4, <1>8, <1>9, <1>10, <1>11 DEF Outcome
<1> QED
  BY <1>11, <1>12 DEF Lstat, Found

(* Something that is no directory is met under its own name.               *)
Meets(tree, dir, c, joined) ==
    /\ c # "." /\ Enters(tree, dir, c)
    /\ ObjectIn(tree, joined) = Child(tree, dir, c)

LEMMA MeetsSomething ==
    ASSUME NEW tree, NEW path, NEW dir, NEW c, NEW one, NEW joined,
           tree \in FileSystems, Leads(tree, path, dir),
           c \in Name, IsOne(one, c), joined = path_join(path, one),
           Lstat(tree, joined).errno = "OK", Lstat(tree, joined).st.type # "dir"
    PROVE  Meets(tree, dir, c, joined)
<1>1. PICK w : WalkFrom(tree, FALSE, Walker(joined)) = w
  OBVIOUS
<1>2. w.err = "found" /\ w.obj = ObjectIn(tree, joined)
  BY <1>1, LstatFinds DEF ObjectIn
<1>3. tree[ObjectIn(tree, joined)].type # "dir"
  BY LstatObject
<1>4. c # "."
  <2>1. ASSUME c = "." PROVE FALSE
    <3>1. joined = path
      BY <2>1, JoinedDot DEF IsOne
    <3> QED
      BY <1>3, <3>1 DEF Leads
  <2> QED
    BY <2>1
<1>5. Enters(tree, dir, c) /\ w.obj = Child(tree, dir, c)
  BY <1>1, <1>2, <1>4, FoundBelow
<1> QED
  BY <1>2, <1>4, <1>5 DEF Meets

(* The last component is what the whole path comes to, but for a link that *)
(* is to be followed.                                                      *)
Arrives(whole, tree, joined) ==
    whole.err = "found" /\ whole.obj = ObjectIn(tree, joined)

LEMMA ArrivesBelow ==
    ASSUME NEW tree, NEW follow, NEW whole, NEW path, NEW dir, NEW one, NEW links,
           NEW count, NEW c, NEW joined, NEW rest, NEW tail,
           tree \in FileSystems, c \in Name, IsOne(one, c), tail = <<>>,
           rest = Cat(one, tail),
           Ahead(tree, follow, whole, path, dir, rest, links, count),
           Meets(tree, dir, c, joined),
           ~IsLink(tree, ObjectIn(tree, joined)) \/ ~follow
    PROVE  Arrives(whole, tree, joined)
<1>1. /\ dir \in DOMAIN tree /\ links \in Seq(DOMAIN tree)
      /\ Same(WalkFrom(tree, follow, Going(dir, rest, links)), whole)
  BY DEF Ahead
<1>2. one \in Seq(Name)
  BY DEF IsOne
<1>3. rest = one /\ rest \in Seq(Name)
  <2>1. Cat(one, <<>>) = one
    BY <1>2, CatEmpty
  <2> QED
    BY <1>2, <2>1
<1>4. Parts(rest, c, tail)
  <2>1. <<c>> # <<>> /\ Head(<<c>>) = c /\ Tail(<<c>>) = <<>>
    OBVIOUS
  <2>2. rest = <<c>>
    BY <1>3 DEF IsOne
  <2> QED
    BY <2>1, <2>2 DEF Parts
<1>5. PICK child : child = ObjectIn(tree, joined)
  OBVIOUS
<1>6. Enters(tree, dir, c) /\ child = Child(tree, dir, c)
      /\ (~IsLink(tree, child) \/ ~follow)
  BY <1>5 DEF Meets
<1>7. WalkStep(tree, follow, Going(dir, rest, links))
        = Reached(Going(dir, rest, links), child)
  BY <1>4, <1>6, StepArrives
<1>8. Outcome(WalkFrom(tree, follow, Going(dir, rest, links)), dir, "found", child, links)
  <2>1. rest \in Seq(Name)
    BY <1>3
  <2> QED
    BY <1>1, <1>7, <2>1, WalkReaches
<1> QED
  BY <1>1, <1>5, <1>8 DEF Outcome, Same, Arrives

-----------------------------------------------------------------------------
(* Nothing changes, and nothing is there by which the two walks part.      *)
Excluded == SomethingTrailsOff \/ BlindRoot \/ CwdOutOfReach \/ CutsAName
calm == quiet /\ ~Excluded

(* A last link is followed if there is one: the walk so understood is the  *)
(* whole walk, and never asks for what the path does not need.             *)
EndsAtLink == AtLink(fs, WalkFrom(fs, FALSE, Walker(initial_pathname)))
Followed == final_component.follow_symlink /\ EndsAtLink
Asked == WalkFrom(fs, Followed, Walker(initial_pathname))

LEMMA AskedIsWhole == TInv => Asked = WholeWalk
<1> SUFFICES ASSUME TInv PROVE Asked = WholeWalk
  OBVIOUS
<1>1. PICK w \in Walkers(fs) : w = Walker(initial_pathname)
  BY WalkerType DEF TInv
<1>2. final_component.follow_symlink \in BOOLEAN
  BY FollowsOrNot DEF TInv
<1>3. fs \in FileSystems
  BY DEF TInv
<1>4. CASE Followed \/ ~final_component.follow_symlink
  <2>1. Followed = final_component.follow_symlink
    BY <1>2, <1>4 DEF Followed
  <2> QED
    BY <2>1 DEF Asked, WholeWalk
<1>5. CASE ~Followed /\ final_component.follow_symlink
  <2>1. ~AtLink(fs, WalkFrom(fs, FALSE, w))
    BY <1>1, <1>5 DEF Followed, EndsAtLink
  <2>2. WalkFrom(fs, TRUE, w) = WalkFrom(fs, FALSE, w)
    BY <1>3, <2>1, FollowAlike
  <2>3. Followed = FALSE /\ final_component.follow_symlink = TRUE
    BY <1>2, <1>5 DEF Followed
  <2> QED
    BY <1>1, <2>2, <2>3 DEF Asked, WholeWalk
<1> QED
  BY <1>4, <1>5

(* The list holds the paths of the links that the kernel followed.         *)
Lists(tree, paths, links) ==
    /\ Len(paths) = Len(links)
    /\ \A i \in 1 .. Len(links) : ObjectIn(tree, paths[i]) = links[i]
Listed(links) == symlinks_so_far # NULL => Lists(fs, symlinks_so_far, links)

LEMMA ListsMore ==
    ASSUME NEW tree, NEW paths, NEW links, NEW p, NEW links2,
           paths \in Seq(Path), links \in Seq(DOMAIN tree), p \in Path,
           Lists(tree, paths, links), links2 = More(links, ObjectIn(tree, p))
    PROVE  Lists(tree, Append(paths, p), links2)
<1>1. PICK o : o = ObjectIn(tree, p)
  OBVIOUS
<1>2. links2 = Append(links, o)
  BY <1>1 DEF More
<1>3. Len(links) \in Nat /\ Len(paths) = Len(links)
  BY LenProperties DEF Lists
<1>4. PICK n \in Nat : n = Len(links)
  BY <1>3
<1>5. PICK paths2 : paths2 = Append(paths, p)
  OBVIOUS
<1>6. /\ Len(paths2) = n + 1 /\ paths2[n + 1] = p
      /\ \A i \in 1 .. n : paths2[i] = paths[i]
  <2>1. n = Len(paths)
    BY <1>3, <1>4
  <2> QED
    BY <1>5, <2>1, AppendProperties
<1>7. PICK all \in Seq(DOMAIN tree \cup {o}) : all = links
  <2>1. \A i \in 1 .. Len(links) : links[i] \in DOMAIN tree \cup {o}
    BY ElementOfSeq
  <2>2. links = [i \in 1 .. Len(links) |-> links[i]]
    OBVIOUS
  <2>3. links \in Seq(DOMAIN tree \cup {o})
    BY <1>3, <2>1, <2>2
  <2> QED
    BY <2>3
<1>8. /\ Len(links2) = n + 1 /\ links2[n + 1] = o
      /\ \A i \in 1 .. n : links2[i] = links[i]
  <2>1. links2 = Append(all, o) /\ n = Len(all)
    BY <1>2, <1>4, <1>7
  <2>2. /\ Len(Append(all, o)) = n + 1 /\ Append(all, o)[n + 1] = o
        /\ \A i \in 1 .. n : Append(all, o)[i] = all[i]
    BY <2>1, AppendProperties
  <2> QED
    BY <1>7, <2>1, <2>2
<1>9. \A i \in 1 .. n : ObjectIn(tree, paths[i]) = links[i]
  BY <1>4 DEF Lists
<1>10. ASSUME NEW i \in 1 .. n + 1
       PROVE  ObjectIn(tree, paths2[i]) = links2[i]
  <2>1. CASE i = n + 1
    BY <1>1, <1>6, <1>8, <2>1
  <2>2. CASE i # n + 1
    <3>1. i \in 1 .. n
      BY <2>2
    <3> QED
      BY <1>6, <1>8, <1>9, <3>1
  <2> QED
    BY <2>1, <2>2
<1> QED
  BY <1>5, <1>6, <1>8, <1>10 DEF Lists

AheadOf(path, dir, rest, links, count) ==
    /\ Ahead(fs, Followed, Asked, path, dir, rest, links, count)
    /\ Listed(links)

(* Before "." has been looked up, the one case in which it cannot be.      *)
Blind == BlindCwd /\ lookup_directory = DotPath

QInv ==
    /\ quiet /\ ~SomethingTrailsOff /\ pc = "begin" => ~TrailsOff(initial_pathname)
    /\ calm /\ pc = "lookup"
       => /\ MayEnd(pp)
          /\ pp = <<>> => lookup_directory = RootPath
          /\ \/ Blind
             \/ \E dir, links : AheadOf(lookup_directory, dir, pp, links,
                                        number_of_symlinks_followed)
    /\ calm /\ pc \in {"intermediate", "readlink"}
       => /\ EndsWell(pp)
          /\ component = <<>> => pp = <<>>
          /\ intermediate_path = path_join(lookup_directory, component)
          /\ \E dir, links :
                /\ AheadOf(lookup_directory, dir, Cat(component, pp), links,
                           number_of_symlinks_followed)
                /\ fs[dir].type = "dir" /\ Granted(fs[dir], "x")
    /\ calm /\ pc = "readlink" => pp # <<>> \/ Followed
    /\ calm /\ pc = "target"
       => /\ MayEnd(pp)
          /\ pp = <<>> => lookup_after_link = RootPath
          /\ \E dir, links : AheadOf(lookup_after_link, dir, pp, links,
                                     number_of_symlinks_followed + 1)

LEMMA Still ==
    ASSUME UNCHANGED <<fs, changed, request, expected_errno, final_component,
                       initial_pathname>>
    PROVE  /\ quiet' <=> quiet
           /\ SomethingTrailsOff' <=> SomethingTrailsOff
           /\ calm' <=> calm
           /\ Asked' = Asked /\ Followed' = Followed
           /\ BlindCwd' <=> BlindCwd
<1>1. quiet' <=> quiet
  BY DEF quiet
<1>2. SomethingTrailsOff' <=> SomethingTrailsOff
  BY DEF SomethingTrailsOff
<1>3. (BlindCwd' <=> BlindCwd) /\ (BlindRoot' <=> BlindRoot)
  BY DEF BlindCwd, BlindRoot
<1>4. CwdOutOfReach' <=> CwdOutOfReach
  BY DEF CwdOutOfReach
<1>5. WholeWalk' = WholeWalk
  BY DEF WholeWalk
<1>6. CutsAName' <=> CutsAName
  BY <1>5 DEF CutsAName
<1>7. EndsAtLink' = EndsAtLink
  BY DEF EndsAtLink
<1>8. Followed' = Followed
  BY <1>7 DEF Followed
<1>9. Asked' = Asked
  BY <1>8 DEF Asked
<1> QED
  BY <1>1, <1>2, <1>3, <1>4, <1>6, <1>8, <1>9 DEF calm, Excluded

LEMMA QuestionInitial == Init => QInv
  BY DEF Init, QInv, SomethingTrailsOff

-----------------------------------------------------------------------------
(* One lemma for each step of the walk. *)
LEMMA QuestionNextComponent ==
    ASSUME TInv, QInv, NextComponent
    PROVE  QInv'
<1> USE DEF world, failure, args, walk, inter, memory, verdict
<1>0. fs \in FileSystems /\ pp \in Seq(Name)
  BY DEF TInv
<1>1. /\ pc = "lookup" /\ pc' \in {"return", "intermediate"}
      /\ UNCHANGED <<fs, changed, request, expected_errno, final_component,
                     initial_pathname, lookup_directory>>
      /\ Lstat(fs, lookup_directory).errno = "OK"
      /\ have_search_permission(Lstat(fs, lookup_directory).st)
      /\ component' = next_component
      /\ pp' = IF pp = <<>> THEN <<>> ELSE Tail(pp)
      /\ UNCHANGED <<number_of_symlinks_followed, symlinks_so_far>>
  BY DEF NextComponent, Return, GoTo
<1>2. CASE pc' = "return"
  BY <1>2 DEF QInv
<1>3. CASE pc' = "intermediate" /\ ~calm'
  BY <1>3 DEF QInv
<1>4. CASE pc' = "intermediate" /\ calm'
  <2>1. calm /\ Asked' = Asked /\ Followed' = Followed
    BY <1>1, <1>4, Still
  <2>2. ~(expected_errno = "ENAMETOOLONG" /\ Range(next_component) \cap LongNames # {})
        /\ intermediate_path' = path_join(lookup_directory, component')
    BY <1>1, <1>4 DEF NextComponent, Return, GoTo
  <2>3. MayEnd(pp) /\ \E dir, links : AheadOf(lookup_directory, dir, pp, links,
                                              number_of_symlinks_followed)
    <3>1. Lstat(fs, lookup_directory).errno # "EACCES"
      BY <1>1
    <3>2. ~Blind
      BY <1>0, <3>1, BlindDot DEF Blind, BlindCwd
    <3> QED
      BY <1>1, <2>1, <3>2 DEF QInv
  <2>4. PICK dir, links : AheadOf(lookup_directory, dir, pp, links,
                                  number_of_symlinks_followed)
    BY <2>3
  <2>5. PICK tree, follow, whole, path, names, count :
             /\ tree = fs /\ follow = Followed
             /\ whole = Asked /\ path = lookup_directory /\ names = pp
             /\ count = number_of_symlinks_followed
    OBVIOUS
  <2>6. Ahead(tree, follow, whole, path, dir, names, links, count)
    BY <2>4, <2>5 DEF AheadOf
  <2>7. tree[dir].type = "dir" /\ Granted(tree[dir], "x")
    <3>1. /\ tree \in FileSystems /\ Leads(tree, path, dir)
          /\ Lstat(tree, path).errno = "OK"
          /\ have_search_permission(Lstat(tree, path).st)
      BY <1>0, <1>1, <2>5, <2>6 DEF Ahead
    <3> QED
      BY <3>1, LooksUp
  <2>8. /\ EndsWell(pp') /\ (component' = <<>> => pp' = <<>>)
        /\ Cat(component', pp') = pp
    <3>1. CASE pp = <<>>
      <4>1. component' = <<>> /\ pp' = <<>>
        BY <1>1, <3>1 DEF next_component
      <4>2. Cat(<<>>, <<>>) = <<>>
        BY DEF Cat
      <4> QED
        BY <3>1, <4>1, <4>2 DEF EndsWell
    <3>2. CASE pp # <<>>
      <4>1. names \in Seq(Name) /\ names # <<>>
        BY <1>0, <2>5, <3>2
      <4>2. PICK c \in Name, t \in Seq(Name) : Parts(names, c, t) /\ names = <<c>> \o t
        BY <4>1, TakenApart
      <4>3. c \notin LongNames
        <5>1. ASSUME c \in LongNames, expected_errno # "ENAMETOOLONG" PROVE FALSE
          <6>1. whole.err = "ENAMETOOLONG"
            <7>1. tree \in FileSystems
              BY <1>0, <2>5
            <7> QED
              BY <2>6, <2>7, <4>1, <4>2, <5>1, <7>1, LongNameTells
          <6> QED
            BY <2>1, <2>5, <5>1, <6>1, AskedIsWhole DEF calm, Excluded, CutsAName
        <5>2. ASSUME c \in LongNames, expected_errno = "ENAMETOOLONG" PROVE FALSE
          <6>1. next_component = <<c>>
            BY <2>5, <4>1, <4>2, <5>2 DEF next_component, Parts
          <6>2. c \in Range(<<c>>)
            BY DEF Range
          <6> QED
            BY <2>2, <5>2, <6>1, <6>2
        <5> QED
          BY <5>1, <5>2
      <4>4. component' = <<c>> /\ pp' = t
        BY <1>1, <2>5, <4>1, <4>2, <4>3 DEF next_component, Parts
      <4>5. EndsWell(t)
        <5>1. MayEnd(names)
          BY <2>3, <2>5
        <5>2. CASE names = <<".">>
          <6>1. t = <<>>
            BY <4>2, <5>2 DEF Parts
          <6> QED
            BY <6>1 DEF EndsWell
        <5>3. CASE names # <<".">>
          <6>1. Last(names) # "."
            BY <4>1, <5>1, <5>3 DEF MayEnd, EndsWell
          <6>2. Last(names) = IF t = <<>> THEN c ELSE Last(t)
            BY <4>1, <4>2, PartsLast
          <6> QED
            BY <6>1, <6>2 DEF EndsWell
        <5> QED
          BY <5>2, <5>3
      <4>6. <<c>> # <<>>
        OBVIOUS
      <4> QED
        BY <2>5, <4>2, <4>4, <4>5, <4>6 DEF Cat
    <3> QED
      BY <3>1, <3>2
  <2>9. AheadOf(lookup_directory, dir, Cat(component, pp), links,
                number_of_symlinks_followed)'
    BY <1>1, <2>1, <2>4, <2>8 DEF AheadOf, Listed
  <2>10. (fs[dir].type = "dir" /\ Granted(fs[dir], "x"))'
    BY <1>1, <2>5, <2>7
  <2> QED
    BY <1>1, <1>4, <2>2, <2>8, <2>9, <2>10 DEF QInv
<1> QED
  BY <1>1, <1>2, <1>3, <1>4

LEMMA QuestionBegin ==
    ASSUME TInv, QInv, Begin
    PROVE  QInv'
<1> USE DEF world, failure, args, walk, inter, memory, verdict
<1>0. fs \in FileSystems /\ initial_pathname \in Path
  BY DEF TInv
<1>1. /\ pc = "begin" /\ pc' \in {"return", "lookup"} /\ initial_pathname # Empty
      /\ ~(expected_errno = "ENAMETOOLONG" /\ Len(initial_pathname.names) > PATH_MAX)
      /\ UNCHANGED <<fs, changed, request, expected_errno, final_component,
                     initial_pathname>>
      /\ number_of_symlinks_followed' = 0 /\ symlinks_so_far' \in {<<>>, NULL}
      /\ pc' = "lookup" => \E confusing \in Confusing :
            /\ pp' = initial_names(initial_pathname, confusing)
            /\ lookup_directory' = IF initial_pathname.abs \/ confusing
                                   THEN RootPath ELSE DotPath
  BY DEF Begin, GoTo
<1>2. CASE pc' = "return"
  BY <1>2 DEF QInv
<1>3. CASE pc' = "lookup" /\ ~calm'
  BY <1>3 DEF QInv
<1>4. CASE pc' = "lookup" /\ calm'
  <2>1. calm /\ Asked' = Asked /\ Followed' = Followed
    BY <1>1, <1>4, Still
  <2>2. PICK confusing \in Confusing :
            /\ pp' = initial_names(initial_pathname, confusing)
            /\ lookup_directory' = IF initial_pathname.abs \/ confusing
                                   THEN RootPath ELSE DotPath
    BY <1>1, <1>4
  <2>3. PICK tree, follow, whole, path, names :
             /\ tree = fs /\ follow = Followed
             /\ whole = Asked /\ path = initial_pathname /\ names = path.names
    OBVIOUS
  <2>4. ~TrailsOff(path) /\ path.slash = FALSE /\ path.abs \in BOOLEAN
        /\ names \in Seq(Name) /\ path # Empty
    <3>1. ~TrailsOff(path)
      BY <1>1, <2>1, <2>3 DEF QInv, calm, Excluded
    <3> QED
      BY <1>0, <1>1, <2>3, <3>1 DEF TrailsOff, Path
  <2>5. /\ tree \in FileSystems /\ Granted(tree[Root], "x")
        /\ Root \in DOMAIN tree /\ Cwd \in DOMAIN tree /\ tree[Root].type = "dir"
    BY <1>0, <2>1, <2>3, TreesAreTrees DEF calm, Excluded, BlindRoot, IsTree
  <2>6. PICK nil \in Seq(DOMAIN tree) : nil = <<>> /\ Len(nil) = 0
    <3>1. <<>> \in Seq(DOMAIN tree) /\ Len(<<>>) = 0
      BY EmptySeq
    <3> QED
      BY <3>1
  <2>7. whole = WalkFrom(tree, follow, Going(Start(path), names, nil))
    <3>1. PICK w \in Walkers(tree) : w = Walker(path)
      BY <1>0, <2>3, <2>5, WalkerType
    <3>2. whole = WalkFrom(tree, follow, w)
      BY <2>3, <3>1 DEF Asked
    <3>3. ASSUME Len(names) > PATH_MAX PROVE FALSE
      <4>1. w.err = "ENAMETOOLONG"
        BY <2>3, <2>4, <3>1, <3>3 DEF Walker
      <4>2. whole = w
        BY <2>5, <3>2, <4>1, WalkUnfolds
      <4>3. expected_errno # "ENAMETOOLONG"
        BY <1>1, <2>3, <3>3
      <4> QED
        BY <2>1, <2>3, <4>1, <4>2, <4>3, AskedIsWhole DEF calm, Excluded, CutsAName
    <3>4. w = Going(Start(path), names, nil)
      BY <2>3, <2>4, <2>6, <3>1, <3>3 DEF Walker, Going, Start, Base
    <3> QED
      BY <3>2, <3>4
  <2>8. ASSUME NEW joined, NEW dir, NEW rest, Leads(tree, joined, dir),
               Same(WalkFrom(tree, follow, Going(dir, rest, nil)), whole)
        PROVE  Ahead(tree, follow, whole, joined, dir, rest, nil, 0)
    BY <2>6, <2>8 DEF Ahead, Leads
  <2>9. /\ MayEnd(pp') /\ pp' # <<>>
        /\ \/ BlindCwd /\ lookup_directory' = DotPath
           \/ \E dir : Ahead(tree, follow, whole, lookup_directory', dir, pp', nil, 0)
    <3>1. CASE path.abs
      <4>1. /\ lookup_directory' = RootPath /\ Leads(tree, RootPath, Root)
            /\ Start(path) = Root
        BY <2>2, <2>3, <2>5, <3>1, RootLeads DEF Start, Base
      <4>2. CASE names = <<>>
        <5>1. PICK dot : dot = <<".">>
          OBVIOUS
        <5>2. pp' = dot
          <6>1. pp' = (<<>> \o <<>>) \o <<".">>
            BY <2>2, <2>3, <2>4, <3>1, <4>2 DEF initial_names
          <6> QED
            BY <5>1, <6>1
        <5>3. Outcome(WalkFrom(tree, follow, Going(Root, dot, nil)),
                      Root, "found", Root, nil)
          BY <2>5, <5>1, DotFound
        <5>4. PICK none \in Seq(Name) : none = <<>>
          BY EmptySeq
        <5>5. WalkStep(tree, follow, Going(Root, none, nil))
                = Reached(Going(Root, none, nil), Root)
          BY <5>4, StepHere
        <5>6. Outcome(WalkFrom(tree, follow, Going(Root, none, nil)),
                      Root, "found", Root, nil)
          BY <2>5, <5>5, WalkReaches
        <5>7. Same(WalkFrom(tree, follow, Going(Root, dot, nil)), whole)
          BY <2>7, <4>1, <4>2, <5>3, <5>4, <5>6 DEF Outcome, Same
        <5>8. dot # <<>>
          BY <5>1
        <5> QED
          BY <2>8, <4>1, <5>1, <5>2, <5>7, <5>8 DEF MayEnd
      <4>3. CASE names # <<>>
        <5>1. pp' = names
          <6>1. pp' = (<<>> \o names) \o <<>>
            BY <2>2, <2>3, <2>4, <3>1, <4>3 DEF initial_names
          <6> QED
            BY <2>4, <6>1, ConcatEmptySeq
        <5>2. MayEnd(names)
          BY <2>3, <2>4, <4>3 DEF MayEnd, EndsWell, TrailsOff
        <5>3. Same(WalkFrom(tree, follow, Going(Root, names, nil)), whole)
          BY <2>7, <4>1, SameAsItself
        <5> QED
          BY <2>8, <4>1, <4>3, <5>1, <5>2, <5>3
      <4> QED
        BY <4>2, <4>3
    <3>2. CASE ~path.abs
      <4>0. names # <<>>
        BY <1>0, <2>3, <2>4, <3>2 DEF Empty, Rel, Path
      <4>1. Start(path) = Cwd
        BY <3>2 DEF Start, Base
      <4>2. CASE confusing
        <5>1. pp' = Cat(CwdNames, names)
          <6>1. pp' = (CwdNames \o names) \o <<>>
            BY <2>2, <2>3, <2>4, <3>2, <4>0, <4>2 DEF initial_names
          <6>2. CwdNames \o names \in Seq(Name)
            BY <2>4, NamesAssumption, ConcatProperties
          <6> QED
            BY <6>1, <6>2, ConcatEmptySeq DEF Cat
        <5>2. lookup_directory' = RootPath /\ Leads(tree, RootPath, Root)
          BY <2>2, <2>5, <4>2, RootLeads
        <5>3. MayEnd(pp')
          <6>1. Last(CwdNames \o names) = Last(names)
            BY <2>4, <4>0, NamesAssumption, ConcatLast
          <6>2. Last(pp') # "."
            BY <2>3, <2>4, <4>0, <5>1, <6>1 DEF Cat, TrailsOff
          <6> QED
            BY <6>2 DEF MayEnd, EndsWell
        <5>4. WalkFrom(tree, follow, Going(Root, Cat(CwdNames, names), nil)) = whole
          <6>1. TRUE \in Confusing
            BY <4>2, PointerAssumption
          <6>2. PICK there : there = WalkFrom(tree, TRUE, Walker(Abs(CwdNames)))
            OBVIOUS
          <6>3. Outcome(there, there.dir, "found", Cwd, nil)
            BY <2>1, <2>3, <2>6, <6>1, <6>2 DEF calm, Excluded, CwdOutOfReach, Outcome
          <6>4. PICK w \in Walkers(tree) : w = Walker(Abs(CwdNames))
            BY <2>5, NamesAssumption, RelType, WalkerType
          <6>5. w.err = "none"
            <7>1. w.err \in {"none", "ENOENT", "ENAMETOOLONG"}
              BY <6>4 DEF Walker
            <7>2. w.err # "none" => WalkFrom(tree, TRUE, w) = w
              BY <2>5, WalkUnfolds
            <7> QED
              BY <6>2, <6>3, <6>4, <7>1, <7>2 DEF Outcome
          <6>6. w = Going(Root, CwdNames, nil)
            <7>1. w = [dir |-> Root, rest |-> CwdNames, slash |-> FALSE, links |-> nil,
                       err |-> w.err, obj |-> Root]
              BY <2>6, <6>4 DEF Walker, Abs
            <7> QED
              BY <6>5, <7>1 DEF Going
          <6>7. PICK yes \in BOOLEAN : yes = TRUE
            OBVIOUS
          <6>8. PICK cwd \in Seq(Name) : cwd = CwdNames
            BY NamesAssumption
          <6>9. Outcome(WalkFrom(tree, yes, Going(Root, cwd, nil)),
                        there.dir, "found", Cwd, nil)
            BY <6>2, <6>3, <6>4, <6>6, <6>7, <6>8
          <6>10. IsNil(nil) /\ IsTrue(yes)
            BY <2>6, <6>7 DEF IsNil, IsTrue
          <6>11. WalkFrom(tree, follow, Going(Root, Cat(cwd, names), nil))
                   = WalkFrom(tree, follow, Going(Cwd, names, nil))
            BY <2>4, <2>5, <4>0, <6>9, <6>10, WalkThrough
          <6> QED
            BY <2>7, <4>1, <6>8, <6>11
        <5>5. Same(WalkFrom(tree, follow, Going(Root, Cat(CwdNames, names), nil)), whole)
          BY <5>4, SameAsItself
        <5>6. Cat(CwdNames, names) # <<>>
          BY <2>4, <4>0, NamesAssumption, CatNotEmpty
        <5> QED
          BY <2>8, <5>1, <5>2, <5>3, <5>5, <5>6
      <4>3. CASE ~confusing
        <5>1. pp' = names
          <6>1. pp' = (<<>> \o names) \o <<>>
            BY <2>2, <2>3, <2>4, <3>2, <4>0, <4>3 DEF initial_names
          <6> QED
            BY <2>4, <6>1, ConcatEmptySeq
        <5>2. lookup_directory' = DotPath
          BY <2>2, <2>3, <3>2, <4>3
        <5>3. MayEnd(names)
          BY <2>3, <2>4, <4>0 DEF MayEnd, EndsWell, TrailsOff
        <5>4. Same(WalkFrom(tree, follow, Going(Cwd, names, nil)), whole)
          BY <2>7, <4>1, SameAsItself
        <5>5. CASE BlindCwd
          BY <4>0, <5>1, <5>2, <5>3, <5>5
        <5>6. CASE ~BlindCwd
          <6>1. Leads(tree, DotPath, Cwd)
            BY <2>3, <2>5, <5>6, DotLeads DEF BlindCwd
          <6> QED
            BY <2>8, <4>0, <5>1, <5>2, <5>3, <5>4, <6>1
        <5> QED
          BY <5>5, <5>6
      <4> QED
        BY <4>2, <4>3
    <3> QED
      BY <3>1, <3>2
  <2>10. Listed(nil)'
    <3>1. Lists(fs, <<>>, nil)
      BY <2>6 DEF Lists
    <3>2. symlinks_so_far' # NULL => Lists(fs', symlinks_so_far', nil)
      BY <1>1, <3>1
    <3> QED
      BY <3>2 DEF Listed
  <2>11. (Blind \/ \E dir, links : AheadOf(lookup_directory, dir, pp, links,
                                           number_of_symlinks_followed))'
    <3>1. CASE BlindCwd /\ lookup_directory' = DotPath
      <4>1. BlindCwd'
        BY <1>1, <3>1, Still
      <4> QED
        BY <3>1, <4>1 DEF Blind
    <3>2. ASSUME NEW dir, Ahead(tree, follow, whole, lookup_directory', dir, pp', nil, 0)
          PROVE  AheadOf(lookup_directory, dir, pp, nil, number_of_symlinks_followed)'
      BY <1>1, <2>1, <2>3, <2>10, <3>2 DEF AheadOf
    <3> QED
      BY <2>9, <3>1, <3>2
  <2> QED
    BY <1>1, <1>4, <2>9, <2>11 DEF QInv
<1> QED
  BY <1>1, <1>2, <1>3, <1>4

LEMMA QuestionIntermediateExists ==
    ASSUME TInv, QInv, IntermediateExists
    PROVE  QInv'
<1> USE DEF world, failure, args, walk, inter, memory, verdict
<1>0. fs \in FileSystems /\ pp \in Seq(Name) /\ component \in Seq(Name)
      /\ Len(component) <= 1
  BY DEF TInv
<1>1. /\ pc = "intermediate"
      /\ UNCHANGED <<fs, changed, request, expected_errno, final_component,
                     initial_pathname, pp>>
      /\ Lstat(fs, intermediate_path).errno = "OK"
      /\ Existing(Lstat(fs, intermediate_path).st)
  BY DEF IntermediateExists
<1>2. \/ pc' \in {"return", "interpreter"}
      \/ /\ pc' = "lookup" /\ pp # <<>> /\ Lstat(fs, intermediate_path).st.type = "dir"
         /\ lookup_directory' = intermediate_path
         /\ UNCHANGED <<number_of_symlinks_followed, symlinks_so_far>>
  <2>1. PICK st : st = Lstat(fs, intermediate_path).st
    OBVIOUS
  <2>2. Existing(st)
    BY <1>1, <2>1
  <2>3. \/ pc' \in {"return", "interpreter"}
        \/ /\ pc' = "lookup" /\ pp # <<>> /\ st.type = "dir"
           /\ lookup_directory' = intermediate_path
           /\ UNCHANGED <<number_of_symlinks_followed, symlinks_so_far>>
    BY <2>2 DEF Existing, BareReturn, Return, GoTo, final
  <2> QED
    BY <2>1, <2>3
<1>3. CASE pc' \in {"return", "interpreter"}
  BY <1>3 DEF QInv
<1>4. CASE pc' = "lookup" /\ ~calm'
  BY <1>4 DEF QInv
<1>5. CASE pc' = "lookup" /\ calm'
  <2>1. calm /\ Asked' = Asked /\ Followed' = Followed
    BY <1>1, <1>5, Still
  <2>2. /\ EndsWell(pp) /\ (component = <<>> => pp = <<>>)
        /\ intermediate_path = path_join(lookup_directory, component)
        /\ \E dir, links :
              /\ AheadOf(lookup_directory, dir, Cat(component, pp), links,
                         number_of_symlinks_followed)
              /\ fs[dir].type = "dir" /\ Granted(fs[dir], "x")
    BY <1>1, <2>1 DEF QInv
  <2>3. PICK dir, links :
              /\ AheadOf(lookup_directory, dir, Cat(component, pp), links,
                         number_of_symlinks_followed)
              /\ fs[dir].type = "dir" /\ Granted(fs[dir], "x")
    BY <2>2
  <2>4. PICK tree, follow, whole, path, one, tail, count, joined :
             /\ tree = fs /\ follow = Followed
             /\ whole = Asked /\ path = lookup_directory /\ one = component
             /\ tail = pp /\ count = number_of_symlinks_followed
             /\ joined = intermediate_path
    OBVIOUS
  <2>5. PICK c \in Name : IsOne(one, c)
    <3>1. one \in Seq(Name) /\ Len(one) <= 1 /\ one # <<>>
      BY <1>0, <1>2, <1>5, <2>2, <2>4
    <3> QED
      BY <3>1, OneName
  <2>6. /\ tree \in FileSystems /\ tail \in Seq(Name) /\ tail # <<>>
        /\ tree[dir].type = "dir" /\ Granted(tree[dir], "x")
        /\ joined = path_join(path, one) /\ Lstat(tree, joined).errno = "OK"
        /\ Lstat(tree, joined).st.type = "dir"
    BY <1>0, <1>1, <1>2, <1>5, <2>2, <2>3, <2>4
  <2>7. Ahead(tree, follow, whole, path, dir, Cat(one, tail), links, count)
    BY <2>3, <2>4 DEF AheadOf
  <2>8. \E child : Ahead(tree, follow, whole, joined, child, tail, links, count)
    BY <2>5, <2>6, <2>7, DownAhead
  <2>9. PICK child : Ahead(tree, follow, whole, joined, child, tail, links, count)
    BY <2>8
  <2>10. AheadOf(lookup_directory, child, pp, links, number_of_symlinks_followed)'
    <3>1. Listed(links)'
      BY <1>1, <1>2, <1>5, <2>3 DEF AheadOf, Listed
    <3> QED
      BY <1>1, <1>2, <1>5, <2>1, <2>4, <2>9, <3>1 DEF AheadOf
  <2>11. MayEnd(pp') /\ pp' # <<>>
    BY <1>1, <1>2, <1>5, <2>2 DEF MayEnd
  <2> QED
    BY <1>5, <2>10, <2>11 DEF QInv
<1> QED
  BY <1>2, <1>3, <1>4, <1>5

(* A link that the function follows, the walk of the question follows.     *)
LEMMA LastLinkFollowed ==
    ASSUME TInv, QInv, calm, pc = "intermediate",
           Lstat(fs, intermediate_path).errno = "OK",
           Lstat(fs, intermediate_path).st.type = "lnk",
           pp # <<>> \/ final_component.follow_symlink
    PROVE  pp # <<>> \/ Followed
<1>0. fs \in FileSystems /\ pp \in Seq(Name) /\ component \in Seq(Name)
      /\ Len(component) <= 1
  BY DEF TInv
<1>1. /\ pp # <<>> \/ final_component.follow_symlink
      /\ Lstat(fs, intermediate_path).errno = "OK"
      /\ Lstat(fs, intermediate_path).st.type = "lnk"
  OBVIOUS
<1>2. /\ EndsWell(pp) /\ (component = <<>> => pp = <<>>)
      /\ intermediate_path = path_join(lookup_directory, component)
      /\ \E dir, links :
            /\ AheadOf(lookup_directory, dir, Cat(component, pp), links,
                       number_of_symlinks_followed)
            /\ fs[dir].type = "dir" /\ Granted(fs[dir], "x")
  BY DEF QInv
<1>3. PICK dir, links :
            /\ AheadOf(lookup_directory, dir, Cat(component, pp), links,
                       number_of_symlinks_followed)
            /\ fs[dir].type = "dir" /\ Granted(fs[dir], "x")
  BY <1>2
<1>4. ASSUME pp = <<>>, ~Followed PROVE FALSE
  <2>1. ~EndsAtLink
    BY <1>1, <1>4 DEF Followed
  <2>2. PICK tree, follow, whole, path, one, tail, rest, count, joined :
             /\ tree = fs /\ follow = Followed /\ whole = Asked
             /\ path = lookup_directory /\ one = component /\ tail = pp
             /\ rest = Cat(one, tail) /\ count = number_of_symlinks_followed
             /\ joined = intermediate_path
    OBVIOUS
  <2>3. Ahead(tree, follow, whole, path, dir, rest, links, count)
    BY <1>3, <2>2 DEF AheadOf
  <2>4. Leads(tree, path, dir)
    BY <2>3 DEF Ahead
  <2>5. /\ tree \in FileSystems /\ tail = <<>> /\ ~follow
        /\ joined = path_join(path, one) /\ Lstat(tree, joined).errno = "OK"
        /\ Lstat(tree, joined).st.type = "lnk"
    BY <1>0, <1>1, <1>2, <1>4, <2>2
  <2>6. tree[ObjectIn(tree, joined)].type = "lnk"
    BY <2>5, LstatObject
  <2>7. one # <<>>
    <3>1. ASSUME one = <<>> PROVE FALSE
      <4>1. joined = path
        BY <2>5, <3>1, JoinedNothing
      <4> QED
        BY <2>4, <2>6, <4>1 DEF Leads
    <3> QED
      BY <3>1
  <2>8. PICK c \in Name : IsOne(one, c)
    <3>1. one \in Seq(Name) /\ Len(one) <= 1 /\ one # <<>>
      BY <1>0, <2>2, <2>7
    <3> QED
      BY <3>1, OneName
  <2>9. Meets(tree, dir, c, joined)
    <3>1. Lstat(tree, joined).st.type # "dir"
      BY <2>5
    <3> QED
      BY <2>4, <2>5, <2>8, <3>1, MeetsSomething
  <2>10. Arrives(whole, tree, joined)
    <3>1. tail = <<>> /\ tree \in FileSystems /\ rest = Cat(one, tail)
          /\ (~IsLink(tree, ObjectIn(tree, joined)) \/ ~follow)
      BY <2>2, <2>5
    <3> QED
      BY <2>3, <2>8, <2>9, <3>1, ArrivesBelow
  <2>11. Asked = WalkFrom(fs, FALSE, Walker(initial_pathname))
    BY <1>4 DEF Asked, Followed, EndsAtLink, AtLink
  <2> QED
    BY <2>1, <2>2, <2>6, <2>10, <2>11 DEF Arrives, EndsAtLink, AtLink, IsLink
<1> QED
  BY <1>4

LEMMA QuestionSymbolicLink ==
    ASSUME TInv, QInv, SymbolicLink
    PROVE  QInv'
<1> USE DEF world, failure, args, walk, inter, memory, verdict
<1>0. fs \in FileSystems /\ pp \in Seq(Name) /\ component \in Seq(Name)
      /\ Len(component) <= 1
  BY DEF TInv
<1>1. /\ pc = "intermediate" /\ pc' \in {"return", "readlink"}
      /\ UNCHANGED <<fs, changed, request, expected_errno, final_component,
                     initial_pathname, pp, component, lookup_directory,
                     intermediate_path, number_of_symlinks_followed, symlinks_so_far>>
      /\ pp # <<>> \/ final_component.follow_symlink
      /\ Lstat(fs, intermediate_path).errno = "OK"
      /\ Lstat(fs, intermediate_path).st.type = "lnk"
  BY DEF SymbolicLink, Return, GoTo, is_link_to_follow, final
<1>2. CASE pc' = "return" \/ ~calm'
  BY <1>1, <1>2 DEF QInv
<1>3. CASE pc' = "readlink" /\ calm'
  <2>1. calm /\ Asked' = Asked /\ Followed' = Followed
    BY <1>1, <1>3, Still
  <2>2. /\ EndsWell(pp) /\ (component = <<>> => pp = <<>>)
        /\ intermediate_path = path_join(lookup_directory, component)
        /\ \E dir, links :
              /\ AheadOf(lookup_directory, dir, Cat(component, pp), links,
                         number_of_symlinks_followed)
              /\ fs[dir].type = "dir" /\ Granted(fs[dir], "x")
    BY <1>1, <2>1 DEF QInv
  <2>3. PICK dir, links :
              /\ AheadOf(lookup_directory, dir, Cat(component, pp), links,
                         number_of_symlinks_followed)
              /\ fs[dir].type = "dir" /\ Granted(fs[dir], "x")
    BY <2>2
  <2>4. pp # <<>> \/ Followed
    BY <1>1, <2>1, LastLinkFollowed
  <2>5. (AheadOf(lookup_directory, dir, Cat(component, pp), links,
                 number_of_symlinks_followed)
         /\ fs[dir].type = "dir" /\ Granted(fs[dir], "x"))'
    BY <1>1, <2>1, <2>3 DEF AheadOf, Listed
  <2>6. (EndsWell(pp) /\ (component = <<>> => pp = <<>>)
         /\ intermediate_path = path_join(lookup_directory, component))'
    BY <1>1, <2>2
  <2>7. (pp # <<>> \/ Followed)'
    BY <1>1, <2>1, <2>4
  <2> QED
    BY <1>3, <2>5, <2>6, <2>7 DEF QInv
<1> QED
  BY <1>1, <1>2, <1>3

LEMMA QuestionReadTheLink ==
    ASSUME TInv, LInv, QInv, ReadTheLink
    PROVE  QInv'
<1> USE DEF world, failure, args, walk, inter, memory, verdict
<1>0. fs \in FileSystems /\ pp \in Seq(Name) /\ component \in Seq(Name)
      /\ Len(component) <= 1 /\ number_of_symlinks_followed \in Nat
  BY DEF TInv
<1>1. /\ pc = "readlink" /\ pc' \in {"return", "target"}
      /\ UNCHANGED <<fs, changed, request, expected_errno, final_component,
                     initial_pathname, lookup_directory>>
      /\ number_of_symlinks_followed' = number_of_symlinks_followed
      /\ Readlink(fs, intermediate_path).errno = "OK"
      /\ symlinks_so_far' \in {NULL, Append(symlinks_so_far, intermediate_path)}
      /\ pc' = "target" => Follow(Readlink(fs, intermediate_path).body)
      /\ symlinks_so_far = NULL => symlinks_so_far' = NULL
  BY DEF ReadTheLink, Remember, Follow, GoTo
<1>2. CASE pc' = "return" \/ ~calm'
  BY <1>1, <1>2 DEF QInv
<1>3. CASE pc' = "target" /\ calm'
  <2>1. calm /\ Asked' = Asked /\ Followed' = Followed
    BY <1>1, <1>3, Still
  <2>2. /\ EndsWell(pp) /\ (component = <<>> => pp = <<>>)
        /\ intermediate_path = path_join(lookup_directory, component)
        /\ (pp # <<>> \/ Followed)
        /\ \E dir, links :
              /\ AheadOf(lookup_directory, dir, Cat(component, pp), links,
                         number_of_symlinks_followed)
              /\ fs[dir].type = "dir" /\ Granted(fs[dir], "x")
    BY <1>1, <2>1 DEF QInv
  <2>3. PICK dir, links :
              /\ AheadOf(lookup_directory, dir, Cat(component, pp), links,
                         number_of_symlinks_followed)
              /\ fs[dir].type = "dir" /\ Granted(fs[dir], "x")
    BY <2>2
  <2>4. PICK tree, follow, whole, path, one, tail, count, joined, body, names :
             /\ tree = fs /\ follow = Followed
             /\ whole = Asked /\ path = lookup_directory /\ one = component
             /\ tail = pp /\ count = number_of_symlinks_followed
             /\ joined = intermediate_path
             /\ body = Readlink(fs, intermediate_path).body
             /\ names = path_join(Text(body), tail).names
    OBVIOUS
  <2>5. Ahead(tree, follow, whole, path, dir, Cat(one, tail), links, count)
    BY <2>3, <2>4 DEF AheadOf
  <2>6. /\ tree \in FileSystems /\ tail \in Seq(Name) /\ EndsWell(tail)
        /\ tree[dir].type = "dir" /\ Granted(tree[dir], "x")
        /\ joined = path_join(path, one) /\ Readlink(tree, joined).errno = "OK"
        /\ body = Readlink(tree, joined).body /\ (tail # <<>> \/ follow)
        /\ count \in Nat
    BY <1>0, <1>1, <2>2, <2>3, <2>4
  <2>7. PICK c \in Name : IsOne(one, c)
    <3>1. one # <<>>
      <4>1. ASSUME one = <<>> PROVE FALSE
        <5>1. joined = path
          BY <2>6, <4>1, JoinedNothing
        <5>2. Leads(tree, path, dir)
          BY <2>5 DEF Ahead
        <5> QED
          BY <2>6, <5>1, <5>2, NoLinkRead
      <4> QED
        BY <4>1
    <3>2. one \in Seq(Name) /\ Len(one) <= 1 /\ one # <<>>
      BY <1>0, <2>4, <3>1
    <3> QED
      BY <3>2, OneName
  <2>8. count < MAXSYMLINKS
    <3>1. number_of_symlinks_followed < SYMLOOP_MAX
      BY <1>1 DEF LInv, walking
    <3>2. count < SYMLOOP_MAX
      BY <2>4, <3>1
    <3> QED
      BY <2>6, <3>2, SymloopAssumption
  <2>9. \A o \in DOMAIN tree : tree[o].target # DotPath => ~TrailsOff(tree[o].target)
    BY <2>1, <2>4 DEF calm, Excluded, SomethingTrailsOff
  <2>10. names = path_join(Text(body), tail).names
    BY <2>4
  <2>11. Follows(tree, follow, whole, AfterLink(body, path), names,
                 More(links, ObjectIn(tree, joined)), count)
    BY <2>5, <2>6, <2>7, <2>8, <2>9, <2>10, LinkAhead
  <2>12. PICK list : list = More(links, ObjectIn(tree, joined))
    OBVIOUS
  <2>13. PICK base : Ahead(tree, follow, whole, AfterLink(body, path), base,
                           names, list, count + 1)
    BY <2>11, <2>12 DEF Follows
  <2>14. rlb' = Text(body) /\ pp' = names
    BY <1>1, <1>3, <2>4 DEF Follow, Text
  <2>15. lookup_after_link' = AfterLink(body, path)
    <3>1. body \in Path
      BY <2>6, LinkBodyType
    <3>2. Text(body).abs = body.abs
      BY <3>1, TextFacts
    <3> QED
      BY <1>1, <2>4, <2>14, <3>2 DEF lookup_after_link, AfterLink
  <2>16. Listed(list)'
    <3>1. ASSUME symlinks_so_far' # NULL
          PROVE  Lists(fs', symlinks_so_far', list)
      <4>1. PICK paths \in Seq(Path) : paths = symlinks_so_far
        BY <1>1, <3>1 DEF TInv
      <4>2. Lists(tree, paths, links)
        BY <1>1, <2>3, <2>4, <3>1, <4>1 DEF AheadOf, Listed
      <4>3. links \in Seq(DOMAIN tree) /\ joined \in Path
        BY <2>4, <2>5 DEF Ahead, TInv
      <4>4. Lists(tree, Append(paths, joined), list)
        BY <2>6, <2>12, <4>2, <4>3, ListsMore
      <4> QED
        BY <1>1, <2>4, <3>1, <4>1, <4>4
    <3> QED
      BY <3>1 DEF Listed
  <2>17. AheadOf(lookup_after_link, base, pp, list, number_of_symlinks_followed + 1)'
    BY <1>1, <2>1, <2>4, <2>13, <2>14, <2>15, <2>16 DEF AheadOf
  <2>18. (MayEnd(pp) /\ (pp = <<>> => lookup_after_link = RootPath))'
    BY <2>11, <2>14, <2>15 DEF Follows
  <2> QED
    BY <1>3, <2>17, <2>18 DEF QInv
<1> QED
  BY <1>1, <1>2, <1>3

LEMMA QuestionFollowTheLink ==
    ASSUME TInv, QInv, FollowTheLink
    PROVE  QInv'
<1> USE DEF world, failure, args, walk, inter, memory, verdict
<1>1. /\ pc = "target" /\ pc' \in {"return", "lookup"}
      /\ UNCHANGED <<fs, changed, request, expected_errno, final_component,
                     initial_pathname, pp>>
      /\ number_of_symlinks_followed' = number_of_symlinks_followed + 1
      /\ lookup_directory' = lookup_after_link /\ UNCHANGED symlinks_so_far
  BY DEF FollowTheLink, GoTo, one_more
<1>2. CASE pc' = "return" \/ ~calm'
  BY <1>1, <1>2 DEF QInv
<1>3. CASE pc' = "lookup" /\ calm'
  <2>1. calm /\ Asked' = Asked /\ Followed' = Followed
    BY <1>1, <1>3, Still
  <2>2. /\ MayEnd(pp) /\ (pp = <<>> => lookup_after_link = RootPath)
        /\ \E dir, links : AheadOf(lookup_after_link, dir, pp, links,
                                   number_of_symlinks_followed + 1)
    BY <1>1, <2>1 DEF QInv
  <2>3. PICK dir, links : AheadOf(lookup_after_link, dir, pp, links,
                                  number_of_symlinks_followed + 1)
    BY <2>2
  <2>4. AheadOf(lookup_directory, dir, pp, links, number_of_symlinks_followed)'
    BY <1>1, <2>1, <2>3 DEF AheadOf, Listed
  <2> QED
    BY <1>1, <1>3, <2>2, <2>4 DEF QInv
<1> QED
  BY <1>1, <1>2, <1>3

LEMMA QuestionCallForInterpreter ==
    ASSUME TInv, QInv, CallForInterpreter
    PROVE  QInv'
<1> USE DEF world, failure, args, walk, inter, memory, verdict
<1>1. /\ pc' = "begin" /\ UNCHANGED <<fs, changed, request>>
      /\ ReadScript(fs, intermediate_path) # Empty
      /\ initial_pathname' = ReadScript(fs, intermediate_path)
  BY DEF CallForInterpreter, GoTo
<1>2. PICK w : w = WalkFrom(fs, TRUE, Walker(intermediate_path))
  OBVIOUS
<1>3. ReadScript(fs, intermediate_path)
        = IF Found(fs, w) /\ fs[w.obj].type = "reg" /\ Granted(fs[w.obj], "r")
          THEN fs[w.obj].script ELSE Empty
  BY <1>2 DEF ReadScript
<1>4. w.obj \in DOMAIN fs /\ initial_pathname' = fs[w.obj].script
  BY <1>1, <1>3 DEF Found
<1>5. SomethingTrailsOff' <=> SomethingTrailsOff
  BY <1>1 DEF SomethingTrailsOff
<1>6. ~SomethingTrailsOff => ~TrailsOff(initial_pathname')
  BY <1>4 DEF SomethingTrailsOff
<1>7. TrailsOff(initial_pathname)' <=> TrailsOff(initial_pathname')
  BY DEF TrailsOff
<1> QED
  BY <1>1, <1>5, <1>6, <1>7 DEF QInv

LEMMA QuestionInductive == TInv /\ LInv /\ DInv /\ QInv /\ [Next]_vars => QInv'
<1> SUFFICES ASSUME TInv, LInv, DInv, QInv, [Next]_vars PROVE QInv'
  OBVIOUS
<1> USE DEF world, failure, args, walk, inter, memory, verdict
<1>1. CASE pc' \in {"return", "abort", "interpreter"}
  BY <1>1 DEF QInv
<1>2. CASE Begin
  BY <1>2, QuestionBegin
<1>3. CASE NextComponent
  BY <1>3, QuestionNextComponent
<1>4. CASE IntermediateExists
  BY <1>4, QuestionIntermediateExists
<1>5. CASE SymbolicLink
  BY <1>5, QuestionSymbolicLink
<1>6. CASE ReadTheLink
  BY <1>6, QuestionReadTheLink
<1>7. CASE FollowTheLink
  BY <1>7, QuestionFollowTheLink
<1>8. CASE CallForInterpreter
  BY <1>8, QuestionCallForInterpreter
<1>9. CASE ReadlinkFails
  <2>1. Existing(intermediate_path_st) /\ intermediate_path_st.type = "lnk"
    BY <1>9 DEF ReadlinkFails, DInv
  <2>2. pc' \in {"return", "interpreter"}
    BY <2>1, ExistingMoves
  <2> QED
    BY <1>1, <2>2
<1>10. CASE Change
  <2>1. ~quiet' /\ ~calm'
    BY <1>10 DEF Change, quiet, calm
  <2> QED
    BY <2>1 DEF QInv
<1>11. CASE UNCHANGED vars
  <2>1. UNCHANGED <<fs, changed, request, expected_errno, final_component,
                    initial_pathname>>
    BY <1>11 DEF vars
  <2>2. /\ (quiet' <=> quiet) /\ (SomethingTrailsOff' <=> SomethingTrailsOff)
        /\ (calm' <=> calm) /\ Asked' = Asked /\ Followed' = Followed
        /\ (BlindCwd' <=> BlindCwd)
    BY <2>1, Still
  <2> QED
    BY <1>11, <2>2 DEF vars, QInv, AheadOf, Listed, Blind, lookup_after_link
<1>12. CASE \/ EmptyPathname \/ PathnameTooLong \/ LookupDirectoryFails
            \/ AssertionFails \/ LookupDirectoryUnfit \/ IntermediateFails
            \/ DanglingLink \/ NoInterpreter \/ ReturnToCaller
  <2>1. pc' \in {"return", "abort"}
    BY <1>12 DEF EmptyPathname, PathnameTooLong, LookupDirectoryFails,
         AssertionFails, LookupDirectoryUnfit, IntermediateFails, DanglingLink,
         NoInterpreter, ReturnToCaller, BareReturn, Return, GoTo
  <2> QED
    BY <1>1, <2>1
<1> QED
  BY <1>2, <1>3, <1>4, <1>5, <1>6, <1>7, <1>8, <1>9, <1>10, <1>11, <1>12
     DEF Next, Call, Done

(* The links of a walk begin with those it had when it got here. *)
LEMMA FirstLinks ==
    ASSUME NEW tree, NEW follow, NEW whole, NEW path, NEW dir, NEW rest,
           NEW links, NEW count,
           tree \in FileSystems, rest \in Seq(Name), count \in Nat,
           Ahead(tree, follow, whole, path, dir, rest, links, count)
    PROVE  SubSeq(whole.links, 1, count) = links
<1>1. /\ dir \in DOMAIN tree /\ links \in Seq(DOMAIN tree) /\ Len(links) = count
      /\ Same(WalkFrom(tree, follow, Going(dir, rest, links)), whole)
  BY DEF Ahead
<1>2. PICK w \in Walkers(tree) : w = Going(dir, rest, links)
  BY <1>1, GoingType
<1>3. w.links = links
  BY <1>2 DEF Going
<1>4. PICK all \in Seq(DOMAIN tree) : all = whole.links /\ Extends(all, links)
  <2>1. /\ WalkFrom(tree, follow, w) \in Walkers(tree)
        /\ Extends(WalkFrom(tree, follow, w).links, w.links)
    BY WalkEnds
  <2>2. WalkFrom(tree, follow, w).links = whole.links
    BY <1>1, <1>2 DEF Same
  <2> QED
    BY <1>3, <2>1, <2>2 DEF Walkers
<1>5. count <= Len(all) /\ \A i \in 1 .. count : all[i] = links[i]
  BY <1>1, <1>4 DEF Extends
<1>6. SubSeq(all, 1, count) = links
  <2>1. Len(all) \in Nat
    BY LenProperties
  <2>2. SubSeq(all, 1, count) \in Seq(DOMAIN tree) /\ Len(SubSeq(all, 1, count)) = count
        /\ \A i \in 1 .. count : SubSeq(all, 1, count)[i] = all[i]
    BY <1>5, <2>1
  <2> QED
    BY <1>1, <1>5, <2>2, SeqEqual
<1> QED
  BY <1>4, <1>6

(* Left alone, and with none of the exclusions, the function asks at each  *)
(* component what the kernel was asked: what is left of the path, walked   *)
(* from the lookup directory, comes to what the whole path comes to.       *)
THEOREM QuestionKept == Spec => []SameQuestion
<1>1. Init => TInv /\ LInv /\ DInv /\ QInv
  BY TypeInitial, ListInitial, DirectoryInitial, QuestionInitial
<1>2. (TInv /\ LInv /\ DInv /\ QInv) /\ [Next]_vars => (TInv /\ LInv /\ DInv /\ QInv)'
  BY TypeInductive, ListInductive, DirectoryInductive, QuestionInductive
<1>3. TInv /\ DInv /\ QInv => SameQuestion
  <2> SUFFICES ASSUME TInv, DInv, QInv PROVE SameQuestion
    OBVIOUS
  <2>1. LookupDirectoryIsNoLink
    BY DEF DInv, LookupDirectoryIsNoLink
  <2> DEFINE ahead == WalkFrom(fs, final_component.follow_symlink,
                          [Walker(DotPath) EXCEPT
                              !.dir = ObjectAt(lookup_directory),
                              !.rest = pp,
                              !.links = SubSeq(WholeWalk.links, 1,
                                               number_of_symlinks_followed)])
  <2>2. ASSUME pc = "lookup", calm, ~BlindCwd
        PROVE  ahead.err = WholeWalk.err /\ ahead.obj = WholeWalk.obj
    <3>1. PICK dir, links : AheadOf(lookup_directory, dir, pp, links,
                                    number_of_symlinks_followed)
      BY <2>2 DEF QInv, Blind
    <3>2. PICK tree, follow, whole, path, rest, count :
               /\ tree = fs /\ follow = Followed
               /\ whole = Asked /\ path = lookup_directory /\ rest = pp
               /\ count = number_of_symlinks_followed
      OBVIOUS
    <3>3. /\ tree \in FileSystems /\ rest \in Seq(Name) /\ count \in Nat
          /\ Ahead(tree, follow, whole, path, dir, rest, links, count)
      BY <3>1, <3>2 DEF TInv, AheadOf
    <3>4. SubSeq(whole.links, 1, count) = links
      BY <3>3, FirstLinks
    <3>5. ObjectAt(lookup_directory) = dir
      BY <3>2, <3>3 DEF ObjectAt, Ahead, Leads, ObjectIn
    <3>6. Walker(DotPath) = [dir |-> Cwd, rest |-> <<".">>, slash |-> FALSE,
                             links |-> <<>>, err |-> "none", obj |-> Root]
      <4>1. ~(Len(<<".">>) > PATH_MAX)
        BY SymloopAssumption
      <4>2. DotPath.names = <<".">> /\ DotPath.slash = FALSE /\ DotPath.abs = FALSE
            /\ DotPath # Empty
        BY EmptyFacts
      <4> QED
        BY <4>1, <4>2 DEF Walker
    <3>7. [Walker(DotPath) EXCEPT !.dir = dir, !.rest = rest, !.links = links]
            = Going(dir, rest, links)
      <4>1. PICK u, dot, nil : u = Walker(DotPath) /\ dot = <<".">> /\ nil = <<>>
        OBVIOUS
      <4>2. u = Going(Cwd, dot, nil)
        BY <3>6, <4>1 DEF Going
      <4>3. PICK v : v = [u EXCEPT !.dir = dir, !.rest = rest, !.links = links]
        OBVIOUS
      <4>4. v = [dir |-> dir, rest |-> rest, slash |-> FALSE, links |-> links,
                 err |-> "none", obj |-> Root]
        BY <4>2, <4>3 DEF Going
      <4>5. v = Going(dir, rest, links)
        BY <4>4 DEF Going
      <4> QED
        BY <4>1, <4>3, <4>5
    <3>8. whole = WholeWalk
      BY <3>2, AskedIsWhole
    <3>9. ahead = WalkFrom(tree, final_component.follow_symlink, Going(dir, rest, links))
      BY <3>2, <3>4, <3>5, <3>7, <3>8
    <3>10. WalkFrom(tree, final_component.follow_symlink, Going(dir, rest, links))
             = WalkFrom(tree, follow, Going(dir, rest, links))
      <4>1. final_component.follow_symlink \in BOOLEAN
        BY FollowsOrNot DEF TInv
      <4>2. CASE final_component.follow_symlink => Followed
        <5>1. Followed = final_component.follow_symlink
          BY <4>1, <4>2 DEF Followed
        <5> QED
          BY <3>2, <5>1
      <4>3. CASE final_component.follow_symlink /\ ~Followed
        <5>1. ~EndsAtLink /\ Followed = FALSE /\ final_component.follow_symlink = TRUE
          BY <4>1, <4>3 DEF Followed
        <5>2. ~AtLink(tree, whole)
          BY <3>2, <5>1 DEF Asked, EndsAtLink
        <5>3. PICK no : no = FALSE
          OBVIOUS
        <5>4. Same(WalkFrom(tree, no, Going(dir, rest, links)), whole)
          BY <3>2, <3>3, <5>1, <5>3 DEF Ahead
        <5>5. ~AtLink(tree, WalkFrom(tree, no, Going(dir, rest, links)))
          BY <5>2, <5>4 DEF Same, AtLink
        <5>6. PICK w \in Walkers(tree) : w = Going(dir, rest, links)
          BY <3>3, GoingType DEF Ahead
        <5>7. WalkFrom(tree, TRUE, w) = WalkFrom(tree, FALSE, w)
          BY <3>3, <5>3, <5>5, <5>6, FollowAlike
        <5> QED
          BY <3>2, <5>1, <5>6, <5>7
      <4> QED
        BY <4>1, <4>2, <4>3
    <3> QED
      BY <3>2, <3>3, <3>8, <3>9, <3>10 DEF Ahead, Same
  <2>3. pc = "lookup" /\ quiet
        /\ ~(SomethingTrailsOff \/ BlindCwd \/ BlindRoot \/ CwdOutOfReach \/ CutsAName)
        => pc = "lookup" /\ calm /\ ~BlindCwd
    BY DEF calm, Excluded
  <2> QED
    BY <2>1, <2>2, <2>3 DEF SameQuestion
<1> QED
  BY <1>1, <1>2, <1>3, PTL DEF Spec
-----------------------------------------------------------------------------
(* The first case that holds is the first.                                 *)
IsFirst(cases, i, n) ==
    cases[i][1] /\ \A j \in 1 .. n : cases[j][1] => i <= j

LEMMA FirstHeld ==
    ASSUME NEW cases, NEW otherwise, NEW n \in Nat, Len(cases) = n
    PROVE  \/ FirstOf(cases, otherwise) = otherwise /\ \A i \in 1 .. n : ~cases[i][1]
           \/ \E i \in 1 .. n : /\ IsFirst(cases, i, n)
                                /\ FirstOf(cases, otherwise) = cases[i][2]
<1> DEFINE held == {i \in 1 .. Len(cases) : cases[i][1]}
           first == CHOOSE i \in held : \A j \in held : i <= j
<1>1. CASE held = {}
  <2>1. FirstOf(cases, otherwise) = otherwise
    BY <1>1 DEF FirstOf
  <2>2. \A i \in 1 .. n : ~cases[i][1]
    BY <1>1
  <2> QED
    BY <2>1, <2>2
<1>2. CASE held # {}
  <2>1. held \in SUBSET Nat
    OBVIOUS
  <2>2. first \in held /\ \A j \in held : first <= j
    <3> HIDE DEF held
    <3> QED
      BY <1>2, <2>1, LeastElement
  <2>3. FirstOf(cases, otherwise) = cases[first][2]
    BY <1>2 DEF FirstOf
  <2> HIDE DEF first
  <2>4. first \in 1 .. n /\ cases[first][1] /\ \A j \in 1 .. n : cases[j][1] => first <= j
    BY <2>2
  <2> HIDE DEF held
  <2> QED
    BY <2>3, <2>4 DEF IsFirst
<1> QED
  BY <1>1, <1>2

LEMMA NotPair == ASSUME NEW c, NEW v, NEW r, r = <<c, v>>, ~r[1] PROVE ~c
  OBVIOUS

LEMMA Pair == ASSUME NEW c, NEW v, NEW r, r = <<c, v>> PROVE r[2] = v /\ (r[1] <=> c)
<1>1. r[2] = v
  OBVIOUS
<1>2. r[1] = c
  OBVIOUS
<1> QED
  BY <1>1, <1>2

(* What the checks of the last component say when they say something.      *)
TriesAccess ==
    \/ final_component.want_to_read \/ final_component.want_to_write
    \/ final_component.want_to_execute \/ final_component.want_to_search
OfPermission ==
    {"no_read_permission", "no_write_permission", "not_possible_to_execute",
     "no_execute_permission", "noexec", "nosuid", "no_search_permission_final"}

Tells(st, found) ==
    /\ found \in {"none", "interpreter", "eexist", "wrong_file_type",
                  "no_inode_permission", "no_unlink_permission"} \cup OfPermission
    /\ found = "eexist" => final_component.must_not_exist
    /\ found = "wrong_file_type" => final_component.must_be \notin {"any", st.type}
    /\ found = "no_inode_permission" => final_component.want_to_modify_inode
    /\ found = "no_unlink_permission"
       => expected_errno \in {"EACCES", "EPERM"} /\ final_component.want_to_unlink
    /\ found \in OfPermission => expected_errno = "EACCES" /\ TriesAccess
    /\ found = "not_possible_to_execute"
       => st.type # "reg" /\ final_component.want_to_execute
    /\ found = "interpreter"
       => /\ expected_errno = "EACCES" /\ final_component.want_to_execute
          /\ may_not_execute(st) = "none"

LEMMA ExecuteTells ==
    ASSUME NEW st
    PROVE  /\ may_not_execute(st) \in {"none", "not_possible_to_execute",
                                       "no_execute_permission", "noexec", "nosuid"}
           /\ may_not_execute(st) = "not_possible_to_execute" => st.type # "reg"
  BY DEF may_not_execute

LEMMA ExistingTells ==
    ASSUME NEW st
    PROVE  Tells(st, existing_explanation(st))
<1> DEFINE a == expected_errno = "EACCES"
           d == expected_errno \in {"EACCES", "EPERM"}
           x == may_not_execute(st)
           c1 == final_component.must_not_exist
           c2 == final_component.must_be \notin {"any", st.type}
           c3 == d /\ final_component.want_to_modify_inode /\ ~have_inode_permission(st)
           c4 == d /\ may_not_unlink(st)
           c5 == a /\ final_component.want_to_read /\ ~have_read_permission(st)
           c6 == a /\ final_component.want_to_write /\ ~have_write_permission(st)
           c7 == a /\ final_component.want_to_execute /\ x # "none"
           c8 == a /\ final_component.want_to_execute
           c9 == a /\ final_component.want_to_search /\ ~have_search_permission(st)
           cases == <<
        <<c1, "eexist">>, <<c2, "wrong_file_type">>, <<c3, "no_inode_permission">>,
        <<c4, "no_unlink_permission">>, <<c5, "no_read_permission">>,
        <<c6, "no_write_permission">>, <<c7, x>>, <<c8, "interpreter">>,
        <<c9, "no_search_permission_final">> >>
           found == existing_explanation(st)
<1>1. found = FirstOf(cases, "none")
  BY DEF existing_explanation
<1>2. x \in {"none", "not_possible_to_execute", "no_execute_permission", "noexec",
             "nosuid"} /\ (x = "not_possible_to_execute" => st.type # "reg")
  BY ExecuteTells
<1>3. Len(cases) = 9 /\ 9 \in Nat
  OBVIOUS
<1>4. /\ cases[1] = <<c1, "eexist">> /\ cases[2] = <<c2, "wrong_file_type">>
      /\ cases[3] = <<c3, "no_inode_permission">>
      /\ cases[4] = <<c4, "no_unlink_permission">>
      /\ cases[5] = <<c5, "no_read_permission">> /\ cases[6] = <<c6, "no_write_permission">>
      /\ cases[7] = <<c7, x>> /\ cases[8] = <<c8, "interpreter">>
      /\ cases[9] = <<c9, "no_search_permission_final">>
  <2> HIDE DEF c1, c2, c3, c4, c5, c6, c7, c8, c9, x
  <2> QED
    OBVIOUS
<1> HIDE DEF cases, found
<1>5. \/ found = "none"
      \/ \E i \in 1 .. 9 : IsFirst(cases, i, 9) /\ found = cases[i][2]
  <2>1. PICK n, none : n \in Nat /\ n = 9 /\ none = "none"
    OBVIOUS
  <2>2. \/ found = none
        \/ \E i \in 1 .. n : IsFirst(cases, i, n) /\ found = cases[i][2]
    BY <1>1, <1>3, <2>1, FirstHeld
  <2> QED
    BY <2>1, <2>2
<1>6. CASE found = "none"
  <2>1. found \notin OfPermission
    BY <1>6 DEF OfPermission
  <2>2. /\ found # "eexist" /\ found # "wrong_file_type" /\ found # "interpreter"
        /\ found # "no_inode_permission" /\ found # "no_unlink_permission"
        /\ found # "not_possible_to_execute"
    BY <1>6
  <2>3. found \in {"none", "interpreter", "eexist", "wrong_file_type",
                   "no_inode_permission", "no_unlink_permission"} \cup OfPermission
    BY <1>6
  <2> QED
    BY <2>1, <2>2, <2>3, Zenon DEF Tells, found
<1>7. ASSUME NEW i \in 1 .. 9, IsFirst(cases, i, 9), found = cases[i][2]
      PROVE  Tells(st, found)
  <2> USE DEF Tells, OfPermission
  <2>0. cases[i][1]
    BY <1>7 DEF IsFirst
  <2>1. CASE i = 1
    <3>0. cases[i] = <<c1, "eexist">>
      BY <1>4, <2>1
    <3>1. c1 /\ found = "eexist"
      BY <1>7, <2>0, <3>0, Pair, Zenon
    <3> QED
      BY <3>1
  <2>2. CASE i = 2
    <3>0. cases[i] = <<c2, "wrong_file_type">>
      BY <1>4, <2>2
    <3>1. c2 /\ found = "wrong_file_type"
      BY <1>7, <2>0, <3>0, Pair, Zenon
    <3> QED
      BY <3>1
  <2>3. CASE i = 3
    <3>0. cases[i] = <<c3, "no_inode_permission">>
      BY <1>4, <2>3
    <3>1. c3 /\ found = "no_inode_permission"
      BY <1>7, <2>0, <3>0, Pair, Zenon
    <3> QED
      BY <3>1
  <2>4. CASE i = 4
    <3>0. cases[i] = <<c4, "no_unlink_permission">>
      BY <1>4, <2>4
    <3>1. c4 /\ found = "no_unlink_permission"
      BY <1>7, <2>0, <3>0, Pair, Zenon
    <3> QED
      BY <3>1 DEF may_not_unlink
  <2>5. CASE i = 5
    <3>0. cases[i] = <<c5, "no_read_permission">>
      BY <1>4, <2>5
    <3>1. c5 /\ found = "no_read_permission"
      BY <1>7, <2>0, <3>0, Pair, Zenon
    <3> QED
      BY <3>1 DEF TriesAccess
  <2>6. CASE i = 6
    <3>0. cases[i] = <<c6, "no_write_permission">>
      BY <1>4, <2>6
    <3>1. c6 /\ found = "no_write_permission"
      BY <1>7, <2>0, <3>0, Pair, Zenon
    <3> QED
      BY <3>1 DEF TriesAccess
  <2>7. CASE i = 7
    <3>0. cases[i] = <<c7, x>>
      BY <1>4, <2>7
    <3>1. c7 /\ found = x
      BY <1>7, <2>0, <3>0, Pair, Zenon
    <3>2. found # "none" /\ found # "interpreter"
      BY <1>2, <3>1
    <3> QED
      BY <1>2, <3>1, <3>2 DEF TriesAccess
  <2>8. CASE i = 8
    <3>0. cases[i] = <<c8, "interpreter">>
      BY <1>4, <2>8
    <3>1. c8 /\ found = "interpreter"
      BY <1>7, <2>0, <3>0, Pair, Zenon
    <3>2. ~cases[7][1]
      BY <1>7, <2>8 DEF IsFirst
    <3>3. ~c7
      <4>1. cases[7] = <<c7, x>>
        BY <1>4
      <4> QED
        BY <3>2, <4>1, NotPair, Zenon
    <3> QED
      BY <3>1, <3>3
  <2>9. CASE i = 9
    <3>0. cases[i] = <<c9, "no_search_permission_final">>
      BY <1>4, <2>9
    <3>1. c9 /\ found = "no_search_permission_final"
      BY <1>7, <2>0, <3>0, Pair, Zenon
    <3> QED
      BY <3>1 DEF TriesAccess
  <2> QED
    BY <2>1, <2>2, <2>3, <2>4, <2>5, <2>6, <2>7, <2>8, <2>9
<1> QED
  BY <1>5, <1>6, <1>7 DEF found
-----------------------------------------------------------------------------
(* What a step leaves for the next: what was looked up in, the link about  *)
(* to be read, what its body says of where it leads, and that only what    *)
(* was to be executed is looked at for an interpreter.                     *)
Aim(path, text) ==
    IF text.abs THEN text
    ELSE IF SkipDots(text.names) = <<>> THEN path
    ELSE [path_join(path, text.names) EXCEPT !.slash = text.slash]

Aimed(text, names) ==
    /\ text \in Path /\ text # Empty /\ (text = DotPath \/ ~TrailsOff(text))
    /\ \E tail \in Seq(Name) :
          /\ EndsWell(tail) /\ (tail # <<>> \/ Followed)
          /\ names = path_join(text, tail).names

EInv ==
    /\ quiet /\ pc = "intermediate"
       => lookup_directory_st = StatOf(fs[ObjectIn(fs, lookup_directory)])
    /\ quiet /\ pc = "readlink" => LinkAt(fs, intermediate_path)
    /\ calm /\ pc = "target"
       => Aimed(rlb, pp) /\ intermediate_path = Aim(lookup_directory, rlb)
    /\ pc = "interpreter"
       => expected_errno = "EACCES" /\ final_component.want_to_execute
    /\ caller # NULL => caller.final_component.want_to_execute

LEMMA NotToSearch == \A f \in Finals : f.want_to_execute => ~f.want_to_search
<1>1. ASSUME NEW op \in Syscall, NEW f, f = final_of[op], f.want_to_execute
      PROVE  ~f.want_to_search
  <2>1. FinalFacts(op, f)
    BY <1>1, FinalFields
  <2>2. op \in {"execve", "access_x"}
    BY <1>1, <2>1 DEF FinalFacts
  <2>3. op \notin {"chdir", "chroot", "access_x_directory"}
    BY <2>2
  <2> QED
    BY <2>1, <2>3 DEF FinalFacts
<1> QED
  BY <1>1, InterpreterFields DEF Finals

LEMMA EInitial == Init => EInv
  BY DEF Init, EInv

(* The steps that lead to a label. *)
Stays ==
    /\ UNCHANGED <<failure, args, walk, inter, memory, verdict, caller>>
    /\ UNCHANGED world \/ changed'

LEMMA Arrivals ==
    ASSUME [Next]_vars
    PROVE  /\ pc' = "intermediate" => NextComponent \/ Stays
           /\ pc' = "readlink" => SymbolicLink \/ Stays
           /\ pc' = "target" => ReadTheLink \/ Stays
           /\ pc' = "interpreter" => IntermediateExists \/ ReadlinkFails \/ Stays
           /\ CallForInterpreter \/ ReturnToCaller \/ UNCHANGED caller
<1> USE DEF verdict
<1>1. CASE \/ EmptyPathname \/ PathnameTooLong \/ LookupDirectoryFails
           \/ LookupDirectoryUnfit \/ IntermediateFails \/ DanglingLink
           \/ NoInterpreter
  <2>1. pc' = "return" /\ UNCHANGED caller
    BY <1>1 DEF EmptyPathname, PathnameTooLong, LookupDirectoryFails,
       LookupDirectoryUnfit, IntermediateFails, DanglingLink, NoInterpreter,
       BareReturn, Return
  <2> QED
    BY <2>1
<1>2. CASE Begin
  <2>1. pc' \in {"return", "lookup"} /\ UNCHANGED caller
    BY <1>2 DEF Begin, GoTo
  <2> QED
    BY <2>1
<1>3. CASE AssertionFails
  <2>1. pc' = "abort" /\ UNCHANGED caller
    BY <1>3 DEF AssertionFails, GoTo
  <2> QED
    BY <2>1
<1>4. CASE NextComponent
  <2>1. pc' \in {"return", "intermediate"} /\ UNCHANGED caller
    BY <1>4 DEF NextComponent, Return, GoTo
  <2> QED
    BY <1>4, <2>1
<1>5. CASE IntermediateExists
  <2>1. pc' \in {"return", "lookup", "interpreter"} /\ UNCHANGED caller
    BY <1>5, ExistingMoves DEF IntermediateExists
  <2> QED
    BY <1>5, <2>1
<1>6. CASE SymbolicLink
  <2>1. pc' \in {"return", "readlink"} /\ UNCHANGED caller
    BY <1>6 DEF SymbolicLink, Return, GoTo
  <2> QED
    BY <1>6, <2>1
<1>7. CASE ReadlinkFails
  <2>1. pc' \in {"return", "lookup", "interpreter"} /\ UNCHANGED caller
    BY <1>7, ExistingMoves DEF ReadlinkFails
  <2> QED
    BY <1>7, <2>1
<1>8. CASE ReadTheLink
  <2>1. pc' \in {"return", "target"} /\ UNCHANGED caller
    BY <1>8 DEF ReadTheLink, Follow, GoTo
  <2> QED
    BY <1>8, <2>1
<1>9. CASE FollowTheLink
  <2>1. pc' \in {"return", "lookup"} /\ UNCHANGED caller
    BY <1>9 DEF FollowTheLink, GoTo
  <2> QED
    BY <2>1
<1>10. CASE CallForInterpreter
  <2>1. pc' = "begin"
    BY <1>10 DEF CallForInterpreter, GoTo
  <2> QED
    BY <1>10, <2>1
<1>11. CASE ReturnToCaller
  <2>1. pc' = "return"
    BY <1>11 DEF ReturnToCaller
  <2> QED
    BY <1>11, <2>1
<1>12. CASE Change
  <2>1. Stays
    BY <1>12 DEF Change, Stays
  <2> QED
    BY <2>1 DEF Stays
<1>13. CASE UNCHANGED vars
  <2>1. Stays
    BY <1>13 DEF vars, Stays
  <2> QED
    BY <2>1 DEF Stays
<1> QED
  BY <1>1, <1>2, <1>3, <1>4, <1>5, <1>6, <1>7, <1>8, <1>9, <1>10, <1>11, <1>12,
     <1>13 DEF Next, Call, Done

LEMMA EInductive ==
    TInv /\ LInv /\ DInv /\ QInv /\ EInv /\ [Next]_vars => EInv'
<1> SUFFICES ASSUME TInv, LInv, DInv, QInv, EInv, [Next]_vars PROVE EInv'
  OBVIOUS
<1> USE DEF world, failure, args, walk, inter, memory, verdict
<1>0. fs \in FileSystems
  BY DEF TInv
<1>1. (caller # NULL => caller.final_component.want_to_execute)'
  <2>1. CASE CallForInterpreter
    <3>1. caller'.final_component = final_component
      BY <2>1 DEF CallForInterpreter
    <3> QED
      BY <2>1, <3>1 DEF CallForInterpreter, EInv
  <2>2. CASE ReturnToCaller
    BY <2>2 DEF ReturnToCaller
  <2>3. CASE UNCHANGED caller
    BY <2>3 DEF EInv
  <2> QED
    BY <2>1, <2>2, <2>3, Arrivals
<1>2. ASSUME pc' = "interpreter"
      PROVE  (expected_errno = "EACCES" /\ final_component.want_to_execute)'
  <2>1. CASE Stays
    BY <1>2, <2>1 DEF Stays, EInv
  <2>2. CASE IntermediateExists \/ ReadlinkFails
    <3>1. PICK st : Existing(st) /\ UNCHANGED args
      BY <2>2 DEF IntermediateExists, ReadlinkFails
    <3>2. existing_explanation(st) = "interpreter"
      BY <1>2, <3>1 DEF Existing, Return, BareReturn, GoTo
    <3>3. expected_errno = "EACCES" /\ final_component.want_to_execute
      BY <3>2, ExistingTells DEF Tells
    <3> QED
      BY <3>1, <3>3
  <2> QED
    BY <1>2, <2>1, <2>2, Arrivals
<1>3. ASSUME quiet', pc' = "intermediate"
      PROVE  (lookup_directory_st = StatOf(fs[ObjectIn(fs, lookup_directory)]))'
  <2>1. CASE Stays
    <3>1. UNCHANGED <<fs, pc, changed, lookup_directory, lookup_directory_st>>
      BY <1>3, <2>1 DEF Stays, quiet
    <3> QED
      BY <1>3, <3>1 DEF EInv, quiet
  <2>2. CASE NextComponent
    <3>1. /\ Lstat(fs, lookup_directory).errno = "OK"
          /\ lookup_directory_st' = Lstat(fs, lookup_directory).st
          /\ UNCHANGED <<fs, lookup_directory>>
      BY <2>2 DEF NextComponent
    <3>2. Lstat(fs, lookup_directory).st = StatOf(fs[ObjectIn(fs, lookup_directory)])
      BY <1>0, <3>1, LstatObject
    <3> QED
      BY <3>1, <3>2
  <2> QED
    BY <1>3, <2>1, <2>2, Arrivals
<1>4. ASSUME quiet', pc' = "readlink"
      PROVE  LinkAt(fs, intermediate_path)'
  <2>1. CASE Stays
    <3>1. UNCHANGED <<fs, pc, changed, intermediate_path>>
      BY <1>4, <2>1 DEF Stays, quiet
    <3> QED
      BY <1>4, <3>1 DEF EInv, quiet
  <2>2. CASE SymbolicLink
    <3>1. /\ LinkAt(fs, intermediate_path)
          /\ UNCHANGED <<fs, intermediate_path>>
      BY <2>2 DEF SymbolicLink, is_link_to_follow, LinkAt
    <3> QED
      BY <3>1
  <2> QED
    BY <1>4, <2>1, <2>2, Arrivals
<1>5. ASSUME calm', pc' = "target"
      PROVE  (Aimed(rlb, pp) /\ intermediate_path = Aim(lookup_directory, rlb))'
  <2>1. CASE Stays
    <3>1. UNCHANGED <<fs, changed, request, expected_errno, final_component,
                      initial_pathname, pc, rlb, pp, intermediate_path,
                      lookup_directory>>
      BY <1>5, <2>1 DEF Stays, quiet, calm
    <3>2. calm /\ Followed' = Followed
      BY <1>5, <3>1, Still
    <3> QED
      BY <1>5, <3>1, <3>2 DEF EInv, Aimed
  <2>2. CASE ReadTheLink
    <3>1. /\ UNCHANGED <<fs, changed, request, expected_errno, final_component,
                         initial_pathname, lookup_directory>>
          /\ pc = "readlink" /\ Readlink(fs, intermediate_path).errno = "OK"
          /\ Follow(Readlink(fs, intermediate_path).body)
      BY <1>5, <2>2 DEF ReadTheLink
    <3>2. calm /\ Followed' = Followed
      BY <1>5, <3>1, Still
    <3>3. EndsWell(pp) /\ (pp # <<>> \/ Followed) /\ pp \in Seq(Name)
      BY <3>1, <3>2 DEF QInv, TInv
    <3>4. PICK body : body = Readlink(fs, intermediate_path).body
      OBVIOUS
    <3>5. PICK o \in DOMAIN fs : body = fs[o].target
      <4>1. PICK w : WalkFrom(fs, FALSE, Walker(intermediate_path)) = w
        OBVIOUS
      <4> QED
        BY <1>0, <3>1, <3>4, <4>1, ReadlinkFinds DEF Body
    <3>6. body \in Path /\ (body = DotPath \/ ~TrailsOff(body))
      <4>1. body = DotPath \/ ~TrailsOff(body)
        BY <3>2, <3>5 DEF calm, Excluded, SomethingTrailsOff
      <4> QED
        BY <1>0, <3>1, <3>4, <4>1, LinkBodyType
    <3>7. PICK text : text = Text(body)
      OBVIOUS
    <3>8. text \in Path /\ text # Empty /\ (text = DotPath \/ ~TrailsOff(text))
      BY <3>6, <3>7, TextFacts, EmptyFacts DEF Text
    <3>9. /\ rlb' = text /\ pp' = path_join(text, pp).names
          /\ intermediate_path' = Aim(lookup_directory, text)
      BY <3>1, <3>4, <3>7 DEF Follow, Text, Aim
    <3>10. EndsWell(pp) /\ (pp # <<>> \/ Followed') /\ pp \in Seq(Name)
           /\ pp' = path_join(rlb', pp).names
      BY <3>2, <3>3, <3>9
    <3>11. Aimed(rlb, pp)'
      BY <3>8, <3>9, <3>10 DEF Aimed
    <3> QED
      BY <3>1, <3>9, <3>11
  <2> QED
    BY <1>5, <2>1, <2>2, Arrivals
<1> QED
  BY <1>1, <1>2, <1>3, <1>4, <1>5 DEF EInv
-----------------------------------------------------------------------------
(* What an explanation accounts for: how the walk of the question ends.    *)
NoOverride == "dac_override" \notin Process.caps
FailedThere(e) == Asked.err = e /\ Asked.dir = ObjectIn(fs, lookup_directory)
FoundThere == Asked.err = "found" /\ Asked.obj = ObjectIn(fs, intermediate_path)

OfTheObject ==
    {"eexist", "wrong_file_type", "no_inode_permission", "no_unlink_permission"}
    \cup OfPermission

Dangles ==
    \/ Asked.err = "ENOENT"
    \/ Asked.err = "absent" /\ Followed
    \/ Asked.err = "ELOOP" /\ Len(Asked.links) >= SYMLOOP_MAX

Accounts(reason) ==
    /\ reason \notin {"none", "directory_does_not_exist", "not_a_directory"}
    /\ reason = "empty_path" => initial_pathname = Empty
    /\ reason \in {"path_too_long", "name_too_long"}
       => expected_errno = "ENAMETOOLONG" /\ Asked.err = "ENAMETOOLONG"
    /\ reason = "no_search_permission" => FailedThere("EACCES")
    /\ reason = "no_such_directory_entry"
       => \/ FailedThere("ENOENT")
          \/ FailedThere("absent") /\ final_component.must_exist
    /\ reason = "no_new_entry_permission"
       => /\ FailedThere("absent") /\ ~final_component.must_exist
          /\ ~Granted(fs[Asked.dir], "w")
    /\ reason = "not_a_subdirectory"
       => Asked.err = "ENOTDIR" /\ Asked.dir = ObjectIn(fs, intermediate_path)
    /\ reason = "dangling_symbolic_link" => Dangles
    /\ reason = "symlink_loop" => Asked.err = "ELOOP" \/ ~IsInjective(Asked.links)
    /\ reason = "too_many_symlinks" => Len(Asked.links) >= SYMLOOP_MAX
    /\ reason = "too_many_interpreters"
       => FoundThere /\ expected_errno = "EACCES" /\ ~final_component.follow_interpreter
    /\ reason \in OfTheObject => FoundThere /\ Tells(StatOf(fs[Asked.obj]), reason)

Holding ==
    /\ calm /\ NoOverride /\ pc = "return" /\ result = 0 => Accounts(why)
    /\ calm /\ NoOverride /\ pc = "interpreter"
       => FoundThere /\ ExecErrno(fs[Asked.obj]) = "OK"

Untouched == UNCHANGED <<fs, changed, request, expected_errno, final_component,
                         initial_pathname, lookup_directory, intermediate_path>>

LEMMA StillThere ==
    ASSUME Untouched
    PROVE  /\ (FoundThere <=> FoundThere') /\ (Dangles <=> Dangles') /\ Asked' = Asked
           /\ \A e : FailedThere(e) <=> FailedThere(e)'
<1>1. UNCHANGED <<fs, changed, request, expected_errno, final_component,
                  initial_pathname, lookup_directory, intermediate_path>>
  BY DEF Untouched
<1>2. Asked' = Asked /\ Followed' = Followed
  BY <1>1, Still
<1> QED
  BY <1>1, <1>2 DEF FoundThere, Dangles, FailedThere

LEMMA VerdictKept ==
    ASSUME Untouched, NEW r, Accounts(r), why' = r
    PROVE  Accounts(why)'
<1>1. UNCHANGED <<fs, changed, request, expected_errno, final_component,
                  initial_pathname, lookup_directory, intermediate_path>>
  BY DEF Untouched
<1>2. /\ (FoundThere <=> FoundThere') /\ (Dangles <=> Dangles') /\ Asked' = Asked
      /\ \A e : FailedThere(e) <=> FailedThere(e)'
  BY StillThere
<1>3. \A st : Tells(st, r) <=> Tells(st, why)'
  BY <1>1 DEF Tells, TriesAccess, may_not_execute
<1> QED
  BY <1>1, <1>2, <1>3 DEF Accounts

LEMMA LeadsAnswers ==
    ASSUME NEW tree, NEW path, NEW dir,
           tree \in FileSystems, Leads(tree, path, dir)
    PROVE  /\ Lstat(tree, path).errno = "OK" /\ Lstat(tree, path).st = StatOf(tree[dir])
           /\ Lstat(tree, path).st.type = "dir"
<1>1. PICK w : WalkFrom(tree, FALSE, Walker(path)) = w
  OBVIOUS
<1>2. w.err = "found" /\ w.obj = dir /\ dir \in DOMAIN tree /\ tree[dir].type = "dir"
  BY <1>1 DEF Leads, ObjectIn
<1>3. Lstat(tree, path).errno = "OK"
  BY <1>1, <1>2 DEF Lstat, Found
<1>4. Lstat(tree, path).st = StatOf(tree[dir])
  BY <1>1, <1>2 DEF Lstat, Found
<1>5. Lstat(tree, path).st.type = "dir"
  <2>1. ASSUME NEW node PROVE StatOf(node).type = node.type
    BY DEF StatOf
  <2> QED
    BY <1>2, <1>4, <2>1
<1> QED
  BY <1>3, <1>4, <1>5

(* What the library thinks not permitted is not, but for dac_override.     *)
LEMMA NotPermitted ==
    ASSUME NEW node, NoOverride
    PROVE  /\ node.type = "dir" /\ ~have_search_permission(StatOf(node))
              => ~Granted(node, "x")
           /\ ~have_write_permission(StatOf(node)) => ~Granted(node, "w")
<1>1. PICK st : st = StatOf(node)
  OBVIOUS
<1>2. st.type = node.type /\ st.uid = node.uid /\ st.gid = node.gid /\ st.mode = node.mode
  BY <1>1 DEF StatOf
<1>3. class_of(st, Process) = IF node.uid = Process.uid THEN "u"
                              ELSE IF node.gid \in Process.groups \cup {Process.gid}
                              THEN "g" ELSE "o"
  BY <1>2 DEF class_of, explain_group_in_groups
<1>4. \A wanted : explain_have_permission(st, Process, wanted)
          <=> wanted \in node.mode[IF node.uid = Process.uid THEN "u"
                              ELSE IF node.gid \in Process.groups \cup {Process.gid}
                              THEN "g" ELSE "o"]
  BY <1>2, <1>3 DEF explain_have_permission
<1>5. ASSUME node.type = "dir", ~have_search_permission(st)
      PROVE  ~Granted(node, "x")
  BY <1>2, <1>4, <1>5 DEF have_search_permission, explain_have_search_permission,
     explain_capability, Granted, KernelMay, NoOverride
<1>6. ASSUME ~have_write_permission(st)
      PROVE  ~Granted(node, "w")
  BY <1>2, <1>4, <1>6 DEF have_write_permission, explain_have_write_permission,
     explain_capability, Granted, KernelMay, NoOverride
<1> QED
  BY <1>1, <1>5, <1>6

-----------------------------------------------------------------------------
(* One lemma for each step that returns an explanation.                    *)
LEMMA VerdictEmptyPathname ==
    ASSUME EmptyPathname PROVE Accounts(why)'
<1> USE DEF world, failure, args, walk, inter, memory, verdict
<1>1. PICK r : r = "empty_path"
  OBVIOUS
<1>2. Untouched /\ initial_pathname = Empty /\ why' = r
  BY <1>1 DEF EmptyPathname, BareReturn, Untouched
<1>3. Accounts(r)
  BY <1>1, <1>2 DEF Accounts, OfTheObject, OfPermission
<1> QED
  BY <1>2, <1>3, VerdictKept

LEMMA VerdictPathnameTooLong ==
    ASSUME TInv, PathnameTooLong PROVE Accounts(why)'
<1> USE DEF world, failure, args, walk, inter, memory, verdict
<1>0. fs \in FileSystems /\ initial_pathname \in Path
  BY DEF TInv
<1>1. PICK r : r = "path_too_long"
  OBVIOUS
<1>2. /\ Untouched /\ initial_pathname # Empty /\ expected_errno = "ENAMETOOLONG"
      /\ Len(initial_pathname.names) > PATH_MAX /\ why' = r
  BY <1>1 DEF PathnameTooLong, BareReturn, Untouched
<1>3. PICK w \in Walkers(fs) : w = Walker(initial_pathname)
  BY <1>0, WalkerType
<1>4. w.err = "ENAMETOOLONG"
  BY <1>2, <1>3 DEF Walker
<1>5. Asked = w
  BY <1>0, <1>3, <1>4, WalkUnfolds DEF Asked
<1>6. Accounts(r)
  BY <1>1, <1>2, <1>4, <1>5 DEF Accounts, OfTheObject, OfPermission
<1> QED
  BY <1>2, <1>6, VerdictKept

LEMMA NoVerdictLookupDirectoryFails ==
    ASSUME TInv, QInv, calm, LookupDirectoryFails PROVE result' = -1
<1>0. fs \in FileSystems
  BY DEF TInv
<1>1. /\ pc = "lookup" /\ Lstat(fs, lookup_directory).errno # "OK"
      /\ Lstat(fs, lookup_directory).errno # "ENOENT" => result' = -1
  BY DEF LookupDirectoryFails, Return
<1>2. CASE Blind
  <2>1. Lstat(fs, lookup_directory).errno = "EACCES"
    BY <1>0, <1>2, BlindDot DEF Blind, BlindCwd
  <2> QED
    BY <1>1, <2>1
<1>3. CASE ~Blind
  <2>1. PICK dir, links : AheadOf(lookup_directory, dir, pp, links,
                                  number_of_symlinks_followed)
    BY <1>1, <1>3 DEF QInv
  <2>2. Leads(fs, lookup_directory, dir)
    BY <2>1 DEF AheadOf, Ahead
  <2> QED
    BY <1>0, <1>1, <2>2, LeadsAnswers
<1> QED
  BY <1>2, <1>3

LEMMA VerdictLookupDirectoryUnfit ==
    ASSUME TInv, QInv, calm, NoOverride, LookupDirectoryUnfit PROVE Accounts(why)'
<1> USE DEF world, failure, args, walk, inter, memory, verdict
<1>0. fs \in FileSystems /\ pp \in Seq(Name)
  BY DEF TInv
<1>1. PICK r : r = "no_search_permission"
  OBVIOUS
<1>2. /\ pc = "lookup" /\ Lstat(fs, lookup_directory).errno = "OK" /\ Untouched
      /\ \/ Lstat(fs, lookup_directory).st.type = "reg"
         \/ ~have_search_permission(Lstat(fs, lookup_directory).st) /\ why' = r
  BY <1>1 DEF LookupDirectoryUnfit, Return, Untouched
<1>3. ~Blind
  <2>1. Lstat(fs, lookup_directory).errno # "EACCES"
    BY <1>2
  <2> QED
    BY <1>0, <2>1, BlindDot DEF Blind, BlindCwd
<1>4. (pp = <<>> => lookup_directory = RootPath)
      /\ \E dir, links : AheadOf(lookup_directory, dir, pp, links,
                                 number_of_symlinks_followed)
  BY <1>2, <1>3 DEF QInv
<1>5. PICK dir, links : AheadOf(lookup_directory, dir, pp, links,
                                number_of_symlinks_followed)
  BY <1>4
<1>6. PICK tree, follow, whole, path, names, count :
           /\ tree = fs /\ follow = Followed /\ whole = Asked
           /\ path = lookup_directory /\ names = pp
           /\ count = number_of_symlinks_followed
  OBVIOUS
<1>7. /\ tree \in FileSystems /\ names \in Seq(Name) /\ dir \in DOMAIN tree
      /\ links \in Seq(DOMAIN tree) /\ Leads(tree, path, dir)
      /\ ObjectIn(tree, path) = dir /\ tree[dir].type = "dir"
      /\ Same(WalkFrom(tree, follow, Going(dir, names, links)), whole)
  BY <1>0, <1>5, <1>6 DEF AheadOf, Ahead, Leads
<1>8. ~Granted(tree[dir], "x") /\ why' = r
  <2>1. Lstat(tree, path).st = StatOf(tree[dir]) /\ Lstat(tree, path).st.type = "dir"
    BY <1>7, LeadsAnswers
  <2>2. ~have_search_permission(StatOf(tree[dir])) /\ why' = r
    BY <1>2, <1>6, <2>1
  <2> QED
    BY <1>7, <2>2, NotPermitted
<1>9. names # <<>>
  <2>1. ASSUME names = <<>> PROVE FALSE
    <3>1. path = RootPath
      BY <1>4, <1>6, <2>1
    <3>2. ObjectIn(tree, path) = Root
      BY <1>7, <3>1, RootLeads DEF Leads
    <3> QED
      BY <1>6, <1>7, <1>8, <3>2 DEF calm, Excluded, BlindRoot
  <2> QED
    BY <2>1
<1>10. PICK c \in Name, t \in Seq(Name) : Parts(names, c, t) /\ names = <<c>> \o t
  BY <1>7, <1>9, TakenApart
<1>11. PICK e : e = Refusal(tree, dir, c, t = <<>>)
  OBVIOUS
<1>12. ~Enters(tree, dir, c) /\ e = "EACCES"
  BY <1>7, <1>8, <1>11 DEF Enters, Refusal
<1>13. Outcome(WalkFrom(tree, follow, Going(dir, names, links)), dir, e, Root, links)
  BY <1>7, <1>10, <1>11, <1>12, WalkRefused
<1>14. whole.err = "EACCES" /\ whole.dir = ObjectIn(tree, path)
  BY <1>7, <1>12, <1>13 DEF Outcome, Same
<1>15. Accounts(r)
  BY <1>1, <1>6, <1>14 DEF Accounts, FailedThere, OfTheObject, OfPermission
<1> QED
  BY <1>2, <1>8, <1>15, VerdictKept

LEMMA VerdictNextComponent ==
    ASSUME TInv, QInv, calm, NextComponent, pc' = "return" PROVE Accounts(why)'
<1> USE DEF world, failure, args, walk, inter, memory, verdict
<1>0. fs \in FileSystems /\ pp \in Seq(Name)
  BY DEF TInv
<1>1. PICK r : r = "name_too_long"
  OBVIOUS
<1>2. /\ pc = "lookup" /\ Lstat(fs, lookup_directory).errno = "OK" /\ Untouched
      /\ have_search_permission(Lstat(fs, lookup_directory).st)
      /\ expected_errno = "ENAMETOOLONG" /\ Range(next_component) \cap LongNames # {}
      /\ why' = r
  BY <1>1 DEF NextComponent, Return, GoTo, Untouched
<1>3. ~Blind
  <2>1. Lstat(fs, lookup_directory).errno # "EACCES"
    BY <1>2
  <2> QED
    BY <1>0, <2>1, BlindDot DEF Blind, BlindCwd
<1>4. PICK dir, links : AheadOf(lookup_directory, dir, pp, links,
                                number_of_symlinks_followed)
  BY <1>2, <1>3 DEF QInv
<1>5. PICK tree, follow, whole, path, names, count :
           /\ tree = fs /\ follow = Followed /\ whole = Asked
           /\ path = lookup_directory /\ names = pp
           /\ count = number_of_symlinks_followed
  OBVIOUS
<1>6. /\ tree \in FileSystems /\ names \in Seq(Name)
      /\ Ahead(tree, follow, whole, path, dir, names, links, count)
  BY <1>0, <1>4, <1>5 DEF AheadOf
<1>7. tree[dir].type = "dir" /\ Granted(tree[dir], "x")
  <2>1. /\ Leads(tree, path, dir) /\ Lstat(tree, path).errno = "OK"
        /\ have_search_permission(Lstat(tree, path).st)
    BY <1>2, <1>5, <1>6 DEF Ahead
  <2> QED
    BY <1>6, <2>1, LooksUp
<1>8. names # <<>>
  <2>1. ASSUME names = <<>> PROVE FALSE
    <3>1. next_component = <<>>
      BY <1>5, <2>1 DEF next_component
    <3>2. Range(<<>>) = {}
      BY DEF Range
    <3> QED
      BY <1>2, <3>1, <3>2
  <2> QED
    BY <2>1
<1>9. PICK c \in Name, t \in Seq(Name) : Parts(names, c, t) /\ names = <<c>> \o t
  BY <1>6, <1>8, TakenApart
<1>10. c \in LongNames
  <2>1. next_component = <<c>>
    BY <1>2, <1>5, <1>8, <1>9 DEF next_component, Parts
  <2>2. Range(<<c>>) = {c}
    BY DEF Range
  <2> QED
    BY <1>2, <2>1, <2>2
<1>11. whole.err = "ENAMETOOLONG"
  BY <1>6, <1>7, <1>9, <1>10, LongNameTells
<1>12. Accounts(r)
  BY <1>1, <1>2, <1>5, <1>11 DEF Accounts, OfTheObject, OfPermission
<1> QED
  BY <1>2, <1>12, VerdictKept

(* A name that lstat misses below a lookup directory is not in it.         *)
Misses(tree, dir, c) ==
    /\ ~Enters(tree, dir, c)
    /\ tree[dir].type = "dir" /\ Granted(tree[dir], "x") /\ c \notin LongNames

LEMMA MissedBelow ==
    ASSUME NEW tree, NEW path, NEW dir, NEW c, NEW one, NEW joined,
           tree \in FileSystems, Leads(tree, path, dir), c \in Name, IsOne(one, c),
           joined = path_join(path, one), Lstat(tree, joined).errno = "ENOENT"
    PROVE  Misses(tree, dir, c)
<1>0. /\ path \in Path /\ path.slash = FALSE /\ dir \in DOMAIN tree
      /\ Through(tree, path, dir)
  BY DEF Leads
<1>1. c # "."
  <2>1. ASSUME c = "." PROVE FALSE
    <3>1. joined = path
      BY <2>1, JoinedDot DEF IsOne
    <3> QED
      BY <3>1, LeadsAnswers
  <2> QED
    BY <2>1
<1>2. one = <<c>> /\ one \in Seq(Name) /\ one # <<>>
  BY DEF IsOne
<1>3. Below(path, c, one, joined)
  BY <1>0, <1>1, <1>2, JoinedOne
<1>4. joined \in Path /\ joined.slash = FALSE /\ Start(joined) = Start(path)
      /\ joined.names = Cat(Stem(path), one) /\ joined.names # <<>>
  <2>1. Stem(path) \in Seq(Name)
    BY <1>0 DEF Stem, Path
  <2>2. Cat(Stem(path), one) # <<>>
    BY <1>2, <2>1, CatNotEmpty
  <2> QED
    BY <1>3, <2>2 DEF Below
<1>5. PICK u \in Walkers(tree) : u = Walker(joined)
  BY <1>4, WalkerType
<1>6. PICK no : no = FALSE
  OBVIOUS
<1>7. PICK w \in Walkers(tree) : w = WalkFrom(tree, no, u) /\ w.err # "none"
  BY WalkEnds
<1>8. Missing(w)
  <2>1. w.err \in Ways /\ w.obj \in DOMAIN tree
    BY <1>7 DEF Walkers
  <2>2. w.err # "found" /\ w.err \notin {"EACCES", "ELOOP", "ENAMETOOLONG", "ENOTDIR"}
    BY <1>5, <1>6, <1>7, <2>1 DEF Lstat, Found
  <2> QED
    BY <1>7, <2>1, <2>2 DEF Missing, Ways
<1>9. PICK nil \in Seq(DOMAIN tree) : nil = <<>>
  BY EmptySeq
<1>10. u = Going(Start(joined), joined.names, nil)
  <2>1. joined # Empty
    BY <1>4, EmptyFacts
  <2>2. ~(Len(joined.names) > PATH_MAX)
    <3>1. ASSUME Len(joined.names) > PATH_MAX PROVE FALSE
      <4>1. u.err = "ENAMETOOLONG"
        BY <1>5, <2>1, <3>1 DEF Walker
      <4>2. w = u
        BY <1>7, <4>1, WalkUnfolds
      <4> QED
        BY <1>8, <4>1, <4>2 DEF Missing
    <3> QED
      BY <3>1
  <2> QED
    BY <1>4, <1>5, <1>9, <2>1, <2>2 DEF Walker, Going, Start, Base
<1>11. w = WalkFrom(tree, no, Going(dir, one, nil))
  <2>1. u = Going(Start(path), Cat(Stem(path), one), <<>>)
    BY <1>4, <1>9, <1>10
  <2>2. WalkFrom(tree, FALSE, u) = WalkFrom(tree, FALSE, Going(dir, one, <<>>))
    BY <1>0, <1>2, <2>1 DEF Through
  <2> QED
    BY <1>6, <1>7, <1>9, <2>2
<1>12. PICK none \in Seq(Name) : none = <<>>
  BY EmptySeq
<1>13. Parts(one, c, none)
  BY <1>2, <1>12 DEF Parts
<1>14. ~Enters(tree, dir, c)
  <2>1. ASSUME Enters(tree, dir, c) PROVE FALSE
    <3>1. PICK child : child = Child(tree, dir, c)
      OBVIOUS
    <3>2. WalkStep(tree, no, Going(dir, one, nil)) = Reached(Going(dir, one, nil), child)
      BY <1>6, <1>12, <1>13, <2>1, <3>1, StepArrives
    <3>3. Outcome(WalkFrom(tree, no, Going(dir, one, nil)), dir, "found", child, nil)
      BY <1>0, <1>2, <1>9, <3>2, WalkReaches
    <3> QED
      BY <1>8, <1>11, <3>3 DEF Outcome, Missing
  <2> QED
    BY <2>1
<1>15. PICK e : e = Refusal(tree, dir, c, none = <<>>)
  OBVIOUS
<1>16. Outcome(WalkFrom(tree, no, Going(dir, one, nil)), dir, e, Root, nil)
  BY <1>0, <1>2, <1>9, <1>13, <1>14, <1>15, WalkRefused
<1>17. e \in {"ENOENT", "absent"}
  BY <1>8, <1>11, <1>16 DEF Outcome, Missing
<1> QED
  BY <1>14, <1>15, <1>17 DEF Misses, Refusal

LEMMA CreatesOrExists == \A f \in Finals : f.must_not_exist => ~f.must_exist
<1>1. ASSUME NEW op \in Syscall, NEW f, f = final_of[op], f.must_not_exist
      PROVE  ~f.must_exist
  <2>1. FinalFacts(op, f)
    BY <1>1, FinalFields
  <2>2. op \in {"mkdir", "mknod", "symlink", "open_excl"}
    BY <1>1, <2>1 DEF FinalFacts
  <2> QED
    BY <2>1, <2>2 DEF FinalFacts, Creates
<1> QED
  BY <1>1, InterpreterFields DEF Finals

(* What is said of something that is not there.                            *)
LEMMA AbsentTells ==
    ASSUME NEW e, final_component \in Finals
    PROVE  LET r == absent_explanation(e) IN
           /\ r \in {"none", "no_such_directory_entry", "no_new_entry_permission"}
           /\ r # "none" => e = "ENOENT"
           /\ r = "no_such_directory_entry" => pp # <<>> \/ final_component.must_exist
           /\ r = "no_new_entry_permission"
              => pp = <<>> /\ ~final_component.must_exist /\ ~lookup_directory_writable
<1>1. final_component.must_not_exist => ~final_component.must_exist
  BY CreatesOrExists
<1>2. PICK r : r = absent_explanation(e)
  OBVIOUS
<1>3. r \in {"none", "no_such_directory_entry", "no_new_entry_permission"}
  BY <1>2 DEF absent_explanation
<1>4. r # "none" => e = "ENOENT"
  BY <1>2 DEF absent_explanation
<1>5. r = "no_such_directory_entry" => pp # <<>> \/ final_component.must_exist
  BY <1>2 DEF absent_explanation, final
<1>6. r = "no_new_entry_permission"
      => pp = <<>> /\ ~final_component.must_exist /\ ~lookup_directory_writable
  BY <1>1, <1>2 DEF absent_explanation, final
<1> QED
  BY <1>2, <1>3, <1>4, <1>5, <1>6

LEMMA VerdictIntermediateFails ==
    ASSUME TInv, QInv, EInv, calm, NoOverride, IntermediateFails, result' = 0
    PROVE  Accounts(why)'
<1> USE DEF world, failure, args, walk, inter, memory, verdict
<1>0. fs \in FileSystems /\ pp \in Seq(Name) /\ component \in Seq(Name)
      /\ Len(component) <= 1 /\ final_component \in Finals
  BY DEF TInv
<1>1. PICK r : r = absent_explanation(Lstat(fs, intermediate_path).errno)
  OBVIOUS
<1>2. /\ pc = "intermediate" /\ Untouched /\ why' = r /\ r # "none"
      /\ Lstat(fs, intermediate_path).errno # "OK"
  BY <1>1 DEF IntermediateFails, Return, Untouched
<1>3. /\ r \in {"no_such_directory_entry", "no_new_entry_permission"}
      /\ Lstat(fs, intermediate_path).errno = "ENOENT"
      /\ r = "no_such_directory_entry" => pp # <<>> \/ final_component.must_exist
      /\ r = "no_new_entry_permission"
         => pp = <<>> /\ ~final_component.must_exist /\ ~lookup_directory_writable
  BY <1>0, <1>1, <1>2, AbsentTells
<1>4. /\ intermediate_path = path_join(lookup_directory, component)
      /\ \E dir, links : AheadOf(lookup_directory, dir, Cat(component, pp), links,
                                 number_of_symlinks_followed)
  BY <1>2 DEF QInv
<1>5. PICK dir, links : AheadOf(lookup_directory, dir, Cat(component, pp), links,
                                number_of_symlinks_followed)
  BY <1>4
<1>6. PICK tree, follow, whole, path, one, tail, rest, count, joined :
           /\ tree = fs /\ follow = Followed /\ whole = Asked
           /\ path = lookup_directory /\ one = component /\ tail = pp
           /\ rest = Cat(one, tail) /\ count = number_of_symlinks_followed
           /\ joined = intermediate_path
  OBVIOUS
<1>7. /\ tree \in FileSystems /\ one \in Seq(Name) /\ tail \in Seq(Name)
      /\ dir \in DOMAIN tree /\ links \in Seq(DOMAIN tree)
      /\ Leads(tree, path, dir) /\ ObjectIn(tree, path) = dir
      /\ Same(WalkFrom(tree, follow, Going(dir, rest, links)), whole)
  BY <1>0, <1>5, <1>6 DEF AheadOf, Ahead, Leads
<1>8. joined = path_join(path, one) /\ Lstat(tree, joined).errno = "ENOENT"
  BY <1>3, <1>4, <1>6
<1>9. one # <<>>
  <2>1. ASSUME one = <<>> PROVE FALSE
    <3>1. joined = path
      BY <1>8, <2>1, JoinedNothing
    <3> QED
      BY <1>7, <1>8, <3>1, LeadsAnswers
  <2> QED
    BY <2>1
<1>10. PICK c \in Name : IsOne(one, c)
  <2>1. one \in Seq(Name) /\ Len(one) <= 1 /\ one # <<>>
    BY <1>0, <1>6, <1>9
  <2> QED
    BY <2>1, OneName
<1>11. Misses(tree, dir, c)
  BY <1>7, <1>8, <1>10, MissedBelow
<1>12. rest \in Seq(Name) /\ Parts(rest, c, tail)
  <2>1. rest = <<c>> \o tail
    BY <1>6, <1>10 DEF IsOne, Cat
  <2> QED
    BY <1>7, <2>1, HeadAndTail DEF Parts
<1>13. PICK e : e = Refusal(tree, dir, c, tail = <<>>)
  OBVIOUS
<1>14. e = IF tail = <<>> THEN "absent" ELSE "ENOENT"
  BY <1>11, <1>13 DEF Misses, Refusal
<1>15. Outcome(WalkFrom(tree, follow, Going(dir, rest, links)), dir, e, Root, links)
  <2>1. ~Enters(tree, dir, c)
    BY <1>11 DEF Misses
  <2> QED
    BY <1>7, <1>12, <1>13, <2>1, WalkRefused
<1>16. whole.err = e /\ whole.dir = ObjectIn(tree, path)
  BY <1>7, <1>15 DEF Outcome, Same
<1>17. FailedThere(IF pp = <<>> THEN "absent" ELSE "ENOENT")
  BY <1>6, <1>14, <1>16 DEF FailedThere
<1>18. CASE r = "no_such_directory_entry"
  <2>1. \/ FailedThere("ENOENT")
        \/ FailedThere("absent") /\ final_component.must_exist
    BY <1>3, <1>17, <1>18
  <2>2. Accounts(r)
    BY <1>18, <2>1 DEF Accounts, OfTheObject, OfPermission
  <2> QED
    BY <1>2, <2>2, VerdictKept
<1>19. CASE r = "no_new_entry_permission"
  <2>1. FailedThere("absent") /\ ~final_component.must_exist
    BY <1>3, <1>17, <1>19
  <2>2. lookup_directory_st = StatOf(fs[dir])
    BY <1>2, <1>6, <1>7 DEF EInv, calm
  <2>3. ~have_write_permission(StatOf(fs[dir]))
    BY <1>3, <1>19, <2>2 DEF lookup_directory_writable
  <2>4. ~Granted(fs[Asked.dir], "w")
    BY <1>6, <1>7, <1>16, <2>3, NotPermitted
  <2>5. Accounts(r)
    BY <1>19, <2>1, <2>4 DEF Accounts, OfTheObject, OfPermission
  <2> QED
    BY <1>2, <2>5, VerdictKept
<1> QED
  BY <1>3, <1>18, <1>19

(* The last component is found where the walk of the question finds it.    *)
LEMMA FoundHere ==
    ASSUME TInv, QInv, calm, pc = "intermediate", pp = <<>>,
           Lstat(fs, intermediate_path).errno = "OK",
           ~(Lstat(fs, intermediate_path).st.type = "lnk"
             /\ final_component.follow_symlink)
    PROVE  /\ FoundThere /\ Asked.obj \in DOMAIN fs
           /\ Lstat(fs, intermediate_path).st = StatOf(fs[Asked.obj])
<1>0. fs \in FileSystems /\ component \in Seq(Name) /\ Len(component) <= 1
  BY DEF TInv
<1>1. /\ intermediate_path = path_join(lookup_directory, component)
      /\ \E dir, links :
            /\ AheadOf(lookup_directory, dir, Cat(component, pp), links,
                       number_of_symlinks_followed)
            /\ fs[dir].type = "dir" /\ Granted(fs[dir], "x")
  BY DEF QInv
<1>2. PICK dir, links :
            /\ AheadOf(lookup_directory, dir, Cat(component, pp), links,
                       number_of_symlinks_followed)
            /\ fs[dir].type = "dir" /\ Granted(fs[dir], "x")
  BY <1>1
<1>3. PICK tree, follow, whole, path, one, tail, rest, count, joined :
           /\ tree = fs /\ follow = Followed /\ whole = Asked
           /\ path = lookup_directory /\ one = component /\ tail = pp
           /\ rest = Cat(one, tail) /\ count = number_of_symlinks_followed
           /\ joined = intermediate_path
  OBVIOUS
<1>4. Ahead(tree, follow, whole, path, dir, rest, links, count)
  BY <1>2, <1>3 DEF AheadOf
<1>5. /\ tree \in FileSystems /\ one \in Seq(Name)
      /\ dir \in DOMAIN tree /\ links \in Seq(DOMAIN tree)
      /\ tree[dir].type = "dir" /\ Granted(tree[dir], "x")
      /\ Leads(tree, path, dir) /\ ObjectIn(tree, path) = dir
      /\ Same(WalkFrom(tree, follow, Going(dir, rest, links)), whole)
  BY <1>0, <1>2, <1>3, <1>4 DEF Ahead, Leads
<1>6. tail = <<>> /\ joined = path_join(path, one) /\ Lstat(tree, joined).errno = "OK"
  BY <1>1, <1>3
<1>7. rest = one
  <2>1. Cat(one, <<>>) = one
    BY <1>5, CatEmpty
  <2> QED
    BY <1>3, <1>6, <2>1
<1>8. whole.err = "found" /\ whole.obj = ObjectIn(tree, joined)
  <2>1. CASE one = <<>>
    <3>1. joined = path
      BY <1>6, <2>1, JoinedNothing
    <3>2. PICK none \in Seq(Name) : none = <<>>
      BY EmptySeq
    <3>3. WalkStep(tree, follow, Going(dir, none, links))
            = Reached(Going(dir, none, links), dir)
      BY <3>2, StepHere
    <3>4. Outcome(WalkFrom(tree, follow, Going(dir, none, links)), dir, "found", dir, links)
      BY <1>5, <3>3, WalkReaches
    <3>5. rest = none
      BY <1>7, <2>1, <3>2
    <3> QED
      BY <1>5, <3>1, <3>4, <3>5 DEF Outcome, Same
  <2>2. CASE one = <<".">>
    <3>1. joined = path
      BY <1>6, <2>2, JoinedDot
    <3>2. PICK dot : dot = <<".">>
      OBVIOUS
    <3>3. Outcome(WalkFrom(tree, follow, Going(dir, dot, links)), dir, "found", dir, links)
      BY <1>5, <3>2, DotFound
    <3>4. rest = dot
      BY <1>7, <2>2, <3>2
    <3> QED
      BY <1>5, <3>1, <3>3, <3>4 DEF Outcome, Same
  <2>3. CASE one # <<>> /\ one # <<".">>
    <3>1. PICK c \in Name : IsOne(one, c)
      <4>1. one \in Seq(Name) /\ Len(one) <= 1 /\ one # <<>>
        BY <1>0, <1>3, <2>3
      <4> QED
        BY <4>1, OneName
    <3>2. c # "."
      BY <2>3, <3>1 DEF IsOne
    <3>3. PICK w : WalkFrom(tree, FALSE, Walker(joined)) = w
      OBVIOUS
    <3>4. w.err = "found" /\ w.obj = ObjectIn(tree, joined)
      BY <1>5, <1>6, <3>3, LstatFinds DEF ObjectIn
    <3>5. Enters(tree, dir, c) /\ w.obj = Child(tree, dir, c)
      BY <1>5, <1>6, <3>1, <3>2, <3>3, <3>4, FoundBelow
    <3>6. Meets(tree, dir, c, joined)
      BY <3>2, <3>4, <3>5 DEF Meets
    <3>7. ~IsLink(tree, ObjectIn(tree, joined)) \/ ~follow
      <4>1. Lstat(tree, joined).st.type = tree[ObjectIn(tree, joined)].type
        BY <1>5, <1>6, LstatObject
      <4>2. ASSUME follow PROVE final_component.follow_symlink
        BY <1>3, <4>2 DEF Followed
      <4> QED
        BY <1>3, <4>1, <4>2 DEF IsLink
    <3>8. Arrives(whole, tree, joined)
      BY <1>3, <1>4, <1>5, <1>6, <3>1, <3>6, <3>7, ArrivesBelow
    <3> QED
      BY <3>8 DEF Arrives
  <2> QED
    BY <2>1, <2>2, <2>3
<1>9. ObjectIn(tree, joined) \in DOMAIN tree
      /\ Lstat(tree, joined).st = StatOf(tree[ObjectIn(tree, joined)])
  BY <1>5, <1>6, LstatObject
<1> QED
  BY <1>3, <1>8, <1>9 DEF FoundThere

(* Something that is neither a directory nor a link ends the walk, when    *)
(* there is more of it.                                                    *)
LEMMA EndsAtNoDirectory ==
    ASSUME TInv, QInv, calm, pc = "intermediate", pp # <<>>,
           Lstat(fs, intermediate_path).errno = "OK",
           Lstat(fs, intermediate_path).st.type \notin {"dir", "lnk"}
    PROVE  Asked.err = "ENOTDIR" /\ Asked.dir = ObjectIn(fs, intermediate_path)
<1>0. fs \in FileSystems /\ component \in Seq(Name) /\ Len(component) <= 1
      /\ pp \in Seq(Name)
  BY DEF TInv
<1>1. /\ intermediate_path = path_join(lookup_directory, component)
      /\ component # <<>>
      /\ \E dir, links :
            AheadOf(lookup_directory, dir, Cat(component, pp), links,
                    number_of_symlinks_followed)
  BY DEF QInv
<1>2. PICK dir, links :
            AheadOf(lookup_directory, dir, Cat(component, pp), links,
                    number_of_symlinks_followed)
  BY <1>1
<1>3. PICK tree, follow, whole, path, one, tail, rest, count, joined :
           /\ tree = fs /\ follow = Followed /\ whole = Asked
           /\ path = lookup_directory /\ one = component /\ tail = pp
           /\ rest = Cat(one, tail) /\ count = number_of_symlinks_followed
           /\ joined = intermediate_path
  OBVIOUS
<1>4. /\ tree \in FileSystems /\ one \in Seq(Name) /\ tail \in Seq(Name) /\ tail # <<>>
      /\ dir \in DOMAIN tree /\ links \in Seq(DOMAIN tree)
      /\ Leads(tree, path, dir)
      /\ Same(WalkFrom(tree, follow, Going(dir, rest, links)), whole)
  BY <1>0, <1>2, <1>3 DEF AheadOf, Ahead
<1>5. joined = path_join(path, one) /\ Lstat(tree, joined).errno = "OK"
      /\ Lstat(tree, joined).st.type # "dir" /\ Lstat(tree, joined).st.type # "lnk"
  BY <1>1, <1>3
<1>6. PICK c \in Name : IsOne(one, c)
  <2>1. one \in Seq(Name) /\ Len(one) <= 1 /\ one # <<>>
    BY <1>0, <1>1, <1>3
  <2> QED
    BY <2>1, OneName
<1>7. Meets(tree, dir, c, joined)
  BY <1>4, <1>5, <1>6, MeetsSomething
<1>8. PICK child : child = ObjectIn(tree, joined)
  OBVIOUS
<1>9. Enters(tree, dir, c) /\ child = Child(tree, dir, c) /\ child \in DOMAIN tree
      /\ tree[child].type # "dir" /\ ~IsLink(tree, child)
  <2>1. child \in DOMAIN tree /\ Lstat(tree, joined).st.type = tree[child].type
    BY <1>4, <1>5, <1>8, LstatObject
  <2> QED
    BY <1>5, <1>7, <1>8, <2>1 DEF Meets, IsLink
<1>10. rest \in Seq(Name) /\ Parts(rest, c, tail)
  <2>1. rest = <<c>> \o tail
    BY <1>3, <1>6 DEF IsOne, Cat
  <2> QED
    BY <1>4, <2>1, HeadAndTail DEF Parts
<1>11. WalkFrom(tree, follow, Going(dir, rest, links))
         = WalkFrom(tree, follow, Going(child, tail, links))
  BY <1>4, <1>9, <1>10, WalkDown
<1>12. PICK d \in Name, t \in Seq(Name) : Parts(tail, d, t) /\ tail = <<d>> \o t
  BY <1>4, TakenApart
<1>13. PICK e : e = Refusal(tree, child, d, t = <<>>)
  OBVIOUS
<1>14. ~Enters(tree, child, d) /\ e = "ENOTDIR"
  BY <1>9, <1>13 DEF Enters, Refusal
<1>15. Outcome(WalkFrom(tree, follow, Going(child, tail, links)), child, e, Root, links)
  BY <1>4, <1>9, <1>12, <1>13, <1>14, WalkRefused
<1>16. whole.err = "ENOTDIR" /\ whole.dir = child
  BY <1>4, <1>11, <1>14, <1>15 DEF Outcome, Same
<1> QED
  BY <1>3, <1>8, <1>16

(* What passes the checks of a program can be executed.                    *)
LEMMA CanBeExecuted ==
    ASSUME NEW node, NoOverride, may_not_execute(StatOf(node)) = "none"
    PROVE  ExecErrno(node) = "OK"
<1>1. PICK st : st = StatOf(node)
  OBVIOUS
<1>2. st.type = node.type /\ st.uid = node.uid /\ st.gid = node.gid
      /\ st.mode = node.mode /\ st.flags = node.flags
  BY <1>1 DEF StatOf
<1>3. have_execute_permission(st) /\ "noexec" \notin st.flags
  BY <1>1 DEF may_not_execute, capable, explain_capability, NoOverride
<1>4. st.type = "reg" /\ explain_have_permission(st, Process, "x")
  BY <1>3 DEF have_execute_permission, explain_have_execute_permission,
     explain_capability, NoOverride
<1>5. Granted(node, "x")
  BY <1>2, <1>4 DEF explain_have_permission, class_of, explain_group_in_groups,
     Granted, KernelMay
<1> QED
  BY <1>2, <1>3, <1>4, <1>5 DEF ExecErrno

LEMMA VerdictIntermediateExists ==
    ASSUME TInv, QInv, calm, NoOverride, IntermediateExists
    PROVE  /\ pc' = "return" /\ result' = 0 => Accounts(why)'
           /\ pc' = "interpreter"
              => (FoundThere /\ ExecErrno(fs[Asked.obj]) = "OK")'
<1> USE DEF world, failure, args, walk, inter, memory, verdict
<1>1. PICK st, found : st = Lstat(fs, intermediate_path).st
                       /\ found = existing_explanation(st)
  OBVIOUS
<1>2. /\ pc = "intermediate" /\ Lstat(fs, intermediate_path).errno = "OK"
      /\ ~is_link_to_follow(st) /\ Existing(st)
      /\ UNCHANGED <<fs, changed, request, expected_errno, final_component,
                     initial_pathname, intermediate_path>>
  BY <1>1 DEF IntermediateExists
<1>3. CASE pp # <<>>
  <2>1. PICK r : r = "not_a_subdirectory"
    OBVIOUS
  <2>2. pc' # "interpreter"
        /\ (pc' = "return" => st.type # "dir" /\ why' = r /\ UNCHANGED lookup_directory)
    BY <1>2, <1>3, <2>1 DEF Existing, BareReturn, GoTo, final
  <2>3. ASSUME pc' = "return" PROVE Accounts(why)'
    <3>1. st.type \notin {"dir", "lnk"}
      BY <1>2, <1>3, <2>2, <2>3 DEF is_link_to_follow, final
    <3>2. Asked.err = "ENOTDIR" /\ Asked.dir = ObjectIn(fs, intermediate_path)
      BY <1>1, <1>2, <1>3, <3>1, EndsAtNoDirectory
    <3>3. Accounts(r)
      BY <2>1, <3>2 DEF Accounts, OfTheObject, OfPermission
    <3>4. Untouched /\ why' = r
      BY <1>2, <2>2, <2>3 DEF Untouched
    <3> QED
      BY <3>3, <3>4, VerdictKept
  <2> QED
    BY <2>2, <2>3
<1>4. CASE pp = <<>>
  <2>1. FoundThere /\ st = StatOf(fs[Asked.obj])
    <3>1. ~(st.type = "lnk" /\ final_component.follow_symlink)
      BY <1>2, <1>4 DEF is_link_to_follow, final
    <3> QED
      BY <1>1, <1>2, <1>4, <3>1, FoundHere
  <2>2. Untouched
    <3>1. UNCHANGED lookup_directory
      BY <1>2, <1>4 DEF Existing, final
    <3> QED
      BY <1>2, <3>1 DEF Untouched
  <2>3. /\ pc' = "interpreter" => found = "interpreter"
        /\ pc' = "return" /\ result' = 0
           => why' = found /\ found # "none" /\ found # "interpreter"
    BY <1>1, <1>2, <1>4 DEF Existing, Return, GoTo, final
  <2>4. Tells(st, found)
    BY <1>1, ExistingTells
  <2>5. ASSUME pc' = "return", result' = 0 PROVE Accounts(why)'
    <3>1. why' = found /\ found # "none" /\ found # "interpreter"
      BY <2>3, <2>5
    <3>2. found \in OfTheObject
      BY <2>4, <3>1 DEF Tells, OfTheObject
    <3>3. Accounts(found)
      BY <2>1, <2>4, <3>2 DEF Accounts, OfTheObject, OfPermission
    <3> QED
      BY <2>2, <3>1, <3>3, VerdictKept
  <2>6. ASSUME pc' = "interpreter"
        PROVE  (FoundThere /\ ExecErrno(fs[Asked.obj]) = "OK")'
    <3>1. may_not_execute(st) = "none"
      BY <2>3, <2>4, <2>6 DEF Tells
    <3>2. ExecErrno(fs[Asked.obj]) = "OK"
      BY <2>1, <3>1, CanBeExecuted
    <3>3. FoundThere' /\ Asked' = Asked /\ fs' = fs
      BY <2>1, <2>2, StillThere DEF Untouched
    <3> QED
      BY <3>2, <3>3
  <2> QED
    BY <2>5, <2>6
<1> QED
  BY <1>3, <1>4

(* A link that is followed twice is in the list of links twice.            *)
LEMMA FollowedTwice ==
    ASSUME NEW S, NEW links, NEW link, NEW links2, NEW all, NEW i,
           links \in Seq(S), link \in S, links2 = More(links, link), all \in Seq(S),
           Extends(all, links2), i \in 1 .. Len(links), links[i] = link
    PROVE  ~IsInjective(all)
<1>1. PICK n \in Nat : n = Len(links)
  BY LenProperties
<1>2. links2 \in Seq(S) /\ Len(links2) = n + 1 /\ links2[n + 1] = link
      /\ \A j \in 1 .. n : links2[j] = links[j]
  BY <1>1, AppendProperties DEF More
<1>3. n + 1 <= Len(all) /\ all[i] = link /\ all[n + 1] = link
  <2>1. \A j \in 1 .. n + 1 : all[j] = links2[j]
    BY <1>2 DEF Extends
  <2>2. n + 1 <= Len(all)
    BY <1>2 DEF Extends
  <2>3. i \in 1 .. n + 1 /\ i \in 1 .. n /\ n + 1 \in 1 .. n + 1
    BY <1>1
  <2> QED
    BY <1>2, <2>1, <2>2, <2>3
<1>4. i \in DOMAIN all /\ n + 1 \in DOMAIN all /\ i # n + 1
  <2>1. Len(all) \in Nat /\ DOMAIN all = 1 .. Len(all)
    BY LenProperties
  <2> QED
    BY <1>1, <1>3, <2>1
<1> QED
  BY <1>3, <1>4 DEF IsInjective

LEMMA VerdictSymbolicLink ==
    ASSUME TInv, QInv, calm, SymbolicLink, pc' = "return"
    PROVE  Accounts(why)'
<1> USE DEF world, failure, args, walk, inter, memory, verdict
<1>0. fs \in FileSystems /\ pp \in Seq(Name) /\ component \in Seq(Name)
      /\ Len(component) <= 1 /\ intermediate_path \in Path
      /\ symlinks_so_far \in Seq(Path) \cup {NULL}
  BY DEF TInv
<1>1. PICK r : r = "symlink_loop"
  OBVIOUS
<1>2. /\ pc = "intermediate" /\ Untouched /\ why' = r /\ seen_before
      /\ pp # <<>> \/ final_component.follow_symlink
      /\ Lstat(fs, intermediate_path).errno = "OK"
      /\ Lstat(fs, intermediate_path).st.type = "lnk"
  BY <1>1 DEF SymbolicLink, Return, GoTo, is_link_to_follow, final, Untouched
<1>3. pp # <<>> \/ Followed
  BY <1>2, LastLinkFollowed
<1>4. /\ intermediate_path = path_join(lookup_directory, component)
      /\ \E dir, links : AheadOf(lookup_directory, dir, Cat(component, pp), links,
                                 number_of_symlinks_followed)
  BY <1>2 DEF QInv
<1>5. PICK dir, links : AheadOf(lookup_directory, dir, Cat(component, pp), links,
                                number_of_symlinks_followed)
  BY <1>4
<1>6. PICK tree, follow, whole, path, one, tail, rest, count, joined :
           /\ tree = fs /\ follow = Followed /\ whole = Asked
           /\ path = lookup_directory /\ one = component /\ tail = pp
           /\ rest = Cat(one, tail) /\ count = number_of_symlinks_followed
           /\ joined = intermediate_path
  OBVIOUS
<1>7. /\ tree \in FileSystems /\ one \in Seq(Name) /\ tail \in Seq(Name)
      /\ dir \in DOMAIN tree /\ links \in Seq(DOMAIN tree)
      /\ Leads(tree, path, dir)
      /\ Same(WalkFrom(tree, follow, Going(dir, rest, links)), whole)
  BY <1>0, <1>5, <1>6 DEF AheadOf, Ahead
<1>8. joined = path_join(path, one) /\ Lstat(tree, joined).errno = "OK"
      /\ Lstat(tree, joined).st.type = "lnk" /\ (tail # <<>> \/ follow)
  BY <1>2, <1>3, <1>4, <1>6
<1>9. one # <<>>
  <2>1. ASSUME one = <<>> PROVE FALSE
    <3>1. joined = path
      BY <1>8, <2>1, JoinedNothing
    <3> QED
      BY <1>7, <1>8, <3>1, LeadsAnswers
  <2> QED
    BY <2>1
<1>10. PICK c \in Name : IsOne(one, c)
  <2>1. one \in Seq(Name) /\ Len(one) <= 1 /\ one # <<>>
    BY <1>0, <1>6, <1>9
  <2> QED
    BY <2>1, OneName
<1>11. Meets(tree, dir, c, joined)
  <2>1. Lstat(tree, joined).st.type # "dir"
    BY <1>8
  <2> QED
    BY <1>7, <1>8, <1>10, <2>1, MeetsSomething
<1>12. PICK link : link = ObjectIn(tree, joined)
  OBVIOUS
<1>13. link \in DOMAIN tree /\ IsLink(tree, link) /\ Enters(tree, dir, c)
       /\ link = Child(tree, dir, c)
  <2>1. link \in DOMAIN tree /\ Lstat(tree, joined).st.type = tree[link].type
    BY <1>7, <1>8, <1>12, LstatObject
  <2> QED
    BY <1>8, <1>11, <1>12, <2>1 DEF Meets, IsLink
<1>14. PICK body \in Path : body = Body(tree, link)
  BY <1>7, <1>13, TreeFacts
<1>15. body.slash = FALSE
  <2>1. tree[link].target # DotPath => ~TrailsOff(tree[link].target)
    BY <1>6, <1>13 DEF calm, Excluded, SomethingTrailsOff
  <2>2. body = DotPath \/ ~TrailsOff(body)
    BY <1>14, <2>1 DEF Body
  <2> QED
    BY <1>14, <2>2, EmptyFacts DEF TrailsOff, Path
<1>16. Onward(follow, body, tail)
  BY <1>8, <1>15 DEF Onward
<1>17. rest \in Seq(Name) /\ Parts(rest, c, tail)
  <2>1. rest = <<c>> \o tail
    BY <1>6, <1>10 DEF IsOne, Cat
  <2> QED
    BY <1>7, <2>1, HeadAndTail DEF Parts
<1>18. PICK base \in DOMAIN tree : base = Base(body, dir)
  BY <1>7, StartType
<1>19. PICK rest2 \in Seq(Name) : rest2 = Rest(body, tail)
  BY <1>7, <1>14, RestType
<1>20. PICK links2 \in Seq(DOMAIN tree) : links2 = More(links, link)
  BY <1>7, <1>13, AppendProperties DEF More
<1>21. whole.err = "ELOOP" \/ ~IsInjective(whole.links)
  <2>1. CASE Full(links)
    <3>1. Outcome(WalkFrom(tree, follow, Going(dir, rest, links)), dir, "ELOOP",
                  Root, links)
      BY <1>7, <1>13, <1>14, <1>16, <1>17, <2>1, WalkLoops
    <3> QED
      BY <1>7, <3>1 DEF Outcome, Same
  <2>2. CASE ~Full(links)
    <3>1. WalkFrom(tree, follow, Going(dir, rest, links))
            = WalkFrom(tree, follow, Going(base, rest2, links2))
      BY <1>7, <1>13, <1>14, <1>16, <1>17, <1>18, <1>19, <1>20, <2>2, WalkSplices
    <3>2. PICK w \in Walkers(tree) : w = Going(base, rest2, links2)
      BY <1>7, GoingType
    <3>3. w.links = links2
      BY <3>2 DEF Going
    <3>4. PICK all \in Seq(DOMAIN tree) : all = whole.links /\ Extends(all, links2)
      <4>1. /\ WalkFrom(tree, follow, w) \in Walkers(tree)
            /\ Extends(WalkFrom(tree, follow, w).links, w.links)
        BY <1>7, WalkEnds
      <4>2. WalkFrom(tree, follow, w).links = whole.links
        BY <1>7, <3>1, <3>2 DEF Same
      <4> QED
        BY <3>3, <4>1, <4>2 DEF Walkers
    <3>5. PICK i \in 1 .. Len(links) : links[i] = link
      <4>1. PICK paths : paths = symlinks_so_far
        OBVIOUS
      <4>2. paths \in Seq(Path) /\ Contains(paths, joined) /\ Lists(tree, paths, links)
        BY <1>0, <1>2, <1>5, <1>6, <4>1 DEF seen_before, AheadOf, Listed
      <4>3. PICK i \in 1 .. Len(paths) : paths[i] = joined
        BY <4>2 DEF Contains
      <4> QED
        BY <1>12, <4>2, <4>3 DEF Lists
    <3>6. ~IsInjective(all)
      BY <1>7, <1>13, <1>20, <3>4, <3>5, FollowedTwice
    <3> QED
      BY <3>4, <3>6
  <2> QED
    BY <2>1, <2>2
<1>22. Accounts(r)
  BY <1>1, <1>6, <1>21 DEF Accounts, OfTheObject, OfPermission
<1> QED
  BY <1>2, <1>22, VerdictKept

(* What lstat does not find is missing.                                    *)
LEMMA LstatMisses ==
    ASSUME NEW tree, NEW path, NEW no, NEW nil,
           tree \in FileSystems, path \in Path, path.slash = FALSE, path # Empty,
           Lstat(tree, path).errno = "ENOENT", no = FALSE, nil = <<>>
    PROVE  Missing(WalkFrom(tree, no, Going(Start(path), path.names, nil)))
<1>1. PICK u \in Walkers(tree) : u = Walker(path)
  BY WalkerType
<1>2. PICK w \in Walkers(tree) : w = WalkFrom(tree, no, u) /\ w.err # "none"
  BY WalkEnds
<1>3. Missing(w)
  <2>1. w.err \in Ways /\ w.obj \in DOMAIN tree
    BY <1>2 DEF Walkers
  <2>2. w.err # "found" /\ w.err \notin {"EACCES", "ELOOP", "ENAMETOOLONG", "ENOTDIR"}
    BY <1>1, <1>2, <2>1 DEF Lstat, Found
  <2> QED
    BY <1>2, <2>1, <2>2 DEF Missing, Ways
<1>4. u = Going(Start(path), path.names, nil)
  <2>1. ~(Len(path.names) > PATH_MAX)
    <3>1. ASSUME Len(path.names) > PATH_MAX PROVE FALSE
      <4>1. u.err = "ENAMETOOLONG"
        BY <1>1, <3>1 DEF Walker
      <4>2. w = u
        BY <1>2, <4>1, WalkUnfolds
      <4> QED
        BY <1>3, <4>1, <4>2 DEF Missing
    <3> QED
      BY <3>1
  <2> QED
    BY <1>1, <2>1 DEF Walker, Going, Start, Base
<1> QED
  BY <1>2, <1>3, <1>4

(* The path of the target of a link, seen from the lookup directory.       *)
LEMMA AimBelow ==
    ASSUME NEW path, NEW text, NEW s, NEW aim,
           path \in Path, path.slash = FALSE, text \in Path, text.slash = FALSE,
           text.abs = FALSE, s = SkipDots(text.names), s # <<>>, s \in Seq(Name),
           aim = Aim(path, text)
    PROVE  /\ aim \in Path /\ aim.slash = FALSE /\ aim # Empty
           /\ Start(aim) = Start(path) /\ aim.names = Cat(Stem(path), s)
<1>1. PICK p : p = path_join(path, text.names)
  OBVIOUS
<1>2. aim = [p EXCEPT !.slash = FALSE]
  BY <1>1 DEF Aim
<1>3. CASE path = DotPath
  <2>1. p = [abs |-> FALSE, names |-> s, slash |-> FALSE]
    BY <1>1, <1>3 DEF path_join, Rel
  <2>2. aim = [abs |-> FALSE, names |-> s, slash |-> FALSE]
    BY <1>2, <2>1
  <2>3. aim \in Path /\ aim.abs = FALSE /\ aim.names = s /\ aim.slash = FALSE
    BY <2>2 DEF Path
  <2>4. Stem(path) = <<>> /\ path.abs = FALSE
    BY <1>3, EmptyFacts DEF Stem
  <2> QED
    BY <2>3, <2>4, CatEmpty, EmptyFacts DEF Start, Base
<1>4. CASE path # DotPath
  <2>1. p = [abs |-> path.abs, names |-> path.names \o s, slash |-> FALSE]
    BY <1>1, <1>4 DEF path_join
  <2>2. aim = [abs |-> path.abs, names |-> path.names \o s, slash |-> FALSE]
    BY <1>2, <2>1
  <2>3. path.abs \in BOOLEAN /\ path.names \in Seq(Name)
    BY DEF Path
  <2>4. path.names \o s \in Seq(Name) /\ path.names \o s # <<>>
    BY <2>3, CatType, CatNotEmpty DEF Cat
  <2>5. aim \in Path /\ aim.abs = path.abs /\ aim.names = path.names \o s
        /\ aim.slash = FALSE
    BY <2>2, <2>3, <2>4 DEF Path
  <2>6. Stem(path) = path.names
    BY <1>4 DEF Stem
  <2> QED
    BY <2>4, <2>5, <2>6, EmptyFacts DEF Start, Base, Cat
<1> QED
  BY <1>3, <1>4

(* The names of the target of a link, and what is left after it.           *)
LEMMA NamesAfter ==
    ASSUME NEW text, NEW tail, NEW names,
           text \in Path, text # DotPath, tail \in Seq(Name), EndsWell(tail),
           names = path_join(text, tail).names
    PROVE  \E t \in Seq(Name) : names = Cat(text.names, t) /\ (t = <<>> => tail = <<>>)
<1>0. text.names \in Seq(Name)
  BY DEF Path
<1>1. CASE tail = <<>>
  <2>1. names = text.names
    BY <1>1, JoinedNothing
  <2>2. names = Cat(text.names, <<>>)
    BY <1>0, <2>1, CatEmpty
  <2> QED
    BY <1>1, <2>2
<1>2. CASE tail # <<>>
  <2>1. Last(tail) # "."
    BY <1>2 DEF EndsWell
  <2>2. SkipDots(tail) \in Seq(Name) /\ SkipDots(tail) # <<>>
    BY <1>2, <2>1, SkipDotsKeeps
  <2>3. names = text.names \o SkipDots(tail)
    BY <1>2, <2>1, JoinedNames
  <2> QED
    BY <2>2, <2>3 DEF Cat
<1> QED
  BY <1>1, <1>2

(* If the target of a link is missing, so is what the path asks for by it. *)
LEMMA TargetMissing ==
    ASSUME NEW tree, NEW follow, NEW path, NEW text, NEW dir, NEW tail, NEW names,
           NEW links, NEW aim,
           tree \in FileSystems, text \in Path, text # Empty,
           text = DotPath \/ ~TrailsOff(text), tail \in Seq(Name), EndsWell(tail),
           names = path_join(text, tail).names, links \in Seq(DOMAIN tree),
           Leads(tree, AfterLink(text, path), dir), aim = Aim(path, text),
           Lstat(tree, aim).errno = "ENOENT"
    PROVE  GivesUp(WalkFrom(tree, follow, Going(dir, names, links)), tail)
<1>0. text.names \in Seq(Name) /\ text.abs \in BOOLEAN /\ text.slash \in BOOLEAN
      /\ dir \in DOMAIN tree
  BY DEF Path, Leads
<1>1. PICK nil \in Seq(DOMAIN tree) : nil = <<>>
  BY EmptySeq
<1>11. PICK no : no = FALSE
  OBVIOUS
<1>2. ASSUME text # DotPath,
             Missing(WalkFrom(tree, no, Going(dir, text.names, nil)))
      PROVE  GivesUp(WalkFrom(tree, follow, Going(dir, names, links)), tail)
  <2>1. PICK t \in Seq(Name) : names = Cat(text.names, t) /\ (t = <<>> => tail = <<>>)
    BY <1>2, NamesAfter
  <2>2. GivesUp(WalkFrom(tree, follow, Going(dir, Cat(text.names, t), links)), t)
    BY <1>0, <1>1, <1>11, <1>2, StaysMissing
  <2> QED
    BY <2>1, <2>2 DEF GivesUp
<1>3. CASE text.abs = TRUE
  <2>1. text # DotPath /\ text.slash = FALSE
    BY <1>0, <1>3, EmptyFacts DEF TrailsOff
  <2>2. aim = text /\ AfterLink(text, path) = RootPath /\ Start(text) = Root
    BY <1>3 DEF Aim, AfterLink, Start, Base
  <2>3. dir = Root
    BY <2>2, RootLeads DEF Leads
  <2>4. Missing(WalkFrom(tree, no, Going(Start(text), text.names, nil)))
    BY <1>1, <1>11, <2>1, <2>2, LstatMisses
  <2> QED
    BY <1>2, <2>1, <2>2, <2>3, <2>4
<1>4. CASE text.abs = FALSE
  <2>1. Leads(tree, path, dir)
    BY <1>4 DEF AfterLink
  <2>2. SkipDots(text.names) # <<>>
    <3>1. ASSUME SkipDots(text.names) = <<>> PROVE FALSE
      <4>1. aim = path
        BY <1>4, <3>1 DEF Aim
      <4> QED
        BY <2>1, <4>1, LeadsAnswers
    <3> QED
      BY <3>1
  <2>3. text.names # <<>> /\ text # DotPath
    <3>1. SkipDots(<<".">>) = <<>>
      <4>1. <<".">> \in Seq(Name)
        BY NamesAssumption
      <4>2. <<".">> # <<>> /\ Head(<<".">>) = "." /\ Tail(<<".">>) = <<>>
        OBVIOUS
      <4> QED
        BY <4>1, <4>2, DotSkipped, SkipEmpty
    <3> QED
      BY <2>2, <3>1, SkipEmpty, EmptyFacts
  <2>4. text.slash = FALSE /\ Last(text.names) # "."
    BY <1>0, <2>3 DEF TrailsOff
  <2>5. PICK s \in Seq(Name) : s = SkipDots(text.names) /\ s # <<>>
    BY <1>0, <2>2, SkipDotsType
  <2>6. path \in Path /\ path.slash = FALSE /\ Through(tree, path, dir)
    BY <2>1 DEF Leads
  <2>7. /\ aim \in Path /\ aim.slash = FALSE /\ aim # Empty
        /\ Start(aim) = Start(path) /\ aim.names = Cat(Stem(path), s)
    BY <1>4, <2>4, <2>5, <2>6, AimBelow
  <2>8. Missing(WalkFrom(tree, no, Going(Start(aim), aim.names, nil)))
    BY <1>1, <1>11, <2>7, LstatMisses
  <2>9. Missing(WalkFrom(tree, no, Going(dir, s, nil)))
    <3>1. WalkFrom(tree, FALSE, Going(Start(path), Cat(Stem(path), s), <<>>))
            = WalkFrom(tree, FALSE, Going(dir, s, <<>>))
      BY <2>5, <2>6 DEF Through
    <3> QED
      BY <1>1, <1>11, <2>7, <2>8, <3>1
  <2>10. PICK none \in Seq(Name) : none = <<>>
    BY EmptySeq
  <2>11. Same(WalkFrom(tree, no, Going(dir, none \o text.names, nil)),
              WalkFrom(tree, no, Going(dir, none \o SkipDots(text.names), nil)))
    BY <1>0, <1>1, <1>11, <2>3, <2>4, <2>10, DotsSkipped
  <2>12. none \o text.names = text.names /\ none \o SkipDots(text.names) = s
    BY <1>0, <2>5, <2>10
  <2>13. Missing(WalkFrom(tree, no, Going(dir, text.names, nil)))
    BY <2>9, <2>11, <2>12 DEF Same, Missing
  <2> QED
    BY <1>2, <2>3, <2>13
<1> QED
  BY <1>0, <1>3, <1>4

LEMMA VerdictDanglingLink ==
    ASSUME TInv, QInv, EInv, calm, DanglingLink
    PROVE  Accounts(why)'
<1> USE DEF world, failure, args, walk, inter, memory, verdict
<1>0. fs \in FileSystems
  BY DEF TInv
<1>1. PICK r : r = "dangling_symbolic_link"
  OBVIOUS
<1>2. /\ pc = "target" /\ Untouched /\ why' = r
      /\ Lstat(fs, intermediate_path).errno = "ENOENT"
  BY <1>1 DEF DanglingLink, Return, Untouched
<1>3. Aimed(rlb, pp) /\ intermediate_path = Aim(lookup_directory, rlb)
  BY <1>2 DEF EInv
<1>4. \E dir, links : AheadOf(lookup_after_link, dir, pp, links,
                              number_of_symlinks_followed + 1)
  BY <1>2 DEF QInv
<1>5. PICK dir, links : AheadOf(lookup_after_link, dir, pp, links,
                                number_of_symlinks_followed + 1)
  BY <1>4
<1>6. PICK tree, follow, whole, path, text, names, count, aim :
           /\ tree = fs /\ follow = Followed /\ whole = Asked
           /\ path = lookup_directory /\ text = rlb /\ names = pp
           /\ count = number_of_symlinks_followed + 1 /\ aim = intermediate_path
  OBVIOUS
<1>7. /\ text \in Path /\ text # Empty /\ (text = DotPath \/ ~TrailsOff(text))
      /\ \E tail \in Seq(Name) : /\ EndsWell(tail) /\ (tail # <<>> \/ follow)
                                 /\ names = path_join(text, tail).names
  BY <1>3, <1>6 DEF Aimed
<1>8. PICK tail \in Seq(Name) : /\ EndsWell(tail) /\ (tail # <<>> \/ follow)
                                /\ names = path_join(text, tail).names
  BY <1>7
<1>9. /\ tree \in FileSystems /\ links \in Seq(DOMAIN tree)
      /\ Leads(tree, AfterLink(text, path), dir) /\ aim = Aim(path, text)
      /\ Lstat(tree, aim).errno = "ENOENT"
      /\ Same(WalkFrom(tree, follow, Going(dir, names, links)), whole)
  BY <1>0, <1>2, <1>3, <1>5, <1>6 DEF AheadOf, Ahead, lookup_after_link, AfterLink
<1>10. GivesUp(WalkFrom(tree, follow, Going(dir, names, links)), tail)
  BY <1>7, <1>8, <1>9, TargetMissing
<1>11. GivesUp(whole, tail)
  BY <1>9, <1>10 DEF GivesUp, Same
<1>12. Full(whole.links) => Len(whole.links) >= SYMLOOP_MAX
  <2>1. PICK w \in Walkers(tree) : w = Going(dir, names, links)
    <3>1. names \in Seq(Name) /\ dir \in DOMAIN tree
      BY <1>6, <1>9 DEF TInv, Leads
    <3> QED
      BY <1>9, <3>1, GoingType
  <2>2. WalkFrom(tree, follow, w) \in Walkers(tree)
    BY <1>9, WalkEnds
  <2>3. whole.links \in Seq(DOMAIN tree)
    BY <1>9, <2>1, <2>2 DEF Walkers, Same
  <2>4. Len(whole.links) \in Nat
    BY <2>3, LenProperties
  <2> QED
    BY <2>4, SymloopAssumption DEF Full
<1>13. Dangles
  BY <1>6, <1>8, <1>11, <1>12 DEF Dangles, GivesUp
<1>14. Accounts(r)
  BY <1>1, <1>13 DEF Accounts, OfTheObject, OfPermission
<1> QED
  BY <1>2, <1>14, VerdictKept

LEMMA VerdictFollowTheLink ==
    ASSUME TInv, QInv, calm, FollowTheLink, pc' = "return"
    PROVE  Accounts(why)'
<1> USE DEF world, failure, args, walk, inter, memory, verdict
<1>0. fs \in FileSystems /\ number_of_symlinks_followed \in Nat /\ pp \in Seq(Name)
  BY DEF TInv
<1>1. /\ pc = "target" /\ why' = "too_many_symlinks"
      /\ number_of_symlinks_followed + 1 >= SYMLOOP_MAX
      /\ UNCHANGED <<fs, changed, request, expected_errno, final_component,
                     initial_pathname>>
  BY DEF FollowTheLink, GoTo, one_more, too_many
<1>2. Asked' = Asked
  BY <1>1, Still
<1>3. \E dir, links : AheadOf(lookup_after_link, dir, pp, links,
                              number_of_symlinks_followed + 1)
  BY <1>1 DEF QInv
<1>4. PICK dir, links : AheadOf(lookup_after_link, dir, pp, links,
                                number_of_symlinks_followed + 1)
  BY <1>3
<1>5. PICK tree, follow, whole, path, names, count :
           /\ tree = fs /\ follow = Followed /\ whole = Asked
           /\ path = lookup_after_link /\ names = pp
           /\ count = number_of_symlinks_followed + 1
  OBVIOUS
<1>6. /\ tree \in FileSystems /\ names \in Seq(Name) /\ dir \in DOMAIN tree
      /\ links \in Seq(DOMAIN tree) /\ Len(links) = count /\ count >= SYMLOOP_MAX
      /\ Same(WalkFrom(tree, follow, Going(dir, names, links)), whole)
  BY <1>0, <1>1, <1>4, <1>5 DEF AheadOf, Ahead
<1>7. PICK w \in Walkers(tree) : w = Going(dir, names, links) /\ w.links = links
  BY <1>6, GoingType DEF Going
<1>8. PICK all \in Seq(DOMAIN tree) : all = whole.links /\ Extends(all, links)
  <2>1. /\ WalkFrom(tree, follow, w) \in Walkers(tree)
        /\ Extends(WalkFrom(tree, follow, w).links, w.links)
    BY <1>6, WalkEnds
  <2>2. WalkFrom(tree, follow, w).links = whole.links
    BY <1>6, <1>7 DEF Same
  <2> QED
    BY <1>7, <2>1, <2>2 DEF Walkers
<1>9. Len(Asked.links) >= SYMLOOP_MAX
  <2>1. Len(all) \in Nat /\ Len(links) <= Len(all)
    BY <1>8, LenProperties DEF Extends
  <2>2. count \in Nat
    BY <1>0, <1>5
  <2> QED
    BY <1>5, <1>6, <1>8, <2>1, <2>2, SymloopAssumption
<1>10. Len(Asked'.links) >= SYMLOOP_MAX /\ why' = "too_many_symlinks"
  BY <1>1, <1>2, <1>9
<1> QED
  BY <1>10 DEF Accounts, OfTheObject, OfPermission

LEMMA VerdictNoInterpreter ==
    ASSUME TInv, EInv, Holding, calm, NoOverride, NoInterpreter, result' = 0
    PROVE  Accounts(why)'
<1> USE DEF world, failure, args, walk, inter, memory, verdict
<1>1. PICK r : r = "too_many_interpreters"
  OBVIOUS
<1>2. /\ pc = "interpreter" /\ Untouched
      /\ ReadScript(fs, intermediate_path) = Empty \/ ~final_component.follow_interpreter
      /\ \/ ReadScript(fs, intermediate_path) # Empty /\ why' = r
         \/ search_check(intermediate_path_st, final_component) # "none"
  BY <1>1 DEF NoInterpreter, Return, Untouched
<1>3. expected_errno = "EACCES" /\ final_component.want_to_execute /\ FoundThere
  BY <1>2 DEF EInv, Holding
<1>4. ~final_component.want_to_search
  BY <1>3, NotToSearch DEF TInv
<1>5. search_check(intermediate_path_st, final_component) = "none"
  BY <1>4 DEF search_check
<1>6. ~final_component.follow_interpreter /\ why' = r
  BY <1>2, <1>5
<1>7. Accounts(r)
  BY <1>1, <1>3, <1>6 DEF Accounts, OfTheObject, OfPermission
<1> QED
  BY <1>2, <1>6, <1>7, VerdictKept

(* Back in the caller, the verdict of the nested call stands.              *)
LEMMA VerdictReturnToCaller ==
    ASSUME TInv, EInv, Holding, calm, NoOverride, ReturnToCaller, result' = 0
    PROVE  Accounts(why)'
<1> USE DEF world, failure, args, walk, inter, memory, verdict
<1>1. /\ pc = "return" /\ caller # NULL /\ Untouched
      /\ why' = IF result = 0 THEN why
                ELSE search_check(caller.st, caller.final_component)
      /\ why' # "none"
  BY DEF ReturnToCaller, Untouched
<1>2. caller.final_component \in Finals /\ caller.final_component.want_to_execute
  BY <1>1 DEF TInv, EInv, Frames
<1>3. search_check(caller.st, caller.final_component) = "none"
  BY <1>2, NotToSearch DEF search_check
<1>4. result = 0 /\ why' = why
  BY <1>1, <1>3
<1>5. PICK r : r = why /\ Accounts(r)
  BY <1>1, <1>4 DEF Holding
<1> QED
  BY <1>1, <1>4, <1>5, VerdictKept

LEMMA HoldingInitial == Init => Holding
  BY DEF Init, Holding

(* The path, and what is asked of its end, stay until the path is that of  *)
(* an interpreter.                                                         *)
LEMMA CalmBefore ==
    ASSUME [Next]_vars, calm', ~CallForInterpreter
    PROVE  /\ calm
           /\ UNCHANGED <<fs, changed, request, expected_errno, final_component,
                          initial_pathname>>
<1> USE DEF world, failure, args, walk, inter, memory, verdict
<1>1. ~Change
  BY DEF Change, calm, quiet
<1>2. UNCHANGED <<fs, changed, request, expected_errno, final_component,
                  initial_pathname>>
  <2>1. CASE UNCHANGED vars
    BY <2>1 DEF vars
  <2>2. CASE Next
    BY <1>1, <2>2 DEF Next, Call, EmptyPathname, PathnameTooLong, Begin,
       LookupDirectoryFails, AssertionFails, LookupDirectoryUnfit, NextComponent,
       IntermediateFails, IntermediateExists, SymbolicLink, ReadlinkFails,
       ReadTheLink, DanglingLink, FollowTheLink, NoInterpreter, ReturnToCaller,
       Done, vars
  <2> QED
    BY <2>1, <2>2
<1> QED
  BY <1>2, Still

(* No link is gone that lstat has just told of.                            *)
LEMMA LinkIsRead ==
    ASSUME TInv, EInv, quiet, pc = "readlink"
    PROVE  Readlink(fs, intermediate_path).errno = "OK"
<1>1. fs \in FileSystems /\ LinkAt(fs, intermediate_path)
  BY DEF TInv, EInv
<1>2. PICK w : WalkFrom(fs, FALSE, Walker(intermediate_path)) = w
  OBVIOUS
<1>3. w.err = "found" /\ w.obj \in DOMAIN fs /\ fs[w.obj].type = "lnk"
  <2>1. w.err = "found" /\ fs[w.obj].type = "lnk"
    BY <1>1, <1>2, LstatAnswer
  <2>2. w.obj \in DOMAIN fs
    BY <1>1, <1>2, LstatFinds DEF LinkAt
  <2> QED
    BY <2>1, <2>2
<1> QED
  BY <1>2, <1>3 DEF Readlink, Found

LEMMA HoldingInductive ==
    TInv /\ QInv /\ EInv /\ Holding /\ [Next]_vars => Holding'
<1> SUFFICES ASSUME TInv, QInv, EInv, Holding, [Next]_vars PROVE Holding'
  OBVIOUS
<1> USE DEF world, failure, args, walk, inter, memory, verdict
<1>1. ASSUME Stays, calm', NoOverride,
             (pc' = "return" /\ result' = 0) \/ pc' = "interpreter"
      PROVE  /\ pc' = "return" => Accounts(why)'
             /\ pc' = "interpreter" => (FoundThere /\ ExecErrno(fs[Asked.obj]) = "OK")'
  <2>1. Untouched /\ UNCHANGED <<pc, result, why>>
    BY <1>1 DEF Stays, calm, quiet, Untouched
  <2>2. calm
    BY <1>1, <2>1, Still DEF Untouched
  <2>3. ASSUME pc' = "return" PROVE Accounts(why)'
    <3>1. PICK r : r = why /\ Accounts(r)
      BY <1>1, <2>1, <2>2, <2>3 DEF Holding
    <3> QED
      BY <2>1, <3>1, VerdictKept
  <2>4. ASSUME pc' = "interpreter"
        PROVE  (FoundThere /\ ExecErrno(fs[Asked.obj]) = "OK")'
    <3>1. FoundThere /\ ExecErrno(fs[Asked.obj]) = "OK"
      BY <1>1, <2>1, <2>2, <2>4 DEF Holding
    <3>2. FoundThere' /\ Asked' = Asked /\ fs' = fs
      BY <2>1, <3>1, StillThere DEF Untouched
    <3> QED
      BY <3>1, <3>2
  <2> QED
    BY <2>3, <2>4
<1>2. ASSUME calm', NoOverride, pc' = "return", result' = 0
      PROVE  Accounts(why)'
  <2>1. CASE UNCHANGED vars \/ Change \/ Done
    <3>1. Stays
      BY <1>2, <2>1 DEF Stays, Change, Done, vars
    <3> QED
      BY <1>1, <1>2, <3>1
  <2>2. CASE Call
    <3>0. ~CallForInterpreter
      BY <1>2 DEF CallForInterpreter, GoTo
    <3>1. calm /\ quiet
      BY <1>2, <3>0, CalmBefore DEF calm
    <3>2. CASE EmptyPathname
      BY <3>2, VerdictEmptyPathname
    <3>3. CASE PathnameTooLong
      BY <3>3, VerdictPathnameTooLong
    <3>4. CASE Begin
      BY <1>2, <3>4 DEF Begin, GoTo
    <3>5. CASE LookupDirectoryFails
      BY <1>2, <3>1, <3>5, NoVerdictLookupDirectoryFails
    <3>6. CASE AssertionFails
      BY <1>2, <3>6 DEF AssertionFails, GoTo
    <3>7. CASE LookupDirectoryUnfit
      BY <1>2, <3>1, <3>7, VerdictLookupDirectoryUnfit
    <3>8. CASE NextComponent
      BY <1>2, <3>1, <3>8, VerdictNextComponent
    <3>9. CASE IntermediateFails
      BY <1>2, <3>1, <3>9, VerdictIntermediateFails
    <3>10. CASE IntermediateExists
      BY <1>2, <3>1, <3>10, VerdictIntermediateExists
    <3>11. CASE SymbolicLink
      BY <1>2, <3>1, <3>11, VerdictSymbolicLink
    <3>12. CASE ReadlinkFails
      BY <3>1, <3>12, LinkIsRead DEF ReadlinkFails
    <3>13. CASE ReadTheLink
      BY <1>2, <3>13 DEF ReadTheLink, Follow, GoTo
    <3>14. CASE DanglingLink
      BY <3>1, <3>14, VerdictDanglingLink
    <3>15. CASE FollowTheLink
      BY <1>2, <3>1, <3>15, VerdictFollowTheLink
    <3>16. CASE NoInterpreter
      BY <1>2, <3>1, <3>16, VerdictNoInterpreter
    <3>17. CASE ReturnToCaller
      BY <1>2, <3>1, <3>17, VerdictReturnToCaller
    <3> QED
      BY <2>2, <3>0, <3>2, <3>3, <3>4, <3>5, <3>6, <3>7, <3>8, <3>9, <3>10, <3>11,
         <3>12, <3>13, <3>14, <3>15, <3>16, <3>17 DEF Call
  <2> QED
    BY <2>1, <2>2 DEF Next
<1>3. ASSUME calm', NoOverride, pc' = "interpreter"
      PROVE  (FoundThere /\ ExecErrno(fs[Asked.obj]) = "OK")'
  <2>1. CASE Stays
    BY <1>1, <1>3, <2>1
  <2>2. CASE IntermediateExists \/ ReadlinkFails
    <3>0. ~CallForInterpreter
      BY <1>3 DEF CallForInterpreter, GoTo
    <3>1. calm /\ quiet
      BY <1>3, <3>0, CalmBefore DEF calm
    <3>2. ~ReadlinkFails
      BY <3>1, LinkIsRead DEF ReadlinkFails
    <3> QED
      BY <1>3, <2>2, <3>1, <3>2, VerdictIntermediateExists
  <2> QED
    BY <1>3, <2>1, <2>2, Arrivals
<1> QED
  BY <1>2, <1>3 DEF Holding
-----------------------------------------------------------------------------
(* The errno of the kernel, case by case.                                  *)
LEMMA FirstAt ==
    ASSUME NEW cases, NEW otherwise, NEW n \in Nat, Len(cases) = n,
           NEW i \in 1 .. n, cases[i][1], \A j \in 1 .. n : j < i => ~cases[j][1]
    PROVE  FirstOf(cases, otherwise) = cases[i][2]
<1>1. PICK k \in 1 .. n : IsFirst(cases, k, n) /\ FirstOf(cases, otherwise) = cases[k][2]
  BY FirstHeld
<1>2. cases[k][1] /\ k <= i
  BY <1>1 DEF IsFirst
<1>3. k = i
  BY <1>2
<1> QED
  BY <1>1, <1>3

LEMMA FirstOne ==
    ASSUME NEW c, NEW v, NEW otherwise, NEW p, p = <<c, v>>
    PROVE  FirstOf(<<p>>, otherwise) = IF c THEN v ELSE otherwise
<1>1. PICK cases : cases = <<p>>
  OBVIOUS
<1>2. PICK n \in Nat : n = 1 /\ Len(cases) = n
  BY <1>1
<1>3. cases[1] = p
  BY <1>1
<1>4. p[2] = v /\ (p[1] <=> c)
  BY Pair, Zenon
<1>5. ASSUME c PROVE FirstOf(cases, otherwise) = v
  <2>1. p[1]
    BY <1>4, <1>5, Zenon
  <2>2. PICK i \in 1 .. n : i = 1
    BY <1>2
  <2>3. cases[i][1] /\ \A j \in 1 .. n : j < i => ~cases[j][1]
    <3>1. cases[i] = p
      BY <1>3, <2>2
    <3>2. cases[i][1]
      BY <2>1, <3>1, Zenon
    <3>3. \A j \in 1 .. n : ~(j < i)
      BY <1>2, <2>2
    <3> QED
      BY <3>2, <3>3
  <2>4. FirstOf(cases, otherwise) = cases[i][2]
    BY <1>2, <2>3, FirstAt
  <2> QED
    BY <1>3, <1>4, <2>2, <2>4
<1>6. ASSUME ~c PROVE FirstOf(cases, otherwise) = otherwise
  <2>1. ~p[1]
    BY <1>4, <1>6, Zenon
  <2>2. \A i \in 1 .. n : ~cases[i][1]
    BY <1>2, <1>3, <2>1
  <2> QED
    BY <1>2, <2>2, FirstHeld DEF IsFirst
<1> QED
  BY <1>1, <1>5, <1>6

LEMMA FirstTwo ==
    ASSUME NEW c, NEW v, NEW d, NEW u, NEW otherwise, NEW p, NEW q,
           p = <<c, v>>, q = <<d, u>>
    PROVE  /\ c => FirstOf(<<p, q>>, otherwise) = v
           /\ FirstOf(<<p, q>>, otherwise) \in {v, u, otherwise}
<1>1. PICK cases : cases = <<p, q>>
  OBVIOUS
<1>2. PICK n \in Nat : n = 2 /\ Len(cases) = n
  BY <1>1
<1>3. cases[1] = p /\ cases[2] = q
  BY <1>1
<1>4. p[2] = v /\ (p[1] <=> c) /\ q[2] = u
  BY Pair, Zenon
<1>5. ASSUME c PROVE FirstOf(cases, otherwise) = v
  <2>1. PICK i \in 1 .. n : i = 1
    BY <1>2
  <2>2. cases[i] = p
    BY <1>3, <2>1
  <2>3. cases[i][1]
    BY <1>4, <1>5, <2>2, Zenon
  <2>4. \A j \in 1 .. n : ~(j < i)
    BY <1>2, <2>1
  <2>5. FirstOf(cases, otherwise) = cases[i][2]
    BY <1>2, <2>3, <2>4, FirstAt
  <2> QED
    BY <1>4, <2>2, <2>5
<1>6. FirstOf(cases, otherwise) \in {v, u, otherwise}
  <2>1. \/ FirstOf(cases, otherwise) = otherwise
        \/ \E i \in 1 .. n : FirstOf(cases, otherwise) = cases[i][2]
    BY <1>2, FirstOfResult
  <2> QED
    BY <1>2, <1>3, <1>4, <2>1
<1> QED
  BY <1>1, <1>5, <1>6

(* An entry that is not there: found missing by a call that asks for it,   *)
(* and refused, if the directory may not be written to, to one that would  *)
(* make it.                                                                *)
LEMMA AbsentIs ==
    ASSUME NEW tree, NEW w, NEW slash, NEW op
    PROVE  /\ op \notin Creates => AbsentErrno(tree, w, slash, op) = "ENOENT"
           /\ op \in Creates /\ ~slash /\ ~Granted(tree[w.dir], "w")
              => AbsentErrno(tree, w, slash, op) = "EACCES"
<1> DEFINE c1 == op \notin Creates
           c2 == slash /\ op \in {"open_creat", "open_excl"}
           c3 == slash /\ op \in {"symlink", "mknod"}
           c4 == ~Granted(tree[w.dir], "w")
           cases == << <<c1, "ENOENT">>, <<c2, "EISDIR">>, <<c3, "ENOENT">>,
                       <<c4, "EACCES">> >>
<1>1. AbsentErrno(tree, w, slash, op) = FirstOf(cases, "OK")
  BY DEF AbsentErrno
<1>2. /\ cases[1] = <<c1, "ENOENT">> /\ cases[2] = <<c2, "EISDIR">>
      /\ cases[3] = <<c3, "ENOENT">> /\ cases[4] = <<c4, "EACCES">> /\ Len(cases) = 4
  <2> HIDE DEF c1, c2, c3, c4
  <2> QED
    OBVIOUS
<1>3. PICK n, ok : n \in Nat /\ n = 4 /\ ok = "OK"
  OBVIOUS
<1> HIDE DEF cases
<1>4. ASSUME c1 PROVE FirstOf(cases, ok) = "ENOENT"
  <2>1. PICK i \in 1 .. n : i = 1
    BY <1>3
  <2>2. cases[i] = <<c1, "ENOENT">>
    BY <1>2, <2>1
  <2> HIDE DEF c1
  <2>3. cases[i][2] = "ENOENT" /\ (cases[i][1] <=> c1)
    BY <2>2, Pair, Zenon
  <2>4. cases[i][1]
    BY <1>4, <2>3, Zenon
  <2>5. \A j \in 1 .. n : ~(j < i)
    BY <1>3, <2>1
  <2>6. FirstOf(cases, ok) = cases[i][2]
    BY <1>2, <1>3, <2>4, <2>5, FirstAt
  <2> QED
    BY <2>3, <2>6
<1>5. ASSUME ~c1, ~c2, ~c3, c4 PROVE FirstOf(cases, ok) = "EACCES"
  <2> HIDE DEF c1, c2, c3, c4
  <2>1. ~cases[1][1]
    <3>1. cases[1] = <<c1, "ENOENT">>
      BY <1>2
    <3>2. cases[1][1] <=> c1
      BY <3>1, Pair, Zenon
    <3> QED
      BY <1>5, <3>2, Zenon
  <2>2. ~cases[2][1]
    <3>1. cases[2] = <<c2, "EISDIR">>
      BY <1>2
    <3>2. cases[2][1] <=> c2
      BY <3>1
    <3> QED
      BY <1>5, <3>2, Zenon
  <2>3. ~cases[3][1]
    <3>1. cases[3] = <<c3, "ENOENT">>
      BY <1>2
    <3>2. cases[3][1] <=> c3
      BY <3>1, Pair, SMT
    <3> QED
      BY <1>5, <3>2, Zenon
  <2>4. PICK i \in 1 .. n : i = 4
    BY <1>3
  <2>5. cases[i] = <<c4, "EACCES">>
    BY <1>2, <2>4
  <2>6. cases[i][2] = "EACCES" /\ (cases[i][1] <=> c4)
    BY <2>5, Pair, Zenon
  <2>7. cases[i][1] /\ \A j \in 1 .. n : j < i => ~cases[j][1]
    <3>1. cases[i][1]
      BY <1>5, <2>6, Zenon
    <3>2. \A j \in 1 .. n : j < i => ~cases[j][1]
      BY <1>3, <2>1, <2>2, <2>3, <2>4
    <3> QED
      BY <3>1, <3>2
  <2>8. FirstOf(cases, ok) = cases[i][2]
    BY <1>2, <1>3, <2>7, FirstAt
  <2> QED
    BY <2>6, <2>8
<1>6. ASSUME op \in Creates, ~slash, ~Granted(tree[w.dir], "w")
      PROVE  ~c1 /\ ~c2 /\ ~c3 /\ c4
  BY <1>6
<1> QED
  BY <1>1, <1>3, <1>4, <1>5, <1>6

(* Removing is refused with one of a few errnos.                           *)
LEMMA RemoveIs ==
    ASSUME NEW tree, NEW w, NEW slash, NEW op
    PROVE  RemoveErrno(tree, w, slash, op)
             \in {"EBUSY", "EINVAL", "ENOTEMPTY", "ENOTDIR", "EACCES", "EPERM",
                  "EISDIR", "OK"}
<1> DEFINE dir == tree[w.dir]
           obj == tree[w.obj]
           c1 == w.rest = <<>>
           c2 == op = "rmdir" /\ w.rest = <<".">>
           c3 == op = "rmdir" /\ w.rest = <<"..">>
           c4 == op = "unlink" /\ slash /\ obj.type # "dir"
           c5 == ~Granted(dir, "w")
           c6 == "sticky" \in dir.flags /\ obj.uid # Process.uid
                 /\ dir.uid # Process.uid /\ "fowner" \notin Process.caps
           c7 == op = "unlink" /\ obj.type = "dir"
           c8 == op = "rmdir" /\ obj.type # "dir"
           cases == << <<c1, "EBUSY">>, <<c2, "EINVAL">>, <<c3, "ENOTEMPTY">>,
                       <<c4, "ENOTDIR">>, <<c5, "EACCES">>, <<c6, "EPERM">>,
                       <<c7, "EISDIR">>, <<c8, "ENOTDIR">> >>
<1>1. RemoveErrno(tree, w, slash, op) = FirstOf(cases, "OK")
  BY DEF RemoveErrno
<1>2. /\ cases[1][2] = "EBUSY" /\ cases[2][2] = "EINVAL" /\ cases[3][2] = "ENOTEMPTY"
      /\ cases[4][2] = "ENOTDIR" /\ cases[5][2] = "EACCES" /\ cases[6][2] = "EPERM"
      /\ cases[7][2] = "EISDIR" /\ cases[8][2] = "ENOTDIR" /\ Len(cases) = 8
  <2> HIDE DEF c1, c2, c3, c4, c5, c6, c7, c8
  <2> QED
    OBVIOUS
<1>3. PICK n, ok : n \in Nat /\ n = 8 /\ ok = "OK"
  OBVIOUS
<1> HIDE DEF cases
<1>4. \/ FirstOf(cases, ok) = ok
      \/ \E i \in 1 .. n : FirstOf(cases, ok) = cases[i][2]
  BY <1>2, <1>3, FirstOfResult, ZenonT(60)
<1>5. \A i \in 1 .. n : cases[i][2] \in {"EBUSY", "EINVAL", "ENOTEMPTY", "ENOTDIR",
                                         "EACCES", "EPERM", "EISDIR"}
  BY <1>2, <1>3
<1> QED
  BY <1>1, <1>3, <1>4, <1>5
-----------------------------------------------------------------------------
(* What the function was called for: the path of the request, or that of   *)
(* the interpreter of the script that the path of the request leads to.    *)
Understood == ~SomethingTrailsOff /\ ~BlindRoot /\ NoOverride
plain == quiet /\ Understood /\ ~CwdOutOfReach /\ ~FollowsTooFar

Outer ==
    /\ final_component = final_of[request.op]
    /\ expected_errno = passed_errno(request.op, errno)
    /\ initial_pathname = request.path

Nested ==
    /\ final_component = final_interpreter
    /\ expected_errno = "EACCES" /\ errno = "EACCES"
    /\ request.op = "execve" /\ RequestWalk.err = "found"
    /\ initial_pathname = fs[RequestWalk.obj].script /\ initial_pathname # Empty
    /\ InterpreterErrno(fs, initial_pathname) = "EACCES"

FInv ==
    /\ quiet => errno = KernelErrno(fs, request.path, request.op)
    /\ plain => Outer \/ Nested

(* The errno, once more.                                                   *)
LEMMA KernelTells ==
    ASSUME TInv, FInv, quiet
    PROVE  /\ Asks(fs, request.path, request.op)
           /\ RequestWalk.err = "found"
              => errno = FoundErrno(fs, RequestWalk, request.path.slash, request.op)
           /\ RequestWalk.err = "absent"
              => errno = AbsentErrno(fs, RequestWalk, request.path.slash, request.op)
           /\ RequestWalk.err \notin {"found", "absent"} => errno = RequestWalk.err
<1>1. errno \in explained_errnos(request.op)
  BY DEF TInv
<1>2. errno # "OK"
  BY <1>1 DEF explained_errnos
<1>3. errno = KernelErrno(fs, request.path, request.op)
  BY DEF FInv
<1>4. RequestWalk = KernelWalk(fs, request.path, request.op)
  BY DEF RequestWalk
<1>5. Asks(fs, request.path, request.op)
  BY <1>2, <1>3 DEF KernelErrno
<1>6. RequestWalk.err = "found"
      => errno = FoundErrno(fs, RequestWalk, request.path.slash, request.op)
  BY <1>3, <1>4, <1>5 DEF KernelErrno
<1>7. RequestWalk.err = "absent"
      => errno = AbsentErrno(fs, RequestWalk, request.path.slash, request.op)
  BY <1>3, <1>4, <1>5 DEF KernelErrno
<1>8. RequestWalk.err \notin {"found", "absent"} => errno = RequestWalk.err
  BY <1>3, <1>4, <1>5 DEF KernelErrno
<1> QED
  BY <1>5, <1>6, <1>7, <1>8

(* Without a trailing slash the walks of the kernel differ in one thing.   *)
LEMMA RequestWalks ==
    ASSUME TInv, ~SomethingTrailsOff
    PROVE  /\ request.path.slash = FALSE
           /\ RequestWalk = WalkFrom(fs, KernelFollows(request.op), Walker(request.path))
           /\ NameWalk = WalkFrom(fs, FALSE, Walker(request.path))
           /\ LastIsLink <=> AtLink(fs, NameWalk)
<1>1. PICK path \in Path : path = request.path
  BY DEF TInv
<1>2. path.slash = FALSE
  BY <1>1 DEF SomethingTrailsOff, TrailsOff, Path
<1>3. [path EXCEPT !.slash = FALSE] = path
  BY <1>2 DEF Path
<1>4. RequestWalk = WalkFrom(fs, KernelFollows(request.op), Walker(path))
  BY <1>1, <1>3 DEF RequestWalk, KernelWalk
<1>5. NameWalk = WalkFrom(fs, FALSE, Walker(path))
  BY <1>1, <1>3 DEF NameWalk
<1>6. LastIsLink <=> AtLink(fs, NameWalk)
  BY DEF LastIsLink, AtLink, IsLink
<1> QED
  BY <1>1, <1>2, <1>4, <1>5, <1>6

LEMMA OuterAsks ==
    ASSUME TInv, FInv, plain, Outer
    PROVE  /\ Asked = RequestWalk /\ ~CutsAName
           /\ FinalFacts(request.op, final_component)
           /\ EndsAtLink <=> LastIsLink
<1>0. quiet /\ ~SomethingTrailsOff /\ ~FollowsTooFar
  BY DEF plain, Understood
<1>1. PICK op \in Syscall : op = request.op
  BY DEF TInv
<1>2. PICK f : f = final_component /\ f = final_of[op]
  BY <1>1 DEF Outer
<1>3. FinalFacts(op, f)
  BY <1>1, <1>2, FinalFields
<1>4. EndsAtLink <=> LastIsLink
  BY <1>0, RequestWalks DEF EndsAtLink, Outer
<1>5. f.follow_symlink \in BOOLEAN
      /\ (f.follow_symlink <=> op \notin {"lstat", "readlink", "lchown", "mkdir", "mknod"})
  BY <1>3 DEF FinalFacts
<1>6. KernelFollows(op) <=> op \notin {"lstat", "readlink", "lchown", "mkdir", "mknod",
                                       "symlink", "open_excl", "unlink", "rmdir"}
  BY DEF KernelFollows, Removes
<1>7. KernelFollows(op) \in BOOLEAN
  BY DEF KernelFollows
<1>8. Asked = RequestWalk
  <2>1. PICK k \in BOOLEAN : k = KernelFollows(op)
    BY <1>7
  <2>2. RequestWalk = WalkFrom(fs, k, Walker(request.path))
    BY <1>0, <1>1, <2>1, RequestWalks
  <2>3. CASE k
    <3>1. f.follow_symlink = k
      BY <1>5, <1>6, <2>1, <2>3
    <3>2. WholeWalk = WalkFrom(fs, k, Walker(request.path))
      BY <1>2, <3>1 DEF WholeWalk, Outer
    <3> QED
      BY <2>2, <3>2, AskedIsWhole
  <2>4. CASE ~k
    <3>1. ~Followed
      <4>1. f.follow_symlink => FollowsTooFar \/ ~LastIsLink
        BY <1>1, <1>2, <2>1, <2>4 DEF FollowsTooFar
      <4> QED
        BY <1>0, <1>2, <1>4, <4>1 DEF Followed
    <3>2. Followed = k
      BY <2>4, <3>1 DEF Followed
    <3> QED
      BY <2>2, <3>2 DEF Asked, Outer
  <2> QED
    BY <2>3, <2>4
<1>9. ~CutsAName
  <2>1. ASSUME RequestWalk.err = "ENAMETOOLONG" PROVE expected_errno = "ENAMETOOLONG"
    <3>1. errno = "ENAMETOOLONG"
      BY <1>0, <2>1, KernelTells
    <3> QED
      BY <3>1 DEF Outer, passed_errno
  <2> QED
    BY <1>8, <2>1, AskedIsWhole DEF CutsAName
<1> QED
  BY <1>1, <1>2, <1>3, <1>4, <1>8, <1>9

LEMMA NestedAsks ==
    ASSUME TInv, Nested
    PROVE  /\ Asked = ScriptWalk /\ Asked.err \in {"found", "EACCES"} /\ ~CutsAName
<1>1. final_component.follow_symlink = TRUE
  BY InterpreterFields DEF Nested
<1>2. Asked = ScriptWalk
  <2>1. WholeWalk = ScriptWalk
    BY <1>1 DEF WholeWalk, ScriptWalk, Nested
  <2> QED
    BY <2>1, AskedIsWhole
<1>3. PICK w : w = ScriptWalk
  OBVIOUS
<1>4. w = WalkFrom(fs, TRUE, Walker(initial_pathname))
  BY <1>3 DEF ScriptWalk, Nested
<1>5. w.err \in {"found", "EACCES"}
  BY <1>4 DEF Nested, InterpreterErrno
<1> QED
  BY <1>2, <1>3, <1>5, AskedIsWhole DEF CutsAName

LEMMA PlainIsCalm ==
    ASSUME TInv, FInv, plain PROVE calm
<1>1. ~CutsAName
  BY OuterAsks, NestedAsks DEF FInv
<1> QED
  BY <1>1 DEF plain, Understood, calm, Excluded

LEMMA FirstInitial == Init => FInv
<1> SUFFICES ASSUME Init PROVE FInv
  OBVIOUS
<1>1. errno = KernelErrno(fs, request.path, request.op)
  BY DEF Init
<1>2. Outer
  BY DEF Init, Outer
<1> QED
  BY <1>1, <1>2 DEF FInv

(* Of what is about to be checked for an interpreter, the kernel found     *)
(* that it can be executed: the errno is that of the interpreter.          *)
LEMMA InterpreterAsked ==
    ASSUME TInv, EInv, Holding, FInv, plain, pc = "interpreter", Outer
    PROVE  /\ request.op = "execve" /\ errno = "EACCES" /\ RequestWalk.err = "found"
           /\ InterpreterErrno(fs, fs[RequestWalk.obj].script) = "EACCES"
<1>0. quiet /\ NoOverride /\ calm
  BY PlainIsCalm DEF plain, Understood
<1>1. /\ FoundThere /\ ExecErrno(fs[Asked.obj]) = "OK"
      /\ expected_errno = "EACCES" /\ final_component.want_to_execute
  BY <1>0 DEF Holding, EInv
<1>2. Asked = RequestWalk /\ FinalFacts(request.op, final_component)
  BY OuterAsks
<1>3. request.op \in {"execve", "access_x"}
  BY <1>1, <1>2 DEF FinalFacts
<1>4. errno = "EACCES"
  BY <1>1, <1>3 DEF Outer, passed_errno
<1>5. RequestWalk.err = "found"
  BY <1>1, <1>2 DEF FoundThere
<1>6. PICK w, slash : w = RequestWalk /\ slash = request.path.slash
  OBVIOUS
<1>7. FoundErrno(fs, w, slash, request.op) = "EACCES" /\ ExecErrno(fs[w.obj]) = "OK"
  BY <1>0, <1>1, <1>2, <1>4, <1>5, <1>6, KernelTells
<1>8. CASE request.op = "access_x"
  <2>1. FoundErrno(fs, w, slash, "access_x") # "EACCES"
    <3>1. PICK obj : obj = fs[w.obj]
      OBVIOUS
    <3>2. obj.type = "reg" /\ Granted(obj, "x") /\ "noexec" \notin obj.flags
      BY <1>7, <3>1 DEF ExecErrno
    <3>3. PICK op : op = "access_x"
      OBVIOUS
    <3>4. FoundErrno(fs, w, slash, op)
            = IF ~Granted(obj, "x") \/ (obj.type = "reg" /\ "noexec" \in obj.flags)
              THEN "EACCES" ELSE "OK"
      BY <3>1, <3>3 DEF FoundErrno, Removes
    <3> QED
      BY <3>2, <3>3, <3>4
  <2> QED
    BY <1>7, <1>8, <2>1
<1>9. CASE request.op = "execve"
  <2>1. PICK op, inner, c, p : /\ op = "execve" /\ c = (ExecErrno(fs[w.obj]) # "OK")
                               /\ inner = InterpreterErrno(fs, fs[w.obj].script)
                               /\ p = <<c, "EACCES">>
    OBVIOUS
  <2>2. FoundErrno(fs, w, slash, op) = FirstOf(<<p>>, inner)
    BY <2>1 DEF FoundErrno, Removes
  <2>3. FirstOf(<<p>>, inner) = IF c THEN "EACCES" ELSE inner
    BY <2>1, FirstOne
  <2>4. inner = "EACCES"
    BY <1>7, <1>9, <2>1, <2>2, <2>3
  <2> QED
    BY <1>4, <1>5, <1>6, <1>9, <2>1, <2>4
<1> QED
  BY <1>3, <1>8, <1>9

LEMMA ScriptOfObject ==
    ASSUME TInv, FoundThere, ExecErrno(fs[Asked.obj]) = "OK",
           ReadScript(fs, intermediate_path) # Empty
    PROVE  ReadScript(fs, intermediate_path) = fs[Asked.obj].script
<1>1. PICK u \in Walkers(fs) : u = Walker(intermediate_path)
  BY WalkerType DEF TInv
<1>2. fs[Asked.obj].type = "reg" /\ Asked.obj = WalkFrom(fs, FALSE, u).obj
  BY <1>1 DEF ExecErrno, FoundThere, ObjectIn
<1>3. ~AtLink(fs, WalkFrom(fs, FALSE, u))
  BY <1>2 DEF AtLink, IsLink
<1>4. WalkFrom(fs, TRUE, u) = WalkFrom(fs, FALSE, u)
  BY <1>3, FollowAlike DEF TInv
<1> QED
  BY <1>1, <1>2, <1>4 DEF ReadScript

LEMMA FirstCallForInterpreter ==
    ASSUME TInv, LInv, EInv, Holding, FInv, CallForInterpreter
    PROVE  FInv'
<1> USE DEF world, failure, args, walk, inter, memory, verdict
<1>1. /\ pc = "interpreter" /\ ReadScript(fs, intermediate_path) # Empty
      /\ final_component.follow_interpreter
      /\ UNCHANGED <<fs, changed, request, errno>>
      /\ expected_errno' = "EACCES" /\ final_component' = final_interpreter
      /\ initial_pathname' = ReadScript(fs, intermediate_path)
  BY DEF CallForInterpreter
<1>2. (quiet => errno = KernelErrno(fs, request.path, request.op))'
  BY <1>1 DEF FInv, quiet
<1>3. plain' <=> plain
  BY <1>1 DEF plain, quiet, Understood, SomethingTrailsOff, BlindRoot, CwdOutOfReach,
     FollowsTooFar, LastIsLink, NameWalk
<1>4. ASSUME plain PROVE Nested'
  <2>1. ~Nested
    BY <1>1, InterpreterFields DEF Nested
  <2>2. Outer
    BY <1>4, <2>1 DEF FInv
  <2>3. /\ request.op = "execve" /\ errno = "EACCES" /\ RequestWalk.err = "found"
        /\ InterpreterErrno(fs, fs[RequestWalk.obj].script) = "EACCES"
    BY <1>1, <1>4, <2>2, InterpreterAsked
  <2>4. calm /\ NoOverride
    BY <1>4, PlainIsCalm DEF plain, Understood
  <2>5. FoundThere /\ ExecErrno(fs[Asked.obj]) = "OK"
    BY <1>1, <2>4 DEF Holding
  <2>6. Asked = RequestWalk
    BY <1>4, <2>2, OuterAsks
  <2>7. initial_pathname' = fs[RequestWalk.obj].script /\ initial_pathname' # Empty
    BY <1>1, <2>5, <2>6, ScriptOfObject
  <2>8. RequestWalk' = RequestWalk
    BY <1>1 DEF RequestWalk
  <2> QED
    BY <1>1, <2>3, <2>7, <2>8 DEF Nested
<1> QED
  BY <1>2, <1>3, <1>4 DEF FInv

LEMMA FirstInductive ==
    TInv /\ LInv /\ QInv /\ EInv /\ Holding /\ FInv /\ [Next]_vars => FInv'
<1> SUFFICES ASSUME TInv, LInv, QInv, EInv, Holding, FInv, [Next]_vars PROVE FInv'
  OBVIOUS
<1> USE DEF world, failure, args, walk, inter, memory, verdict
<1>1. CASE CallForInterpreter
  BY <1>1, FirstCallForInterpreter
<1>2. CASE ~CallForInterpreter
  <2>1. UNCHANGED <<request, errno, expected_errno, final_component, initial_pathname>>
        /\ (changed' \/ UNCHANGED <<fs, changed>>)
    <3>1. CASE UNCHANGED vars
      BY <3>1 DEF vars
    <3>2. CASE Next
      BY <1>2, <3>2 DEF Next, Call, EmptyPathname, PathnameTooLong, Begin,
         LookupDirectoryFails, AssertionFails, LookupDirectoryUnfit, NextComponent,
         IntermediateFails, IntermediateExists, SymbolicLink, ReadlinkFails,
         ReadTheLink, DanglingLink, FollowTheLink, NoInterpreter, ReturnToCaller,
         Change, Done, vars
    <3> QED
      BY <3>1, <3>2
  <2>2. CASE changed'
    BY <2>2 DEF FInv, plain, quiet
  <2>3. CASE UNCHANGED <<fs, changed>>
    <3>1. (quiet => errno = KernelErrno(fs, request.path, request.op))'
      BY <2>1, <2>3 DEF FInv, quiet
    <3>2. plain' <=> plain
      BY <2>1, <2>3 DEF plain, quiet, Understood, SomethingTrailsOff, BlindRoot,
         CwdOutOfReach, FollowsTooFar, LastIsLink, NameWalk
    <3>3. RequestWalk' = RequestWalk
      BY <2>1, <2>3 DEF RequestWalk
    <3>4. (Outer \/ Nested) => (Outer \/ Nested)'
      BY <2>1, <2>3, <3>3 DEF Outer, Nested
    <3> QED
      BY <3>1, <3>2, <3>4 DEF FInv
  <2> QED
    BY <2>1, <2>2, <2>3
<1> QED
  BY <1>1, <1>2
-----------------------------------------------------------------------------
(* The call is over, and nothing is known by which the walks part.         *)
Explained == over /\ result = 0 /\ plain
Accounted == Explained /\ calm /\ Accounts(why)

LEMMA IsAccounted ==
    ASSUME TInv, FInv, Holding, Explained PROVE Accounted
<1>1. calm
  BY PlainIsCalm DEF Explained
<1> QED
  BY <1>1 DEF Explained, Accounted, plain, Understood, Holding, over

(* Of the interpreter of a script.                                         *)
LEMMA NestedTruth ==
    ASSUME TInv, Accounted, Nested, ~RevisitsALink, ~PassesManyLinks
    PROVE  /\ errno \in explains[why]
           /\ why = "not_possible_to_execute" => request.op = "execve"
<1>1. /\ Asked = ScriptWalk /\ Asked.err \in {"found", "EACCES"}
      /\ errno = "EACCES" /\ expected_errno = "EACCES" /\ request.op = "execve"
      /\ initial_pathname # Empty
  BY NestedAsks DEF Nested
<1>2. /\ ~final_component.must_not_exist /\ final_component.must_be = "any"
      /\ ~final_component.want_to_modify_inode /\ ~final_component.want_to_unlink
  BY InterpreterFields DEF Nested
<1>3. IsInjective(Asked.links) /\ ~(Len(Asked.links) >= SYMLOOP_MAX)
  BY <1>1 DEF RevisitsALink, PassesManyLinks
<1>4. why \in Reasons /\ Accounts(why)
  BY DEF TInv, Accounted
<1>5. why \in {"no_search_permission", "too_many_interpreters"} \cup OfPermission
  <2>1. why \in OfTheObject
        => why \notin {"eexist", "wrong_file_type", "no_inode_permission",
                       "no_unlink_permission"}
    BY <1>2, <1>4 DEF Accounts, Tells
  <2>2. why \notin {"none", "directory_does_not_exist", "not_a_directory", "empty_path",
                    "path_too_long", "name_too_long", "no_such_directory_entry",
                    "no_new_entry_permission", "not_a_subdirectory",
                    "dangling_symbolic_link", "symlink_loop", "too_many_symlinks"}
    BY <1>1, <1>3, <1>4 DEF Accounts, FailedThere, Dangles
  <2> QED
    BY <1>4, <2>1, <2>2 DEF Reasons, explains, OfTheObject, OfPermission
<1>6. "EACCES" \in explains[why]
  BY <1>5 DEF explains, OfPermission
<1> QED
  BY <1>1, <1>6

(* Of the path of the request: how its walk fails is the errno.            *)
LEMMA OuterWays ==
    ASSUME TInv, FInv, Accounted, Outer
    PROVE  /\ Asked = RequestWalk /\ FinalFacts(request.op, final_component)
           /\ request.path.slash = FALSE
           /\ Asked.err \notin {"found", "absent"} => errno = Asked.err
           /\ Asked.err = "absent" /\ request.op \notin Creates => errno = "ENOENT"
           /\ Asked.err = "absent" /\ request.op \in Creates
              /\ ~Granted(fs[Asked.dir], "w") => errno = "EACCES"
<1>0. plain /\ quiet /\ ~SomethingTrailsOff
  BY DEF Accounted, Explained, plain, Understood
<1>1. Asked = RequestWalk /\ FinalFacts(request.op, final_component)
  BY <1>0, OuterAsks
<1>2. request.path.slash = FALSE
  BY <1>0, RequestWalks
<1>3. PICK w, slash, op : w = RequestWalk /\ slash = request.path.slash /\ op = request.op
  OBVIOUS
<1>4. w.err \notin {"found", "absent"} => errno = w.err
  BY <1>0, <1>3, KernelTells
<1>5. w.err = "absent" => errno = AbsentErrno(fs, w, slash, op)
  BY <1>0, <1>3, KernelTells
<1>6. op \notin Creates => AbsentErrno(fs, w, slash, op) = "ENOENT"
  BY AbsentIs
<1>7. op \in Creates /\ ~Granted(fs[w.dir], "w")
      => AbsentErrno(fs, w, slash, op) = "EACCES"
  BY <1>2, <1>3, AbsentIs
<1> QED
  BY <1>1, <1>2, <1>3, <1>4, <1>5, <1>6, <1>7

(* What is said of the way to the last component.                          *)
LEMMA TruthOfTheWay ==
    ASSUME TInv, FInv, Accounted, Outer, ~CreatesThroughLink, ~RevisitsALink,
           ~PassesManyLinks, why \notin OfTheObject
    PROVE  errno \in explains[why]
<1>0. why \in Reasons /\ Accounts(why) /\ plain /\ quiet
  BY DEF TInv, Accounted, Explained, plain
<1>1. /\ Asked = RequestWalk /\ FinalFacts(request.op, final_component)
      /\ request.path.slash = FALSE
      /\ Asked.err \notin {"found", "absent"} => errno = Asked.err
      /\ Asked.err = "absent" /\ request.op \notin Creates => errno = "ENOENT"
      /\ Asked.err = "absent" /\ request.op \in Creates
         /\ ~Granted(fs[Asked.dir], "w") => errno = "EACCES"
  BY OuterWays
<1>2. ~(Len(Asked.links) >= SYMLOOP_MAX)
      /\ (errno # "ELOOP" => IsInjective(Asked.links))
  BY <1>1 DEF PassesManyLinks, RevisitsALink
<1>3. why = "empty_path" => errno = "ENOENT"
  <2>1. ASSUME why = "empty_path" PROVE errno = "ENOENT"
    <3>1. initial_pathname = Empty
      BY <1>0, <2>1 DEF Accounts
    <3>2. PICK u \in Walkers(fs) : u = Walker(initial_pathname)
      BY WalkerType DEF TInv
    <3>3. u.err = "ENOENT"
      BY <3>1, <3>2 DEF Walker
    <3>4. Asked = u
      BY <3>2, <3>3, WalkUnfolds DEF Asked, TInv
    <3> QED
      BY <1>1, <3>3, <3>4
  <2> QED
    BY <2>1
<1>4. why \in {"path_too_long", "name_too_long"} => errno = "ENAMETOOLONG"
  BY <1>0, <1>1 DEF Accounts
<1>5. why = "no_search_permission" => errno = "EACCES"
  BY <1>0, <1>1 DEF Accounts, FailedThere
<1>6. why = "no_such_directory_entry" => errno = "ENOENT"
  BY <1>0, <1>1 DEF Accounts, FailedThere, FinalFacts
<1>7. why = "no_new_entry_permission" => errno = "EACCES"
  BY <1>0, <1>1 DEF Accounts, FailedThere, FinalFacts
<1>8. why = "not_a_subdirectory" => errno = "ENOTDIR"
  BY <1>0, <1>1 DEF Accounts
<1>9. why = "dangling_symbolic_link" => errno = "ENOENT"
  <2>1. ASSUME Asked.err = "absent", Followed PROVE request.op \notin Creates
    <3>1. LastIsLink /\ final_component.follow_symlink
      BY <1>0, <2>1, OuterAsks DEF Followed
    <3>2. final_component = final_of[request.op]
      BY DEF Outer
    <3>3. KernelFollows(request.op)
      BY <1>0, <3>1, <3>2 DEF plain, FollowsTooFar
    <3>4. request.op # "open_creat"
      BY <3>1 DEF CreatesThroughLink
    <3> QED
      BY <3>3, <3>4 DEF KernelFollows, Creates
  <2> QED
    BY <1>0, <1>1, <1>2, <2>1 DEF Accounts, Dangles
<1>10. why = "symlink_loop" => errno = "ELOOP"
  BY <1>0, <1>1, <1>2 DEF Accounts
<1>11. why \notin {"too_many_symlinks", "too_many_interpreters"}
  BY <1>0, <1>1, <1>2 DEF Accounts, FinalFacts
<1>12. why \notin {"none", "directory_does_not_exist", "not_a_directory"}
  BY <1>0 DEF Accounts
<1>13. why \in {"empty_path", "path_too_long", "name_too_long", "no_search_permission",
                "no_such_directory_entry", "no_new_entry_permission",
                "not_a_subdirectory", "dangling_symbolic_link", "symlink_loop"}
  BY <1>0, <1>11, <1>12 DEF Reasons, explains, OfTheObject, OfPermission
<1>14. PICK e : e = errno
  OBVIOUS
<1>15. /\ why \in {"empty_path", "no_such_directory_entry", "dangling_symbolic_link"}
          => e = "ENOENT"
       /\ why \in {"path_too_long", "name_too_long"} => e = "ENAMETOOLONG"
       /\ why \in {"no_search_permission", "no_new_entry_permission"} => e = "EACCES"
       /\ why = "not_a_subdirectory" => e = "ENOTDIR"
       /\ why = "symlink_loop" => e = "ELOOP"
  BY <1>3, <1>4, <1>5, <1>6, <1>7, <1>8, <1>9, <1>10, <1>14
<1> QED
  BY <1>13, <1>14, <1>15 DEF explains

(* What is said of the object found.                                       *)
LEMMA TruthOfTheObject ==
    ASSUME TInv, FInv, Accounted, Outer, why \in OfTheObject,
           ~NotADirectoryToRemove, ~TakenForAFile
    PROVE  /\ errno \in explains[why]
           /\ why = "not_possible_to_execute" => request.op = "execve"
<1>0. /\ Accounts(why) /\ plain /\ quiet /\ ~SomethingTrailsOff
      /\ fs \in FileSystems /\ errno \in explained_errnos(request.op)
  BY DEF TInv, Accounted, Explained, plain, Understood
<1>1. PICK st : st = StatOf(fs[Asked.obj])
  OBVIOUS
<1>2. /\ Asked = RequestWalk /\ Asked.err = "found" /\ request.path.slash = FALSE
      /\ FinalFacts(request.op, final_component) /\ Tells(st, why)
  BY <1>0, <1>1, OuterWays DEF Accounts, FoundThere
<1>3. PICK w, slash, op : w = RequestWalk /\ slash = request.path.slash /\ op = request.op
  OBVIOUS
<1>4. /\ errno = FoundErrno(fs, w, slash, op) /\ Asks(fs, request.path, op)
      /\ slash = FALSE /\ w.err = "found"
  BY <1>0, <1>2, <1>3, KernelTells
<1>5. errno # "OK"
  BY <1>0 DEF explained_errnos
<1>6. st.type = fs[w.obj].type
  BY <1>1, <1>2, <1>3 DEF StatOf
<1>7. expected_errno = passed_errno(op, errno)
  BY <1>3 DEF Outer
<1>8. why = "eexist" => errno = "EEXIST"
  <2>1. ASSUME why = "eexist" PROVE op \in {"mkdir", "mknod", "symlink", "open_excl"}
    BY <1>2, <1>3, <2>1 DEF Tells, FinalFacts
  <2>2. op \in {"mkdir", "mknod", "symlink", "open_excl"}
        => FoundErrno(fs, w, slash, op) = "EEXIST"
    BY <1>4 DEF FoundErrno, Removes
  <2> QED
    BY <1>4, <2>1, <2>2
<1>9. why = "wrong_file_type" => errno = "ENOTDIR"
  <2>1. ASSUME why = "wrong_file_type" PROVE errno = "ENOTDIR"
    <3>1. op \in {"chdir", "chroot", "rmdir"} /\ st.type # "dir"
      BY <1>2, <1>3, <2>1 DEF Tells, FinalFacts
    <3>2. CASE op \in {"chdir", "chroot"}
      <4>1. PICK obj, c, d, p, q : /\ obj = fs[w.obj]
                                   /\ c = (obj.type # "dir") /\ d = ~Granted(obj, "x")
                                   /\ p = <<c, "ENOTDIR">> /\ q = <<d, "EACCES">>
        OBVIOUS
      <4>2. FoundErrno(fs, w, slash, op) = FirstOf(<<p, q>>, "OK")
        BY <3>2, <4>1 DEF FoundErrno, Removes
      <4>3. c => FirstOf(<<p, q>>, "OK") = "ENOTDIR"
        BY <4>1, FirstTwo
      <4> QED
        BY <1>4, <1>6, <3>1, <4>1, <4>2, <4>3
    <3>3. CASE op = "rmdir"
      <4>1. errno = RemoveErrno(fs, w, slash, op)
        BY <1>4, <3>3 DEF FoundErrno, Removes
      <4>2. errno \in {"EBUSY", "EINVAL", "ENOTEMPTY", "ENOTDIR", "EACCES", "EPERM",
                       "EISDIR", "OK"}
        BY <4>1, RemoveIs
      <4>3. errno \in {"ENOTDIR", "EACCES", "EPERM"}
        BY <1>0, <1>3, <3>3, <4>2 DEF explained_errnos
      <4>4. NameWalk = w
        <5>1. KernelFollows(op) = FALSE
          BY <3>3 DEF KernelFollows, Removes
        <5> QED
          BY <1>0, <1>3, <5>1, RequestWalks
      <4>5. errno \notin {"EACCES", "EPERM"}
        BY <1>3, <1>4, <1>6, <3>1, <3>3, <4>4 DEF NotADirectoryToRemove
      <4> QED
        BY <4>3, <4>5
    <3> QED
      BY <3>1, <3>2, <3>3
  <2> QED
    BY <2>1
<1>10. why = "no_inode_permission" => errno = "EPERM"
  <2>1. ASSUME why = "no_inode_permission"
        PROVE  op \in {"chmod", "chown", "lchown", "utime_times"}
    BY <1>2, <1>3, <2>1 DEF Tells, FinalFacts
  <2>2. op \in {"chown", "lchown"} => FoundErrno(fs, w, slash, op) = "OK"
    BY DEF FoundErrno, Removes
  <2>3. op \in {"chmod", "utime_times"} => FoundErrno(fs, w, slash, op) \in {"OK", "EPERM"}
    BY DEF FoundErrno, Removes
  <2> QED
    BY <1>4, <1>5, <2>1, <2>2, <2>3
<1>11. why = "no_unlink_permission" => errno \in {"EACCES", "EPERM"}
  BY <1>2, <1>3, <1>7 DEF Tells, FinalFacts, passed_errno, Removes
<1>12. why \in OfPermission => errno = "EACCES"
  <2>1. ASSUME why \in OfPermission PROVE errno = "EACCES"
    <3>1. expected_errno = "EACCES" /\ TriesAccess
      BY <1>2, <2>1 DEF Tells
    <3>2. op # "utime_times"
      BY <1>2, <1>3, <3>1 DEF TriesAccess, FinalFacts
    <3> QED
      BY <1>7, <3>1, <3>2 DEF passed_errno
  <2> QED
    BY <2>1
<1>13. ASSUME why = "not_possible_to_execute" PROVE op = "execve"
  <2>1. op \in {"execve", "access_x"} /\ st.type # "reg"
    BY <1>2, <1>3, <1>13 DEF Tells, FinalFacts
  <2>2. ASSUME op = "access_x" PROVE FALSE
    <3>1. ~LastIsLink
      BY <1>3, <2>2 DEF TakenForAFile
    <3>2. PICK u \in Walkers(fs) : u = Walker(request.path)
      BY WalkerType DEF TInv
    <3>3. NameWalk = WalkFrom(fs, FALSE, u) /\ ~AtLink(fs, NameWalk)
      BY <1>0, <3>1, <3>2, RequestWalks
    <3>4. w = WalkFrom(fs, TRUE, u)
      <4>1. KernelFollows(op) = TRUE
        BY <2>2 DEF KernelFollows, Removes
      <4> QED
        BY <1>0, <1>3, <3>2, <4>1, RequestWalks
    <3>5. w = NameWalk
      BY <1>0, <3>3, <3>4, FollowAlike
    <3>6. w \in Walkers(fs) /\ w.obj \in DOMAIN fs
      <4>1. w \in Walkers(fs)
        BY <1>0, <3>4, WalkEnds
      <4> QED
        BY <4>1 DEF Walkers
    <3>7. fs[w.obj].type \in {"dir", "reg", "lnk"}
      BY <1>0, <3>6, TreesAreTrees DEF IsTree
    <3>8. fs[w.obj].type = "dir"
      BY <1>4, <1>6, <2>1, <3>3, <3>5, <3>7 DEF AtLink, IsLink
    <3>9. Lstat(fs, request.path).errno = "OK"
      BY <1>4, <3>2, <3>3, <3>5, <3>6 DEF Lstat, Found
    <3>10. Lstat(fs, request.path).st = StatOf(fs[w.obj])
      BY <1>4, <3>2, <3>3, <3>5, <3>6 DEF Lstat, Found
    <3>11. StatOf(fs[w.obj]).type = "dir"
      BY <3>8 DEF StatOf
    <3>12. explain_pathname_is_a_directory(fs, request.path)
      BY <3>9, <3>10, <3>11 DEF explain_pathname_is_a_directory
    <3> QED
      BY <1>4, <2>2, <3>12 DEF Asks
  <2> QED
    BY <2>1, <2>2
<1>14. PICK e : e = errno
  OBVIOUS
<1>15. /\ why = "eexist" => e = "EEXIST"
       /\ why = "wrong_file_type" => e = "ENOTDIR"
       /\ why = "no_inode_permission" => e = "EPERM"
       /\ why = "no_unlink_permission" => e \in {"EACCES", "EPERM"}
       /\ why \in OfPermission => e = "EACCES"
  BY <1>8, <1>9, <1>10, <1>11, <1>12, <1>14
<1>16. e \in explains[why]
  BY <1>15 DEF explains, OfTheObject, OfPermission
<1> QED
  BY <1>3, <1>13, <1>14, <1>16
-----------------------------------------------------------------------------
(* Of an object that was found, only the interpreter of a script can be a  *)
(* loop of links.                                                          *)
LEMMA LoopIsOfExecve ==
    ASSUME NEW tree, NEW w, NEW slash, NEW op,
           op \in Syscall, FoundErrno(tree, w, slash, op) = "ELOOP"
    PROVE  op = "execve"
<1>1. PICK obj, ok, given : /\ obj = tree[w.obj] /\ ok = "OK"
                            /\ given = FoundErrno(tree, w, slash, op)
  OBVIOUS
<1>2. op \in {"stat", "lstat", "readlink", "chown", "lchown"} => given = "OK"
  BY <1>1 DEF FoundErrno, Removes
<1>3. ASSUME op \in {"chdir", "chroot"} PROVE given \in {"ENOTDIR", "EACCES", "OK"}
  <2>1. PICK c, d, p, q : /\ c = (obj.type # "dir") /\ d = ~Granted(obj, "x")
                          /\ p = <<c, "ENOTDIR">> /\ q = <<d, "EACCES">>
    OBVIOUS
  <2>2. given = FirstOf(<<p, q>>, ok)
    BY <1>1, <1>3, <2>1 DEF FoundErrno, Removes
  <2>3. FirstOf(<<p, q>>, ok) \in {"ENOTDIR", "EACCES", ok}
    BY <2>1, FirstTwo
  <2> QED
    BY <1>1, <2>2, <2>3
<1>4. op \in {"chmod", "utime_times", "utime_now"} => given \in {"OK", "EPERM", "EACCES"}
  BY <1>1 DEF FoundErrno, Removes
<1>5. ASSUME op = "truncate" PROVE given \in {"EISDIR", "EACCES", "OK"}
  <2>1. PICK c, d, p, q : /\ c = (obj.type = "dir") /\ d = ~Granted(obj, "w")
                          /\ p = <<c, "EISDIR">> /\ q = <<d, "EACCES">>
    OBVIOUS
  <2>2. given = FirstOf(<<p, q>>, ok)
    BY <1>1, <1>5, <2>1 DEF FoundErrno, Removes
  <2>3. FirstOf(<<p, q>>, ok) \in {"EISDIR", "EACCES", ok}
    BY <2>1, FirstTwo
  <2> QED
    BY <1>1, <2>2, <2>3
<1>6. op \in {"access_r", "access_w", "access_x", "access_x_directory", "open_rdonly"}
      => given \in {"OK", "EACCES"}
  BY <1>1 DEF FoundErrno, Removes
<1>7. op \in {"open_excl", "mkdir", "mknod", "symlink"} => given \in {"EISDIR", "EEXIST"}
  BY <1>1 DEF FoundErrno, Removes
<1>8. ASSUME op \in Removes PROVE given # "ELOOP"
  <2>1. given = RemoveErrno(tree, w, slash, op)
    BY <1>1, <1>8 DEF FoundErrno, Removes
  <2> QED
    BY <2>1, RemoveIs
<1>9. ASSUME op \in {"open_wronly", "open_creat"} PROVE given \in {"EISDIR", "EACCES", "OK"}
  <2>1. PICK c, d, p, q : /\ c = (obj.type = "dir" \/ w.slash \/ slash)
                          /\ d = ~Granted(obj, "w")
                          /\ p = <<c, "EISDIR">> /\ q = <<d, "EACCES">>
    OBVIOUS
  <2>2. given = FirstOf(<<p, q>>, ok)
    BY <1>1, <1>9, <2>1 DEF FoundErrno, Removes
  <2>3. FirstOf(<<p, q>>, ok) \in {"EISDIR", "EACCES", ok}
    BY <2>1, FirstTwo
  <2> QED
    BY <1>1, <2>2, <2>3
<1>10. op \in {"stat", "lstat", "readlink", "chown", "lchown", "chdir", "chroot", "chmod",
               "utime_times", "utime_now", "truncate", "access_r", "access_w", "access_x",
               "access_x_directory", "open_rdonly", "open_excl", "mkdir", "mknod",
               "symlink", "unlink", "rmdir", "open_wronly", "open_creat", "execve"}
  BY DEF Syscall, final_of
<1> QED
  BY <1>1, <1>2, <1>3, <1>4, <1>5, <1>6, <1>7, <1>8, <1>9, <1>10 DEF Removes

(* Where the kernel gave up, and what it found.                            *)
LEMMA TruthOfBlame ==
    ASSUME TInv, FInv, Accounted, Outer, ~LoopOfInterpreter, errno \in explains[why]
    PROVE  /\ why \in {"no_such_directory_entry", "no_new_entry_permission",
                       "no_search_permission"}
              => ObjectAt(lookup_directory) = RequestWalk.dir
           /\ why = "not_a_subdirectory"
              => ObjectAt(intermediate_path) = RequestWalk.dir
           /\ RequestWalk.err = "found" => ObjectAt(intermediate_path) = RequestWalk.obj
<1>0. /\ Accounts(why) /\ quiet /\ why \in Reasons /\ request.op \in Syscall
      /\ Asked = RequestWalk /\ FinalFacts(request.op, final_component)
  BY OuterWays DEF TInv, Accounted, Explained, plain
<1>1. /\ ObjectAt(lookup_directory) = ObjectIn(fs, lookup_directory)
      /\ ObjectAt(intermediate_path) = ObjectIn(fs, intermediate_path)
  BY DEF ObjectAt, ObjectIn
<1>2. why \in {"no_such_directory_entry", "no_new_entry_permission",
               "no_search_permission"}
      => ObjectAt(lookup_directory) = RequestWalk.dir
  BY <1>0, <1>1 DEF Accounts, FailedThere
<1>3. why = "not_a_subdirectory" => ObjectAt(intermediate_path) = RequestWalk.dir
  BY <1>0, <1>1 DEF Accounts
<1>4. ASSUME RequestWalk.err = "found" PROVE FoundThere
  <2>1. errno # "ELOOP"
    <3>1. PICK w, slash, op : /\ w = RequestWalk /\ slash = request.path.slash
                              /\ op = request.op
      OBVIOUS
    <3>2. errno = FoundErrno(fs, w, slash, op)
      BY <1>0, <1>4, <3>1, KernelTells
    <3>3. FoundErrno(fs, w, slash, op) = "ELOOP" => op = "execve"
      BY <1>0, <3>1, LoopIsOfExecve
    <3> QED
      BY <1>4, <3>1, <3>2, <3>3 DEF LoopOfInterpreter
  <2>2. why \notin {"symlink_loop", "too_many_symlinks"}
    BY <2>1 DEF explains
  <2>3. why # "empty_path"
    <3>1. ASSUME why = "empty_path" PROVE FALSE
      <4>1. PICK u \in Walkers(fs) : u = Walker(initial_pathname)
        BY WalkerType DEF TInv
      <4>2. u.err = "ENOENT"
        BY <1>0, <3>1, <4>1 DEF Accounts, Walker
      <4>3. Asked = u
        BY <4>1, <4>2, WalkUnfolds DEF Asked, TInv
      <4> QED
        BY <1>0, <1>4, <4>2, <4>3
    <3> QED
      BY <3>1
  <2>4. why \notin {"path_too_long", "name_too_long", "no_search_permission",
                    "no_such_directory_entry", "no_new_entry_permission",
                    "not_a_subdirectory", "dangling_symbolic_link", "none",
                    "directory_does_not_exist", "not_a_directory"}
    BY <1>0, <1>4 DEF Accounts, FailedThere, Dangles
  <2>5. why = "too_many_interpreters" \/ why \in OfTheObject
    BY <1>0, <2>2, <2>3, <2>4 DEF Reasons, explains, OfTheObject, OfPermission
  <2> QED
    BY <1>0, <2>5 DEF Accounts
<1>5. RequestWalk.err = "found" => ObjectAt(intermediate_path) = RequestWalk.obj
  BY <1>0, <1>1, <1>4 DEF FoundThere
<1> QED
  BY <1>2, <1>3, <1>5

LEMMA TruthKept ==
    ASSUME TInv, Holding, FInv, Understood
    PROVE  Truthful /\ BlamesTheRightObject
<1>1. ASSUME over, quiet, result = 0, ~FollowsTooFar, ~CwdOutOfReach
      PROVE  /\ Explained /\ Accounted /\ quiet /\ why \in Reasons
             /\ Outer \/ Nested
  <2>1. plain /\ Explained
    BY <1>1 DEF plain, Explained
  <2>2. Accounted
    BY <2>1, IsAccounted
  <2> QED
    BY <1>1, <2>1, <2>2 DEF FInv, TInv
<1>2. Truthful
  <2>1. SUFFICES ASSUME over, quiet, result = 0, ~FollowsTooFar, ~CreatesThroughLink,
                        ~RevisitsALink, ~PassesManyLinks, ~NotADirectoryToRemove,
                        ~CwdOutOfReach, ~TakenForAFile
                 PROVE  /\ errno \in explains[why]
                        /\ why = "not_possible_to_execute" => request.op = "execve"
    BY DEF Truthful
  <2>2. Accounted /\ (Outer \/ Nested)
    BY <1>1, <2>1
  <2>3. CASE Nested
    BY <2>1, <2>2, <2>3, NestedTruth
  <2>4. CASE Outer /\ why \in OfTheObject
    BY <2>1, <2>2, <2>4, TruthOfTheObject
  <2>5. CASE Outer /\ why \notin OfTheObject
    <3>1. errno \in explains[why]
      BY <2>1, <2>2, <2>5, TruthOfTheWay
    <3> QED
      BY <2>5, <3>1 DEF OfTheObject, OfPermission
  <2> QED
    BY <2>2, <2>3, <2>4, <2>5
<1>3. BlamesTheRightObject
  <2>1. SUFFICES ASSUME over, quiet, result = 0, errno \in explains[why],
                        final_component.follow_interpreter, ~FollowsTooFar,
                        ~CwdOutOfReach, ~LoopOfInterpreter
                 PROVE  /\ why \in {"no_such_directory_entry", "no_new_entry_permission",
                                    "no_search_permission"}
                           => ObjectAt(lookup_directory) = RequestWalk.dir
                        /\ why = "not_a_subdirectory" /\ RequestWalk.err # "found"
                           => ObjectAt(intermediate_path) = RequestWalk.dir
                        /\ RequestWalk.err = "found"
                           => ObjectAt(intermediate_path) = RequestWalk.obj
    BY DEF BlamesTheRightObject
  <2>2. Accounted /\ (Outer \/ Nested)
    BY <1>1, <2>1
  <2>3. ~Nested
    BY <2>1, InterpreterFields DEF Nested
  <2> QED
    BY <2>1, <2>2, <2>3, TruthOfBlame
<1> QED
  BY <1>2, <1>3

(* All that the proofs have found invariant, together.                     *)
AllInv == TInv /\ LInv /\ DInv /\ QInv /\ EInv /\ Holding /\ FInv

LEMMA AllKept == Spec => []AllInv
<1>1. Init => AllInv
  BY TypeInitial, ListInitial, DirectoryInitial, QuestionInitial, EInitial,
     HoldingInitial, FirstInitial DEF AllInv
<1>2. AllInv /\ [Next]_vars => AllInv'
  <2> SUFFICES ASSUME AllInv, [Next]_vars PROVE AllInv'
    OBVIOUS
  <2>1. TInv /\ LInv /\ DInv /\ QInv /\ EInv /\ Holding /\ FInv
    BY DEF AllInv
  <2>2. TInv'
    BY <2>1, TypeInductive
  <2>3. LInv' /\ DInv' /\ QInv'
    BY <2>1, ListInductive, DirectoryInductive, QuestionInductive
  <2>4. EInv' /\ Holding' /\ FInv'
    BY <2>1, EInductive, HoldingInductive, FirstInductive
  <2> QED
    BY <2>2, <2>3, <2>4 DEF AllInv
<1> QED
  BY <1>1, <1>2, PTL DEF Spec

(* An explanation accounts for the errno that the kernel gave, whatever    *)
(* the tree, if nothing is written after the last name of a path, the      *)
(* root can be searched and the process overrides no permission.           *)
THEOREM TruthTold == Spec => [](Understood => Truthful)
<1>1. AllInv => (Understood => Truthful)
  BY TruthKept DEF AllInv
<1> QED
  BY <1>1, AllKept, PTL

(* What an explanation names is, under the same conditions, what the       *)
(* kernel gave up at, or found.                                            *)
THEOREM BlameIsRight == Spec => [](Understood => BlamesTheRightObject)
<1>1. AllInv => (Understood => BlamesTheRightObject)
  BY TruthKept DEF AllInv
<1> QED
  BY <1>1, AllKept, PTL
=============================================================================
