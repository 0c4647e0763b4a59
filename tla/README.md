# libexplain in TLA+

libexplain takes an `errno` that a system call returned and writes, in words,
what went wrong: which directory is missing, which permission bit forbids it,
which symbolic link dangles.  It does so after the fact, by asking the system
questions of its own; what it finds is only as good as the order in which it
asks, the flags it asks with, and the world standing still meanwhile.  These
modules model that code, TLC checks them on small trees, and TLAPS proves some
of the results for every value of the constants.

Paths below are relative to `src/libexplain-1.4/`.

## The system

| component | where | state | operations | hard parts |
|---|---|---|---|---|
| path resolution | `libexplain/buffer/errno/path_resolution.c` | the locals of one call (two, for a script): the rest of the path, the lookup directory, the list of links read | lstat, readlink, one component or link a round | other processes change the tree between two calls; rewriting of the path at links; loops; memory |
| permissions | `libexplain/have_permission.c`, `capability.c`, `group_in_groups.c` | none | have_*_permission, explain_*_permission | first class that matches; capabilities |
| explained system calls | `libexplain/buffer/errno/*.c` (470 files) | none | one switch on errno each, a `struct explain_final_t` for path resolution | the flags must agree with what the kernel does |
| output and exit | `libexplain/output.c`, `output/*.c`, `exit.c` | the registered output, the objects it owns, the handler of on_exit | register, message, exit, new, tee, destructor | ownership, exit called from atexit handlers, stderr closed |
| string buffer | `libexplain/string_buffer.c`, `string_buffer/*.c` | position and size of a fixed array | putc, puts, printf, truncate, rewind | silent truncation |
| options | `libexplain/option.c`, `program_name.c` | level and value of each option; initialised | getters, setters, lazy initialisation from the environment | precedence; warnings while initialising |
| environment | `libexplain/setenv_on_error.c`, `unsetenv_on_error.c` | `environ` | setenv, unsetenv where libc has none | deleting in place |
| message buffers | `libexplain/common_message_buffer.c`, all `explain_*()`, `*_or_die`, `*_on_error` | one buffer for all | write, print | shared by threads; errno kept across printing |
| explanation assembly | `libexplain/explanation/*.c` | three buffers and the errno | join call, error and explanation in the order of a translation | an array that is too small |
| word wrap | `libexplain/wrap_and_print.c` | none | wrap a text to the terminal | words longer than a line, letters of several bytes |
| other processes | `libexplain/lsof.c`, `fileinfo/*.c` | none | read /proc or the output of lsof | processes come and go |
| address checks | `libexplain/is_efault/*.c` | none | is a pointer, a string, readable | strings over several pages |
| bits and names | `libexplain/parse_bits/*.c`, `fstrcmp.c`, `path_search.c`, `string_list.c` | none | parse, print, find the most similar | |
| representations, ioctl tables | `libexplain/buffer/*.c`, `iocontrol/*.c` | none | one function per C type or ioctl | formatting |
| commands | `explain/`, `ioctl-scan/` | none | parse a command line, call the library | |
| build | `codegen/`, `catalogue*/`, `libexplain/ac/`, `etc/` | | | generated tables |

A failing call goes through `*_or_die` or `*_on_error`, which keep `errno`,
call `explain_errno_*` to fill the common message buffer (a string buffer), and
hand the text to the registered output.  `explain_errno_*` looks at the errno
and, for EACCES, EEXIST, ELOOP, ENAMETOOLONG, ENOENT, ENOTDIR and EPERM of a
call with a path, has path resolution walk the path again with the flags of
that call; path resolution asks the permission functions about each directory
and about the object at the end.  Everything shared with other processes is in
the file system; everything shared between calls is in the output, the options
and the message buffer.

What makes each part correct:

* path resolution: an explanation accounts for the errno that was given
  (*truthful*); every errno that names and permissions can cause is explained
  (*complete*); the walk asks the question the kernel was asked; the object
  named is the one where the kernel gave up; it ends, frees what it allocates
  and does not overrun its list, whatever others do to the tree;
* permissions: they agree with the kernel's, and a denial is accounted for;
* output: objects are freed once and not used afterwards, a message reaches
  somebody, exit is called once, the exit status is reported at most once;
* string buffer: what is in it is a prefix of what was asked for, and a client
  can tell that something was lost;
* options: the highest level wins, whatever the order of calls, the environment
  is read once, and asking leaves `errno` alone;
* environment: the array behaves as a map from names to values, a call that
  fails changes nothing;
* message buffers: what is read is the message of the call, all parts of an
  output get the same, and `errno` is that of the call afterwards;
* assembly and word wrap: what does not fit is taken from the explanation, no
  word is lost or torn, lines are as long as the terminal allows.

## The modules

    HavePermission ---- Permission ---- PermissionProofs
        |
    FileSystem                 the kernel: lstat, readlink, the walk
        |
    FinalComponent             what each call says of its last component
        |
    PathResolution ---- PathResolutionProofs
        |
    MCTree -- MCPath, MCPathRace

    Output ---- OutputProofs
       |
    MCOutput

    BoundedText <== StringBuffer ---- StringBufferProofs
                         |
                    MCStringBuffer

    EnvMap <== Environ ---- EnvironProofs
                  |
              MCEnviron

    Options ---- OptionsProofs          Messages ---- MessagesProofs
       |                                   |
    MCOptions                          MCMessages

    Explanation, Wrap ---- Text ---- TextProofs
                            |
                          MCText

A line is EXTENDS, `<==` is "is implemented by" (INSTANCE with a refinement
mapping).

`HavePermission` is `have_permission.c` as operators on a status and a process,
next to `KernelMay`, what the kernel grants.  `Permission` is the machine that
its callers make of it: ask, and when the answer is no, explain.  The option
dialect-specific, on which the explanations depend, is a variable that does not
change.

`FileSystem` is the other side of lstat and readlink.  It is not code of the
library: it is written from path_resolution(7), which the C file quotes rule by
rule, as a recursive function on the state of the walk (`WalkStep`).  The same
walk gives the errno of the call that failed, so that the model starts, as the
library does, with a call that really failed, and can compare.

`FinalComponent` has one record for each `explain_final_t` and the errno that
Linux gives the call (`KernelErrno`); the second is external.  `Asks` is the
choice access makes of what X_OK is to mean, and `passed_errno` the errno that
utime hands on.

`PathResolution` has the C function's locals as variables, and one action for
the code between two system calls: `LookupDirectory...` for what may happen at
the lstat of the lookup directory (fails, is a link, is no directory, is one),
`Intermediate...` and `SymbolicLink` for the lstat of the next component,
`ReadTheLink`, `DanglingLink` and `FollowTheLink` for a link, `CallForInterpreter`
and `ReturnToCaller` for the nested call that a script makes.  `Change` is
somebody else: any tree of the scenario may replace any other at any time.  A
path is a sequence of names with the marks *absolute* and *trailing slash*;
`path_join` drops "." and empty tails as the C function of that name does.
Names longer than NAME_MAX are the set `LongNames`; lengths of paths are counted
in components.  Blocks of memory are pairs *(frame, index)*.

`Output` is `output.c`, the classes of `output/`, and `exit.c`.  An object is a
record of its class, its stream and, for a tee, its two parts; `live` are those
not freed.  A method of a tee calls that of its parts, so the calls that are
still to be made are kept on a stack, and each action of `Library` makes the
first of them (`Destructor`, `Free`, `MessageToTee`, `MessageToLeaf`,
`MethodExit`, `ExitMethod`, `Exit`).  `Client` is the program that uses the
library: it makes objects, gives them away, prints, registers functions with
atexit, exits; the `*_on_error` and `*_or_die` functions are what it calls.
`System` is exit(3): it calls the functions in reverse order, one of which is
`grim_reaper`, and flushes the streams.  A message is its number.  A file has a
buffer which may be written at any message, as it is full or not; stderr has
none.  A client keeps to the rule of `output.h` that what it gave away it does
not use again, apart from registering what is registered, which `register.c`
tests for.  `exit_has_been_used` is not a variable: line 101 sets it after a
function that does not return.

`BoundedText` is what a string buffer promises: of the text its clients asked
for, by appending, joining, replacing or cutting, it shows the longest prefix
there is room for.  `StringBuffer` has the array, index by index, the position
and the size, and one action for each function that touches them.  The
position is one past the last index after `puts` has cut a string (it stores
what `strendcpy` returns) and at the last index after `putc` and `write` have;
`PrintfPastEnd` is a printf behind the former, where vsnprintf has no room and
strlen reads behind the array, and after which the size wraps.  What is found
there is any number of bytes up to `MaxStray`; `stray` remembers it.  In the
refinement mapping *room* is `maximum - 1` and *text* what a reader of the array
sees.  Paths are not joined in
arrays of two bytes, where a longer path that was cut to "." would be taken for
it; the arrays of the library that hold paths have PATH_MAX and more.

`EnvMap` is what setenv(3) and unsetenv(3) promise: a function from names to
values, calls that succeed and keep errno or fail and change nothing.
`Environ` is the array, with duplicates that a process may have inherited, and
the loops of the two functions one entry at a time, with every malloc that may
fail, and the functions around them that set errno.  One exception is in
EnvMap by name: setenv(name, NULL) deletes an entry in place and goes on with
the slot behind the one that slid in (`setenv_on_error.c:129-130`, where a
comment says "keep going, there could be more"), so that of two entries side by
side the second stays, and getenv finds it (`Uncover`).

`Options` is `option.c` with `explain_program_name_set`.  Level and value of the
eight options are variables that threads read and write one access at a time;
`frames` are the calls of `initialise` that a thread is in, because the warning
about an unknown item is wrapped with a hanging indent, which is an option.  An
item is its name, its "no-" and its "=n"; which option `fstrcmp` finds for a
misspelt name is given (`Similar`).  The number is narrowed to a char
(`byte`).  What the options should be is said beside it, without levels and
tables: the documented defaults (`Documented`), what an item says as it is
written (`item_says`), and whose word counts (`Spoken`, `Promised`).  `explain_program_name_set` does not turn the option on when it was
given a name, though `program_name.h:54` says it "also sets" it: it sets it off
when there is none.

`Messages` is the way of one message: `explain_fchown`, `explain_message_*`,
`explain_errno_*` and `explain_*_on_error`, for fchown, with the name of the
owner that getpwuid finds.  Each of the four hundred calls has these layers and
differs in what it says.  Threads write and read the common buffer, the caller's
buffer and the static area of getpwuid cell by cell; an output of the client may
use the library itself, so that calls nest.  The errno is a step of its own
(`TakeErrno`, the `hold_errno = errno` of `*_on_error`): what the rest of the
call writes, prints and restores is the errno it found there, and what the
system call failed with is a history (`err`).  `spoilt` and `mixed` are histories:
somebody else wrote to the common buffer, or called getpwuid, before the frame
had read what it put there.

`Explanation` is `explain_explanation_assemble_common`.  A text is a sequence of
bytes; a translation is a format for each of the three sentences, whose parts
come in any order.  `Wrap` is the loop of `explain_wrap_and_print_width`, a
character at a time, in the version for systems with mbrtowc.  Both see string
buffers as a text and a position.  `Text` composes them: the message goes from
the array of the caller to the terminal, cut where it did not fit, in the middle
of a letter perhaps.

## The runs

`permission` (`Permission`, `MCPermission.cfg`): two users, two groups, files
and directories, three different sets of bits for each class, every set of
groups and every set of the two capabilities.  One more user or group would
only be another stranger.  `AgreesWithKernel`: the library's yes and no are the
kernel's, but for a process with CAP_DAC_OVERRIDE and without
CAP_DAC_READ_SEARCH, which may read and search and is told that it may not
(`OverrideAlone`).  `SaysWhyNot`: a denial is explained by a class whose bits
deny it, with a capability that the process lacks, and no class that would have
allowed it and that the process is in is passed over in silence.  With the
option dialect-specific off nothing is said, neither class nor capability
(`Undetailed`): the code returns before it has written anything, for the sake of
the test suite (`have_permission.c:229-236`).

`path` (`MCPath`): nobody else touches the tree.  Four families of trees, each
with the calls it makes interesting: two symbolic links of ten bodies each;
names and paths too long; permissions, owners and the sticky bit for
twenty-one calls; scripts, interpreters and mount options for execve.  `MAXSYMLINKS` and
`SYMLOOP_MAX` are 4, so that loops, chains and the limit all occur.

* `Truthful`: 0 is returned only with an explanation of the errno.  The known
  exceptions have names: a call that follows no last link, explained as if it
  did (`FollowsTooFar`: unlink, rmdir, symlink), open(O_CREAT) through a dangling link
  (`CreatesThroughLink`), a link passed twice that is no loop (`RevisitsALink`),
  more links than the library's limit on the way to the file or to its
  interpreter (`PassesManyLinks`), rmdir of something
  else (`NotADirectoryToRemove`), a working directory that cannot be reached by
  its name (`CwdOutOfReach`).  And what cannot be executed is said to be so only
  to execve; the exception is access(X_OK) through a link to a directory that
  may not be searched (`TakenForAFile`: `explain_pathname_is_a_directory` asks
  lstat, and gets the link).
* `Complete`: every failure is explained, except for the trailing slash or dot
  (`EndsInSlash`), a working directory without search permission (`BlindCwd`:
  lstat(".") fails with EACCES, on which line 1134 gives up), the sticky bit asked instead
  of write permission (`StickyMuddle`), and an interpreter that is not asked
  about (`InterpreterNotAsked`).
* `SameQuestion`: at the top of every round, the rest of the path, walked by
  the kernel from the lookup directory, ends as the whole path does; and the
  assertion at line 1153 (the lookup directory is no link) holds while the tree
  stands still.  The exceptions are those in which the function asks something
  else: a path, or the body of a link, with a trailing slash or dot
  (`SomethingTrailsOff`: a slash becomes a dot, and `path_join` drops a dot at
  the end); a working directory or a root that may not be searched (`BlindCwd`:
  lstat(".") finds nothing; `BlindRoot`: "/" needs no permission, and the
  function asks for "/."); a working directory that
  cannot be reached by its name (`CwdOutOfReach`); and a name that the kernel
  found too long, met by a function that was asked about something else
  (`CutsAName`: it cuts the name and goes on).
* `BlamesTheRightObject`: the object that the explanation names is the one at
  which the kernel gave up, on the way to the file that was asked for.  Not so
  if the loop that the kernel met is on the way to its interpreter
  (`LoopOfInterpreter`).

`path_race` (`MCPathRace`): trees of a few shapes replace each other at any
moment, without limit, and every malloc may fail.  `ListsAreLive`,
`OnlyTwoLeaks` (every block is freed except on the ways out at 1594 and 1658),
`EachLinkOnce`, `ListHasRoom`, and `Returns`: the call ends.  The fairness is
`WF_vars(Call)`: the process that runs the call is scheduled again and again;
nothing is assumed of the others.

`output` (`MCOutput`): four kinds of client, one that makes trees of three
objects of every class, one of five (a tee of tees), one with a class of its own
whose exit method returns or throws, and one with two atexit functions which
fail in their turn while the exit status is to be reported.  A client makes its
objects before it exits, not in an atexit function.

* `OneOwner`: what is alive has exactly one owner (the registry, the client, a
  tee, a destructor that is running), what was freed has none; the two parts of
  a tee that could not be allocated are owned by nobody but `forgotten`.
* `CallsAreLive`: no method of a freed object is going to be called.
* `Arrives`: a message has reached each output that the registered tree had
  when it was printed, or is in a buffer that will be flushed.  Excused are
  stderr once it is closed (`StderrLost`) and one file opened twice
  (`SharedFile`: two streams write over each other).
* `StatusReported`: the exit status is printed at most once, and is the one
  the process ends with, unless a function of the client runs after
  `grim_reaper` and exits with another.
* `Ends`: what calls an exit method ends the process, but for the client's
  class, which may throw.  The fairness is `WF_vars` of `Library` and of
  `System`: code that was called runs on, exit calls the functions left, and an
  atexit function returns.  The client is not obliged to do anything.

`string_buffer` (`MCStringBuffer`): arrays of one to five bytes and the size -1;
seven texts that fit, fit exactly, or do not, among them those that path_join
treats specially; at most six characters asked for at a time (`MaxAsked`), one
more than any array holds; one stray byte (`MaxStray`).

* `ShowsPrefix`: whatever calls come in whatever order, the array holds,
  terminated, the longest prefix of what was asked: no text follows a hole.
* `LossTells`: `full()` is true whenever something was lost, and the position is
  the length as long as nothing was.
* `StrayIsPrintf`: memory behind the array is touched by a printf that follows a
  cutting puts, and by nothing else.
* `IsBoundedText`: the refinement.

`environ` (`MCEnviron`): two names and two values; six inherited arrays (none,
duplicates side by side, apart, at the end, three in a row, an entry without
"="); arguments that are null, bad pointers, empty or have "="; `MaxEntries` 2.

* `InArray`: the array ends with a NULL behind which is nothing, and no loop
  looks behind it.
* `IsEnvMap`: the refinement.
* `CallReturns`: under `WF_vars(Work)` a call that has begun returns.  The code
  blocks nowhere.

`options` (`MCOptions`): two threads that ask and set at any time; three
environments, with repetitions, negation, the alias, a value that a char does
not hold, misspelt names, and `debug` before and after them; another
environment may be put at any moment.

* `ReadsOnce`: a warning does not begin to read the environment again, and
  threads whose accesses do not overlap read it once between them.
* `ErrnoKept`: asking for an option keeps errno.
* `AnswersPromised`: a thread is told what a client set, else what the
  environment says, else the documented default, as long as no thread used the
  table while another changed it (`raced`: level and value are two
  assignments, which no lock keeps together, and nothing is promised of what a
  race leaves).  Two exceptions have names.  `NamedByDefault`: of
  assemble-program-name `program_name.h:69-70` says that it "defaults to false
  if not set there either", while `output.h:373-374` and explain(3) have the
  name in the messages unless it is turned off; the code has it in, and the
  comment in `program_name.h` is wrong of it.  `Narrowed`: an option that a
  number no char holds (`Wide`) may have touched, directly or by turning
  `debug`, and with it the search for similar names, on or off: value_t is a
  char, so that hanging-indent=200 is -56 and no indent at all.
* `CallReturns`: under `WF_vars(Work(t))` for each thread, also when they race.

`messages` (`MCMessages`): two threads, three calls of each of the forms, two
owners; an output of two parts of which the first uses the library.  `MaxCalls`
is 1, nested calls apart: a second call of a thread meets the buffers as any
call of the other thread has left them.  Threads are symmetric.

* `MessageRight`: what is read is the message of the call unless it was `spoilt`
  or `mixed`; so messages in the caller's buffer, and what is printed once the
  program's name is in front, do not depend on other messages.
* `PartsAgree`: all parts of a tee get the same text.
* `ErrnoKept`: when `*_on_error` returns, errno is that of the call: nothing
  has disturbed it before it was read, and it was kept through the lookups, the
  outputs and the calls that they made in their turn.

`text` (`MCText`): messages of one to three parts of at most ten bytes, two
languages, one of which begins with the explanation; arrays of 1 to 30 bytes; a
terminal narrower and one wider than the line buffer, which has six bytes
(`MAX_LINE_LENGTH`); the option for the indent off and too large.  So words
longer than the line and the array, letters cut in two by truncation and by the
array, and a failing fwrite occur.

* `ExplanationGivesWay`: when one byte of the explanation fits beside the call
  and the error (`Fits`), the message is the long form with the longest
  beginning of the explanation that fits; nothing else goes missing but the
  last byte, and footnotes.  When there is room for all of it, all of it is
  there.  When there is no explanation, or no room for a byte of it, the message
  is the short form.
* `NothingLost`: what is printed, with the line and the word in the making, is
  what was read, word for word.
* `LinesFilled`: no line is wider than the terminal but for a single word that
  is, and none ends before it must.

Three runs refute what a comment says; the findings quote the lines.
`claim_no_abort`: the lookup directory can be a symbolic link, after all, and
the assertion aborts.  `claim_exit_once`: an atexit function that fails makes
the library call exit again, where the comment has `_exit`.
`claim_thread_safe`: a thread that supplies a buffer of its own finds another
owner's name in its message, because a second thread, which explains a call in
the common buffer, has asked getpwuid between the two lines of the first that
ask it and copy the answer.

Other disagreements with comments are in the models as named exceptions: a
trailing slash after a link is lost (`EndsInSlash`); 0 is returned without the
expected error having been found (`RevisitsALink`, `PassesManyLinks`); a file opened to append to is emptied
(`fopen_truncates`: fopen ignores the "a" of "wa"); a file that could not be
opened leaves stderr closed after the reset to stderr (`StderrLost`); setenv
leaves a duplicate (`Uncover`); the program's name is in the messages by default
(`NamedByDefault`).

Where an exception is what a hazard comes to, the properties do not catch it:
they say that nothing else goes wrong.  `PROJECT.json` says so of each such
hazard, and names no property for it unless a part of it is caught.

## The proofs

`PermissionProofs` shows for all sets of users, groups, types and modes that
every behaviour of `Permission` satisfies `TypeOK`, `AgreesWithKernel` and
`SaysWhyNot`.  `SaysWhyNot` is not inductive: that nothing wrong is said
depends on the question having been denied.  `IInv` adds that answer and
explanation are those of the functions on the question, which never changes;
then each property is a fact about the functions alone (`OneExplanation`, and
`NoDetail` for the option dialect-specific turned off).

`PathResolutionProofs` is about every behaviour of `PathResolution`, whatever
the trees, the requests, the length of paths and SYMLOOP_MAX are, and whatever
other processes and malloc do.  It assumes what the module states of its
constants: SYMLOOP_MAX and PATH_MAX are positive numbers, and the library does
not follow more links than the kernel does (`SymloopAssumption`;
`symloopmax.c` takes what sysconf or the headers say, or eight, and Linux
follows forty);
"." is a name, and not too long, what long names are cut to are names
(`NamesAssumption`); a tree is closed under its entries, a root and a working
directory are there, and the "." of a directory is the directory (`IsTree` in
`ScenariosAssumption`; ".." may lead anywhere); NULL is no pointer
(`PointerAssumption`).

The invariant `Inv`, of what the function allocates, has three parts, proved in
this order, each from those before it:

* `TInv`: the variables have their types.  The work is in the lemmas: cutting,
  joining and splitting paths gives paths (`SkipDotsType`, `PathJoinType`,
  `NextComponentType`), and each chain of conditions ends in a known
  explanation (`FirstOfResult`, `SearchReason`, `ExistingReason`).
* `LInv`: the list has as many links as the count says, but for the moment
  between adding a link and counting it (`uncounted`), never more than the
  limit, and none twice; a nested call has no caller that is nested.
  `ListHasRoom` alone is not inductive: that there is room follows from the
  count having been compared with the limit when the last link was counted.
* `HInv`: the heap is exactly the blocks of this frame and those `lent` to it
  by the frame that called it, which are disjoint.  `ListsAreLive` says only
  that they are in the heap, which does not survive a free.

Most actions of `Next` do one of few things to the list and the heap.  `Kinds`
sorts them: steps that close the frame (`Closes`), that forget to (`Forgets`),
that go on (`Advances`), refuse (`Refuses`) or touch neither (`Stands`), and
the few that need an argument of their own: `Begin`, `ReadTheLink`,
`FollowTheLink`, `CallForInterpreter`, `ReturnToCaller`.  Both
induction steps are by these cases.

What the function asks is an invariant of two more parts, about a tree that
stands still:

* `DInv`: the lookup directory is one, which is what the assertion needs.  It
  is a directory because lstat said so, and lstat is a walk, so this comes down
  to `WalkUnfolds`: the recursion that defines the kernel's walk has a
  solution, for every tree, since every step takes one of the links that are
  allowed, or else a component off the path.
* `QInv`: at each place of the code, what is left to walk.  At the top of a
  round this is `pp` from the lookup directory with the links counted so far
  (`Ahead`); once a component has been taken it is the component and `pp`; once
  a link has been read it is its body joined to `pp`, from the lookup directory
  or from the root.  `SameQuestion` alone is not inductive, as it says nothing
  between two rounds; nor does it say that the lookup directory, which is a
  text, may be walked through.  `Ahead` adds that (`Leads`): whatever is walked
  to from the text is walked to from the directory it leads to, and none of
  its components is a link any more.

The steps of `QInv` compare two walks, and each comparison is an induction
along the walk (`LastOfWalk`: no set of walks is closed under the steps unless
one in it has ended).  Walks without the leading dots of a path end alike
(`DotsSkipped`), because `path_join` drops them and the kernel goes from a
directory to itself; what is found without a link is walked through
(`WalkThrough`), which is why the function may go on from getcwd's answer when
it confuses the directories; and the links of a walk begin with those it had
when it got here (`FirstLinks`), so that counting them is remembering them.
With that, `QuestionBegin`, `QuestionNextComponent`,
`QuestionIntermediateExists`, `QuestionSymbolicLink`, `QuestionReadTheLink`,
`QuestionFollowTheLink` and `QuestionCallForInterpreter` take one action each.
A component that is no link is one step of the kernel (`DownAhead`), and a link
is one step that splices (`LinkAhead`).

What the function answers needs three more parts:

* `EInv`: what the function holds at each label of the loop is what the tree
  has there: the answer of lstat is that of the lookup directory
  ("intermediate"), what is about to be read is a link ("readlink"), and what
  lstat is asked next is where the body of that link leads ("target").  And an
  interpreter is looked for under EACCES alone, by a call that would execute.
* `Holding`: every explanation given accounts for the way the walk in question
  ends (`Accounts`): no search permission, that this walk failed with EACCES in
  the directory that the lookup directory denotes; no such entry, that it
  failed with ENOENT, or found no entry, there; the reasons that are about an
  object (`OfTheObject`), that it found the object that the intermediate path
  denotes, and that this object is as the explanation says (`Tells`).  The
  walk in question is `Asked`: that of the path the function was called with,
  whose last link is followed if it is told to and there is one.
* `FInv`: that walk is the one of the kernel for the path of the request
  (`Outer`), or, once the function has called itself, that for the interpreter
  of the script which the path leads to (`Nested`); in the second case, the
  errno of execve is EACCES and came from the interpreter.

`Holding` is proved a way out at a time (the `Verdict` lemmas, one for each
action of the loop), each by comparing the step with `QInv`.  `FInv` is where
the calls of `FinalComponent` come in: what each says of its last component
(`FinalFields`) and what the kernel answers to it (`FirstOne`, `FirstTwo`,
`AbsentIs`, `RemoveIs`, `LoopIsOfExecve`); that the nested call is made only if
the file itself could be executed (`InterpreterAsked`).  Then an explanation is
a case of `Accounts`, and the errno a case of the kernel's:
`TruthOfTheWay` for what is said of the way to the last component,
`TruthOfTheObject` for what is said of an object that was found, `NestedTruth`
for the interpreter, `TruthOfBlame` for what the explanation names.

`TruthTold` and `BlameIsRight` state `Truthful` and `BlamesTheRightObject`
wherever `Understood` holds, which says three things of the tree and the
process: nothing is written after the last name of a path, of the body of a
link or of a script's interpreter (no `SomethingTrailsOff`); the root
may be searched (no `BlindRoot`); the process does not have CAP_DAC_OVERRIDE
(`NoOverride`).  Some paths and bodies of links in the run `path` do end in a
slash or a dot, and there both invariants hold all the same; but not for every
tree.  Without each of the three there is an example in which TLC finds
`Truthful` violated, outside the trees of the run: chmod of `e/`, where `e` may not be searched and belongs to somebody
else, fails with EPERM and is explained by the missing search permission, for
the function asks for `e/.`; so does chmod of `/`, where the root is such a
directory and the working directory is not confused with it; and a process with
CAP_DAC_OVERRIDE alone, whose stat of `e/x` fails because there is no `x`, is
told that it may not search `e`.

The theorems: `TypeCorrect` (`TypeOK`), `OneNesting` (`NestsOnce`), `LinkOnce`
(`EachLinkOnce`), `RoomForLinks` (`ListHasRoom`), `NoDoubleFree`
(`ListsAreLive`), `TwoLeaks` (`OnlyTwoLeaks`), `NoAssertionMet`
(`LookupDirectoryIsNoLink`), `QuestionKept` (`SameQuestion`), `TruthTold`
(`Truthful`) and `BlameIsRight` (`BlamesTheRightObject`).

`StringBufferProofs`, for all sizes, texts and characters, assumes
`CharAssumption` and `SizesAssumption`.  `ShowsPrefix` is not inductive: where the
next text is stored depends on the position.  The invariant is the
conjunction of `TypeOK`, `Shows`, `Tells` and `StrayIsPrintf` (`Holds`), each
stated of a buffer and a text, so that one lemma for each operation says what it
makes of them: `Ready` is what a caller of an operation may count on.  Theorems:
`TypeCorrect`, `PrefixShown`, `LossIsTold`, `OnlyPrintfStrays`, and `Refinement`,
which maps each action to the action of BoundedText of the same meaning.

`EnvironProofs`, for all names, values and inherited arrays, assumes
`NameAssumption` and `InheritedAssumption`.  Its invariant adds to `TypeOK` and
`InArray` what the loops know: until the call has done its work the
environment is as it `was` (`AsBefore`), but for a deletion in place; in front
of `ep` there is no entry for the name (`Scanned`); only names inherited
twice are in the array twice (`Doubles`); which errno is held where (`Errnos`);
which arguments got past the checks (`Asked`).  Theorems: `TypeCorrect`,
`StaysInArray`, and `Refinement`, that getenv sees a map.

`OptionsProofs`, for any number of threads, items and arguments, assumes
`ArgumentsAssumption`; what it asks of `Similar` is that a name is taken for one
option at most, as `fstrcmp` decides.  The invariant for the first three
theorems, `IInv`, says what a thread's frames are for each of its program
counters (`Framed`): in a frame it is reading or storing or warning, and a
thread that warns and asks finds `initialised` set.  `AnswersPromised` needs
`AInv` on top of it, because level and value are stored one after the other and
the items are stored one after the other: nothing is stored before the
environment is read (`Unread`); without a race a thread that changes the table
is the only one that uses it (`Alone`); and while a thread is reading there is a
place in the environment such that its frame holds the items behind it and the
table, but for the value that is about to be stored, what the items before it
make of it (`Reads`), which one more item changes as the code does
(`MadeUptoIs`).  This is of values, as the table has them (`Made`, `Kept`); that
they are what the items say, as written, is a second induction, along the items
alone: as long as no number that is too wide for a char touches the option or
`debug`, value and word agree (`AgreeAfter`, `SaidIsMade`), and so what is kept
is what was promised (`KeptIsPromised`).
Theorems: `TypeCorrect`, `ReadOnce`, `ErrnoIsKept`, `AnswersArePromised`.

`OutputProofs`, for clients that make any number of objects, tees, messages and
registrations, and whatever malloc does, assumes that NULL is no object
(`NullAssumption`) and that a client makes objects of the four plain classes and
has numbers for its limits (`ClientsAssumption`).  It has three invariants:

* `HInv`, for who owns what.  `OneOwner` is not inductive: while a tree is
  destroyed its owners are calls on the stack.  `HInv` adds what a step needs to
  know of the stack: its calls all destroy or none does (`Sorted`), and no two
  of them, nor a call and a hand, have the same object (`Apart`); every object
  in a hand is alive (`Alive`), and every live object is in a hand (`Covered`).
  A tee answers for its parts (`Keepers`) until its destructor has put them on
  the stack and itself behind them.  The steps are `Made` and `Lost` for objects
  that are made, `RegisterStep`, the three destructors, `FreeStep`, and one
  lemma (`Quietly`) for all the calls that destroy nothing.
* `EndInv`, for exit: how often `grim_reaper` is in the list of functions and
  among those that ran, and that a status was printed only if it ran, once.
* `SInv`, for messages: each that was printed has arrived at each leaf it was
  meant for, or is coming (`NoneLost`): in a call on the stack for that leaf or
  for a tee above it, or in the buffer of a file that is alive and will be
  flushed.  A step that takes the call from the stack, closes the file or writes
  the buffer has to move the message on; that no destructor overtakes a message
  is `Sorted` of `HInv`.

Theorems: `TypeCorrect`, `OneOwnerAlways`, `CallsAreLiveAlways`, `ArrivesAlways`,
`StatusIsReportedAlways`.

`MessagesProofs`, for any number of threads, calls, nestings and parts of an
output, assumes `CallAssumption`: NUL is no part of a text.  `MessageRight`
speaks of what has been read; to get there the invariant (`FrameOK`) says of
each frame, at each place of the code, how much of the text is in the buffer
(`Holds`), in the copy behind the program's name (`Copied`) and was read, unless
the frame is spoilt; and which name it has, unless it is mixed (`Named`).
`FrameOK` takes the frame and the buffer as values, so that what a write does to
the frames of other threads, and to those of the same thread that wait below,
is one lemma: their buffer changes only if they are spoilt by it.  For
`ErrnoKept` it says that errno is still that of the call when the frame reads it
(`ErrnoThere`), and that the frame has it from then on.  Theorems:
`TypeCorrect`, `MessageIsRight`, `PartsDoAgree`, `ErrnoIsKept`.

`TextProofs`, for any parts, translations, sizes, widths and indents, assumes
`ExplanationAssumption` and `WrapAssumption`: the long form of a translation
names each of the three parts once (`EachOnce`; the code counts on it when it
subtracts the length of each part once, `assemble_common.c:222-267`), the parts
are buffers as the string buffer leaves them (an empty one at position 0), and
the byte of the space is none of a letter.  Three invariants:

* `TInv`, the types, and that the message handed to stderr gives way
  (`Handed`).  The work is in `MessageGivesWay`: if each part is there once, the
  length of the message is the sum of the lengths (`LongLength`), in whatever
  order they come.
* `FInv`, for `LinesFilled`: `width_of_line` and `width_of_word` are the columns
  of what they stand for, no letter is cut by the reader, and the lines printed
  would be filled were the line in the making the last of them.
* `NInv`, for `NothingLost`: what is displayed has the letters and the words of
  what was read so far.  By itself that is not kept when a word begins, or when
  it is put down because its array is full: a space is displayed where perhaps
  none was read.  So `NInv` adds that the word in the making is what was read
  last, without a space (`InHand`), and that at the seams there is a space in
  the text, unless it has a word that no array holds (`Apart`).

Theorems: `TypeCorrect`, `ExplanationGivesWayAlways`, `LinesFilledAlways`,
`NothingIsLost`.

The texts and the answers of the environment are defined by recursive functions
along a list.  What such a function is, the proofs show by induction on a set
of naturals (`Induction`, from the well-foundedness of < in the library) and
from the definition of the function (`Recursion`), so that no theorem
takes an operator for a parameter.  `Letters`, `Words` and `OneText` are unfolded
at the end (`LettersMore`, `WordsMore`, `OneTextMore`), and then added to
(`LettersAdd`, `AlikeAdd`, `SpacesAdd`).

By TLC only are checked: liveness (`Returns`, `Ends`, `CallReturns`), which is
out of the prover's reach; `Truthful` and `BlamesTheRightObject` where
`Understood` does not hold; and `Complete`, that every failure is explained.
That one is about the ways out which give up, of which `Holding` says nothing: among them a path that
outgrows PATH_MAX while links are spliced in, and a malloc that fails when the
list of links is to be made.  So it depends on the sizes, and on malloc:
`Complete` is a property of the lengths and the malloc of the run, not of all.

## Not modelled

* Wording.  What an explanation says is a verdict and the object it is about;
  sentences and the comparison of similar names are left out.
* Lengths of paths in bytes.  Paths are counted in components; a path that
  outgrows its `char[PATH_MAX]` when links are followed is seen by
  `StringBuffer` only, as a text that is cut.
* What a C compiler may do with a stream after fclose: a message to a closed
  stderr is lost, and nothing else happens.  Likewise what a write behind the
  array of a string buffer destroys.
* In `Output`, a malloc that fails while a plain object is made, which changes
  nothing, and a tee of a null pointer, which is the other part.
* The five quoting functions of the string buffer (`putc_escaped` to
  `puts_shell_quoted`): each is a sequence of putc and puts.
* How the width of the terminal is found: any width is an input.
* The version of word wrap for systems without mbrtowc.
* Runs of a walk by a process with capabilities: that of `path` and `path_race`
  has none (`User`).  The modules have the tests of capabilities, and
  `TruthTold` all processes without CAP_DAC_OVERRIDE, but what line 1858 makes
  of it, a privileged process that is not told of noexec, occurs in no run.
* The tables: four hundred explanations that repeat the pattern of the
  calls in `FinalComponent` and of fchown in `Messages`, nine hundred functions
  that print a C type, and the table of ioctls.  They are most of the
  repository's lines, and have no state.
* The commands, the generator, the substitutes for headers.
* The parts listed in the plan.

## Plan

What is left:

1. `OpenFiles`: `/proc` and the output of lsof read while processes open and
   close files.
2. `ParseBits`, `PathSearch`: pure algorithms, as recursive functions, against
   reference definitions over bounded inputs; a string tested for EFAULT over
   several pages.
3. The calls of two paths (link, rename, mount), which walk the second when the
   first explains nothing, on top of `FinalComponent`.
4. Proofs: `Complete`, with the sizes that it needs as assumptions; and
   `Truthful` for paths with a trailing slash, where the function asks for a
   dot and the kernel for a directory.
