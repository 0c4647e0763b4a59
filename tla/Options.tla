------------------------------- MODULE Options -------------------------------
(***************************************************************************)
(* The options of the library (option.c) and the name of the program       *)
(* (program_name.c), both kept in static variables.                        *)
(*                                                                         *)
(* The environment variable is read when the first option is asked for.    *)
(* No lock protects the table: two threads may read the environment at     *)
(* once, and a client may set an option while another thread still reads.  *)
(* An action is one access to the shared variables; an assignment is two,  *)
(* of level and value, which nothing orders for another thread.            *)
(***************************************************************************)
EXTENDS Integers, Sequences, FiniteSets

CONSTANTS
    Thread,
    Environments,       \* the item lists that EXPLAIN_OPTIONS may hold
    Similar,            \* external: the option that fstrcmp finds for a name
    Asked,              \* the options that clients ask for
    Yesno, Columns,     \* arguments of the two setters
    Name                \* what explain_program_name_set may find in its argument

Default == [debug                 |-> 0, numeric_errno     |-> 1,
            dialect_specific      |-> 1, internal_strerror |-> 0,
            assemble_program_name |-> 1, hanging_indent    |-> 0,
            symbolic_mode_bits    |-> 0, extra_device_info |-> 1]
Option == DOMAIN Default

\* The names of the table; "program-name" is there for compatibility.
table == [n \in Option \cup {"program_name"} |->
             IF n = "program_name" THEN "assemble_program_name" ELSE n]

\* option_level_t; nothing is ever at level 1.
default_level     == 0
environment_level == 2
client_level      == 3

\* An item of the environment variable: (no-)name(=n).
Item == [name : STRING, no : BOOLEAN, eq : Seq(Int)]

Operation ==
    [do : {"get"}, option : Asked]
    \cup [do : {"set"}, option : {"assemble_program_name"}, arg : Yesno]
    \cup [do : {"set"}, option : {"hanging_indent"}, arg : Columns]
    \cup [do : {"name"}, arg : Name]

Idle == [do |-> "nothing"]

VARIABLES
    initialised, option, progname,      \* the static variables
    environ,        \* the value of EXPLAIN_OPTIONS; clients may change it
    pc, op,         \* of each thread
    frames,         \* the calls of initialise a thread is in, the innermost first
    pending,        \* the assignment a thread is making
    errno,          \* of each thread
    known,          \* history: the items that were read, as a sequence of them
    set,            \* history: what clients set each option to
    raced           \* history: a thread used the table while another changed it

vars == <<initialised, option, progname, environ, pc, op, frames, pending,
          errno, known, set, raced>>

Nothing == [option |-> "debug", level |-> 0, value |-> 0, left |-> {}]

\* A char, or what a setter takes.
Value == -128 .. 127 \cup {n \in Columns : n > 0}

ASSUME ArgumentsAssumption ==
    /\ Environments \subseteq Seq(Item)
    /\ Asked \subseteq Option
    /\ Yesno \subseteq Int
    /\ Columns \subseteq Int
    /\ \A n \in DOMAIN Similar : \E o \in Option : Similar[n] \subseteq {o}
    /\ Name \subseteq STRING

Init ==
    /\ initialised = FALSE
    /\ option = [o \in Option |-> [level |-> default_level, value |-> Default[o]]]
    /\ progname = ""
    /\ environ \in Environments
    /\ pc = [t \in Thread |-> "idle"]
    /\ op = [t \in Thread |-> Idle]
    /\ frames = [t \in Thread |-> <<>>]
    /\ pending = [t \in Thread |-> Nothing]
    /\ errno = [t \in Thread |-> "client"]
    /\ known = <<>>
    /\ set = [o \in Option |-> <<>>]
    /\ raced = FALSE

-----------------------------------------------------------------------------
(***************************************************************************)
(* What process makes of an item.                                          *)
(***************************************************************************)
\* Mutant: value_t is an int.
int(n) == n

\* value_t is a char.
byte(n) == ((n + 128) % 256) - 128

item_value(item) ==
    LET v == IF item.eq = <<>> THEN 1 ELSE byte(item.eq[1])
    IN  IF ~item.no THEN v ELSE IF v = 0 THEN 1 ELSE 0

\* The options an item means: one, or none for a name that nothing is like.
meant(item, debug) ==
    IF item.name \in DOMAIN table THEN {table[item.name]}
    ELSE IF debug # 0 /\ item.name \in DOMAIN Similar THEN Similar[item.name]
    ELSE {}

\* Mutant: an item does not replace one of its own level.
may_assign_once(level, o) == level > option[o].level

may_assign(level, o) == level >= option[o].level

\* explain_option_hanging_indent, for a line of 80 columns.
indent(n) == IF n <= 0 THEN 0 ELSE IF n > 8 THEN 8 ELSE n

given(o, value) == IF o = "hanging_indent" THEN indent(value) ELSE value

\* The setters: !!yesno, and no negative columns.
normal(o, arg) ==
    IF o = "hanging_indent" THEN (IF arg < 0 THEN 0 ELSE arg)
    ELSE IF arg = 0 THEN 0 ELSE 1

-----------------------------------------------------------------------------
Goes(t, where) == pc' = [pc EXCEPT ![t] = where]

Returns(t) == Goes(t, "idle") /\ op' = [op EXCEPT ![t] = Idle]

Busy(u) == pc[u] \in {"initialise", "reading", "warning", "storing"}

\* An access of t to the table while another thread is changing it.
Access(t) == raced' = (raced \/ \E u \in Thread \ {t} : Busy(u))

Ask(t, o) ==
    /\ pc[t] = "idle"
    /\ IF o.do = "name"
       THEN progname' = o.arg
       ELSE UNCHANGED progname
    /\ IF o.do = "name" /\ o.arg # ""
       THEN UNCHANGED <<pc, op>>
       ELSE /\ op' = [op EXCEPT ![t] = o]
            /\ Goes(t, IF o.do = "name" THEN "unnamed" ELSE "test")
    /\ UNCHANGED <<initialised, option, environ, frames, pending, errno, known, set, raced>>

\* A program without a name is not mentioned.
Unnamed(t) ==
    /\ pc[t] = "unnamed"
    /\ op' = [op EXCEPT ![t] =
                 [do |-> "set", option |-> "assemble_program_name", arg |-> 0]]
    /\ Goes(t, "test")
    /\ UNCHANGED <<initialised, option, progname, environ, frames, pending,
                   errno, known, set, raced>>

Test(t) ==
    /\ pc[t] = "test"
    /\ Goes(t, IF initialised THEN "use" ELSE "initialise")
    /\ UNCHANGED <<initialised, option, progname, environ, op, frames, pending,
                   errno, known, set, raced>>

\* Mutant: the flag is set elsewhere, when all is read.
MarkLater == UNCHANGED initialised

Mark == initialised' = TRUE

Initialise(t) ==
    /\ pc[t] = "initialise"
    /\ Access(t)
    /\ Mark
    /\ frames' = [frames EXCEPT ![t] =
                     <<[items |-> environ, err |-> errno[t]]>> \o @]
    /\ known' = Append(known, environ)
    /\ Goes(t, "reading")
    /\ UNCHANGED <<option, progname, environ, op, pending, errno, set>>

Reading(t) ==
    /\ pc[t] = "reading"
    /\ Access(t)

\* Mutant: an unknown name is not passed over.
rest_known(items) == IF items[1].name \in DOMAIN table THEN Tail(items) ELSE items

rest(items) == Tail(items)

advanced(frame) == [frame EXCEPT !.items = rest(@)]

\* The next item is read; the level of the option it means is looked at.
ReadItem(t) ==
    LET item == frames[t][1].items[1]
        warn == item.name \notin DOMAIN table /\ option.debug.value # 0
        next == {o \in meant(item, option.debug.value) :
                    may_assign(environment_level, o)}
    IN  /\ Reading(t)
        /\ frames[t][1].items # <<>>
        /\ frames' = [frames EXCEPT ![t] = <<advanced(@[1])>> \o Tail(@)]
        /\ IF next = {}
           THEN /\ Goes(t, IF warn THEN "warning" ELSE "reading")
                /\ UNCHANGED pending
           ELSE /\ \E o \in next : pending' = [pending EXCEPT ![t] =
                        [option |-> o, level |-> environment_level,
                         value |-> item_value(item),
                         left |-> {"level", "value"}
                                  \cup (IF warn THEN {"warn"} ELSE {})]]
                /\ Goes(t, "storing")
        /\ UNCHANGED <<initialised, progname, option, environ, op, errno, known, set>>

\* One part of an assignment.
Store(t, part) ==
    LET p    == pending[t]
        left == p.left \ {part}
        reads == frames[t] # <<>>
    IN  /\ pc[t] = "storing"
        /\ Access(t)
        /\ part \in p.left \cap {"level", "value"}
        /\ option' = [option EXCEPT ![p.option][part] = p[part]]
        /\ pending' = [pending EXCEPT ![t] = IF left \subseteq {"warn"}
                                             THEN Nothing
                                             ELSE [@ EXCEPT !.left = left]]
        /\ IF left \subseteq {"warn"}
           THEN IF reads
                THEN /\ Goes(t, IF left = {} THEN "reading" ELSE "warning")
                     /\ UNCHANGED op
                ELSE Returns(t)
           ELSE UNCHANGED <<pc, op>>
        /\ set' = IF ~reads /\ left = {}
                  THEN [set EXCEPT ![p.option] = <<p.value>>]
                  ELSE set
        /\ UNCHANGED <<initialised, progname, environ, frames, errno, known>>

\* explain_wrap_and_print asks for the hanging indent in its turn.
Warn(t) ==
    /\ pc[t] = "warning"
    /\ errno' = [errno EXCEPT ![t] = "disturbed"]
    /\ Goes(t, IF initialised THEN "reading" ELSE "initialise")
    /\ UNCHANGED <<initialised, option, progname, environ, op, frames, pending, known, set, raced>>

\* Mutant: what the warning left in errno stays there.
restored_not(t) == errno[t]

restored(t) == frames[t][1].err

EndReading(t) ==
    /\ Reading(t)
    /\ frames[t][1].items = <<>>
    /\ errno' = [errno EXCEPT ![t] = restored(t)]
    /\ frames' = [frames EXCEPT ![t] = Tail(@)]
    /\ Goes(t, IF Len(frames[t]) = 1 THEN "use" ELSE "reading")
    /\ UNCHANGED <<initialised, option, progname, environ, op, pending,
                   known, set>>

told(t) == given(op[t].option, option[op[t].option].value)

Get(t) ==
    /\ pc[t] = "use"
    /\ op[t].do = "get"
    /\ Access(t)
    /\ Returns(t)
    /\ UNCHANGED <<initialised, option, progname, environ, frames, pending,
                   errno, known, set>>

Set(t) ==
    /\ pc[t] = "use"
    /\ op[t].do = "set"
    /\ Access(t)
    /\ IF option[op[t].option].level <= client_level
       THEN /\ pending' = [pending EXCEPT ![t] =
                    [option |-> op[t].option, level |-> client_level,
                     value |-> normal(op[t].option, op[t].arg),
                     left |-> {"level", "value"}]]
            /\ Goes(t, "storing")
            /\ UNCHANGED op
       ELSE Returns(t) /\ UNCHANGED pending
    /\ UNCHANGED <<initialised, option, progname, environ, frames, errno, known, set>>

\* External: the client's putenv, before a thread of the library reads.
PutEnv(e) ==
    /\ known = <<>>
    /\ environ' = e
    /\ UNCHANGED <<initialised, option, progname, pc, op, frames, pending,
                   errno, known, set, raced>>

Work(t) ==
    \/ Unnamed(t) \/ Test(t) \/ Initialise(t) \/ ReadItem(t)
    \/ \E part \in {"level", "value"} : Store(t, part)
    \/ Warn(t) \/ EndReading(t) \/ Get(t) \/ Set(t)

Next ==
    \/ \E t \in Thread : Work(t) \/ \E o \in Operation : Ask(t, o)
    \/ \E e \in Environments : PutEnv(e)

\* A thread goes on with what it began.
Spec == Init /\ [][Next]_vars /\ \A t \in Thread : WF_vars(Work(t))

-----------------------------------------------------------------------------
(***************************************************************************)
(* Types.  What is pending belongs to a thread that stores.                *)
(***************************************************************************)
TypeOK ==
    /\ initialised \in BOOLEAN
    /\ option \in [Option -> [level : {0, 2, 3}, value : Value]]
    /\ progname \in Name \cup {""}
    /\ environ \in Environments
    /\ pc \in [Thread -> {"idle", "unnamed", "test", "initialise", "reading",
                          "storing", "warning", "use"}]
    /\ op \in [Thread -> Operation \cup {Idle} \cup
            [do : {"set"}, option : {"assemble_program_name"}, arg : {0}]]
    /\ frames \in [Thread -> Seq([items : Seq(Item), err : {"client", "disturbed"}])]
    /\ pending \in [Thread -> [option : Option, level : {0, 2, 3}, value : Value,
                               left : SUBSET {"level", "value", "warn"}]]
    /\ \A t \in Thread : (pc[t] = "storing") <=> (pending[t].left # {})
    /\ errno \in [Thread -> {"client", "disturbed"}]
    /\ known \in Seq(Environments)
    /\ set \in [Option -> Seq(Int)]
    /\ raced \in BOOLEAN

(***************************************************************************)
(* The environment is read once.  A warning that is printed while it is    *)
(* read asks for an option and does not begin to read it again, in no      *)
(* thread, whatever the others do; and threads whose accesses do not       *)
(* overlap read it once between them (option.c:201, 191, 348).             *)
(***************************************************************************)
ReadsOnce ==
    /\ \A t \in Thread : Len(frames[t]) <= 1
    /\ ~raced => Len(known) <= 1

(***************************************************************************)
(* Asking for an option keeps errno, which the caller may be about to      *)
(* explain, also when the environment is read for it and a warning is      *)
(* printed meanwhile (option.c:200, 244).                                  *)
(***************************************************************************)
ErrnoKept == \A t \in Thread : pc[t] \in {"idle", "use"} => errno[t] = "client"

\* The defaults that are documented: explain(3), option.h, and of the name of
\* the program program_name.h:69-70.
Documented == [debug                 |-> 0, extra_device_info |-> 1,
               numeric_errno         |-> 1, dialect_specific  |-> 1,
               hanging_indent        |-> 0, internal_strerror |-> 0,
               assemble_program_name |-> 0, symbolic_mode_bits |-> 0]

\* What an item says, as it is written.
item_says(item) ==
    LET v == IF item.eq = <<>> THEN 1 ELSE item.eq[1]
    IN  IF ~item.no THEN v ELSE IF v = 0 THEN 1 ELSE 0

\* The value of o, when this has been said of the options.
Word(said, o) == IF said[o] = <<>> THEN Documented[o] ELSE said[o][1]

\* What an item makes of what those before it have said.
Said(item, before) ==
    [o \in Option |-> IF o \in meant(item, Word(before, "debug"))
                      THEN <<item_says(item)>> ELSE before[o]]

\* What the environment says up to each of its items: the last one that means
\* an option decides.  No levels here, and no table that is shared.
SaysUpto(items) ==
    LET after[i \in 0 .. Len(items)] ==
            IF i = 0 THEN [o \in Option |-> <<>>] ELSE Said(items[i], after[i - 1])
    IN  after

Says(items) == SaysUpto(items)[Len(items)]

\* The client's word comes first, then the environment's, then the default.
Spoken ==
    [o \in Option |-> IF set[o] # <<>> \/ known = <<>> THEN set[o]
                      ELSE Says(known[1])[o]]

Promised(o) == Word(Spoken, o)

(* Two exceptions.  When neither clients nor the environment say anything  *)
(* of it the name of the program is in the messages, as explain(3) and     *)
(* output.h:373-374 have it, though program_name.h:69-70 says "defaults to *)
(* false if not set there either".                                         *)
NamedByDefault(o) == o = "assemble_program_name" /\ Spoken[o] = <<>>

(* And a number in the environment that no char holds is taken for another *)
(* (option.c:61, 133): hanging-indent=200 is no indent at all.  It may     *)
(* also turn debug, and with it the search for similar names, on or off.   *)
Wide(item) == item.eq # <<>> /\ item.eq[1] \notin -128 .. 127

Narrowed(o) ==
    /\ set[o] = <<>> /\ known # <<>>
    /\ \E i \in DOMAIN known[1] :
          Wide(known[1][i]) /\ meant(known[1][i], 1) \cap {o, "debug"} # {}

(***************************************************************************)
(* A thread that asks for an option is told what clients set, or else what *)
(* the environment said when it was first needed, or else the documented   *)
(* default; the hanging indent within a tenth of the line.  This is so for *)
(* all orders of calls, and of items, that clients and the environment may *)
(* use, the two exceptions apart, as long as no thread used the table      *)
(* while another was changing it (option.c:146-150, output.h:376).         *)
(***************************************************************************)
AnswersPromised ==
    \A t \in Thread :
        /\ pc[t] = "use" /\ op[t].do = "get"
        /\ ~raced /\ \A u \in Thread \ {t} : ~Busy(u)
        /\ ~Narrowed(op[t].option)
        => LET o == op[t].option
               v == Promised(o)
           IN  told(t) = IF NamedByDefault(o) THEN 1
                         ELSE IF o # "hanging_indent" THEN v
                         ELSE CHOOSE n \in 0 .. 8 :
                                 n = v \/ (v < 0 /\ n = 0) \/ (v > 8 /\ n = 8)

(***************************************************************************)
(* Every call of every thread returns, also of threads that race, and also *)
(* from a warning about the options that are being read.                   *)
(***************************************************************************)
CallReturns == \A t \in Thread : (pc[t] # "idle") ~> (pc[t] = "idle")
=============================================================================
