------------------------------ MODULE Messages ------------------------------
(***************************************************************************)
(* How a message gets from the failing call to the reader, in a process    *)
(* with threads.  explain_fchown and its kin write into the one buffer of  *)
(* common_message_buffer.c; explain_message_fchown into the caller's; and  *)
(* explain_fchown_on_error hands the common buffer to explain_output_error *)
(* (output/error.c), which passes it to the parts of the registered        *)
(* output.  fchown stands for the four hundred calls: the files have the   *)
(* same shape.                                                             *)
(*                                                                         *)
(* A text is a sequence of pieces, and each buffer an array of cells, one  *)
(* for a piece, with a NUL behind the text.  A thread writes or reads one  *)
(* cell of a shared buffer at a time.  Calls nest, because an output that  *)
(* the client has written may use the library: the innermost frame of a    *)
(* thread is the first.                                                    *)
(***************************************************************************)
EXTENDS Integers, Sequences

CONSTANTS
    Thread,
    Call,           \* [form, uid, err]: the failing calls that clients make
    Outputs,        \* the registered output: its parts, "plain" or "client"
    NUL,
    MaxCalls        \* bound: each thread makes this many calls, nested ones apart

Form  == {"explain", "message", "on_error"}
Uid   == {c.uid : c \in Call}
Error == {c.err : c \in Call} \cup {"EPIPE"}
Errno == Error \cup {"client", "disturbed"}

\* What an output of the client fails at, and explains to somebody else.
Nested == [form |-> "explain", uid |-> CHOOSE u \in Uid : TRUE, err |-> "EPIPE"]

ASSUME CallAssumption ==
    /\ \A c \in Call : c.form \in Form /\ c.err \in STRING
    /\ Call = {[form |-> c.form, uid |-> c.uid, err |-> c.err] : c \in Call}
    /\ Call # {}
    /\ Outputs \subseteq Seq({"plain", "client"})
    /\ MaxCalls \in Nat
    /\ NUL \notin {<<"problem", u, n>> : u, n \in Uid}
                    \cup {<<tag, e>> : tag \in {"error", "note"}, e \in Errno}

VARIABLES
    common,     \* explain_common_message_buffer
    own,        \* of each thread: the buffer that it supplies
    pw,         \* external: the static area that getpwuid answers with
    output,     \* the parts of the registered output, in order
    errno,      \* of each thread
    frames,     \* of each thread: the library calls it is in
    made        \* of each thread: how many calls it has begun

vars == <<common, own, pw, output, errno, frames, made>>

Cell == 1 .. 4

\* Mutant: the position starts in front of the buffer.
Entered_before(c) ==
    [form |-> c.form, uid |-> c.uid, err |-> c.err, pc |-> "errno", errnum |-> "client",
     name |-> c.uid, position |-> 0, leaf |-> 1, text |-> "common",
     buf |-> <<>>, got |-> <<>>, said |-> <<>>, hold_errno |-> "client",
     spoilt |-> FALSE, mixed |-> FALSE]

\* A frame that has just been entered.  "err", what the system call failed
\* with, "spoilt" and "mixed" are history: others wrote to the common buffer,
\* or called getpwuid, while the frame still had to read what it put there.
Entered(c) ==
    [form |-> c.form, uid |-> c.uid, err |-> c.err, pc |-> "errno", errnum |-> "client",
     name |-> c.uid, position |-> 1, leaf |-> 1, text |-> "common",
     buf |-> <<>>, got |-> <<>>, said |-> <<>>, hold_errno |-> "client",
     spoilt |-> FALSE, mixed |-> FALSE]

Init ==
    /\ common \in {[i \in Cell |-> IF i < n THEN <<"note", "EPIPE">> ELSE NUL] : n \in Cell}
    /\ own = [t \in Thread |-> [i \in Cell |-> NUL]]
    /\ pw \in Uid
    /\ output \in Outputs
    /\ errno = [t \in Thread |-> "client"]
    /\ frames = [t \in Thread |-> <<>>]
    /\ made = [t \in Thread |-> 0]

-----------------------------------------------------------------------------
(***************************************************************************)
(* The text.                                                               *)
(***************************************************************************)
\* Mutant: the name is not copied before the message is assembled.
problem_late(f) == <<"problem", f.uid, pw>>

\* fchown(fildes = 3, owner = 1000 "joe", group = ...)
problem(f) == <<"problem", f.uid, f.name>>

\* "%s failed, %s because %s"
assembled(f) == <<problem(f), <<"error", f.errnum>>>>

\* explain_buffer_software_error.
software_error(e) == IF e = "EBADF" THEN <<<<"note", e>>>> ELSE <<>>

footnotes(f) == software_error(f.errnum)

\* What the text should be.
Message(f) ==
    <<<<"problem", f.uid, f.uid>>, <<"error", f.err>>>> \o software_error(f.err)

-----------------------------------------------------------------------------
Top(t) == frames[t][1]

In(t, where) == frames[t] # <<>> /\ Top(t).pc = where

ToOwn(f) == f.form = "message"

\* Frames that have yet to read the common buffer, to the end.
Depends(f) ==
    /\ ~ToOwn(f)
    /\ f.pc \notin {"errno", "init"}
    /\ f.text = "common"

\* The frame of t becomes f; the other frames that "hit" selects are "marked".
Becomes(t, f, hit(_), marked(_)) ==
    frames' = [u \in Thread |->
        [i \in DOMAIN frames[u] |->
            IF u = t /\ i = 1 THEN f
            ELSE IF hit(frames[u][i]) THEN marked(frames[u][i])
            ELSE frames[u][i]]]

Nobody(f) == FALSE
Same(f)   == f
Spoilt(f) == [f EXCEPT !.spoilt = TRUE]
Mixed(f)  == [f EXCEPT !.mixed = TRUE]
AtName(f) == f.pc = "name"

Goes(t, f) == Becomes(t, f, Nobody, Same)

\* The frame of t stores a piece in its buffer and becomes f.
Stores(t, at, piece, f) ==
    IF ToOwn(f)
    THEN /\ own' = [own EXCEPT ![t][at] = piece]
         /\ Goes(t, f)
         /\ UNCHANGED common
    ELSE /\ common' = [common EXCEPT ![at] = piece]
         /\ Becomes(t, f, Depends, Spoilt)
         /\ UNCHANGED own

\* The system call fails; the client asks for an explanation.
Fails(t, c) ==
    /\ frames[t] = <<>>
    /\ made[t] < MaxCalls
    /\ made' = [made EXCEPT ![t] = @ + 1]
    /\ errno' = [errno EXCEPT ![t] = c.err]
    /\ frames' = [frames EXCEPT ![t] = <<Entered(c)>>]
    /\ UNCHANGED <<common, own, pw, output>>

\* errno is read, before anything that changes it: hold_errno = errno, or the
\* argument of explain_errno_fchown.
TakeErrno(t) ==
    /\ In(t, "errno")
    /\ Goes(t, [Top(t) EXCEPT !.pc = "init", !.errnum = errno[t]])
    /\ UNCHANGED <<common, own, pw, output, errno>>

\* explain_string_buffer_init.
StartBuffer(t) ==
    /\ In(t, "init")
    /\ Stores(t, 1, NUL, [Top(t) EXCEPT !.pc = "lookup"])
    /\ UNCHANGED <<pw, output, errno>>

\* explain_buffer_uid asks getpwuid for the owner's name; fcntl and stat ask
\* the system, too.
Lookup(t) ==
    /\ In(t, "lookup")
    /\ pw' = Top(t).uid
    /\ errno' = [errno EXCEPT ![t] = "disturbed"]
    /\ Becomes(t, [Top(t) EXCEPT !.pc = "name"], AtName, Mixed)
    /\ UNCHANGED <<common, own, output>>

CopyName(t) ==
    /\ In(t, "name")
    /\ Goes(t, [Top(t) EXCEPT !.pc = "assemble", !.name = pw])
    /\ UNCHANGED <<common, own, pw, output, errno>>

\* One step of a function that stores s and a NUL behind it.
Storing(t, s, begins, next) ==
    LET f == Top(t)
        i == f.position - begins + 1
    IN  IF i <= Len(s)
        THEN Stores(t, f.position, s[i], [f EXCEPT !.position = @ + 1])
        ELSE Stores(t, f.position, NUL, [f EXCEPT !.pc = next])

\* explain_explanation_assemble: vsnprintf.
Assemble(t) ==
    /\ In(t, "assemble")
    /\ Storing(t, assembled(Top(t)), 1, "footnotes")
    /\ UNCHANGED <<pw, output, errno>>

\* And the footnotes behind it; then the message is there.
Footnotes(t) ==
    /\ In(t, "footnotes")
    /\ Storing(t, footnotes(Top(t)), 3,
               IF Top(t).form = "on_error" THEN "output" ELSE "print")
    /\ UNCHANGED <<pw, output, errno>>

-----------------------------------------------------------------------------
(***************************************************************************)
(* explain_output_error("%s", text).                                       *)
(***************************************************************************)
\* The option is asked for twice; between, any thread may set it.
OutputError(t) ==
    /\ In(t, "output")
    /\ \/ Goes(t, [Top(t) EXCEPT !.pc = "print"])
       \/ \E prefix \in {<<<<"program">>>>, <<>>} :
             Goes(t, [Top(t) EXCEPT !.pc = "copy", !.position = 1, !.buf = prefix])
    /\ UNCHANGED <<common, own, pw, output, errno>>

\* Mutant: what is printed is the argument and not the copy.
printed_argument(f) == "common"

\* The text that the message method is given.
printed(f) == "local"

Copy(t) ==
    LET f     == Top(t)
        piece == common[f.position]
    IN  /\ In(t, "copy")
        /\ Goes(t, IF piece = NUL
                   THEN [f EXCEPT !.pc = "print", !.text = printed(f)]
                   ELSE [f EXCEPT !.buf = Append(@, piece), !.position = @ + 1])
        /\ UNCHANGED <<common, own, pw, output, errno>>

\* explain_output_method_message for one part; or the client reads.  Nobody
\* else sees the copy.
PrintPart(t) ==
    LET f == Top(t)
        g == [f EXCEPT !.hold_errno = errno[t], !.position = 1]
    IN  /\ In(t, "print")
        /\ Goes(t, IF f.text = "local"
                   THEN [g EXCEPT !.pc = "told", !.got = f.buf]
                   ELSE [g EXCEPT !.pc = "read", !.got = <<>>])
        /\ UNCHANGED <<common, own, pw, output, errno>>

Read(t) ==
    LET f     == Top(t)
        piece == IF ToOwn(f) THEN own[t][f.position] ELSE common[f.position]
    IN  /\ In(t, "read")
        /\ Goes(t, IF piece = NUL
                   THEN [f EXCEPT !.pc = "told"]
                   ELSE [f EXCEPT !.got = Append(@, piece), !.position = @ + 1])
        /\ UNCHANGED <<common, own, pw, output, errno>>

Part(t) == output[Top(t).leaf]

\* The part of the output has the text, and may have changed errno.
Told(t) ==
    /\ In(t, "told")
    /\ Top(t).form = "on_error"
    /\ Part(t) = "plain"
    /\ errno' = [errno EXCEPT ![t] = "disturbed"]
    /\ Goes(t, [Top(t) EXCEPT !.pc = "printed"])
    /\ UNCHANGED <<common, own, pw, output>>

\* Or, written by the client, cannot send it and explains why.
ToldClient(t) ==
    /\ In(t, "told")
    /\ Top(t).form = "on_error"
    /\ Part(t) = "client"
    /\ errno' = [errno EXCEPT ![t] = "EPIPE"]
    /\ frames' = [frames EXCEPT ![t] =
                     <<Entered(Nested), [@[1] EXCEPT !.pc = "printed"]>> \o Tail(@)]
    /\ UNCHANGED <<common, own, pw, output>>

\* The method has returned; the next part of the tee.
Printed(t) ==
    LET f == Top(t)
    IN  /\ In(t, "printed")
        /\ errno' = [errno EXCEPT ![t] = f.hold_errno]
        /\ Goes(t, [f EXCEPT !.said = Append(@, f.got), !.got = <<>>, !.leaf = @ + 1,
                             !.pc = IF f.leaf < Len(output) THEN "print" ELSE "restore"])
        /\ UNCHANGED <<common, own, pw, output>>

\* Mutant: errno is left as the explanation left it.
held_not(t, f) == errno[t]

held(t, f) == f.errnum

Restore(t) ==
    /\ In(t, "restore")
    /\ errno' = [errno EXCEPT ![t] = held(t, Top(t))]
    /\ Goes(t, [Top(t) EXCEPT !.pc = "return"])
    /\ UNCHANGED <<common, own, pw, output>>

\* Back to the client, who has read the text, or to its output.  The client
\* has no more use for its buffer and for errno.
Return(t) ==
    /\ \/ In(t, "return")
       \/ In(t, "told") /\ Top(t).form # "on_error"
    /\ frames' = [frames EXCEPT ![t] = Tail(@)]
    /\ own' = [own EXCEPT ![t] = [i \in Cell |-> NUL]]
    /\ errno' = IF Len(frames[t]) = 1 THEN [errno EXCEPT ![t] = "client"] ELSE errno
    /\ UNCHANGED <<common, pw, output>>

-----------------------------------------------------------------------------
Work(t) ==
    \/ TakeErrno(t) \/ StartBuffer(t) \/ Lookup(t) \/ CopyName(t) \/ Assemble(t) \/ Footnotes(t)
    \/ OutputError(t) \/ Copy(t)
    \/ PrintPart(t) \/ Read(t) \/ Told(t) \/ ToldClient(t) \/ Printed(t)
    \/ Restore(t) \/ Return(t)

Next ==
    \E t \in Thread : \/ Work(t) /\ UNCHANGED made
                      \/ \E c \in Call : Fails(t, c)

Spec == Init /\ [][Next]_vars

-----------------------------------------------------------------------------
(***************************************************************************)
(* Types.  No reader of the common buffer runs past its end, whatever      *)
(* others write there meanwhile: the last cell is a NUL.                   *)
(***************************************************************************)
Text == {<<"program">>} \cup {<<"problem", u, n>> : u, n \in Uid}
            \cup {<<tag, e>> : tag \in {"error", "note"}, e \in Errno}
FramePC == {"errno", "init", "lookup", "name", "assemble", "footnotes", "output",
            "copy", "print", "read", "told", "printed", "restore", "return"}
Frame == [form : Form, uid : Uid, err : Error, pc : FramePC, errnum : Errno,
          name : Uid, position : Nat \ {0}, leaf : Nat \ {0},
          text : {"common", "local"}, buf : Seq(Text), got : Seq(Text),
          said : Seq(Seq(Text)), hold_errno : Errno,
          spoilt : BOOLEAN, mixed : BOOLEAN]
TypeOK ==
    /\ common \in [Cell -> Text \cup {NUL}]
    /\ own \in [Thread -> [Cell -> Text \cup {NUL}]]
    /\ common[4] = NUL /\ \A t \in Thread : own[t][4] = NUL
    /\ pw \in Uid
    /\ output \in Seq({"plain", "client"})
    /\ errno \in [Thread -> Errno]
    /\ frames \in [Thread -> Seq(Frame)]
    /\ made \in [Thread -> 0 .. MaxCalls]
    /\ \A t \in Thread : In(t, "copy") \/ In(t, "read") => Top(t).position \in Cell

Frames == UNION {{frames[t][i] : i \in DOMAIN frames[t]} : t \in Thread}

(***************************************************************************)
(* What is read is the message of the call, behind the name of the program *)
(* perhaps, unless somebody else, in another thread or in an output of the *)
(* client, wrote to the common buffer before the last of it was read, or   *)
(* getpwuid answered another thread in between.  So messages in the        *)
(* caller's buffer do not depend on the other messages, nor, once the name *)
(* of the program is put in front, does what is printed                    *)
(* (common_message_buffer.c:26, output/error.c:38-43).                     *)
(***************************************************************************)
MessageRight ==
    \A f \in Frames :
        f.pc = "told" /\ ~f.spoilt /\ ~f.mixed
            => f.got \in {Message(f), <<<<"program">>>> \o Message(f)}

(***************************************************************************)
(* All parts of an output print the same text, also when the first of them *)
(* uses the common buffer itself: when the name of the program is put in   *)
(* front, or else when nobody writes to that buffer meanwhile              *)
(* (output/tee.c:49-50, output/error.c:43).                                *)
(***************************************************************************)
PartsAgree ==
    \A f \in Frames :
        f.buf # <<>> \/ ~f.spoilt
            => \A i, j \in DOMAIN f.said : f.said[i] = f.said[j]

(***************************************************************************)
(* When explain_fchown_on_error returns, errno is what fchown failed with: *)
(* it was taken before the explanation, the parts of the output and what   *)
(* they explain in turn disturbed it (fchown_on_error.c:36-42).            *)
(***************************************************************************)
ErrnoKept == \A t \in Thread : In(t, "return") => errno[t] = Top(t).err

(***************************************************************************)
(* fchown.h:257 says of explain_message_errno_fchown "If a suitable        *)
(* message return buffer is supplied, this function is thread safe."       *)
(***************************************************************************)
ThreadSafe ==
    \A f \in Frames : f.form = "message" /\ f.pc = "told" => f.got = Message(f)
=============================================================================
