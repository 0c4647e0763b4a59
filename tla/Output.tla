------------------------------- MODULE Output -------------------------------
(***************************************************************************)
(* Where the messages go, and how the process ends: the registered output  *)
(* and the classes of output.h, the exit methods, and the report of the    *)
(* exit status (exit.c).                                                   *)
(*                                                                         *)
(* The methods of a tee call those of its two parts, so the calls that are *)
(* still to be made are kept on a stack; each step makes one of them.  The *)
(* client acts when the stack is empty: in its own code, or in a function  *)
(* that it has registered with atexit.  It keeps to the rules of output.h: *)
(* what it has given away it does not use again, but for registering again *)
(* what is registered, which the code foresees.                            *)
(***************************************************************************)
EXTENDS Integers, Sequences, FiniteSets, SequencesExt

CONSTANTS
    NULL,           \* a null pointer
    Clients,        \* bounds on what a client does, records of the classes
                    \* (but tee) and number of the objects it makes, the
                    \* number of messages and of functions called at exit,
                    \* and the actions asked of grim_reaper
    MallocResults   \* {TRUE}, or {TRUE, FALSE} when memory may run out

ASSUME NullAssumption == NULL \notin Nat
ASSUME ClientsAssumption ==
    \A c \in Clients :
        /\ c.classes \subseteq {"stderr", "syslog", "file", "custom"}
        /\ c.objects \in Nat /\ c.messages \in Nat /\ c.atexit \in Nat
        /\ c.actions \subseteq {"never", "error", "always"}

STATIC == 0         \* explain_output_static_stderr
EXIT_SUCCESS == 0
EXIT_FAILURE == 1

VARIABLES
    client,         \* one of Clients
    objects,        \* all objects ever made, in order; STATIC is none of them
    live,           \* those not yet freed
    mine,           \* those the client still holds
    where,          \* the registered output
    stack,          \* calls to be made, the next one first
    files,          \* the streams of the objects that opened the file
    stderr_open,
    disk, terminal, log, heard,     \* what has arrived, and where
    said,           \* the number of messages
    meant,          \* for each of them, the objects it was to reach
    forgotten,      \* objects lost by a tee that could not be made
    pc,             \* "run", "exiting", "handler" (of the client), "over"
    status,         \* what exit was called with
    exits,          \* how often the library has called exit
    handlers,       \* functions for exit to call, the last one first
    registered, action,             \* the variables of exit.c
    ran,            \* the handlers that exit has called, in order
    reports         \* what grim_reaper has printed

heap    == <<objects, live, mine, where, forgotten>>
sinks   == <<files, stderr_open, disk, terminal, log, heard>>
history == <<said, meant>>
ending  == <<pc, status, exits>>
reaper  == <<handlers, registered, action, ran, reports>>
vars    == <<client, heap, stack, sinks, history, ending, reaper>>

Object == [vtable : {"stderr", "syslog", "file", "custom", "tee"},
           fp     : Nat,       \* the stream; STATIC is stderr
           first  : Nat,
           second : Nat]

vtable(op) == IF op = STATIC THEN "stderr" ELSE objects[op].vtable

Call(method, op) == [method |-> method, op |-> op, arg |-> 0]
CallWith(method, op, arg) == [method |-> method, op |-> op, arg |-> arg]

OLD  == 0           \* what was in the file before
HOLE == -1

Init ==
    /\ client \in Clients
    /\ objects = <<>> /\ live = {} /\ mine = {} /\ where = NULL
    /\ forgotten = {}
    /\ stack = <<>>
    /\ files = <<>> /\ stderr_open = TRUE /\ disk = <<OLD>>
    /\ terminal = {} /\ log = {} /\ heard = {}
    /\ said = 0 /\ meant = <<>>
    /\ pc = "run" /\ status = EXIT_SUCCESS /\ exits = 0
    /\ handlers = <<>> /\ registered = FALSE /\ action = "never"
    /\ ran = <<>> /\ reports = <<>>

-----------------------------------------------------------------------------
(* The client makes objects (bound: not in the functions exit calls). *)

Acts == pc \in {"run", "handler"} /\ stack = <<>>
Runs == pc = "run" /\ stack = <<>>

Make(object) ==
    /\ objects' = Append(objects, object)
    /\ live' = live \cup {Len(objects) + 1}

Plain(class, fp) == [vtable |-> class, fp |-> fp, first |-> STATIC, second |-> STATIC]

(* explain_output_stderr_new, explain_output_syslog_new3, and what a client *)
(* does with explain_output_new for a class of its own.                     *)
New ==
    /\ Runs
    /\ Len(objects) < client.objects
    /\ \E class \in client.classes \ {"file"} : Make(Plain(class, STATIC))
    /\ mine' = mine \cup {Len(objects) + 1}
    /\ UNCHANGED <<client, where, forgotten, stack, sinks, history, ending, reaper>>

(* fopen(filename, append ? "wa" : "w"): fopen looks at the first letter,  *)
(* and of the others an "a" means nothing.                                 *)
fopen_truncates(append) == TRUE

FileNew(append) ==
    LET op == Len(objects) + 1 IN
    /\ Runs
    /\ "file" \in client.classes
    /\ Len(objects) < client.objects
    /\ mine' = mine \cup {op}
    /\ \/ /\ Make(Plain("file", op))
          /\ files' = [o \in DOMAIN files \cup {op} |->
                         IF o = op THEN [open |-> TRUE, pending |-> <<>>, pos |-> 0]
                         ELSE files[o]]
          /\ disk' = IF fopen_truncates(append) THEN <<>> ELSE disk
       \/ /\ Make(Plain("file", STATIC))
          /\ UNCHANGED <<files, disk>>
    /\ UNCHANGED <<client, where, forgotten, stack, stderr_open, terminal, log, heard,
                   history, ending, reaper>>

(* A null part makes the other one the result. *)
TeeNew ==
    /\ Runs
    /\ \E first, second \in mine, allocated \in MallocResults :
        /\ first # second
        /\ IF allocated
           THEN /\ Len(objects) < client.objects
                /\ Make([vtable |-> "tee", fp |-> STATIC,
                         first |-> first, second |-> second])
                /\ mine' = (mine \ {first, second}) \cup {Len(objects) + 1}
                /\ UNCHANGED forgotten
           ELSE /\ mine' = mine \ {first, second}
                /\ forgotten' = forgotten \cup {first, second}
                /\ UNCHANGED <<objects, live>>
    /\ UNCHANGED <<client, where, stack, sinks, history, ending, reaper>>

(* Mutant: the registered output is destroyed even if it is registered     *)
(* again.                                                                  *)
register_always(op) ==
    /\ stack' = IF where = NULL THEN <<>> ELSE <<Call("destructor", where)>>
    /\ where' = op

(* Mutant: with a null pointer, what was destroyed stays registered. *)
register_dangling(op) ==
    /\ stack' = IF where = NULL THEN <<>> ELSE <<Call("destructor", where)>>
    /\ where' = IF op = NULL THEN where ELSE op

register(op) ==
    IF op = where THEN UNCHANGED <<stack, where>>
    ELSE /\ stack' = IF where = NULL THEN <<>> ELSE <<Call("destructor", where)>>
         /\ where' = op

Register ==
    /\ Runs
    /\ \E op \in mine \cup {NULL} \cup ({where} \ {STATIC}) :
          register(op) /\ mine' = mine \ {op}
    /\ UNCHANGED <<client, objects, live, forgotten, sinks, history, ending, reaper>>

-----------------------------------------------------------------------------
(* The destructors. *)

Next_call == Head(stack)
Calling(method) == stack # <<>> /\ Next_call.method = method
Returns_to(calls) == stack' = calls \o Tail(stack)

(* Mutant: the second part is forgotten. *)
tee_destructor_first(op) == <<Call("destructor", objects[op].first)>>

tee_destructor(op) ==
    <<Call("destructor", objects[op].first), Call("destructor", objects[op].second)>>

(* What is pending is written from the stream's own position on. *)
Written(stream) ==
    LET past == stream.pos + Len(stream.pending) IN
    [i \in 1 .. Max({past, Len(disk)}) |->
        IF i \in stream.pos + 1 .. past THEN stream.pending[i - stream.pos]
        ELSE IF i <= Len(disk) THEN disk[i] ELSE HOLE]

Flushed(stream) ==
    [stream EXCEPT !.pos = stream.pos + Len(stream.pending), !.pending = <<>>]

(* Mutant: the stream is left to itself. *)
file_destructor_open(op) == UNCHANGED <<files, disk, stderr_open>>

file_destructor(op) ==
    LET fp == objects[op].fp IN
    IF fp = STATIC THEN stderr_open' = FALSE /\ UNCHANGED <<files, disk>>
    ELSE /\ disk' = Written(files[fp])
         /\ files' = [files EXCEPT ![fp] = [Flushed(@) EXCEPT !.open = FALSE]]
         /\ UNCHANGED stderr_open

Destructor ==
    LET op == Next_call.op IN
    /\ Calling("destructor")
    /\ IF op = STATIC THEN Returns_to(<<>>)
       ELSE Returns_to((IF vtable(op) = "tee" THEN tee_destructor(op) ELSE <<>>)
                       \o <<Call("free", op)>>)
    /\ IF vtable(op) = "file" THEN file_destructor(op)
       ELSE UNCHANGED <<files, disk, stderr_open>>
    /\ UNCHANGED <<client, heap, terminal, log, heard, history, ending, reaper>>

Free ==
    /\ Calling("free")
    /\ live' = live \ {Next_call.op}
    /\ Returns_to(<<>>)
    /\ UNCHANGED <<client, objects, mine, where, forgotten, sinks, history, ending, reaper>>

-----------------------------------------------------------------------------
(* Messages. *)

(* The objects at the leaves of a tree of tees: a message for the tree is  *)
(* a message for each.                                                     *)
Leaves(op) ==
    LET leaves[o \in 0 .. Len(objects)] ==
            IF vtable(o) # "tee" THEN {o}
            ELSE leaves[objects[o].first] \cup leaves[objects[o].second]
    IN  leaves[op]

registered_output == IF where = NULL THEN STATIC ELSE where

(* explain_output_message; of a warning, an error, or an error before exit. *)
Say(then) ==
    /\ said < client.messages
    /\ said' = said + 1
    /\ where' = registered_output
    /\ meant' = Append(meant, Leaves(where'))
    /\ stack' = <<CallWith("message", where', said')>> \o then

(* *_on_error: the message, and the call returns. *)
OnError ==
    /\ Acts
    /\ Say(<<>>)
    /\ UNCHANGED <<client, objects, live, mine, forgotten, sinks, ending, reaper>>

(* *_or_die, explain_output_error_and_die. *)
OrDie ==
    /\ Acts
    /\ Say(<<CallWith("method_exit", registered_output, EXIT_FAILURE)>>)
    /\ UNCHANGED <<client, objects, live, mine, forgotten, sinks, ending, reaper>>

(* Mutant: one part is enough. *)
tee_message_first(call) == <<[call EXCEPT !.op = objects[call.op].first]>>

tee_message(call) ==
    <<[call EXCEPT !.op = objects[call.op].first],
      [call EXCEPT !.op = objects[call.op].second]>>

(* A closed stderr takes what is printed, and shows nothing. *)
Show(text) ==
    terminal' = IF stderr_open THEN terminal \cup {text} ELSE terminal

(* fprintf: into the buffer, which is written when it is full. *)
Buffer(fp, text) ==
    LET stream == [files[fp] EXCEPT !.pending = Append(@, text)] IN
    \/ files' = [files EXCEPT ![fp] = stream] /\ UNCHANGED disk
    \/ files' = [files EXCEPT ![fp] = Flushed(stream)] /\ disk' = Written(stream)

to_stderr(op) ==
    vtable(op) = "stderr" \/ (vtable(op) = "file" /\ objects[op].fp = STATIC)

MessageToTee ==
    /\ Calling("message") /\ vtable(Next_call.op) = "tee"
    /\ Returns_to(tee_message(Next_call))
    /\ UNCHANGED <<client, heap, sinks, history, ending, reaper>>

MessageToLeaf ==
    LET op   == Next_call.op
        text == Next_call.arg
    IN
    /\ Calling("message")
    /\ \/ /\ to_stderr(op)
          /\ Show(text)
          /\ UNCHANGED <<files, disk, log, heard>>
       \/ /\ vtable(op) = "file" /\ ~to_stderr(op)
          /\ Buffer(objects[op].fp, text)
          /\ UNCHANGED <<terminal, log, heard>>
       \/ /\ vtable(op) = "syslog"
          /\ log' = log \cup {text}
          /\ UNCHANGED <<files, disk, terminal, heard>>
       \/ /\ vtable(op) = "custom"
          /\ heard' = heard \cup {text}
          /\ UNCHANGED <<files, disk, terminal, log>>
    /\ Returns_to(<<>>)
    /\ UNCHANGED <<client, heap, stderr_open, history, ending, reaper>>

-----------------------------------------------------------------------------
(* The end. *)

(* explain_output_exit. *)
OutputExit ==
    /\ Acts
    /\ where' = registered_output
    /\ \E es \in {EXIT_SUCCESS, EXIT_FAILURE} :
          stack' = <<CallWith("method_exit", where', es)>>
    /\ UNCHANGED <<client, objects, live, mine, forgotten, sinks, history, ending, reaper>>

(* Mutant: an exit method is trusted not to return. *)
method_exit_trusting(call) == <<[call EXCEPT !.method = "exit_method"]>>

(* explain_output_method_exit: the method, if the class has one, then exit. *)
(* exit_has_been_used is set when exit has returned, that is never, so the *)
(* branch to _exit is never taken and the flag is not a variable here.     *)
method_exit(call) ==
    <<[call EXCEPT !.method = "exit_method"], [call EXCEPT !.method = "exit"]>>

MethodExit ==
    /\ Calling("method_exit")
    /\ Returns_to(method_exit(Next_call))
    /\ UNCHANGED <<client, heap, sinks, history, ending, reaper>>

(* Only a tee and a class of the client have an exit method.  The client's *)
(* may return, or throw an exception that the client catches; but not out  *)
(* of a function called by exit.                                           *)
ExitMethod ==
    LET op == Next_call.op IN
    /\ Calling("exit_method")
    /\ \/ /\ vtable(op) = "tee"
          /\ Returns_to(<<[Next_call EXCEPT !.op = objects[op].first],
                          [Next_call EXCEPT !.op = objects[op].second]>>)
       \/ vtable(op) # "tee" /\ Returns_to(<<>>)
       \/ vtable(op) = "custom" /\ pc = "run" /\ stack' = <<>>
    /\ UNCHANGED <<client, heap, sinks, history, ending, reaper>>

CallExit(es) == pc' = "exiting" /\ status' = es /\ stack' = <<>>

(* exit does not return.  Called by a handler it goes on with the handlers *)
(* that are left, as in glibc.                                             *)
Exit ==
    /\ Calling("exit")
    /\ CallExit(Next_call.arg)
    /\ exits' = exits + 1
    /\ UNCHANGED <<client, heap, sinks, history, reaper>>

(* The client calls exit, or returns from main. *)
ClientExit ==
    /\ Runs
    /\ \E es \in {EXIT_SUCCESS, EXIT_FAILURE} : CallExit(es)
    /\ UNCHANGED <<client, heap, sinks, history, exits, reaper>>

\* Where a function is in a list of functions.
Places(function, list) == {i \in DOMAIN list : list[i] = function}

(* atexit *)
Atexit ==
    /\ Runs
    /\ Cardinality(Places("client", handlers)) < client.atexit
    /\ handlers' = Append(handlers, "client")
    /\ UNCHANGED <<client, heap, stack, sinks, history, ending, registered, action,
                   ran, reports>>

(* Mutant: on_exit is called each time. *)
install_again == registered' = TRUE /\ handlers' = Append(handlers, "grim_reaper")

install_grim_reaper ==
    IF registered THEN UNCHANGED <<registered, handlers>>
    ELSE registered' = TRUE /\ handlers' = Append(handlers, "grim_reaper")

(* explain_exit_on_exit, explain_exit_on_error, explain_exit_cancel *)
SetAction ==
    /\ Acts
    /\ action' \in client.actions \ {action}
    /\ IF action' = "never" THEN UNCHANGED <<registered, handlers>>
       ELSE install_grim_reaper
    /\ UNCHANGED <<client, heap, stack, sinks, history, ending, ran, reports>>

(* Mutant: errors only are reported. *)
reports_errors(es) == action # "never" /\ es # EXIT_SUCCESS

reports_status(es) == action = "always" \/ (action = "error" /\ es # EXIT_SUCCESS)

GrimReaper ==
    /\ pc = "exiting" /\ stack = <<>>
    /\ handlers # <<>> /\ Last(handlers) = "grim_reaper"
    /\ handlers' = Front(handlers)
    /\ ran' = Append(ran, Last(handlers))
    /\ reports' = IF reports_status(status) /\ stderr_open
                  THEN Append(reports, status) ELSE reports
    /\ UNCHANGED <<client, heap, stack, sinks, history, ending, registered, action>>

ClientHandler ==
    /\ pc = "exiting" /\ stack = <<>>
    /\ handlers # <<>> /\ Last(handlers) = "client"
    /\ handlers' = Front(handlers)
    /\ ran' = Append(ran, Last(handlers))
    /\ pc' = "handler"
    /\ UNCHANGED <<client, heap, stack, sinks, history, status, exits, registered, action,
                   reports>>

HandlerReturns ==
    /\ pc = "handler" /\ stack = <<>>
    /\ pc' = "exiting"
    /\ UNCHANGED <<client, heap, stack, sinks, history, status, exits, reaper>>

(* When there is no handler left the streams are flushed. *)
FlushStream ==
    /\ pc = "exiting" /\ handlers = <<>>
    /\ \E fp \in DOMAIN files :
        /\ files[fp].pending # <<>>
        /\ disk' = Written(files[fp])
        /\ files' = [files EXCEPT ![fp] = Flushed(@)]
    /\ UNCHANGED <<client, heap, stack, stderr_open, terminal, log, heard, history, ending,
                   reaper>>

Over ==
    /\ pc = "exiting" /\ handlers = <<>>
    /\ \A fp \in DOMAIN files : files[fp].pending = <<>>
    /\ pc' = "over"
    /\ UNCHANGED <<client, heap, stack, sinks, history, status, exits, reaper>>

Done == pc = "over" /\ UNCHANGED vars

-----------------------------------------------------------------------------
Client ==
    \/ New \/ (\E append \in BOOLEAN : FileNew(append)) \/ TeeNew \/ Register
    \/ OnError \/ OrDie \/ OutputExit \/ ClientExit \/ Atexit \/ SetAction

Library ==
    \/ Destructor \/ Free \/ MessageToTee \/ MessageToLeaf
    \/ MethodExit \/ ExitMethod \/ Exit

System ==
    \/ GrimReaper \/ ClientHandler \/ HandlerReturns \/ FlushStream \/ Over

Next == Client \/ Library \/ System \/ Done

(* The library and exit run on; a handler of the client returns.  The      *)
(* client need do nothing else.                                            *)
Spec == Init /\ [][Next]_vars
FairSpec == Spec /\ WF_vars(Library) /\ WF_vars(System)
-----------------------------------------------------------------------------
(***************************************************************************)
(* What output.h and exit.h promise.                                       *)
(***************************************************************************)
TypeOK ==
    /\ objects \in Seq(Object) /\ Len(objects) <= client.objects
    /\ live \cup mine \cup forgotten \subseteq DOMAIN objects
    /\ where \in DOMAIN objects \cup {STATIC, NULL}
    /\ \A i \in DOMAIN stack : stack[i].op \in DOMAIN objects \cup {STATIC}
    /\ DOMAIN files \subseteq DOMAIN objects
    /\ Range(disk) \subseteq {HOLE, OLD} \cup 1 .. said
    /\ terminal \cup log \cup heard \subseteq 1 .. said
    /\ Len(meant) = said
    /\ pc \in {"run", "exiting", "handler", "over"}
    /\ Range(handlers) \subseteq {"client", "grim_reaper"}
    /\ Len(handlers) + Len(ran) <= client.atexit + 1
    /\ action \in {"never", "error", "always"}

(* Who will destroy the object, or has the pointer that may be given away: *)
(* the registry, the client, a tee that is not itself being freed, or a    *)
(* destructor that is running.                                             *)
freeing == {stack[i].op : i \in {j \in DOMAIN stack : stack[j].method = "free"}}

Owners(op) ==
    {<<"where", 0>> : o \in {where} \cap {op}}
    \cup {<<"mine", 0>> : o \in mine \cap {op}}
    \cup {<<"forgotten", 0>> : o \in forgotten \cap {op}}
    \cup {<<"stack", i>> : i \in {j \in DOMAIN stack :
             stack[j].op = op /\ stack[j].method \in {"destructor", "free"}}}
    \cup {<<"first", t>> : t \in {o \in live \ freeing :
             vtable(o) = "tee" /\ objects[o].first = op}}
    \cup {<<"second", t>> : t \in {o \in live \ freeing :
             vtable(o) = "tee" /\ objects[o].second = op}}

(* Every object that is alive has exactly one owner, so that it is freed   *)
(* once; one that has been freed has none.                                 *)
OneOwner ==
    \A op \in DOMAIN objects :
        IF op \in live THEN \E owner \in Owners(op) : Owners(op) = {owner}
        ELSE Owners(op) = {}

(* No method is called on an object that has been freed.                   *)
CallsAreLive ==
    \A i \in DOMAIN stack : stack[i].op \in live \cup {STATIC}

(* What is known to lose messages: stderr closed with the object of a file *)
(* that could not be opened; one file opened by two objects.               *)
StderrLost == ~stderr_open
SharedFile == Cardinality(DOMAIN files) > 1

Reached(text, op) ==
    CASE vtable(op) = "syslog" -> text \in log
      [] vtable(op) = "custom" -> text \in heard
      [] to_stderr(op) -> text \in terminal \/ StderrLost
      [] OTHER -> \/ text \in Range(disk) \/ SharedFile
                  \/ op \in live /\ pc # "over"
                     /\ text \in Range(files[op].pending)

(* A message reaches every output that the registered tree had when it was *)
(* printed: at once, or, in a file, when the object is destroyed or the    *)
(* process exits.                                                          *)
Arrives ==
    stack = <<>>
    => \A text \in 1 .. said : \A op \in meant[text] : Reached(text, op)

Asked == action = "always" \/ (action = "error" /\ status # EXIT_SUCCESS)

(* "The exit status will never be printed more than once."  The status that *)
(* is printed is the one the process ends with, and it is printed if it has *)
(* been asked for, unless a function of the client was called after         *)
(* grim_reaper and changed its mind, or the status.                         *)
StatusReported ==
    /\ Cardinality(Places("grim_reaper", handlers)) + Len(reports) <= 1
    /\ pc = "over" /\ stderr_open /\ (ran # <<>> => Last(ran) = "grim_reaper")
       => reports = IF Asked THEN <<status>> ELSE <<>>

(* "The rest of the libexplain code assumes that exit means ::exit": what  *)
(* has begun to exit ends the process, but for an exception thrown by an   *)
(* exit method of the client.                                              *)
Ends ==
    (\E i \in DOMAIN stack : stack[i].method = "method_exit")
    ~> (pc = "over" \/ \E op \in DOMAIN objects : vtable(op) = "custom")

-----------------------------------------------------------------------------
(***************************************************************************)
(* What a comment says and the code does not do.                           *)
(***************************************************************************)

(* "So we call _exit instead of exit": the library calls exit once.        *)
ExitOnce == exits <= 1
=============================================================================
