---------------------------- MODULE OptionsProofs ----------------------------
(***************************************************************************)
(* The options are read once, errno is kept, and without a race a thread   *)
(* is told what it was promised: for any number of threads and for every   *)
(* environment.  IInv carries the first two, AInv the third.               *)
(***************************************************************************)
EXTENDS Options, SequenceTheorems, WellFoundedInduction, TLAPS

Frame == [items : Seq(Item), err : {"client", "disturbed"}]

Outside == {"idle", "unnamed", "test", "initialise", "use"}

\* A thread that reads is in one call of initialise, which has kept errno.
InFrame(t) ==
    /\ Len(frames[t]) = 1
    /\ frames[t][1].err = "client"
    /\ initialised

OutOfFrame(t) ==
    /\ frames[t] = <<>>
    /\ errno[t] = "client"

\* The frames fit the place where a thread is.
Framed ==
    \A t \in Thread :
        /\ pc[t] \in Outside => OutOfFrame(t)
        /\ pc[t] \in {"reading", "warning"} => InFrame(t)
        /\ pc[t] = "storing" => InFrame(t) \/ OutOfFrame(t)

\* Without a race, nobody has read when somebody is about to.
FirstReader ==
    /\ ~initialised => known = <<>>
    /\ \A t \in Thread : pc[t] = "initialise" /\ ~raced => ~initialised
    /\ ~raced => Len(known) <= 1

IInv == TypeOK /\ Framed /\ FirstReader

-----------------------------------------------------------------------------
LEMMA ValueTypes ==
    /\ \A n \in Int : byte(n) \in Value
    /\ \A item \in Item : item_value(item) \in Value
    /\ \A o \in Option : Default[o] \in Value
<1>1. \A n \in Int : byte(n) \in -128 .. 127
  BY DEF byte
<1>2. \A n \in Int : byte(n) \in Value
  BY <1>1 DEF Value
<1>3. 0 \in Value /\ 1 \in Value
  BY DEF Value
<1>4. ASSUME NEW item \in Item PROVE item_value(item) \in Value
  <2>1. CASE item.eq = <<>>
    BY <1>3, <2>1 DEF item_value
  <2>2. CASE item.eq # <<>>
    <3>1. item.eq[1] \in Int
      BY <2>2 DEF Item
    <3>2. byte(item.eq[1]) \in Value
      BY <1>2, <3>1
    <3> QED
      BY <1>3, <2>2, <3>2 DEF item_value
  <2> QED
    BY <2>1, <2>2
<1>5. \A o \in Option : Default[o] \in {0, 1}
  BY DEF Option, Default
<1> QED
  BY <1>2, <1>3, <1>4, <1>5

LEMMA ValueIsInt == Value \subseteq Int
<1>1. Columns \subseteq Int
  BY ArgumentsAssumption, Zenon
<1>2. -128 .. 127 \subseteq Int
  OBVIOUS
<1>3. {n \in Columns : n > 0} \subseteq Columns
  OBVIOUS
<1> QED
  BY <1>1, <1>2, <1>3, Zenon DEF Value

LEMMA AtMostOne ==
    ASSUME NEW n, n = 0 \/ n = 1 PROVE n <= 1
<1>1. n \in Int
  OBVIOUS
<1> QED
  BY <1>1

\* The only frame there is.
LEMMA OnlyFrame ==
    ASSUME NEW s \in Seq(Frame), Len(s) = 1
    PROVE  s[1] \in Frame /\ Tail(s) = <<>>
<1> HIDE DEF Frame
<1>1. s[1] \in Frame
  OBVIOUS
<1>2. Tail(s) \in Seq(Frame) /\ Len(Tail(s)) = 0
  <2>1. s # <<>>
    BY EmptySeq
  <2>2. Tail(s) \in Seq(Frame) /\ Len(Tail(s)) = Len(s) - 1
    BY <2>1, HeadTailProperties
  <2> QED
    BY <2>2
<1>3. Tail(s) = <<>>
  BY <1>2, EmptySeq
<1> QED
  BY <1>1, <1>3

\* A frame pushed where there was none.
LEMMA Pushed ==
    ASSUME NEW f PROVE <<f>> \o <<>> = <<f>>
OBVIOUS

LEMMA NormalType ==
    ASSUME NEW o, NEW n \in Int, o = "hanging_indent" => n \in Columns
    PROVE  normal(o, n) \in Value
BY DEF normal, Value

LEMMA MeantType ==
    ASSUME NEW item, NEW d PROVE meant(item, d) \subseteq Option
<1>1. \A n \in DOMAIN table : table[n] \in Option
  BY DEF table, Option, Default
<1> QED
  BY <1>1, ArgumentsAssumption DEF meant

LEMMA InitTypes == Init => TypeOK
<1> SUFFICES ASSUME Init PROVE TypeOK
  OBVIOUS
<1>1. option \in [Option -> [level : {0, 2, 3}, value : Value]]
  BY ValueTypes DEF Init, default_level
<1>2. Nothing \in [option : Option, level : {0, 2, 3}, value : Value,
                   left : SUBSET {"level", "value", "warn"}]
  BY DEF Nothing, Option, Default, Value
<1>e. <<>> \in Seq(Frame) /\ <<>> \in Seq(Int) /\ <<>> \in Seq(Environments)
  BY EmptySeq
<1>3. frames \in [Thread -> Seq(Frame)]
  BY <1>e DEF Init
<1>4. set \in [Option -> Seq(Int)] /\ known \in Seq(Environments)
  BY <1>e DEF Init
<1>5. \A t \in Thread : (pc[t] = "storing") <=> (pending[t].left # {})
  BY DEF Init, Nothing
<1> QED
  BY <1>1, <1>2, <1>3, <1>4, <1>5 DEF Init, TypeOK, Frame

LEMMA InitInv == Init => IInv
<1> SUFFICES ASSUME Init PROVE IInv
  OBVIOUS
<1>1. Framed
  BY DEF Init, Framed, OutOfFrame, Outside
<1>2. Len(known) = 0 /\ known = <<>>
  BY DEF Init
<1>3. Len(known) <= 1
  BY <1>2, AtMostOne
<1>4. FirstReader
  BY <1>2, <1>3 DEF Init, FirstReader
<1> QED
  BY <1>1, <1>4, InitTypes DEF IInv

-----------------------------------------------------------------------------
(***************************************************************************)
(* Types are kept.                                                         *)
(***************************************************************************)
Pending == [option : Option, level : {0, 2, 3}, value : Value,
            left : SUBSET {"level", "value", "warn"}]

Ops == Operation \cup {Idle} \cup
       [do : {"set"}, option : {"assemble_program_name"}, arg : {0}]

LEMMA AskTypes == \A t \in Thread, o \in Operation :
    TypeOK /\ Ask(t, o) => TypeOK'
<1> SUFFICES ASSUME NEW t \in Thread, NEW o \in Operation, TypeOK, Ask(t, o)
             PROVE  TypeOK'
  OBVIOUS
<1>1. progname' \in Name \cup {""}
  BY DEF Ask, TypeOK, Operation
<1>2. op' \in [Thread -> Ops]
  BY DEF Ask, TypeOK, Ops
<1>3. pc' \in [Thread -> {"idle", "unnamed", "test", "initialise", "reading",
                          "storing", "warning", "use"}]
  <2>1. pc \in [Thread -> {"idle", "unnamed", "test", "initialise", "reading",
                           "storing", "warning", "use"}]
    BY DEF TypeOK
  <2>2. pc' = pc \/ Goes(t, "unnamed") \/ Goes(t, "test")
    BY DEF Ask
  <2> QED
    BY <2>1, <2>2 DEF Goes
<1>4. \A u \in Thread : (pc'[u] = "storing") <=> (pending'[u].left # {})
  <2>1. \A u \in Thread : (pc[u] = "storing") <=> (pending[u].left # {})
    BY DEF TypeOK
  <2>2. pending' = pending /\ pc[t] = "idle"
    BY DEF Ask
  <2>3. pc' = pc \/ pc' = [pc EXCEPT ![t] = "unnamed"] \/ pc' = [pc EXCEPT ![t] = "test"]
    BY DEF Ask, Goes
  <2>4. pc \in [Thread -> {"idle", "unnamed", "test", "initialise", "reading",
                           "storing", "warning", "use"}]
    BY DEF TypeOK
  <2> QED
    BY <2>1, <2>2, <2>3, <2>4
<1> QED
  BY <1>1, <1>2, <1>3, <1>4 DEF Ask, TypeOK, Ops

LEMMA SmallTypes == \A t \in Thread :
    TypeOK /\ (Unnamed(t) \/ Test(t) \/ Warn(t) \/ Get(t)) => TypeOK'
<1> SUFFICES ASSUME NEW t \in Thread, TypeOK PROVE
        Unnamed(t) \/ Test(t) \/ Warn(t) \/ Get(t) => TypeOK'
  OBVIOUS
<1>1. CASE Unnamed(t)
  <2>1. op' \in [Thread -> Ops]
    BY <1>1 DEF Unnamed, TypeOK, Ops
  <2> QED
    BY <1>1, <2>1 DEF Unnamed, Goes, TypeOK, Ops
<1>2. CASE Test(t)
  BY <1>2 DEF Test, Goes, TypeOK
<1>3. CASE Warn(t)
  BY <1>3 DEF Warn, Goes, TypeOK
<1>4. CASE Get(t)
  BY <1>4 DEF Get, Goes, Returns, Access, TypeOK
<1> QED
  BY <1>1, <1>2, <1>3, <1>4

LEMMA InitialiseTypes == \A t \in Thread : TypeOK /\ Initialise(t) => TypeOK'
<1> SUFFICES ASSUME NEW t \in Thread, TypeOK, Initialise(t) PROVE TypeOK'
  OBVIOUS
<1> DEFINE f == [items |-> environ, err |-> errno[t]]
<1>1. f \in Frame
  BY ArgumentsAssumption DEF TypeOK, Frame
<1>2. frames[t] \in Seq(Frame)
  BY DEF TypeOK, Frame
<1> HIDE DEF f
<1>3. <<f>> \o frames[t] \in Seq(Frame)
  BY <1>1, <1>2
<1>4. frames' \in [Thread -> Seq(Frame)]
  BY <1>3 DEF Initialise, TypeOK, Frame, f
<1>5. known' \in Seq(Environments)
  <2>1. environ \in Environments /\ known \in Seq(Environments)
    BY DEF TypeOK
  <2>2. known' = Append(known, environ)
    BY DEF Initialise
  <2> QED
    BY <2>1, <2>2
<1>6. raced' \in BOOLEAN /\ initialised' \in BOOLEAN
  BY DEF Initialise, Access, Mark, TypeOK
<1>7. pc' = [pc EXCEPT ![t] = "reading"] /\ pc[t] = "initialise"
  BY DEF Initialise, Goes
<1> QED
  BY <1>4, <1>5, <1>6, <1>7 DEF Initialise, TypeOK, Frame

LEMMA ReadItemTypes == \A t \in Thread : TypeOK /\ Framed /\ ReadItem(t) => TypeOK'
<1> SUFFICES ASSUME NEW t \in Thread, TypeOK, Framed, ReadItem(t) PROVE TypeOK'
  OBVIOUS
<1> DEFINE item == frames[t][1].items[1]
           warn == item.name \notin DOMAIN table /\ option.debug.value # 0
           next == {o \in meant(item, option.debug.value) :
                       may_assign(environment_level, o)}
           left == {"level", "value"} \cup (IF warn THEN {"warn"} ELSE {})
<1>1. pc[t] = "reading" /\ Len(frames[t]) = 1
  BY DEF ReadItem, Reading, Framed, InFrame
<1>a. frames[t] \in Seq(Frame)
  BY DEF TypeOK, Frame
<1>2. frames[t] \in Seq(Frame) /\ frames[t][1] \in Frame
  BY <1>1, <1>a, OnlyFrame
<1>3. frames[t][1].items # <<>> /\ frames[t][1].items \in Seq(Item)
  BY <1>2 DEF ReadItem, Frame
<1>4. item \in Item /\ rest(frames[t][1].items) \in Seq(Item)
  BY <1>3 DEF rest
<1>5. item_value(item) \in Value /\ next \subseteq Option
  BY <1>4, ValueTypes, MeantType
<1> DEFINE g == advanced(frames[t][1])
<1>6. frames' = [frames EXCEPT ![t] = <<g>> \o Tail(frames[t])]
  BY DEF ReadItem
<1>7. g \in Frame
  BY <1>2, <1>4 DEF Frame, advanced
<1> HIDE DEF g
<1>8. <<g>> \o Tail(frames[t]) \in Seq(Frame)
  <2>1. Tail(frames[t]) = <<>>
    BY <1>1, <1>2, OnlyFrame
  <2>2. <<g>> \in Seq(Frame)
    BY <1>7
  <2> QED
    BY <2>1, <2>2, Pushed
<1>9. frames' \in [Thread -> Seq(Frame)]
  BY <1>6, <1>8 DEF TypeOK, Frame
<1>10. \/ pc' = [pc EXCEPT ![t] = IF warn THEN "warning" ELSE "reading"]
          /\ pending' = pending
       \/ /\ pc' = [pc EXCEPT ![t] = "storing"]
          /\ \E o \in next : pending' = [pending EXCEPT ![t] =
                  [option |-> o, level |-> 2, value |-> item_value(item),
                   left |-> left]]
  BY DEF ReadItem, Goes, environment_level
<1>11. left \in SUBSET {"level", "value", "warn"} /\ left # {}
  OBVIOUS
<1> HIDE DEF left, next, warn, item
<1>12. \A o \in next : [option |-> o, level |-> 2, value |-> item_value(item),
                        left |-> left] \in Pending
  BY <1>5, <1>11 DEF Pending
<1>13. pending' \in [Thread -> Pending]
  <2>1. pending \in [Thread -> Pending]
    BY DEF TypeOK, Pending
  <2> HIDE DEF Pending
  <2> QED
    BY <1>10, <1>12, <2>1
<1>14. \A u \in Thread : (pc'[u] = "storing") <=> (pending'[u].left # {})
  <2>1. \A u \in Thread \ {t} : pc'[u] = pc[u] /\ pending'[u] = pending[u]
    BY <1>10 DEF TypeOK
  <2>2. pc'[t] = "storing" => pending'[t].left = left
    <3> SUFFICES ASSUME pc'[t] = "storing" PROVE pending'[t].left = left
      OBVIOUS
    <3>1. pc' # [pc EXCEPT ![t] = IF warn THEN "warning" ELSE "reading"]
      BY DEF TypeOK
    <3>2. PICK o \in next : pending' = [pending EXCEPT ![t] =
              [option |-> o, level |-> 2, value |-> item_value(item), left |-> left]]
      BY <1>10, <3>1
    <3> QED
      BY <3>2 DEF TypeOK
  <2>3. pc'[t] # "storing" => pending'[t] = pending[t]
    BY <1>1, <1>10 DEF TypeOK
  <2>4. \A u \in Thread : (pc[u] = "storing") <=> (pending[u].left # {})
    BY DEF TypeOK
  <2>5. pending[t].left = {}
    BY <1>1, <2>4
  <2>6. (pc'[t] = "storing") <=> (pending'[t].left # {})
    BY <1>11, <2>2, <2>3, <2>5
  <2> QED
    BY <2>1, <2>4, <2>6
<1>15. pc' \in [Thread -> {"idle", "unnamed", "test", "initialise", "reading",
                           "storing", "warning", "use"}]
  BY <1>10 DEF TypeOK
<1>16. raced' \in BOOLEAN
  BY DEF ReadItem, Reading, Access, TypeOK
<1>17. UNCHANGED <<initialised, progname, option, environ, op, errno, known, set>>
  BY DEF ReadItem
<1> QED
  BY <1>9, <1>13, <1>14, <1>15, <1>16, <1>17 DEF TypeOK, Frame, Pending

LEMMA StoreTypes == \A t \in Thread, part \in {"level", "value"} :
    TypeOK /\ Store(t, part) => TypeOK'
<1> SUFFICES ASSUME NEW t \in Thread, NEW part \in {"level", "value"},
                    TypeOK, Store(t, part)
             PROVE  TypeOK'
  OBVIOUS
<1> DEFINE p == pending[t]
           left == p.left \ {part}
<1>1. p \in Pending
  BY DEF TypeOK, Pending
<1>2. p.option \in Option /\ p.level \in {0, 2, 3} /\ p.value \in Value
  BY <1>1 DEF Pending
<1>3. left \in SUBSET {"level", "value", "warn"}
  BY <1>1 DEF Pending
<1>4. option' = [option EXCEPT ![p.option] = [@ EXCEPT ![part] = p[part]]]
  BY DEF Store
<1>5. option[p.option] \in [level : {0, 2, 3}, value : Value]
  BY <1>2 DEF TypeOK
<1>6. [option[p.option] EXCEPT ![part] = p[part]] \in [level : {0, 2, 3}, value : Value]
  <2>1. CASE part = "level"
    BY <1>2, <1>5, <2>1
  <2>2. CASE part = "value"
    BY <1>2, <1>5, <2>2
  <2> QED
    BY <2>1, <2>2
<1>7. option' \in [Option -> [level : {0, 2, 3}, value : Value]]
  BY <1>2, <1>4, <1>6 DEF TypeOK
<1>8. Nothing \in Pending /\ Nothing.left = {}
  BY ValueTypes DEF Nothing, Pending, Option, Default, Value
<1>9. [p EXCEPT !.left = left] \in Pending
  BY <1>1, <1>3 DEF Pending
<1>10. \/ /\ left \subseteq {"warn"}
          /\ pending' = [pending EXCEPT ![t] = Nothing]
          /\ \/ pc' = [pc EXCEPT ![t] = "reading"] /\ op' = op
             \/ pc' = [pc EXCEPT ![t] = "warning"] /\ op' = op
             \/ pc' = [pc EXCEPT ![t] = "idle"] /\ op' = [op EXCEPT ![t] = Idle]
       \/ /\ left # {}
          /\ pending' = [pending EXCEPT ![t] = [p EXCEPT !.left = left]]
          /\ pc' = pc /\ op' = op
  BY DEF Store, Goes, Returns
<1>11. pc[t] = "storing"
  BY DEF Store
<1>12. set' \in [Option -> Seq(Int)]
  <2>1. p.value \in Int
    BY <1>2, ValueIsInt
  <2>2. <<p.value>> \in Seq(Int)
    BY <2>1
  <2>3. set' = set \/ set' = [set EXCEPT ![p.option] = <<p.value>>]
    BY DEF Store
  <2> QED
    BY <2>2, <2>3 DEF TypeOK
<1>13. raced' \in BOOLEAN
  BY DEF Store, Access, TypeOK
<1>14. UNCHANGED <<initialised, progname, environ, frames, errno, known>>
  BY DEF Store
<1> HIDE DEF left, p
<1>15. p = pending[t]
  BY DEF p
<1>16. [p EXCEPT !.left = left].left = left
  BY <1>1 DEF Pending
<1>17. pending' \in [Thread -> Pending]
  <2>1. pending \in [Thread -> Pending]
    BY DEF TypeOK, Pending
  <2> HIDE DEF Pending
  <2> QED
    BY <1>8, <1>9, <1>10, <2>1
<1>18. pc' \in [Thread -> {"idle", "unnamed", "test", "initialise", "reading",
                           "storing", "warning", "use"}]
  BY <1>10 DEF TypeOK
<1>19. op' \in [Thread -> Ops]
  BY <1>10 DEF TypeOK, Ops
<1>20. \A u \in Thread : (pc'[u] = "storing") <=> (pending'[u].left # {})
  <2>1. \A u \in Thread \ {t} : pc'[u] = pc[u] /\ pending'[u] = pending[u]
    BY <1>10 DEF TypeOK
  <2>2. pc'[t] = "storing" => pending'[t].left = left /\ left # {}
    BY <1>10, <1>11, <1>16 DEF TypeOK
  <2>3. pc'[t] # "storing" => pending'[t].left = {}
    BY <1>8, <1>10, <1>11 DEF TypeOK
  <2> QED
    BY <2>1, <2>2, <2>3 DEF TypeOK
<1> QED
  BY <1>7, <1>12, <1>13, <1>14, <1>17, <1>18, <1>19, <1>20
  DEF TypeOK, Pending, Ops

LEMMA EndReadingTypes == \A t \in Thread :
    TypeOK /\ Framed /\ EndReading(t) => TypeOK'
<1> SUFFICES ASSUME NEW t \in Thread, TypeOK, Framed, EndReading(t) PROVE TypeOK'
  OBVIOUS
<1>1. pc[t] = "reading" /\ Len(frames[t]) = 1
  BY DEF EndReading, Reading, Framed, InFrame
<1>a. frames[t] \in Seq(Frame)
  BY DEF TypeOK, Frame
<1>2. frames[t] \in Seq(Frame) /\ frames[t][1] \in Frame
  BY <1>1, <1>a, OnlyFrame
<1>3. Tail(frames[t]) \in Seq(Frame)
  BY <1>1, <1>2
<1>4. frames' \in [Thread -> Seq(Frame)]
  BY <1>3 DEF EndReading, TypeOK, Frame
<1>5. errno' \in [Thread -> {"client", "disturbed"}]
  BY <1>2 DEF EndReading, restored, TypeOK, Frame
<1>6. pc' = [pc EXCEPT ![t] = "use"]
  BY <1>1 DEF EndReading, Goes
<1>7. raced' \in BOOLEAN
  BY DEF EndReading, Reading, Access, TypeOK
<1>8. UNCHANGED <<initialised, option, progname, environ, op, pending, known, set>>
  BY DEF EndReading
<1> QED
  BY <1>1, <1>4, <1>5, <1>6, <1>7, <1>8 DEF TypeOK, Frame

LEMMA SetTypes == \A t \in Thread : TypeOK /\ Set(t) => TypeOK'
<1> SUFFICES ASSUME NEW t \in Thread, TypeOK, Set(t) PROVE TypeOK'
  OBVIOUS
<1> DEFINE o == op[t].option
           n == normal(o, op[t].arg)
           p == [option |-> o, level |-> 3, value |-> n, left |-> {"level", "value"}]
<1>1. op[t] \in Ops /\ op[t].do = "set"
  BY DEF Set, TypeOK, Ops
<1>2. /\ o \in {"assemble_program_name", "hanging_indent"}
      /\ op[t].arg \in Int
      /\ o = "hanging_indent" => op[t].arg \in Columns
  <2>1. \/ op[t] \in [do : {"set"}, option : {"assemble_program_name"}, arg : Yesno]
        \/ op[t] \in [do : {"set"}, option : {"hanging_indent"}, arg : Columns]
        \/ op[t] \in [do : {"set"}, option : {"assemble_program_name"}, arg : {0}]
    BY <1>1 DEF Ops, Operation, Idle
  <2>2. CASE op[t] \in [do : {"set"}, option : {"assemble_program_name"}, arg : Yesno]
    BY <2>2, ArgumentsAssumption
  <2>3. CASE op[t] \in [do : {"set"}, option : {"hanging_indent"}, arg : Columns]
    BY <2>3, ArgumentsAssumption
  <2>4. CASE op[t] \in [do : {"set"}, option : {"assemble_program_name"}, arg : {0}]
    BY <2>4
  <2> QED
    BY <2>1, <2>2, <2>3, <2>4
<1>3. n \in Value
  BY <1>2, NormalType
<1>4. o \in Option
  BY <1>2 DEF Option, Default
<1> HIDE DEF n, o
<1>5. p \in Pending /\ p.left # {}
  BY <1>3, <1>4 DEF Pending
<1>6. \/ /\ pending' = [pending EXCEPT ![t] = p]
         /\ pc' = [pc EXCEPT ![t] = "storing"]
         /\ op' = op
      \/ /\ pending' = pending
         /\ pc' = [pc EXCEPT ![t] = "idle"]
         /\ op' = [op EXCEPT ![t] = Idle]
  BY DEF Set, Goes, Returns, client_level, n, o
<1>7. raced' \in BOOLEAN
  BY DEF Set, Access, TypeOK
<1>8. UNCHANGED <<initialised, option, progname, environ, frames, errno, known, set>>
  BY DEF Set
<1>9. pc[t] = "use"
  BY DEF Set
<1> HIDE DEF p
<1>10. pending' \in [Thread -> Pending]
  <2>1. pending \in [Thread -> Pending]
    BY DEF TypeOK, Pending
  <2> HIDE DEF Pending
  <2> QED
    BY <1>5, <1>6, <2>1
<1>11. pc' \in [Thread -> {"idle", "unnamed", "test", "initialise", "reading",
                           "storing", "warning", "use"}]
  BY <1>6 DEF TypeOK
<1>12. op' \in [Thread -> Ops]
  BY <1>6 DEF TypeOK, Ops
<1>13. \A u \in Thread : (pc'[u] = "storing") <=> (pending'[u].left # {})
  BY <1>5, <1>6, <1>9 DEF TypeOK
<1> QED
  BY <1>7, <1>8, <1>10, <1>11, <1>12, <1>13 DEF TypeOK, Pending, Ops

LEMMA StepTypes == TypeOK /\ Framed /\ [Next]_vars => TypeOK'
<1> SUFFICES ASSUME TypeOK, Framed, [Next]_vars PROVE TypeOK'
  OBVIOUS
<1>1. CASE \E t \in Thread : Work(t)
  BY <1>1, SmallTypes, InitialiseTypes, ReadItemTypes, StoreTypes,
     EndReadingTypes, SetTypes DEF Work
<1>2. CASE \E t \in Thread, o \in Operation : Ask(t, o)
  BY <1>2, AskTypes
<1>3. CASE \E e \in Environments : PutEnv(e)
  BY <1>3 DEF PutEnv, TypeOK
<1>4. CASE UNCHANGED vars
  BY <1>4 DEF vars, TypeOK
<1> QED
  BY <1>1, <1>2, <1>3, <1>4 DEF Next

-----------------------------------------------------------------------------
(***************************************************************************)
(* A step of one thread leaves the places of the others alone.             *)
(***************************************************************************)
LEMMA OthersStay == \A t, u \in Thread :
    TypeOK /\ Work(t) /\ u # t =>
        pc'[u] = pc[u] /\ frames'[u] = frames[u] /\ errno'[u] = errno[u]
<1> SUFFICES ASSUME NEW t \in Thread, TypeOK, Work(t), NEW u \in Thread, u # t
             PROVE  pc'[u] = pc[u] /\ frames'[u] = frames[u] /\ errno'[u] = errno[u]
  OBVIOUS
<1>1. pc'[u] = pc[u]
  BY ZenonT(60) DEF Work, Unnamed, Test, Initialise, ReadItem, Store, Warn, EndReading,
         Get, Set, Goes, Returns, TypeOK
<1>2. frames'[u] = frames[u]
  BY DEF Work, Unnamed, Test, Initialise, ReadItem, Store, Warn, EndReading,
         Get, Set, TypeOK
<1>3. errno'[u] = errno[u]
  BY DEF Work, Unnamed, Test, Initialise, ReadItem, Store, Warn, EndReading,
         Get, Set, TypeOK
<1> QED
  BY <1>1, <1>2, <1>3

(***************************************************************************)
(* What a step does to the places, the frames and errno: only those of one *)
(* thread change.                                                          *)
(***************************************************************************)
LEMMA FramedKept == TypeOK /\ Framed /\ [Next]_vars => Framed'
<1> SUFFICES ASSUME TypeOK, Framed, [Next]_vars PROVE Framed'
  OBVIOUS
<1>0. initialised => initialised'
  BY ZenonT(60) DEF Next, Work, Ask, Unnamed, Test, Initialise, Mark, ReadItem, Store, Warn,
         EndReading, Get, Set, PutEnv, vars
<1> DEFINE Fits(t) ==
        /\ pc[t] \in Outside => OutOfFrame(t)
        /\ pc[t] \in {"reading", "warning"} => InFrame(t)
        /\ pc[t] = "storing" => InFrame(t) \/ OutOfFrame(t)
<1>1. \A u \in Thread : /\ pc'[u] = pc[u] /\ frames'[u] = frames[u]
                        /\ errno'[u] = errno[u]
                        => Fits(u)'
  BY <1>0 DEF Framed, InFrame, OutOfFrame
<1>2. ASSUME NEW t \in Thread, Work(t) PROVE Fits(t)'
  <2>1. CASE Unnamed(t) \/ Test(t)
    BY <2>1 DEF Unnamed, Test, Goes, Framed, OutOfFrame, Outside, TypeOK
  <2>2. CASE Initialise(t)
    <3> DEFINE f == [items |-> environ, err |-> errno[t]]
    <3>1. frames[t] = <<>> /\ errno[t] = "client"
      BY <2>2 DEF Initialise, Framed, Outside, OutOfFrame
    <3>2. frames'[t] = <<f>> \o frames[t]
      BY <2>2 DEF Initialise, TypeOK
    <3>3. f.err = "client"
      BY <3>1
    <3> HIDE DEF f
    <3>4. <<f>> \o <<>> = <<f>>
      OBVIOUS
    <3>5. Len(frames'[t]) = 1 /\ frames'[t][1] = f
      BY <3>1, <3>2, <3>4
    <3>6. pc'[t] = "reading" /\ initialised'
      BY <2>2 DEF Initialise, Goes, Mark, TypeOK
    <3> QED
      BY <3>3, <3>5, <3>6 DEF InFrame, Outside
  <2>3. CASE ReadItem(t)
    <3>1. pc[t] = "reading" /\ InFrame(t)
      BY <2>3 DEF ReadItem, Reading, Framed
    <3>a. frames[t] \in Seq(Frame)
      BY DEF TypeOK, Frame
    <3>2. frames[t][1] \in Frame /\ Tail(frames[t]) = <<>>
      BY <3>1, <3>a, OnlyFrame DEF InFrame
    <3> DEFINE g == advanced(frames[t][1])
    <3>3. frames'[t] = <<g>> \o Tail(frames[t])
      BY <2>3 DEF ReadItem, TypeOK
    <3>b. g.err = "client"
      BY <3>1, <3>2 DEF InFrame, Frame, advanced
    <3> HIDE DEF g
    <3>c. frames'[t] = <<g>>
      BY <3>2, <3>3, Pushed
    <3>4. Len(frames'[t]) = 1
      BY <3>c
    <3>5. frames'[t][1].err = "client"
      BY <3>b, <3>c
    <3>6. pc'[t] \in {"reading", "warning", "storing"}
      BY <2>3 DEF ReadItem, Goes, TypeOK
    <3> QED
      BY <1>0, <3>1, <3>4, <3>5, <3>6 DEF InFrame, Outside
  <2>4. CASE \E part \in {"level", "value"} : Store(t, part)
    <3>1. pc[t] = "storing" /\ frames' = frames /\ errno' = errno
      BY <2>4 DEF Store
    <3>2. InFrame(t) \/ OutOfFrame(t)
      BY <3>1 DEF Framed
    <3>3. frames[t] # <<>> => pc'[t] \in {"reading", "warning", "storing"}
      BY <2>4, <3>1 DEF Store, Goes, Returns, TypeOK
    <3>4. frames[t] = <<>> => pc'[t] \in {"idle", "storing"}
      BY <2>4, <3>1 DEF Store, Goes, Returns, TypeOK
    <3>5. InFrame(t) => frames[t] # <<>>
      BY DEF InFrame
    <3> QED
      BY <1>0, <3>1, <3>2, <3>3, <3>4, <3>5 DEF InFrame, OutOfFrame, Outside
  <2>5. CASE Warn(t)
    <3>1. pc[t] = "warning" /\ InFrame(t) /\ frames' = frames
      BY <2>5 DEF Warn, Framed
    <3>2. pc'[t] = "reading"
      BY <2>5, <3>1 DEF Warn, Goes, InFrame, TypeOK
    <3> QED
      BY <1>0, <3>1, <3>2 DEF InFrame, Outside
  <2>6. CASE EndReading(t)
    <3>1. pc[t] = "reading" /\ InFrame(t)
      BY <2>6 DEF EndReading, Reading, Framed
    <3>2. frames[t] \in Seq(Frame)
      BY DEF TypeOK, Frame
    <3>3. Tail(frames[t]) = <<>>
      BY <3>1, <3>2, OnlyFrame DEF InFrame
    <3>4. frames'[t] = <<>> /\ errno'[t] = "client" /\ pc'[t] = "use"
      BY <2>6, <3>1, <3>3 DEF EndReading, restored, Goes, InFrame, TypeOK
    <3> QED
      BY <3>4 DEF OutOfFrame
  <2>7. CASE Get(t) \/ Set(t)
    <3>1. pc[t] = "use" /\ frames' = frames /\ errno' = errno
      BY <2>7 DEF Get, Set
    <3>2. pc'[t] \in {"idle", "storing"}
      BY <2>7 DEF Get, Set, Goes, Returns, TypeOK
    <3> QED
      BY <3>1, <3>2 DEF Framed, OutOfFrame, Outside
  <2> QED
    BY <1>2, <2>1, <2>2, <2>3, <2>4, <2>5, <2>6, <2>7 DEF Work
<1>4. CASE \E t \in Thread : Work(t)
  BY <1>1, <1>2, <1>4, OthersStay DEF Framed
<1>5. CASE \E t \in Thread, o \in Operation : Ask(t, o)
  <2> PICK t \in Thread, o \in Operation : Ask(t, o)
    BY <1>5
  <2>1. frames' = frames /\ errno' = errno /\ pc[t] = "idle"
    BY DEF Ask
  <2>2. pc'[t] \in {"idle", "unnamed", "test"}
    BY DEF Ask, Goes, TypeOK
  <2>3. \A u \in Thread \ {t} : pc'[u] = pc[u]
    BY DEF Ask, Goes, TypeOK
  <2>4. Fits(t)'
    BY <2>1, <2>2 DEF Framed, OutOfFrame, Outside
  <2> QED
    BY <1>1, <2>1, <2>3, <2>4 DEF Framed
<1>6. CASE (\E e \in Environments : PutEnv(e)) \/ UNCHANGED vars
  BY <1>1, <1>6 DEF PutEnv, vars, Framed
<1> QED
  BY <1>4, <1>5, <1>6 DEF Next

(***************************************************************************)
(* A thread that is about to read is Busy, so that one that begins to read *)
(* before it races with it.                                                *)
(***************************************************************************)
LEMMA FirstReaderKept == TypeOK /\ Framed /\ FirstReader /\ [Next]_vars => FirstReader'
<1> SUFFICES ASSUME TypeOK, Framed, FirstReader, [Next]_vars PROVE FirstReader'
  OBVIOUS
<1>1. ASSUME NEW t \in Thread, Initialise(t) PROVE FirstReader'
  <2>1. pc[t] = "initialise" /\ initialised' /\ pc' = [pc EXCEPT ![t] = "reading"]
    BY <1>1 DEF Initialise, Mark, Goes
  <2>2. ASSUME NEW u \in Thread, pc'[u] = "initialise" PROVE raced'
    BY <1>1, <2>1, <2>2 DEF Initialise, Access, Busy, TypeOK
  <2>3. ~raced' => known = <<>>
    BY <1>1, <2>1 DEF Initialise, Access, FirstReader
  <2>4. known' = Append(known, environ) /\ known \in Seq(Environments)
    BY <1>1 DEF Initialise, TypeOK
  <2>5. known = <<>> => Len(known') <= 1
    BY <2>4
  <2> QED
    BY <2>1, <2>2, <2>3, <2>5 DEF FirstReader
<1>2. ASSUME NEW t \in Thread, Work(t), ~Initialise(t) PROVE FirstReader'
  <2>1. initialised' = initialised /\ known' = known
    BY <1>2 DEF Work, Unnamed, Test, ReadItem, Store, Warn, EndReading, Get, Set
  <2>2. raced => raced'
    BY <1>2 DEF Work, Unnamed, Test, ReadItem, Reading, Access, Store, Warn,
                EndReading, Get, Set
  <2>3. ASSUME NEW u \in Thread, pc'[u] = "initialise", initialised
        PROVE  pc[u] = "initialise"
    <3>1. Warn(t) => pc'[t] = "reading"
      BY <2>3 DEF Warn, Goes, TypeOK
    <3>2. Test(t) => pc'[t] = "use"
      BY <2>3 DEF Test, Goes, TypeOK
    <3>3. Unnamed(t) => pc'[t] = "test"
      BY DEF Unnamed, Goes, TypeOK
    <3>4. ReadItem(t) \/ EndReading(t) => pc'[t] \in {"reading", "warning", "storing", "use"}
      BY DEF ReadItem, EndReading, Goes, TypeOK
    <3>5. (\E part \in {"level", "value"} : Store(t, part))
             => pc'[t] \in {"storing", "reading", "warning", "idle"}
      BY ZenonT(60) DEF Store, Goes, Returns, TypeOK
    <3>6. Get(t) \/ Set(t) => pc'[t] \in {"idle", "storing"}
      BY DEF Get, Set, Goes, Returns, TypeOK
    <3>7. pc'[t] # "initialise"
      BY <1>2, <3>1, <3>2, <3>3, <3>4, <3>5, <3>6 DEF Work
    <3> QED
      BY <1>2, <2>3, <3>7, OthersStay
  <2> QED
    BY <2>1, <2>2, <2>3 DEF FirstReader
<1>3. CASE \E t \in Thread, o \in Operation : Ask(t, o)
  <2> PICK t \in Thread, o \in Operation : Ask(t, o)
    BY <1>3
  <2>1. UNCHANGED <<initialised, known, raced>>
    BY DEF Ask
  <2>2. \A u \in Thread : pc'[u] = "initialise" => pc[u] = "initialise"
    BY DEF Ask, Goes, TypeOK
  <2> QED
    BY <2>1, <2>2 DEF FirstReader
<1>4. CASE (\E e \in Environments : PutEnv(e)) \/ UNCHANGED vars
  BY <1>4 DEF PutEnv, vars, FirstReader
<1> QED
  BY <1>1, <1>2, <1>3, <1>4 DEF Next

LEMMA StepInv == IInv /\ [Next]_vars => IInv'
BY StepTypes, FramedKept, FirstReaderKept DEF IInv

LEMMA Invariant == Spec => []IInv
BY InitInv, StepInv, PTL DEF Spec

-----------------------------------------------------------------------------
(***************************************************************************)
(* The variables have their types: whatever the environment says, an       *)
(* option holds a char or what a setter takes (option.c:58, 133).          *)
(***************************************************************************)
THEOREM TypeCorrect == Spec => []TypeOK
<1>1. IInv => TypeOK
  BY DEF IInv
<1> QED
  BY <1>1, Invariant, PTL

(***************************************************************************)
(* No thread begins to read the environment while it reads it, and without *)
(* a race it is read once (option.c:201).                                  *)
(***************************************************************************)
THEOREM ReadOnce == Spec => []ReadsOnce
<1>1. IInv => ReadsOnce
  <2> SUFFICES ASSUME IInv, NEW t \in Thread PROVE Len(frames[t]) <= 1
    BY DEF IInv, FirstReader, ReadsOnce
  <2>1. OutOfFrame(t) => Len(frames[t]) = 0
    BY DEF OutOfFrame
  <2>2. OutOfFrame(t) \/ InFrame(t)
    BY DEF IInv, Framed, TypeOK, Outside
  <2>3. Len(frames[t]) = 0 \/ Len(frames[t]) = 1
    BY <2>1, <2>2 DEF InFrame
  <2> QED
    BY <2>3, AtMostOne
<1> QED
  BY <1>1, Invariant, PTL

(***************************************************************************)
(* Asking for an option keeps errno, for any number of threads             *)
(* (option.c:200, 244).                                                    *)
(***************************************************************************)
THEOREM ErrnoIsKept == Spec => []ErrnoKept
<1>1. IInv => ErrnoKept
  BY DEF IInv, Framed, ErrnoKept, OutOfFrame, Outside
<1> QED
  BY <1>1, Invariant, PTL

-----------------------------------------------------------------------------
(***************************************************************************)
(* What the environment says is a recursive function along its items.      *)
(***************************************************************************)
LEMMA Induction ==
    ASSUME NEW S, 0 \in S, \A n \in Nat : n \in S => n + 1 \in S
    PROVE  \A n \in Nat : n \in S
<1> SUFFICES ASSUME NEW m \in Nat, m \notin S PROVE FALSE
  OBVIOUS
<1> DEFINE T == Nat \ S
<1>1. \E least \in T : \A n \in T : ~ (<<n, least>> \in OpToRel(<, Nat))
  <2>1. IsWellFoundedOn(OpToRel(<, Nat), Nat)
    BY NatLessThanWellFounded
  <2>2. T \subseteq Nat /\ T # {}
    OBVIOUS
  <2> HIDE DEF T
  <2> QED
    BY <2>1, <2>2, WFMin
<1>2. PICK least \in T : \A n \in T : ~ (n < least)
  BY <1>1 DEF OpToRel
<1>3. least \in Nat /\ least # 0
  OBVIOUS
<1>4. least - 1 \in Nat /\ least - 1 < least /\ (least - 1) + 1 = least
  BY <1>3
<1>5. least - 1 \in S
  BY <1>2, <1>4
<1> QED
  BY <1>4, <1>5

Recurs(f, N, T, start, step) ==
    /\ f \in [0 .. N -> T]
    /\ f[0] = start
    /\ \A i \in 1 .. N : f[i] = step[i][f[i - 1]]

LEMMA Recursion ==
    ASSUME NEW N \in Nat, NEW T, NEW start \in T, NEW step \in [1 .. N -> [T -> T]]
    PROVE  \E f : Recurs(f, N, T, start, step)
<1> DEFINE Upto(n, f) == \A i \in 0 .. n : f[i] = IF i = 0 THEN start ELSE step[i][f[i - 1]]
           S == {n \in Nat : n <= N => \E f \in [0 .. n -> T] : Upto(n, f)}
<1>1. 0 \in S
  <2>1. PICK f : f = [i \in 0 .. 0 |-> start]
    OBVIOUS
  <2>2. f \in [0 .. 0 -> T] /\ Upto(0, f)
    BY <2>1
  <2> QED
    BY <2>2
<1>2. ASSUME NEW n \in Nat, n \in S
      PROVE  n + 1 \in S
  <2> SUFFICES ASSUME n + 1 <= N
               PROVE  \E f \in [0 .. n + 1 -> T] : Upto(n + 1, f)
    OBVIOUS
  <2>1. PICK f \in [0 .. n -> T] : Upto(n, f)
    BY <1>2
  <2>2. n + 1 \in 1 .. N /\ f[n] \in T /\ step[n + 1] \in [T -> T]
    OBVIOUS
  <2>3. PICK new : new = step[n + 1][f[n]]
    OBVIOUS
  <2>4. new \in T
    BY <2>2, <2>3
  <2>5. PICK g : g = [i \in 0 .. n + 1 |-> IF i = n + 1 THEN new ELSE f[i]]
    OBVIOUS
  <2>6. g \in [0 .. n + 1 -> T]
    BY <2>1, <2>4, <2>5
  <2>7. ASSUME NEW i \in 0 .. n + 1
        PROVE  g[i] = IF i = 0 THEN start ELSE step[i][g[i - 1]]
    <3>1. CASE i = n + 1
      <4>1. i # 0 /\ i - 1 = n /\ n \in 0 .. n + 1 /\ n # n + 1
        BY <3>1
      <4>2. g[i] = new /\ g[n] = f[n]
        BY <3>1, <4>1, <2>5
      <4> QED
        BY <3>1, <4>1, <4>2, <2>3
    <3>2. CASE i # n + 1
      <4>1. i \in 0 .. n /\ g[i] = f[i]
        BY <3>2, <2>5
      <4>2. i # 0 => i - 1 \in 0 .. n + 1 /\ i - 1 # n + 1 /\ g[i - 1] = f[i - 1]
        BY <4>1, <2>5
      <4>3. f[i] = IF i = 0 THEN start ELSE step[i][f[i - 1]]
        BY <2>1, <4>1
      <4> QED
        BY <4>1, <4>2, <4>3
    <3> QED
      BY <3>1, <3>2
  <2> QED
    BY <2>6, <2>7
<1>3. N \in S
  <2> HIDE DEF S
  <2> QED
    BY <1>1, <1>2, Induction
<1>4. PICK f \in [0 .. N -> T] : Upto(N, f)
  BY <1>3
<1>5. f[0] = start
  BY <1>4
<1>6. ASSUME NEW i \in 1 .. N
      PROVE  f[i] = step[i][f[i - 1]]
  BY <1>4
<1> QED
  BY <1>4, <1>5, <1>6 DEF Recurs

-----------------------------------------------------------------------------
(***************************************************************************)
(* What the items make of the values, each from those before it; and what  *)
(* clients and the items leave there.  The proof is about these; what they *)
(* have to do with the words of the items is shown at the end.             *)
(***************************************************************************)
Made(item, before) ==
    [o \in Option |-> IF o \in meant(item, before.debug) THEN item_value(item) ELSE before[o]]

MadeUpto(items) ==
    LET after[i \in 0 .. Len(items)] ==
            IF i = 0 THEN Default ELSE Made(items[i], after[i - 1])
    IN  after

Makes(items) == MadeUpto(items)[Len(items)]

Kept(o) ==
    IF set[o] # <<>> THEN set[o][1]
    ELSE IF known # <<>> THEN Makes(known[1])[o] ELSE Default[o]

Making(g, items) ==
    g = [i \in 0 .. Len(items) |-> IF i = 0 THEN Default ELSE Made(items[i], g[i - 1])]

LEMMA MadeUptoIs ==
    ASSUME NEW items \in Seq(Item)
    PROVE  /\ MadeUpto(items)[0] = Default
           /\ \A i \in 1 .. Len(items) :
                 MadeUpto(items)[i] = Made(items[i], MadeUpto(items)[i - 1])
           /\ \A i \in 0 .. Len(items) : MadeUpto(items)[i] \in [Option -> Value]
<1> DEFINE f == CHOOSE g : Making(g, items)
           T == [Option -> Value]
<1>1. MadeUpto(items) = f
  BY DEF MadeUpto, Making, Made
<1>2. PICK N \in Nat : N = Len(items)
  BY LenProperties
<1>3. \A i \in 1 .. N : items[i] \in Item
  BY <1>2, ElementOfSeq
<1>4. Default \in T
  <2>1. Default \in [Option -> Int] /\ \A o \in Option : Default[o] \in Value
    BY ValueTypes DEF Default, Option
  <2>2. Default = [o \in Option |-> Default[o]]
    BY <2>1
  <2> QED
    BY <2>1, <2>2
<1>5. ASSUME NEW item \in Item, NEW before \in T
      PROVE  Made(item, before) \in T
  BY ValueTypes DEF Made
<1>6. PICK step : step = [i \in 1 .. N |-> [s \in T |-> Made(items[i], s)]]
  OBVIOUS
<1> HIDE DEF T
<1>7. step \in [1 .. N -> [T -> T]]
  BY <1>3, <1>5, <1>6
<1>8. PICK g : Recurs(g, N, T, Default, step)
  <2>1. PICK start : start = Default
    OBVIOUS
  <2>2. start \in T
    BY <1>4, <2>1
  <2>3. \E g : Recurs(g, N, T, start, step)
    BY <1>7, <2>2, Recursion
  <2> QED
    BY <2>1, <2>3
<1>9. /\ g \in [0 .. N -> T] /\ g[0] = Default
      /\ \A i \in 1 .. N : g[i] = step[i][g[i - 1]]
  BY <1>8 DEF Recurs
<1>10. \A i \in 0 .. N : g[i] = IF i = 0 THEN Default ELSE Made(items[i], g[i - 1])
  <2> SUFFICES ASSUME NEW i \in 0 .. N, i # 0
               PROVE  g[i] = Made(items[i], g[i - 1])
    BY <1>9
  <2>1. i \in 1 .. N /\ i - 1 \in 0 .. N /\ g[i - 1] \in T
    BY <1>9
  <2> QED
    BY <1>6, <1>9, <2>1
<1>11. Making(g, items)
  BY <1>2, <1>9, <1>10 DEF Making
<1>12. Making(f, items)
  BY <1>11
<1> HIDE DEF f
<1>13. /\ \A i \in 0 .. N : f[i] = IF i = 0 THEN Default ELSE Made(items[i], f[i - 1])
  BY <1>2, <1>12 DEF Making
<1>14. f[0] = Default
  BY <1>13
<1>15. \A i \in 1 .. N : f[i] = Made(items[i], f[i - 1])
  <2>1. \A i \in 1 .. N : i \in 0 .. N /\ i # 0
    OBVIOUS
  <2> QED
    BY <1>13, <2>1
<1>16. \A i \in 0 .. N : f[i] \in T
  <2> DEFINE S == {i \in Nat : i <= N => f[i] \in T}
  <2>1. 0 \in S
    BY <1>4, <1>14
  <2>2. ASSUME NEW n \in Nat, n \in S
        PROVE  n + 1 \in S
    <3> SUFFICES ASSUME n + 1 <= N PROVE f[n + 1] \in T
      OBVIOUS
    <3>1. n <= N /\ n + 1 \in 1 .. N /\ (n + 1) - 1 = n
      OBVIOUS
    <3>2. f[n + 1] = Made(items[n + 1], f[n]) /\ f[n] \in T
      BY <1>15, <2>2, <3>1
    <3> QED
      BY <1>3, <1>5, <3>1, <3>2
  <2>3. \A n \in Nat : n \in S
    <3> HIDE DEF S
    <3> QED
      BY <2>1, <2>2, Induction
  <2> QED
    BY <2>3
<1> QED
  BY <1>1, <1>2, <1>14, <1>15, <1>16 DEF T

-----------------------------------------------------------------------------
(***************************************************************************)
(* Without a race: what the table holds is what clients and items left     *)
(* there, but for the assignment a thread is making; and while a thread    *)
(* reads, what the items that it has read make of it.                      *)
(***************************************************************************)
Working(t) == pc[t] \in {"reading", "warning", "storing"}

\* Before the environment is read, nothing has been set.
Unread ==
    ~initialised =>
        /\ \A o \in Option : option[o] = [level |-> 0, value |-> Default[o]] /\ set[o] = <<>>
        /\ \A t \in Thread : pc[t] \in {"idle", "unnamed", "test", "initialise"}

Alone == ~raced => \A t, u \in Thread : Working(t) /\ Busy(u) => u = t

\* The value of o is still to be stored.
Awaits(t, o) == pending[t].option = o /\ "value" \in pending[t].left

LeftOf(items, all, i) ==
    /\ Len(items) = Len(all) - i
    /\ \A k \in 1 .. Len(items) : items[k] = all[i + k]

Holds(t, says) ==
    \A o \in Option : (IF Awaits(t, o) THEN pending[t].value ELSE option[o].value) = says[o]

Reads(t) ==
    /\ known # <<>>
    /\ \A o \in Option : set[o] = <<>> /\ option[o].level <= 2
    /\ pending[t].left # {} => pending[t].level <= 2
    /\ \E i \in 0 .. Len(known[1]) :
          /\ LeftOf(frames[t][1].items, known[1], i)
          /\ Holds(t, MadeUpto(known[1])[i])

Stores(t) ==
    /\ pending[t].left \subseteq {"level", "value"}
    /\ \A o \in Option : o # pending[t].option => option[o].value = Kept(o)
    /\ "value" \notin pending[t].left => option[pending[t].option].value = pending[t].value

Answers ==
    ~raced =>
        /\ \A t \in Thread : frames[t] # <<>> => Reads(t)
        /\ \A t \in Thread : frames[t] = <<>> /\ pc[t] = "storing" => Stores(t)
        /\ (\A t \in Thread : ~Working(t)) => \A o \in Option : option[o].value = Kept(o)

AInv == Unread /\ Alone /\ Answers

LEMMA AInvInit == Init => AInv
<1> SUFFICES ASSUME Init PROVE AInv
  OBVIOUS
<1>1. /\ option = [o \in Option |-> [level |-> 0, value |-> Default[o]]]
      /\ set = [o \in Option |-> <<>>] /\ known = <<>>
      /\ pc = [t \in Thread |-> "idle"] /\ frames = [t \in Thread |-> <<>>]
  BY DEF Init, default_level
<1>2. Unread
  BY <1>1 DEF Unread
<1>3. Alone
  BY <1>1 DEF Alone, Working
<1>4. \A o \in Option : option[o].value = Kept(o)
  BY <1>1 DEF Kept
<1>5. Answers
  BY <1>1, <1>4 DEF Answers
<1> QED
  BY <1>2, <1>3, <1>5 DEF AInv

\* Steps that leave the table and the reading of it alone.
LEMMA TableStays ==
    ASSUME TypeOK, AInv, UNCHANGED <<option, frames, pending, set, known, initialised>>,
           raced => raced',
           \A u \in Thread :
              /\ (Working(u)' <=> Working(u)) /\ (pc'[u] = "storing" <=> pc[u] = "storing")
              /\ Busy(u)' /\ ~Busy(u) => ~initialised
              /\ ~initialised =>
                    pc'[u] \in {"idle", "unnamed", "test", "initialise"}
    PROVE  AInv'
<1>1. Unread'
  BY DEF Unread, AInv
<1>2. Alone'
  <2> SUFFICES ASSUME ~raced', NEW t \in Thread, NEW u \in Thread, Working(t)', Busy(u)'
               PROVE  u = t
    BY DEF Alone
  <2>1. Working(t)
    OBVIOUS
  <2>2. initialised
    BY <2>1 DEF AInv, Unread, Working
  <2>3. Busy(u)
    BY <2>2
  <2> QED
    BY <2>1, <2>3 DEF AInv, Alone
<1>3. Answers'
  <2> SUFFICES ASSUME ~raced' PROVE Answers'
    BY DEF Answers
  <2>1. ~raced /\ Answers
    BY DEF AInv
  <2>2. ASSUME NEW t \in Thread PROVE (Reads(t) => Reads(t)') /\ (Stores(t) => Stores(t)')
    BY DEF Reads, Stores, Holds, Awaits, Kept
  <2>3. \A o \in Option : Kept(o)' = Kept(o)
    BY DEF Kept
  <2> QED
    BY <2>1, <2>2, <2>3 DEF Answers
<1> QED
  BY <1>1, <1>2, <1>3 DEF AInv

LEMMA QuietSteps ==
    ASSUME IInv, AInv, NEW t \in Thread, Unnamed(t) \/ Test(t) \/ Warn(t) \/ Get(t)
    PROVE  AInv'
<1>1. TypeOK /\ Framed
  BY DEF IInv
<1>2. UNCHANGED <<option, frames, pending, set, known, initialised>> /\ (raced => raced')
  <2>1. UNCHANGED <<option, frames, pending, set, known, initialised>>
    BY DEF Unnamed, Test, Warn, Get
  <2>2. raced' = raced \/ Access(t)
    BY DEF Unnamed, Test, Warn, Get
  <2>3. raced => raced'
    BY <2>2 DEF Access
  <2> QED
    BY <2>1, <2>3
<1>3. \A u \in Thread : u # t => pc'[u] = pc[u]
  BY <1>1, OthersStay DEF Work
<1>4. \/ pc[t] = "unnamed" /\ pc'[t] = "test"
      \/ pc[t] = "test" /\ pc'[t] = (IF initialised THEN "use" ELSE "initialise")
      \/ pc[t] = "warning" /\ pc'[t] = (IF initialised THEN "reading" ELSE "initialise")
      \/ pc[t] = "use" /\ pc'[t] = "idle"
  BY <1>1 DEF Unnamed, Test, Warn, Get, Goes, Returns, TypeOK
<1>5. pc[t] = "warning" => initialised
  BY <1>1 DEF Framed, InFrame
<1>6. ASSUME NEW u \in Thread
      PROVE  /\ (Working(u)' <=> Working(u)) /\ (pc'[u] = "storing" <=> pc[u] = "storing")
             /\ Busy(u)' /\ ~Busy(u) => ~initialised
             /\ ~initialised => pc'[u] \in {"idle", "unnamed", "test", "initialise"}
  <2>0. ~initialised => pc[u] \in {"idle", "unnamed", "test", "initialise"}
    BY DEF AInv, Unread
  <2>1. CASE u # t
    BY <1>3, <2>0, <2>1 DEF Working, Busy
  <2>2. CASE u = t
    BY <1>4, <1>5, <2>0, <2>2 DEF Working, Busy
  <2> QED
    BY <2>1, <2>2
<1> QED
  BY <1>1, <1>2, <1>6, TableStays

LEMMA AskSteps ==
    ASSUME IInv, AInv, NEW t \in Thread, NEW o \in Operation, Ask(t, o)
    PROVE  AInv'
<1>1. TypeOK
  BY DEF IInv
<1>2. UNCHANGED <<option, frames, pending, set, known, initialised, raced>> /\ pc[t] = "idle"
  BY DEF Ask
<1>3. pc'[t] \in {"idle", "unnamed", "test"} /\ \A u \in Thread : u # t => pc'[u] = pc[u]
  BY <1>1, <1>2 DEF Ask, Goes, TypeOK
<1>4. ASSUME NEW u \in Thread
      PROVE  /\ (Working(u)' <=> Working(u)) /\ (pc'[u] = "storing" <=> pc[u] = "storing")
             /\ Busy(u)' /\ ~Busy(u) => ~initialised
             /\ ~initialised => pc'[u] \in {"idle", "unnamed", "test", "initialise"}
  <2>0. ~initialised => pc[u] \in {"idle", "unnamed", "test", "initialise"}
    BY DEF AInv, Unread
  <2>1. CASE u # t
    BY <1>3, <2>0, <2>1 DEF Working, Busy
  <2>2. CASE u = t
    BY <1>2, <1>3, <2>0, <2>2 DEF Working, Busy
  <2> QED
    BY <2>1, <2>2
<1> QED
  BY <1>1, <1>2, <1>4, TableStays

LEMMA StillSteps ==
    ASSUME IInv, AInv, (\E e \in Environments : PutEnv(e)) \/ UNCHANGED vars
    PROVE  AInv'
<1>1. TypeOK
  BY DEF IInv
<1>2. UNCHANGED <<option, frames, pending, set, known, initialised, raced, pc>>
  BY DEF PutEnv, vars
<1>3. \A u \in Thread :
         /\ (Working(u)' <=> Working(u)) /\ (pc'[u] = "storing" <=> pc[u] = "storing")
         /\ (Busy(u)' <=> Busy(u))
         /\ ~initialised => pc'[u] \in {"idle", "unnamed", "test", "initialise"}
  BY <1>2 DEF Working, Busy, AInv, Unread
<1> QED
  BY <1>1, <1>2, <1>3, TableStays

\* Without a race, whoever uses the table is the only one who does.
LEMMA OthersOut ==
    ASSUME IInv, AInv, NEW t \in Thread, Work(t), Access(t), ~raced'
    PROVE  /\ ~raced
           /\ \A u \in Thread : u # t =>
                 /\ ~Busy(u) /\ ~Busy(u)' /\ ~Working(u)'
                 /\ frames'[u] = <<>> /\ pc'[u] # "storing"
<1>1. ~raced /\ \A u \in Thread \ {t} : ~Busy(u)
  BY DEF Access
<1>2. ASSUME NEW u \in Thread, u # t
      PROVE  /\ ~Busy(u) /\ ~Busy(u)' /\ ~Working(u)'
             /\ frames'[u] = <<>> /\ pc'[u] # "storing"
  <2>1. ~Busy(u) /\ pc'[u] = pc[u] /\ frames'[u] = frames[u]
    BY <1>1, <1>2, OthersStay DEF IInv
  <2>2. pc[u] \in Outside
    BY <2>1 DEF Busy, IInv, TypeOK, Outside
  <2>3. frames[u] = <<>>
    BY <2>2 DEF IInv, Framed, OutOfFrame
  <2> QED
    BY <2>1, <2>2, <2>3 DEF Busy, Working, Outside
<1> QED
  BY <1>1, <1>2

LEMMA OnlyOne ==
    ASSUME IInv, AInv, NEW t \in Thread, Work(t), Access(t), initialised',
           ~raced' => /\ frames'[t] # <<>> => Reads(t)'
                      /\ frames'[t] = <<>> /\ pc'[t] = "storing" => Stores(t)'
                      /\ ~Working(t)' => \A o \in Option : option'[o].value = Kept(o)'
    PROVE  AInv'
<1>1. Unread'
  BY DEF Unread
<1>2. Alone'
  BY OthersOut DEF Alone
<1>3. Answers'
  <2> SUFFICES ASSUME ~raced' PROVE Answers'
    BY DEF Answers
  <2>1. \A u \in Thread : frames'[u] # <<>> => Reads(u)'
    BY OthersOut
  <2>2. \A u \in Thread : frames'[u] = <<>> /\ pc'[u] = "storing" => Stores(u)'
    BY OthersOut
  <2>3. (\A u \in Thread : ~Working(u)') => \A o \in Option : option'[o].value = Kept(o)'
    OBVIOUS
  <2> QED
    BY <2>1, <2>2, <2>3 DEF Answers
<1> QED
  BY <1>1, <1>2, <1>3 DEF AInv

LEMMA InitialiseStep ==
    ASSUME IInv, AInv, NEW t \in Thread, Initialise(t)
    PROVE  AInv'
<1>1. TypeOK /\ pc[t] = "initialise" /\ Access(t) /\ Work(t) /\ initialised'
  BY DEF IInv, Initialise, Mark, Work
<1>2. ASSUME ~raced'
      PROVE  frames'[t] # <<>> /\ pc'[t] = "reading" /\ Reads(t)'
  <2>1. ~raced
    BY <1>1, <1>2, OthersOut
  <2>2. ~initialised /\ known = <<>>
    BY <1>1, <2>1 DEF IInv, FirstReader
  <2>3. \A o \in Option : option[o].level = 0 /\ option[o].value = Default[o] /\ set[o] = <<>>
    <3> SUFFICES ASSUME NEW o \in Option
                 PROVE  option[o].level = 0 /\ option[o].value = Default[o] /\ set[o] = <<>>
      OBVIOUS
    <3>1. Unread
      BY DEF AInv
    <3>2. option[o] = [level |-> 0, value |-> Default[o]] /\ set[o] = <<>>
      BY <2>2, <3>1 DEF Unread
    <3> QED
      BY <3>2
  <2>4. frames[t] = <<>>
    BY <1>1 DEF IInv, Framed, OutOfFrame, Outside
  <2> DEFINE f == [items |-> environ, err |-> errno[t]]
  <2>5. frames'[t] = <<f>> \o frames[t]
    BY <1>1 DEF Initialise, TypeOK
  <2>6. f.items = environ
    OBVIOUS
  <2> HIDE DEF f
  <2>7. frames'[t] = <<f>>
    BY <2>4, <2>5, Pushed
  <2>8. frames'[t] # <<>> /\ frames'[t][1] = f
    BY <2>7
  <2>9. environ \in Seq(Item)
    BY <1>1, ArgumentsAssumption DEF TypeOK
  <2>10. known' = <<environ>>
    <3>1. known' = Append(<<>>, environ)
      BY <2>2 DEF Initialise
    <3> QED
      BY <3>1
  <2>11. known' # <<>> /\ known'[1] = environ
    BY <2>10
  <2>12. /\ pending'[t] = pending[t] /\ option' = option /\ set' = set /\ pc'[t] = "reading"
    BY <1>1 DEF Initialise, Goes, TypeOK
  <2>13. pending[t].left = {} /\ pending[t].level \in {0, 2, 3}
    BY <1>1 DEF TypeOK
  <2>14. MadeUpto(environ)[0] = Default
    BY <2>9, MadeUptoIs
  <2>15. LeftOf(environ, environ, 0)
    <3>1. Len(environ) \in Nat
      BY <2>9, LenProperties
    <3>2. \A k \in 1 .. Len(environ) : 0 + k = k
      OBVIOUS
    <3> QED
      BY <3>1, <3>2 DEF LeftOf
  <2>17. 0 \in 0 .. Len(environ)
    BY <2>9, LenProperties
  <2>18. \A o \in Option : set'[o] = <<>> /\ option'[o].level <= 2
    BY <2>3, <2>12
  <2>19. PICK all : all = environ
    OBVIOUS
  <2>20. Reads(t)'
    <3>1. known'[1] = all /\ frames'[t][1].items = all
      BY <2>6, <2>8, <2>11, <2>19
    <3>2. Holds(t, MadeUpto(all)[0])'
      BY <2>3, <2>12, <2>13, <2>14, <2>19 DEF Holds, Awaits
    <3>3. \E i \in 0 .. Len(all) : LeftOf(all, all, i) /\ Holds(t, MadeUpto(all)[i])'
      BY <2>15, <2>17, <2>19, <3>2
    <3>4. pending'[t].left = {}
      BY <2>12, <2>13
    <3>5. known' # <<>>
      BY <2>11
    <3> QED
      BY <2>18, <3>1, <3>3, <3>4, <3>5 DEF Reads
  <2> QED
    BY <2>8, <2>12, <2>20
<1> QED
  BY <1>1, <1>2, OnlyOne DEF Working

LEMMA MeantOne ==
    ASSUME NEW item, NEW d, NEW a \in meant(item, d), NEW b \in meant(item, d)
    PROVE  a = b
BY ArgumentsAssumption DEF meant

\* What a thread that reads has got from the items.
LEMMA ReadsIs ==
    ASSUME TypeOK, NEW t \in Thread, Reads(t), pending[t].left = {}
    PROVE  \E all \in Seq(Item) : \E i \in 0 .. Len(all) :
              /\ known # <<>> /\ known[1] = all
              /\ LeftOf(frames[t][1].items, all, i)
              /\ \A o \in Option : option[o].value = MadeUpto(all)[i][o]
<1>1. known \in Seq(Environments) /\ known # <<>>
  BY DEF TypeOK, Reads
<1>2. known[1] \in Environments
  <2>1. Len(known) \in Nat /\ Len(known) # 0
    BY <1>1, EmptySeq, LenProperties
  <2>2. 1 \in 1 .. Len(known)
    BY <2>1
  <2> QED
    BY <1>1, <2>2, ElementOfSeq
<1>3. PICK all \in Seq(Item) : all = known[1]
  BY <1>2, ArgumentsAssumption
<1>4. PICK i \in 0 .. Len(all) :
          LeftOf(frames[t][1].items, all, i) /\ Holds(t, MadeUpto(all)[i])
  BY <1>3 DEF Reads
<1>5. \A o \in Option : option[o].value = MadeUpto(all)[i][o]
  BY <1>4 DEF Holds, Awaits
<1> QED
  BY <1>1, <1>3, <1>4, <1>5

LEMMA LeftAfter ==
    ASSUME NEW items \in Seq(Item), NEW all \in Seq(Item), NEW i \in 0 .. Len(all),
           LeftOf(items, all, i), items # <<>>
    PROVE  /\ i + 1 \in 1 .. Len(all) /\ items[1] = all[i + 1]
           /\ LeftOf(Tail(items), all, i + 1)
<1>1. PICK n \in Nat, m \in Nat : n = Len(items) /\ m = Len(all) /\ n # 0
  BY LenProperties, EmptySeq
<1>2. n = m - i /\ \A k \in 1 .. n : items[k] = all[i + k]
  BY <1>1 DEF LeftOf
<1>3. i + 1 \in 1 .. m /\ 1 \in 1 .. n
  BY <1>1, <1>2
<1>4. /\ Tail(items) \in Seq(Item) /\ Len(Tail(items)) = n - 1
      /\ \A k \in 1 .. n - 1 : Tail(items)[k] = items[k + 1]
  BY <1>1, HeadTailProperties
<1>5. \A k \in 1 .. n - 1 : Tail(items)[k] = all[(i + 1) + k]
  <2> SUFFICES ASSUME NEW k \in 1 .. n - 1 PROVE Tail(items)[k] = all[(i + 1) + k]
    OBVIOUS
  <2>1. k + 1 \in 1 .. n /\ i + (k + 1) = (i + 1) + k
    BY <1>1
  <2> QED
    BY <1>2, <1>4, <2>1
<1>6. n - 1 = m - (i + 1)
  BY <1>1, <1>2
<1> QED
  BY <1>1, <1>2, <1>3, <1>4, <1>5, <1>6 DEF LeftOf

LEMMA ReadItemStep ==
    ASSUME IInv, AInv, NEW t \in Thread, ReadItem(t)
    PROVE  AInv'
<1> DEFINE item == frames[t][1].items[1]
           warn == item.name \notin DOMAIN table /\ option.debug.value # 0
           next == {o \in meant(item, option.debug.value) :
                       may_assign(environment_level, o)}
           left == {"level", "value"} \cup (IF warn THEN {"warn"} ELSE {})
           g == advanced(frames[t][1])
<1>1. TypeOK /\ pc[t] = "reading" /\ Access(t) /\ Work(t) /\ frames[t][1].items # <<>>
  BY DEF IInv, ReadItem, Reading, Work
<1>2. Len(frames[t]) = 1 /\ initialised
  BY <1>1 DEF IInv, Framed, InFrame
<1>3. frames[t] \in Seq(Frame)
  BY <1>1 DEF TypeOK, Frame
<1>4. frames[t][1] \in Frame /\ Tail(frames[t]) = <<>> /\ frames[t] # <<>>
  BY <1>2, <1>3, OnlyFrame
<1>5. frames' = [frames EXCEPT ![t] = <<g>> \o Tail(frames[t])]
  BY DEF ReadItem
<1>6. g.items = Tail(frames[t][1].items)
  BY <1>4 DEF advanced, rest, Frame
<1>7. \/ /\ next = {}
         /\ pc' = [pc EXCEPT ![t] = IF warn THEN "warning" ELSE "reading"]
         /\ pending' = pending
      \/ /\ pc' = [pc EXCEPT ![t] = "storing"]
         /\ \E o \in next : pending' = [pending EXCEPT ![t] =
                 [option |-> o, level |-> 2, value |-> item_value(item),
                  left |-> left]]
  BY DEF ReadItem, Goes, environment_level
<1>8. UNCHANGED <<initialised, option, known, set>>
  BY DEF ReadItem
<1> HIDE DEF g, left, warn
<1>9. frames'[t] = <<g>>
  <2>1. frames'[t] = <<g>> \o <<>>
    BY <1>1, <1>4, <1>5 DEF TypeOK
  <2> QED
    BY <2>1, Pushed
<1>10. frames'[t] # <<>> /\ frames'[t][1] = g
  BY <1>9
<1>11. pc'[t] \in {"reading", "warning", "storing"}
  BY <1>1, <1>7 DEF TypeOK
<1>12. ASSUME ~raced'
       PROVE  Reads(t)'
  <2>1. Reads(t)
    BY <1>1, <1>4, <1>12, OthersOut DEF AInv, Answers
  <2>2. pending[t].left = {}
    BY <1>1 DEF TypeOK
  <2>a. PICK all \in Seq(Item) : \E i \in 0 .. Len(all) :
            /\ known # <<>> /\ known[1] = all
            /\ LeftOf(frames[t][1].items, all, i)
            /\ \A o \in Option : option[o].value = MadeUpto(all)[i][o]
    BY <1>1, <2>1, <2>2, ReadsIs
  <2>3. PICK i \in 0 .. Len(all) :
            /\ known # <<>> /\ known[1] = all
            /\ LeftOf(frames[t][1].items, all, i)
            /\ \A o \in Option : option[o].value = MadeUpto(all)[i][o]
    BY <2>a
  <2>4. /\ i + 1 \in 1 .. Len(all) /\ item = all[i + 1]
        /\ LeftOf(g.items, all, i + 1)
    BY <1>1, <1>4, <1>6, <2>3, LeftAfter DEF Frame
  <2>5. PICK before : before = MadeUpto(all)[i]
    OBVIOUS
  <2>6. MadeUpto(all)[i + 1] = Made(item, before)
    <3>1. (i + 1) - 1 = i
      OBVIOUS
    <3> QED
      BY <2>4, <2>5, <3>1, MadeUptoIs
  <2>7. option.debug.value = before.debug
    <3>1. "debug" \in Option
      BY DEF Option, Default
    <3> QED
      BY <2>3, <2>5, <3>1
  <2>8. meant(item, before.debug) \subseteq Option
    BY MeantType
  <2>9. next = meant(item, before.debug)
    <3>1. \A o \in Option : may_assign(environment_level, o)
      <4> SUFFICES ASSUME NEW o \in Option PROVE may_assign(environment_level, o)
        OBVIOUS
      <4>1. option[o].level \in {0, 2, 3} /\ option[o].level <= 2
        BY <1>1, <2>1 DEF TypeOK, Reads
      <4>2. 2 >= option[o].level
        BY <4>1
      <4> QED
        BY <4>2 DEF may_assign, environment_level
    <3> QED
      BY <2>7, <2>8, <3>1
  <2> HIDE DEF next
  <2>10. /\ known' # <<>> /\ known'[1] = all
         /\ \A o \in Option : set'[o] = <<>> /\ option'[o].level <= 2
    BY <1>8, <2>1, <2>3 DEF Reads
  <2>11. \A o \in Option : option'[o].value = before[o]
    BY <1>8, <2>3, <2>5
  <2>12. i + 1 \in 0 .. Len(all)
    BY <2>4
  <2>13. \A o \in Option :
            Made(item, before)[o] = IF o \in next THEN item_value(item) ELSE before[o]
    BY <2>9 DEF Made
  <2>14. CASE next = {} /\ pending' = pending
    <3>1. \A o \in Option : option'[o].value = Made(item, before)[o]
      BY <2>11, <2>13, <2>14
    <3>2. Holds(t, MadeUpto(all)[i + 1])'
      BY <2>2, <2>6, <2>14, <3>1 DEF Holds, Awaits
    <3>3. pending'[t].left = {}
      BY <2>2, <2>14
    <3> QED
      BY <1>10, <2>4, <2>10, <2>12, <3>2, <3>3 DEF Reads
  <2>15. CASE \E o \in next : pending' = [pending EXCEPT ![t] =
                  [option |-> o, level |-> 2, value |-> item_value(item), left |-> left]]
    <3>1. PICK o \in next : pending' = [pending EXCEPT ![t] =
                  [option |-> o, level |-> 2, value |-> item_value(item), left |-> left]]
      BY <2>15
    <3>2. PICK v, l : v = item_value(item) /\ l = left /\ "value" \in l
      BY DEF left
    <3>3. pending'[t] = [option |-> o, level |-> 2, value |-> v, left |-> l]
      BY <1>1, <3>1, <3>2 DEF TypeOK
    <3>4. /\ pending'[t].option = o /\ pending'[t].level = 2 /\ pending'[t].value = v
          /\ pending'[t].left = l
      BY <3>3
    <3>5. \A a \in Option : a \in next <=> a = o
      BY <2>8, <2>9, <3>1, MeantOne
    <3>6. \A a \in Option :
             (IF Awaits(t, a)' THEN pending'[t].value ELSE option'[a].value)
                = Made(item, before)[a]
      BY <2>11, <2>13, <3>2, <3>4, <3>5 DEF Awaits
    <3>7. Holds(t, MadeUpto(all)[i + 1])'
      BY <2>6, <3>6 DEF Holds
    <3>8. pending'[t].level <= 2
      BY <3>4
    <3> QED
      BY <1>10, <2>4, <2>10, <2>12, <3>7, <3>8 DEF Reads
  <2> QED
    BY <1>7, <2>14, <2>15
<1> QED
  BY <1>1, <1>2, <1>8, <1>10, <1>11, <1>12, OnlyOne DEF Working

\* What is pending, when left is still to be stored.
Remains(t, left) ==
    \/ left \subseteq {"warn"} /\ pending'[t] = Nothing
    \/ /\ ~ (left \subseteq {"warn"})
       /\ pc' = pc
       /\ pending'[t] = [pending[t] EXCEPT !.left = left]

\* One part of an assignment to an option.
PartStored(t, part, o, left) ==
    /\ o = pending[t].option /\ left = pending[t].left \ {part}
    /\ \A a \in Option : a # o => option'[a] = option[a]
    /\ option'[o].level = IF part = "level" THEN pending[t].level ELSE option[o].level
    /\ option'[o].value = IF part = "value" THEN pending[t].value ELSE option[o].value
    /\ Remains(t, left)

LEMMA StoreIs ==
    ASSUME TypeOK, NEW t \in Thread, NEW part \in {"level", "value"}, Store(t, part)
    PROVE  \E o \in Option : \E left : PartStored(t, part, o, left)
<1>1. PICK p : p = pending[t] /\ p \in Pending
  BY DEF TypeOK, Pending
<1>a. PICK o \in Option : o = p.option
  BY <1>1 DEF Pending
<1>b. PICK l, v : l = p.level /\ v = p.value
  OBVIOUS
<1>2. o \in Option /\ o = p.option /\ l = p.level /\ v = p.value
  BY <1>a, <1>b
<1>3. option' = [option EXCEPT ![o] = [@ EXCEPT ![part] = p[part]]]
  BY <1>1, <1>2 DEF Store
<1>4. PICK old : old = option[o] /\ old \in [level : {0, 2, 3}, value : Value]
  BY DEF TypeOK
<1>5. option \in [Option -> [level : {0, 2, 3}, value : Value]] /\ pending \in [Thread -> Pending]
  BY DEF TypeOK, Pending
<1>6. option'[o] = [old EXCEPT ![part] = p[part]] /\ \A a \in Option : a # o => option'[a] = option[a]
  BY <1>3, <1>4, <1>5
<1>7. /\ option'[o].level = IF part = "level" THEN l ELSE old.level
      /\ option'[o].value = IF part = "value" THEN v ELSE old.value
  <2>1. CASE part = "level"
    <3>1. option'[o] = [old EXCEPT !.level = l]
      BY <1>2, <1>6, <2>1
    <3> QED
      BY <1>4, <2>1, <3>1
  <2>2. CASE part = "value"
    <3>1. option'[o] = [old EXCEPT !.value = v]
      BY <1>2, <1>6, <2>2
    <3> QED
      BY <1>4, <2>2, <3>1
  <2> QED
    BY <2>1, <2>2
<1>8. PICK left : left = p.left \ {part}
  OBVIOUS
<1>9. \/ left \subseteq {"warn"} /\ pending' = [pending EXCEPT ![t] = Nothing]
      \/ /\ ~ (left \subseteq {"warn"}) /\ pc' = pc
         /\ pending' = [pending EXCEPT ![t] = [p EXCEPT !.left = left]]
  BY <1>1, <1>8 DEF Store
<1>10. \/ left \subseteq {"warn"} /\ pending'[t] = Nothing
       \/ /\ ~ (left \subseteq {"warn"}) /\ pc' = pc
          /\ pending'[t] = [p EXCEPT !.left = left]
  BY <1>5, <1>9
<1>11. Remains(t, left)
  BY <1>1, <1>10 DEF Remains
<1>12. PartStored(t, part, o, left)
  BY <1>1, <1>2, <1>4, <1>6, <1>7, <1>8, <1>11 DEF PartStored
<1> QED
  BY <1>12

\* What is left to store after a part of it.
LEMMA PendingAfter ==
    ASSUME TypeOK, NEW t \in Thread, NEW part \in {"level", "value"}, NEW left,
           left = pending[t].left \ {part}, Remains(t, left)
    PROVE  /\ \A o : Awaits(t, o)' <=> Awaits(t, o) /\ part # "value"
           /\ pending'[t].left \subseteq left
           /\ pending'[t].left # {} => /\ pending'[t].level = pending[t].level
                                       /\ pending'[t].option = pending[t].option
                                       /\ pending'[t].left = left
           /\ \A o : Awaits(t, o)' => pending'[t].value = pending[t].value
<1>1. PICK p : p = pending[t] /\ p \in Pending
  BY DEF TypeOK, Pending
<1>2. CASE left \subseteq {"warn"} /\ pending'[t] = Nothing
  <2>1. pending'[t].left = {}
    BY <1>2 DEF Nothing
  <2>2. "value" \notin left
    BY <1>2
  <2>3. part # "value" => "value" \notin pending[t].left
    BY <2>2
  <2> QED
    BY <2>1, <2>3 DEF Awaits
<1>3. CASE ~ (left \subseteq {"warn"}) /\ pending'[t] = [pending[t] EXCEPT !.left = left]
  <2>1. pending'[t] = [p EXCEPT !.left = left]
    BY <1>1, <1>3
  <2>2. /\ pending'[t].left = left /\ pending'[t].option = p.option
        /\ pending'[t].level = p.level /\ pending'[t].value = p.value
    BY <1>1, <2>1 DEF Pending
  <2> QED
    BY <1>1, <2>2 DEF Awaits
<1> QED
  BY <1>2, <1>3 DEF Remains

LEMMA ReaderStores ==
    ASSUME IInv, AInv, NEW t \in Thread, NEW part \in {"level", "value"}, Store(t, part),
           frames[t] # <<>>, Reads(t)
    PROVE  frames'[t] # <<>> /\ Reads(t)' /\ Working(t)'
<1>1. TypeOK
  BY DEF IInv
<1>a. PICK o \in Option : \E left : PartStored(t, part, o, left)
  BY <1>1, StoreIs
<1>b. PICK left : PartStored(t, part, o, left)
  BY <1>a
<1>2. /\ o = pending[t].option /\ left = pending[t].left \ {part}
      /\ \A a \in Option : a # o => option'[a] = option[a]
      /\ option'[o].level = IF part = "level" THEN pending[t].level ELSE option[o].level
      /\ option'[o].value = IF part = "value" THEN pending[t].value ELSE option[o].value
      /\ Remains(t, left)
  BY <1>b DEF PartStored
<1>3. /\ \A a : Awaits(t, a)' <=> Awaits(t, a) /\ part # "value"
      /\ pending'[t].left # {} => pending'[t].level = pending[t].level
      /\ \A a : Awaits(t, a)' => pending'[t].value = pending[t].value
  BY <1>1, <1>2, PendingAfter
<1>4. UNCHANGED <<known, frames, set>> /\ part \in pending[t].left /\ pc[t] = "storing"
  BY DEF Store
<1>5. Working(t)'
  BY <1>1, <1>4 DEF Store, Goes, Working, TypeOK
<1>6. PICK i \in 0 .. Len(known[1]) :
          LeftOf(frames[t][1].items, known[1], i) /\ Holds(t, MadeUpto(known[1])[i])
  BY DEF Reads
<1>7. PICK says : says = MadeUpto(known[1])[i] /\ Holds(t, says)
  BY <1>6
<1>8. ASSUME NEW a \in Option
      PROVE  (IF Awaits(t, a)' THEN pending'[t].value ELSE option'[a].value) = says[a]
  <2>1. (IF Awaits(t, a) THEN pending[t].value ELSE option[a].value) = says[a]
    BY <1>7 DEF Holds
  <2>2. CASE a # o
    <3>1. ~Awaits(t, a)
      BY <1>2, <2>2 DEF Awaits
    <3> QED
      BY <1>2, <1>3, <2>1, <2>2, <3>1
  <2>3. CASE a = o /\ part = "value"
    <3>1. Awaits(t, a)
      BY <1>2, <1>4, <2>3 DEF Awaits
    <3> QED
      BY <1>2, <1>3, <2>1, <2>3, <3>1
  <2>4. CASE a = o /\ part = "level"
    <3>1. option'[a].value = option[a].value /\ (Awaits(t, a)' <=> Awaits(t, a))
      BY <1>2, <1>3, <2>4
    <3> QED
      BY <1>3, <2>1, <3>1
  <2> QED
    BY <2>2, <2>3, <2>4
<1>9. \A a \in Option : set'[a] = <<>> /\ option'[a].level <= 2
  <2>1. pending[t].level <= 2 /\ \A a \in Option : set[a] = <<>> /\ option[a].level <= 2
    BY <1>4 DEF Reads
  <2> QED
    BY <1>2, <1>4, <2>1
<1>10. pending'[t].left # {} => pending'[t].level <= 2
  BY <1>3, <1>4 DEF Reads
<1>11. Holds(t, MadeUpto(known[1])[i])'
  BY <1>4, <1>7, <1>8 DEF Holds
<1>12. Reads(t)'
  <2>1. known' # <<>>
    BY <1>4 DEF Reads
  <2>2. \E j \in 0 .. Len(known[1]) :
            LeftOf(frames[t][1].items, known[1], j)' /\ Holds(t, MadeUpto(known[1])[j])'
    BY <1>4, <1>6, <1>11
  <2> QED
    BY <1>4, <1>9, <1>10, <2>1, <2>2 DEF Reads
<1> QED
  BY <1>4, <1>5, <1>12

LEMMA ClientStores ==
    ASSUME IInv, AInv, NEW t \in Thread, NEW part \in {"level", "value"}, Store(t, part),
           frames[t] = <<>>, Stores(t)
    PROVE  /\ frames'[t] = <<>> /\ (pc'[t] = "storing" => Stores(t)')
           /\ ~Working(t)' => \A o \in Option : option'[o].value = Kept(o)'
<1>1. TypeOK
  BY DEF IInv
<1>a. PICK o \in Option : \E left : PartStored(t, part, o, left)
  BY <1>1, StoreIs
<1>b. PICK left : PartStored(t, part, o, left)
  BY <1>a
<1>2. /\ o = pending[t].option /\ left = pending[t].left \ {part}
      /\ \A a \in Option : a # o => option'[a] = option[a]
      /\ option'[o].level = IF part = "level" THEN pending[t].level ELSE option[o].level
      /\ option'[o].value = IF part = "value" THEN pending[t].value ELSE option[o].value
      /\ Remains(t, left)
  BY <1>b DEF PartStored
<1>3. UNCHANGED <<known, frames>> /\ pc[t] = "storing"
  BY DEF Store
<1>4. /\ pending[t].left \subseteq {"level", "value"}
      /\ \A a \in Option : a # o => option[a].value = Kept(a)
      /\ "value" \notin pending[t].left => option[o].value = pending[t].value
  BY <1>2 DEF Stores
<1>5. "value" \notin left => option'[o].value = pending[t].value
  BY <1>2, <1>4
<1>6. \A a \in Option : a # o => option'[a].value = Kept(a)
  BY <1>2, <1>4
<1>7. CASE left \subseteq {"warn"}
  <2>1. left = {}
    BY <1>2, <1>4, <1>7
  <2>2. pc' = [pc EXCEPT ![t] = "idle"] /\ set' = [set EXCEPT ![o] = <<pending[t].value>>]
    BY <1>2, <1>7, <2>1 DEF Store, Returns, Goes
  <2>3. pc'[t] = "idle"
    BY <1>1, <2>2 DEF TypeOK
  <2>4. PICK v : v = pending[t].value
    OBVIOUS
  <2>5. set'[o] = <<v>> /\ \A a \in Option : a # o => set'[a] = set[a]
    BY <1>1, <2>2, <2>4 DEF TypeOK
  <2>6. set'[o] # <<>> /\ set'[o][1] = v
    BY <2>5
  <2>7. Kept(o)' = v
    BY <2>6 DEF Kept
  <2>8. \A a \in Option : a # o => Kept(a)' = Kept(a)
    BY <1>3, <2>5 DEF Kept
  <2>9. \A a \in Option : option'[a].value = Kept(a)'
    BY <1>5, <1>6, <2>1, <2>4, <2>7, <2>8
  <2> QED
    BY <1>3, <2>3, <2>9
<1>8. CASE ~ (left \subseteq {"warn"})
  <2>1. pc'[t] = "storing" /\ pending'[t] = [pending[t] EXCEPT !.left = left]
    BY <1>2, <1>3, <1>8 DEF Remains
  <2>2. left # {} /\ set' = set
    <3>1. left # {}
      BY <1>8
    <3> QED
      BY <1>2, <3>1 DEF Store
  <2>3. /\ pending'[t].left = left /\ pending'[t].option = o
        /\ pending'[t].value = pending[t].value
    <3>1. pending[t] \in Pending
      BY <1>1 DEF TypeOK, Pending
    <3> QED
      BY <1>2, <2>1, <3>1 DEF Pending
  <2>4. \A a \in Option : Kept(a)' = Kept(a)
    BY <1>3, <2>2 DEF Kept
  <2>5. left \subseteq {"level", "value"}
    BY <1>2, <1>4
  <2>6. Stores(t)'
    BY <1>5, <1>6, <2>3, <2>4, <2>5 DEF Stores
  <2> QED
    BY <1>3, <2>1, <2>6 DEF Working
<1> QED
  BY <1>7, <1>8

LEMMA StoreStep ==
    ASSUME IInv, AInv, NEW t \in Thread, NEW part \in {"level", "value"}, Store(t, part)
    PROVE  AInv'
<1>1. TypeOK /\ pc[t] = "storing" /\ Access(t) /\ Work(t) /\ initialised' = initialised
  BY DEF IInv, Store, Work
<1>2. initialised
  BY <1>1 DEF AInv, Unread
<1>3. ASSUME ~raced'
      PROVE  /\ frames'[t] # <<>> => Reads(t)'
             /\ frames'[t] = <<>> /\ pc'[t] = "storing" => Stores(t)'
             /\ ~Working(t)' => \A o \in Option : option'[o].value = Kept(o)'
  <2>1. ~raced
    BY <1>1, <1>3, OthersOut
  <2>2. CASE frames[t] # <<>>
    <3>1. Reads(t)
      BY <2>1, <2>2 DEF AInv, Answers
    <3> QED
      BY <2>2, <3>1, ReaderStores
  <2>3. CASE frames[t] = <<>>
    <3>1. Stores(t)
      BY <1>1, <2>1, <2>3 DEF AInv, Answers
    <3> QED
      BY <2>3, <3>1, ClientStores
  <2> QED
    BY <2>2, <2>3
<1> QED
  BY <1>1, <1>2, <1>3, OnlyOne

LEMMA EndReadingStep ==
    ASSUME IInv, AInv, NEW t \in Thread, EndReading(t)
    PROVE  AInv'
<1>1. TypeOK /\ pc[t] = "reading" /\ Access(t) /\ Work(t) /\ frames[t][1].items = <<>>
  BY DEF IInv, EndReading, Reading, Work
<1>2. Len(frames[t]) = 1 /\ initialised
  BY <1>1 DEF IInv, Framed, InFrame
<1>3. frames[t] \in Seq(Frame)
  BY <1>1 DEF TypeOK, Frame
<1>4. Tail(frames[t]) = <<>> /\ frames[t] # <<>>
  BY <1>2, <1>3, OnlyFrame
<1>5. frames'[t] = <<>> /\ pc'[t] = "use" /\ UNCHANGED <<initialised, option, known, set>>
  BY <1>1, <1>2, <1>4 DEF EndReading, Goes, TypeOK
<1>6. ASSUME ~raced'
      PROVE  \A o \in Option : option'[o].value = Kept(o)'
  <2>1. Reads(t)
    BY <1>1, <1>4, <1>6, OthersOut DEF AInv, Answers
  <2>2. pending[t].left = {}
    BY <1>1 DEF TypeOK
  <2>3. PICK all \in Seq(Item) : \E i \in 0 .. Len(all) :
            /\ known # <<>> /\ known[1] = all
            /\ LeftOf(frames[t][1].items, all, i)
            /\ \A o \in Option : option[o].value = MadeUpto(all)[i][o]
    BY <1>1, <2>1, <2>2, ReadsIs
  <2>4. PICK i \in 0 .. Len(all) :
            /\ known # <<>> /\ known[1] = all
            /\ LeftOf(frames[t][1].items, all, i)
            /\ \A o \in Option : option[o].value = MadeUpto(all)[i][o]
    BY <2>3
  <2>5. i = Len(all)
    <3>1. Len(frames[t][1].items) = Len(all) - i
      BY <2>4 DEF LeftOf
    <3>2. Len(frames[t][1].items) = 0
      BY <1>1
    <3>3. Len(all) \in Nat
      BY LenProperties
    <3> QED
      BY <3>1, <3>2, <3>3
  <2>6. \A o \in Option : option[o].value = Makes(all)[o]
    BY <2>4, <2>5 DEF Makes
  <2>7. known' # <<>> /\ known'[1] = all /\ \A o \in Option : set'[o] = <<>>
    BY <1>5, <2>1, <2>4 DEF Reads
  <2>8. \A o \in Option : Kept(o)' = Makes(all)[o]
    BY <2>7 DEF Kept
  <2> QED
    BY <1>5, <2>6, <2>8
<1> QED
  BY <1>1, <1>2, <1>5, <1>6, OnlyOne

\* When a thread has the table for itself, the table holds what was kept.
LEMMA AtRest ==
    ASSUME IInv, AInv, NEW t \in Thread, pc[t] = "use", ~raced,
           \A u \in Thread \ {t} : ~Busy(u)
    PROVE  \A o \in Option : option[o].value = Kept(o)
<1>1. \A u \in Thread : ~Working(u)
  BY DEF Busy, Working
<1> QED
  BY <1>1 DEF AInv, Answers

LEMMA SetStep ==
    ASSUME IInv, AInv, NEW t \in Thread, Set(t)
    PROVE  AInv'
<1>1. TypeOK /\ pc[t] = "use" /\ Access(t) /\ Work(t)
  BY DEF IInv, Set, Work
<1>2. initialised
  BY <1>1 DEF AInv, Unread
<1>3. frames[t] = <<>>
  BY <1>1 DEF IInv, Framed, OutOfFrame, Outside
<1>4. UNCHANGED <<frames, initialised, option, known, set>>
  BY DEF Set
<1>5. ASSUME ~raced'
      PROVE  \A o \in Option : option'[o].value = Kept(o)'
  <2>1. ~raced /\ \A u \in Thread \ {t} : ~Busy(u)
    BY <1>1, <1>5 DEF Access
  <2>2. \A o \in Option : option[o].value = Kept(o)
    BY <1>1, <2>1, AtRest
  <2>3. \A o \in Option : Kept(o)' = Kept(o)
    BY <1>4 DEF Kept
  <2> QED
    BY <1>4, <2>2, <2>3
<1>6. ASSUME ~raced', pc'[t] = "storing"
      PROVE  Stores(t)'
  <2>1. PICK o, v : o = op[t].option /\ v = normal(op[t].option, op[t].arg)
    OBVIOUS
  <2>2. pending' = [pending EXCEPT ![t] = [option |-> o, level |-> client_level,
                        value |-> v, left |-> {"level", "value"}]]
    <3>1. ~ Returns(t)
      BY <1>1, <1>6 DEF Returns, Goes, TypeOK
    <3> QED
      BY <2>1, <3>1 DEF Set
  <2>3. pending'[t] = [option |-> o, level |-> client_level,
                        value |-> v, left |-> {"level", "value"}]
    BY <1>1, <2>2 DEF TypeOK
  <2>4. pending'[t].left = {"level", "value"}
    BY <2>3
  <2> QED
    BY <1>5, <1>6, <2>4 DEF Stores
<1> QED
  BY <1>1, <1>2, <1>3, <1>4, <1>5, <1>6, OnlyOne

LEMMA StepAInv == IInv /\ AInv /\ [Next]_vars => AInv'
<1> SUFFICES ASSUME IInv, AInv, [Next]_vars PROVE AInv'
  OBVIOUS
<1>1. CASE \E t \in Thread : Work(t)
  <2> PICK t \in Thread : Work(t)
    BY <1>1
  <2>1. CASE Unnamed(t) \/ Test(t) \/ Warn(t) \/ Get(t)
    BY <2>1, QuietSteps
  <2>2. CASE Initialise(t)
    BY <2>2, InitialiseStep
  <2>3. CASE ReadItem(t)
    BY <2>3, ReadItemStep
  <2>4. CASE \E part \in {"level", "value"} : Store(t, part)
    BY <2>4, StoreStep
  <2>5. CASE EndReading(t)
    BY <2>5, EndReadingStep
  <2>6. CASE Set(t)
    BY <2>6, SetStep
  <2> QED
    BY <2>1, <2>2, <2>3, <2>4, <2>5, <2>6 DEF Work
<1>2. CASE \E t \in Thread : \E o \in Operation : Ask(t, o)
  BY <1>2, AskSteps
<1>3. CASE (\E e \in Environments : PutEnv(e)) \/ UNCHANGED vars
  BY <1>3, StillSteps
<1> QED
  BY <1>1, <1>2, <1>3 DEF Next

LEMMA AInvariant == Spec => []AInv
<1>1. Init => AInv
  BY AInvInit
<1>2. IInv /\ AInv /\ [Next]_vars => AInv'
  BY StepAInv
<1> QED
  BY <1>1, <1>2, Invariant, PTL DEF Spec

\* The hanging indent is kept within 0 and 8.
LEMMA Indented ==
    ASSUME NEW v \in Int
    PROVE  indent(v) = CHOOSE n \in 0 .. 8 : n = v \/ (v < 0 /\ n = 0) \/ (v > 8 /\ n = 8)
<1> DEFINE P(n) == n = v \/ (v < 0 /\ n = 0) \/ (v > 8 /\ n = 8)
<1>1. indent(v) \in 0 .. 8 /\ P(indent(v))
  BY DEF indent
<1>2. \A n \in 0 .. 8 : P(n) => n = indent(v)
  BY DEF indent
<1>3. PICK c : c = CHOOSE n \in 0 .. 8 : P(n)
  OBVIOUS
<1>4. c \in 0 .. 8 /\ P(c)
  <2> HIDE DEF P
  <2> QED
    BY <1>1, <1>3
<1>5. c = indent(v)
  BY <1>2, <1>4
<1> QED
  BY <1>3, <1>5

-----------------------------------------------------------------------------
(***************************************************************************)
(* What the items make of a value is what they say of it, when no number   *)
(* in them is too wide for a char; and the default when they say nothing.  *)
(***************************************************************************)
LEMMA NotWide ==
    ASSUME NEW item \in Item, ~ Wide(item)
    PROVE  item_value(item) = item_says(item)
<1>1. CASE item.eq = <<>>
  BY <1>1 DEF item_value, item_says
<1>2. CASE item.eq # <<>>
  <2>1. PICK n \in Int : n = item.eq[1]
    BY <1>2 DEF Item
  <2>2. n \in -128 .. 127
    BY <1>2, <2>1 DEF Wide
  <2>3. byte(n) = n
    BY <2>2 DEF byte
  <2> QED
    BY <1>2, <2>1, <2>3 DEF item_value, item_says
<1> QED
  BY <1>1, <1>2

LEMMA SaysType == \A item \in Item : item_says(item) \in Int
<1> SUFFICES ASSUME NEW item \in Item PROVE item_says(item) \in Int
  OBVIOUS
<1>1. CASE item.eq = <<>>
  BY <1>1 DEF item_says
<1>2. CASE item.eq # <<>>
  <2>1. item.eq[1] \in Int
    BY <1>2 DEF Item
  <2> QED
    BY <1>2, <2>1 DEF item_says
<1> QED
  BY <1>1, <1>2

Words == {<<>>} \cup {<<n>> : n \in Int}

Silence == [o \in Option |-> <<>>]

Saying(g, items) ==
    g = [i \in 0 .. Len(items) |->
            IF i = 0 THEN [o \in Option |-> <<>>] ELSE Said(items[i], g[i - 1])]

LEMMA SaysUptoIs ==
    ASSUME NEW items \in Seq(Item)
    PROVE  /\ SaysUpto(items)[0] = Silence
           /\ \A i \in 1 .. Len(items) :
                 SaysUpto(items)[i] = Said(items[i], SaysUpto(items)[i - 1])
           /\ \A i \in 0 .. Len(items) : SaysUpto(items)[i] \in [Option -> Words]
<1> DEFINE f == CHOOSE g : Saying(g, items)
           T == [Option -> Words]
<1>1. SaysUpto(items) = f
  BY DEF SaysUpto, Saying, Said
<1>2. PICK N \in Nat : N = Len(items)
  BY LenProperties
<1>3. \A i \in 1 .. N : items[i] \in Item
  BY <1>2, ElementOfSeq
<1>4. Silence \in T
  BY DEF Silence, Words
<1>5. ASSUME NEW item \in Item, NEW before \in T
      PROVE  Said(item, before) \in T
  <2>1. <<item_says(item)>> \in Words
    BY SaysType DEF Words
  <2> QED
    BY <2>1 DEF Said
<1>6. PICK step : step = [i \in 1 .. N |-> [s \in T |-> Said(items[i], s)]]
  OBVIOUS
<1> HIDE DEF T
<1>7. step \in [1 .. N -> [T -> T]]
  BY <1>3, <1>5, <1>6
<1>8. PICK g : Recurs(g, N, T, Silence, step)
  <2>1. PICK start : start = Silence
    OBVIOUS
  <2>2. start \in T
    BY <1>4, <2>1
  <2>3. \E g : Recurs(g, N, T, start, step)
    BY <1>7, <2>2, Recursion
  <2> QED
    BY <2>1, <2>3
<1>9. /\ g \in [0 .. N -> T] /\ g[0] = Silence
      /\ \A i \in 1 .. N : g[i] = step[i][g[i - 1]]
  BY <1>8 DEF Recurs
<1>10. \A i \in 0 .. N : g[i] = IF i = 0 THEN Silence ELSE Said(items[i], g[i - 1])
  <2> SUFFICES ASSUME NEW i \in 0 .. N, i # 0
               PROVE  g[i] = Said(items[i], g[i - 1])
    BY <1>9
  <2>1. i \in 1 .. N /\ i - 1 \in 0 .. N /\ g[i - 1] \in T
    BY <1>9
  <2> QED
    BY <1>6, <1>9, <2>1
<1>11. Saying(g, items)
  BY <1>2, <1>9, <1>10 DEF Saying, Silence
<1>12. Saying(f, items)
  BY <1>11
<1> HIDE DEF f
<1>13. /\ \A i \in 0 .. N : f[i] = IF i = 0 THEN Silence ELSE Said(items[i], f[i - 1])
  BY <1>2, <1>12 DEF Saying, Silence
<1>14. f[0] = Silence
  BY <1>13
<1>15. \A i \in 1 .. N : f[i] = Said(items[i], f[i - 1])
  <2>1. \A i \in 1 .. N : i \in 0 .. N /\ i # 0
    OBVIOUS
  <2> QED
    BY <1>13, <2>1
<1>16. \A i \in 0 .. N : f[i] \in T
  <2> DEFINE S == {i \in Nat : i <= N => f[i] \in T}
  <2>1. 0 \in S
    BY <1>4, <1>14
  <2>2. ASSUME NEW n \in Nat, n \in S
        PROVE  n + 1 \in S
    <3> SUFFICES ASSUME n + 1 <= N PROVE f[n + 1] \in T
      OBVIOUS
    <3>1. n <= N /\ n + 1 \in 1 .. N /\ (n + 1) - 1 = n
      OBVIOUS
    <3>2. f[n + 1] = Said(items[n + 1], f[n]) /\ f[n] \in T
      BY <1>15, <2>2, <3>1
    <3> QED
      BY <1>3, <1>5, <3>1, <3>2
  <2>3. \A n \in Nat : n \in S
    <3> HIDE DEF S
    <3> QED
      BY <2>1, <2>2, Induction
  <2> QED
    BY <2>3
<1> QED
  BY <1>1, <1>2, <1>14, <1>15, <1>16 DEF T

\* A value is what was said of it, or the default.
Agree(made, said, o) ==
    made[o] = IF said[o] = <<>> THEN Default[o] ELSE said[o][1]

LEMMA DebugDefault == "debug" \in Option /\ Documented["debug"] = Default["debug"]
BY DEF Option, Default, Documented

\* One item more.
LEMMA AgreeAfter ==
    ASSUME NEW item, NEW made, NEW said, NEW q,
           item \in Item, made \in [Option -> Value], said \in [Option -> Words], q \in Option,
           Agree(made, said, "debug"), Agree(made, said, q),
           Wide(item) => q \notin meant(item, 1)
    PROVE  Agree(Made(item, made), Said(item, said), q)
<1>1. PICK d : d = made["debug"]
  OBVIOUS
<1>2. Word(said, "debug") = d
  BY <1>1, DebugDefault DEF Agree, Word
<1>3. PICK S : S = meant(item, d)
  OBVIOUS
<1>4. S \subseteq meant(item, 1)
  BY <1>3 DEF meant
<1>5. Made(item, made)[q] = IF q \in S THEN item_value(item) ELSE made[q]
  BY <1>1, <1>3 DEF Made
<1>6. Said(item, said)[q] = IF q \in S THEN <<item_says(item)>> ELSE said[q]
  BY <1>2, <1>3 DEF Said
<1>7. CASE q \in S
  <2>1. item_value(item) = item_says(item)
    BY <1>4, <1>7, NotWide
  <2>2. PICK n : n = item_says(item)
    OBVIOUS
  <2>3. Made(item, made)[q] = n /\ Said(item, said)[q] = <<n>>
    BY <1>5, <1>6, <1>7, <2>1, <2>2
  <2>4. <<n>> # <<>> /\ <<n>>[1] = n
    OBVIOUS
  <2> QED
    BY <2>3, <2>4 DEF Agree
<1>8. CASE q \notin S
  BY <1>5, <1>6, <1>8 DEF Agree
<1> QED
  BY <1>7, <1>8

\* No item up to the end of items that is too wide for a char can touch o.
Narrow(items, o) ==
    \A i \in 1 .. Len(items) : Wide(items[i]) => meant(items[i], 1) \cap {o, "debug"} = {}

LEMMA SaidIsMade ==
    ASSUME NEW items, NEW o, items \in Seq(Item), o \in Option, Narrow(items, o)
    PROVE  Agree(Makes(items), Says(items), o)
<1>1. PICK N \in Nat : N = Len(items)
  BY LenProperties
<1>2. PICK m : m = MadeUpto(items)
  OBVIOUS
<1>3. PICK w : w = SaysUpto(items)
  OBVIOUS
<1>4. /\ m[0] = Default
      /\ \A i \in 1 .. N : m[i] = Made(items[i], m[i - 1])
      /\ \A i \in 0 .. N : m[i] \in [Option -> Value]
  BY <1>1, <1>2, MadeUptoIs
<1>5. /\ w[0] = Silence
      /\ \A i \in 1 .. N : w[i] = Said(items[i], w[i - 1])
      /\ \A i \in 0 .. N : w[i] \in [Option -> Words]
  BY <1>1, <1>3, SaysUptoIs
<1>6. \A i \in 1 .. N : items[i] \in Item
  BY <1>1, ElementOfSeq
<1> DEFINE S == {i \in Nat : i <= N => Agree(m[i], w[i], o) /\ Agree(m[i], w[i], "debug")}
<1>7. 0 \in S
  BY <1>4, <1>5, DebugDefault DEF Agree, Silence
<1>8. ASSUME NEW n \in Nat, n \in S
      PROVE  n + 1 \in S
  <2> SUFFICES ASSUME n + 1 <= N
               PROVE  Agree(m[n + 1], w[n + 1], o) /\ Agree(m[n + 1], w[n + 1], "debug")
    OBVIOUS
  <2>1. n <= N /\ n \in 0 .. N /\ n + 1 \in 1 .. N /\ (n + 1) - 1 = n
    OBVIOUS
  <2>2. PICK item, made, said : item = items[n + 1] /\ made = m[n] /\ said = w[n]
    OBVIOUS
  <2>3. m[n + 1] = Made(item, made) /\ w[n + 1] = Said(item, said)
    BY <1>4, <1>5, <2>1, <2>2
  <2>4. item \in Item /\ made \in [Option -> Value] /\ said \in [Option -> Words]
    BY <1>4, <1>5, <1>6, <2>1, <2>2
  <2>5. Agree(made, said, o) /\ Agree(made, said, "debug")
    BY <1>8, <2>1, <2>2
  <2>6. Wide(item) => o \notin meant(item, 1) /\ "debug" \notin meant(item, 1)
    BY <1>1, <2>1, <2>2 DEF Narrow
  <2>7. Agree(Made(item, made), Said(item, said), o)
    BY <2>4, <2>5, <2>6, AgreeAfter
  <2>8. Agree(Made(item, made), Said(item, said), "debug")
    <3>1. PICK q : q = "debug"
      OBVIOUS
    <3>2. q \in Option /\ Agree(made, said, q) /\ (Wide(item) => q \notin meant(item, 1))
      BY <2>5, <2>6, <3>1, DebugDefault
    <3>3. Agree(Made(item, made), Said(item, said), q)
      BY <2>4, <2>5, <3>2, AgreeAfter
    <3> QED
      BY <3>1, <3>3
  <2> QED
    BY <2>3, <2>7, <2>8
<1>9. N \in S
  <2> HIDE DEF S
  <2> QED
    BY <1>7, <1>8, Induction
<1> QED
  BY <1>1, <1>2, <1>3, <1>9 DEF Makes, Says

\* What is kept of an option is what was promised of it.
LEMMA KeptIsPromised ==
    ASSUME NEW o, TypeOK, o \in Option, ~ Narrowed(o)
    PROVE  Kept(o) = IF NamedByDefault(o) THEN 1 ELSE Promised(o)
<1>1. Default[o] = IF o = "assemble_program_name" THEN 1 ELSE Documented[o]
  BY DEF Option, Default, Documented
<1>2. Promised(o) = IF Spoken[o] = <<>> THEN Documented[o] ELSE Spoken[o][1]
  BY DEF Promised, Word
<1>3. Kept(o) = IF Spoken[o] = <<>> THEN Default[o] ELSE Spoken[o][1]
  <2>1. CASE set[o] # <<>>
    BY <2>1 DEF Kept, Spoken
  <2>2. CASE set[o] = <<>> /\ known = <<>>
    BY <2>2 DEF Kept, Spoken
  <2>3. CASE set[o] = <<>> /\ known # <<>>
    <3>1. PICK items : items = known[1]
      OBVIOUS
    <3>2. items \in Environments
      <4>1. PICK all \in Seq(Environments) : all = known
        BY DEF TypeOK
      <4>2. Len(all) \in Nat /\ Len(all) # 0
        BY <2>3, <4>1, EmptySeq, LenProperties
      <4>3. 1 \in 1 .. Len(all)
        BY <4>2
      <4> QED
        BY <3>1, <4>1, <4>3, ElementOfSeq
    <3>3. items \in Seq(Item)
      BY <3>2, ArgumentsAssumption
    <3>4. DOMAIN items = 1 .. Len(items)
      BY <3>3, LenProperties
    <3>5. Narrow(items, o)
      BY <2>3, <3>1, <3>4 DEF Narrowed, Narrow
    <3>6. Agree(Makes(items), Says(items), o)
      BY <3>3, <3>5, SaidIsMade
    <3>7. Kept(o) = Makes(items)[o] /\ Spoken[o] = Says(items)[o]
      BY <2>3, <3>1 DEF Kept, Spoken
    <3> QED
      BY <3>6, <3>7 DEF Agree
  <2> QED
    BY <2>1, <2>2, <2>3
<1> QED
  BY <1>1, <1>2, <1>3 DEF NamedByDefault

(***************************************************************************)
(* Without a race, a thread is told what clients set, or else what the     *)
(* environment said, as it is written, or else the documented default: for *)
(* every environment, any number of threads and calls in any order         *)
(* (option.c:146-150).  The two exceptions are those of AnswersPromised:   *)
(* the name of the program, which is there by default, and an option that  *)
(* a number too wide for a char may have touched.                          *)
(***************************************************************************)
THEOREM AnswersArePromised == Spec => []AnswersPromised
<1>1. IInv /\ AInv => AnswersPromised
  <2> SUFFICES ASSUME IInv, AInv, NEW t \in Thread, pc[t] = "use", op[t].do = "get",
                      ~raced, \A u \in Thread \ {t} : ~Busy(u),
                      ~ Narrowed(op[t].option)
               PROVE  told(t) = IF NamedByDefault(op[t].option) THEN 1
                                ELSE IF op[t].option # "hanging_indent"
                                THEN Promised(op[t].option)
                                ELSE CHOOSE n \in 0 .. 8 :
                                        \/ n = Promised(op[t].option)
                                        \/ Promised(op[t].option) < 0 /\ n = 0
                                        \/ Promised(op[t].option) > 8 /\ n = 8
    BY DEF AnswersPromised
  <2>1. TypeOK
    BY DEF IInv
  <2>2. op[t] \in Operation /\ op[t].do = "get"
    <3>1. PICK q : q = op[t] /\ q.do = "get"
      OBVIOUS
    <3>2. \/ q \in Operation \/ q = Idle
          \/ q \in [do : {"set"}, option : {"assemble_program_name"}, arg : {0}]
      BY <2>1, <3>1 DEF TypeOK
    <3>3. q # Idle
      BY <3>1 DEF Idle
    <3>4. q \notin [do : {"set"}, option : {"assemble_program_name"}, arg : {0}]
      BY <3>1
    <3> QED
      BY <3>1, <3>2, <3>3, <3>4
  <2>3. PICK o \in Option : o = op[t].option
    BY <2>2, ArgumentsAssumption DEF Operation
  <2>4. PICK v : v = option[o].value
    OBVIOUS
  <2>5. v = Kept(o)
    BY <2>4, AtRest
  <2>6. v = IF NamedByDefault(o) THEN 1 ELSE Promised(o)
    BY <2>1, <2>3, <2>5, KeptIsPromised
  <2>7. v \in Int
    BY <2>1, <2>4, ValueIsInt DEF TypeOK
  <2>8. told(t) = IF o # "hanging_indent" THEN v ELSE indent(v)
    BY <2>3, <2>4 DEF told, given
  <2>9. CASE NamedByDefault(o)
    <3>1. o # "hanging_indent" /\ v = 1
      BY <2>6, <2>9 DEF NamedByDefault
    <3> QED
      BY <2>3, <2>8, <2>9, <3>1
  <2>10. CASE ~ NamedByDefault(o)
    BY <2>3, <2>6, <2>7, <2>8, <2>10, Indented
  <2> QED
    BY <2>3, <2>9, <2>10
<1> QED
  BY <1>1, Invariant, AInvariant, PTL
=============================================================================
