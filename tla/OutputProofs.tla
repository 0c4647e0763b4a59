---------------------------- MODULE OutputProofs ----------------------------
(***************************************************************************)
(* Proofs about Output, for clients that make any number of objects, of    *)
(* every class, print any number of messages and register any number of    *)
(* functions, and whatever malloc does.                                    *)
(*                                                                         *)
(* OneOwner is inductive only together with what is on the stack: the      *)
(* owners move there while a tree is destroyed.  HInv is the invariant:    *)
(* types, no object in two hands (Apart), whatever is in a hand is alive   *)
(* (Alive), whatever is alive is in a hand (Covered), and the stack holds  *)
(* calls that destroy or calls that do not, never both (Sorted).           *)
(*                                                                         *)
(* StatusReported follows from EndInv, about the lists of functions that   *)
(* exit calls.  Arrives follows from SInv, about the files and what is     *)
(* still on the stack: each step is shown to keep it, from HInv before and *)
(* after the step and from the Phase of EndInv.                            *)
(***************************************************************************)
EXTENDS Output, SequenceTheorems, FiniteSetTheorems, TLAPS

Methods == {"destructor", "free", "message", "method_exit", "exit_method", "exit"}
CallRec == [method : Methods, op : Nat, arg : Nat]

\* The calls on the stack that destroy, by their place.
Destroyers == {i \in DOMAIN stack : stack[i].method \in {"destructor", "free"}}

\* The tees that still answer for their two parts.
Keepers == {t \in live \ freeing : objects[t].vtable = "tee"}

Parts(t) == {objects[t].first, objects[t].second}

Typed ==
    /\ objects \in Seq(Object)
    /\ live \subseteq DOMAIN objects
    /\ mine \subseteq live
    /\ forgotten \subseteq live
    /\ where \in live \cup {STATIC, NULL}
    /\ stack \in Seq(CallRec)
    /\ said \in Nat
    /\ client \in Clients

Apart ==
    /\ mine \cap forgotten = {}
    /\ where \notin mine \cup forgotten
    /\ \A i \in Destroyers :
          /\ stack[i].op \notin mine \cup forgotten
          /\ stack[i].op = where => where = STATIC
          /\ \A j \in Destroyers :
                stack[i].op = stack[j].op => i = j \/ stack[i].op = STATIC
    /\ \A t \in Keepers :
          /\ Parts(t) \cap (mine \cup forgotten \cup {where}) = {}
          /\ objects[t].first # objects[t].second
          /\ \A i \in Destroyers : stack[i].op \notin Parts(t)
          /\ \A u \in Keepers : t = u \/ Parts(t) \cap Parts(u) = {}

Alive == CallsAreLive /\ \A t \in Keepers : Parts(t) \subseteq live

Covered ==
    \A op \in live :
        \/ op \in mine \cup forgotten \cup {where}
        \/ \E i \in Destroyers : stack[i].op = op
        \/ \E t \in Keepers : op \in Parts(t)

Sorted == Destroyers = {} \/ Destroyers = DOMAIN stack

HInv == Typed /\ Apart /\ Alive /\ Covered /\ Sorted

-----------------------------------------------------------------------------
(* What HInv says to a reader who asks for owners. *)

LEMMA ObjectsAreNumbers ==
    ASSUME Typed
    PROVE  /\ DOMAIN objects = 1 .. Len(objects)
           /\ Len(objects) \in Nat
           /\ NULL \notin DOMAIN objects \cup {STATIC}
           /\ \A op \in DOMAIN objects : op # STATIC /\ op \in Nat /\ objects[op] \in Object
<1>1. DOMAIN objects = 1 .. Len(objects) /\ Len(objects) \in Nat
  BY LenProperties DEF Typed
<1>2. \A op \in DOMAIN objects : objects[op] \in Object
  BY <1>1, ElementOfSeq DEF Typed
<1> QED
  BY <1>1, <1>2, NullAssumption DEF STATIC

LEMMA FreeingIs ==
    ASSUME NEW op
    PROVE  op \in freeing <=> \E i \in Destroyers : stack[i].method = "free" /\ stack[i].op = op
BY DEF freeing, Destroyers

LEMMA OwnersAre ==
    ASSUME Typed, NEW op \in DOMAIN objects, NEW a
    PROVE  a \in Owners(op) <=>
               \/ a = <<"where", 0>> /\ where = op
               \/ a = <<"mine", 0>> /\ op \in mine
               \/ a = <<"forgotten", 0>> /\ op \in forgotten
               \/ \E i \in Destroyers : a = <<"stack", i>> /\ stack[i].op = op
               \/ \E t \in Keepers : a = <<"first", t>> /\ objects[t].first = op
               \/ \E t \in Keepers : a = <<"second", t>> /\ objects[t].second = op
<1>1. \A t \in live : vtable(t) = objects[t].vtable
  BY ObjectsAreNumbers DEF vtable, Typed
<1> QED
  BY <1>1 DEF Owners, Destroyers, Keepers

LEMMA OneOwnerEach == HInv => OneOwner
<1> SUFFICES ASSUME HInv, NEW op \in DOMAIN objects
             PROVE  IF op \in live THEN \E owner \in Owners(op) : Owners(op) = {owner}
                    ELSE Owners(op) = {}
  BY DEF OneOwner
<1> USE DEF HInv
<1>1. op # STATIC /\ op # NULL
  BY ObjectsAreNumbers
<1>2. CASE op \notin live
  <2>1. where # op /\ op \notin mine \cup forgotten
    BY <1>1, <1>2 DEF Typed
  <2>2. \A i \in Destroyers : stack[i].op # op
    BY <1>1, <1>2 DEF Alive, CallsAreLive, Destroyers
  <2>3. \A t \in Keepers : objects[t].first # op /\ objects[t].second # op
    BY <1>2 DEF Alive, Parts
  <2> QED
    BY <1>2, <2>1, <2>2, <2>3, OwnersAre
<1>3. CASE op \in live
  <2>1. \E a : a \in Owners(op)
    BY <1>3, OwnersAre DEF Covered, Parts
  <2>2. ASSUME NEW a \in Owners(op), NEW b \in Owners(op)
        PROVE  a = b
    <3>1. CASE where = op \/ op \in mine \/ op \in forgotten
      <4>1. \A i \in Destroyers : stack[i].op # op
        BY <1>1, <3>1 DEF Apart
      <4>2. \A t \in Keepers : objects[t].first # op /\ objects[t].second # op
        BY <3>1 DEF Apart, Parts
      <4> QED
        BY <3>1, <4>1, <4>2, OwnersAre DEF Apart
    <3>2. CASE \E i \in Destroyers : stack[i].op = op
      <4>1. PICK i \in Destroyers : stack[i].op = op
        BY <3>2
      <4>2. \A j \in Destroyers : stack[j].op = op => j = i
        BY <1>1, <4>1 DEF Apart
      <4>3. \A t \in Keepers : objects[t].first # op /\ objects[t].second # op
        BY <4>1 DEF Apart, Parts
      <4>4. where # op /\ op \notin mine \cup forgotten
        BY <1>1, <4>1 DEF Apart
      <4> QED
        BY <4>1, <4>2, <4>3, <4>4, OwnersAre
    <3>3. CASE \E t \in Keepers : op \in Parts(t)
      <4>1. PICK t \in Keepers : op \in Parts(t)
        BY <3>3
      <4>2. \A u \in Keepers : op \in Parts(u) => u = t
        BY <4>1 DEF Apart
      <4>3. objects[t].first # objects[t].second
        BY <4>1 DEF Apart
      <4>4. \A i \in Destroyers : stack[i].op # op
        BY <4>1 DEF Apart
      <4>5. where # op /\ op \notin mine \cup forgotten
        BY <4>1 DEF Apart
      <4> QED
        BY <4>1, <4>2, <4>3, <4>4, <4>5, OwnersAre DEF Parts
    <3> QED
      BY <3>1, <3>2, <3>3, <1>3 DEF Covered
  <2> QED
    BY <1>3, <2>1, <2>2
<1> QED
  BY <1>2, <1>3

-----------------------------------------------------------------------------
(* Steps that leave the objects alone. *)

LEMMA Same ==
    ASSUME HInv, UNCHANGED <<client, objects, live, mine, where, forgotten, stack, said>>
    PROVE  HInv'
<1>1. Destroyers' = Destroyers /\ freeing' = freeing /\ Keepers' = Keepers
  BY DEF Destroyers, freeing, Keepers
<1>2. Typed' /\ Sorted'
  BY <1>1 DEF HInv, Typed, Sorted
<1>3. Apart'
  BY <1>1 DEF HInv, Apart, Parts
<1>4. Alive' /\ Covered'
  BY <1>1 DEF HInv, Alive, CallsAreLive, Covered, Parts
<1> QED
  BY <1>2, <1>3, <1>4 DEF HInv

LEMMA Quietly ==
    ASSUME HInv, UNCHANGED <<client, objects, live, mine, forgotten>>,
           where' = where \/ (where = NULL /\ where' = STATIC),
           said' \in Nat, stack' \in Seq(CallRec), CallsAreLive',
           Destroyers = {}, Destroyers' = {}
    PROVE  HInv'
<1> USE DEF HInv
<1>1. freeing = {} /\ freeing' = {}
  BY DEF freeing, Destroyers
<1>2. Keepers' = Keepers
  BY <1>1 DEF Keepers
<1>3. STATIC \notin live /\ NULL \notin live
  BY ObjectsAreNumbers DEF Typed
<1>4. Typed'
  BY DEF Typed
<1>5. Apart'
  <2>1. where' \notin (mine \cup forgotten)'
    BY <1>3 DEF Apart, Typed
  <2>2. \A t \in Keepers : Parts(t) \subseteq live
    BY DEF Alive
  <2>3. \A t \in Keepers : (Parts(t) \cap (mine \cup forgotten \cup {where}))' = {}
    BY <1>3, <2>2 DEF Apart, Parts
  <2> QED
    BY <1>2, <2>1, <2>3 DEF Apart, Parts
<1>6. Alive'
  BY <1>2 DEF Alive, Parts
<1>7. Covered'
  BY <1>2, <1>3 DEF Covered, Parts
<1> QED
  BY <1>4, <1>5, <1>6, <1>7 DEF Sorted

-----------------------------------------------------------------------------
(* The stack. *)

LEMMA OneCall ==
    ASSUME NEW STATE a, a \in CallRec
    PROVE  <<a>> \in Seq(CallRec) /\ Len(<<a>>) = 1 /\ <<a>>[1] = a
OBVIOUS

LEMMA TwoCalls ==
    ASSUME NEW STATE a, NEW STATE b, a \in CallRec, b \in CallRec
    PROVE  /\ <<a, b>> \in Seq(CallRec)
           /\ Len(<<a, b>>) = 2
           /\ <<a, b>>[1] = a /\ <<a, b>>[2] = b
OBVIOUS

LEMMA ThreeCalls ==
    ASSUME NEW STATE a, NEW STATE b, NEW STATE c, a \in CallRec, b \in CallRec, c \in CallRec
    PROVE  /\ <<a, b>> \o <<c>> = <<a, b, c>>
           /\ <<a, b, c>> \in Seq(CallRec)
           /\ Len(<<a, b, c>>) = 3
           /\ <<a, b, c>>[1] = a /\ <<a, b, c>>[2] = b /\ <<a, b, c>>[3] = c
<1>1. /\ <<a, b>> \in Seq(CallRec) /\ <<c>> \in Seq(CallRec) /\ <<a, b, c>> \in Seq(CallRec)
      /\ Len(<<a, b>>) = 2 /\ Len(<<c>>) = 1 /\ Len(<<a, b, c>>) = 3
  OBVIOUS
<1>2. /\ <<a, b>> \o <<c>> \in Seq(CallRec)
      /\ Len(<<a, b>> \o <<c>>) = 3
      /\ \A i \in 1 .. 3 :
            (<<a, b>> \o <<c>>)[i] = IF i <= 2 THEN <<a, b>>[i] ELSE <<c>>[i - 2]
  BY <1>1, ConcatProperties
<1>3. \A i \in 1 .. 3 : (<<a, b>> \o <<c>>)[i] = <<a, b, c>>[i]
  <2>1. (<<a, b>> \o <<c>>)[1] = a
    BY <1>2
  <2>2. (<<a, b>> \o <<c>>)[2] = b
    BY <1>2
  <2>3. (<<a, b>> \o <<c>>)[3] = c
    BY <1>2
  <2> QED
    BY <2>1, <2>2, <2>3
<1> QED
  BY <1>1, <1>2, <1>3, SeqEqual

LEMMA NextCallIs ==
    ASSUME Typed, NEW m, Calling(m)
    PROVE  /\ Next_call \in CallRec /\ Next_call = stack[1]
           /\ Next_call.method = m
           /\ 1 \in DOMAIN stack /\ Len(stack) \in Nat /\ Len(stack) > 0
           /\ DOMAIN stack = 1 .. Len(stack)
<1>1. stack # <<>> /\ stack \in Seq(CallRec)
  BY DEF Calling, Typed
<1>2. Len(stack) \in Nat /\ Len(stack) > 0 /\ DOMAIN stack = 1 .. Len(stack)
  BY <1>1, LenProperties, EmptySeq
<1>3. Head(stack) = stack[1] /\ Head(stack) \in CallRec
  BY <1>1, HeadTailProperties
<1> QED
  BY <1>2, <1>3 DEF Next_call, Calling

\* The stack after a call that makes calls.
LEMMA ReturnsTo ==
    ASSUME Typed, NEW m, Calling(m), NEW STATE calls, calls \in Seq(CallRec), Returns_to(calls)
    PROVE  /\ stack' \in Seq(CallRec)
           /\ DOMAIN stack' = 1 .. Len(calls) + Len(stack) - 1
           /\ \A i \in 1 .. Len(calls) : stack'[i] = calls[i]
           /\ \A i \in Len(calls) + 1 .. Len(calls) + Len(stack) - 1 :
                 /\ i - Len(calls) + 1 \in DOMAIN stack
                 /\ i - Len(calls) + 1 # 1
                 /\ stack'[i] = stack[i - Len(calls) + 1]
           /\ \A j \in DOMAIN stack \ {1} :
                 /\ j + Len(calls) - 1 \in DOMAIN stack'
                 /\ j + Len(calls) - 1 > Len(calls)
                 /\ stack'[j + Len(calls) - 1] = stack[j]
<1> DEFINE n == Len(calls)
<1>1. /\ DOMAIN stack = 1 .. Len(stack) /\ Len(stack) \in Nat /\ Len(stack) > 0
      /\ stack # <<>> /\ stack \in Seq(CallRec) /\ n \in Nat
  BY NextCallIs, LenProperties DEF Calling, Typed
<1>2. /\ Tail(stack) \in Seq(CallRec) /\ Len(Tail(stack)) = Len(stack) - 1
      /\ \A i \in 1 .. Len(stack) - 1 : Tail(stack)[i] = stack[i + 1]
  BY <1>1, HeadTailProperties
<1>3. /\ stack' \in Seq(CallRec) /\ Len(stack') = n + Len(stack) - 1
      /\ \A i \in 1 .. n + Len(stack) - 1 :
            stack'[i] = IF i <= n THEN calls[i] ELSE Tail(stack)[i - n]
  BY <1>1, <1>2, ConcatProperties DEF Returns_to
<1>4. DOMAIN stack' = 1 .. n + Len(stack) - 1
  BY <1>3, LenProperties
<1> SUFFICES /\ stack' \in Seq(CallRec)
             /\ DOMAIN stack' = 1 .. n + Len(stack) - 1
             /\ \A i \in 1 .. n : stack'[i] = calls[i]
             /\ \A i \in n + 1 .. n + Len(stack) - 1 :
                   /\ i - n + 1 \in DOMAIN stack
                   /\ i - n + 1 # 1
                   /\ stack'[i] = stack[i - n + 1]
             /\ \A j \in DOMAIN stack \ {1} :
                   /\ j + n - 1 \in DOMAIN stack'
                   /\ j + n - 1 > n
                   /\ stack'[j + n - 1] = stack[j]
  OBVIOUS
<1> HIDE DEF n
<1>5. \A i \in n + 1 .. n + Len(stack) - 1 :
         i - n + 1 \in 2 .. Len(stack) /\ stack'[i] = stack[i - n + 1]
  <2> TAKE i \in n + 1 .. n + Len(stack) - 1
  <2>1. i - n \in 1 .. Len(stack) - 1 /\ i \in 1 .. n + Len(stack) - 1 /\ ~(i <= n)
    BY <1>1
  <2>2. stack'[i] = Tail(stack)[i - n]
    BY <2>1, <1>3
  <2> QED
    BY <1>1, <1>2, <2>1, <2>2
<1>6. \A j \in DOMAIN stack \ {1} :
         /\ j + n - 1 \in n + 1 .. n + Len(stack) - 1
         /\ (j + n - 1) - n + 1 = j
         /\ j + n - 1 > n
         /\ j + n - 1 \in 1 .. n + Len(stack) - 1
  BY <1>1
<1>7. \A i \in 1 .. n : i \in 1 .. n + Len(stack) - 1 /\ i <= n
  BY <1>1
<1>8. \A i \in n + 1 .. n + Len(stack) - 1 : i - n + 1 \in DOMAIN stack /\ i - n + 1 # 1
  BY <1>1
<1>9. \A j \in DOMAIN stack \ {1} : stack'[j + n - 1] = stack[j]
  BY <1>5, <1>6
<1> QED
  BY <1>3, <1>4, <1>5, <1>6, <1>7, <1>8, <1>9
LEMMA CallIs ==
    ASSUME NEW STATE op, op \in Nat
    PROVE  /\ Call("destructor", op) \in CallRec
           /\ Call("free", op) \in CallRec
BY DEF Call, CallRec, Methods

-----------------------------------------------------------------------------
(* The client makes an object, or gives one away: no call is under way. *)

LEMMA NoCalls ==
    ASSUME stack = <<>>
    PROVE  DOMAIN stack = {} /\ Destroyers = {} /\ freeing = {}
BY DEF Destroyers, freeing

\* A new object is the client's; the parts of a tee no longer are.
LEMMA Made ==
    ASSUME HInv, stack = <<>>, UNCHANGED <<client, where, forgotten, stack, said>>,
           NEW STATE object, object \in Object, Make(object),
           NEW STATE taken, taken \subseteq mine,
           object.vtable = "tee" =>
               object.first # object.second /\ taken = {object.first, object.second},
           object.vtable # "tee" => taken = {},
           mine' = (mine \ taken) \cup {Len(objects) + 1}
    PROVE  HInv'
<1> USE DEF HInv
<1>0. PICK op : op = Len(objects) + 1
  OBVIOUS
<1>1. /\ Destroyers = {} /\ Destroyers' = {} /\ freeing = {} /\ freeing' = {}
      /\ DOMAIN stack = {} /\ DOMAIN stack' = {}
  BY NoCalls DEF Destroyers, freeing
<1>2. /\ objects' \in Seq(Object)
      /\ DOMAIN objects' = DOMAIN objects \cup {op}
      /\ op \notin DOMAIN objects /\ op \in Nat /\ op # STATIC
      /\ objects'[op] = object
      /\ \A o \in DOMAIN objects : objects'[o] = objects[o]
  <2>1. objects \in Seq(Object) /\ objects' = Append(objects, object)
    BY DEF Typed, Make
  <2>2. /\ objects' \in Seq(Object) /\ Len(objects') = Len(objects) + 1
        /\ \A i \in 1 .. Len(objects) : objects'[i] = objects[i]
        /\ objects'[Len(objects) + 1] = object
    BY <2>1, AppendProperties
  <2>3. DOMAIN objects = 1 .. Len(objects) /\ Len(objects) \in Nat
    BY ObjectsAreNumbers
  <2>4. DOMAIN objects' = 1 .. Len(objects')
    BY <2>2, LenProperties
  <2> QED
    BY <1>0, <2>2, <2>3, <2>4 DEF STATIC
<1>3. live' = live \cup {op} /\ live \subseteq DOMAIN objects
  BY <1>0 DEF Make, Typed
<1>4. op # NULL /\ op \notin live /\ op # where /\ NULL \notin live
  BY <1>2, <1>3, NullAssumption, ObjectsAreNumbers DEF Typed
<1>5. Typed'
  <2>1. mine' = (mine \ taken) \cup {op}
    BY <1>0
  <2> QED
    BY <1>2, <1>3, <2>1 DEF Typed
<1>6. mine' = (mine \ taken) \cup {op}
  BY <1>0
<1>7. /\ Keepers' = Keepers \cup (IF object.vtable = "tee" THEN {op} ELSE {})
      /\ \A t \in Keepers : t \in live /\ Parts(t)' = Parts(t)
      /\ \A t \in Keepers : objects'[t] = objects[t]
      /\ object.vtable = "tee" => Parts(op)' = taken
  <2>1. \A t \in live : objects'[t] = objects[t]
    BY <1>2, <1>3
  <2> QED
    BY <1>1, <1>2, <1>3, <2>1 DEF Keepers, Parts
<1>8. \A t \in Keepers : op \notin Parts(t) /\ Parts(t) \cap taken = {}
  BY <1>4 DEF Alive, Apart
<1>9. taken \subseteq live /\ taken \cap forgotten = {} /\ where \notin taken /\ op \notin taken
  BY <1>4 DEF Typed, Apart
<1>10. Apart'
  <2>1. mine' \cap forgotten' = {} /\ where' \notin mine' \cup forgotten'
    BY <1>4, <1>6 DEF Apart, Typed
  <2>2. \A t \in Keepers' :
          /\ Parts(t)' \cap (mine \cup forgotten \cup {where})' = {}
          /\ objects'[t].first # objects'[t].second
    <3>1. ASSUME NEW t \in Keepers
          PROVE  /\ Parts(t)' \cap (mine \cup forgotten \cup {where})' = {}
                 /\ objects'[t].first # objects'[t].second
      BY <1>6, <1>7, <1>8 DEF Apart
    <3>2. ASSUME object.vtable = "tee"
          PROVE  /\ Parts(op)' \cap (mine \cup forgotten \cup {where})' = {}
                 /\ objects'[op].first # objects'[op].second
      BY <3>2, <1>2, <1>6, <1>7, <1>9
    <3> QED
      BY <3>1, <3>2, <1>7
  <2>3. \A t, u \in Keepers' : t = u \/ Parts(t)' \cap Parts(u)' = {}
    BY <1>7, <1>8 DEF Apart
  <2> QED
    BY <1>1, <2>1, <2>2, <2>3 DEF Apart, Parts
<1>11. Alive'
  <2>1. \A t \in Keepers' : Parts(t)' \subseteq live'
    BY <1>3, <1>7, <1>9 DEF Alive
  <2>2. CallsAreLive'
    BY <1>1 DEF CallsAreLive
  <2> QED
    BY <2>1, <2>2 DEF Alive, Parts
<1>12. Covered'
  <2> SUFFICES ASSUME NEW o \in live'
               PROVE  \/ o \in (mine \cup forgotten \cup {where})'
                      \/ \E t \in Keepers' : o \in Parts(t)'
    BY DEF Covered, Parts
  <2>1. CASE o = op
    BY <1>6, <2>1
  <2>2. CASE o \in taken
    <3>1. object.vtable = "tee"
      BY <2>2
    <3> QED
      BY <1>7, <2>2, <3>1
  <2>3. CASE o \in live \ taken
    BY <1>1, <1>6, <1>7, <2>3 DEF Covered
  <2> QED
    BY <1>3, <2>1, <2>2, <2>3
<1> QED
  BY <1>1, <1>5, <1>10, <1>11, <1>12 DEF Sorted

\* A tee that could not be made loses its parts.
LEMMA Lost ==
    ASSUME HInv, stack = <<>>, UNCHANGED <<client, objects, live, where, stack, said>>,
           NEW STATE taken, taken \subseteq mine,
           mine' = mine \ taken, forgotten' = forgotten \cup taken
    PROVE  HInv'
<1> USE DEF HInv
<1>1. /\ Destroyers = {} /\ Destroyers' = {} /\ freeing = {} /\ freeing' = {}
  BY NoCalls DEF Destroyers, freeing
<1>2. Keepers' = Keepers
  BY <1>1 DEF Keepers
<1>3. Typed'
  BY DEF Typed
<1>4. Apart'
  BY <1>1, <1>2 DEF Apart, Parts
<1>5. Alive'
  BY <1>2 DEF Alive, CallsAreLive, Parts
<1>6. Covered'
  BY <1>1, <1>2 DEF Covered, Parts
<1> QED
  BY <1>1, <1>3, <1>4, <1>5, <1>6 DEF Sorted

LEMMA PoppedStack ==
    ASSUME Typed, NEW m, Calling(m), Returns_to(<<>>)
    PROVE  /\ stack' \in Seq(CallRec)
           /\ \A i \in DOMAIN stack' :
                 i + 1 \in DOMAIN stack /\ i + 1 # 1 /\ stack'[i] = stack[i + 1]
           /\ \A j \in DOMAIN stack \ {1} : j - 1 \in DOMAIN stack' /\ stack'[j - 1] = stack[j]
<1>1. <<>> \in Seq(CallRec) /\ Len(<<>>) = 0
  OBVIOUS
<1>2. /\ stack' \in Seq(CallRec)
      /\ DOMAIN stack' = 1 .. 0 + Len(stack) - 1
      /\ \A i \in 0 + 1 .. 0 + Len(stack) - 1 :
            /\ i - 0 + 1 \in DOMAIN stack
            /\ i - 0 + 1 # 1
            /\ stack'[i] = stack[i - 0 + 1]
      /\ \A j \in DOMAIN stack \ {1} :
            /\ j + 0 - 1 \in DOMAIN stack'
            /\ stack'[j + 0 - 1] = stack[j]
  BY <1>1, ReturnsTo
<1>3. DOMAIN stack = 1 .. Len(stack) /\ Len(stack) \in Nat
  BY NextCallIs
<1>4. \A i \in 1 .. Len(stack) - 1 : i - 0 + 1 = i + 1
  BY <1>3
<1>5. \A j \in DOMAIN stack : j + 0 - 1 = j - 1
  BY <1>3
<1> QED
  BY <1>2, <1>4, <1>5

LEMMA RegisterStep == HInv /\ Register => HInv'
<1> SUFFICES ASSUME HInv, Register PROVE HInv'
  OBVIOUS
<1> USE DEF HInv
<1>1. stack = <<>> /\ UNCHANGED <<client, objects, live, forgotten, said>>
  BY DEF Register, Runs, history, sinks
<1>2. PICK op \in mine \cup {NULL} \cup ({where} \ {STATIC}) : register(op) /\ mine' = mine \ {op}
  BY DEF Register
<1>3. CASE op = where
  <2>1. UNCHANGED <<stack, where>> /\ mine' = mine
    BY <1>2, <1>3 DEF register, Apart
  <2> QED
    BY <1>1, <2>1, Same
<1>4. CASE op # where
  <2>1. /\ Destroyers = {} /\ freeing = {}
    BY <1>1, NoCalls
  <2>2. STATIC \notin live /\ NULL \notin live \cup {STATIC}
    BY ObjectsAreNumbers DEF Typed
  <2>3. op \in mine \cup {NULL} /\ op # STATIC /\ where' = op
    BY <1>2, <1>4, <2>2 DEF register, Typed
  <2>4. /\ stack' \in Seq(CallRec)
        /\ where = NULL => DOMAIN stack' = {}
        /\ where # NULL => /\ DOMAIN stack' = {1}
                           /\ stack'[1].method = "destructor" /\ stack'[1].op = where
    <3>1. CASE where = NULL
      BY <1>2, <1>4, <3>1 DEF register
    <3>2. CASE where # NULL
      <4>1. where \in Nat
        BY <3>2, ObjectsAreNumbers DEF Typed, STATIC
      <4>2. stack' = <<Call("destructor", where)>>
        BY <1>2, <1>4, <3>2 DEF register
      <4>3. Call("destructor", where) \in CallRec
        BY <4>1, CallIs
      <4>4. DOMAIN stack' = {1} /\ stack'[1] = Call("destructor", where)
        BY <4>2
      <4>5. stack' \in Seq(CallRec)
        BY <4>2, <4>3, OneCall
      <4> QED
        BY <3>2, <4>4, <4>5 DEF Call
    <3> QED
      BY <3>1, <3>2
  <2>5. /\ Destroyers' = DOMAIN stack' /\ freeing' = {}
        /\ \A i \in Destroyers' : i = 1 /\ where # NULL /\ stack'[i].op = where
        /\ where # NULL => 1 \in Destroyers'
    BY <2>4 DEF Destroyers, freeing
  <2>6. Keepers' = Keepers
    BY <1>1, <2>1, <2>5 DEF Keepers
  <2>7. mine' = mine \ {op}
    BY <1>2
  <2>8. Typed'
    BY <1>1, <2>3, <2>4, <2>7 DEF Typed
  <2>9. \A t \in Keepers : Parts(t) \subseteq live
    BY DEF Alive
  <2>10. Apart'
    <3>1. mine' \cap forgotten' = {} /\ where' \notin mine' \cup forgotten'
      BY <1>1, <2>2, <2>3, <2>7 DEF Apart, Typed
    <3>2. \A i \in Destroyers' :
            /\ stack'[i].op \notin mine' \cup forgotten'
            /\ stack'[i].op # where'
            /\ \A j \in Destroyers' : i = j
      BY <1>1, <1>4, <2>3, <2>5, <2>7 DEF Apart
    <3>3. \A t \in Keepers :
            /\ Parts(t) \cap (mine' \cup forgotten' \cup {where'}) = {}
            /\ objects[t].first # objects[t].second
            /\ \A i \in Destroyers' : stack'[i].op \notin Parts(t)
            /\ \A u \in Keepers : t = u \/ Parts(t) \cap Parts(u) = {}
      BY <1>1, <2>2, <2>3, <2>5, <2>7, <2>9 DEF Apart
    <3> QED
      BY <1>1, <2>6, <3>1, <3>2, <3>3 DEF Apart, Parts
  <2>11. Alive'
    <3>1. \A i \in DOMAIN stack' : stack'[i].op \in live \cup {STATIC}
      BY <2>5 DEF Typed
    <3> QED
      BY <1>1, <2>6, <2>9, <3>1 DEF Alive, CallsAreLive, Parts
  <2>12. Covered'
    <3>1. \A o \in live :
            \/ o \in mine' \cup forgotten' \cup {where'}
            \/ \E i \in Destroyers' : stack'[i].op = o
            \/ \E t \in Keepers' : o \in Parts(t)
      BY <1>1, <2>1, <2>2, <2>3, <2>5, <2>6, <2>7 DEF Covered
    <3> QED
      BY <1>1, <3>1 DEF Covered, Parts
  <2> QED
    BY <2>5, <2>8, <2>10, <2>11, <2>12 DEF Sorted
<1> QED
  BY <1>3, <1>4

-----------------------------------------------------------------------------
(* A tree is destroyed. *)

\* Once a destructor runs, there are only destructors to run.
LEMMA OnlyDestroyers ==
    ASSUME HInv, NEW m \in {"destructor", "free"}, Calling(m)
    PROVE  /\ Destroyers = DOMAIN stack /\ 1 \in Destroyers
           /\ Next_call.op \in live \cup {STATIC}
           /\ stack[1] = Next_call /\ Next_call.method = m
<1>1. Next_call = stack[1] /\ Next_call.method = m /\ 1 \in DOMAIN stack
  BY NextCallIs DEF HInv
<1>2. 1 \in Destroyers
  BY <1>1 DEF Destroyers
<1> QED
  BY <1>1, <1>2 DEF HInv, Sorted, Alive, CallsAreLive

LEMMA FreeStep == HInv /\ Free => HInv'
<1> SUFFICES ASSUME HInv, Free PROVE HInv'
  OBVIOUS
<1> USE DEF HInv
<1>1. PICK op : op = Next_call.op
  OBVIOUS
<1>2. /\ Calling("free") /\ live' = live \ {op} /\ Returns_to(<<>>)
      /\ UNCHANGED <<client, objects, mine, where, forgotten, said>>
  BY <1>1 DEF Free, history, sinks
<1>3. /\ Destroyers = DOMAIN stack /\ 1 \in Destroyers /\ op \in live \cup {STATIC}
      /\ stack[1].op = op
  BY <1>1, <1>2, OnlyDestroyers
<1>4. STATIC \notin live
  BY ObjectsAreNumbers DEF Typed
<1>5. /\ stack' \in Seq(CallRec)
      /\ \A i \in DOMAIN stack' :
            i + 1 \in DOMAIN stack /\ i + 1 # 1 /\ stack'[i] = stack[i + 1]
      /\ \A j \in DOMAIN stack \ {1} : j - 1 \in DOMAIN stack' /\ stack'[j - 1] = stack[j]
  BY <1>2, PoppedStack
<1>6. /\ Destroyers' = DOMAIN stack'
      /\ \A o : o # op => (o \in freeing <=> o \in freeing')
      /\ \A o : o # op => ((\E i \in Destroyers : stack[i].op = o)
                             <=> \E i \in Destroyers' : stack'[i].op = o)
  <2>1. \A i \in DOMAIN stack' : i \in Destroyers'
    BY <1>3, <1>5 DEF Destroyers
  <2>2. \A i \in DOMAIN stack : stack[i].op # op => i \in DOMAIN stack \ {1}
    BY <1>3
  <2>3. \A o : o # op => (o \in freeing <=> o \in freeing')
    <3> SUFFICES ASSUME NEW o, o # op PROVE o \in freeing <=> o \in freeing'
      OBVIOUS
    <3>1. ASSUME o \in freeing PROVE o \in freeing'
      BY <1>5, <2>2, <3>1 DEF freeing
    <3>2. ASSUME o \in freeing' PROVE o \in freeing
      BY <1>5, <3>2 DEF freeing
    <3> QED
      BY <3>1, <3>2
  <2>4. Destroyers' \subseteq DOMAIN stack'
    BY DEF Destroyers
  <2>5. ASSUME NEW o, o # op, NEW i \in DOMAIN stack, stack[i].op = o
        PROVE  \E j \in DOMAIN stack' : stack'[j].op = o
    BY <1>5, <2>2, <2>5
  <2>6. ASSUME NEW o, NEW i \in DOMAIN stack', stack'[i].op = o
        PROVE  \E j \in DOMAIN stack : stack[j].op = o
    BY <1>5, <2>6
  <2> QED
    BY <1>3, <2>1, <2>3, <2>4, <2>5, <2>6
<1>7. Keepers' \subseteq Keepers
  BY <1>2, <1>6 DEF Keepers
<1>8. op \notin mine \cup forgotten /\ (op = where => where = STATIC)
  BY <1>3 DEF Apart
<1>9. \A t \in Keepers : op \notin Parts(t)
  BY <1>3 DEF Apart
<1>10. \A t \in Keepers : t \in Keepers' \/ t = op
  BY <1>2, <1>6 DEF Keepers
<1>11. Typed'
  BY <1>2, <1>4, <1>5, <1>8 DEF Typed
<1>12. Apart'
  <2>1. \A i \in Destroyers' :
          /\ stack'[i].op \notin mine \cup forgotten
          /\ stack'[i].op = where => where = STATIC
          /\ \A j \in Destroyers' :
                stack'[i].op = stack'[j].op => i = j \/ stack'[i].op = STATIC
    <3>1. \A i, j \in DOMAIN stack' : i + 1 = j + 1 => i = j
      <4> DOMAIN stack' \subseteq Nat
        BY <1>5, LenProperties
      <4> QED
        OBVIOUS
    <3> QED
      BY <1>3, <1>5, <1>6, <3>1 DEF Apart
  <2>2. \A t \in Keepers' : \A i \in Destroyers' : stack'[i].op \notin Parts(t)
    BY <1>3, <1>5, <1>6, <1>7 DEF Apart
  <2> QED
    BY <1>2, <1>7, <2>1, <2>2 DEF Apart, Parts
<1>13. Alive'
  <2>1. \A i \in DOMAIN stack' : stack'[i].op \in live' \cup {STATIC}
    <3> SUFFICES ASSUME NEW i \in DOMAIN stack', stack'[i].op # STATIC
                 PROVE  stack'[i].op \in live'
      OBVIOUS
    <3>1. i + 1 \in Destroyers /\ i + 1 # 1 /\ stack'[i] = stack[i + 1]
      BY <1>3, <1>5
    <3>2. stack[i + 1].op # op
      BY <1>3, <3>1 DEF Apart
    <3>3. stack[i + 1].op \in live \cup {STATIC}
      BY <1>3, <3>1 DEF Alive, CallsAreLive
    <3> QED
      BY <1>2, <3>1, <3>2, <3>3
  <2>2. \A t \in Keepers' : Parts(t) \subseteq live'
    BY <1>2, <1>7, <1>9 DEF Alive
  <2> QED
    BY <1>2, <2>1, <2>2 DEF Alive, CallsAreLive, Parts
<1>14. Covered'
  <2>1. \A o \in live' :
          \/ o \in mine \cup forgotten \cup {where}
          \/ \E i \in Destroyers' : stack'[i].op = o
          \/ \E t \in Keepers' : o \in Parts(t)
    <3> TAKE o \in live'
    <3>1. o \in live /\ o # op
      BY <1>2
    <3>2. CASE \E t \in Keepers : o \in Parts(t)
      <4>1. op \notin Keepers
        <5>1. op \in freeing
          BY <1>1, <1>2, <1>3, OnlyDestroyers, FreeingIs
        <5> QED
          BY <5>1 DEF Keepers
      <4> QED
        BY <1>10, <3>2, <4>1
    <3> QED
      BY <1>6, <3>1, <3>2 DEF Covered
  <2> QED
    BY <1>2, <2>1 DEF Covered, Parts
<1> QED
  BY <1>6, <1>11, <1>12, <1>13, <1>14 DEF Sorted

\* What Destructor does to the objects and the stack.
LEMMA DestructorDoes ==
    ASSUME HInv, Destructor, NEW op, op = Next_call.op
    PROVE  /\ UNCHANGED <<client, objects, live, mine, where, forgotten, said>>
           /\ Calling("destructor")
           /\ Destroyers = DOMAIN stack /\ 1 \in Destroyers
           /\ stack[1].op = op /\ stack[1].method = "destructor"
           /\ op \in live \cup {STATIC} /\ op \in Nat
           /\ op = STATIC => Returns_to(<<>>)
           /\ op # STATIC /\ objects[op].vtable # "tee" => Returns_to(<<Call("free", op)>>)
           /\ op # STATIC /\ objects[op].vtable = "tee" =>
                  Returns_to(<<Call("destructor", objects[op].first),
                               Call("destructor", objects[op].second), Call("free", op)>>)
<1> USE DEF HInv
<1>1. /\ UNCHANGED <<client, objects, live, mine, where, forgotten, said>>
      /\ Calling("destructor")
  BY DEF Destructor, heap, history
<1>2. /\ Destroyers = DOMAIN stack /\ 1 \in Destroyers
      /\ stack[1].op = op /\ stack[1].method = "destructor"
      /\ op \in live \cup {STATIC}
  BY <1>1, OnlyDestroyers
<1>3. op \in Nat
  BY <1>2, ObjectsAreNumbers DEF Typed, STATIC
<1>4. op # STATIC => vtable(op) = objects[op].vtable
  BY DEF vtable
<1>5. op = STATIC => Returns_to(<<>>)
  BY DEF Destructor
<1>6. op # STATIC /\ objects[op].vtable # "tee" => Returns_to(<<Call("free", op)>>)
  <2>1. <<>> \o <<Call("free", op)>> = <<Call("free", op)>>
    OBVIOUS
  <2> QED
    BY <1>4, <2>1 DEF Destructor
<1>7. op # STATIC => objects[op].first \in Nat /\ objects[op].second \in Nat
  BY <1>2, ObjectsAreNumbers DEF Typed, Object
<1>8. op # STATIC /\ objects[op].vtable = "tee" =>
          Returns_to(<<Call("destructor", objects[op].first),
                       Call("destructor", objects[op].second), Call("free", op)>>)
  <2> SUFFICES ASSUME op # STATIC, objects[op].vtable = "tee"
               PROVE  Returns_to(<<Call("destructor", objects[op].first),
                                   Call("destructor", objects[op].second), Call("free", op)>>)
    OBVIOUS
  <2>1. tee_destructor(op) \o <<Call("free", op)>>
            = <<Call("destructor", objects[op].first),
                Call("destructor", objects[op].second), Call("free", op)>>
    BY <1>3, <1>7, CallIs, ThreeCalls DEF tee_destructor
  <2> QED
    BY <1>4, <2>1 DEF Destructor
<1> QED
  BY <1>1, <1>2, <1>3, <1>5, <1>6, <1>8

\* The static object has no owner to be changed and nothing to be freed.
LEMMA DestructorOfStatic ==
    ASSUME HInv, Destructor, Next_call.op = STATIC
    PROVE  HInv'
<1> USE DEF HInv
<1>1. /\ UNCHANGED <<client, objects, live, mine, where, forgotten, said>>
      /\ Calling("destructor")
      /\ Destroyers = DOMAIN stack /\ 1 \in Destroyers
      /\ stack[1].op = STATIC /\ stack[1].method = "destructor"
      /\ Returns_to(<<>>)
  <2>1. PICK op : op = Next_call.op
    OBVIOUS
  <2> QED
    BY <2>1, DestructorDoes
<1>2. STATIC \notin live
  BY ObjectsAreNumbers DEF Typed
<1>3. /\ stack' \in Seq(CallRec)
      /\ \A i \in DOMAIN stack' :
            i + 1 \in DOMAIN stack /\ i + 1 # 1 /\ stack'[i] = stack[i + 1]
      /\ \A j \in DOMAIN stack \ {1} : j - 1 \in DOMAIN stack' /\ stack'[j - 1] = stack[j]
  BY <1>1, PoppedStack
<1>4. Destroyers' = DOMAIN stack'
  BY <1>1, <1>3 DEF Destroyers
<1>5. freeing' = freeing
  <2>1. \A i \in DOMAIN stack : stack[i].method = "free" => i \in DOMAIN stack \ {1}
    BY <1>1
  <2>2. ASSUME NEW o \in freeing PROVE o \in freeing'
    BY <1>3, <2>1 DEF freeing
  <2>3. ASSUME NEW o \in freeing' PROVE o \in freeing
    BY <1>3 DEF freeing
  <2> QED
    BY <2>2, <2>3
<1>6. Keepers' = Keepers
  BY <1>1, <1>5 DEF Keepers
<1>7. Typed'
  BY <1>1, <1>3 DEF Typed
<1>8. Apart'
  <2>1. \A i, j \in DOMAIN stack' : i + 1 = j + 1 => i = j
    <3> DOMAIN stack' \subseteq Nat
      BY <1>3, LenProperties
    <3> QED
      OBVIOUS
  <2>2. \A i \in Destroyers' :
          /\ stack'[i].op \notin mine \cup forgotten
          /\ stack'[i].op = where => where = STATIC
          /\ \A j \in Destroyers' :
                stack'[i].op = stack'[j].op => i = j \/ stack'[i].op = STATIC
    BY <1>1, <1>3, <1>4, <2>1 DEF Apart
  <2>3. \A t \in Keepers : \A i \in Destroyers' : stack'[i].op \notin Parts(t)
    BY <1>1, <1>3, <1>4 DEF Apart
  <2> QED
    BY <1>1, <1>6, <2>2, <2>3 DEF Apart, Parts
<1>9. Alive'
  <2>1. \A i \in DOMAIN stack' : stack'[i].op \in live \cup {STATIC}
    BY <1>3 DEF Alive, CallsAreLive
  <2> QED
    BY <1>1, <1>6, <2>1 DEF Alive, CallsAreLive, Parts
<1>10. Covered'
  <2>1. ASSUME NEW o \in live, NEW i \in Destroyers, stack[i].op = o
        PROVE  \E j \in Destroyers' : stack'[j].op = o
    <3>1. i \in DOMAIN stack \ {1}
      BY <1>1, <1>2, <2>1
    <3> QED
      BY <1>3, <1>4, <2>1, <3>1
  <2>2. \A o \in live :
          \/ o \in mine \cup forgotten \cup {where}
          \/ \E i \in Destroyers' : stack'[i].op = o
          \/ \E t \in Keepers : o \in Parts(t)
    BY <2>1 DEF Covered
  <2> QED
    BY <1>1, <1>6, <2>2 DEF Covered, Parts
<1> QED
  BY <1>4, <1>7, <1>8, <1>9, <1>10 DEF Sorted

LEMMA DestructorOfLeaf ==
    ASSUME HInv, Destructor, Next_call.op # STATIC, objects[Next_call.op].vtable # "tee"
    PROVE  HInv'
<1> USE DEF HInv
<1>1. PICK op : op = Next_call.op
  OBVIOUS
<1>2. /\ UNCHANGED <<client, objects, live, mine, where, forgotten, said>>
      /\ Calling("destructor")
      /\ Destroyers = DOMAIN stack /\ 1 \in Destroyers
      /\ stack[1].op = op /\ stack[1].method = "destructor"
      /\ op \in live \cup {STATIC} /\ op \in Nat
      /\ Returns_to(<<Call("free", op)>>)
  BY <1>1, DestructorDoes
<1>3. PICK call : call = Call("free", op)
  OBVIOUS
<1>4. /\ call \in CallRec /\ call.op = op /\ call.method = "free"
  BY <1>2, <1>3 DEF Call, CallRec, Methods
<1>5. /\ stack' \in Seq(CallRec) /\ DOMAIN stack' = DOMAIN stack
      /\ stack'[1] = call
      /\ \A i \in DOMAIN stack \ {1} : stack'[i] = stack[i]
  <2>1. <<call>> \in Seq(CallRec) /\ Len(<<call>>) = 1 /\ <<call>>[1] = call
    BY <1>4
  <2>2. Returns_to(<<call>>)
    BY <1>2, <1>3
  <2>3. PICK calls : calls = <<call>>
    OBVIOUS
  <2>4. DOMAIN stack = 1 .. Len(stack) /\ Len(stack) \in Nat
    BY <1>2, NextCallIs
  <2>5. /\ stack' \in Seq(CallRec)
        /\ DOMAIN stack' = 1 .. 1 + Len(stack) - 1
        /\ \A i \in 1 .. 1 : stack'[i] = calls[i]
        /\ \A j \in DOMAIN stack \ {1} : stack'[j + 1 - 1] = stack[j]
    BY <1>2, <2>1, <2>2, <2>3, ReturnsTo
  <2>6. 1 .. 1 + Len(stack) - 1 = 1 .. Len(stack) /\ 1 \in 1 .. 1
    BY <2>4
  <2>7. \A j \in DOMAIN stack : j + 1 - 1 = j
    BY <2>4
  <2> QED
    BY <2>1, <2>3, <2>4, <2>5, <2>6, <2>7
<1>6. Destroyers' = DOMAIN stack'
  BY <1>2, <1>4, <1>5 DEF Destroyers
<1>7. \A i \in DOMAIN stack : stack'[i].op = stack[i].op
  BY <1>2, <1>4, <1>5
<1>8. \A o : o # op => (o \in freeing' <=> o \in freeing)
  <2> SUFFICES ASSUME NEW o, o # op PROVE o \in freeing' <=> o \in freeing
    OBVIOUS
  <2>1. ASSUME o \in freeing PROVE o \in freeing'
    BY <1>2, <1>5, <2>1 DEF freeing
  <2>2. ASSUME o \in freeing' PROVE o \in freeing
    BY <1>4, <1>5, <2>2 DEF freeing
  <2> QED
    BY <2>1, <2>2
<1>9. Keepers' = Keepers
  BY <1>1, <1>2, <1>8 DEF Keepers
<1>10. Typed'
  BY <1>2, <1>5 DEF Typed
<1>11. Apart'
  BY <1>2, <1>5, <1>6, <1>7, <1>9 DEF Apart, Parts
<1>12. Alive'
  BY <1>2, <1>5, <1>7, <1>9 DEF Alive, CallsAreLive, Parts
<1>13. Covered'
  BY <1>2, <1>5, <1>6, <1>7, <1>9 DEF Covered, Parts
<1> QED
  BY <1>6, <1>10, <1>11, <1>12, <1>13 DEF Sorted

LEMMA DestructorOfTee ==
    ASSUME HInv, Destructor, Next_call.op # STATIC, objects[Next_call.op].vtable = "tee"
    PROVE  HInv'
<1> USE DEF HInv
<1>1. PICK op : op = Next_call.op
  OBVIOUS
<1>2. /\ UNCHANGED <<client, objects, live, mine, where, forgotten, said>>
      /\ Calling("destructor")
      /\ Destroyers = DOMAIN stack /\ 1 \in Destroyers
      /\ stack[1].op = op /\ stack[1].method = "destructor"
      /\ op \in live \cup {STATIC} /\ op \in Nat /\ op # STATIC
      /\ Returns_to(<<Call("destructor", objects[op].first),
                      Call("destructor", objects[op].second), Call("free", op)>>)
  BY <1>1, DestructorDoes
<1>3. STATIC \notin live /\ NULL \notin live
  BY ObjectsAreNumbers DEF Typed
<1>4. op \in Keepers
  BY <1>1, <1>2, FreeingIs DEF Apart, Keepers
<1>5. PICK first, second : first = objects[op].first /\ second = objects[op].second
  OBVIOUS
<1>6. /\ first \in live /\ second \in live /\ first # second
      /\ Parts(op) = {first, second}
      /\ first \in Nat /\ second \in Nat
      /\ first # op /\ second # op
      /\ \A i \in Destroyers : stack[i].op # first /\ stack[i].op # second
      /\ first \notin mine \cup forgotten \cup {where}
      /\ second \notin mine \cup forgotten \cup {where}
  <2>1. Parts(op) = {first, second}
    BY <1>5 DEF Parts
  <2>2. first \in Nat /\ second \in Nat
    BY <1>2, <1>5, ObjectsAreNumbers DEF Typed, Object
  <2> QED
    BY <1>2, <1>4, <1>5, <2>1, <2>2 DEF Apart, Alive
<1>7. PICK a, b, c : /\ a = Call("destructor", first) /\ b = Call("destructor", second)
                     /\ c = Call("free", op)
  OBVIOUS
<1>8. /\ a \in CallRec /\ b \in CallRec /\ c \in CallRec
      /\ a.op = first /\ b.op = second /\ c.op = op
      /\ a.method = "destructor" /\ b.method = "destructor" /\ c.method = "free"
  BY <1>2, <1>6, <1>7 DEF Call, CallRec, Methods
<1>9. /\ stack' \in Seq(CallRec)
      /\ 1 \in DOMAIN stack' /\ 2 \in DOMAIN stack' /\ 3 \in DOMAIN stack'
      /\ stack'[1] = a /\ stack'[2] = b /\ stack'[3] = c
      /\ \A i \in DOMAIN stack' \ {1, 2, 3} :
            i - 2 \in DOMAIN stack \ {1} /\ stack'[i] = stack[i - 2]
      /\ \A j \in DOMAIN stack \ {1} :
            j + 2 \in DOMAIN stack' \ {1, 2, 3} /\ stack'[j + 2] = stack[j]
      /\ \A i, j \in DOMAIN stack' : i - 2 = j - 2 => i = j
  <2>1. PICK calls : calls = <<a, b, c>>
    OBVIOUS
  <2>2. /\ calls \in Seq(CallRec) /\ Len(calls) = 3
        /\ calls[1] = a /\ calls[2] = b /\ calls[3] = c
    BY <1>8, <2>1
  <2>3. Returns_to(calls)
    BY <1>2, <1>5, <1>7, <2>1
  <2>4. DOMAIN stack = 1 .. Len(stack) /\ Len(stack) \in Nat /\ Len(stack) > 0
    BY <1>2, NextCallIs
  <2>5. /\ stack' \in Seq(CallRec)
        /\ DOMAIN stack' = 1 .. 3 + Len(stack) - 1
        /\ \A i \in 1 .. 3 : stack'[i] = calls[i]
        /\ \A i \in 3 + 1 .. 3 + Len(stack) - 1 :
              i - 3 + 1 \in DOMAIN stack /\ i - 3 + 1 # 1 /\ stack'[i] = stack[i - 3 + 1]
        /\ \A j \in DOMAIN stack \ {1} :
              j + 3 - 1 \in DOMAIN stack' /\ j + 3 - 1 > 3 /\ stack'[j + 3 - 1] = stack[j]
    <3>1. PICK n : n = Len(calls)
      OBVIOUS
    <3>2. /\ stack' \in Seq(CallRec)
          /\ DOMAIN stack' = 1 .. n + Len(stack) - 1
          /\ \A i \in 1 .. n : stack'[i] = calls[i]
          /\ \A i \in n + 1 .. n + Len(stack) - 1 :
                i - n + 1 \in DOMAIN stack /\ i - n + 1 # 1 /\ stack'[i] = stack[i - n + 1]
          /\ \A j \in DOMAIN stack \ {1} :
                j + n - 1 \in DOMAIN stack' /\ j + n - 1 > n /\ stack'[j + n - 1] = stack[j]
      BY <1>2, <2>2, <2>3, <3>1, ReturnsTo
    <3> QED
      BY <2>2, <3>1, <3>2
  <2>6. /\ 1 .. 3 \subseteq 1 .. 3 + Len(stack) - 1
        /\ \A i \in (1 .. 3 + Len(stack) - 1) \ {1, 2, 3} :
              i \in 3 + 1 .. 3 + Len(stack) - 1 /\ i - 3 + 1 = i - 2
        /\ \A j \in DOMAIN stack : j + 3 - 1 = j + 2
        /\ \A i, j \in 1 .. 3 + Len(stack) - 1 : i - 2 = j - 2 => i = j
    BY <2>4
  <2>7. \A i \in DOMAIN stack' \ {1, 2, 3} :
            i - 2 \in DOMAIN stack \ {1} /\ stack'[i] = stack[i - 2]
    BY <2>5, <2>6
  <2>8. \A j \in DOMAIN stack \ {1} :
            j + 2 \in DOMAIN stack' \ {1, 2, 3} /\ stack'[j + 2] = stack[j]
    <3> TAKE j \in DOMAIN stack \ {1}
    <3>1. j + 2 \in DOMAIN stack' /\ j + 2 > 3 /\ stack'[j + 2] = stack[j]
      BY <2>5, <2>6
    <3> QED
      BY <2>4, <3>1
  <2> QED
    BY <2>2, <2>5, <2>6, <2>7, <2>8
<1>10. Destroyers' = DOMAIN stack'
  BY <1>2, <1>8, <1>9 DEF Destroyers
<1>11. \A o : o \in freeing' <=> o \in freeing \/ o = op
  <2>1. ASSUME NEW o \in freeing PROVE o \in freeing'
    <3>1. PICK j \in DOMAIN stack : stack[j].method = "free" /\ stack[j].op = o
      BY DEF freeing
    <3>2. j \in DOMAIN stack \ {1}
      BY <1>2, <3>1
    <3> QED
      BY <1>9, <3>1, <3>2 DEF freeing
  <2>2. ASSUME NEW o \in freeing', o # op PROVE o \in freeing
    <3>1. PICK i \in DOMAIN stack' : stack'[i].method = "free" /\ stack'[i].op = o
      BY DEF freeing
    <3>2. i \in DOMAIN stack' \ {1, 2, 3}
      BY <1>8, <1>9, <2>2, <3>1
    <3> QED
      BY <1>9, <3>1, <3>2, SMTT(60) DEF freeing
  <2>3. op \in freeing'
    BY <1>8, <1>9 DEF freeing
  <2> QED
    BY <2>1, <2>2, <2>3
<1>12. Keepers' = Keepers \ {op}
  BY <1>2, <1>11 DEF Keepers
<1>13. \A i \in DOMAIN stack' :
          \/ i = 1 /\ stack'[i].op = first
          \/ i = 2 /\ stack'[i].op = second
          \/ i = 3 /\ stack'[i].op = op
          \/ /\ i \notin {1, 2, 3}
             /\ i - 2 \in Destroyers /\ i - 2 # 1 /\ stack'[i].op = stack[i - 2].op
  BY <1>2, <1>8, <1>9
<1>14. Typed'
  BY <1>2, <1>9 DEF Typed
<1>15. Apart'
  <2>1. op \notin mine \cup forgotten \cup {where}
    BY <1>2 DEF Apart
  <2>2. \A j \in Destroyers : j # 1 => stack[j].op # op
    BY <1>2 DEF Apart
  <2>3. \A i \in Destroyers' :
          /\ stack'[i].op \notin mine \cup forgotten
          /\ stack'[i].op = where => where = STATIC
    BY <1>6, <1>10, <1>13, <2>1 DEF Apart
  <2>4. \A i, j \in Destroyers' :
          stack'[i].op = stack'[j].op => i = j \/ stack'[i].op = STATIC
    <3> SUFFICES ASSUME NEW i \in DOMAIN stack', NEW j \in DOMAIN stack',
                        stack'[i].op = stack'[j].op, stack'[i].op # STATIC
                 PROVE  i = j
      BY <1>10
    <3>1. CASE i \in {1, 2, 3} \/ j \in {1, 2, 3}
      <4>1. \A k \in DOMAIN stack' :
              k \notin {1, 2, 3} => stack'[k].op \notin {first, second, op}
        <5> SUFFICES ASSUME NEW k \in DOMAIN stack', k \notin {1, 2, 3}
                     PROVE  stack'[k].op \notin {first, second, op}
          OBVIOUS
        <5>1. k # 1 /\ k # 2 /\ k # 3
          OBVIOUS
        <5>2. PICK m \in Destroyers : m # 1 /\ stack'[k].op = stack[m].op
          BY <1>13, <5>1
        <5> QED
          BY <1>6, <2>2, <5>2
      <4>2. stack'[1].op = first /\ stack'[2].op = second /\ stack'[3].op = op
        BY <1>8, <1>9
      <4>3. first # second /\ first # op /\ second # op
        BY <1>6
      <4> QED
        BY <3>1, <4>1, <4>2, <4>3
    <3>2. CASE i \notin {1, 2, 3} /\ j \notin {1, 2, 3}
      <4>1. /\ i - 2 \in Destroyers /\ j - 2 \in Destroyers
            /\ stack[i - 2].op = stack[j - 2].op /\ stack[i - 2].op # STATIC
        BY <1>13, <3>2
      <4>2. i - 2 = j - 2
        BY <4>1 DEF Apart
      <4> QED
        BY <1>9, <4>2
    <3> QED
      BY <3>1, <3>2
  <2>5. \A t \in Keepers' : \A i \in Destroyers' : stack'[i].op \notin Parts(t)
    <3> SUFFICES ASSUME NEW t \in Keepers, t # op, NEW i \in DOMAIN stack'
                 PROVE  stack'[i].op \notin Parts(t)
      BY <1>10, <1>12
    <3>1. first \notin Parts(t) /\ second \notin Parts(t)
      BY <1>4, <1>6 DEF Apart
    <3>2. op \notin Parts(t)
      BY <1>2 DEF Apart
    <3> QED
      BY <1>13, <3>1, <3>2 DEF Apart
  <2> QED
    BY <1>2, <1>12, <2>3, <2>4, <2>5 DEF Apart, Parts
<1>16. Alive'
  <2>1. \A i \in DOMAIN stack' : stack'[i].op \in live \cup {STATIC}
    BY <1>2, <1>6, <1>13 DEF Alive, CallsAreLive
  <2> QED
    BY <1>2, <1>12, <2>1 DEF Alive, CallsAreLive, Parts
<1>17. Covered'
  <2>1. ASSUME NEW o \in live, NEW i \in Destroyers, stack[i].op = o
        PROVE  \E j \in Destroyers' : stack'[j].op = o
    BY <1>2, <1>8, <1>9, <1>10, <2>1
  <2>2. ASSUME NEW o \in live, NEW t \in Keepers, o \in Parts(t)
        PROVE  (\E j \in Destroyers' : stack'[j].op = o) \/ \E u \in Keepers' : o \in Parts(u)
    BY <1>6, <1>8, <1>9, <1>10, <1>12, <2>2
  <2>3. \A o \in live :
          \/ o \in mine \cup forgotten \cup {where}
          \/ \E i \in Destroyers' : stack'[i].op = o
          \/ \E t \in Keepers' : o \in Parts(t)
    BY <2>1, <2>2 DEF Covered
  <2> QED
    BY <1>2, <2>3 DEF Covered, Parts
<1> QED
  BY <1>10, <1>14, <1>15, <1>16, <1>17 DEF Sorted

LEMMA DestructorStep == HInv /\ Destructor => HInv'
BY DestructorOfStatic, DestructorOfLeaf, DestructorOfTee

-----------------------------------------------------------------------------
(* Calls that print, or end the process. *)

Gentle(call) == call.method \notin {"destructor", "free"} /\ call.op \in live \cup {STATIC}

LEMMA Started ==
    ASSUME HInv, stack = <<>>, UNCHANGED <<client, objects, live, mine, forgotten>>,
           where' = registered_output, said' \in Nat,
           stack' \in Seq(CallRec), \A i \in DOMAIN stack' : Gentle(stack'[i])
    PROVE  HInv'
<1>1. where' = where \/ (where = NULL /\ where' = STATIC)
  BY DEF registered_output
<1>2. Destroyers = {}
  BY NoCalls
<1>3. Destroyers' = {} /\ CallsAreLive'
  BY DEF Destroyers, CallsAreLive, Gentle
<1> QED
  BY <1>1, <1>2, <1>3, Quietly

LEMMA Called ==
    ASSUME HInv, NEW m, Calling(m), m \notin {"destructor", "free"},
           UNCHANGED <<client, objects, live, mine, where, forgotten, said>>,
           NEW STATE calls, calls \in Seq(CallRec), Returns_to(calls),
           \A i \in 1 .. Len(calls) : Gentle(calls[i])
    PROVE  HInv'
<1> USE DEF HInv
<1>1. Destroyers = {}
  <2>1. stack[1].method = m /\ 1 \in DOMAIN stack
    BY NextCallIs
  <2>2. 1 \notin Destroyers
    BY <2>1 DEF Destroyers
  <2> QED
    BY <2>1, <2>2 DEF Sorted
<1>2. \A i \in DOMAIN stack : Gentle(stack[i])
  BY <1>1 DEF Destroyers, Gentle, Alive, CallsAreLive
<1>3. PICK n : n = Len(calls)
  OBVIOUS
<1>4. n \in Nat
  BY <1>3, LenProperties
<1>5. /\ stack' \in Seq(CallRec)
      /\ DOMAIN stack' = 1 .. n + Len(stack) - 1
      /\ \A i \in 1 .. n : stack'[i] = calls[i]
      /\ \A i \in n + 1 .. n + Len(stack) - 1 :
            i - n + 1 \in DOMAIN stack /\ stack'[i] = stack[i - n + 1]
  BY <1>3, ReturnsTo
<1>6. \A i \in 1 .. n + Len(stack) - 1 : i \in 1 .. n \/ i \in n + 1 .. n + Len(stack) - 1
  <2>1. Len(stack) \in Nat
    BY LenProperties DEF Typed
  <2> QED
    BY <1>4, <2>1
<1>7. \A i \in DOMAIN stack' : Gentle(stack'[i])
  BY <1>2, <1>3, <1>5, <1>6
<1>8. Destroyers' = {} /\ CallsAreLive'
  BY <1>7 DEF Destroyers, CallsAreLive, Gentle
<1>9. said' \in Nat
  BY DEF Typed
<1> QED
  BY <1>1, <1>5, <1>8, <1>9, Quietly

\* The two parts of a tee that is called but not destroyed are alive.
LEMMA PartsAreLive ==
    ASSUME HInv, NEW m, Calling(m), m \notin {"destructor", "free"},
           NEW op, op = Next_call.op, vtable(op) = "tee"
    PROVE  /\ objects[op].first \in live /\ objects[op].second \in live
           /\ objects[op].first \in Nat /\ objects[op].second \in Nat
<1> USE DEF HInv
<1>1. stack[1].method = m /\ 1 \in DOMAIN stack /\ stack[1].op = op
  BY NextCallIs
<1>2. op \in live
  BY <1>1 DEF Alive, CallsAreLive, vtable
<1>3. Destroyers = {}
  BY <1>1 DEF Destroyers, Sorted
<1>4. op \in Keepers
  BY <1>2, <1>3, FreeingIs, ObjectsAreNumbers DEF Keepers, vtable, Typed
<1>5. objects[op].first \in live /\ objects[op].second \in live
  BY <1>4 DEF Alive, Parts
<1> QED
  BY <1>5, ObjectsAreNumbers DEF Typed

LEMMA RegisteredOutputIs ==
    ASSUME HInv
    PROVE  registered_output \in live \cup {STATIC} /\ registered_output \in Nat
<1>1. registered_output \in live \cup {STATIC}
  BY DEF HInv, Typed, registered_output
<1> QED
  BY <1>1, ObjectsAreNumbers DEF HInv, Typed, STATIC

LEMMA TwoCallsJoined ==
    ASSUME NEW STATE a, NEW STATE b, a \in CallRec, b \in CallRec
    PROVE  <<a>> \o <<b>> = <<a, b>>
<1>1. /\ <<a>> \in Seq(CallRec) /\ <<b>> \in Seq(CallRec) /\ <<a, b>> \in Seq(CallRec)
      /\ Len(<<a>>) = 1 /\ Len(<<b>>) = 1 /\ Len(<<a, b>>) = 2
  OBVIOUS
<1>2. /\ <<a>> \o <<b>> \in Seq(CallRec)
      /\ Len(<<a>> \o <<b>>) = 2
      /\ \A i \in 1 .. 2 : (<<a>> \o <<b>>)[i] = IF i <= 1 THEN <<a>>[i] ELSE <<b>>[i - 1]
  BY <1>1, ConcatProperties
<1>3. \A i \in 1 .. 2 : (<<a>> \o <<b>>)[i] = <<a, b>>[i]
  <2>1. (<<a>> \o <<b>>)[1] = a
    BY <1>2
  <2>2. (<<a>> \o <<b>>)[2] = b
    BY <1>2
  <2> QED
    BY <2>1, <2>2
<1> QED
  BY <1>1, <1>2, <1>3, SeqEqual

LEMMA SayStep ==
    ASSUME HInv, stack = <<>>, UNCHANGED <<client, objects, live, mine, forgotten>>,
           \/ Say(<<>>)
           \/ Say(<<CallWith("method_exit", registered_output, EXIT_FAILURE)>>)
    PROVE  HInv'
<1>1. said' \in Nat /\ where' = registered_output
  BY DEF Say, HInv, Typed
<1>2. PICK a, b : /\ a = CallWith("message", where', said')
                  /\ b = CallWith("method_exit", where', EXIT_FAILURE)
  OBVIOUS
<1>3. where' \in live \cup {STATIC} /\ where' \in Nat
  BY <1>1, RegisteredOutputIs
<1>4. a \in CallRec /\ b \in CallRec /\ Gentle(a) /\ Gentle(b)
  BY <1>1, <1>2, <1>3 DEF CallWith, CallRec, Methods, Gentle, EXIT_FAILURE
<1>5. stack' = <<a>> \/ stack' = <<a, b>>
  <2>1. <<a>> \o <<>> = <<a>>
    BY <1>4
  <2>2. <<a>> \o <<b>> = <<a, b>>
    BY <1>4, TwoCallsJoined
  <2>3. stack' = <<a>> \o <<>> \/ stack' = <<a>> \o <<b>>
    BY <1>1, <1>2 DEF Say
  <2> QED
    BY <2>1, <2>2, <2>3
<1>6. stack' \in Seq(CallRec) /\ \A i \in DOMAIN stack' : Gentle(stack'[i])
  <2>1. CASE stack' = <<a>>
    BY <1>4, <2>1
  <2>2. CASE stack' = <<a, b>>
    BY <1>4, <2>2
  <2> QED
    BY <1>5, <2>1, <2>2
<1> QED
  BY <1>1, <1>6, Started

LEMMA MessageToTeeStep == HInv /\ MessageToTee => HInv'
<1> SUFFICES ASSUME HInv, MessageToTee PROVE HInv'
  OBVIOUS
<1> USE DEF HInv
<1>1. PICK call : call = Next_call
  OBVIOUS
<1>2. /\ Calling("message") /\ vtable(call.op) = "tee"
      /\ Returns_to(tee_message(call))
      /\ UNCHANGED <<client, objects, live, mine, where, forgotten, said>>
  BY <1>1 DEF MessageToTee, heap, history
<1>3. call \in CallRec /\ call.method = "message"
  BY <1>1, <1>2, NextCallIs
<1>4. PICK first, second : first = objects[call.op].first /\ second = objects[call.op].second
  OBVIOUS
<1>5. first \in live /\ second \in live /\ first \in Nat /\ second \in Nat
  BY <1>1, <1>2, <1>4, PartsAreLive
<1>6. PICK a, b : a = [call EXCEPT !.op = first] /\ b = [call EXCEPT !.op = second]
  OBVIOUS
<1>7. a \in CallRec /\ b \in CallRec /\ Gentle(a) /\ Gentle(b)
  BY <1>3, <1>5, <1>6 DEF CallRec, Gentle
<1>8. PICK calls : calls = <<a, b>>
  OBVIOUS
<1>9. calls \in Seq(CallRec) /\ Len(calls) = 2 /\ calls[1] = a /\ calls[2] = b
  BY <1>7, <1>8
<1>10. Returns_to(calls)
  BY <1>2, <1>4, <1>6, <1>8 DEF tee_message
<1>11. \A i \in 1 .. Len(calls) : Gentle(calls[i])
  BY <1>7, <1>9
<1> QED
  BY <1>2, <1>9, <1>10, <1>11, Called

LEMMA MessageToLeafStep == HInv /\ MessageToLeaf => HInv'
<1> SUFFICES ASSUME HInv, MessageToLeaf PROVE HInv'
  OBVIOUS
<1>1. /\ Calling("message") /\ Returns_to(<<>>)
      /\ UNCHANGED <<client, objects, live, mine, where, forgotten, said>>
  BY DEF MessageToLeaf, heap, history
<1>2. <<>> \in Seq(CallRec) /\ \A i \in 1 .. Len(<<>>) : Gentle(<<>>[i])
  OBVIOUS
<1> QED
  BY <1>1, <1>2, Called

LEMMA MethodExitStep == HInv /\ MethodExit => HInv'
<1> SUFFICES ASSUME HInv, MethodExit PROVE HInv'
  OBVIOUS
<1> USE DEF HInv
<1>1. PICK call : call = Next_call
  OBVIOUS
<1>2. /\ Calling("method_exit") /\ Returns_to(method_exit(call))
      /\ UNCHANGED <<client, objects, live, mine, where, forgotten, said>>
  BY <1>1 DEF MethodExit, heap, history
<1>3. call \in CallRec /\ call.op \in live \cup {STATIC}
  BY <1>1, <1>2, NextCallIs DEF Alive, CallsAreLive
<1>4. PICK a, b : /\ a = [call EXCEPT !.method = "exit_method"]
                  /\ b = [call EXCEPT !.method = "exit"]
  OBVIOUS
<1>5. a \in CallRec /\ b \in CallRec /\ Gentle(a) /\ Gentle(b)
  BY <1>3, <1>4 DEF CallRec, Methods, Gentle
<1>6. PICK calls : calls = <<a, b>>
  OBVIOUS
<1>7. calls \in Seq(CallRec) /\ Len(calls) = 2 /\ calls[1] = a /\ calls[2] = b
  BY <1>5, <1>6
<1>8. Returns_to(calls)
  BY <1>2, <1>4, <1>6 DEF method_exit
<1>9. \A i \in 1 .. Len(calls) : Gentle(calls[i])
  BY <1>5, <1>7
<1> QED
  BY <1>2, <1>7, <1>8, <1>9, Called

\* The stack is emptied by exit, or by an exception.
LEMMA Unwound ==
    ASSUME HInv, stack' = <<>>, said' = said, Destroyers = {},
           UNCHANGED <<client, objects, live, mine, where, forgotten>>
    PROVE  HInv'
<1>1. stack' \in Seq(CallRec) /\ DOMAIN stack' = {}
  OBVIOUS
<1>2. Destroyers' = {} /\ CallsAreLive' /\ said' \in Nat
  BY <1>1 DEF Destroyers, CallsAreLive, HInv, Typed
<1> QED
  BY <1>1, <1>2, Quietly

LEMMA NothingDestroyed ==
    ASSUME HInv, NEW m, Calling(m), m \notin {"destructor", "free"}
    PROVE  Destroyers = {}
<1>1. stack[1].method = m /\ 1 \in DOMAIN stack
  BY NextCallIs DEF HInv
<1> QED
  BY <1>1 DEF HInv, Sorted, Destroyers

LEMMA ExitMethodStep == HInv /\ ExitMethod => HInv'
<1> SUFFICES ASSUME HInv, ExitMethod PROVE HInv'
  OBVIOUS
<1> USE DEF HInv
<1>1. PICK call : call = Next_call
  OBVIOUS
<1>2. /\ Calling("exit_method")
      /\ UNCHANGED <<client, objects, live, mine, where, forgotten, said>>
  BY DEF ExitMethod, heap, history
<1>3. CASE /\ vtable(call.op) = "tee"
           /\ Returns_to(<<[call EXCEPT !.op = objects[call.op].first],
                           [call EXCEPT !.op = objects[call.op].second]>>)
  <2>1. call \in CallRec /\ call.method = "exit_method"
    BY <1>1, <1>2, NextCallIs
  <2>2. PICK first, second : first = objects[call.op].first /\ second = objects[call.op].second
    OBVIOUS
  <2>3. first \in live /\ second \in live /\ first \in Nat /\ second \in Nat
    BY <1>1, <1>2, <1>3, <2>2, PartsAreLive
  <2>4. PICK a, b : a = [call EXCEPT !.op = first] /\ b = [call EXCEPT !.op = second]
    OBVIOUS
  <2>5. a \in CallRec /\ b \in CallRec /\ Gentle(a) /\ Gentle(b)
    BY <2>1, <2>3, <2>4 DEF CallRec, Gentle
  <2>6. PICK calls : calls = <<a, b>>
    OBVIOUS
  <2>7. calls \in Seq(CallRec) /\ Len(calls) = 2 /\ calls[1] = a /\ calls[2] = b
    BY <2>5, <2>6
  <2>8. Returns_to(calls)
    BY <1>3, <2>2, <2>4, <2>6
  <2>9. \A i \in 1 .. Len(calls) : Gentle(calls[i])
    BY <2>5, <2>7
  <2> QED
    BY <1>2, <2>7, <2>8, <2>9, Called
<1>4. CASE Returns_to(<<>>)
  <2>1. <<>> \in Seq(CallRec) /\ \A i \in 1 .. Len(<<>>) : Gentle(<<>>[i])
    OBVIOUS
  <2> QED
    BY <1>2, <1>4, <2>1, Called
<1>5. CASE stack' = <<>>
  BY <1>2, <1>5, NothingDestroyed, Unwound
<1> QED
  BY <1>1, <1>3, <1>4, <1>5 DEF ExitMethod

LEMMA OutputExitStep == HInv /\ OutputExit => HInv'
<1> SUFFICES ASSUME HInv, OutputExit PROVE HInv'
  OBVIOUS
<1>1. /\ stack = <<>> /\ where' = registered_output
      /\ UNCHANGED <<client, objects, live, mine, forgotten, said>>
  BY DEF OutputExit, Acts, history
<1>2. PICK es \in {EXIT_SUCCESS, EXIT_FAILURE} :
          stack' = <<CallWith("method_exit", where', es)>>
  BY DEF OutputExit
<1>3. PICK call : call = CallWith("method_exit", where', es)
  OBVIOUS
<1>4. call \in CallRec /\ Gentle(call)
  BY <1>1, <1>2, <1>3, RegisteredOutputIs
     DEF CallWith, CallRec, Methods, Gentle, EXIT_SUCCESS, EXIT_FAILURE
<1>5. stack' = <<call>>
  BY <1>2, <1>3
<1>6. stack' \in Seq(CallRec) /\ \A i \in DOMAIN stack' : Gentle(stack'[i])
  BY <1>4, <1>5
<1>7. said' \in Nat
  BY <1>1 DEF HInv, Typed
<1> QED
  BY <1>1, <1>6, <1>7, Started

LEMMA MakingSteps ==
    HInv /\ (New \/ (\E append \in BOOLEAN : FileNew(append)) \/ TeeNew) => HInv'
<1> SUFFICES ASSUME HInv, New \/ (\E append \in BOOLEAN : FileNew(append)) \/ TeeNew
             PROVE  HInv'
  OBVIOUS
<1> USE DEF HInv
<1>1. /\ stack = <<>> /\ UNCHANGED <<client, where, stack, said>>
      /\ client \in Clients /\ Len(objects) + 1 \in Nat
  BY ObjectsAreNumbers DEF New, FileNew, TeeNew, Runs, history, Typed
<1>2. CASE New
  <2>1. PICK class \in client.classes \ {"file"} : Make(Plain(class, STATIC))
    BY <1>2 DEF New
  <2>2. class \in {"stderr", "syslog", "custom"}
    BY <1>1, <2>1, ClientsAssumption
  <2>3. PICK object : object = Plain(class, STATIC)
    OBVIOUS
  <2>4. object \in Object /\ object.vtable # "tee"
    BY <2>2, <2>3 DEF Plain, Object, STATIC
  <2>5. forgotten' = forgotten /\ mine' = (mine \ {}) \cup {Len(objects) + 1}
    BY <1>2 DEF New
  <2> QED
    BY <1>1, <2>1, <2>3, <2>4, <2>5, Made
<1>3. CASE \E append \in BOOLEAN : FileNew(append)
  <2>1. PICK op : op = Len(objects) + 1
    OBVIOUS
  <2>2. PICK fp \in Nat : Make(Plain("file", fp))
    BY <1>1, <1>3 DEF FileNew, STATIC
  <2>3. PICK object : object = Plain("file", fp)
    OBVIOUS
  <2>4. object \in Object /\ object.vtable # "tee"
    BY <2>2, <2>3 DEF Plain, Object, STATIC
  <2>5. forgotten' = forgotten /\ mine' = (mine \ {}) \cup {Len(objects) + 1}
    BY <1>3 DEF FileNew
  <2> QED
    BY <1>1, <2>2, <2>3, <2>4, <2>5, Made
<1>4. CASE TeeNew
  <2>1. PICK first \in mine, second \in mine, allocated \in MallocResults :
            /\ first # second
            /\ IF allocated
               THEN /\ Make([vtable |-> "tee", fp |-> STATIC,
                             first |-> first, second |-> second])
                    /\ mine' = (mine \ {first, second}) \cup {Len(objects) + 1}
                    /\ UNCHANGED forgotten
               ELSE /\ mine' = mine \ {first, second}
                    /\ forgotten' = forgotten \cup {first, second}
                    /\ UNCHANGED <<objects, live>>
    BY <1>4 DEF TeeNew
  <2>2. first \in Nat /\ second \in Nat
    BY ObjectsAreNumbers DEF Typed
  <2>3. CASE allocated
    <3>1. PICK object, taken :
              /\ object = [vtable |-> "tee", fp |-> STATIC, first |-> first, second |-> second]
              /\ taken = {first, second}
      OBVIOUS
    <3>2. /\ object \in Object /\ object.first # object.second
          /\ object.vtable = "tee" /\ taken = {object.first, object.second}
      BY <2>1, <2>2, <3>1 DEF Object, STATIC
    <3>3. taken \subseteq mine /\ Make(object) /\ mine' = (mine \ taken) \cup {Len(objects) + 1}
      BY <2>1, <2>3, <3>1
    <3> QED
      BY <1>1, <2>1, <2>3, <3>2, <3>3, Made
  <2>4. CASE ~allocated
    <3>1. PICK taken : taken = {first, second}
      OBVIOUS
    <3>2. /\ taken \subseteq mine /\ mine' = mine \ taken
          /\ forgotten' = forgotten \cup taken /\ UNCHANGED <<objects, live>>
      BY <2>1, <2>4, <3>1
    <3> QED
      BY <1>1, <3>2, Lost
  <2> QED
    BY <2>3, <2>4
<1> QED
  BY <1>2, <1>3, <1>4

-----------------------------------------------------------------------------
(* The specification. *)

LEMMA HInvInit == Init => HInv
<1> SUFFICES ASSUME Init PROVE HInv
  OBVIOUS
<1>1. /\ objects = <<>> /\ live = {} /\ mine = {} /\ where = NULL /\ forgotten = {}
      /\ stack = <<>> /\ said = 0 /\ client \in Clients
  BY DEF Init
<1>2. DOMAIN stack = {} /\ Destroyers = {}
  BY <1>1, NoCalls
<1>3. Typed
  BY <1>1 DEF Typed
<1>4. Keepers = {}
  BY <1>1 DEF Keepers
<1> QED
  BY <1>1, <1>2, <1>3, <1>4 DEF HInv, Apart, Alive, CallsAreLive, Covered, Sorted

LEMMA HInvNext == HInv /\ [Next]_vars => HInv'
<1> SUFFICES ASSUME HInv, [Next]_vars PROVE HInv'
  OBVIOUS
<1>1. CASE New \/ (\E append \in BOOLEAN : FileNew(append)) \/ TeeNew
  BY <1>1, MakingSteps
<1>2. CASE Register
  BY <1>2, RegisterStep
<1>3. CASE OnError
  <2>1. stack = <<>> /\ UNCHANGED <<client, objects, live, mine, forgotten>> /\ Say(<<>>)
    BY <1>3 DEF OnError, Acts
  <2> QED
    BY <2>1, SayStep
<1>4. CASE OrDie
  <2>1. /\ stack = <<>> /\ UNCHANGED <<client, objects, live, mine, forgotten>>
        /\ Say(<<CallWith("method_exit", registered_output, EXIT_FAILURE)>>)
    BY <1>4 DEF OrDie, Acts
  <2> QED
    BY <2>1, SayStep
<1>5. CASE OutputExit
  BY <1>5, OutputExitStep
<1>6. CASE Destructor \/ Free
  BY <1>6, DestructorStep, FreeStep
<1>7. CASE MessageToTee \/ MessageToLeaf
  BY <1>7, MessageToTeeStep, MessageToLeafStep
<1>8. CASE MethodExit \/ ExitMethod
  BY <1>8, MethodExitStep, ExitMethodStep
<1>9. CASE Exit
  <2>1. /\ Calling("exit") /\ stack' = <<>>
        /\ UNCHANGED <<client, objects, live, mine, where, forgotten, said>>
    BY <1>9 DEF Exit, CallExit, heap, history
  <2> QED
    BY <2>1, NothingDestroyed, Unwound
<1>10. CASE ClientExit
  <2>1. /\ stack = <<>> /\ stack' = <<>>
        /\ UNCHANGED <<client, objects, live, mine, where, forgotten, said>>
    BY <1>10 DEF ClientExit, Runs, CallExit, heap, history
  <2> QED
    BY <2>1, Same
<1>11. CASE Atexit \/ SetAction \/ System \/ Done \/ UNCHANGED vars
  <2>1. UNCHANGED <<client, objects, live, mine, where, forgotten, stack, said>>
    BY <1>11
       DEF Atexit, SetAction, System, GrimReaper, ClientHandler, HandlerReturns,
           FlushStream, Over, Done, vars, heap, history
  <2> QED
    BY <2>1, Same
<1> QED
  BY <1>1, <1>2, <1>3, <1>4, <1>5, <1>6, <1>7, <1>8, <1>9, <1>10, <1>11
     DEF Next, Client, Library

LEMMA Invariant == Spec => []HInv
BY HInvInit, HInvNext, PTL DEF Spec

(* Whatever outputs a client makes, joins, registers and replaces, and      *)
(* wherever in the destruction of a tree one looks: an object that is alive *)
(* has one owner, so it is freed once, and one that has been freed has none *)
(* (output_register.c, output/tee.c).                                       *)
THEOREM OneOwnerAlways == Spec => []OneOwner
BY Invariant, OneOwnerEach, PTL

(* No method is called on an object that has been freed: not through the    *)
(* registry, not through a tee, and not by a destructor that is running.    *)
THEOREM CallsAreLiveAlways == Spec => []CallsAreLive
<1>1. HInv => CallsAreLive
  BY DEF HInv, Alive
<1> QED
  BY <1>1, Invariant, PTL

-----------------------------------------------------------------------------
(* The functions called at exit, and the report of the status.             *)

Functionals == {"client", "grim_reaper"}

\* How often a function is in a list of functions.
Times(h, list) == Cardinality(Places(h, list))

LEMMA LastAndFront ==
    ASSUME NEW S, NEW s \in Seq(S), s # <<>>
    PROVE  /\ Front(s) \in Seq(S) /\ Last(s) \in S
           /\ Len(s) \in Nat /\ Len(s) > 0 /\ Len(Front(s)) = Len(s) - 1
           /\ Last(s) = s[Len(s)]
           /\ DOMAIN s = 1 .. Len(s) /\ DOMAIN Front(s) = 1 .. Len(s) - 1
           /\ \A i \in 1 .. Len(s) - 1 : Front(s)[i] = s[i]
<1>1. Len(s) \in Nat /\ Len(s) > 0 /\ DOMAIN s = 1 .. Len(s) /\ \A i \in 1 .. Len(s) : s[i] \in S
  BY EmptySeq, LenProperties, ElementOfSeq
<1>2. /\ Front(s) \in Seq(S) /\ Len(Front(s)) = Len(s) - 1
      /\ \A i \in 1 .. Len(s) - 1 : Front(s)[i] = s[i]
  <2>1. \A i \in 1 .. Len(s) - 1 : s[i] \in S
    BY <1>1
  <2>2. 1 \in Int /\ Len(s) - 1 \in Int
    BY <1>1
  <2>3. /\ SubSeq(s, 1, Len(s) - 1) \in Seq(S)
        /\ Len(SubSeq(s, 1, Len(s) - 1)) = IF 1 <= Len(s) - 1 THEN Len(s) - 1 - 1 + 1 ELSE 0
        /\ \A i \in 1 .. Len(s) - 1 - 1 + 1 : SubSeq(s, 1, Len(s) - 1)[i] = s[1 + i - 1]
    BY <2>1, <2>2, SubSeqProperties
  <2> QED
    BY <1>1, <2>3 DEF Front
<1>3. DOMAIN Front(s) = 1 .. Len(s) - 1
  BY <1>2, LenProperties
<1> QED
  BY <1>1, <1>2, <1>3 DEF Last

LEMMA PlacesFinite ==
    ASSUME NEW s \in Seq(Functionals), NEW h
    PROVE  /\ IsFiniteSet(Places(h, s)) /\ Times(h, s) \in Nat
           /\ Times(h, s) = 0 <=> \A i \in DOMAIN s : s[i] # h
<1>1. Len(s) \in Nat /\ DOMAIN s = 1 .. Len(s)
  BY LenProperties
<1>2. IsFiniteSet(1 .. Len(s))
  BY <1>1, FS_Interval
<1>3. IsFiniteSet(Places(h, s))
  BY <1>1, <1>2, FS_Subset DEF Places
<1>4. Times(h, s) = 0 <=> Places(h, s) = {}
  BY <1>3, FS_EmptySet DEF Times
<1> QED
  BY <1>3, <1>4, FS_CardinalityType DEF Places, Times

LEMMA NoneIn ==
    ASSUME NEW h
    PROVE  Times(h, <<>>) = 0
<1>1. DOMAIN <<>> = {}
  OBVIOUS
<1>2. Places(h, <<>>) = {}
  BY <1>1 DEF Places
<1> QED
  BY <1>2, FS_EmptySet DEF Times

LEMMA TimesAppend ==
    ASSUME NEW s \in Seq(Functionals), NEW e \in Functionals, NEW h
    PROVE  /\ Append(s, e) \in Seq(Functionals)
           /\ Times(h, Append(s, e)) = Times(h, s) + (IF e = h THEN 1 ELSE 0)
           /\ Append(s, e) # <<>> /\ Last(Append(s, e)) = e
           /\ Len(Append(s, e)) = Len(s) + 1 /\ Len(s) \in Nat
<1> DEFINE t == Append(s, e)
<1>1. Len(s) \in Nat /\ DOMAIN s = 1 .. Len(s)
  BY LenProperties
<1>2. /\ t \in Seq(Functionals) /\ t # <<>> /\ Len(t) = Len(s) + 1
      /\ \A i \in 1 .. Len(s) : t[i] = s[i]
      /\ t[Len(s) + 1] = e
  BY AppendProperties
<1>3. DOMAIN t = 1 .. Len(s) + 1
  BY <1>2, LenProperties
<1> HIDE DEF t
<1>4. Places(h, t) = IF e = h THEN Places(h, s) \cup {Len(s) + 1} ELSE Places(h, s)
  <2>1. \A i \in DOMAIN t : i \in DOMAIN s \/ i = Len(s) + 1
    BY <1>1, <1>3
  <2>2. DOMAIN s \subseteq DOMAIN t /\ Len(s) + 1 \in DOMAIN t
    BY <1>1, <1>3
  <2>3. \A i \in DOMAIN s : t[i] = s[i]
    BY <1>1, <1>2
  <2> QED
    BY <1>2, <2>1, <2>2, <2>3 DEF Places
<1>5. Len(s) + 1 \notin Places(h, s)
  BY <1>1 DEF Places
<1>6. Times(h, t) = Times(h, s) + (IF e = h THEN 1 ELSE 0)
  <2>1. Times(h, s) \in Nat /\ IsFiniteSet(Places(h, s))
    BY PlacesFinite
  <2>2. Cardinality(Places(h, s) \cup {Len(s) + 1}) = Times(h, s) + 1
    BY <2>1, <1>5, FS_AddElement DEF Times
  <2> QED
    BY <1>4, <2>1, <2>2 DEF Times
<1>7. Last(t) = e
  BY <1>2 DEF Last
<1> QED
  BY <1>1, <1>2, <1>6, <1>7 DEF t

LEMMA TimesFront ==
    ASSUME NEW s \in Seq(Functionals), s # <<>>, NEW h
    PROVE  Times(h, s) = Times(h, Front(s)) + (IF Last(s) = h THEN 1 ELSE 0)
<1>1. /\ Front(s) \in Seq(Functionals) /\ Last(s) \in Functionals
      /\ Len(s) \in Nat /\ Len(s) > 0 /\ Len(Front(s)) = Len(s) - 1
      /\ Last(s) = s[Len(s)]
      /\ \A i \in 1 .. Len(s) - 1 : Front(s)[i] = s[i]
  BY LastAndFront
<1>2. /\ Append(Front(s), Last(s)) \in Seq(Functionals)
      /\ Len(Append(Front(s), Last(s))) = Len(s)
      /\ \A i \in 1 .. Len(s) - 1 : Append(Front(s), Last(s))[i] = s[i]
      /\ Append(Front(s), Last(s))[Len(s)] = s[Len(s)]
  BY <1>1, AppendProperties
<1>3. \A i \in 1 .. Len(s) : Append(Front(s), Last(s))[i] = s[i]
  BY <1>1, <1>2
<1>4. Append(Front(s), Last(s)) = s
  BY <1>2, <1>3, SeqEqual
<1>5. Times(h, Append(Front(s), Last(s)))
      = Times(h, Front(s)) + (IF Last(s) = h THEN 1 ELSE 0)
  BY <1>1, TimesAppend
<1> QED
  BY <1>4, <1>5

(* The report is right because of what the lists of functions hold:        *)
(* grim_reaper is in them once and from its registration on (Installed),   *)
(* it has run if there is a report (Once), and while it is the function    *)
(* that ran last nothing has changed its mind since (Last_word).           *)
Listed ==
    /\ client \in Clients
    /\ handlers \in Seq(Functionals) /\ ran \in Seq(Functionals)
    /\ Len(handlers) = Times("client", handlers) + Times("grim_reaper", handlers)
    /\ Len(ran) = Times("client", ran) + Times("grim_reaper", ran)
    /\ Times("client", handlers) + Times("client", ran) <= client.atexit

Installed ==
    /\ registered \in BOOLEAN
    /\ Times("grim_reaper", handlers) + Times("grim_reaper", ran)
       = IF registered THEN 1 ELSE 0
    /\ action \in {"never", "error", "always"}
    /\ registered \/ action = "never"

Once ==
    reports = <<>> \/ (Times("grim_reaper", ran) = 1 /\ \E s : reports = <<s>>)

Phase ==
    /\ pc \in {"run", "exiting", "handler", "over"}
    /\ pc = "run" => ran = <<>>
    /\ pc = "handler" => ran # <<>> /\ Last(ran) = "client"
    /\ pc \in {"exiting", "over"} => stack = <<>>
    /\ pc = "over" => handlers = <<>>

Last_word ==
    ran # <<>> /\ Last(ran) = "grim_reaper"
    => reports = IF Asked /\ stderr_open THEN <<status>> ELSE <<>>

EndInv == Listed /\ Installed /\ Once /\ Phase /\ Last_word

LEMMA EndInvInit == Init => EndInv
<1> SUFFICES ASSUME Init PROVE EndInv
  OBVIOUS
<1> USE DEF Init
<1>1. /\ Times("client", <<>>) = 0 /\ Times("grim_reaper", <<>>) = 0 /\ Len(<<>>) = 0
      /\ <<>> \in Seq(Functionals)
  BY NoneIn
<1>2. client.atexit \in Nat
  BY ClientsAssumption
<1>3. Listed
  BY <1>1, <1>2 DEF Listed
<1>4. Installed
  <2>1. Times("grim_reaper", handlers) + Times("grim_reaper", ran) = 0 /\ registered = FALSE
    BY <1>1
  <2>2. action = "never"
    OBVIOUS
  <2> HIDE DEF Init
  <2> QED
    BY <2>1, <2>2 DEF Installed
<1> QED
  BY <1>3, <1>4 DEF EndInv, Once, Phase, Last_word

LEMMA Unaffected ==
    ASSUME EndInv, pc \in {"run", "handler"},
           UNCHANGED <<client, pc, status, handlers, registered, action, ran, reports>>
    PROVE  EndInv'
<1> USE DEF EndInv
<1>1. Listed' /\ Installed' /\ Once'
  BY DEF Listed, Installed, Once
<1>2. Phase'
  BY DEF Phase
<1>3. ~(ran # <<>> /\ Last(ran) = "grim_reaper")
  BY DEF Phase
<1> QED
  BY <1>1, <1>2, <1>3 DEF Last_word

LEMMA Exits ==
    ASSUME EndInv, pc \in {"run", "handler"}, pc' = "exiting", stack' = <<>>,
           UNCHANGED <<client, handlers, registered, action, ran, reports>>
    PROVE  EndInv'
<1> USE DEF EndInv
<1>1. Listed' /\ Installed' /\ Once'
  BY DEF Listed, Installed, Once
<1>2. Phase'
  BY DEF Phase
<1>3. ~(ran # <<>> /\ Last(ran) = "grim_reaper")
  BY DEF Phase
<1> QED
  BY <1>1, <1>2, <1>3 DEF Last_word

LEMMA CalledInTime ==
    ASSUME EndInv, stack # <<>>
    PROVE  pc \in {"run", "handler"}
BY DEF EndInv, Phase

LEMMA AtexitStep == EndInv /\ Atexit => EndInv'
<1> SUFFICES ASSUME EndInv, Atexit PROVE EndInv'
  OBVIOUS
<1> USE DEF EndInv
<1>1. /\ pc = "run" /\ ran = <<>> /\ handlers \in Seq(Functionals)
      /\ Times("client", handlers) < client.atexit
      /\ handlers' = Append(handlers, "client")
      /\ UNCHANGED <<client, stack, stderr_open, pc, status, registered, action, ran, reports>>
  BY DEF Atexit, Runs, Phase, Listed, Times, heap, sinks, history, ending
<1>2. /\ handlers' \in Seq(Functionals) /\ Len(handlers') = Len(handlers) + 1
      /\ Times("client", handlers') = Times("client", handlers) + 1
      /\ Times("grim_reaper", handlers') = Times("grim_reaper", handlers)
  <2>1. "client" \in Functionals /\ "client" # "grim_reaper"
    BY DEF Functionals
  <2>2. Times("client", Append(handlers, "client")) = Times("client", handlers) + 1
    BY <1>1, <2>1, TimesAppend
  <2>3. Times("grim_reaper", Append(handlers, "client")) = Times("grim_reaper", handlers) + 0
    BY <1>1, <2>1, TimesAppend
  <2>4. Times("grim_reaper", handlers) \in Nat
    BY <1>1, PlacesFinite
  <2>5. Append(handlers, "client") \in Seq(Functionals)
        /\ Len(Append(handlers, "client")) = Len(handlers) + 1
    BY <1>1, <2>1, TimesAppend
  <2> QED
    BY <1>1, <2>2, <2>3, <2>4, <2>5
<1>3. /\ Times("client", handlers) \in Nat /\ Times("grim_reaper", handlers) \in Nat
      /\ Times("client", ran) = 0 /\ Times("client", <<>>) = 0
      /\ client.atexit \in Nat
  BY <1>1, PlacesFinite, NoneIn, ClientsAssumption DEF Listed
<1>4. Listed'
  <2>1. (Len(handlers) = Times("client", handlers) + Times("grim_reaper", handlers))'
    BY <1>1, <1>2, <1>3 DEF Listed
  <2>2. (Times("client", handlers) + Times("client", ran) <= client.atexit)'
    BY <1>1, <1>2, <1>3
  <2> QED
    BY <1>1, <1>2, <2>1, <2>2 DEF Listed
<1>5. Installed'
  BY <1>1, <1>2 DEF Installed
<1>6. Phase'
  BY <1>1 DEF Phase
<1> QED
  BY <1>1, <1>4, <1>5, <1>6 DEF Once, Last_word

LEMMA SetActionStep == EndInv /\ SetAction => EndInv'
<1> SUFFICES ASSUME EndInv, SetAction PROVE EndInv'
  OBVIOUS
<1> USE DEF EndInv
<1>1. /\ pc \in {"run", "handler"} /\ stack = <<>>
      /\ action' \in client.actions \ {action}
      /\ handlers \in Seq(Functionals)
      /\ UNCHANGED <<client, stack, stderr_open, pc, status, ran, reports>>
  BY DEF SetAction, Acts, Listed, heap, sinks, history, ending
<1>2. action' \in {"never", "error", "always"}
  BY <1>1, ClientsAssumption DEF Listed
<1>3. Phase' /\ Once'
  BY <1>1 DEF Phase, Once
<1>4. Last_word'
  BY <1>1 DEF Phase, Last_word
<1>5. CASE UNCHANGED <<registered, handlers>> /\ (registered' \/ action' = "never")
  <2>1. Listed'
    BY <1>1, <1>5 DEF Listed
  <2>2. Installed'
    BY <1>1, <1>2, <1>5 DEF Installed
  <2> QED
    BY <1>3, <1>4, <2>1, <2>2
<1>6. CASE ~registered /\ registered' = TRUE /\ handlers' = Append(handlers, "grim_reaper")
  <2>1. "grim_reaper" \in Functionals /\ "client" # "grim_reaper"
    BY DEF Functionals
  <2>2. Times("grim_reaper", Append(handlers, "grim_reaper")) = Times("grim_reaper", handlers) + 1
    BY <1>1, <2>1, TimesAppend
  <2>3. Times("client", Append(handlers, "grim_reaper")) = Times("client", handlers) + 0
    BY <1>1, <2>1, TimesAppend
  <2>4. Append(handlers, "grim_reaper") \in Seq(Functionals)
        /\ Len(Append(handlers, "grim_reaper")) = Len(handlers) + 1
    BY <1>1, <2>1, TimesAppend
  <2>5. /\ Times("client", handlers) \in Nat /\ Times("grim_reaper", handlers) \in Nat
        /\ Times("grim_reaper", ran) \in Nat
    BY <1>1, PlacesFinite DEF Listed
  <2>6. /\ Times("client", handlers') = Times("client", handlers)
        /\ Times("grim_reaper", handlers') = Times("grim_reaper", handlers) + 1
        /\ handlers' \in Seq(Functionals) /\ Len(handlers') = Len(handlers) + 1
    BY <1>6, <2>2, <2>3, <2>4, <2>5
  <2>7. (Len(handlers) = Times("client", handlers) + Times("grim_reaper", handlers))'
    BY <2>5, <2>6 DEF Listed
  <2>8. Listed'
    BY <1>1, <2>6, <2>7 DEF Listed
  <2>9. (Times("grim_reaper", handlers) + Times("grim_reaper", ran) = 1)'
    BY <1>1, <1>6, <2>5, <2>6 DEF Installed
  <2>10. Installed'
    BY <1>2, <1>6, <2>9 DEF Installed
  <2> QED
    BY <1>3, <1>4, <2>8, <2>10
<1> QED
  BY <1>5, <1>6 DEF SetAction, install_grim_reaper, Installed

\* The last function is taken from the one list to the other.
LEMMA Moved ==
    ASSUME EndInv, NEW h, handlers # <<>>, Last(handlers) = h,
           handlers' = Front(handlers), ran' = Append(ran, Last(handlers)),
           client' = client
    PROVE  /\ Listed'
           /\ h \in Functionals
           /\ ran' # <<>> /\ Last(ran') = h
           /\ Times("grim_reaper", handlers') \in Nat /\ Times("grim_reaper", ran) \in Nat
           /\ Times("grim_reaper", ran') = Times("grim_reaper", ran) + (IF h = "grim_reaper" THEN 1 ELSE 0)
           /\ Times("grim_reaper", handlers)
              = Times("grim_reaper", handlers') + (IF h = "grim_reaper" THEN 1 ELSE 0)
<1> USE DEF EndInv
<1>1. /\ handlers \in Seq(Functionals) /\ ran \in Seq(Functionals)
      /\ "client" # "grim_reaper"
  BY DEF Listed
<1>2. /\ Front(handlers) \in Seq(Functionals) /\ h \in Functionals
      /\ Len(handlers) \in Nat /\ Len(Front(handlers)) = Len(handlers) - 1
  BY <1>1, LastAndFront
<1>3. /\ Append(ran, h) \in Seq(Functionals) /\ Append(ran, h) # <<>> /\ Last(Append(ran, h)) = h
      /\ Len(Append(ran, h)) = Len(ran) + 1 /\ Len(ran) \in Nat
  BY <1>1, <1>2, TimesAppend
<1>4. \A g : /\ Times(g, handlers) = Times(g, Front(handlers)) + (IF h = g THEN 1 ELSE 0)
            /\ Times(g, Append(ran, h)) = Times(g, ran) + (IF h = g THEN 1 ELSE 0)
            /\ Times(g, handlers) \in Nat /\ Times(g, ran) \in Nat
            /\ Times(g, Front(handlers)) \in Nat
  BY <1>1, <1>2, TimesFront, TimesAppend, PlacesFinite
<1>5. handlers' = Front(handlers) /\ ran' = Append(ran, h)
  OBVIOUS
<1>6. /\ (Len(handlers) = Times("client", handlers) + Times("grim_reaper", handlers))'
      /\ (Len(ran) = Times("client", ran) + Times("grim_reaper", ran))'
      /\ (Times("client", handlers) + Times("client", ran) <= client.atexit)'
  <2>1. /\ Len(handlers) = Times("client", handlers) + Times("grim_reaper", handlers)
        /\ Len(ran) = Times("client", ran) + Times("grim_reaper", ran)
        /\ Times("client", handlers) + Times("client", ran) <= client.atexit
        /\ client.atexit \in Nat
    BY ClientsAssumption DEF Listed
  <2>2. h = "client" \/ h = "grim_reaper"
    BY <1>2 DEF Functionals
  <2>3. CASE h = "client"
    <3>1. /\ Times("client", handlers) = Times("client", handlers') + 1
          /\ Times("grim_reaper", handlers) = Times("grim_reaper", handlers') + 0
      BY <1>1, <1>4, <1>5, <2>3
    <3>2. /\ Times("client", ran') = Times("client", ran) + 1
          /\ Times("grim_reaper", ran') = Times("grim_reaper", ran) + 0
      BY <1>1, <1>4, <1>5, <2>3
    <3>3. /\ Times("client", handlers') \in Nat /\ Times("grim_reaper", handlers') \in Nat
          /\ Times("client", ran) \in Nat /\ Times("grim_reaper", ran) \in Nat
      BY <1>4, <1>5
    <3>4. Len(handlers') = Len(handlers) - 1 /\ Len(ran') = Len(ran) + 1
      BY <1>2, <1>3, <1>5
    <3>5. (Len(handlers) = Times("client", handlers) + Times("grim_reaper", handlers))'
      BY <1>2, <2>1, <3>1, <3>3, <3>4
    <3>6. (Len(ran) = Times("client", ran) + Times("grim_reaper", ran))'
      BY <1>3, <2>1, <3>2, <3>3, <3>4
    <3>7. (Times("client", handlers) + Times("client", ran) <= client.atexit)'
      BY <2>1, <3>1, <3>2, <3>3
    <3> QED
      BY <3>5, <3>6, <3>7
  <2>4. CASE h = "grim_reaper"
    <3>1. /\ Times("client", handlers) = Times("client", handlers') + 0
          /\ Times("grim_reaper", handlers) = Times("grim_reaper", handlers') + 1
      BY <1>1, <1>4, <1>5, <2>4
    <3>2. /\ Times("client", ran') = Times("client", ran) + 0
          /\ Times("grim_reaper", ran') = Times("grim_reaper", ran) + 1
      BY <1>1, <1>4, <1>5, <2>4
    <3>3. /\ Times("client", handlers') \in Nat /\ Times("grim_reaper", handlers') \in Nat
          /\ Times("client", ran) \in Nat /\ Times("grim_reaper", ran) \in Nat
      BY <1>4, <1>5
    <3>4. Len(handlers') = Len(handlers) - 1 /\ Len(ran') = Len(ran) + 1
      BY <1>2, <1>3, <1>5
    <3>5. (Len(handlers) = Times("client", handlers) + Times("grim_reaper", handlers))'
      BY <1>2, <2>1, <3>1, <3>3, <3>4
    <3>6. (Len(ran) = Times("client", ran) + Times("grim_reaper", ran))'
      BY <1>3, <2>1, <3>2, <3>3, <3>4
    <3>7. (Times("client", handlers) + Times("client", ran) <= client.atexit)'
      BY <2>1, <3>1, <3>2, <3>3
    <3> QED
      BY <3>5, <3>6, <3>7
  <2> QED
    BY <2>2, <2>3, <2>4
<1>7. Listed'
  BY <1>2, <1>3, <1>5, <1>6 DEF Listed
<1> QED
  BY <1>2, <1>3, <1>4, <1>5, <1>7

LEMMA GrimReaperStep == EndInv /\ GrimReaper => EndInv'
<1> SUFFICES ASSUME EndInv, GrimReaper PROVE EndInv'
  OBVIOUS
<1> USE DEF EndInv
<1>1. /\ pc = "exiting" /\ stack = <<>>
      /\ handlers # <<>> /\ Last(handlers) = "grim_reaper"
      /\ handlers' = Front(handlers)
      /\ ran' = Append(ran, Last(handlers))
      /\ reports' = IF reports_status(status) /\ stderr_open
                    THEN Append(reports, status) ELSE reports
      /\ UNCHANGED <<client, stack, stderr_open, pc, status, registered, action>>
  BY DEF GrimReaper, heap, sinks, history, ending
<1>2. /\ Listed'
      /\ ran' # <<>> /\ Last(ran') = "grim_reaper"
      /\ Times("grim_reaper", handlers') \in Nat /\ Times("grim_reaper", ran) \in Nat
      /\ Times("grim_reaper", ran') = Times("grim_reaper", ran) + 1
      /\ Times("grim_reaper", handlers) = Times("grim_reaper", handlers') + 1
  BY <1>1, Moved
<1>3. /\ registered = TRUE
      /\ Times("grim_reaper", handlers') = 0 /\ Times("grim_reaper", ran) = 0
      /\ Times("grim_reaper", ran') = 1
  BY <1>2 DEF Installed
<1>4. Installed'
  BY <1>1, <1>3 DEF Installed
<1>5. reports = <<>>
  BY <1>3 DEF Once
<1>6. Append(<<>>, status) = <<status>>
  OBVIOUS
<1>7. reports' = IF reports_status(status) /\ stderr_open THEN <<status>> ELSE <<>>
  BY <1>1, <1>5, <1>6
<1>8. Once'
  BY <1>3, <1>7 DEF Once
<1>9. Phase'
  BY <1>1 DEF Phase
<1>10. Last_word'
  BY <1>1, <1>7 DEF Last_word, Asked, reports_status
<1> QED
  BY <1>2, <1>4, <1>8, <1>9, <1>10

LEMMA ClientHandlerStep == EndInv /\ ClientHandler => EndInv'
<1> SUFFICES ASSUME EndInv, ClientHandler PROVE EndInv'
  OBVIOUS
<1> USE DEF EndInv
<1>1. /\ pc = "exiting" /\ stack = <<>> /\ pc' = "handler"
      /\ handlers # <<>> /\ Last(handlers) = "client"
      /\ handlers' = Front(handlers)
      /\ ran' = Append(ran, Last(handlers))
      /\ UNCHANGED <<client, stack, status, registered, action, reports>>
  BY DEF ClientHandler, heap
<1>2. /\ Listed'
      /\ ran' # <<>> /\ Last(ran') = "client"
      /\ Times("grim_reaper", handlers') \in Nat /\ Times("grim_reaper", ran) \in Nat
      /\ Times("grim_reaper", ran') = Times("grim_reaper", ran) + 0
      /\ Times("grim_reaper", handlers) = Times("grim_reaper", handlers') + 0
  BY <1>1, Moved
<1>3. Installed' /\ Once'
  BY <1>1, <1>2 DEF Installed, Once
<1>4. Phase' /\ Last_word'
  BY <1>1, <1>2 DEF Phase, Last_word
<1> QED
  BY <1>2, <1>3, <1>4

LEMMA EndInvNext == EndInv /\ [Next]_vars => EndInv'
<1> SUFFICES ASSUME EndInv, [Next]_vars PROVE EndInv'
  OBVIOUS
<1> USE DEF heap, sinks, history, ending, reaper, Acts, Runs, Calling
<1>1. CASE \/ New \/ (\E append \in BOOLEAN : FileNew(append)) \/ TeeNew \/ Register
           \/ OnError \/ OrDie \/ OutputExit
  <2>1. /\ pc \in {"run", "handler"}
        /\ UNCHANGED <<client, pc, status, handlers, registered, action, ran, reports>>
    BY <1>1 DEF New, FileNew, TeeNew, Register, OnError, OrDie, OutputExit
  <2> QED
    BY <2>1, Unaffected
<1>2. CASE Destructor \/ Free \/ MessageToTee \/ MessageToLeaf \/ MethodExit \/ ExitMethod
  <2>1. /\ stack # <<>>
        /\ UNCHANGED <<client, pc, status, handlers, registered, action, ran, reports>>
    BY <1>2 DEF Destructor, Free, MessageToTee, MessageToLeaf, MethodExit, ExitMethod
  <2> QED
    BY <2>1, CalledInTime, Unaffected
<1>3. CASE Exit \/ ClientExit
  <2>1. /\ pc \in {"run", "handler"} /\ pc' = "exiting" /\ stack' = <<>>
        /\ UNCHANGED <<client, handlers, registered, action, ran, reports>>
    BY <1>3, CalledInTime DEF Exit, ClientExit, CallExit
  <2> QED
    BY <2>1, Exits
<1>4. CASE Atexit
  BY <1>4, AtexitStep
<1>5. CASE SetAction
  BY <1>5, SetActionStep
<1>6. CASE GrimReaper
  BY <1>6, GrimReaperStep
<1>7. CASE ClientHandler
  BY <1>7, ClientHandlerStep
<1>8. CASE HandlerReturns \/ FlushStream \/ Over \/ Done \/ UNCHANGED vars
  <2>1. /\ UNCHANGED <<client, stack, stderr_open, status, handlers, registered, action, ran, reports>>
        /\ \/ UNCHANGED pc
           \/ pc = "handler" /\ pc' = "exiting" /\ stack = <<>>
           \/ pc = "exiting" /\ pc' = "over" /\ handlers = <<>>
    BY <1>8 DEF HandlerReturns, FlushStream, Over, Done, vars
  <2> USE DEF EndInv
  <2>2. Listed' /\ Installed' /\ Once' /\ Last_word'
    BY <2>1 DEF Listed, Installed, Once, Last_word, Asked
  <2>3. Phase'
    BY <2>1 DEF Phase
  <2> QED
    BY <2>2, <2>3
<1> QED
  BY <1>1, <1>2, <1>3, <1>4, <1>5, <1>6, <1>7, <1>8 DEF Next, Client, Library, System

LEMMA EndInvAlways == Spec => []EndInv
BY EndInvInit, EndInvNext, PTL DEF Spec

LEMMA StatusIsReported == EndInv => StatusReported
<1> SUFFICES ASSUME EndInv PROVE StatusReported
  OBVIOUS
<1> USE DEF EndInv
<1>1. /\ Times("grim_reaper", handlers) \in Nat /\ Times("grim_reaper", ran) \in Nat
      /\ Times("grim_reaper", handlers) + Times("grim_reaper", ran) <= 1
  BY PlacesFinite DEF Listed, Installed
<1>2. Times("grim_reaper", handlers) + Len(reports) <= 1
  <2>1. CASE reports = <<>>
    BY <1>1, <2>1
  <2>2. CASE Times("grim_reaper", ran) = 1 /\ \E s : reports = <<s>>
    <3>1. Len(reports) = 1
      BY <2>2
    <3> QED
      BY <1>1, <2>2, <3>1
  <2> QED
    BY <2>1, <2>2 DEF Once
<1>3. ASSUME pc = "over", stderr_open, ran # <<>> => Last(ran) = "grim_reaper"
      PROVE  reports = IF Asked THEN <<status>> ELSE <<>>
  <2>1. CASE ran # <<>>
    BY <1>3, <2>1 DEF Last_word
  <2>2. CASE ran = <<>>
    <3>1. Times("grim_reaper", handlers) = 0 /\ Times("grim_reaper", ran) = 0
      BY <1>3, <2>2, NoneIn DEF Phase
    <3>2. ~registered /\ action = "never" /\ reports = <<>>
      BY <3>1 DEF Installed, Once
    <3> QED
      BY <3>2 DEF Asked
  <2> QED
    BY <2>1, <2>2
<1> QED
  BY <1>2, <1>3 DEF StatusReported, Times

(* "The exit status will never be printed more than once."                 *)
THEOREM StatusIsReportedAlways == Spec => []StatusReported
BY EndInvAlways, StatusIsReported, PTL

-----------------------------------------------------------------------------
(* What arrives.                                                           *)

Stream == [open : BOOLEAN, pending : Seq(1 .. said), pos : Nat]

OwnStream(op) == objects[op].vtable = "file" /\ objects[op].fp = op

\* Types, and what the constructors say of the streams and of the parts.
Streams ==
    /\ Len(objects) <= client.objects
    /\ files \in [DOMAIN files -> Stream]
    /\ \A op \in DOMAIN objects :
          /\ objects[op].fp \in {STATIC, op}
          /\ objects[op].vtable = "tee" => {objects[op].first, objects[op].second} \subseteq 0 .. op - 1
    /\ DOMAIN files = {op \in DOMAIN objects : OwnStream(op)}
    /\ disk \in Seq({HOLE, OLD} \cup 1 .. said)
    /\ terminal \cup log \cup heard \subseteq 1 .. said

\* The recursion of Leaves ends.
IsLeaves(leaves) ==
    leaves = [o \in 0 .. Len(objects) |->
                IF vtable(o) # "tee" THEN {o}
                ELSE leaves[objects[o].first] \cup leaves[objects[o].second]]

Grounded == \E leaves : IsLeaves(leaves)

Messages == {i \in DOMAIN stack : stack[i].method = "message"}

\* The calls of message are made before the others on the stack.
Spoken ==
    /\ (\E S : meant \in Seq(S)) /\ Len(meant) = said
    /\ \A i \in Messages : stack[i].arg \in 1 .. said
    /\ \A j \in Messages : 1 .. j \subseteq Messages

\* A stream of one owner: nothing is pending when it is freed, and it is
\* written behind what the file holds.
Kept ==
    \A fp \in DOMAIN files :
        /\ fp \in live \ freeing \/ files[fp].pending = <<>>
        /\ SharedFile \/ files[fp].pos = Len(disk)

\* A message has arrived, or it is still to be given to an object above.
Coming(text, op) == \E i \in Messages : stack[i].arg = text /\ op \in Leaves(stack[i].op)

Arrived(text, op) ==
    op \in DOMAIN objects \cup {STATIC} /\ vtable(op) # "tee" /\ Reached(text, op)

NoneLost ==
    \A text \in 1 .. said : \A op \in meant[text] : Coming(text, op) \/ Arrived(text, op)

SInv == Streams /\ Grounded /\ Spoken /\ Kept /\ NoneLost

\* A file has the message, or will have it.
InFile(text, op) ==
    \/ text \in Range(disk)
    \/ op \in live /\ pc # "over" /\ text \in Range(files[op].pending)

LEMMA ReachedIs ==
    ASSUME Typed, Streams, NEW text, NEW op \in DOMAIN objects \cup {STATIC}, vtable(op) # "tee"
    PROVE  Reached(text, op) <=>
               \/ vtable(op) = "syslog" /\ text \in log
               \/ vtable(op) = "custom" /\ text \in heard
               \/ to_stderr(op) /\ (text \in terminal \/ ~stderr_open)
               \/ op \in DOMAIN files /\ (SharedFile \/ InFile(text, op))
<1>1. op = STATIC => vtable(op) = "stderr" /\ op \notin DOMAIN files
  BY ObjectsAreNumbers DEF vtable, Streams
<1>2. ASSUME op # STATIC
      PROVE  /\ vtable(op) \in {"stderr", "syslog", "file", "custom"}
             /\ vtable(op) = objects[op].vtable
             /\ op \in DOMAIN files <=> vtable(op) = "file" /\ objects[op].fp = op
             /\ objects[op].fp \in {STATIC, op}
  <2>1. op \in DOMAIN objects /\ objects[op] \in Object
    BY <1>2, ObjectsAreNumbers
  <2> QED
    BY <1>2, <2>1 DEF vtable, Object, Streams, OwnStream
<1>3. CASE op = STATIC
  BY <1>1, <1>3 DEF Reached, to_stderr, StderrLost
<1>4. CASE op # STATIC
  BY <1>2, <1>4 DEF Reached, to_stderr, StderrLost, InFile
<1> QED
  BY <1>3, <1>4

\* Two files, or one that all its owners agree about.
LEMMA SharedOrOne ==
    ASSUME Typed, Streams
    PROVE  /\ IsFiniteSet(DOMAIN files)
           /\ \A a, b \in DOMAIN files : a = b \/ SharedFile
<1>1. DOMAIN files \subseteq 1 .. Len(objects) /\ Len(objects) \in Nat
  BY ObjectsAreNumbers DEF Streams
<1>2. IsFiniteSet(1 .. Len(objects))
  BY <1>1, FS_Interval
<1>3. IsFiniteSet(DOMAIN files)
  BY <1>1, <1>2, FS_Subset
<1>4. ASSUME NEW a \in DOMAIN files, NEW b \in DOMAIN files, a # b
      PROVE  SharedFile
  <2>1. Cardinality({a}) = 1 /\ IsFiniteSet({a})
    BY FS_Singleton
  <2>2. Cardinality({a} \cup {b}) = 2
    BY <1>4, <2>1, FS_AddElement
  <2>3. Cardinality({a} \cup {b}) <= Cardinality(DOMAIN files)
    BY <1>3, FS_Subset
  <2>4. Cardinality(DOMAIN files) \in Nat
    BY <1>3, FS_CardinalityType
  <2> QED
    BY <2>2, <2>3, <2>4 DEF SharedFile
<1> QED
  BY <1>3, <1>4

LEMMA StaysShared ==
    ASSUME NEW S, NEW T, IsFiniteSet(T), S \subseteq T, Cardinality(S) > 1
    PROVE  Cardinality(T) > 1
<1>1. IsFiniteSet(S) /\ Cardinality(S) <= Cardinality(T)
  BY FS_Subset
<1>2. Cardinality(S) \in Nat /\ Cardinality(T) \in Nat
  BY <1>1, FS_CardinalityType
<1> QED
  BY <1>1, <1>2

LEMMA LeavesAre ==
    ASSUME Typed, Streams, Grounded, NEW op \in 0 .. Len(objects)
    PROVE  /\ vtable(op) # "tee" => Leaves(op) = {op}
           /\ vtable(op) = "tee" =>
                  /\ op \in DOMAIN objects
                  /\ Leaves(op) = Leaves(objects[op].first) \cup Leaves(objects[op].second)
<1> DEFINE leaves == CHOOSE f : IsLeaves(f)
<1>1. \A o : Leaves(o) = leaves[o]
  BY DEF Leaves, IsLeaves
<1>2. IsLeaves(leaves)
  BY DEF Grounded
<1> HIDE DEF leaves
<1>3. leaves[op] = IF vtable(op) # "tee" THEN {op}
                   ELSE leaves[objects[op].first] \cup leaves[objects[op].second]
  BY <1>2 DEF IsLeaves
<1>4. vtable(op) = "tee" => op \in DOMAIN objects
  <2>1. op = STATIC \/ op \in 1 .. Len(objects)
    BY ObjectsAreNumbers DEF STATIC
  <2>2. DOMAIN objects = 1 .. Len(objects)
    BY ObjectsAreNumbers
  <2>3. op = STATIC => vtable(op) = "stderr"
    BY DEF vtable
  <2> QED
    BY <2>1, <2>2, <2>3
<1> QED
  BY <1>1, <1>3, <1>4

-----------------------------------------------------------------------------
(* The file. *)

LEMMA MaxOfTwo ==
    ASSUME NEW m \in Nat, NEW n \in Nat
    PROVE  /\ Max({m, n}) \in Nat /\ Max({m, n}) >= m /\ Max({m, n}) >= n
           /\ Max({m, n}) = IF m >= n THEN m ELSE n
<1>1. \E x \in {m, n} : \A y \in {m, n} : x >= y
  OBVIOUS
<1>2. Max({m, n}) \in {m, n} /\ \A y \in {m, n} : Max({m, n}) >= y
  BY <1>1 DEF Max
<1> QED
  BY <1>2

LEMMA RangeIs ==
    ASSUME NEW S, NEW s \in Seq(S), NEW e
    PROVE  e \in Range(s) <=> \E i \in 1 .. Len(s) : s[i] = e
BY LenProperties DEF Range

\* What is written, for any stream.
LEMMA WrittenTyped ==
    ASSUME NEW D, disk \in Seq(D), HOLE \in D,
           NEW STATE stream, stream.pos \in Nat, stream.pending \in Seq(D)
    PROVE  Written(stream) \in Seq(D)
<1> DEFINE past == stream.pos + Len(stream.pending)
<1> DEFINE n == Max({past, Len(disk)})
<1>1. Len(stream.pending) \in Nat /\ Len(disk) \in Nat /\ past \in Nat
  BY LenProperties
<1>2. n \in Nat
  BY <1>1, MaxOfTwo
<1> HIDE DEF n
<1>3. ASSUME NEW i \in 1 .. n
      PROVE  (IF i \in stream.pos + 1 .. past THEN stream.pending[i - stream.pos]
              ELSE IF i <= Len(disk) THEN disk[i] ELSE HOLE) \in D
  <2>1. CASE i \in stream.pos + 1 .. past
    <3>1. i - stream.pos \in 1 .. Len(stream.pending)
      BY <1>1, <2>1
    <3>2. stream.pending[i - stream.pos] \in D
      BY <3>1, ElementOfSeq
    <3> QED
      BY <2>1, <3>2
  <2>2. CASE i \notin stream.pos + 1 .. past /\ i <= Len(disk)
    <3>1. i \in 1 .. Len(disk)
      BY <1>1, <1>2, <2>2
    <3>2. disk[i] \in D
      BY <3>1, ElementOfSeq
    <3> QED
      BY <2>2, <3>2
  <2> QED
    BY <2>1, <2>2
<1>4. Written(stream) = [i \in 1 .. n |->
        IF i \in stream.pos + 1 .. past THEN stream.pending[i - stream.pos]
        ELSE IF i <= Len(disk) THEN disk[i] ELSE HOLE]
  BY DEF Written, n
<1>5. Written(stream) \in [1 .. n -> D]
  BY <1>3, <1>4
<1> QED
  BY <1>2, <1>5, SeqDef

\* What is written behind what the file holds overwrites nothing.
LEMMA WrittenBehind ==
    ASSUME NEW D, disk \in Seq(D), HOLE \in D,
           NEW STATE stream, stream.pos = Len(disk), stream.pending \in Seq(D)
    PROVE  /\ Len(Written(stream)) = stream.pos + Len(stream.pending)
           /\ Range(disk) \subseteq Range(Written(stream))
           /\ Range(stream.pending) \subseteq Range(Written(stream))
<1> DEFINE past == stream.pos + Len(stream.pending)
<1>1. Len(stream.pending) \in Nat /\ Len(disk) \in Nat /\ past \in Nat /\ stream.pos \in Nat
      /\ past >= Len(disk)
  BY LenProperties
<1>2. Max({past, Len(disk)}) = past
  BY <1>1, MaxOfTwo
<1>3. Written(stream) = [i \in 1 .. past |->
        IF i \in stream.pos + 1 .. past THEN stream.pending[i - stream.pos]
        ELSE IF i <= Len(disk) THEN disk[i] ELSE HOLE]
  BY <1>2 DEF Written
<1>4. Written(stream) \in Seq(D)
  BY <1>1, WrittenTyped
<1>5. Len(Written(stream)) = past
  <2>1. DOMAIN Written(stream) = 1 .. past /\ DOMAIN Written(stream) = 1 .. Len(Written(stream))
    BY <1>3, <1>4, LenProperties
  <2>2. Len(Written(stream)) \in Nat
    BY <1>4, LenProperties
  <2> HIDE DEF past
  <2> QED
    BY <1>1, <2>1, <2>2
<1>6. ASSUME NEW e \in Range(disk)
      PROVE  e \in Range(Written(stream))
  <2>1. PICK i \in 1 .. Len(disk) : disk[i] = e
    BY RangeIs
  <2>2. i \in 1 .. past /\ i \notin stream.pos + 1 .. past
    BY <1>1, <2>1
  <2>3. Written(stream)[i] = e
    BY <1>3, <2>1, <2>2
  <2> QED
    BY <1>4, <1>5, <2>2, <2>3, RangeIs
<1>7. ASSUME NEW e \in Range(stream.pending)
      PROVE  e \in Range(Written(stream))
  <2>1. PICK i \in 1 .. Len(stream.pending) : stream.pending[i] = e
    BY RangeIs
  <2>2. PICK k : k = i + stream.pos
    OBVIOUS
  <2>3. k \in 1 .. past /\ k \in stream.pos + 1 .. past /\ k - stream.pos = i
    BY <1>1, <2>1, <2>2
  <2>4. Written(stream)[k] = e
    BY <1>3, <2>1, <2>3
  <2> QED
    BY <1>4, <1>5, <2>3, <2>4, RangeIs
<1> QED
  BY <1>5, <1>6, <1>7

-----------------------------------------------------------------------------
(* What has arrived stays. *)

ReachedMeans ==
    \A text : \A op \in DOMAIN objects \cup {STATIC} :
        vtable(op) # "tee" =>
        (Reached(text, op) <=>
            \/ vtable(op) = "syslog" /\ text \in log
            \/ vtable(op) = "custom" /\ text \in heard
            \/ to_stderr(op) /\ (text \in terminal \/ ~stderr_open)
            \/ op \in DOMAIN files /\ (SharedFile \/ InFile(text, op)))

LEMMA ReachedAre == Typed /\ Streams => ReachedMeans
BY ReachedIs DEF ReachedMeans

LEMMA FilesFinite == Typed /\ Streams => IsFiniteSet(DOMAIN files)
BY SharedOrOne

LEMMA SharedStays ==
    ASSUME Typed', Streams', DOMAIN files \subseteq DOMAIN files', SharedFile
    PROVE  SharedFile'
<1>1. IsFiniteSet(DOMAIN files)'
  <2>1. (Typed /\ Streams => IsFiniteSet(DOMAIN files))'
    BY FilesFinite, PTL
  <2> QED
    BY <2>1
<1>2. PICK S, T : S = DOMAIN files /\ T = DOMAIN files'
  OBVIOUS
<1>3. IsFiniteSet(T) /\ S \subseteq T /\ Cardinality(S) > 1
  BY <1>1, <1>2 DEF SharedFile
<1>4. Cardinality(T) > 1
  BY <1>3, StaysShared
<1> QED
  BY <1>2, <1>4 DEF SharedFile

LEMMA ArrivedStays ==
    ASSUME Typed, Streams, Typed', Streams', NEW text, NEW op, Arrived(text, op),
           \A o \in DOMAIN objects : o \in DOMAIN objects' /\ objects'[o] = objects[o],
           terminal \subseteq terminal', log \subseteq log', heard \subseteq heard',
           stderr_open' => stderr_open,
           DOMAIN files \subseteq DOMAIN files',
           ~SharedFile' => \A o \in DOMAIN files : InFile(text, o) => InFile(text, o)'
    PROVE  Arrived(text, op)'
<1>1. /\ op \in DOMAIN objects \cup {STATIC} /\ op \in DOMAIN objects' \cup {STATIC}
      /\ vtable(op)' = vtable(op) /\ vtable(op) # "tee" /\ to_stderr(op)' = to_stderr(op)
  BY DEF Arrived, vtable, to_stderr
<1>2. \/ vtable(op) = "syslog" /\ text \in log
      \/ vtable(op) = "custom" /\ text \in heard
      \/ to_stderr(op) /\ (text \in terminal \/ ~stderr_open)
      \/ op \in DOMAIN files /\ (SharedFile \/ InFile(text, op))
  BY <1>1, ReachedAre DEF Arrived, ReachedMeans
<1>3. SharedFile => SharedFile'
  BY SharedStays
<1>4. (\/ vtable(op) = "syslog" /\ text \in log
       \/ vtable(op) = "custom" /\ text \in heard
       \/ to_stderr(op) /\ (text \in terminal \/ ~stderr_open)
       \/ op \in DOMAIN files /\ (SharedFile \/ InFile(text, op)))'
  BY <1>1, <1>2, <1>3
<1>5. ReachedMeans'
  <2>1. (Typed /\ Streams => ReachedMeans)'
    BY ReachedAre, PTL
  <2> QED
    BY <2>1
<1>6. Reached(text, op)'
  BY <1>1, <1>4, <1>5 DEF ReachedMeans
<1> QED
  BY <1>1, <1>6 DEF Arrived

-----------------------------------------------------------------------------
(* Steps that leave what has arrived, and the files, alone. *)

LEMMA NothingPending ==
    ASSUME NEW text, NEW stream, stream.pending = <<>>
    PROVE  text \notin Range(stream.pending)
<1>1. DOMAIN <<>> = {}
  OBVIOUS
<1> QED
  BY <1>1 DEF Range

LEMMA Quiet ==
    ASSUME HInv, HInv', SInv,
           UNCHANGED <<client, objects, files, stderr_open, disk, terminal, log, heard, said, meant>>,
           \A fp \in DOMAIN files : fp \in live' \ freeing' \/ files[fp].pending = <<>>,
           pc' = "over" /\ pc # "over" => \A fp \in DOMAIN files : files[fp].pending = <<>>,
           \A i \in Messages' : stack'[i].arg \in 1 .. said,
           \A j \in Messages' : 1 .. j \subseteq Messages',
           \A text, op : Coming(text, op) => Coming(text, op)'
    PROVE  SInv'
<1> USE DEF SInv
<1>1. Typed /\ Typed'
  BY DEF HInv
<1>2. Streams'
  BY DEF Streams, Stream, OwnStream
<1>3. Grounded'
  BY DEF Grounded, IsLeaves, vtable
<1>4. Spoken'
  BY DEF Spoken
<1>5. SharedFile' = SharedFile
  BY DEF SharedFile
<1>6. Kept'
  BY <1>5 DEF Kept
<1>7. ASSUME NEW text, NEW o \in DOMAIN files, InFile(text, o)
      PROVE  InFile(text, o)'
  <2>1. CASE text \in Range(disk)
    BY <2>1 DEF InFile
  <2>2. CASE o \in live /\ pc # "over" /\ text \in Range(files[o].pending)
    <3>1. files[o].pending # <<>>
      BY <2>2, NothingPending
    <3> QED
      BY <2>2, <3>1 DEF InFile
  <2> QED
    BY <1>7, <2>1, <2>2 DEF InFile
<1>8. ASSUME NEW text, NEW op, Arrived(text, op)
      PROVE  Arrived(text, op)'
  BY <1>1, <1>2, <1>7, <1>8, ArrivedStays
<1>9. NoneLost'
  BY <1>8 DEF NoneLost
<1> QED
  BY <1>2, <1>3, <1>4, <1>6, <1>9

\* Neither is a message on the stack.
LEMMA QuietSilent ==
    ASSUME HInv, HInv', SInv,
           UNCHANGED <<client, objects, files, stderr_open, disk, terminal, log, heard, said, meant>>,
           \A fp \in DOMAIN files : fp \in live' \ freeing' \/ files[fp].pending = <<>>,
           pc' = "over" /\ pc # "over" => \A fp \in DOMAIN files : files[fp].pending = <<>>,
           Messages = {}, Messages' = {}
    PROVE  SInv'
<1>1. \A text, op : ~Coming(text, op)
  BY DEF Coming
<1> QED
  BY <1>1, Quiet

LEMMA Silent ==
    ASSUME HInv, SInv,
           stack = <<>> \/ (\E m : m # "message" /\ Calling(m))
    PROVE  Messages = {}
<1>1. CASE stack = <<>>
  BY <1>1, NoCalls DEF Messages
<1>2. CASE \E m : m # "message" /\ Calling(m)
  <2>1. PICK m : m # "message" /\ Calling(m)
    BY <1>2
  <2>2. stack[1].method = m /\ DOMAIN stack = 1 .. Len(stack) /\ Len(stack) \in Nat
    BY <2>1, NextCallIs DEF HInv
  <2>3. \A j \in Messages : 1 \in 1 .. j
    BY <2>2 DEF Messages
  <2>4. 1 \notin Messages
    BY <2>1, <2>2 DEF Messages
  <2> QED
    BY <2>3, <2>4 DEF SInv, Spoken
<1> QED
  BY <1>1, <1>2

\* What is on the stack after calls have been put on it.
LEMMA AfterCalls ==
    ASSUME Typed, NEW m, Calling(m), NEW STATE calls, calls \in Seq(CallRec), Returns_to(calls)
    PROVE  /\ \A i \in DOMAIN stack' :
                 \/ i \in 1 .. Len(calls) /\ stack'[i] = calls[i]
                 \/ \E j \in DOMAIN stack : j # 1 /\ stack'[i] = stack[j]
           /\ freeing' \subseteq freeing \cup {calls[i].op : i \in {k \in 1 .. Len(calls) : calls[k].method = "free"}}
<1>1. PICK n : n = Len(calls)
  OBVIOUS
<1>2. n \in Nat /\ Len(stack) \in Nat
  BY <1>1, LenProperties DEF Typed
<1>3. /\ DOMAIN stack' = 1 .. n + Len(stack) - 1
      /\ \A i \in 1 .. n : stack'[i] = calls[i]
      /\ \A i \in n + 1 .. n + Len(stack) - 1 :
            /\ i - n + 1 \in DOMAIN stack
            /\ i - n + 1 # 1
            /\ stack'[i] = stack[i - n + 1]
  BY <1>1, ReturnsTo
<1>4. ASSUME NEW i \in DOMAIN stack'
      PROVE  \/ i \in 1 .. n /\ stack'[i] = calls[i]
             \/ \E j \in DOMAIN stack : j # 1 /\ stack'[i] = stack[j]
  <2>1. i \in 1 .. n \/ i \in n + 1 .. n + Len(stack) - 1
    BY <1>2, <1>3
  <2> QED
    BY <1>3, <2>1
<1>5. ASSUME NEW o \in freeing'
      PROVE  o \in freeing \/ \E k \in 1 .. Len(calls) : calls[k].method = "free" /\ calls[k].op = o
  <2>1. PICK i \in DOMAIN stack' : stack'[i].method = "free" /\ stack'[i].op = o
    BY DEF freeing
  <2> QED
    BY <1>1, <1>4, <2>1 DEF freeing
<1> QED
  BY <1>1, <1>4, <1>5

\* A call that is neither message nor destructor nor free makes calls.
LEMMA SilentCalls ==
    ASSUME HInv, HInv', SInv, NEW m \in {"method_exit", "exit_method", "exit"}, Calling(m),
           UNCHANGED <<client, objects, live, files, stderr_open, disk, terminal, log, heard,
                       said, meant>>,
           NEW STATE calls, calls \in Seq(CallRec), Returns_to(calls),
           \A i \in 1 .. Len(calls) : calls[i].method \notin {"free", "message"},
           pc' # "over"
    PROVE  SInv'
<1>1. Typed
  BY DEF HInv
<1>2. Messages = {}
  BY Silent
<1>3. Messages' = {} /\ freeing' \subseteq freeing
  <2>1. /\ \A i \in DOMAIN stack' :
                 \/ i \in 1 .. Len(calls) /\ stack'[i] = calls[i]
                 \/ \E j \in DOMAIN stack : j # 1 /\ stack'[i] = stack[j]
        /\ freeing' \subseteq freeing \cup {calls[i].op : i \in {k \in 1 .. Len(calls) : calls[k].method = "free"}}
    BY <1>1, AfterCalls
  <2> QED
    BY <1>2, <2>1 DEF Messages
<1>4. \A fp \in DOMAIN files : fp \in live' \ freeing' \/ files[fp].pending = <<>>
  BY <1>3 DEF SInv, Kept
<1> QED
  BY <1>2, <1>3, <1>4, QuietSilent

SinksSame ==
    UNCHANGED <<client, objects, files, stderr_open, disk, terminal, log, heard, said, meant>>

LEMMA MethodExitKeeps == HInv /\ HInv' /\ SInv /\ Phase /\ MethodExit => SInv'
<1> SUFFICES ASSUME HInv, HInv', SInv, Phase, MethodExit PROVE SInv'
  OBVIOUS
<1>1. PICK call : call = Next_call
  OBVIOUS
<1>2. /\ Calling("method_exit") /\ Returns_to(method_exit(call))
      /\ UNCHANGED <<client, objects, live, files, stderr_open, disk, terminal, log, heard,
                     said, meant>>
      /\ UNCHANGED pc
  BY <1>1 DEF MethodExit, heap, sinks, history, ending
<1>3. call \in CallRec
  BY <1>1, <1>2, NextCallIs DEF HInv
<1>4. PICK a, b : /\ a = [call EXCEPT !.method = "exit_method"]
                  /\ b = [call EXCEPT !.method = "exit"]
  OBVIOUS
<1>5. a \in CallRec /\ b \in CallRec /\ a.method = "exit_method" /\ b.method = "exit"
  BY <1>3, <1>4 DEF CallRec, Methods
<1>6. PICK calls : calls = <<a, b>>
  OBVIOUS
<1>7. calls \in Seq(CallRec) /\ Len(calls) = 2 /\ calls[1] = a /\ calls[2] = b
  BY <1>5, <1>6
<1>8. Returns_to(calls)
  BY <1>2, <1>4, <1>6 DEF method_exit
<1>9. \A i \in 1 .. Len(calls) : calls[i].method \notin {"free", "message"}
  BY <1>5, <1>7
<1>10. pc' # "over"
  BY <1>2 DEF Phase, Calling
<1> QED
  BY <1>2, <1>7, <1>8, <1>9, <1>10, SilentCalls

LEMMA ExitMethodKeeps == HInv /\ HInv' /\ SInv /\ Phase /\ ExitMethod => SInv'
<1> SUFFICES ASSUME HInv, HInv', SInv, Phase, ExitMethod PROVE SInv'
  OBVIOUS
<1>1. PICK call : call = Next_call
  OBVIOUS
<1>2. /\ Calling("exit_method")
      /\ UNCHANGED <<client, objects, live, files, stderr_open, disk, terminal, log, heard,
                     said, meant>>
      /\ UNCHANGED pc
  BY DEF ExitMethod, heap, sinks, history, ending
<1>3. pc' # "over"
  BY <1>2 DEF Phase, Calling
<1>4. CASE /\ vtable(call.op) = "tee"
           /\ Returns_to(<<[call EXCEPT !.op = objects[call.op].first],
                           [call EXCEPT !.op = objects[call.op].second]>>)
  <2>1. call \in CallRec /\ call.method = "exit_method"
    BY <1>1, <1>2, NextCallIs DEF HInv
  <2>2. PICK first, second : first = objects[call.op].first /\ second = objects[call.op].second
    OBVIOUS
  <2>3. first \in Nat /\ second \in Nat
    BY <1>1, <1>2, <1>4, <2>2, PartsAreLive
  <2>4. PICK a, b : a = [call EXCEPT !.op = first] /\ b = [call EXCEPT !.op = second]
    OBVIOUS
  <2>5. a \in CallRec /\ b \in CallRec /\ a.method = "exit_method" /\ b.method = "exit_method"
    BY <2>1, <2>3, <2>4 DEF CallRec
  <2>6. PICK calls : calls = <<a, b>>
    OBVIOUS
  <2>7. calls \in Seq(CallRec) /\ Len(calls) = 2 /\ calls[1] = a /\ calls[2] = b
    BY <2>5, <2>6
  <2>8. Returns_to(calls)
    BY <1>4, <2>2, <2>4, <2>6
  <2>9. \A i \in 1 .. Len(calls) : calls[i].method \notin {"free", "message"}
    BY <2>5, <2>7
  <2> QED
    BY <1>2, <1>3, <2>7, <2>8, <2>9, SilentCalls
<1>5. CASE Returns_to(<<>>)
  <2>1. <<>> \in Seq(CallRec) /\ \A i \in 1 .. Len(<<>>) : <<>>[i].method \notin {"free", "message"}
    OBVIOUS
  <2> QED
    BY <1>2, <1>3, <1>5, <2>1, SilentCalls
<1>6. CASE stack' = <<>>
  <2>1. Messages = {}
    BY <1>2, Silent
  <2>2. DOMAIN stack' = {}
    BY <1>6
  <2>3. Messages' = {} /\ freeing' = {}
    BY <2>2 DEF Messages, freeing
  <2>4. \A fp \in DOMAIN files : fp \in live' \ freeing' \/ files[fp].pending = <<>>
    BY <1>2, <2>3 DEF SInv, Kept
  <2> QED
    BY <1>2, <1>3, <2>1, <2>3, <2>4, QuietSilent
<1> QED
  BY <1>1, <1>4, <1>5, <1>6 DEF ExitMethod

\* Nothing was to be called; now nothing, or no message and no free, is.
LEMMA SilentStart ==
    ASSUME HInv, HInv', SInv, stack = <<>>, SinksSame, UNCHANGED live,
           \A i \in DOMAIN stack' : stack'[i].method \notin {"free", "message"},
           pc' = "over" /\ pc # "over" => \A fp \in DOMAIN files : files[fp].pending = <<>>
    PROVE  SInv'
<1>1. Messages = {}
  BY Silent
<1>2. Messages' = {} /\ freeing' = {}
  BY DEF Messages, freeing
<1>3. \A fp \in DOMAIN files : fp \in live' \ freeing' \/ files[fp].pending = <<>>
  BY <1>2 DEF SInv, Kept
<1> QED
  BY <1>1, <1>2, <1>3, QuietSilent DEF SinksSame

LEMMA ExitKeeps == HInv /\ HInv' /\ SInv /\ (Exit \/ ClientExit) => SInv'
<1> SUFFICES ASSUME HInv, HInv', SInv, Exit \/ ClientExit PROVE SInv'
  OBVIOUS
<1>1. /\ stack = <<>> \/ Calling("exit")
      /\ stack' = <<>> /\ pc' = "exiting" /\ SinksSame /\ UNCHANGED live
  BY DEF Exit, ClientExit, CallExit, Runs, heap, sinks, history, SinksSame
<1>2. Messages = {}
  BY <1>1, Silent
<1>3. DOMAIN stack' = {}
  BY <1>1
<1>4. Messages' = {} /\ freeing' = {}
  BY <1>3 DEF Messages, freeing
<1>5. \A fp \in DOMAIN files : fp \in live' \ freeing' \/ files[fp].pending = <<>>
  BY <1>1, <1>4 DEF SInv, Kept
<1> QED
  BY <1>1, <1>2, <1>4, <1>5, QuietSilent DEF SinksSame

LEMMA StartKeeps ==
    HInv /\ HInv' /\ SInv /\ (Register \/ OutputExit) => SInv'
<1> SUFFICES ASSUME HInv, HInv', SInv, Register \/ OutputExit PROVE SInv'
  OBVIOUS
<1>1. /\ stack = <<>> /\ pc \in {"run", "handler"} /\ UNCHANGED pc
      /\ SinksSame /\ UNCHANGED live
  BY DEF Register, OutputExit, Acts, Runs, sinks, history, ending, SinksSame
<1>2. \/ stack' = <<>>
      \/ \E m, op, arg : stack' = <<CallWith(m, op, arg)>> /\ m \in {"destructor", "method_exit"}
  BY <1>1 DEF Register, OutputExit, register, Call, CallWith
<1>3. \A i \in DOMAIN stack' : stack'[i].method \notin {"free", "message"}
  <2>1. CASE stack' = <<>>
    BY <2>1
  <2>2. CASE \E m, op, arg : stack' = <<CallWith(m, op, arg)>> /\ m \in {"destructor", "method_exit"}
    BY <2>2 DEF CallWith
  <2> QED
    BY <1>2, <2>1, <2>2
<1> QED
  BY <1>1, <1>3, SilentStart

LEMMA StillKeeps ==
    HInv /\ HInv' /\ SInv /\ Phase
    /\ (Atexit \/ SetAction \/ GrimReaper \/ ClientHandler \/ HandlerReturns \/ Over)
    => SInv'
<1> SUFFICES ASSUME HInv, HInv', SInv, Phase,
                    Atexit \/ SetAction \/ GrimReaper \/ ClientHandler \/ HandlerReturns \/ Over
             PROVE  SInv'
  OBVIOUS
<1>1. /\ stack = <<>> /\ stack' = <<>> /\ SinksSame /\ UNCHANGED live
      /\ pc' = "over" => \A fp \in DOMAIN files : files[fp].pending = <<>>
  <2> USE DEF heap, sinks, history, ending, SinksSame
  <2>1. CASE Atexit \/ SetAction
    BY <2>1 DEF Atexit, SetAction, Runs, Acts
  <2>2. CASE GrimReaper \/ ClientHandler
    BY <2>2 DEF GrimReaper, ClientHandler
  <2>3. CASE HandlerReturns
    BY <2>3 DEF HandlerReturns
  <2>4. CASE Over
    <3>1. stack = <<>>
      BY <2>4 DEF Over, Phase
    <3> QED
      BY <2>4, <3>1 DEF Over
  <2> QED
    BY <2>1, <2>2, <2>3, <2>4
<1>2. DOMAIN stack' = {}
  BY <1>1
<1> QED
  BY <1>1, <1>2, SilentStart

LEMMA SInvSame == HInv /\ HInv' /\ SInv /\ UNCHANGED vars => SInv'
<1> SUFFICES ASSUME HInv, HInv', SInv, UNCHANGED vars PROVE SInv'
  OBVIOUS
<1>1. SinksSame /\ UNCHANGED <<live, stack, pc>>
  BY DEF vars, heap, sinks, history, ending, SinksSame
<1>2. Messages' = Messages /\ freeing' = freeing
  BY <1>1 DEF Messages, freeing
<1>3. \A o : Leaves(o)' = Leaves(o)
  BY <1>1 DEF Leaves, vtable, SinksSame
<1>4. ASSUME NEW text, NEW op, Coming(text, op)
      PROVE  Coming(text, op)'
  BY <1>1, <1>2, <1>3, <1>4 DEF Coming
<1> QED
  BY <1>1, <1>2, <1>4, Quiet DEF SinksSame, SInv, Spoken, Kept

LEMMA FreeKeeps == HInv /\ HInv' /\ SInv /\ Phase /\ Free => SInv'
<1> SUFFICES ASSUME HInv, HInv', SInv, Phase, Free PROVE SInv'
  OBVIOUS
<1>1. PICK op : op = Next_call.op
  OBVIOUS
<1>2. /\ Calling("free") /\ live' = live \ {op} /\ Returns_to(<<>>) /\ SinksSame /\ UNCHANGED pc
  BY <1>1 DEF Free, sinks, history, ending, SinksSame
<1>3. Messages = {}
  BY <1>2, Silent
<1>4. <<>> \in Seq(CallRec) /\ 1 .. Len(<<>>) = {}
  OBVIOUS
<1>5. /\ \A i \in DOMAIN stack' : \E j \in DOMAIN stack : stack'[i] = stack[j]
      /\ freeing' \subseteq freeing
  <2>1. Typed
    BY DEF HInv
  <2>2. /\ \A i \in DOMAIN stack' :
                 \/ i \in 1 .. Len(<<>>) /\ stack'[i] = <<>>[i]
                 \/ \E j \in DOMAIN stack : j # 1 /\ stack'[i] = stack[j]
        /\ freeing' \subseteq freeing \cup {<<>>[i].op : i \in {k \in 1 .. Len(<<>>) : <<>>[k].method = "free"}}
    BY <1>2, <1>4, <2>1, AfterCalls
  <2> QED
    BY <1>4, <2>2
<1>6. Messages' = {}
  BY <1>3, <1>5 DEF Messages
<1>7. op \in freeing
  BY <1>1, <1>2, NextCallIs DEF HInv, freeing
<1>8. \A fp \in DOMAIN files : fp \in live' \ freeing' \/ files[fp].pending = <<>>
  BY <1>2, <1>5, <1>7 DEF SInv, Kept
<1>9. pc' # "over"
  BY <1>2 DEF Phase, Calling
<1> QED
  BY <1>2, <1>3, <1>6, <1>8, <1>9, QuietSilent DEF SinksSame

\* The tees: what was to come to the tee is to come to one of its parts.
LEMMA MessageToTeeKeeps == HInv /\ HInv' /\ SInv /\ Phase /\ MessageToTee => SInv'
<1> SUFFICES ASSUME HInv, HInv', SInv, Phase, MessageToTee PROVE SInv'
  OBVIOUS
<1> USE DEF SInv
<1>1. PICK call : call = Next_call
  OBVIOUS
<1>2. /\ Calling("message") /\ vtable(call.op) = "tee"
      /\ Returns_to(tee_message(call)) /\ SinksSame /\ UNCHANGED <<live, pc>>
  BY <1>1 DEF MessageToTee, heap, sinks, history, ending, SinksSame
<1>3. /\ call \in CallRec /\ call.method = "message" /\ stack[1] = call
      /\ 1 \in DOMAIN stack /\ DOMAIN stack = 1 .. Len(stack) /\ Len(stack) \in Nat
  BY <1>1, <1>2, NextCallIs DEF HInv
<1>4. PICK first, second : first = objects[call.op].first /\ second = objects[call.op].second
  OBVIOUS
<1>5. first \in Nat /\ second \in Nat
  BY <1>1, <1>2, <1>4, PartsAreLive
<1>6. PICK a, b : a = [call EXCEPT !.op = first] /\ b = [call EXCEPT !.op = second]
  OBVIOUS
<1>7. /\ a \in CallRec /\ b \in CallRec /\ a.method = "message" /\ b.method = "message"
      /\ a.arg = call.arg /\ b.arg = call.arg /\ a.op = first /\ b.op = second
  BY <1>3, <1>5, <1>6 DEF CallRec
<1>8. PICK calls : calls = <<a, b>>
  OBVIOUS
<1>9. calls \in Seq(CallRec) /\ Len(calls) = 2 /\ calls[1] = a /\ calls[2] = b
  BY <1>7, <1>8
<1>10. Returns_to(calls)
  BY <1>2, <1>4, <1>6, <1>8 DEF tee_message
<1>11. PICK n : n = Len(stack)
  OBVIOUS
<1>12. /\ DOMAIN stack' = 1 .. n + 1
       /\ stack'[1] = a /\ stack'[2] = b
       /\ \A i \in 3 .. n + 1 : i - 1 \in 2 .. n /\ stack'[i] = stack[i - 1]
       /\ \A j \in 2 .. n : j + 1 \in 3 .. n + 1 /\ stack'[j + 1] = stack[j]
  <2>1. Typed
    BY DEF HInv
  <2>2. /\ DOMAIN stack' = 1 .. 2 + n - 1
        /\ \A i \in 1 .. 2 : stack'[i] = calls[i]
        /\ \A i \in 2 + 1 .. 2 + n - 1 :
              /\ i - 2 + 1 \in DOMAIN stack
              /\ i - 2 + 1 # 1
              /\ stack'[i] = stack[i - 2 + 1]
        /\ \A j \in DOMAIN stack \ {1} :
              /\ j + 2 - 1 \in DOMAIN stack'
              /\ stack'[j + 2 - 1] = stack[j]
    <3>1. PICK k : k = Len(calls)
      OBVIOUS
    <3>2. /\ DOMAIN stack' = 1 .. k + n - 1
          /\ \A i \in 1 .. k : stack'[i] = calls[i]
          /\ \A i \in k + 1 .. k + n - 1 :
                /\ i - k + 1 \in DOMAIN stack
                /\ i - k + 1 # 1
                /\ stack'[i] = stack[i - k + 1]
          /\ \A j \in DOMAIN stack \ {1} :
                /\ j + k - 1 \in DOMAIN stack'
                /\ stack'[j + k - 1] = stack[j]
      BY <1>2, <1>9, <1>10, <1>11, <2>1, <3>1, ReturnsTo
    <3>3. k = 2
      BY <1>9, <3>1
    <3> QED
      BY <3>2, <3>3
  <2>3. n \in Nat
    BY <1>3, <1>11
  <2>4. 2 + n - 1 = n + 1 /\ 2 + 1 = 3
    BY <2>3
  <2>5. \A i \in 3 .. n + 1 : i - 1 \in 2 .. n /\ i - 2 + 1 = i - 1
    BY <2>3
  <2>6. \A j \in 2 .. n : j + 1 \in 3 .. n + 1 /\ j + 2 - 1 = j + 1 /\ j \in 1 .. n \ {1}
    BY <2>3
  <2>7. stack'[1] = a /\ stack'[2] = b
    BY <1>9, <2>2
  <2>8. \A i \in 3 .. n + 1 : stack'[i] = stack[i - 1]
    BY <2>2, <2>4, <2>5
  <2>9. \A j \in 2 .. n : stack'[j + 1] = stack[j]
    BY <1>3, <1>11, <2>2, <2>6
  <2> QED
    BY <2>2, <2>4, <2>5, <2>6, <2>7, <2>8, <2>9
<1>13. n \in Nat /\ n >= 1 /\ 1 \in Messages
  BY <1>3, <1>11 DEF Messages
<1>14. 1 \in Messages' /\ 2 \in Messages'
  BY <1>7, <1>12, <1>13 DEF Messages
<1>15. /\ \A i \in 3 .. n + 1 : i \in Messages' <=> i - 1 \in Messages
       /\ \A j \in Messages : j = 1 \/ j \in 2 .. n
       /\ \A i \in Messages' : i = 1 \/ i = 2 \/ i \in 3 .. n + 1
  BY <1>3, <1>11, <1>12, <1>13 DEF Messages
<1>16. \A i \in Messages' : stack'[i].arg \in 1 .. said
  BY <1>3, <1>7, <1>12, <1>13, <1>15 DEF Spoken
<1>17. \A j \in Messages' : 1 .. j \subseteq Messages'
  <2>1. ASSUME NEW j \in 3 .. n + 1, j \in Messages', NEW i \in 3 .. j
        PROVE  i \in Messages'
    <3>1. j - 1 \in Messages /\ i - 1 \in 1 .. j - 1 /\ i \in 3 .. n + 1
      BY <1>13, <1>15, <2>1
    <3> QED
      BY <1>15, <3>1 DEF Spoken
  <2>2. \A j \in Nat : \A i \in 1 .. j : i = 1 \/ i = 2 \/ i \in 3 .. j
    OBVIOUS
  <2>3. \A j \in Messages' : j \in Nat
    BY <1>13, <1>15
  <2>4. \A i \in 1 .. 2 : i = 1 \/ i = 2
    OBVIOUS
  <2>5. 1 .. 1 = {1}
    OBVIOUS
  <2> QED
    BY <1>14, <1>15, <2>1, <2>2, <2>3, <2>4, <2>5
<1>18. call.op \in live \cup {STATIC} /\ call.op \in 0 .. Len(objects)
  <2>1. call.op \in live \cup {STATIC}
    BY <1>3 DEF HInv, Alive, CallsAreLive
  <2> QED
    BY <2>1, ObjectsAreNumbers DEF HInv, Typed, STATIC
<1>19. \A o : Leaves(o)' = Leaves(o)
  BY <1>2 DEF Leaves, vtable, SinksSame
<1>20. Leaves(call.op) = Leaves(first) \cup Leaves(second)
  BY <1>2, <1>4, <1>18, LeavesAre DEF HInv
<1>21. ASSUME NEW text, NEW op, Coming(text, op)
       PROVE  Coming(text, op)'
  <2>1. PICK i \in Messages : stack[i].arg = text /\ op \in Leaves(stack[i].op)
    BY <1>21 DEF Coming
  <2>2. CASE i = 1
    <3>1. op \in Leaves(first) \/ op \in Leaves(second)
      BY <1>3, <1>20, <2>1, <2>2
    <3>2. text = call.arg
      BY <1>3, <2>1, <2>2
    <3> QED
      BY <1>7, <1>12, <1>14, <1>19, <3>1, <3>2 DEF Coming
  <2>3. CASE i \in 2 .. n
    <3>1. i + 1 \in 3 .. n + 1 /\ stack'[i + 1] = stack[i] /\ (i + 1) - 1 = i
      BY <1>12, <2>3
    <3>2. i + 1 \in Messages'
      BY <1>15, <2>1, <3>1
    <3> QED
      BY <1>19, <2>1, <3>1, <3>2 DEF Coming
  <2> QED
    BY <1>15, <2>1, <2>2, <2>3
<1>22. freeing = {} /\ freeing' = {}
  <2>1. Destroyers = {} /\ Destroyers' = {}
    <3>1. Destroyers = {}
      BY <1>2, NothingDestroyed
    <3>2. 1 \notin Destroyers' /\ 1 \in DOMAIN stack'
      BY <1>7, <1>12, <1>13 DEF Destroyers
    <3> QED
      BY <3>1, <3>2 DEF HInv, Sorted
  <2> QED
    BY <2>1 DEF freeing, Destroyers
<1>23. \A fp \in DOMAIN files : fp \in live' \ freeing' \/ files[fp].pending = <<>>
  BY <1>2, <1>22 DEF Kept
<1>24. pc' # "over"
  BY <1>2 DEF Phase, Calling
<1> QED
  BY <1>2, <1>16, <1>17, <1>21, <1>23, <1>24, Quiet DEF SinksSame

-----------------------------------------------------------------------------
(* Steps that write. *)

LEMMA Steady ==
    ASSUME HInv, HInv', SInv, Streams', Kept',
           UNCHANGED <<client, objects, said, meant>>,
           terminal \subseteq terminal', log \subseteq log', heard \subseteq heard',
           stderr_open' => stderr_open, DOMAIN files' = DOMAIN files,
           \A i \in Messages' : stack'[i].arg \in 1 .. said,
           \A j \in Messages' : 1 .. j \subseteq Messages',
           ~SharedFile => \A text : \A o \in DOMAIN files : InFile(text, o) => InFile(text, o)',
           \A text \in 1 .. said : \A op : Coming(text, op) => Coming(text, op)' \/ Arrived(text, op)'
    PROVE  SInv'
<1> USE DEF SInv
<1>1. Typed /\ Typed'
  BY DEF HInv
<1>2. Grounded'
  BY DEF Grounded, IsLeaves, vtable
<1>3. Spoken'
  BY DEF Spoken
<1>4. SharedFile' = SharedFile
  BY DEF SharedFile
<1>5. ASSUME NEW text, NEW op, Arrived(text, op)
      PROVE  Arrived(text, op)'
  BY <1>1, <1>4, <1>5, ArrivedStays
<1>6. NoneLost'
  BY <1>5 DEF NoneLost
<1> QED
  BY <1>2, <1>3, <1>6

Letters == {HOLE, OLD} \cup 1 .. said

LEMMA AppendedRange ==
    ASSUME NEW S, NEW s \in Seq(S), NEW e \in S
    PROVE  Range(s) \subseteq Range(Append(s, e)) /\ e \in Range(Append(s, e))
<1>1. /\ Append(s, e) \in Seq(S) /\ Len(Append(s, e)) = Len(s) + 1 /\ Len(s) \in Nat
      /\ \A i \in 1 .. Len(s) : Append(s, e)[i] = s[i]
      /\ Append(s, e)[Len(s) + 1] = e
  BY AppendProperties, LenProperties
<1>2. ASSUME NEW x \in Range(s) PROVE x \in Range(Append(s, e))
  <2>1. PICK i \in 1 .. Len(s) : s[i] = x
    BY RangeIs
  <2>2. i \in 1 .. Len(s) + 1
    BY <1>1, <2>1
  <2> QED
    BY <1>1, <2>1, <2>2, RangeIs
<1>3. Len(s) + 1 \in 1 .. Len(s) + 1
  BY <1>1
<1> QED
  BY <1>1, <1>2, <1>3, RangeIs

\* A stream is written out, whether or not something is added to it first.
LEMMA WrittenOut ==
    ASSUME Typed, Streams, Kept,
           NEW STATE fp, fp \in DOMAIN files,
           NEW STATE stream, stream \in Stream, stream.pos = files[fp].pos,
           Range(files[fp].pending) \subseteq Range(stream.pending),
           NEW STATE after, after \in Stream,
           after.pending = <<>>, after.pos = stream.pos + Len(stream.pending),
           disk' = Written(stream), files' = [files EXCEPT ![fp] = after],
           UNCHANGED <<client, objects, said, terminal, log, heard>>
    PROVE  /\ Streams'
           /\ DOMAIN files' = DOMAIN files
           /\ \A o \in DOMAIN files :
                 files'[o].pending = files[o].pending \/ files'[o].pending = <<>>
           /\ files'[fp].pending = <<>>
           /\ SharedFile
              \/ /\ \A o \in DOMAIN files : files'[o].pos = Len(disk')
                 /\ Range(disk) \subseteq Range(disk')
                 /\ Range(stream.pending) \subseteq Range(disk')
                 /\ \A text : \A o \in DOMAIN files : InFile(text, o) => text \in Range(disk')
<1>1. /\ disk \in Seq(Letters) /\ HOLE \in Letters
      /\ stream.pos \in Nat /\ stream.pending \in Seq(1 .. said)
      /\ 1 .. said \subseteq Letters
  BY DEF Streams, Stream, Letters
<1>2. stream.pending \in Seq(Letters)
  BY <1>1, SeqMonotonic
<1>3. disk' \in Seq(Letters)
  BY <1>1, <1>2, WrittenTyped
<1>4. /\ files' \in [DOMAIN files -> Stream] /\ DOMAIN files' = DOMAIN files
      /\ files'[fp] = after
      /\ \A o \in DOMAIN files : o # fp => files'[o] = files[o]
  BY DEF Streams
<1>5. Streams'
  <2>1. Letters' = Letters /\ Stream' = Stream
    BY DEF Letters, Stream
  <2>2. files' \in [DOMAIN files' -> Stream']
    BY <1>4, <2>1
  <2>3. disk' \in Seq({HOLE, OLD} \cup 1 .. said')
    BY <1>3, <2>1 DEF Letters
  <2> QED
    BY <1>4, <2>2, <2>3 DEF Streams, OwnStream
<1>6. ASSUME ~SharedFile
      PROVE  /\ \A o \in DOMAIN files : files'[o].pos = Len(disk')
             /\ Range(disk) \subseteq Range(disk')
             /\ Range(stream.pending) \subseteq Range(disk')
             /\ \A text : \A o \in DOMAIN files : InFile(text, o) => text \in Range(disk')
  <2>1. \A o \in DOMAIN files : o = fp
    BY <1>6, SharedOrOne
  <2>2. stream.pos = Len(disk)
    BY <1>6 DEF Kept
  <2>3. /\ Len(disk') = stream.pos + Len(stream.pending)
        /\ Range(disk) \subseteq Range(disk')
        /\ Range(stream.pending) \subseteq Range(disk')
    BY <1>1, <1>2, <2>2, WrittenBehind
  <2> QED
    BY <1>4, <2>1, <2>3 DEF InFile
<1> QED
  BY <1>4, <1>5, <1>6

LEMMA FlushedIs ==
    ASSUME NEW stream, stream \in Stream
    PROVE  /\ Flushed(stream) \in Stream
           /\ Flushed(stream).pending = <<>>
           /\ Flushed(stream).pos = stream.pos + Len(stream.pending)
           /\ [Flushed(stream) EXCEPT !.open = FALSE] \in Stream
           /\ [Flushed(stream) EXCEPT !.open = FALSE].pending = <<>>
           /\ [Flushed(stream) EXCEPT !.open = FALSE].pos = stream.pos + Len(stream.pending)
<1>1. stream.pending \in Seq(1 .. said) /\ stream.pos \in Nat /\ Len(stream.pending) \in Nat
  BY LenProperties DEF Stream
<1>2. stream.pos + Len(stream.pending) \in Nat /\ <<>> \in Seq(1 .. said)
  BY <1>1
<1> QED
  BY <1>2 DEF Flushed, Stream

LEMMA PendingOf ==
    ASSUME Streams, NEW fp \in DOMAIN files
    PROVE  files[fp] \in Stream /\ files[fp].pending \in Seq(1 .. said) /\ files[fp].pos \in Nat
BY DEF Streams, Stream

LEMMA FlushStreamKeeps == HInv /\ HInv' /\ SInv /\ Phase /\ FlushStream => SInv'
<1> SUFFICES ASSUME HInv, HInv', SInv, Phase, FlushStream PROVE SInv'
  OBVIOUS
<1>1. PICK fp \in DOMAIN files :
          disk' = Written(files[fp]) /\ files' = [files EXCEPT ![fp] = Flushed(files[fp])]
  BY DEF FlushStream
<1>2. PICK stream, after : stream = files[fp] /\ after = Flushed(files[fp])
  OBVIOUS
<1>3. /\ UNCHANGED <<client, objects, live, said, meant, stack, stderr_open, terminal, log, heard, pc>>
      /\ stack = <<>>
  BY DEF FlushStream, Phase, heap, history, ending
<1>4. Typed /\ Streams /\ Kept /\ stream \in Stream
  BY <1>2, PendingOf DEF HInv, SInv
<1>5. after \in Stream /\ after.pending = <<>> /\ after.pos = stream.pos + Len(stream.pending)
  BY <1>2, <1>4, FlushedIs
<1>6. /\ stream.pos = files[fp].pos /\ Range(files[fp].pending) \subseteq Range(stream.pending)
      /\ disk' = Written(stream) /\ files' = [files EXCEPT ![fp] = after]
  BY <1>1, <1>2
<1>7. /\ Streams'
      /\ DOMAIN files' = DOMAIN files
      /\ \A o \in DOMAIN files :
            files'[o].pending = files[o].pending \/ files'[o].pending = <<>>
      /\ SharedFile
         \/ /\ \A o \in DOMAIN files : files'[o].pos = Len(disk')
            /\ \A text : \A o \in DOMAIN files : InFile(text, o) => text \in Range(disk')
  BY <1>3, <1>4, <1>5, <1>6, WrittenOut
<1>8. SharedFile' = SharedFile
  BY <1>7 DEF SharedFile
<1>9. Messages = {} /\ Messages' = {} /\ freeing' = freeing
  BY <1>3, Silent DEF Messages, freeing
<1>10. Kept'
  BY <1>3, <1>4, <1>7, <1>8, <1>9 DEF Kept
<1>11. \A text, op : ~Coming(text, op)
  BY <1>9 DEF Coming
<1>12. ~SharedFile => \A text : \A o \in DOMAIN files : InFile(text, o) => InFile(text, o)'
  BY <1>7 DEF InFile
<1> QED
  BY <1>3, <1>7, <1>9, <1>10, <1>11, <1>12, Steady

-----------------------------------------------------------------------------
(* The destructor of a file writes what is pending, before the object is   *)
(* freed.                                                                  *)

\* After a destructor, only its own object is new among those to be freed.
LEMMA DestructorFrees ==
    ASSUME HInv, Destructor, NEW op, op = Next_call.op
    PROVE  /\ freeing' \subseteq freeing \cup ({op} \ {STATIC})
           /\ Messages = {} /\ Messages' = {}
<1>1. /\ Calling("destructor")
      /\ Destroyers = DOMAIN stack
      /\ op \in Nat
      /\ op = STATIC => Returns_to(<<>>)
      /\ op # STATIC /\ objects[op].vtable # "tee" => Returns_to(<<Call("free", op)>>)
      /\ op # STATIC /\ objects[op].vtable = "tee" =>
             Returns_to(<<Call("destructor", objects[op].first),
                          Call("destructor", objects[op].second), Call("free", op)>>)
      /\ op \in live \cup {STATIC}
  BY DestructorDoes
<1>2. Typed
  BY DEF HInv
<1>3. Messages = {}
  BY <1>1 DEF Messages, Destroyers
<1>4. PICK calls : /\ calls \in Seq(CallRec) /\ Returns_to(calls)
                   /\ \A i \in 1 .. Len(calls) :
                         /\ calls[i].method # "message"
                         /\ calls[i].method = "free" => op # STATIC /\ calls[i].op = op
  <2>1. CASE op = STATIC
    <3>1. <<>> \in Seq(CallRec) /\ 1 .. Len(<<>>) = {}
      OBVIOUS
    <3> QED
      BY <1>1, <2>1, <3>1
  <2>2. CASE op # STATIC /\ objects[op].vtable # "tee"
    <3>1. PICK a : a = Call("free", op)
      OBVIOUS
    <3>2. a \in CallRec /\ a.method = "free" /\ a.op = op
      BY <1>1, <3>1 DEF Call, CallRec, Methods
    <3>3. <<a>> \in Seq(CallRec) /\ Len(<<a>>) = 1 /\ <<a>>[1] = a
      BY <3>2
    <3>4. \A i \in 1 .. Len(<<a>>) : <<a>>[i] = a
      BY <3>3
    <3>5. Returns_to(<<a>>)
      BY <1>1, <2>2, <3>1
    <3> QED
      BY <2>2, <3>2, <3>3, <3>4, <3>5
  <2>3. CASE op # STATIC /\ objects[op].vtable = "tee"
    <3>1. PICK a, b, c : /\ a = Call("destructor", objects[op].first)
                         /\ b = Call("destructor", objects[op].second)
                         /\ c = Call("free", op)
      OBVIOUS
    <3>2. objects[op].first \in Nat /\ objects[op].second \in Nat
      BY <1>1, <1>2, <2>3, ObjectsAreNumbers DEF Typed, Object
    <3>3. /\ a \in CallRec /\ b \in CallRec /\ c \in CallRec
          /\ a.method = "destructor" /\ b.method = "destructor"
          /\ c.method = "free" /\ c.op = op
      BY <1>1, <3>1, <3>2 DEF Call, CallRec, Methods
    <3>4. PICK calls : calls = <<a, b, c>>
      OBVIOUS
    <3>5. /\ calls \in Seq(CallRec) /\ Len(calls) = 3
          /\ calls[1] = a /\ calls[2] = b /\ calls[3] = c
      BY <3>3, <3>4
    <3>6. \A i \in 1 .. Len(calls) : calls[i] = a \/ calls[i] = b \/ calls[i] = c
      BY <3>5
    <3>7. Returns_to(calls)
      BY <1>1, <2>3, <3>1, <3>4
    <3> QED
      BY <2>3, <3>3, <3>5, <3>6, <3>7
  <2> QED
    BY <2>1, <2>2, <2>3
<1>5. /\ \A i \in DOMAIN stack' :
               \/ i \in 1 .. Len(calls) /\ stack'[i] = calls[i]
               \/ \E j \in DOMAIN stack : j # 1 /\ stack'[i] = stack[j]
      /\ freeing' \subseteq freeing \cup {calls[i].op : i \in {k \in 1 .. Len(calls) : calls[k].method = "free"}}
  BY <1>1, <1>2, <1>4, AfterCalls
<1>6. Messages' = {}
  BY <1>3, <1>4, <1>5 DEF Messages
<1>7. {calls[i].op : i \in {k \in 1 .. Len(calls) : calls[k].method = "free"}} \subseteq {op} \ {STATIC}
  BY <1>4
<1> QED
  BY <1>3, <1>5, <1>6, <1>7

LEMMA DestructorKeeps == HInv /\ HInv' /\ SInv /\ Phase /\ Destructor => SInv'
<1> SUFFICES ASSUME HInv, HInv', SInv, Phase, Destructor PROVE SInv'
  OBVIOUS
<1>1. PICK op : op = Next_call.op
  OBVIOUS
<1>2. /\ UNCHANGED <<client, objects, live, said, meant, terminal, log, heard, pc>>
      /\ Calling("destructor")
      /\ IF vtable(op) = "file" THEN file_destructor(op) ELSE UNCHANGED <<files, disk, stderr_open>>
  BY <1>1 DEF Destructor, heap, history, ending
<1>3. /\ freeing' \subseteq freeing \cup ({op} \ {STATIC})
      /\ Messages = {} /\ Messages' = {}
  BY <1>1, DestructorFrees
<1>4. op \in live \cup {STATIC}
  BY <1>1, DestructorDoes
<1>5. Typed /\ Streams /\ Kept
  BY DEF HInv, SInv
<1>6. pc' # "over"
  BY <1>2 DEF Phase, Calling
<1>7. op \in DOMAIN files <=> vtable(op) = "file" /\ objects[op].fp # STATIC
  <2>1. op = STATIC => vtable(op) = "stderr" /\ op \notin DOMAIN files
    BY <1>5, ObjectsAreNumbers DEF vtable, Streams
  <2>2. ASSUME op # STATIC PROVE op \in DOMAIN objects /\ vtable(op) = objects[op].vtable
    BY <1>4, <1>5, <2>2 DEF Typed, vtable
  <2> QED
    BY <1>5, <2>1, <2>2 DEF Streams, OwnStream
<1>8. CASE op \notin DOMAIN files
  <2>1. UNCHANGED <<files, disk>> /\ (stderr_open' => stderr_open)
    BY <1>2, <1>7, <1>8 DEF file_destructor
  <2>2. Streams'
    BY <1>2, <1>5, <2>1 DEF Streams, Stream, OwnStream
  <2>3. SharedFile' = SharedFile
    BY <2>1 DEF SharedFile
  <2>4. Kept'
    BY <1>2, <1>3, <1>5, <1>8, <2>1, <2>3 DEF Kept
  <2>5. \A text : \A o \in DOMAIN files : InFile(text, o) => InFile(text, o)'
    BY <1>2, <2>1 DEF InFile
  <2>6. \A text, o : ~Coming(text, o)
    BY <1>3 DEF Coming
  <2> QED
    BY <1>2, <1>3, <2>1, <2>2, <2>4, <2>5, <2>6, Steady
<1>9. CASE op \in DOMAIN files
  <2>1. objects[op].fp = op /\ vtable(op) = "file" /\ op # STATIC
    BY <1>5, <1>7, <1>9, ObjectsAreNumbers DEF Streams, OwnStream
  <2>2. PICK stream, after : /\ stream = files[op]
                             /\ after = [Flushed(stream) EXCEPT !.open = FALSE]
    OBVIOUS
  <2>3. stream \in Stream
    BY <1>5, <1>9, <2>2, PendingOf
  <2>4. after \in Stream /\ after.pending = <<>> /\ after.pos = stream.pos + Len(stream.pending)
    BY <2>2, <2>3, FlushedIs
  <2>5. /\ disk' = Written(stream) /\ files' = [files EXCEPT ![op] = after]
        /\ UNCHANGED stderr_open
    BY <1>2, <2>1, <2>2 DEF file_destructor
  <2>6. stream.pos = files[op].pos /\ Range(files[op].pending) \subseteq Range(stream.pending)
    BY <2>2
  <2>7. /\ Streams'
        /\ DOMAIN files' = DOMAIN files
        /\ \A o \in DOMAIN files :
              files'[o].pending = files[o].pending \/ files'[o].pending = <<>>
        /\ files'[op].pending = <<>>
        /\ SharedFile
           \/ /\ \A o \in DOMAIN files : files'[o].pos = Len(disk')
              /\ \A text : \A o \in DOMAIN files : InFile(text, o) => text \in Range(disk')
    BY <1>2, <1>5, <1>9, <2>3, <2>4, <2>5, <2>6, WrittenOut
  <2>8. SharedFile' = SharedFile
    BY <2>7 DEF SharedFile
  <2>9. Kept'
    BY <1>2, <1>3, <1>5, <2>7, <2>8 DEF Kept
  <2>10. \A text, o : ~Coming(text, o)
    BY <1>3 DEF Coming
  <2>11. ~SharedFile => \A text : \A o \in DOMAIN files : InFile(text, o) => InFile(text, o)'
    BY <2>7 DEF InFile
  <2> QED
    BY <1>2, <1>3, <2>5, <2>7, <2>9, <2>10, <2>11, Steady
<1> QED
  BY <1>8, <1>9

-----------------------------------------------------------------------------
(* A message arrives. *)

LEMMA MessageTaken ==
    ASSUME HInv, HInv', SInv, Calling("message"), Returns_to(<<>>), UNCHANGED objects,
           NEW call, call = Next_call
    PROVE  /\ \A i \in Messages' : stack'[i].arg \in 1 .. said
           /\ \A j \in Messages' : 1 .. j \subseteq Messages'
           /\ freeing = {} /\ freeing' = {}
           /\ call.op \in live \cup {STATIC} /\ call.op \in 0 .. Len(objects)
           /\ call.arg \in 1 .. said
           /\ \A t, o : Coming(t, o) =>
                 Coming(t, o)' \/ (t = call.arg /\ o \in Leaves(call.op))
<1> USE DEF SInv
<1>1. Typed
  BY DEF HInv
<1>2. /\ stack[1] = call /\ call.method = "message" /\ 1 \in DOMAIN stack
      /\ DOMAIN stack = 1 .. Len(stack) /\ Len(stack) \in Nat
  BY <1>1, NextCallIs
<1>3. /\ stack' \in Seq(CallRec)
      /\ \A i \in DOMAIN stack' :
            i + 1 \in DOMAIN stack /\ i + 1 # 1 /\ stack'[i] = stack[i + 1]
      /\ \A j \in DOMAIN stack \ {1} : j - 1 \in DOMAIN stack' /\ stack'[j - 1] = stack[j]
  BY <1>1, PoppedStack
<1>4. DOMAIN stack' = 1 .. Len(stack') /\ Len(stack') \in Nat
  BY <1>3, LenProperties
<1>5. \A i \in DOMAIN stack' : i \in Messages' <=> i + 1 \in Messages
  BY <1>3 DEF Messages
<1>6. 1 \in Messages
  BY <1>2 DEF Messages
<1>7. \A i \in Messages' : stack'[i].arg \in 1 .. said
  BY <1>3, <1>5 DEF Spoken, Messages
<1>8. ASSUME NEW j \in Messages', NEW i \in 1 .. j
      PROVE  i \in Messages'
  <2>1. j \in DOMAIN stack' /\ j + 1 \in Messages
    BY <1>5 DEF Messages
  <2>2. i \in DOMAIN stack' /\ i + 1 \in 1 .. j + 1
    BY <1>4, <2>1
  <2> QED
    BY <1>5, <2>1, <2>2 DEF Spoken
<1>9. Destroyers = {}
  BY NothingDestroyed
<1>10. Destroyers' = {}
  BY <1>3, <1>9 DEF Destroyers
<1>11. freeing = {} /\ freeing' = {}
  BY <1>9, <1>10 DEF freeing, Destroyers
<1>12. call.op \in live \cup {STATIC} /\ call.arg \in 1 .. said
  BY <1>2, <1>6 DEF HInv, Alive, CallsAreLive, Spoken
<1>13. call.op \in 0 .. Len(objects)
  BY <1>1, <1>12, ObjectsAreNumbers DEF Typed, STATIC
<1>14. \A o : Leaves(o)' = Leaves(o)
  BY DEF Leaves, vtable
<1>15. ASSUME NEW t, NEW o, Coming(t, o)
       PROVE  Coming(t, o)' \/ (t = call.arg /\ o \in Leaves(call.op))
  <2>1. PICK i \in Messages : stack[i].arg = t /\ o \in Leaves(stack[i].op)
    BY <1>15 DEF Coming
  <2>2. CASE i = 1
    BY <1>2, <2>1, <2>2
  <2>3. CASE i # 1
    <3>1. i \in DOMAIN stack \ {1}
      BY <2>1, <2>3 DEF Messages
    <3>2. i - 1 \in DOMAIN stack' /\ stack'[i - 1] = stack[i] /\ (i - 1) + 1 = i
      BY <1>2, <1>3, <3>1
    <3>3. i - 1 \in Messages'
      BY <1>5, <2>1, <3>2
    <3> QED
      BY <1>14, <2>1, <3>2, <3>3 DEF Coming
  <2> QED
    BY <2>2, <2>3
<1> QED
  BY <1>7, <1>8, <1>11, <1>12, <1>13, <1>15

\* What is printed to a stream is kept by it, or written.
LEMMA Buffered ==
    ASSUME HInv, HInv', SInv, NEW fp \in DOMAIN files, NEW text \in 1 .. said, Buffer(fp, text),
           UNCHANGED <<client, objects, live, said, terminal, log, heard, pc>>,
           freeing = {}, freeing' = {}, fp \in live, pc # "over"
    PROVE  /\ Streams' /\ Kept' /\ DOMAIN files' = DOMAIN files
           /\ ~SharedFile =>
                 /\ \A t : \A o \in DOMAIN files : InFile(t, o) => InFile(t, o)'
                 /\ InFile(text, fp)'
<1> USE DEF SInv
<1>1. Typed /\ Streams /\ Kept
  BY DEF HInv
<1>2. PICK old, stream : old = files[fp] /\ stream = [old EXCEPT !.pending = Append(old.pending, text)]
  OBVIOUS
<1>3. old \in Stream /\ old.pending \in Seq(1 .. said)
  BY <1>1, <1>2, PendingOf
<1>4. /\ Append(old.pending, text) \in Seq(1 .. said)
      /\ Range(old.pending) \subseteq Range(Append(old.pending, text))
      /\ text \in Range(Append(old.pending, text))
  BY <1>3, AppendProperties, AppendedRange
<1>5. stream \in Stream /\ stream.pos = old.pos /\ stream.pending = Append(old.pending, text)
  BY <1>2, <1>3, <1>4 DEF Stream
<1>6. \/ files' = [files EXCEPT ![fp] = stream] /\ UNCHANGED disk
      \/ files' = [files EXCEPT ![fp] = Flushed(stream)] /\ disk' = Written(stream)
  BY <1>2 DEF Buffer
<1>7. CASE files' = [files EXCEPT ![fp] = stream] /\ UNCHANGED disk
  <2>1. /\ files' \in [DOMAIN files -> Stream] /\ DOMAIN files' = DOMAIN files
        /\ files'[fp] = stream /\ \A o \in DOMAIN files : o # fp => files'[o] = files[o]
    BY <1>1, <1>5, <1>7 DEF Streams
  <2>2. Streams'
    <3>1. Stream' = Stream
      BY DEF Stream
    <3>2. files' \in [DOMAIN files' -> Stream']
      BY <2>1, <3>1
    <3> QED
      BY <1>1, <1>7, <2>1, <3>2 DEF Streams, OwnStream
  <2>3. SharedFile' = SharedFile
    BY <2>1 DEF SharedFile
  <2>4. Kept'
    BY <1>1, <1>2, <1>5, <1>7, <2>1, <2>3 DEF Kept
  <2>5. \A t : \A o \in DOMAIN files : InFile(t, o) => InFile(t, o)'
    <3>1. \A o \in DOMAIN files : Range(files[o].pending) \subseteq Range(files'[o].pending)
      BY <1>2, <1>4, <1>5, <2>1
    <3> QED
      BY <1>7, <3>1 DEF InFile
  <2>6. InFile(text, fp)'
    BY <1>4, <1>5, <2>1 DEF InFile
  <2> QED
    BY <2>1, <2>2, <2>4, <2>5, <2>6
<1>8. CASE files' = [files EXCEPT ![fp] = Flushed(stream)] /\ disk' = Written(stream)
  <2>1. PICK after : after = Flushed(stream)
    OBVIOUS
  <2>2. after \in Stream /\ after.pending = <<>> /\ after.pos = stream.pos + Len(stream.pending)
    BY <1>5, <2>1, FlushedIs
  <2>3. /\ stream.pos = files[fp].pos /\ Range(files[fp].pending) \subseteq Range(stream.pending)
        /\ files' = [files EXCEPT ![fp] = after]
    BY <1>2, <1>4, <1>5, <1>8, <2>1
  <2>4. /\ Streams'
        /\ DOMAIN files' = DOMAIN files
        /\ \A o \in DOMAIN files :
              files'[o].pending = files[o].pending \/ files'[o].pending = <<>>
        /\ files'[fp].pending = <<>>
        /\ SharedFile
           \/ /\ \A o \in DOMAIN files : files'[o].pos = Len(disk')
              /\ Range(disk) \subseteq Range(disk')
              /\ Range(stream.pending) \subseteq Range(disk')
              /\ \A t : \A o \in DOMAIN files : InFile(t, o) => t \in Range(disk')
    <3>1. fp \in DOMAIN files /\ UNCHANGED <<client, objects, said, terminal, log, heard>>
      OBVIOUS
    <3>2. disk' = Written(stream)
      BY <1>8
    <3> QED
      BY <1>1, <1>5, <2>2, <2>3, <3>1, <3>2, WrittenOut
  <2>5. SharedFile' = SharedFile
    BY <2>4 DEF SharedFile
  <2>6. Kept'
    BY <1>1, <2>4, <2>5 DEF Kept
  <2>7. ~SharedFile => /\ \A t : \A o \in DOMAIN files : InFile(t, o) => InFile(t, o)'
                       /\ InFile(text, fp)'
    BY <1>4, <1>5, <2>4 DEF InFile
  <2> QED
    BY <2>4, <2>6, <2>7
<1> QED
  BY <1>6, <1>7, <1>8

LEMMA MessageToLeafKeeps == HInv /\ HInv' /\ SInv /\ Phase /\ MessageToLeaf => SInv'
<1> SUFFICES ASSUME HInv, HInv', SInv, Phase, MessageToLeaf PROVE SInv'
  OBVIOUS
<1>1. PICK call, op, text : call = Next_call /\ op = call.op /\ text = call.arg
  OBVIOUS
<1>2. /\ UNCHANGED <<client, objects, live, said, meant, stderr_open, pc>>
      /\ Calling("message") /\ Returns_to(<<>>)
      /\ \/ /\ to_stderr(op) /\ Show(text)
            /\ UNCHANGED <<files, disk, log, heard>>
         \/ /\ vtable(op) = "file" /\ ~to_stderr(op)
            /\ Buffer(objects[op].fp, text)
            /\ UNCHANGED <<terminal, log, heard>>
         \/ /\ vtable(op) = "syslog"
            /\ log' = log \cup {text}
            /\ UNCHANGED <<files, disk, terminal, heard>>
         \/ /\ vtable(op) = "custom"
            /\ heard' = heard \cup {text}
            /\ UNCHANGED <<files, disk, terminal, log>>
  BY <1>1 DEF MessageToLeaf, heap, history, ending
<1>3. /\ \A i \in Messages' : stack'[i].arg \in 1 .. said
      /\ \A j \in Messages' : 1 .. j \subseteq Messages'
      /\ freeing = {} /\ freeing' = {}
      /\ op \in live \cup {STATIC} /\ op \in 0 .. Len(objects)
      /\ text \in 1 .. said
      /\ \A t, o : Coming(t, o) => Coming(t, o)' \/ (t = text /\ o \in Leaves(op))
  BY <1>1, <1>2, MessageTaken
<1>4. Typed /\ Streams /\ Kept /\ Grounded /\ Typed'
  BY DEF HInv, SInv
<1>5. vtable(op) # "tee" /\ pc # "over"
  BY <1>2 DEF to_stderr, Phase, Calling
<1>6. Leaves(op) = {op}
  BY <1>3, <1>4, <1>5, LeavesAre
<1>7. op \in DOMAIN objects \cup {STATIC}
  BY <1>3, <1>4 DEF Typed
<1>8. vtable(op)' = vtable(op) /\ to_stderr(op)' = to_stderr(op)
  BY <1>2 DEF vtable, to_stderr
<1>9. ASSUME Streams',
             (\/ vtable(op) = "syslog" /\ text \in log
              \/ vtable(op) = "custom" /\ text \in heard
              \/ to_stderr(op) /\ (text \in terminal \/ ~stderr_open)
              \/ op \in DOMAIN files /\ (SharedFile \/ InFile(text, op)))'
      PROVE  Arrived(text, op)'
  <2>1. (Typed /\ Streams => ReachedMeans)'
    BY ReachedAre, PTL
  <2>2. ReachedMeans'
    BY <1>4, <1>9, <2>1
  <2>3. op \in DOMAIN objects' \cup {STATIC}
    BY <1>2, <1>7
  <2> QED
    BY <1>5, <1>8, <1>9, <2>2, <2>3 DEF ReachedMeans, Arrived
<1>10. ASSUME Arrived(text, op)'
       PROVE  \A t \in 1 .. said : \A o : Coming(t, o) => Coming(t, o)' \/ Arrived(t, o)'
  BY <1>3, <1>6, <1>10
<1>11. CASE \/ to_stderr(op) /\ Show(text) /\ UNCHANGED <<files, disk, log, heard>>
            \/ /\ vtable(op) = "syslog" /\ log' = log \cup {text}
               /\ UNCHANGED <<files, disk, terminal, heard>>
            \/ /\ vtable(op) = "custom" /\ heard' = heard \cup {text}
               /\ UNCHANGED <<files, disk, terminal, log>>
  <2>1. /\ terminal \subseteq terminal' /\ log \subseteq log' /\ heard \subseteq heard'
        /\ terminal' \cup log' \cup heard' \subseteq 1 .. said
        /\ UNCHANGED <<files, disk>>
    BY <1>3, <1>4, <1>11 DEF Show, Streams
  <2>2. (\/ vtable(op) = "syslog" /\ text \in log
         \/ vtable(op) = "custom" /\ text \in heard
         \/ to_stderr(op) /\ (text \in terminal \/ ~stderr_open)
         \/ op \in DOMAIN files /\ (SharedFile \/ InFile(text, op)))'
    BY <1>2, <1>8, <1>11 DEF Show
  <2>3. Streams'
    BY <1>2, <1>4, <2>1 DEF Streams, Stream, OwnStream
  <2>4. SharedFile' = SharedFile
    BY <2>1 DEF SharedFile
  <2>5. Kept'
    BY <1>2, <1>3, <1>4, <2>1, <2>4 DEF Kept
  <2>6. \A t : \A o \in DOMAIN files : InFile(t, o) => InFile(t, o)'
    BY <1>2, <2>1 DEF InFile
  <2>7. Arrived(text, op)'
    BY <1>9, <2>2, <2>3
  <2>8. \A t \in 1 .. said : \A o : Coming(t, o) => Coming(t, o)' \/ Arrived(t, o)'
    BY <1>10, <2>7
  <2> QED
    BY <1>2, <1>3, <2>1, <2>3, <2>5, <2>6, <2>8, Steady
<1>12. CASE /\ vtable(op) = "file" /\ ~to_stderr(op) /\ Buffer(objects[op].fp, text)
            /\ UNCHANGED <<terminal, log, heard>>
  <2>1. op # STATIC /\ vtable(op) = objects[op].vtable /\ objects[op].fp # STATIC
    BY <1>12 DEF to_stderr, vtable
  <2>2. op \in DOMAIN files /\ objects[op].fp = op /\ op \in live
    BY <1>3, <1>4, <1>7, <1>12, <2>1 DEF Streams, OwnStream
  <2>3. Buffer(op, text)
    BY <1>12, <2>2
  <2>4. /\ Streams' /\ Kept' /\ DOMAIN files' = DOMAIN files
        /\ ~SharedFile =>
              /\ \A t : \A o \in DOMAIN files : InFile(t, o) => InFile(t, o)'
              /\ InFile(text, op)'
    BY <1>2, <1>3, <1>5, <1>12, <2>2, <2>3, Buffered
  <2>5. SharedFile' = SharedFile
    BY <2>4 DEF SharedFile
  <2>6. Arrived(text, op)'
    BY <1>9, <2>2, <2>4, <2>5
  <2>7. \A t \in 1 .. said : \A o : Coming(t, o) => Coming(t, o)' \/ Arrived(t, o)'
    BY <1>10, <2>6
  <2> QED
    BY <1>2, <1>3, <1>12, <2>4, <2>7, Steady
<1> QED
  BY <1>2, <1>11, <1>12

-----------------------------------------------------------------------------
(* A message is printed: it is to come to every leaf of the registered     *)
(* tree.                                                                   *)

LEMMA StreamsMeanwhile ==
    ASSUME Typed, Streams, said' = said + 1,
           UNCHANGED <<client, objects, files, disk, terminal, log, heard>>
    PROVE  Streams'
<1>1. said \in Nat
  BY DEF Typed
<1>2. 1 .. said \subseteq 1 .. said'
  BY <1>1
<1>3. \A s \in Seq(1 .. said) : s \in Seq(1 .. said')
  BY <1>2, SeqMonotonic
<1>4. Stream \subseteq Stream'
  BY <1>3 DEF Stream
<1>5. files' \in [DOMAIN files' -> Stream']
  BY <1>4 DEF Streams
<1>6. disk' \in Seq({HOLE, OLD} \cup 1 .. said')
  <2>1. disk \in Seq({HOLE, OLD} \cup 1 .. said)
    BY DEF Streams
  <2>2. {HOLE, OLD} \cup 1 .. said \subseteq {HOLE, OLD} \cup 1 .. said'
    BY <1>2
  <2> QED
    BY <2>1, <2>2, SeqMonotonic
<1>7. terminal' \cup log' \cup heard' \subseteq 1 .. said'
  BY <1>2 DEF Streams
<1> QED
  BY <1>5, <1>6, <1>7 DEF Streams, OwnStream

LEMMA SayKeeps == HInv /\ HInv' /\ SInv /\ (OnError \/ OrDie) => SInv'
<1> SUFFICES ASSUME HInv, HInv', SInv, OnError \/ OrDie PROVE SInv'
  OBVIOUS
<1> USE DEF SInv
<1>1. /\ UNCHANGED <<client, objects, live, files, stderr_open, disk, terminal, log, heard, pc>>
      /\ stack = <<>>
      /\ \/ Say(<<>>)
         \/ Say(<<CallWith("method_exit", registered_output, EXIT_FAILURE)>>)
  BY DEF OnError, OrDie, Acts, sinks, ending
<1>2. PICK op : op = where'
  OBVIOUS
<1>3. /\ said' = said + 1 /\ said \in Nat
      /\ op = registered_output
      /\ meant' = Append(meant, Leaves(op))
  BY <1>1, <1>2 DEF Say, HInv, Typed
<1>4. PICK a, b : /\ a = CallWith("message", op, said')
                  /\ b = CallWith("method_exit", op, EXIT_FAILURE)
  OBVIOUS
<1>5. op \in Nat
  BY <1>3, RegisteredOutputIs
<1>6. /\ a \in CallRec /\ b \in CallRec /\ a.method = "message" /\ b.method = "method_exit"
      /\ a.op = op /\ a.arg = said'
  BY <1>3, <1>4, <1>5 DEF CallWith, CallRec, Methods, EXIT_FAILURE
<1>7. stack' = <<a>> \/ stack' = <<a, b>>
  <2>1. <<a>> \o <<>> = <<a>>
    BY <1>6
  <2>2. <<a>> \o <<b>> = <<a, b>>
    BY <1>6, TwoCallsJoined
  <2>3. stack' = <<a>> \o <<>> \/ stack' = <<a>> \o <<b>>
    BY <1>1, <1>2, <1>3, <1>4 DEF Say
  <2> QED
    BY <2>1, <2>2, <2>3
<1>8. stack'[1] = a /\ 1 \in DOMAIN stack' /\ Messages' = {1}
  <2>1. CASE stack' = <<a>>
    <3>1. DOMAIN <<a>> = {1}
      OBVIOUS
    <3> QED
      BY <1>6, <2>1, <3>1 DEF Messages
  <2>2. CASE stack' = <<a, b>>
    <3>1. DOMAIN <<a, b>> = {1, 2}
      OBVIOUS
    <3> QED
      BY <1>6, <2>2, <3>1 DEF Messages
  <2> QED
    BY <1>7, <2>1, <2>2
<1>9. Typed /\ Typed' /\ Streams /\ Kept
  BY DEF HInv
<1>10. Streams'
  BY <1>1, <1>3, <1>9, StreamsMeanwhile
<1>11. Grounded'
  BY <1>1 DEF Grounded, IsLeaves, vtable
<1>12. PICK S : meant \in Seq(S)
  BY DEF Spoken
<1>13. PICK T : T = S \cup {Leaves(op)}
  OBVIOUS
<1>14. /\ meant' \in Seq(T) /\ Len(meant') = said'
       /\ \A i \in 1 .. said : meant'[i] = meant[i]
       /\ meant'[said'] = Leaves(op)
  <2>1. meant \in Seq(T) /\ Leaves(op) \in T
    BY <1>12, <1>13, SeqMonotonic
  <2>2. Len(meant) = said
    BY DEF Spoken
  <2> QED
    BY <1>3, <2>1, <2>2, AppendProperties
<1>15. Spoken'
  <2>1. \A i \in Messages' : stack'[i].arg \in 1 .. said'
    BY <1>3, <1>6, <1>8
  <2>2. \A j \in Messages' : 1 .. j \subseteq Messages'
    <3>1. 1 .. 1 = {1}
      OBVIOUS
    <3> QED
      BY <1>8, <3>1
  <2> QED
    BY <1>14, <2>1, <2>2 DEF Spoken
<1>16. SharedFile' = SharedFile /\ freeing = {}
  BY <1>1, NoCalls DEF SharedFile
<1>17. freeing' = {}
  <2>1. \A i \in DOMAIN stack' : stack'[i] = a \/ stack'[i] = b
    BY <1>7
  <2> QED
    BY <1>6, <2>1 DEF freeing
<1>18. Kept'
  BY <1>1, <1>9, <1>16, <1>17 DEF Kept
<1>19. \A text, o : ~Coming(text, o)
  BY <1>1, Silent DEF Coming
<1>20. \A text : \A o \in DOMAIN files : InFile(text, o) => InFile(text, o)'
  BY <1>1 DEF InFile
<1>21. ASSUME NEW text \in 1 .. said, NEW o \in meant[text]
       PROVE  Arrived(text, o)'
  <2>1. Arrived(text, o)
    BY <1>19, <1>21 DEF NoneLost
  <2> QED
    BY <1>1, <1>9, <1>10, <1>20, <2>1, ArrivedStays
<1>22. Leaves(op)' = Leaves(op)
  BY <1>1 DEF Leaves, vtable
<1>23. ASSUME NEW o \in Leaves(op)
       PROVE  Coming(said, o)'
  BY <1>6, <1>8, <1>22, <1>23 DEF Coming
<1>24. NoneLost'
  <2>1. \A text \in 1 .. said' : text \in 1 .. said \/ text = said'
    BY <1>3
  <2> QED
    BY <1>14, <1>21, <1>23, <2>1 DEF NoneLost
<1> QED
  BY <1>10, <1>11, <1>15, <1>18, <1>24

-----------------------------------------------------------------------------
(* An object is made. *)

LEMMA MadeObjects ==
    ASSUME Typed, NEW STATE object, object \in Object, Make(object), NEW n, n = Len(objects)
    PROVE  /\ n \in Nat /\ DOMAIN objects = 1 .. n
           /\ objects' \in Seq(Object) /\ Len(objects') = n + 1
           /\ DOMAIN objects' = DOMAIN objects \cup {n + 1}
           /\ n + 1 \notin DOMAIN objects /\ n + 1 # STATIC
           /\ \A o \in DOMAIN objects : objects'[o] = objects[o]
           /\ objects'[n + 1] = object
<1>1. n \in Nat /\ DOMAIN objects = 1 .. n /\ objects \in Seq(Object)
  BY ObjectsAreNumbers DEF Typed
<1>2. /\ objects' \in Seq(Object) /\ Len(objects') = n + 1
      /\ \A o \in 1 .. n : objects'[o] = objects[o]
      /\ objects'[n + 1] = object
  BY <1>1, AppendProperties DEF Make
<1>3. DOMAIN objects' = 1 .. n + 1
  BY <1>2, LenProperties
<1>4. 1 .. n + 1 = (1 .. n) \cup {n + 1} /\ n + 1 \notin 1 .. n /\ n + 1 # STATIC
  BY <1>1 DEF STATIC
<1> QED
  BY <1>1, <1>2, <1>3, <1>4

LEMMA GroundedStill ==
    ASSUME Typed, Streams, Grounded, NEW STATE object, object \in Object, Make(object),
           object.vtable = "tee" => {object.first, object.second} \subseteq 0 .. Len(objects)
    PROVE  Grounded'
<1>1. PICK n : n = Len(objects)
  OBVIOUS
<1>2. /\ n \in Nat /\ DOMAIN objects = 1 .. n
      /\ Len(objects') = n + 1
      /\ DOMAIN objects' = DOMAIN objects \cup {n + 1}
      /\ n + 1 \notin DOMAIN objects /\ n + 1 # STATIC
      /\ \A o \in DOMAIN objects : objects'[o] = objects[o]
      /\ objects'[n + 1] = object
  BY <1>1, MadeObjects
<1>3. PICK f : IsLeaves(f)
  BY DEF Grounded
<1>4. PICK g : g = [o \in 0 .. n + 1 |->
          IF o = n + 1
          THEN IF object.vtable # "tee" THEN {o} ELSE f[object.first] \cup f[object.second]
          ELSE f[o]]
  OBVIOUS
<1>5. \A o \in 0 .. n + 1 : o = n + 1 \/ o \in 0 .. n
  BY <1>2
<1>6. \A o \in 0 .. n : g[o] = f[o]
  BY <1>2, <1>4
<1>7. \A o \in 0 .. n : o = 0 \/ o \in DOMAIN objects
  BY <1>2
<1>8. \A o \in 0 .. n : vtable(o)' = vtable(o)
  BY <1>2, <1>7 DEF vtable, STATIC
<1>9. ASSUME NEW o \in 0 .. n
      PROVE  g[o] = IF vtable(o)' # "tee" THEN {o}
                    ELSE g[objects'[o].first] \cup g[objects'[o].second]
  <2>1. f[o] = IF vtable(o) # "tee" THEN {o}
               ELSE f[objects[o].first] \cup f[objects[o].second]
    BY <1>1, <1>3 DEF IsLeaves
  <2>2. CASE vtable(o) # "tee"
    BY <1>6, <1>8, <2>1, <2>2
  <2>3. CASE vtable(o) = "tee"
    <3>1. o \in DOMAIN objects /\ objects[o].vtable = "tee"
      BY <1>7, <2>3 DEF vtable, STATIC
    <3>2. objects[o].first \in 0 .. o - 1 /\ objects[o].second \in 0 .. o - 1
      BY <3>1 DEF Streams
    <3>3. objects[o].first \in 0 .. n /\ objects[o].second \in 0 .. n
      BY <1>2, <3>1, <3>2
    <3>4. g[objects[o].first] = f[objects[o].first] /\ g[objects[o].second] = f[objects[o].second]
      BY <1>6, <3>3
    <3> QED
      BY <1>2, <1>6, <1>8, <2>1, <2>3, <3>1, <3>4
  <2> QED
    BY <2>2, <2>3
<1>10. g[n + 1] = IF vtable(n + 1)' # "tee" THEN {n + 1}
                  ELSE g[objects'[n + 1].first] \cup g[objects'[n + 1].second]
  <2>1. vtable(n + 1)' = object.vtable
    BY <1>2 DEF vtable
  <2>2. n + 1 \in 0 .. n + 1
    BY <1>2
  <2>3. g[n + 1] = IF object.vtable # "tee" THEN {n + 1} ELSE f[object.first] \cup f[object.second]
    BY <1>4, <2>2
  <2>4. object.vtable = "tee" => g[object.first] = f[object.first] /\ g[object.second] = f[object.second]
    BY <1>1, <1>6
  <2> QED
    BY <1>2, <2>1, <2>3, <2>4
<1>11. g = [o \in 0 .. n + 1 |->
            IF vtable(o)' # "tee" THEN {o}
            ELSE g[objects'[o].first] \cup g[objects'[o].second]]
  <2>1. \A o \in 0 .. n + 1 : g[o] = IF vtable(o)' # "tee" THEN {o}
            ELSE g[objects'[o].first] \cup g[objects'[o].second]
    BY <1>5, <1>9, <1>10
  <2>2. g = [o \in 0 .. n + 1 |-> g[o]]
    BY <1>4
  <2> QED
    BY <2>1, <2>2
<1>12. IsLeaves(g)'
  BY <1>2, <1>11 DEF IsLeaves
<1> QED
  BY <1>12 DEF Grounded

FilesAgree == \A a, b \in DOMAIN files : a = b \/ SharedFile

LEMMA FilesDoAgree == Typed /\ Streams => FilesAgree
BY SharedOrOne DEF FilesAgree

LEMMA MakeKeeps ==
    ASSUME HInv, HInv', SInv, stack = <<>>, NEW STATE object, object \in Object, Make(object),
           object.vtable = "tee" => {object.first, object.second} \subseteq 0 .. Len(objects),
           object.fp \in {STATIC, Len(objects) + 1},
           Len(objects) < client.objects,
           UNCHANGED <<client, stack, said, meant, stderr_open, terminal, log, heard, pc>>,
           \/ /\ ~(object.vtable = "file" /\ object.fp = Len(objects) + 1)
              /\ UNCHANGED <<files, disk>>
           \/ /\ object.vtable = "file" /\ object.fp = Len(objects) + 1
              /\ DOMAIN files' = DOMAIN files \cup {Len(objects) + 1}
              /\ \A o \in DOMAIN files : files'[o] = files[o]
              /\ files' \in [DOMAIN files' -> Stream]
              /\ files'[Len(objects) + 1].pending = <<>>
              /\ files'[Len(objects) + 1].pos = 0
              /\ disk' = <<>>
    PROVE  SInv'
<1> USE DEF SInv
<1>1. PICK n : n = Len(objects)
  OBVIOUS
<1>2. Typed /\ Typed' /\ Streams /\ Grounded /\ Kept
  BY DEF HInv
<1>3. /\ n \in Nat /\ DOMAIN objects = 1 .. n
      /\ Len(objects') = n + 1
      /\ DOMAIN objects' = DOMAIN objects \cup {n + 1}
      /\ n + 1 \notin DOMAIN objects /\ n + 1 # STATIC
      /\ \A o \in DOMAIN objects : objects'[o] = objects[o]
      /\ objects'[n + 1] = object
  BY <1>1, <1>2, MadeObjects
<1>4. /\ files' \in [DOMAIN files' -> Stream]
      /\ DOMAIN files' = DOMAIN files \cup
             (IF object.vtable = "file" /\ object.fp = n + 1 THEN {n + 1} ELSE {})
      /\ \A o \in DOMAIN files : files'[o] = files[o]
      /\ UNCHANGED <<files, disk>>
         \/ /\ n + 1 \in DOMAIN files' /\ disk' = <<>>
            /\ files'[n + 1].pending = <<>> /\ files'[n + 1].pos = 0
  BY <1>1, <1>2 DEF Streams
<1>5. Streams'
  <2>1. Stream' = Stream
    BY DEF Stream
  <2>2. Len(objects') <= client.objects
    <3>1. client.objects \in Nat
      BY <1>2, ClientsAssumption DEF Typed
    <3> QED
      BY <1>1, <1>3, <3>1
  <2>3. \A op \in DOMAIN objects' :
          /\ objects'[op].fp \in {STATIC, op}
          /\ objects'[op].vtable = "tee" => {objects'[op].first, objects'[op].second} \subseteq 0 .. op - 1
    <3>1. 0 .. n = 0 .. (n + 1) - 1
      BY <1>3
    <3>2. /\ object.fp \in {STATIC, n + 1}
          /\ object.vtable = "tee" => {object.first, object.second} \subseteq 0 .. (n + 1) - 1
      BY <1>1, <3>1
    <3> QED
      BY <1>2, <1>3, <3>2 DEF Streams
  <2>4. DOMAIN files' = {op \in DOMAIN objects' : OwnStream(op)'}
    BY <1>2, <1>3, <1>4 DEF Streams, OwnStream
  <2>5. disk' \in Seq({HOLE, OLD} \cup 1 .. said)
    <3>1. <<>> \in Seq({HOLE, OLD} \cup 1 .. said)
      BY EmptySeq
    <3> QED
      BY <1>2, <1>4, <3>1 DEF Streams
  <2>6. terminal' \cup log' \cup heard' \subseteq 1 .. said
    BY <1>2 DEF Streams
  <2> QED
    BY <1>4, <2>1, <2>2, <2>3, <2>4, <2>5, <2>6 DEF Streams
<1>6. Grounded'
  BY <1>2, GroundedStill
<1>7. Messages = {} /\ Messages' = {} /\ freeing = {} /\ freeing' = {}
  BY Silent, NoCalls DEF Messages, freeing
<1>8. Spoken'
  BY <1>7 DEF Spoken
<1>9. live' = live \cup {n + 1}
  BY <1>1 DEF Make
<1>10. \/ UNCHANGED <<files, disk>>
       \/ ~SharedFile' => DOMAIN files = {}
  <2>1. SUFFICES ASSUME n + 1 \in DOMAIN files', ~SharedFile', NEW o \in DOMAIN files
                 PROVE  FALSE
    BY <1>4
  <2>2. FilesAgree'
    <3>1. (Typed /\ Streams => FilesAgree)'
      BY FilesDoAgree, PTL
    <3> QED
      BY <1>2, <1>5, <3>1
  <2>3. o # n + 1 /\ o \in DOMAIN files'
    BY <1>2, <1>3, <1>4, <2>1 DEF Streams
  <2> QED
    BY <2>1, <2>2, <2>3 DEF FilesAgree
<1>11. Kept'
  <2>1. CASE UNCHANGED <<files, disk>>
    <3>1. SharedFile' = SharedFile
      BY <2>1 DEF SharedFile
    <3> QED
      BY <1>2, <1>7, <1>9, <2>1, <3>1 DEF Kept
  <2>2. CASE /\ n + 1 \in DOMAIN files' /\ disk' = <<>>
             /\ files'[n + 1].pending = <<>> /\ files'[n + 1].pos = 0
             /\ ~SharedFile' => DOMAIN files = {}
    <3>1. \A fp \in DOMAIN files' : fp \in DOMAIN files \/ fp = n + 1
      BY <1>4
    <3>2. \A fp \in DOMAIN files : files'[fp] = files[fp]
      BY <1>4
    <3>3. \A fp \in DOMAIN files : fp \in live' \/ files[fp].pending = <<>>
      BY <1>2, <1>7, <1>9 DEF Kept
    <3>4. Len(disk') = 0
      BY <2>2
    <3> QED
      BY <1>7, <2>2, <3>1, <3>2, <3>3, <3>4 DEF Kept
  <2> QED
    BY <1>4, <1>10, <2>1, <2>2
<1>12. ASSUME NEW text, NEW o, Arrived(text, o)
       PROVE  Arrived(text, o)'
  <2>1. \A x \in DOMAIN objects : x \in DOMAIN objects' /\ objects'[x] = objects[x]
    BY <1>3
  <2>2. DOMAIN files \subseteq DOMAIN files'
    BY <1>4
  <2>3. ~SharedFile' => \A x \in DOMAIN files : InFile(text, x) => InFile(text, x)'
    BY <1>9, <1>10 DEF InFile
  <2> QED
    BY <1>2, <1>5, <1>12, <2>1, <2>2, <2>3, ArrivedStays
<1>13. NoneLost'
  BY <1>7, <1>12 DEF NoneLost, Coming
<1> QED
  BY <1>5, <1>6, <1>8, <1>11, <1>13

LEMMA NewKeeps == HInv /\ HInv' /\ SInv /\ New => SInv'
<1> SUFFICES ASSUME HInv, HInv', SInv, New PROVE SInv'
  OBVIOUS
<1>1. /\ stack = <<>> /\ Len(objects) < client.objects
      /\ UNCHANGED <<client, stack, said, meant, stderr_open, terminal, log, heard, pc, files, disk>>
      /\ Len(objects) + 1 \in Nat /\ Len(objects) + 1 # STATIC
  BY ObjectsAreNumbers DEF New, Runs, sinks, history, ending, HInv, STATIC
<1>2. PICK class \in client.classes \ {"file"} : Make(Plain(class, STATIC))
  BY DEF New
<1>3. class \in {"stderr", "syslog", "custom"}
  BY <1>2, ClientsAssumption DEF HInv, Typed
<1>4. PICK object : object = Plain(class, STATIC)
  OBVIOUS
<1>5. object \in Object /\ object.vtable = class /\ object.fp = STATIC
  BY <1>3, <1>4 DEF Plain, Object, STATIC
<1> QED
  BY <1>1, <1>2, <1>3, <1>4, <1>5, MakeKeeps

LEMMA TeeNewKeeps == HInv /\ HInv' /\ SInv /\ TeeNew => SInv'
<1> SUFFICES ASSUME HInv, HInv', SInv, TeeNew PROVE SInv'
  OBVIOUS
<1>1. /\ stack = <<>> /\ stack' = <<>>
      /\ UNCHANGED <<client, stack, said, meant, stderr_open, terminal, log, heard, pc, files, disk>>
      /\ Len(objects) + 1 \in Nat /\ Len(objects) + 1 # STATIC
      /\ pc = "run"
  BY ObjectsAreNumbers DEF TeeNew, Runs, sinks, history, ending, HInv, STATIC
<1>2. PICK first \in mine, second \in mine, allocated \in MallocResults :
          IF allocated
          THEN /\ Len(objects) < client.objects
               /\ Make([vtable |-> "tee", fp |-> STATIC,
                         first |-> first, second |-> second])
          ELSE UNCHANGED <<objects, live>>
  BY DEF TeeNew
<1>3. CASE allocated
  <2>1. first \in Nat /\ second \in Nat /\ {first, second} \subseteq 0 .. Len(objects)
    BY ObjectsAreNumbers DEF HInv, Typed
  <2>2. PICK object : object = [vtable |-> "tee", fp |-> STATIC,
                                first |-> first, second |-> second]
    OBVIOUS
  <2>3. /\ object \in Object /\ object.vtable = "tee" /\ object.fp = STATIC
        /\ object.first = first /\ object.second = second
    BY <2>1, <2>2 DEF Object, STATIC
  <2>4. Make(object) /\ Len(objects) < client.objects
    BY <1>2, <1>3, <2>2
  <2> QED
    BY <1>1, <2>1, <2>3, <2>4, MakeKeeps
<1>4. CASE ~allocated
  <2>1. SinksSame /\ UNCHANGED live
    BY <1>1, <1>2, <1>4 DEF SinksSame
  <2>2. DOMAIN stack' = {}
    BY <1>1
  <2> QED
    BY <1>1, <2>1, <2>2, SilentStart
<1> QED
  BY <1>3, <1>4

LEMMA FileNewKeeps ==
    HInv /\ HInv' /\ SInv /\ (\E append \in BOOLEAN : FileNew(append)) => SInv'
<1> SUFFICES ASSUME HInv, HInv', SInv, NEW append \in BOOLEAN, FileNew(append) PROVE SInv'
  OBVIOUS
<1>1. PICK op : op = Len(objects) + 1
  OBVIOUS
<1>2. /\ stack = <<>> /\ Len(objects) < client.objects
      /\ UNCHANGED <<client, stack, said, meant, stderr_open, terminal, log, heard, pc>>
      /\ op \in Nat /\ op # STATIC
  BY <1>1, ObjectsAreNumbers DEF FileNew, Runs, history, ending, HInv, STATIC
<1>3. CASE Make(Plain("file", STATIC)) /\ UNCHANGED <<files, disk>>
  <2>1. PICK object : object = Plain("file", STATIC)
    OBVIOUS
  <2>2. object \in Object /\ object.vtable = "file" /\ object.fp = STATIC
    BY <2>1 DEF Plain, Object, STATIC
  <2> QED
    BY <1>1, <1>2, <1>3, <2>1, <2>2, MakeKeeps
<1>4. CASE /\ Make(Plain("file", op))
           /\ files' = [o \in DOMAIN files \cup {op} |->
                          IF o = op THEN [open |-> TRUE, pending |-> <<>>, pos |-> 0]
                          ELSE files[o]]
           /\ disk' = <<>>
  <2>1. PICK object : object = Plain("file", op)
    OBVIOUS
  <2>2. object \in Object /\ object.vtable = "file" /\ object.fp = op
    BY <1>2, <2>1 DEF Plain, Object, STATIC
  <2>3. PICK new : new = [open |-> TRUE, pending |-> <<>>, pos |-> 0]
    OBVIOUS
  <2>4. new \in Stream /\ new.pending = <<>> /\ new.pos = 0
    <3>1. <<>> \in Seq(1 .. said)
      BY EmptySeq
    <3> QED
      BY <2>3, <3>1 DEF Stream
  <2>5. Typed /\ Streams
    BY DEF HInv, SInv
  <2>6. op \notin DOMAIN files
    BY <1>1, <2>5, ObjectsAreNumbers DEF Streams
  <2>7. /\ DOMAIN files' = DOMAIN files \cup {op}
        /\ \A o \in DOMAIN files : files'[o] = files[o]
        /\ files' \in [DOMAIN files' -> Stream]
        /\ files'[op].pending = <<>> /\ files'[op].pos = 0
    BY <1>4, <2>3, <2>4, <2>5, <2>6 DEF Streams
  <2> QED
    BY <1>1, <1>2, <1>4, <2>1, <2>2, <2>7, MakeKeeps
<1> QED
  BY <1>1, <1>3, <1>4 DEF FileNew, fopen_truncates

-----------------------------------------------------------------------------
(* The invariants hold together.                                           *)

LEMMA SInvInit == Init => SInv
<1> SUFFICES ASSUME Init PROVE SInv
  OBVIOUS
<1>1. /\ objects = <<>> /\ files = <<>> /\ disk = <<OLD>> /\ terminal = {} /\ log = {}
      /\ heard = {} /\ said = 0 /\ meant = <<>> /\ stack = <<>> /\ client \in Clients
  BY DEF Init
<1>2. DOMAIN <<>> = {} /\ Len(<<>>) = 0 /\ client.objects \in Nat
  BY <1>1, ClientsAssumption
<1>3. Streams
  <2>1. <<OLD>> \in Seq({HOLE, OLD} \cup 1 .. said)
    OBVIOUS
  <2>2. files \in [DOMAIN files -> Stream]
    BY <1>1, <1>2
  <2>3. DOMAIN files = {op \in DOMAIN objects : OwnStream(op)}
    BY <1>1, <1>2
  <2>4. Len(objects) <= client.objects
    BY <1>1, <1>2
  <2> QED
    BY <1>1, <1>2, <2>1, <2>2, <2>3, <2>4 DEF Streams
<1>4. Grounded
  <2>1. \A o \in 0 .. 0 : o = STATIC /\ vtable(o) = "stderr"
    BY DEF vtable, STATIC
  <2>2. [o \in 0 .. 0 |-> {o}]
        = [o \in 0 .. Len(objects) |->
              IF vtable(o) # "tee" THEN {o}
              ELSE [x \in 0 .. 0 |-> {x}][objects[o].first]
                   \cup [x \in 0 .. 0 |-> {x}][objects[o].second]]
    BY <1>1, <1>2, <2>1
  <2> QED
    BY <2>2 DEF Grounded, IsLeaves
<1>5. Spoken
  <2>1. Messages = {}
    BY <1>1, <1>2 DEF Messages
  <2>2. meant \in Seq({}) /\ Len(meant) = said
    BY <1>1, <1>2, EmptySeq
  <2> QED
    BY <2>1, <2>2 DEF Spoken
<1>6. Kept /\ NoneLost
  BY <1>1, <1>2 DEF Kept, NoneLost
<1> QED
  BY <1>3, <1>4, <1>5, <1>6 DEF SInv

LEMMA SInvNext == HInv /\ HInv' /\ EndInv /\ SInv /\ [Next]_vars => SInv'
<1> SUFFICES ASSUME HInv, HInv', EndInv, SInv, [Next]_vars PROVE SInv'
  OBVIOUS
<1>1. Phase
  BY DEF EndInv
<1>2. CASE New \/ TeeNew \/ \E append \in BOOLEAN : FileNew(append)
  BY <1>2, NewKeeps, TeeNewKeeps, FileNewKeeps
<1>3. CASE OnError \/ OrDie
  BY <1>3, SayKeeps
<1>4. CASE Register \/ OutputExit
  BY <1>4, StartKeeps
<1>5. CASE Exit \/ ClientExit
  BY <1>5, ExitKeeps
<1>6. CASE Atexit \/ SetAction \/ GrimReaper \/ ClientHandler \/ HandlerReturns \/ Over
  BY <1>1, <1>6, StillKeeps
<1>7. CASE Destructor \/ Free
  BY <1>1, <1>7, DestructorKeeps, FreeKeeps
<1>8. CASE MessageToTee \/ MessageToLeaf
  BY <1>1, <1>8, MessageToTeeKeeps, MessageToLeafKeeps
<1>9. CASE MethodExit \/ ExitMethod
  BY <1>1, <1>9, MethodExitKeeps, ExitMethodKeeps
<1>10. CASE FlushStream
  BY <1>1, <1>10, FlushStreamKeeps
<1>11. CASE Done \/ UNCHANGED vars
  BY <1>11, SInvSame DEF Done
<1> QED
  BY <1>2, <1>3, <1>4, <1>5, <1>6, <1>7, <1>8, <1>9, <1>10, <1>11
     DEF Next, Client, Library, System

LEMMA SInvAlways == Spec => []SInv
<1>1. Init => SInv
  BY SInvInit
<1>2. HInv /\ HInv' /\ EndInv /\ SInv /\ [Next]_vars => SInv'
  BY SInvNext
<1> QED
  BY <1>1, <1>2, Invariant, EndInvAlways, PTL DEF Spec

LEMMA RangeOfTyped ==
    ASSUME NEW S, NEW s \in Seq(S)
    PROVE  Range(s) \subseteq S
<1>1. \A i \in 1 .. Len(s) : s[i] \in S
  BY ElementOfSeq
<1> QED
  BY <1>1, RangeIs

LEMMA AllTyped == HInv /\ EndInv /\ SInv => TypeOK
<1> SUFFICES ASSUME HInv, EndInv, SInv PROVE TypeOK
  OBVIOUS
<1> USE DEF HInv, EndInv, SInv
<1>1. /\ objects \in Seq(Object) /\ Len(objects) <= client.objects
      /\ live \cup mine \cup forgotten \subseteq DOMAIN objects
      /\ where \in DOMAIN objects \cup {STATIC, NULL}
  BY DEF Typed, Streams
<1>2. \A i \in DOMAIN stack : stack[i].op \in DOMAIN objects \cup {STATIC}
  BY DEF Typed, Alive, CallsAreLive
<1>3. DOMAIN files \subseteq DOMAIN objects /\ terminal \cup log \cup heard \subseteq 1 .. said
  BY DEF Streams
<1>4. Range(disk) \subseteq {HOLE, OLD} \cup 1 .. said
  BY RangeOfTyped DEF Streams
<1>5. Len(meant) = said
  BY DEF Spoken
<1>6. pc \in {"run", "exiting", "handler", "over"} /\ action \in {"never", "error", "always"}
  BY DEF Phase, Installed
<1>7. Range(handlers) \subseteq {"client", "grim_reaper"}
  BY RangeOfTyped DEF Listed, Functionals
<1>8. Len(handlers) + Len(ran) <= client.atexit + 1
  <2>1. /\ handlers \in Seq(Functionals) /\ ran \in Seq(Functionals)
        /\ Len(handlers) = Times("client", handlers) + Times("grim_reaper", handlers)
        /\ Len(ran) = Times("client", ran) + Times("grim_reaper", ran)
        /\ Times("client", handlers) + Times("client", ran) <= client.atexit
        /\ client.atexit \in Nat
    BY ClientsAssumption DEF Listed
  <2>2. /\ Times("client", handlers) \in Nat /\ Times("client", ran) \in Nat
        /\ Times("grim_reaper", handlers) \in Nat /\ Times("grim_reaper", ran) \in Nat
    BY <2>1, PlacesFinite
  <2>3. Times("grim_reaper", handlers) + Times("grim_reaper", ran) = IF registered THEN 1 ELSE 0
    BY DEF Installed
  <2>4. Times("grim_reaper", handlers) + Times("grim_reaper", ran) <= 1
    BY <2>3, <2>2
  <2> HIDE DEF HInv, EndInv, SInv
  <2> QED
    BY <2>1, <2>2, <2>4, SMTT(60)
<1> QED
  BY <1>1, <1>2, <1>3, <1>4, <1>5, <1>6, <1>7, <1>8 DEF TypeOK

LEMMA NothingComing == SInv => Arrives
<1> SUFFICES ASSUME SInv, stack = <<>>, NEW text \in 1 .. said, NEW op \in meant[text]
             PROVE  Reached(text, op)
  BY DEF Arrives
<1>1. DOMAIN stack = {}
  OBVIOUS
<1>2. ~Coming(text, op)
  BY <1>1 DEF Coming, Messages
<1> QED
  BY <1>2 DEF SInv, NoneLost, Arrived

(* Whatever a client does, the registry names an object or none, nothing is *)
(* called on what was never made, only what was printed gets into a file,   *)
(* to a terminal or to syslog, and exit has no more functions to call than  *)
(* were registered (output_*.c, exit.c).                                    *)
THEOREM TypeCorrect == Spec => []TypeOK
BY Invariant, EndInvAlways, SInvAlways, AllTyped, PTL

(* A message reaches every output of the tree that was registered when it   *)
(* was printed, however the client makes, joins, registers and replaces     *)
(* outputs in between, and however it ends: at once, or, in a file, when    *)
(* the stream is closed by the destructor or by exit (output_message.c,     *)
(* output/tee.c, output/file.c).                                            *)
THEOREM ArrivesAlways == Spec => []Arrives
BY SInvAlways, NothingComing, PTL
=============================================================================
