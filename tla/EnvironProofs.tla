---------------------------- MODULE EnvironProofs ----------------------------
(***************************************************************************)
(* setenv and unsetenv implement EnvMap, for environments of every length  *)
(* and with any duplicates.                                                *)
(***************************************************************************)
EXTENDS Environ, NaturalsInduction, WellFoundedInduction, TLAPS

Array  == Seq(Entry \cup {NULL})
Values == Value \cup {Unset}

-----------------------------------------------------------------------------
(***************************************************************************)
(* What getenv finds.                                                      *)
(***************************************************************************)

\* A set of natural numbers that is not empty has a least element.
LEMMA LeastElement ==
    ASSUME NEW T \in SUBSET Nat, T # {}
    PROVE  \E m \in T : \A k \in T : m <= k
<1>1. PICK m \in T : \A k \in Nat : <<k, m>> \in OpToRel(<, Nat) => k \notin T
  BY NatLessThanWellFounded, WFMin, Zenon DEF OpToRel
<1>2. \A k \in T : ~(k < m)
  BY <1>1 DEF OpToRel
<1> QED
  BY <1>2

LEMMA ElementType ==
    ASSUME NEW a \in Array, NEW i \in DOMAIN a, a[i] # NULL
    PROVE  a[i] \in Entry /\ a[i].value \in Value
<1>1. a[i] \in Entry \cup {NULL}
  BY DEF Array
<1>2. a[i] \in Entry
  BY <1>1
<1> QED
  BY <1>2 DEF Entry

LEMMA FindsSomething ==
    ASSUME NEW a \in Array, NEW n
    PROVE  \E v \in Values : Finds(a, n, v)
<1> DEFINE T == {i \in DOMAIN a : Binds(a, i, n)}
<1>1. CASE T = {}
  <2>1. Finds(a, n, Unset)
    BY <1>1 DEF Finds
  <2> QED
    BY <2>1 DEF Values
<1>2. CASE T # {}
  <2>1. T \in SUBSET Nat
    BY DEF Array
  <2>2. PICK m \in T : \A k \in T : m <= k
    BY <1>2, <2>1, LeastElement
  <2>3. \A j \in 1 .. m - 1 : ~Binds(a, j, n)
    <3> SUFFICES ASSUME NEW j \in 1 .. m - 1, Binds(a, j, n) PROVE FALSE
      OBVIOUS
    <3>1. j \in T
      BY DEF Binds
    <3> QED
      BY <2>1, <2>2, <3>1
  <2>4. a[m].value \in Value
    BY ElementType DEF Binds
  <2>5. Finds(a, n, a[m].value)
    BY <2>3 DEF Finds
  <2> QED
    BY <2>4, <2>5 DEF Values
<1> QED
  BY <1>1, <1>2

LEMMA FindsOne ==
    ASSUME NEW a \in Array, NEW n, NEW v, NEW w, Finds(a, n, v), Finds(a, n, w)
    PROVE  v = w
<1>1. CASE \A i \in DOMAIN a : ~Binds(a, i, n)
  BY <1>1 DEF Finds
<1>2. CASE \E i \in DOMAIN a : Binds(a, i, n)
  <2>1. PICK i \in DOMAIN a : /\ Binds(a, i, n)
                              /\ a[i].value = v
                              /\ \A j \in 1 .. i - 1 : ~Binds(a, j, n)
    BY <1>2 DEF Finds
  <2>2. PICK k \in DOMAIN a : /\ Binds(a, k, n)
                              /\ a[k].value = w
                              /\ \A j \in 1 .. k - 1 : ~Binds(a, j, n)
    BY <1>2 DEF Finds
  <2>3. i \in Nat \ {0} /\ k \in Nat \ {0}
    BY DEF Array
  <2>4. ~(i < k) /\ ~(k < i)
    BY <2>1, <2>2, <2>3
  <2> QED
    BY <2>1, <2>2, <2>3, <2>4
<1> QED
  BY <1>1, <1>2

LEMMA LookupIs ==
    ASSUME NEW a \in Array, NEW n, NEW v \in Values
    PROVE  (Lookup(a, n) = v) <=> Finds(a, n, v)
<1>1. PICK w \in Values : Finds(a, n, w)
  BY FindsSomething
<1>2. Lookup(a, n) \in Values /\ Finds(a, n, Lookup(a, n))
  BY <1>1 DEF Lookup, Values
<1>3. ASSUME Finds(a, n, v) PROVE Lookup(a, n) = v
  BY <1>2, <1>3, FindsOne
<1> QED
  BY <1>2, <1>3

LEMMA LookupType ==
    ASSUME NEW a \in Array, NEW n
    PROVE  Lookup(a, n) \in Values /\ Finds(a, n, Lookup(a, n))
<1>1. PICK w \in Values : Finds(a, n, w)
  BY FindsSomething
<1> QED
  BY <1>1 DEF Lookup, Values

-----------------------------------------------------------------------------
(***************************************************************************)
(* Deleting in place, and adding at the end.                               *)
(***************************************************************************)

LEMMA ClosedFacts ==
    ASSUME NEW a \in Array, Terminated(a), NEW at \in DOMAIN a, a[at] # NULL
    PROVE  /\ at < Len(a)
           /\ Closed(a, at) \in Array
           /\ DOMAIN Closed(a, at) = DOMAIN a
           /\ Terminated(Closed(a, at))
           /\ \A i \in DOMAIN a : \A n :
                 /\ i < at => (Binds(Closed(a, at), i, n) <=> Binds(a, i, n))
                 /\ i < at => Closed(a, at)[i] = a[i]
                 /\ i >= at => (Binds(Closed(a, at), i, n) <=> Binds(a, i + 1, n))
                 /\ i >= at /\ Binds(a, i + 1, n) => Closed(a, at)[i] = a[i + 1]
<1> DEFINE c == Closed(a, at)
<1>1. Len(a) \in Nat /\ DOMAIN a = 1 .. Len(a) /\ at \in 1 .. Len(a)
  BY DEF Array
<1>2. /\ a[Len(a)] = NULL
      /\ \A i, j \in DOMAIN a : i <= j /\ a[i] = NULL => a[j] = NULL
  BY DEF Terminated
<1>3. at < Len(a)
  BY <1>1, <1>2
<1>4. ASSUME NEW i \in DOMAIN a, a[i] # NULL
      PROVE  i < Len(a) /\ i + 1 \in DOMAIN a
  BY <1>1, <1>2, <1>4
<1>5. c = [i \in 1 .. Len(a) |-> IF i >= at /\ a[i] # NULL THEN a[i + 1] ELSE a[i]]
  BY <1>1 DEF Closed
<1>6. \A i \in 1 .. Len(a) : c[i] \in Entry \cup {NULL}
  <2>1. \A i \in DOMAIN a : a[i] \in Entry \cup {NULL}
    BY DEF Array
  <2> QED
    BY <1>1, <1>4, <1>5, <2>1
<1>7. c \in Array /\ Len(c) = Len(a) /\ DOMAIN c = DOMAIN a
  BY <1>1, <1>5, <1>6 DEF Array
<1> HIDE DEF c
<1>8. ASSUME NEW i \in DOMAIN a, i < at
      PROVE  c[i] = a[i]
  BY <1>1, <1>5, <1>8
<1>9. ASSUME NEW i \in DOMAIN a, i >= at
      PROVE  c[i] = IF a[i] # NULL THEN a[i + 1] ELSE NULL
  BY <1>1, <1>5, <1>9
<1>10. ASSUME NEW i \in DOMAIN a, i >= at, a[i] = NULL
       PROVE  i + 1 \in DOMAIN a => a[i + 1] = NULL
  BY <1>1, <1>2, <1>10
<1>11. Terminated(c)
  <2>1. c # <<>> /\ c[Len(c)] = NULL
    BY <1>1, <1>2, <1>3, <1>7, <1>9
  <2>2. ASSUME NEW i \in DOMAIN c, NEW j \in DOMAIN c, i <= j, c[i] = NULL
        PROVE  c[j] = NULL
    <3>1. i \in DOMAIN a /\ j \in DOMAIN a
      BY <1>7
    <3>2. CASE i < at
      <4>1. a[i] = NULL
        BY <2>2, <1>8, <3>1, <3>2
      <4>2. a[at] = NULL
        BY <1>1, <1>2, <3>1, <3>2, <4>1
      <4> QED
        BY <4>2
    <3>3. CASE i >= at
      <4>1. j >= at
        BY <1>1, <2>2, <3>1, <3>3
      <4>2. CASE a[j] = NULL
        BY <1>9, <3>1, <4>1, <4>2
      <4>3. CASE a[j] # NULL
        <5>1. a[i] # NULL
          BY <1>2, <2>2, <3>1, <4>3
        <5>2. a[i + 1] = NULL
          BY <1>9, <2>2, <3>1, <3>3, <5>1
        <5>3. i + 1 \in DOMAIN a /\ j + 1 \in DOMAIN a /\ i + 1 <= j + 1
          BY <1>1, <1>4, <2>2, <3>1, <4>3, <5>1
        <5>4. a[j + 1] = NULL
          BY <1>2, <5>2, <5>3
        <5> QED
          BY <1>9, <3>1, <4>1, <4>3, <5>4
      <4> QED
        BY <4>2, <4>3
    <3> QED
      BY <1>1, <3>1, <3>2, <3>3
  <2> QED
    BY <2>1, <2>2 DEF Terminated
<1>12. ASSUME NEW i \in DOMAIN a, NEW n
       PROVE  /\ i < at => (Binds(c, i, n) <=> Binds(a, i, n))
              /\ i >= at => (Binds(c, i, n) <=> Binds(a, i + 1, n))
              /\ i >= at /\ Binds(a, i + 1, n) => c[i] = a[i + 1]
  <2>1. CASE i < at
    BY <1>1, <1>7, <1>8, <2>1 DEF Binds
  <2>2. CASE i >= at /\ a[i] = NULL
    <3>1. c[i] = NULL
      BY <1>9, <2>2
    <3>2. ~Binds(a, i + 1, n)
      BY <1>10, <2>2 DEF Binds
    <3> QED
      BY <1>1, <3>1, <3>2, <2>2 DEF Binds
  <2>3. CASE i >= at /\ a[i] # NULL
    <3>1. c[i] = a[i + 1] /\ i + 1 \in DOMAIN a
      BY <1>4, <1>9, <2>3
    <3> QED
      BY <1>1, <1>7, <3>1, <2>3 DEF Binds
  <2> QED
    BY <1>1, <2>1, <2>2, <2>3
<1> QED
  BY <1>3, <1>7, <1>8, <1>11, <1>12 DEF c

\* Names that the deleted entry does not bind keep their values.
LEMMA ClosedFinds ==
    ASSUME NEW a \in Array, Terminated(a), NEW at \in DOMAIN a, a[at] # NULL,
           NEW n, ~Binds(a, at, n), NEW v, Finds(a, n, v)
    PROVE  Finds(Closed(a, at), n, v)
<1> DEFINE c == Closed(a, at)
<1>1. /\ DOMAIN c = DOMAIN a
      /\ Len(a) \in Nat /\ DOMAIN a = 1 .. Len(a)
      /\ at < Len(a) /\ at \in Nat
  BY ClosedFacts DEF Array
<1>2. \A i \in DOMAIN a : /\ i < at => (Binds(c, i, n) <=> Binds(a, i, n))
                          /\ i < at => c[i] = a[i]
                          /\ i >= at => (Binds(c, i, n) <=> Binds(a, i + 1, n))
                          /\ i >= at /\ Binds(a, i + 1, n) => c[i] = a[i + 1]
  BY ClosedFacts
<1> HIDE DEF c
<1>3. CASE v = Unset /\ \A i \in DOMAIN a : ~Binds(a, i, n)
  <2>1. ASSUME NEW i \in DOMAIN c, Binds(c, i, n) PROVE FALSE
    <3>1. Binds(a, i, n) \/ Binds(a, i + 1, n)
      BY <1>1, <1>2, <2>1
    <3> QED
      BY <1>3, <3>1 DEF Binds
  <2> QED
    BY <1>3, <2>1 DEF Finds, c
<1>4. CASE \E i \in DOMAIN a : /\ Binds(a, i, n)
                               /\ a[i].value = v
                               /\ \A j \in 1 .. i - 1 : ~Binds(a, j, n)
  <2>1. PICK i \in DOMAIN a : /\ Binds(a, i, n)
                              /\ a[i].value = v
                              /\ \A j \in 1 .. i - 1 : ~Binds(a, j, n)
    BY <1>4
  <2>2. i # at
    BY <2>1
  <2>3. CASE i < at
    <3>1. Binds(c, i, n) /\ c[i].value = v
      BY <1>2, <2>1, <2>3
    <3>2. ASSUME NEW j \in 1 .. i - 1 PROVE ~Binds(c, j, n)
      <4>1. j \in DOMAIN a /\ j < at
        BY <1>1, <2>3
      <4> QED
        BY <1>2, <2>1, <4>1
    <3> QED
      BY <1>1, <3>1, <3>2 DEF Finds, c
  <2>4. CASE i > at
    <3>1. i - 1 \in DOMAIN a /\ i - 1 >= at /\ (i - 1) + 1 = i
      BY <1>1, <2>4
    <3>2. Binds(c, i - 1, n) /\ c[i - 1].value = v
      BY <1>2, <2>1, <3>1
    <3>3. ASSUME NEW j \in 1 .. (i - 1) - 1 PROVE ~Binds(c, j, n)
      <4>1. j \in DOMAIN a /\ j \in 1 .. i - 1 /\ j + 1 \in 1 .. i - 1
        BY <1>1
      <4> QED
        BY <1>1, <1>2, <2>1, <4>1
    <3> QED
      BY <1>1, <3>1, <3>2, <3>3 DEF Finds, c
  <2> QED
    BY <1>1, <2>2, <2>3, <2>4
<1> QED
  BY <1>3, <1>4 DEF Finds

LEMMA ClosedTwice ==
    ASSUME NEW a \in Array, Terminated(a), NEW at \in DOMAIN a, a[at] # NULL,
           NEW n, Twice(Closed(a, at), n)
    PROVE  Twice(a, n)
<1> DEFINE c == Closed(a, at)
           back(i) == IF i < at THEN i ELSE i + 1
<1>1. DOMAIN c = DOMAIN a /\ DOMAIN a = 1 .. Len(a) /\ at \in Nat /\ Len(a) \in Nat
  BY ClosedFacts DEF Array
<1>2. PICK i, j \in DOMAIN c : i # j /\ Binds(c, i, n) /\ Binds(c, j, n)
  BY DEF Twice
<1>3. Binds(a, back(i), n) /\ Binds(a, back(j), n)
  BY <1>1, <1>2, ClosedFacts
<1>4. back(i) # back(j)
  BY <1>1, <1>2
<1> QED
  BY <1>3, <1>4 DEF Twice, Binds

LEMMA ExtendedFacts ==
    ASSUME NEW a \in Array, Terminated(a), NEW at \in DOMAIN a, a[at] = NULL,
           \A i \in 1 .. at - 1 : a[i] # NULL,
           NEW e \in Entry
    PROVE  /\ Extended(a, at - 1, e) \in Array
           /\ Terminated(Extended(a, at - 1, e))
           /\ \A i, n : Binds(Extended(a, at - 1, e), i, n)
                          <=> Binds(a, i, n) \/ (i = at /\ e.name = n)
           /\ \A i, n : Binds(a, i, n) =>
                            i \in 1 .. at - 1 /\ Extended(a, at - 1, e)[i] = a[i]
           /\ Extended(a, at - 1, e)[at] = e
<1> DEFINE x == Extended(a, at - 1, e)
<1>1. Len(a) \in Nat /\ DOMAIN a = 1 .. Len(a) /\ at \in 1 .. Len(a)
  BY DEF Array
<1>2. \A i \in DOMAIN a : a[i] \in Entry \cup {NULL}
  BY DEF Array
<1>3. NULL \notin Entry
  BY NameAssumption
<1>4. x = [i \in 1 .. at + 1 |-> IF i <= at - 1 THEN a[i]
                                 ELSE IF i = at THEN e ELSE NULL]
  <2>1. at - 1 + 2 = at + 1 /\ at - 1 + 1 = at
    BY <1>1
  <2> QED
    BY <2>1 DEF Extended
<1> HIDE DEF x
<1>5. /\ x \in Array
      /\ Len(x) = at + 1
      /\ DOMAIN x = 1 .. at + 1
  <2>1. \A i \in 1 .. at + 1 : x[i] \in Entry \cup {NULL}
    BY <1>1, <1>2, <1>4
  <2> QED
    BY <1>1, <1>4, <2>1 DEF Array
<1>6. /\ x[at] = e
      /\ x[at + 1] = NULL
      /\ \A i \in 1 .. at - 1 : x[i] = a[i] /\ i \in DOMAIN a /\ i \in DOMAIN x
  BY <1>1, <1>4
<1>7. Terminated(x)
  <2>1. ASSUME NEW i \in DOMAIN x, x[i] = NULL PROVE i = at + 1
    <3>1. i # at
      BY <1>3, <1>6, <2>1
    <3>2. i \notin 1 .. at - 1
      BY <1>6, <2>1
    <3> QED
      BY <1>1, <1>5, <3>1, <3>2
  <2>2. \A i, j \in DOMAIN x : i <= j /\ x[i] = NULL => x[j] = NULL
    BY <1>1, <1>5, <1>6, <2>1
  <2>3. x # <<>> /\ x[Len(x)] = NULL
    BY <1>1, <1>5, <1>6
  <2> QED
    BY <2>2, <2>3 DEF Terminated
<1>8. ASSUME NEW i, NEW n, Binds(a, i, n)
      PROVE  i \in 1 .. at - 1 /\ x[i] = a[i]
  <2>1. i \in DOMAIN a /\ a[i] # NULL
    BY <1>8 DEF Binds
  <2>2. ~(at <= i)
    BY <1>1, <2>1 DEF Terminated
  <2>3. i \in 1 .. at - 1
    BY <1>1, <2>1, <2>2
  <2> QED
    BY <1>6, <2>3
<1>9. ASSUME NEW i, NEW n
      PROVE  Binds(x, i, n) <=> Binds(a, i, n) \/ (i = at /\ e.name = n)
  <2>1. CASE i \in 1 .. at - 1
    <3>1. x[i] = a[i] /\ i \in DOMAIN x /\ i \in DOMAIN a /\ i # at
      BY <1>1, <1>6, <2>1
    <3> QED
      BY <3>1 DEF Binds
  <2>2. CASE i = at
    <3>1. i \in DOMAIN x /\ x[i] = e /\ e # NULL
      BY <1>1, <1>3, <1>5, <1>6, <2>2
    <3>2. ~Binds(a, i, n)
      BY <2>2 DEF Binds
    <3> QED
      BY <2>2, <3>1, <3>2 DEF Binds
  <2>3. CASE i \notin 1 .. at
    <3>1. ~Binds(a, i, n)
      BY <1>1, <1>8, <2>3
    <3>2. ~Binds(x, i, n)
      BY <1>1, <1>5, <1>6, <2>3 DEF Binds
    <3> QED
      BY <1>1, <2>3, <3>1, <3>2
  <2> QED
    BY <1>1, <2>1, <2>2, <2>3
<1> QED
  BY <1>5, <1>6, <1>7, <1>8, <1>9 DEF x

-----------------------------------------------------------------------------
(***************************************************************************)
(* The invariant.                                                          *)
(***************************************************************************)

\* Before an entry is deleted, or when none is, the whole environment is as
\* it was; the name of a removal under way is the exception.
Busy == pc \in {"setenv", "unsetenv"}

Removing ==
    \/ pc = "unsetenv"
    \/ pc = "setenv" /\ args.value = NULL

AsBefore ==
    pc # "idle" =>
        \A n \in Name : n # args.name \/ ~Removing => Finds(environ, n, was[n])

\* The entries in front of ep do not bind the name.
Scanned ==
    /\ pc = "setenv" /\ args.value # NULL =>
          \A i \in 1 .. ep - 1 : environ[i] # NULL /\ ~Binds(environ, i, args.name)
    /\ pc = "unsetenv" \/ (pc = "setenv" /\ args.name \notin double) =>
          \A i \in 1 .. ep - 1 : ~Binds(environ, i, args.name)

Doubles == \A n \in Name : Twice(environ, n) => n \in double

Errnos ==
    /\ pc = "unsetenv" => errno = save_errno
    /\ pc = "idle" => errno # "disturbed"
    /\ pc = "failed" => errno \in {"EINVAL", "EFAULT", "ENOMEM"}

\* What is asked of each function.
Asked ==
    /\ pc = "setenv" => args.value # Unset
    /\ pc = "unsetenv" => args.value = Unset

IInv ==
    /\ TypeOK
    /\ InArray
    /\ ~exists => environ = <<NULL>>
    /\ AsBefore
    /\ Scanned
    /\ Doubles
    /\ Errnos
    /\ Asked

LEMMA EnvironmentType ==
    ASSUME environ \in Array
    PROVE  Environment \in [Name -> Values]
BY LookupType DEF Environment

LEMMA EnvironmentFinds ==
    ASSUME environ \in Array, NEW n \in Name
    PROVE  Finds(environ, n, Environment[n])
BY LookupType DEF Environment

LEMMA ArrayType == TypeOK => environ \in Array
BY DEF TypeOK, Array

LEMMA InitHolds == Init => IInv
<1> SUFFICES ASSUME Init PROVE IInv
  OBVIOUS
<1>1. PICK a \in Inherited, e \in BOOLEAN :
         exists = e /\ environ = IF e THEN Append(a, NULL) ELSE <<NULL>>
  BY DEF Init
<1>2. /\ a \in Seq(Entry)
      /\ Len(a) \in Nat
      /\ \A i \in 1 .. Len(a) : a[i] \in Entry /\ a[i] # NULL
  <2>1. a \in Seq(Entry) /\ Len(a) \in Nat
    BY InheritedAssumption
  <2>2. \A i \in 1 .. Len(a) : a[i] \in Entry
    BY <2>1
  <2>3. NULL \notin Entry
    BY NameAssumption
  <2> QED
    BY <2>1, <2>2, <2>3
<1>3. CASE ~e
  <2>1. environ = <<NULL>>
    BY <1>1, <1>3
  <2>2. environ \in Array /\ Len(environ) = 1 /\ environ[1] = NULL
    BY <2>1 DEF Array
  <2> QED
    BY <2>1, <2>2, EnvironmentType, <1>1
    DEF IInv, Init, TypeOK, InArray, Terminated, AsBefore, Scanned, Doubles,
        Errnos, Asked, Array, Values, BadNames
<1>4. CASE e
  <2>1. environ = Append(a, NULL)
    BY <1>1, <1>4
  <2>2. /\ environ \in Array
        /\ Len(environ) = Len(a) + 1
        /\ environ[Len(a) + 1] = NULL
        /\ \A i \in 1 .. Len(a) : environ[i] = a[i]
    <3>1. a \in Array
      BY <1>2 DEF Array
    <3> QED
      BY <2>1, <3>1 DEF Array
  <2>3. DOMAIN environ = 1 .. Len(a) + 1
    BY <2>2 DEF Array
  <2>4. ASSUME NEW i \in DOMAIN environ, environ[i] = NULL
        PROVE  i = Len(a) + 1
    BY <1>2, <2>2, <2>3, <2>4
  <2>5. Terminated(environ)
    <3>1. environ # <<>>
      BY <1>2, <2>2
    <3>2. \A i, j \in DOMAIN environ : i <= j /\ environ[i] = NULL => environ[j] = NULL
      BY <1>2, <2>2, <2>3, <2>4
    <3> QED
      BY <2>2, <3>1, <3>2 DEF Terminated
  <2> QED
    BY <2>2, <2>5, EnvironmentType, <1>1, <1>4
    DEF IInv, Init, TypeOK, InArray, AsBefore, Scanned, Doubles,
        Errnos, Asked, Array, Values, BadNames
<1> QED
  BY <1>1, <1>3, <1>4

\* An array that stays keeps its shape and its duplicates.
LEMMA SameArray ==
    ASSUME IInv, environ' = environ, exists' = exists, double' = double
    PROVE  /\ Terminated(environ')
           /\ environ' \in Array
           /\ ~exists' => environ' = <<NULL>>
           /\ Doubles'
BY DEF IInv, TypeOK, InArray, Array, Terminated, Doubles, Twice, Binds

LEMMA CallHolds ==
    ASSUME IInv, Call
    PROVE  IInv'
<1>1. /\ pc = "idle"
      /\ environ' = environ /\ exists' = exists /\ double' = double
      /\ result' = result
  BY DEF Call, Setenv, Unsetenv, Calls, ClientErrno
<1>2. /\ Terminated(environ')
      /\ environ' \in Array
      /\ ~exists' => environ' = <<NULL>>
      /\ Doubles'
  BY <1>1, SameArray
<1>3. environ \in Array /\ Environment \in [Name -> Values]
  BY EnvironmentType, ArrayType DEF IInv
<1>4. 1 \in DOMAIN environ
  BY <1>3 DEF IInv, InArray, Terminated, Array
<1>5. CASE ClientErrno
  <2>1. /\ pc' = "idle" /\ errno' = "client"
        /\ UNCHANGED <<save_errno, ep, args, was>>
    BY <1>1, <1>5 DEF ClientErrno
  <2> QED
    BY <1>1, <1>2, <2>1
    DEF IInv, TypeOK, InArray, AsBefore, Scanned, Errnos, Asked
<1>6. CASE ~ClientErrno
  <2>1. PICK n \in Name \cup BadNames, v \in Value \cup BadValues \cup {NULL, Unset}, o \in BOOLEAN :
          /\ args' = [name |-> n, value |-> v, overwrite |-> o]
          /\ was' = Environment
          /\ save_errno' = errno
          /\ ep' = 1
          /\ \/ pc' = "setenv" /\ errno' \in {errno, "disturbed"} /\ v # Unset
             \/ pc' = "unsetenv" /\ errno' = errno /\ v = Unset
    <3>1. CASE \E n \in Name \cup BadNames : Unsetenv(n)
      BY <3>1 DEF Unsetenv, Calls
    <3>2. CASE \E n \in Name \cup BadNames, v \in Value \cup BadValues \cup {NULL},
                  o \in BOOLEAN : Setenv(n, v, o)
      <4>1. \A v \in Value \cup BadValues \cup {NULL} : v # Unset
        BY NameAssumption
      <4> QED
        BY <3>2, <4>1 DEF Setenv, Calls
    <3> QED
      BY <1>6, <3>1, <3>2 DEF Call
  <2>2. errno \in {"client", "EINVAL", "EFAULT", "ENOMEM"}
    BY <1>1 DEF IInv, TypeOK, Errnos, Asked
  <2>3. TypeOK'
    BY <1>1, <1>2, <1>3, <2>1, <2>2 DEF IInv, TypeOK, Array, Values
  <2>4. InArray'
    BY <1>1, <1>2, <1>4, <2>1 DEF InArray
  <2>5. AsBefore'
    <3> SUFFICES ASSUME NEW m \in Name PROVE Finds(environ', m, was'[m])
      BY DEF AsBefore
    <3> QED
      BY <1>1, <1>3, <2>1, EnvironmentFinds
  <2>6. Scanned'
    BY <2>1 DEF Scanned
  <2>7. Errnos' /\ Asked'
    BY <2>1 DEF Errnos, Asked
  <2> QED
    BY <1>2, <2>3, <2>4, <2>5, <2>6, <2>7 DEF IInv
<1> QED
  BY <1>5, <1>6

\* What the conditions of a call that is let in say of its arguments.
LEMMA Accepted ==
    ASSUME TypeOK, refusal(args.name, args.value) = "none"
    PROVE  /\ args.name \in Name
           /\ args.value \in Value \cup {NULL, Unset}
BY DEF TypeOK, refusal, BadNames

\* The array stays; the call goes on with another slot, fails, or returns.
LEMMA FailHolds ==
    ASSUME IInv, SetenvRefuses \/ UnsetenvRefuses
    PROVE  IInv'
<1>1. /\ environ' = environ /\ exists' = exists /\ double' = double
      /\ UNCHANGED <<ep, args, was, result, save_errno>>
      /\ pc' = "failed"
      /\ errno' \in {"EINVAL", "EFAULT"}
      /\ pc \in {"setenv", "unsetenv"}
      /\ args.name \in BadNames \/ args.value \in BadValues
  BY DEF SetenvRefuses, UnsetenvRefuses, Fails, refusal, BadNames
<1>2. /\ Terminated(environ')
      /\ environ' \in Array
      /\ ~exists' => environ' = <<NULL>>
      /\ Doubles'
  BY <1>1, SameArray
<1>3. TypeOK' /\ InArray' /\ Scanned' /\ Errnos' /\ Asked'
  BY <1>1, <1>2 DEF IInv, TypeOK, InArray, Scanned, Errnos, Asked, Array
<1>4. AsBefore'
  <2> SUFFICES ASSUME NEW n \in Name PROVE Finds(environ, n, was[n])
    BY <1>1 DEF AsBefore, Removing
  <2>1. args.name \in BadNames => n # args.name
    BY NameAssumption
  <2>2. args.value \in BadValues /\ pc = "setenv" => ~Removing
    BY NameAssumption DEF Removing, BadValues
  <2>3. args.value \in BadValues /\ pc = "unsetenv" => args.name \in BadNames
    <3>1. CASE SetenvRefuses
      BY <3>1 DEF SetenvRefuses
    <3>2. CASE UnsetenvRefuses
      BY <3>2 DEF UnsetenvRefuses
    <3> QED
      BY <3>1, <3>2
  <2> QED
    BY <1>1, <2>1, <2>2, <2>3 DEF IInv, AsBefore
<1> QED
  BY <1>2, <1>3, <1>4 DEF IInv

LEMMA SkipHolds ==
    ASSUME IInv, SetenvSkip \/ UnsetenvSkip
    PROVE  IInv'
<1>1. /\ environ' = environ /\ exists' = exists /\ double' = double
      /\ UNCHANGED <<args, was, result, save_errno, errno, pc>>
      /\ environ[ep] # NULL
      /\ ~Binds(environ, ep, args.name)
      /\ ep' = ep + 1
      /\ pc \in {"setenv", "unsetenv"}
  BY DEF SetenvSkip, UnsetenvSkip, Looking, Unsetting, Here
<1>2. /\ Terminated(environ')
      /\ environ' \in Array
      /\ ~exists' => environ' = <<NULL>>
      /\ Doubles'
  BY <1>1, SameArray
<1>3. /\ environ \in Array /\ Len(environ) \in Nat
      /\ DOMAIN environ = 1 .. Len(environ)
      /\ ep \in DOMAIN environ
      /\ environ[Len(environ)] = NULL
  BY <1>1, ArrayType DEF IInv, InArray, Terminated, Array
<1>4. ep + 1 \in DOMAIN environ
  BY <1>1, <1>3
<1>5. TypeOK' /\ InArray' /\ Errnos' /\ Asked'
  BY <1>1, <1>2, <1>3, <1>4 DEF IInv, TypeOK, InArray, Errnos, Asked, Array
<1>6. AsBefore'
  BY <1>1 DEF IInv, AsBefore, Removing
<1>7. Scanned'
  <2>1. \A i \in 1 .. ep' - 1 : i \in 1 .. ep - 1 \/ i = ep
    BY <1>1, <1>3
  <2> QED
    BY <1>1, <2>1 DEF IInv, Scanned
<1> QED
  BY <1>2, <1>5, <1>6, <1>7 DEF IInv

\* An entry of the name is deleted, by setenv or by unsetenv.
LEMMA DeleteHolds ==
    ASSUME IInv, SetenvDelete \/ UnsetenvDelete
    PROVE  IInv'
<1>1. /\ environ' = Closed(environ, ep) /\ exists /\ exists' = exists
      /\ UNCHANGED <<args, was, result, save_errno, errno, pc, double>>
      /\ Binds(environ, ep, args.name)
      /\ \/ ep' = ep + 1 /\ pc = "setenv" /\ args.value = NULL
         \/ ep' = ep /\ pc = "unsetenv"
  BY DEF SetenvDelete, UnsetenvDelete, Looking, Unsetting, Here
<1>2. /\ environ \in Array /\ Len(environ) \in Nat
      /\ DOMAIN environ = 1 .. Len(environ)
      /\ ep \in DOMAIN environ /\ ep \in Nat
      /\ environ[ep] # NULL
      /\ Terminated(environ)
  BY <1>1, ArrayType DEF IInv, InArray, Array, Binds
<1>3. /\ ep < Len(environ)
      /\ environ' \in Array
      /\ DOMAIN environ' = DOMAIN environ
      /\ Terminated(environ')
      /\ \A i \in DOMAIN environ : \A n :
            /\ i < ep => (Binds(environ', i, n) <=> Binds(environ, i, n))
            /\ i >= ep => (Binds(environ', i, n) <=> Binds(environ, i + 1, n))
  BY <1>1, <1>2, ClosedFacts
<1>4. ep' \in DOMAIN environ'
  BY <1>1, <1>2, <1>3
<1>5. TypeOK' /\ InArray' /\ Errnos' /\ Asked'
  BY <1>1, <1>2, <1>3, <1>4 DEF IInv, TypeOK, InArray, Errnos, Asked, Array
<1>6. AsBefore'
  <2> SUFFICES ASSUME NEW n \in Name, n # args.name
               PROVE  Finds(environ', n, was[n])
    BY <1>1 DEF AsBefore, Removing
  <2>1. Finds(environ, n, was[n])
    BY <1>1 DEF IInv, AsBefore
  <2>2. ~Binds(environ, ep, n)
    BY <1>1 DEF Binds
  <2> QED
    BY <1>1, <1>2, <2>1, <2>2, ClosedFinds
<1>7. Doubles'
  <2> SUFFICES ASSUME NEW n \in Name, Twice(environ', n) PROVE n \in double
    BY <1>1 DEF Doubles
  <2>1. Twice(environ, n)
    BY <1>1, <1>2, ClosedTwice
  <2> QED
    BY <2>1 DEF IInv, Doubles
<1>8. Scanned'
  <2>1. CASE pc = "unsetenv"
    <3>1. \A i \in 1 .. ep - 1 : i \in DOMAIN environ /\ i < ep
      BY <1>2
    <3>2. \A i \in 1 .. ep - 1 : ~Binds(environ', i, args.name)
      BY <1>3, <2>1, <3>1 DEF IInv, Scanned
    <3> QED
      BY <1>1, <2>1, <3>2 DEF Scanned
  <2>2. CASE pc = "setenv"
    <3>1. ep' = ep + 1 /\ args.value = NULL
      BY <1>1, <2>2
    <3>2. ASSUME args.name \notin double, NEW i \in 1 .. ep
          PROVE  ~Binds(environ', i, args.name)
      <4>1. i \in DOMAIN environ /\ (i < ep \/ i = ep)
        BY <1>2
      <4>2. CASE i < ep
        <5>1. i \in 1 .. ep - 1
          BY <1>2, <4>2
        <5>2. ~Binds(environ, i, args.name)
          BY <2>2, <3>2, <5>1 DEF IInv, Scanned
        <5> QED
          BY <1>3, <4>1, <4>2, <5>2
      <4>3. CASE i = ep
        <5>1. args.name \in Name
          <6>1. refusal(args.name, args.value) = "none"
            BY <2>2 DEF SetenvDelete, UnsetenvDelete, Looking, Unsetting
          <6> QED
            BY <6>1, Accepted DEF IInv
        <5>2. ~Twice(environ, args.name)
          BY <3>2, <5>1 DEF IInv, Doubles
        <5>3. ~Binds(environ, ep + 1, args.name)
          <6>1. ep # ep + 1
            BY <1>2
          <6> QED
            BY <1>1, <5>2, <6>1 DEF Twice, Binds
        <5> QED
          BY <1>3, <4>1, <4>3, <5>3
      <4> QED
        BY <4>1, <4>2, <4>3
    <3>3. ep' - 1 = ep
      BY <1>2, <3>1
    <3> QED
      BY <1>1, <2>2, <3>1, <3>2, <3>3 DEF Scanned
  <2> QED
    BY <1>1, <2>1, <2>2
<1> QED
  BY <1>1, <1>3, <1>5, <1>6, <1>7, <1>8 DEF IInv

\* A call that finds an array, or none, and leaves the loop.
LEMMA ReturnHolds ==
    ASSUME IInv, environ' \in Array, Terminated(environ'),
           ~exists' => environ' = <<NULL>>, Doubles', exists' \in BOOLEAN,
           UNCHANGED <<args, was, double>>, ep' \in Nat \ {0},
           Returns
    PROVE  IInv'
<1>1. /\ pc' = "idle" /\ result' = 0
      /\ errno' = save_errno /\ save_errno' = save_errno
  BY DEF Returns
<1>2. errno' # "disturbed"
  BY <1>1 DEF IInv, TypeOK
<1>3. TypeOK'
  BY <1>1 DEF IInv, TypeOK, Array
<1> QED
  BY <1>1, <1>2, <1>3 DEF IInv, InArray, AsBefore, Scanned, Errnos, Asked

\* A call that fails in the loop has changed nothing.
LEMMA NoMemoryHolds ==
    ASSUME IInv, Fails("ENOMEM"), environ' = environ, exists' \in BOOLEAN,
           ~exists' => environ = <<NULL>>,
           UNCHANGED <<args, was, double, ep>>, pc = "setenv", args.value # NULL
    PROVE  IInv'
<1>1. /\ pc' = "failed" /\ errno' = "ENOMEM"
      /\ UNCHANGED <<save_errno, result>>
  BY DEF Fails
<1>2. environ' \in Array /\ Terminated(environ')
  BY ArrayType DEF IInv, InArray
<1>3. TypeOK' /\ InArray' /\ Scanned' /\ Errnos' /\ Asked' /\ Doubles'
  BY <1>1, <1>2 DEF IInv, TypeOK, InArray, Scanned, Errnos, Asked, Array, Doubles, Twice, Binds
<1>4. AsBefore'
  BY <1>1 DEF IInv, AsBefore, Removing
<1> QED
  BY <1>2, <1>3, <1>4 DEF IInv

LEMMA OneEntry ==
    ASSUME NEW e \in Entry
    PROVE  /\ <<e, NULL>> \in Array
           /\ Terminated(<<e, NULL>>)
           /\ \A n : ~Twice(<<e, NULL>>, n)
           /\ Finds(<<e, NULL>>, e.name, e.value)
           /\ \A n : n # e.name => Finds(<<e, NULL>>, n, Unset)
<1> DEFINE a == <<e, NULL>>
<1>1. a \in Array /\ Len(a) = 2 /\ DOMAIN a = 1 .. 2 /\ a[1] = e /\ a[2] = NULL
  BY DEF Array
<1>2. e # NULL
  BY NameAssumption
<1> HIDE DEF a
<1>3. \A i, n : Binds(a, i, n) <=> i = 1 /\ e.name = n
  BY <1>1, <1>2 DEF Binds
<1>4. Terminated(a)
  <2>1. a # <<>>
    BY <1>1, SMTT(60)
  <2>2. \A i, j \in DOMAIN a : i <= j /\ a[i] = NULL => a[j] = NULL
    BY <1>1, <1>2
  <2> QED
    BY <1>1, <2>1, <2>2 DEF Terminated
<1>5. \A n : ~Twice(a, n)
  BY <1>3 DEF Twice
<1>6. Finds(a, e.name, e.value)
  <2>1. 1 \in DOMAIN a /\ Binds(a, 1, e.name) /\ a[1].value = e.value
    BY <1>1, <1>3
  <2>2. \A j \in 1 .. 1 - 1 : FALSE
    OBVIOUS
  <2> QED
    BY <2>1, <2>2 DEF Finds
<1>7. \A n : n # e.name => Finds(a, n, Unset)
  BY <1>3 DEF Finds
<1> QED
  BY <1>1, <1>4, <1>5, <1>6, <1>7 DEF a

LEMMA EmptyArray ==
    /\ <<NULL>> \in Array
    /\ Terminated(<<NULL>>)
    /\ \A n : ~Twice(<<NULL>>, n) /\ Finds(<<NULL>>, n, Unset)
<1> DEFINE a == <<NULL>>
<1>1. a \in Array /\ Len(a) = 1 /\ DOMAIN a = 1 .. 1 /\ a[1] = NULL
  BY DEF Array
<1> HIDE DEF a
<1>2. \A i, n : ~Binds(a, i, n)
  BY <1>1 DEF Binds
<1>3. a # <<>> /\ \A i, j \in DOMAIN a : i <= j /\ a[i] = NULL => a[j] = NULL
  BY <1>1
<1> QED
  BY <1>1, <1>2, <1>3 DEF Terminated, Twice, Finds, a

\* The entry that a call of setenv makes.
LEMMA NewEntry ==
    ASSUME TypeOK, Asked, pc = "setenv",
           refusal(args.name, args.value) = "none", args.value # NULL
    PROVE  /\ [name |-> args.name, value |-> args.value] \in Entry
           /\ args.name \in Name /\ args.value \in Value
<1>1. args.name \in Name /\ args.value \in Value
  BY Accepted DEF Asked
<1> QED
  BY <1>1 DEF Entry

LEMMA FirstHolds ==
    ASSUME IInv, SetenvFirst
    PROVE  IInv'
<1>1. /\ pc = "setenv" /\ ~exists /\ environ = <<NULL>>
      /\ refusal(args.name, args.value) = "none"
      /\ UNCHANGED <<args, was, double, ep>>
      /\ ep' \in Nat \ {0}
  BY DEF SetenvFirst, Looking, IInv, TypeOK
<1>2. CASE Returns /\ environ' = environ /\ exists' = exists
  BY <1>1, <1>2, SameArray, ReturnHolds DEF IInv, TypeOK
<1>3. CASE /\ args.value # NULL
           /\ Fails("ENOMEM") /\ environ' = environ /\ exists' \in BOOLEAN
  BY <1>1, <1>3, NoMemoryHolds
<1>4. CASE /\ args.value # NULL
           /\ Returns /\ exists' = TRUE
           /\ environ' = <<[name |-> args.name, value |-> args.value], NULL>>
  <2>1. [name |-> args.name, value |-> args.value] \in Entry
    BY <1>1, <1>4, NewEntry DEF IInv
  <2>2. /\ environ' \in Array
        /\ Terminated(environ')
        /\ \A n : ~Twice(environ', n)
    BY <1>4, <2>1, OneEntry
  <2>3. Doubles'
    BY <2>2 DEF Doubles
  <2> QED
    BY <1>1, <1>4, <2>2, <2>3, ReturnHolds
<1> QED
  BY <1>2, <1>3, <1>4 DEF SetenvFirst

LEMMA ReplaceHolds ==
    ASSUME IInv, SetenvReplace
    PROVE  IInv'
<1>1. /\ pc = "setenv" /\ exists
      /\ Binds(environ, ep, args.name)
      /\ args.value # NULL
      /\ refusal(args.name, args.value) = "none"
      /\ UNCHANGED <<args, was, double, ep, exists>>
      /\ ep' \in Nat \ {0}
  BY DEF SetenvReplace, Looking, Here, IInv, TypeOK
<1>2. CASE Returns /\ environ' = environ
  BY <1>1, <1>2, SameArray, ReturnHolds DEF IInv, TypeOK
<1>3. CASE Fails("ENOMEM") /\ environ' = environ
  BY <1>1, <1>3, NoMemoryHolds
<1>4. CASE /\ Returns
           /\ environ' = [environ EXCEPT ![ep] =
                              [name |-> args.name, value |-> args.value]]
  <2> DEFINE e == [name |-> args.name, value |-> args.value]
  <2>1. e \in Entry /\ e # NULL /\ e.name = args.name
    BY <1>1, NewEntry, NameAssumption DEF IInv
  <2> HIDE DEF e
  <2>2. /\ environ \in Array
        /\ environ' = [environ EXCEPT ![ep] = e]
        /\ ep \in DOMAIN environ /\ environ[ep] # NULL
        /\ environ[ep].name = args.name
        /\ Terminated(environ)
    BY <1>1, <1>4, ArrayType DEF IInv, InArray, Binds, e
  <2>3. /\ environ' \in Array
        /\ Len(environ') = Len(environ)
        /\ DOMAIN environ' = DOMAIN environ
        /\ \A i \in DOMAIN environ : i # ep => environ'[i] = environ[i]
        /\ environ'[ep] = e
    BY <2>1, <2>2 DEF Array
  <2>4. Terminated(environ')
    <3>1. environ' # <<>> /\ environ'[Len(environ')] = NULL
      <4>1. Len(environ) \in DOMAIN environ /\ Len(environ) # ep
        BY <2>2 DEF Terminated, Array
      <4> QED
        BY <2>2, <2>3, <4>1 DEF Terminated, Array
    <3>2. \A i \in DOMAIN environ : environ'[i] = NULL <=> environ[i] = NULL
      BY <2>1, <2>2, <2>3
    <3> QED
      BY <2>2, <2>3, <3>1, <3>2 DEF Terminated
  <2>5. \A i, n : Binds(environ', i, n) <=> Binds(environ, i, n)
    BY <2>1, <2>2, <2>3 DEF Binds
  <2>6. Doubles'
    BY <1>1, <2>3, <2>5 DEF IInv, Doubles, Twice
  <2> QED
    BY <1>1, <1>4, <2>3, <2>4, <2>6, ReturnHolds
<1> QED
  BY <1>2, <1>3, <1>4 DEF SetenvReplace

LEMMA AtEndHolds ==
    ASSUME IInv, SetenvAtEnd
    PROVE  IInv'
<1>1. /\ pc = "setenv" /\ exists
      /\ environ[ep] = NULL
      /\ refusal(args.name, args.value) = "none"
      /\ UNCHANGED <<args, was, double, ep, exists>>
      /\ ep' \in Nat \ {0}
  BY DEF SetenvAtEnd, Looking, IInv, TypeOK
<1>2. CASE Returns /\ environ' = environ
  BY <1>1, <1>2, SameArray, ReturnHolds DEF IInv, TypeOK
<1>3. CASE args.value # NULL /\ Fails("ENOMEM") /\ environ' = environ
  BY <1>1, <1>3, NoMemoryHolds
<1>4. CASE /\ args.value # NULL
           /\ Returns
           /\ environ' = Extended(environ, ep - 1,
                              [name |-> args.name, value |-> args.value])
  <2> DEFINE e == [name |-> args.name, value |-> args.value]
  <2>1. e \in Entry /\ e.name = args.name /\ args.name \in Name
    BY <1>1, <1>4, NewEntry DEF IInv
  <2> HIDE DEF e
  <2>2. /\ environ \in Array /\ Terminated(environ) /\ ep \in DOMAIN environ
        /\ \A i \in 1 .. ep - 1 : environ[i] # NULL /\ ~Binds(environ, i, args.name)
    BY <1>1, <1>4, ArrayType DEF IInv, InArray, Scanned
  <2>3. /\ environ' \in Array
        /\ Terminated(environ')
        /\ \A i, n : Binds(environ', i, n)
                        <=> Binds(environ, i, n) \/ (i = ep /\ e.name = n)
        /\ \A i, n : Binds(environ, i, n) => i \in 1 .. ep - 1
    BY <1>1, <1>4, <2>1, <2>2, ExtendedFacts DEF e
  <2>4. Doubles'
    <3> SUFFICES ASSUME NEW n \in Name, Twice(environ', n) PROVE n \in double
      BY <1>1 DEF Doubles
    <3>1. PICK i, j : i # j /\ Binds(environ', i, n) /\ Binds(environ', j, n)
      BY DEF Twice
    <3>2. CASE n = args.name
      <4>1. \A k : ~Binds(environ, k, n)
        BY <2>2, <2>3, <3>2
      <4> QED
        BY <2>3, <3>1, <4>1
    <3>3. CASE n # args.name
      <4>1. Binds(environ, i, n) /\ Binds(environ, j, n)
        BY <2>1, <2>3, <3>1, <3>3
      <4>2. Twice(environ, n)
        BY <3>1, <4>1 DEF Twice, Binds
      <4> QED
        BY <4>2 DEF IInv, Doubles
    <3> QED
      BY <3>2, <3>3
  <2> QED
    BY <1>1, <1>4, <2>3, <2>4, ReturnHolds
<1> QED
  BY <1>2, <1>3, <1>4 DEF SetenvAtEnd

LEMMA UnsetAtEndHolds ==
    ASSUME IInv, UnsetenvAtEnd
    PROVE  IInv'
<1>1. /\ environ' = environ /\ exists' = exists /\ double' = double
      /\ UNCHANGED <<args, was, save_errno, errno, ep>>
      /\ pc' = "idle" /\ result' = 0
      /\ errno = save_errno
  BY DEF UnsetenvAtEnd, Unsetting, IInv, Errnos, Asked
<1>2. Terminated(environ') /\ environ' \in Array
      /\ (~exists' => environ' = <<NULL>>) /\ Doubles'
  BY <1>1, SameArray
<1>3. TypeOK' /\ InArray' /\ Errnos' /\ Asked'
  BY <1>1, <1>2 DEF IInv, TypeOK, InArray, Errnos, Asked, Array
<1> QED
  BY <1>1, <1>2, <1>3 DEF IInv, AsBefore, Scanned

LEMMA ReportHolds ==
    ASSUME IInv, Report
    PROVE  IInv'
<1>1. /\ environ' = environ /\ exists' = exists /\ double' = double
      /\ UNCHANGED <<args, was, save_errno, errno, ep>>
      /\ pc' = "idle" /\ result' = -1
      /\ errno \in {"EINVAL", "EFAULT", "ENOMEM"}
  BY DEF Report, IInv, Errnos, Asked
<1>2. Terminated(environ') /\ environ' \in Array
      /\ (~exists' => environ' = <<NULL>>) /\ Doubles'
  BY <1>1, SameArray
<1>3. TypeOK' /\ InArray' /\ Errnos' /\ Asked'
  BY <1>1, <1>2 DEF IInv, TypeOK, InArray, Errnos, Asked, Array
<1> QED
  BY <1>1, <1>2, <1>3 DEF IInv, AsBefore, Scanned

LEMMA NextHolds == IInv /\ [Next]_vars => IInv'
<1> SUFFICES ASSUME IInv, [Next]_vars PROVE IInv'
  OBVIOUS
<1>1. CASE Call
  BY <1>1, CallHolds
<1>2. CASE Work
  BY <1>2, FailHolds, FirstHolds, SkipHolds, DeleteHolds, ReplaceHolds,
     AtEndHolds, UnsetAtEndHolds, ReportHolds DEF Work
<1>3. CASE UNCHANGED vars
  BY <1>3 DEF vars, IInv, TypeOK, InArray, Terminated, AsBefore, Removing, Scanned,
              Doubles, Errnos, Asked, Twice, Binds, Finds
<1> QED
  BY <1>1, <1>2, <1>3 DEF Next

LEMMA Invariance == Spec => []IInv
BY InitHolds, NextHolds, PTL DEF Spec

(***************************************************************************)
(* The types (setenv_on_error.c:54-61).                                    *)
(***************************************************************************)
THEOREM TypeCorrect == Spec => []TypeOK
<1>1. IInv => TypeOK
  BY DEF IInv
<1> QED
  BY <1>1, Invariance, PTL

(***************************************************************************)
(* No loop leaves the array, however many entries it deletes               *)
(* (setenv_on_error.c:113-130, unsetenv_on_error.c:57-77).                 *)
(***************************************************************************)
THEOREM StaysInArray == Spec => []InArray
<1>1. IInv => InArray
  BY DEF IInv
<1> QED
  BY <1>1, Invariance, PTL

-----------------------------------------------------------------------------
(***************************************************************************)
(* Refinement.                                                             *)
(***************************************************************************)

\* The environment is f when getenv finds f(n) for every name n.
LEMMA EnvironmentIs ==
    ASSUME NEW a \in Array, NEW f \in [Name -> Values],
           \A n \in Name : Finds(a, n, f[n])
    PROVE  [n \in Name |-> Lookup(a, n)] = f
<1>1. \A n \in Name : Lookup(a, n) = f[n]
  BY LookupIs
<1> QED
  BY <1>1

\* A call that succeeds with the environment f.
LEMMA ReturnsMaps ==
    ASSUME IInv, Busy, pc' = "idle", errno' = save_errno, result' = 0,
           double' = double, args' = args, NEW f \in [Name -> Values],
           environ' \in Array, \A n \in Name : Finds(environ', n, f[n])
    PROVE  /\ Environment' = f
           /\ EM!Succeeds
<1>1. Environment' = f
  BY EnvironmentIs DEF Environment
<1> QED
  BY <1>1 DEF EM!Succeeds, EM!Ends, Busy

LEMMA InitMaps == Init /\ IInv => EM!EMInit
<1> SUFFICES ASSUME Init, IInv PROVE EM!EMInit
  OBVIOUS
<1>1. Environment \in [Name -> Values]
  BY ArrayType, EnvironmentType DEF IInv
<1> QED
  BY <1>1 DEF Init, EM!EMInit, Values

\* The name that is bound now, and the others as they were.
LEMMA OthersFound ==
    ASSUME IInv, Busy, NEW n \in Name, n # args.name
    PROVE  Finds(environ, n, was[n])
BY DEF IInv, AsBefore, Busy

LEMMA WasType == TypeOK => was \in [Name -> Values]
BY DEF TypeOK, Values

\* The value that EnvMap sees while a call is under way.
LEMMA SetMaps ==
    ASSUME IInv, pc = "setenv", args.value # NULL, Returns, double' = double,
           args' = args,
           refusal(args.name, args.value) = "none",
           environ' \in Array,
           \A n \in Name : n # args.name => Finds(environ', n, was[n]),
           \/ Finds(environ', args.name, args.value)
           \/ ~args.overwrite /\ Finds(environ', args.name, was[args.name]),
           ~args.overwrite /\ was[args.name] # Unset
              => Finds(environ', args.name, was[args.name]),
           was[args.name] = Unset => Finds(environ', args.name, args.value)
    PROVE  EM!Set
<1>1. /\ args.name \in Name /\ args.value \in Value /\ pc # "idle"
      /\ was \in [Name -> Values]
      /\ args.overwrite \in BOOLEAN
  BY Accepted, WasType DEF IInv, TypeOK, Asked
<1> DEFINE f == IF args.overwrite \/ was[args.name] = Unset
                THEN [was EXCEPT ![args.name] = args.value] ELSE was
<1>2. f \in [Name -> Values]
  BY <1>1 DEF Values
<1>3. \A n \in Name : Finds(environ', n, f[n])
  BY <1>1
<1>4. /\ pc' = "idle" /\ errno' = save_errno /\ result' = 0 /\ Busy
  BY DEF Returns, Busy
<1> HIDE DEF f
<1>5. Environment' = f /\ EM!Succeeds
  BY <1>2, <1>3, <1>4, ReturnsMaps
<1> QED
  BY <1>1, <1>4, <1>5 DEF EM!Set, f

LEMMA FirstMaps ==
    ASSUME IInv, IInv', SetenvFirst, Returns
    PROVE  EM!EMNext
<1>1. /\ pc = "setenv" /\ ~exists /\ environ = <<NULL>>
      /\ refusal(args.name, args.value) = "none"
      /\ UNCHANGED <<args, was, double, ep>>
      /\ Busy
      /\ environ' \in Array
      /\ args.name \in Name
      /\ was \in [Name -> Values]
      /\ pc' = "idle" /\ errno' = save_errno /\ result' = 0
  BY ArrayType, Accepted, WasType DEF SetenvFirst, Looking, IInv, Busy, Returns, TypeOK, Array
<1>2. \A n \in Name : n # args.name => was[n] = Unset
  <2> SUFFICES ASSUME NEW n \in Name, n # args.name PROVE was[n] = Unset
    OBVIOUS
  <2>1. Finds(environ, n, was[n]) /\ Finds(environ, n, Unset)
    BY <1>1, OthersFound, EmptyArray
  <2> QED
    BY <1>1, <2>1, EmptyArray, FindsOne
<1>3. CASE args.value = NULL
  <2> DEFINE f == [was EXCEPT ![args.name] = Unset]
  <2>1. environ' = environ
    BY <1>3, <1>1 DEF SetenvFirst, Fails
  <2>2. f \in [Name -> Values] /\ \A n \in Name : f[n] = Unset
    BY <1>1, <1>2 DEF Values
  <2>3. \A n \in Name : Finds(environ', n, f[n])
    BY <1>1, <2>1, <2>2, EmptyArray
  <2> HIDE DEF f
  <2>4. Environment' = f /\ EM!Succeeds
    BY <1>1, <2>2, <2>3, ReturnsMaps
  <2>5. EM!Remove
    BY <1>1, <1>3, <2>4 DEF EM!Remove, f
  <2> QED
    BY <2>5 DEF EM!EMNext
<1>4. CASE args.value # NULL
  <2> DEFINE e == [name |-> args.name, value |-> args.value]
  <2>1. environ' = <<e, NULL>>
    BY <1>1, <1>4 DEF SetenvFirst, Fails
  <2>2. e \in Entry /\ e.name = args.name /\ e.value = args.value
    BY <1>1, <1>4, NewEntry DEF IInv
  <2> HIDE DEF e
  <2>3. /\ Finds(environ', args.name, args.value)
        /\ \A n \in Name : n # args.name => Finds(environ', n, was[n])
    BY <1>2, <2>1, <2>2, OneEntry
  <2>4. was[args.name] = Unset
    <3>1. Finds(environ, args.name, was[args.name])
      BY <1>1, <1>4 DEF IInv, AsBefore, Removing
    <3> QED
      BY <1>1, <3>1, EmptyArray, FindsOne
  <2>5. EM!Set
    BY <1>1, <1>4, <2>3, <2>4, SetMaps
  <2> QED
    BY <2>5 DEF EM!EMNext
<1> QED
  BY <1>3, <1>4

\* The first entry of the name is the one at ep.
LEMMA FoundHere ==
    ASSUME IInv, pc = "setenv", args.value # NULL, Binds(environ, ep, args.name)
    PROVE  /\ Finds(environ, args.name, environ[ep].value)
           /\ environ[ep].value \in Value
           /\ args.name \in Name => was[args.name] = environ[ep].value
<1>1. environ \in Array /\ ep \in DOMAIN environ
  BY ArrayType DEF IInv, InArray
<1>2. Finds(environ, args.name, environ[ep].value)
  BY <1>1 DEF IInv, Scanned, Finds
<1>3. environ[ep].value \in Value
  BY <1>1, ElementType DEF Binds
<1>4. args.name \in Name => Finds(environ, args.name, was[args.name])
  BY DEF IInv, AsBefore, Removing
<1> QED
  BY <1>1, <1>2, <1>3, <1>4, FindsOne

LEMMA ReplaceMaps ==
    ASSUME IInv, IInv', SetenvReplace, Returns
    PROVE  EM!EMNext
<1>1. /\ pc = "setenv" /\ exists
      /\ Binds(environ, ep, args.name)
      /\ args.value # NULL
      /\ refusal(args.name, args.value) = "none"
      /\ UNCHANGED <<args, was, double, ep>>
      /\ Busy
      /\ environ \in Array /\ environ' \in Array
      /\ ep \in DOMAIN environ
  BY ArrayType DEF SetenvReplace, Looking, Here, IInv, Busy, TypeOK, Array, InArray
<1>2. /\ args.name \in Name /\ args.value \in Value
      /\ args.overwrite \in BOOLEAN
  BY <1>1, Accepted DEF IInv, TypeOK, Asked
<1>3. /\ Finds(environ, args.name, environ[ep].value)
      /\ environ[ep].value \in Value
      /\ was[args.name] = environ[ep].value
      /\ was[args.name] # Unset
  BY <1>1, <1>2, FoundHere, NameAssumption
<1>4. \A n \in Name : n # args.name => Finds(environ, n, was[n])
  BY <1>1, OthersFound
<1>5. CASE ~must_change
  <2>1. environ' = environ
    BY <1>5 DEF SetenvReplace
  <2>2. EM!Set
    BY <1>1, <1>3, <1>4, <1>5, <2>1, SetMaps DEF must_change
  <2> QED
    BY <2>2 DEF EM!EMNext
<1>6. CASE must_change
  <2> DEFINE e == [name |-> args.name, value |-> args.value]
  <2>1. environ' = [environ EXCEPT ![ep] = e]
    BY <1>6 DEF SetenvReplace, Returns, Fails
  <2>2. e \in Entry /\ e # NULL /\ e.name = args.name /\ e.value = args.value
    BY <1>1, NewEntry, NameAssumption DEF IInv
  <2> HIDE DEF e
  <2>3. /\ DOMAIN environ' = DOMAIN environ
        /\ environ'[ep] = e
        /\ \A i \in DOMAIN environ : i # ep => environ'[i] = environ[i]
    BY <1>1, <2>1 DEF Array
  <2>4. \A i, n : Binds(environ', i, n) <=> Binds(environ, i, n)
    BY <1>1, <2>2, <2>3 DEF Binds
  <2>5. Finds(environ', args.name, args.value)
    BY <1>1, <2>2, <2>3, <2>4 DEF Finds, IInv, Scanned
  <2>6. ASSUME NEW n \in Name, n # args.name
        PROVE  Finds(environ', n, was[n])
    <3>1. Finds(environ, n, was[n])
      BY <1>4, <2>6
    <3>2. ~Binds(environ, ep, n)
      BY <1>1, <2>6 DEF Binds
    <3>3. \A i \in DOMAIN environ : Binds(environ, i, n) => environ'[i] = environ[i]
      BY <2>3, <3>2
    <3> QED
      BY <2>3, <2>4, <3>1, <3>3 DEF Finds
  <2>7. args.overwrite
    BY <1>6 DEF must_change
  <2>8. EM!Set
    BY <1>1, <1>3, <2>5, <2>6, <2>7, SetMaps
  <2> QED
    BY <2>8 DEF EM!EMNext
<1> QED
  BY <1>5, <1>6

LEMMA AtEndMaps ==
    ASSUME IInv, IInv', SetenvAtEnd, Returns
    PROVE  EM!EMNext
<1>1. /\ pc = "setenv" /\ exists
      /\ environ[ep] = NULL
      /\ refusal(args.name, args.value) = "none"
      /\ UNCHANGED <<args, was, double, ep>>
      /\ Busy
      /\ environ \in Array /\ environ' \in Array
      /\ Len(environ) \in Nat /\ DOMAIN environ = 1 .. Len(environ)
      /\ ep \in DOMAIN environ
      /\ Terminated(environ)
      /\ was \in [Name -> Values]
  BY ArrayType, WasType
  DEF SetenvAtEnd, Looking, IInv, Busy, TypeOK, Array, InArray
<1>2. args.name \in Name /\ args.overwrite \in BOOLEAN
  BY <1>1, Accepted DEF IInv, TypeOK
<1>3. \A n \in Name : n # args.name => Finds(environ, n, was[n])
  BY <1>1, OthersFound
<1>4. ASSUME NEW i, Binds(environ, i, args.name)
      PROVE  i \in 1 .. ep - 1
  <2>1. i \in DOMAIN environ /\ environ[i] # NULL
    BY <1>4 DEF Binds
  <2>2. ~(ep <= i)
    BY <1>1, <2>1 DEF Terminated
  <2> QED
    BY <1>1, <2>1, <2>2
<1>5. CASE args.value = NULL
  <2> DEFINE v == Lookup(environ', args.name)
             f == [was EXCEPT ![args.name] = v]
  <2>1. environ' = environ /\ pc' = "idle" /\ errno' = save_errno /\ result' = 0
    BY <1>5 DEF SetenvAtEnd, Returns, Fails
  <2>2. v \in Values /\ Finds(environ', args.name, v)
    BY <1>1, LookupType
  <2> HIDE DEF v
  <2>3. f \in [Name -> Values]
    BY <1>1, <2>2
  <2>4. \A n \in Name : Finds(environ', n, f[n])
    BY <1>1, <1>2, <1>3, <2>1, <2>2
  <2> HIDE DEF f
  <2>5. Environment' = f /\ EM!Succeeds
    BY <1>1, <2>1, <2>3, <2>4, ReturnsMaps
  <2>6. CASE v = Unset
    <3>1. EM!Remove
      BY <1>1, <1>2, <1>5, <2>1, <2>5, <2>6 DEF EM!Remove, f
    <3> QED
      BY <3>1 DEF EM!EMNext
  <2>7. CASE v # Unset
    <3>1. v \in Value
      BY <2>2, <2>7 DEF Values
    <3>2. args.name \in double
      <4> SUFFICES ASSUME args.name \notin double PROVE FALSE
        OBVIOUS
      <4>1. \A i \in 1 .. ep - 1 : ~Binds(environ, i, args.name)
        BY <1>1 DEF IInv, Scanned
      <4>2. Finds(environ, args.name, Unset)
        BY <1>4, <4>1 DEF Finds
      <4> QED
        BY <1>1, <2>1, <2>2, <2>7, <4>2, FindsOne
    <3>3. EM!Uncover
      BY <1>1, <1>5, <2>1, <2>5, <3>1, <3>2 DEF EM!Uncover, f
    <3> QED
      BY <3>3 DEF EM!EMNext
  <2> QED
    BY <2>6, <2>7
<1>6. CASE args.value # NULL
  <2> DEFINE e == [name |-> args.name, value |-> args.value]
  <2>1. environ' = Extended(environ, ep - 1, e)
    BY <1>6 DEF SetenvAtEnd, Returns, Fails
  <2>2. e \in Entry /\ e.name = args.name /\ e.value = args.value
    BY <1>1, <1>6, NewEntry DEF IInv
  <2> HIDE DEF e
  <2>3. \A i \in 1 .. ep - 1 : environ[i] # NULL /\ ~Binds(environ, i, args.name)
    BY <1>1, <1>6 DEF IInv, Scanned
  <2>4. /\ \A i, n : Binds(environ', i, n)
                        <=> Binds(environ, i, n) \/ (i = ep /\ e.name = n)
        /\ \A i, n : Binds(environ, i, n) =>
                          i \in 1 .. ep - 1 /\ environ'[i] = environ[i]
        /\ environ'[ep] = e
    BY <1>1, <2>1, <2>2, <2>3, ExtendedFacts
  <2>5. \A i : ~Binds(environ, i, args.name)
    BY <1>4, <2>3
  <2>6. Finds(environ', args.name, args.value)
    <3>1. Binds(environ', ep, args.name) /\ ep \in DOMAIN environ'
      BY <2>2, <2>4 DEF Binds
    <3>2. \A j \in 1 .. ep - 1 : ~Binds(environ', j, args.name)
      <4>1. \A j \in 1 .. ep - 1 : j # ep
        BY <1>1
      <4> QED
        BY <2>4, <2>5, <4>1
    <3> QED
      BY <2>2, <2>4, <3>1, <3>2 DEF Finds
  <2>7. ASSUME NEW n \in Name, n # args.name
        PROVE  Finds(environ', n, was[n])
    <3>1. Finds(environ, n, was[n])
      BY <1>3, <2>7
    <3>2. \A i : /\ Binds(environ', i, n) <=> Binds(environ, i, n)
                 /\ Binds(environ, i, n) => environ'[i] = environ[i]
      BY <2>2, <2>4, <2>7
    <3>3. \A i : Binds(environ', i, n) => i \in DOMAIN environ' /\ i \in DOMAIN environ
      BY <3>2 DEF Binds
    <3> QED
      BY <3>1, <3>2, <3>3 DEF Finds
  <2>8. was[args.name] = Unset
    <3>1. Finds(environ, args.name, was[args.name])
      BY <1>1, <1>2, <1>6 DEF IInv, AsBefore, Removing
    <3> QED
      BY <2>5, <3>1 DEF Finds
  <2>9. EM!Set
    BY <1>1, <1>6, <2>6, <2>7, <2>8, SetMaps
  <2> QED
    BY <2>9 DEF EM!EMNext
<1> QED
  BY <1>5, <1>6

\* unsetenv has looked at every entry.
LEMMA UnsetAtEndMaps ==
    ASSUME IInv, IInv', UnsetenvAtEnd
    PROVE  EM!EMNext
<1>1. /\ pc = "unsetenv" /\ Busy
      /\ environ' = environ
      /\ UNCHANGED <<args, was, double, save_errno>>
      /\ pc' = "idle" /\ result' = 0 /\ errno' = save_errno
      /\ args.name \in Name
      /\ was \in [Name -> Values]
      /\ environ \in Array /\ Len(environ) \in Nat
      /\ DOMAIN environ = 1 .. Len(environ)
      /\ ep \in DOMAIN environ
      /\ Terminated(environ)
  BY ArrayType, WasType
  DEF UnsetenvAtEnd, Unsetting, IInv, Busy, TypeOK, Array, InArray, Errnos, Asked
<1>2. Finds(environ, args.name, Unset)
  <2> SUFFICES ASSUME NEW i \in DOMAIN environ, Binds(environ, i, args.name)
               PROVE  FALSE
    BY DEF Finds
  <2>1. CASE ~exists
    <3>1. environ = <<NULL>>
      BY <2>1 DEF IInv
    <3>2. environ[i] = NULL
      BY <3>1
    <3> QED
      BY <3>2 DEF Binds
  <2>2. CASE environ[ep] = NULL
    <3>1. ~(ep <= i)
      BY <1>1, <2>2 DEF Terminated, Binds
    <3>2. i \in 1 .. ep - 1
      BY <1>1, <3>1
    <3> QED
      BY <1>1, <3>2 DEF IInv, Scanned
  <2> QED
    BY <2>1, <2>2 DEF UnsetenvAtEnd
<1> DEFINE f == [was EXCEPT ![args.name] = Unset]
<1>3. f \in [Name -> Values]
  BY <1>1 DEF Values
<1>4. \A n \in Name : Finds(environ', n, f[n])
  BY <1>1, <1>2, OthersFound
<1> HIDE DEF f
<1>5. Environment' = f /\ EM!Succeeds
  BY <1>1, <1>3, <1>4, ReturnsMaps
<1>6. EM!Remove
  BY <1>1, <1>5 DEF EM!Remove, f, IInv, Asked
<1> QED
  BY <1>6 DEF EM!EMNext

LEMMA ReportMaps ==
    ASSUME IInv, IInv', Report
    PROVE  EM!EMNext
<1>1. /\ pc = "failed" /\ pc' = "idle" /\ result' = -1
      /\ environ' = environ /\ double' = double /\ errno' = errno
      /\ args' = args
      /\ errno \in {"EINVAL", "EFAULT", "ENOMEM"}
      /\ environ \in Array /\ was \in [Name -> Values]
  BY ArrayType, WasType DEF Report, IInv, Errnos, Asked
<1>2. \A n \in Name : Finds(environ, n, was[n])
  BY <1>1 DEF IInv, AsBefore, Removing
<1>3. Environment = was
  BY <1>1, <1>2, EnvironmentIs DEF Environment
<1>4. Environment' = was
  BY <1>1, <1>3 DEF Environment
<1>5. EM!Fail
  BY <1>1, <1>4 DEF EM!Fail, EM!Ends
<1> QED
  BY <1>5 DEF EM!EMNext

\* A call that begins.
LEMMA BeginMaps ==
    ASSUME IInv, Call, ~ClientErrno
    PROVE  EM!EMNext
<1>1. /\ pc = "idle" /\ pc' \in {"setenv", "unsetenv"}
      /\ was' = Environment /\ save_errno' = errno
      /\ double' = double /\ result' = result
  BY DEF Call, Setenv, Unsetenv, Calls
<1>2. EM!Begin
  BY <1>1 DEF EM!Begin
<1> QED
  BY <1>2 DEF EM!EMNext

\* A call that goes on, or fails, is not seen yet.
LEMMA Unseen ==
    ASSUME IInv, [Next]_vars, ~Call,
           ~(Report \/ UnsetenvAtEnd),
           ~((SetenvFirst \/ SetenvReplace \/ SetenvAtEnd) /\ Returns)
    PROVE  UNCHANGED EM!emVars
<1>1. CASE UNCHANGED vars
  <2>1. Environment' = Environment
    BY <1>1 DEF vars, Environment, Lookup, Finds, Binds
  <2> QED
    BY <1>1, <2>1 DEF vars, EM!emVars
<1>2. CASE Work
  BY <1>2 DEF Work, SetenvRefuses, SetenvFirst, SetenvSkip, SetenvDelete,
              SetenvReplace, SetenvAtEnd, UnsetenvRefuses, UnsetenvSkip,
              UnsetenvDelete, Looking, Unsetting, Fails, EM!emVars
<1> QED
  BY <1>1, <1>2 DEF Next

LEMMA StepMaps ==
    ASSUME IInv, IInv', [Next]_vars
    PROVE  [EM!EMNext]_(EM!emVars)
<1>1. CASE ClientErrno
  <2>1. Environment' = Environment
    BY <1>1 DEF ClientErrno, Environment, Lookup, Finds, Binds
  <2>2. EM!ClientErrno
    BY <1>1, <2>1 DEF ClientErrno, EM!ClientErrno
  <2> QED
    BY <2>2 DEF EM!EMNext
<1>2. CASE Report
  BY <1>2, ReportMaps
<1>3. CASE UnsetenvAtEnd
  BY <1>3, UnsetAtEndMaps
<1>4. CASE (SetenvFirst \/ SetenvReplace \/ SetenvAtEnd) /\ Returns
  BY <1>4, FirstMaps, ReplaceMaps, AtEndMaps
<1>5. CASE Call /\ ~ClientErrno
  BY <1>5, BeginMaps
<1> QED
  BY <1>1, <1>2, <1>3, <1>4, <1>5, Unseen

(***************************************************************************)
(* setenv and unsetenv implement EnvMap: a map from names to values, the   *)
(* one exception being setenv(name, NULL) of a name that was inherited     *)
(* more than once (setenv_on_error.c, unsetenv_on_error.c).                *)
(***************************************************************************)
THEOREM Refinement == Spec => IsEnvMap
<1>1. Init => EM!EMInit
  BY InitHolds, InitMaps
<1>2. IInv /\ IInv' /\ [Next]_vars => [EM!EMNext]_(EM!emVars)
  BY StepMaps
<1> QED
  BY <1>1, <1>2, Invariance, PTL DEF Spec, IsEnvMap, EM!EMSpec
===============================================================================
