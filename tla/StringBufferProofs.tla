-------------------------- MODULE StringBufferProofs --------------------------
(***************************************************************************)
(* Every call of the string buffer keeps the longest prefix of what was    *)
(* asked in the array, terminated, whatever the size of the array, and the *)
(* string buffer implements BoundedText.                                   *)
(***************************************************************************)
EXTENDS StringBuffer, FiniteSetTheorems, TLAPS

Type == [message : [0 .. maximum - 1 -> Char \cup {NUL}], position : Nat]

\* What each call needs: nothing is said of the terminator, which a client
\* that sets the position to 0 has lost.
Ready(b, a) ==
    /\ maximum \in Nat \ {0}
    /\ b \in Type
    /\ a \in Seq(Char)
    /\ Carries(b, a)
    /\ Tells(b, a)

\* What each call leaves.
Holds(b, a) == Ready(b, a) /\ Shows(b, a)

\* The length and the elements of a prefix.
LEMMA PrefixFacts ==
    ASSUME NEW S, NEW s \in Seq(S), NEW n \in Nat
    PROVE  /\ BT!Prefix(s, n) \in Seq(S)
           /\ Len(BT!Prefix(s, n)) = Least(Len(s), n)
           /\ \A i \in 1 .. Least(Len(s), n) : BT!Prefix(s, n)[i] = s[i]
BY DEF BT!Prefix, Least

\* Storing s behind the text adds as much of it as fits.
LEMMA FilledHolds ==
    ASSUME NEW STATE b, NEW STATE a, NEW s \in Seq(Char), Ready(b, a), b.position < maximum
    PROVE  /\ Holds(Filled(b, s), a \o s)
           /\ Filled(b, s).position = b.position + Least(Len(s), Available(b))
           /\ Filled(b, s).position <= maximum - 1
<1> DEFINE n   == Available(b)
           cut == BT!Prefix(s, n)
           f   == Filled(b, s)
           at  == b.position
<1>1. /\ maximum \in Nat \ {0}
      /\ b.message \in [0 .. maximum - 1 -> Char \cup {NUL}]
      /\ at \in 0 .. maximum - 1
      /\ a \in Seq(Char)
  BY DEF Ready, Type
<1>2. n \in Nat /\ n = maximum - 1 - at
  BY <1>1 DEF Available
<1>3. /\ cut \in Seq(Char)
      /\ Len(cut) = Least(Len(s), n)
      /\ \A i \in 1 .. Len(cut) : cut[i] = s[i]
  BY <1>2, PrefixFacts
<1>4. Len(cut) \in Nat /\ Len(cut) <= n
  BY <1>2, <1>3 DEF Least
<1>5. /\ f.message = [i \in 0 .. maximum - 1 |->
                        IF at <= i /\ i < at + Len(cut) THEN cut[i - at + 1]
                        ELSE IF i = at + Len(cut) THEN NUL
                        ELSE b.message[i]]
      /\ f.position = at + Len(cut)
  BY <1>1 DEF Filled, Stored
<1> HIDE DEF n, cut, f
<1>6. /\ f.message \in [0 .. maximum - 1 -> Char \cup {NUL}]
      /\ f.position \in Nat
      /\ f.position <= maximum - 1
  <2>1. ASSUME NEW i \in 0 .. maximum - 1, at <= i, i < at + Len(cut)
        PROVE  cut[i - at + 1] \in Char
    <3>1. i - at + 1 \in 1 .. Len(cut)
      BY <1>1, <1>4, <2>1
    <3> QED
      BY <3>1, <1>3
  <2>2. ASSUME NEW i \in 0 .. maximum - 1
        PROVE  f.message[i] \in Char \cup {NUL}
    BY <1>1, <1>5, <2>1
  <2>3. f.message \in [0 .. maximum - 1 -> Char \cup {NUL}]
    BY <1>5, <2>2
  <2> QED
    BY <2>3, <1>1, <1>2, <1>4, <1>5
<1>7. f \in Type
  <2>1. f = [message |-> f.message, position |-> f.position]
    BY DEF f, Filled
  <2> QED
    BY <1>6, <2>1 DEF Type
<1>8. a \o s \in Seq(Char) /\ Len(a \o s) = Len(a) + Len(s)
  BY <1>1
<1>9. \/ Len(a) <= maximum - 1 /\ at = Len(a)
      \/ Len(a) > maximum - 1 /\ at = maximum - 1
  BY <1>1 DEF Ready, Tells, full, at
<1>10. f.position = Least(Len(a \o s), maximum - 1)
  <2>1. Len(a) \in Nat /\ Len(s) \in Nat
    BY <1>1
  <2>2. Len(cut) = IF Len(s) < n THEN Len(s) ELSE n
    BY <1>3 DEF Least
  <2>3. f.position = IF Len(a) + Len(s) < maximum - 1 THEN Len(a) + Len(s)
                                                      ELSE maximum - 1
    <3>1. at \in Int /\ maximum \in Int /\ n = maximum - 1 - at
      BY <1>1, <1>2
    <3>2. f.position = at + Len(cut)
      BY <1>5
    <3> HIDE DEF at
    <3> QED
      BY <2>1, <2>2, <3>1, <3>2, <1>9
  <2> QED
    BY <2>3, <1>8 DEF Least
<1>11. f.message[f.position] = NUL
  BY <1>1, <1>4, <1>5, <1>6
<1>12. ASSUME NEW i \in 1 .. f.position
       PROVE  f.message[i - 1] = (a \o s)[i]
  <2>1. CASE i <= at
    <3>1. f.message[i - 1] = b.message[i - 1]
      BY <2>1, <1>1, <1>4, <1>5, <1>6
    <3>2. at = Least(Len(a), maximum - 1)
      BY <1>1, <1>9 DEF Least
    <3>3. b.message[i - 1] = a[i]
      BY <2>1, <3>2, <1>1 DEF Ready, Carries
    <3>4. i \in 1 .. Len(a)
      BY <2>1, <1>1, <1>9
    <3> QED
      BY <3>1, <3>3, <3>4, <1>1
  <2>2. CASE i > at
    <3>1. /\ i - at \in 1 .. Len(cut)
          /\ i - 1 \in 0 .. maximum - 1
          /\ at <= i - 1 /\ i - 1 < at + Len(cut)
      BY <2>2, <1>1, <1>4, <1>5, <1>6, SMTT(60)
    <3>2. f.message[i - 1] = cut[(i - 1) - at + 1]
      BY <3>1, <1>5
    <3>3. (i - 1) - at + 1 = i - at
      BY <1>1
    <3>4. f.message[i - 1] = s[i - at]
      BY <3>1, <3>2, <3>3, <1>3
    <3>5. at = Len(a)
      BY <3>1, <1>1, <1>2, <1>4, <1>9
    <3>6. i - at \in 1 .. Len(s)
      BY <3>1, <1>2, <1>3 DEF Least
    <3> QED
      BY <3>4, <3>5, <3>6, <1>1
  <2>3. at \in Int
    BY <1>1
  <2>4. f.position \in Int
    BY <1>6
  <2>5. i <= at \/ i > at
    BY <2>3, <2>4
  <2> QED
    BY <2>1, <2>2, <2>5
<1>13. Carries(f, a \o s) /\ Shows(f, a \o s)
  BY <1>10, <1>11, <1>12 DEF Carries, Shows
<1>14. Tells(f, a \o s)
  <2>1. maximum \in Int /\ Len(a) \in Nat /\ Len(s) \in Nat
    BY <1>1
  <2> QED
    BY <2>1, <1>8, <1>10 DEF Tells, full, Least
<1> QED
  BY <1>1, <1>2, <1>3, <1>5, <1>6, <1>7, <1>8, <1>13, <1>14
  DEF Holds, Ready, f, at, n

\* A full buffer holds whatever else it is asked to.
LEMMA FullHolds ==
    ASSUME NEW STATE b, NEW STATE a, NEW s \in Seq(Char), Holds(b, a), full(b)
    PROVE  Holds(b, a \o s)
<1>1. /\ maximum \in Nat \ {0}
      /\ a \in Seq(Char)
      /\ b.position \in Nat
      /\ b.position >= maximum - 1
  BY DEF Holds, Ready, Type, full
<1>2. Len(a) >= maximum - 1
  BY <1>1 DEF Holds, Ready, Tells
<1>3. /\ a \o s \in Seq(Char)
      /\ Len(a \o s) = Len(a) + Len(s)
      /\ \A i \in 1 .. Len(a) : (a \o s)[i] = a[i]
  BY <1>1
<1>4. /\ Least(Len(a \o s), maximum - 1) = maximum - 1
      /\ Least(Len(a), maximum - 1) = maximum - 1
  BY <1>1, <1>2, <1>3 DEF Least
<1>5. Carries(b, a \o s) /\ Shows(b, a \o s)
  <2>1. ASSUME NEW i \in 1 .. maximum - 1
        PROVE  b.message[i - 1] = (a \o s)[i]
    <3>1. i \in 1 .. Len(a)
      BY <1>1, <1>2
    <3> QED
      BY <3>1, <1>3, <1>4 DEF Holds, Shows, Carries
  <2> QED
    BY <2>1, <1>4 DEF Holds, Shows, Carries
<1>6. Tells(b, a \o s)
  BY <1>1, <1>2, <1>3 DEF Tells, Holds, Ready, full
<1> QED
  BY <1>3, <1>5, <1>6 DEF Holds, Ready

\* The calls that add text.
LEMMA PutsHolds ==
    ASSUME NEW STATE b, NEW STATE a, NEW s \in Seq(Char),
           Ready(b, a), b.position < maximum \/ Holds(b, a)
    PROVE  /\ Holds(puts(b, s), a \o s)
           /\ b.position <= maximum => puts(b, s).position <= maximum
<1>1. maximum \in Nat \ {0} /\ b.position \in Nat /\ a \in Seq(Char)
  BY DEF Ready, Type
<1>2. CASE b.position >= maximum
  <2>1. Holds(b, a) /\ full(b)
    BY <1>1, <1>2 DEF full
  <2> QED
    BY <1>2, <2>1, FullHolds DEF puts
<1>3. CASE b.position < maximum
  <2> DEFINE f == Filled(b, s)
  <2>1. /\ Holds(f, a \o s)
        /\ f.position = b.position + Least(Len(s), Available(b))
        /\ f.position <= maximum - 1
    BY <1>3, FilledHolds
  <2>2. CASE Len(s) <= Available(b)
    <3>1. puts(b, s) = f
      BY <1>1, <1>3, <2>2 DEF puts, Available
    <3> QED
      BY <1>1, <2>1, <3>1 DEF Holds, Ready, Type
  <2>3. CASE Len(s) > Available(b)
    <3> DEFINE g == [f EXCEPT !.position = maximum]
    <3>1. puts(b, s) = g
      BY <1>1, <1>3, <2>3 DEF puts, Available
    <3>2. f \in Type /\ a \o s \in Seq(Char) /\ Len(a \o s) = Len(a) + Len(s)
      BY <2>1, <1>1 DEF Holds, Ready
    <3>3. g.message = f.message /\ g.position = maximum /\ g \in Type
      BY <1>1, <3>2 DEF Type
    <3>4. Len(a \o s) > maximum - 1
      BY <1>1, <1>3, <2>3, <3>2 DEF Ready, Tells, full, Available
    <3>5. Carries(g, a \o s) /\ Shows(g, a \o s)
      BY <2>1, <3>3 DEF Holds, Shows, Carries
    <3>6. Tells(g, a \o s)
      BY <1>1, <3>3, <3>4 DEF Tells, full
    <3> HIDE DEF g
    <3> QED
      BY <1>1, <3>1, <3>2, <3>3, <3>5, <3>6 DEF Holds, Ready
  <2> QED
    BY <1>1, <2>2, <2>3 DEF Available
<1> QED
  BY <1>1, <1>2, <1>3

LEMMA PutcHolds ==
    ASSUME NEW STATE b, NEW STATE a, NEW c \in Char, Holds(b, a)
    PROVE  /\ Holds(putc(b, c), Append(a, c))
           /\ b.position <= maximum => putc(b, c).position <= maximum
<1>1. maximum \in Nat \ {0} /\ b.position \in Nat /\ a \in Seq(Char)
  BY DEF Holds, Ready, Type
<1>2. <<c>> \in Seq(Char) /\ Append(a, c) = a \o <<c>>
  BY <1>1
<1>3. CASE b.position < maximum - 1
  <2>1. /\ Holds(Filled(b, <<c>>), a \o <<c>>)
        /\ Filled(b, <<c>>).position <= maximum - 1
    <3>1. Ready(b, a) /\ b.position < maximum
      BY <1>1, <1>3 DEF Holds
    <3> QED
      BY <1>2, <3>1, FilledHolds
  <2> QED
    BY <1>1, <1>2, <1>3, <2>1 DEF putc, Holds, Ready, Type
<1>4. CASE ~(b.position < maximum - 1)
  <2>1. full(b)
    BY <1>1, <1>4 DEF full
  <2> QED
    BY <1>2, <1>4, <2>1, FullHolds DEF putc
<1> QED
  BY <1>3, <1>4

LEMMA WriteHolds ==
    ASSUME NEW STATE b, NEW STATE a, NEW s \in Seq(Char), Holds(b, a)
    PROVE  /\ Holds(write(b, s), a \o s)
           /\ b.position <= maximum => write(b, s).position <= maximum
<1>1. maximum \in Nat \ {0} /\ b.position \in Nat /\ a \in Seq(Char)
  BY DEF Holds, Ready, Type
<1>3. CASE b.position + 1 < maximum
  <2>1. /\ Holds(Filled(b, s), a \o s)
        /\ Filled(b, s).position <= maximum - 1
    BY <1>1, <1>3, FilledHolds DEF Holds
  <2> QED
    BY <1>1, <1>3, <2>1 DEF write, Holds, Ready, Type
<1>4. CASE ~(b.position + 1 < maximum)
  <2>1. full(b)
    BY <1>1, <1>4 DEF full
  <2> QED
    BY <1>4, <2>1, FullHolds DEF write
<1> QED
  BY <1>3, <1>4

-----------------------------------------------------------------------------
(***************************************************************************)
(* path_join.                                                              *)
(***************************************************************************)

\* What did not fit does not matter to the array.
LEMMA SameFront ==
    ASSUME NEW STATE b, NEW STATE a, NEW STATE a2, a2 \in Seq(Char), Holds(b, a),
           Len(a) > maximum - 1, Len(a2) > maximum - 1,
           \A i \in 1 .. maximum - 1 : a2[i] = a[i]
    PROVE  Holds(b, a2)
<1>1. maximum \in Nat \ {0} /\ a \in Seq(Char) /\ b.position \in Nat
  BY DEF Holds, Ready, Type
<1>2. Len(a) \in Nat /\ Len(a2) \in Nat
  BY <1>1
<1>3. /\ Least(Len(a), maximum - 1) = maximum - 1
      /\ Least(Len(a2), maximum - 1) = maximum - 1
  BY <1>1, <1>2 DEF Least
<1>4. Carries(b, a2) /\ Shows(b, a2)
  BY <1>3 DEF Holds, Shows, Carries
<1>5. Tells(b, a2)
  BY <1>1, <1>2 DEF Tells, Holds, Ready
<1> QED
  BY <1>4, <1>5 DEF Holds, Ready

LEMMA SkippedType ==
    ASSUME NEW s \in Seq(Char)
    PROVE  Skipped(s) \in Seq(Char)
<1> DEFINE D == {j \in 1 .. Len(s) : \A i \in 1 .. j :
                            /\ 2 * i <= Len(s)
                            /\ s[2 * i - 1] = Dot
                            /\ s[2 * i] = Slash}
<1>1. Len(s) \in Nat
  OBVIOUS
<1>2. IsFiniteSet(1 .. Len(s))
  BY <1>1, FS_Interval
<1>3. IsFiniteSet(D)
  BY <1>2, FS_Subset
<1>4. Cardinality(D) \in Nat
  BY <1>3, FS_CardinalityType
<1>5. Dots(s) \in Nat
  BY <1>4 DEF Dots
<1> QED
  BY <1>1, <1>5 DEF Skipped

\* A path of "." has one character, and the array shows it.
LEMMA DotSeen ==
    ASSUME NEW STATE b, NEW STATE a, Holds(b, a), maximum > 2
    PROVE  (b.position = 1 /\ b.message[0] = Dot) <=> a = <<Dot>>
<1>1. /\ maximum \in Nat
      /\ a \in Seq(Char)
      /\ Len(a) \in Nat
      /\ b.position \in Nat
  BY DEF Holds, Ready, Type
<1>2. ASSUME b.position = 1, b.message[0] = Dot
      PROVE  a = <<Dot>>
  <2>1. Len(a) = 1
    BY <1>1, <1>2 DEF Holds, Ready, Tells, full
  <2>2. Least(Len(a), maximum - 1) = 1
    BY <1>1, <2>1 DEF Least
  <2>3. b.message[1 - 1] = a[1]
    BY <2>2 DEF Holds, Shows, Carries
  <2> QED
    BY <1>1, <1>2, <2>1, <2>3
<1>3. ASSUME a = <<Dot>>
      PROVE  b.position = 1 /\ b.message[0] = Dot
  <2>1. Len(a) = 1 /\ a[1] = Dot
    BY <1>3
  <2>2. Least(Len(a), maximum - 1) = 1
    BY <1>1, <2>1 DEF Least
  <2>3. b.message[1 - 1] = a[1]
    BY <2>2 DEF Holds, Shows, Carries
  <2>4. b.position = 1
    BY <1>1, <2>1 DEF Holds, Ready, Tells
  <2> QED
    BY <2>1, <2>3, <2>4
<1> QED
  BY <1>2, <1>3

LEMMA JoinHolds ==
    ASSUME NEW STATE b, NEW STATE a, NEW t \in Seq(Char), Holds(b, a),
           t # <<>>, maximum # 2, b.position <= maximum
    PROVE  /\ Holds(path_join(b, t), BT!Joined(a, t))
           /\ path_join(b, t).position <= maximum
<1>1. /\ maximum \in Nat \ {0}
      /\ b \in Type
      /\ b.position \in Nat
      /\ a \in Seq(Char)
      /\ Slash \in Char /\ Dot \in Char
      /\ Len(a) \in Nat /\ Len(t) \in Nat /\ Len(t) > 0
  BY CharAssumption DEF Holds, Ready, Type
<1>2. /\ Append(a, Slash) \in Seq(Char)
      /\ Append(a, Slash) \o t \in Seq(Char)
      /\ a \o t \in Seq(Char)
      /\ Len(Append(a, Slash) \o t) = Len(a) + 1 + Len(t)
      /\ Len(a \o t) = Len(a) + Len(t)
      /\ \A i \in 1 .. Len(a) : /\ (Append(a, Slash) \o t)[i] = a[i]
                                /\ (a \o t)[i] = a[i]
  BY <1>1
<1>3. /\ Holds(puts(b, t), a \o t)
      /\ puts(b, t).position <= maximum
  BY <1>1, PutsHolds DEF Holds
<1>4. /\ Holds(puts(putc(b, Slash), t), Append(a, Slash) \o t)
      /\ puts(putc(b, Slash), t).position <= maximum
  <2>1. /\ Holds(putc(b, Slash), Append(a, Slash))
        /\ putc(b, Slash).position <= maximum
    BY <1>1, PutcHolds
  <2>2. Ready(putc(b, Slash), Append(a, Slash))
    BY <2>1 DEF Holds
  <2> QED
    BY <2>1, <2>2, PutsHolds
<1>5. CASE maximum = 1
  <2>1. b.message[0] = NUL
    BY <1>1, <1>5 DEF Holds, Shows, Least
  <2>2. NUL # Dot /\ NUL # Slash
    BY CharAssumption
  <2>3. \/ path_join(b, t) = puts(b, t)
        \/ path_join(b, t) = puts(putc(b, Slash), t)
    BY <2>1, <2>2 DEF path_join
  <2>4. /\ BT!Joined(a, t) \in {t, a \o t, Append(a, Slash) \o t}
        /\ BT!Joined(a, t) \in Seq(Char)
        /\ Len(BT!Joined(a, t)) > 0
    BY <1>1, <1>2 DEF BT!Joined
  <2>5. /\ Len(a \o t) > maximum - 1
        /\ Len(Append(a, Slash) \o t) > maximum - 1
        /\ Len(BT!Joined(a, t)) > maximum - 1
    BY <1>1, <1>2, <1>5, <2>4
  <2>6. \A i \in 1 .. maximum - 1 : FALSE
    BY <1>5
  <2>7. /\ Holds(puts(b, t), BT!Joined(a, t))
        /\ Holds(puts(putc(b, Slash), t), BT!Joined(a, t))
    BY <1>3, <1>4, <2>4, <2>5, <2>6, SameFront
  <2> QED
    BY <1>3, <1>4, <2>3, <2>7
<1>6. CASE maximum > 2 /\ a = <<Dot>>
  <2> DEFINE b0 == [b EXCEPT !.position = 0]
  <2>1. path_join(b, t) = puts(b0, t)
    BY <1>6, DotSeen DEF path_join
  <2>2. BT!Joined(a, t) = <<>> \o t
    BY <1>1, <1>6 DEF BT!Joined
  <2>3. Ready(b0, <<>>) /\ b0.position = 0
    <3>1. b0 \in Type /\ b0.position = 0
      BY <1>1 DEF Type
    <3>2. Carries(b0, <<>>)
      BY <1>1 DEF Carries, Least
    <3>3. Tells(b0, <<>>)
      BY <1>1, <3>1 DEF Tells
    <3> QED
      BY <1>1, <3>1, <3>2, <3>3 DEF Ready
  <2>4. b0.position < maximum /\ b0.position <= maximum
    BY <1>1, <2>3
  <2> HIDE DEF b0
  <2>5. /\ Holds(puts(b0, t), <<>> \o t)
        /\ puts(b0, t).position <= maximum
    BY <1>1, <2>3, <2>4, PutsHolds
  <2> QED
    BY <2>1, <2>2, <2>5
<1>7. CASE maximum > 2 /\ a # <<Dot>> /\ Len(a) <= maximum - 1
  <2>1. b.position = Len(a)
    BY <1>1, <1>7 DEF Holds, Ready, Tells
  <2>2. ~(b.position = 1 /\ b.message[0] = Dot)
    BY <1>7, DotSeen
  <2>3. CASE a = <<>>
    <3>1. path_join(b, t) = puts(b, t)
      BY <2>1, <2>2, <2>3 DEF path_join
    <3>2. BT!Joined(a, t) = a \o t
      BY <1>7, <2>3 DEF BT!Joined
    <3> QED
      BY <3>1, <3>2, <1>3
  <2>4. CASE a # <<>>
    <3>1. Len(a) > 0
      BY <1>1, <2>4
    <3>2. b.message[b.position - 1] = a[Len(a)]
      <4>1. Len(a) \in 1 .. Least(Len(a), maximum - 1)
        BY <1>1, <1>7, <3>1 DEF Least
      <4> QED
        BY <4>1, <2>1 DEF Holds, Shows, Carries
    <3>3. CASE a[Len(a)] = Slash
      <4>1. path_join(b, t) = puts(b, t)
        BY <2>2, <3>2, <3>3 DEF path_join
      <4>2. BT!Joined(a, t) = a \o t
        BY <1>7, <3>3 DEF BT!Joined
      <4> QED
        BY <4>1, <4>2, <1>3
    <3>4. CASE a[Len(a)] # Slash
      <4>1. path_join(b, t) = puts(putc(b, Slash), t)
        BY <2>1, <2>2, <3>1, <3>2, <3>4 DEF path_join
      <4>2. BT!Joined(a, t) = Append(a, Slash) \o t
        BY <1>7, <2>4, <3>4 DEF BT!Joined
      <4> QED
        BY <4>1, <4>2, <1>4
    <3> QED
      BY <3>3, <3>4
  <2> QED
    BY <2>3, <2>4
<1>8. CASE maximum > 2 /\ a # <<Dot>> /\ Len(a) > maximum - 1
  <2>1. ~(b.position = 1 /\ b.message[0] = Dot)
    BY <1>8, DotSeen
  <2>2. \/ path_join(b, t) = puts(b, t)
        \/ path_join(b, t) = puts(putc(b, Slash), t)
    BY <2>1 DEF path_join
  <2>3. /\ BT!Joined(a, t) \in {a \o t, Append(a, Slash) \o t}
        /\ BT!Joined(a, t) \in Seq(Char)
    BY <1>2, <1>8 DEF BT!Joined
  <2>4. /\ Len(a \o t) > maximum - 1
        /\ Len(Append(a, Slash) \o t) > maximum - 1
        /\ Len(BT!Joined(a, t)) > maximum - 1
    BY <1>1, <1>2, <1>8, <2>3
  <2>5. \A i \in 1 .. maximum - 1 : i \in 1 .. Len(a)
    BY <1>1, <1>8
  <2>6. \A i \in 1 .. maximum - 1 : /\ BT!Joined(a, t)[i] = a[i]
                                    /\ (a \o t)[i] = a[i]
                                    /\ (Append(a, Slash) \o t)[i] = a[i]
    BY <1>2, <2>3, <2>5
  <2>7. /\ Holds(puts(b, t), BT!Joined(a, t))
        /\ Holds(puts(putc(b, Slash), t), BT!Joined(a, t))
    BY <1>3, <1>4, <2>3, <2>4, <2>6, SameFront, ZenonT(60)
  <2> QED
    BY <1>3, <1>4, <2>2, <2>7
<1> QED
  BY <1>1, <1>5, <1>6, <1>7, <1>8

-----------------------------------------------------------------------------
(***************************************************************************)
(* The invariant of the specification, and what each action does to it.    *)
(***************************************************************************)
IInv ==
    /\ Holds(sb, asked)
    /\ stray \in {"none", "read", "written"}
    /\ StrayIsPrintf

LEMMA InitHolds == Init => IInv
<1> SUFFICES ASSUME Init PROVE IInv
  OBVIOUS
<1>1. maximum \in Nat \ {0}
  BY SizesAssumption DEF Init
<1>2. /\ sb \in Type
      /\ sb.message[0] = NUL
      /\ sb.position = 0
  BY <1>1 DEF Init, Type
<1>3. asked = <<>> /\ asked \in Seq(Char) /\ Len(asked) = 0
  BY DEF Init
<1>4. Least(Len(asked), maximum - 1) = 0
  BY <1>1, <1>3 DEF Least
<1>5. Carries(sb, asked) /\ Shows(sb, asked)
  BY <1>2, <1>4 DEF Carries, Shows
<1>6. Tells(sb, asked)
  BY <1>1, <1>2, <1>3 DEF Tells
<1>7. Holds(sb, asked)
  BY <1>1, <1>2, <1>3, <1>5, <1>6 DEF Holds, Ready
<1> QED
  BY <1>1, <1>2, <1>7 DEF IInv, StrayIsPrintf, Init

\* An action that leaves b behind, when b holds what it is asked to.
LEMMA BecomesHolds ==
    ASSUME IInv, NEW STATE b, NEW STATE a, Becomes(b, a), Holds(b, a),
           sb.position <= maximum => b.position <= maximum
    PROVE  IInv'
<1>1. maximum' = maximum /\ sb' = b /\ asked' = a /\ stray' = stray
  BY DEF Becomes
<1>2. Holds(sb, asked)'
  BY <1>1 DEF Holds, Ready, Type, Carries, Shows, Tells, full, Least
<1>3. StrayIsPrintf'
  BY <1>1 DEF IInv, StrayIsPrintf
<1> QED
  BY <1>1, <1>2, <1>3 DEF IInv

LEMMA TextsType ==
    ASSUME NEW s \in Texts
    PROVE  s \in Seq(Char)
BY SizesAssumption

LEMMA CopyHolds ==
    ASSUME IInv, NEW s \in Texts, Copy(s)
    PROVE  IInv'
<1> DEFINE b0 == [sb EXCEPT !.position = 0]
<1>1. /\ maximum \in Nat \ {0}
      /\ sb \in Type
  BY DEF IInv, Holds, Ready
<1>2. Ready(b0, <<>>) /\ b0.position = 0 /\ b0.position < maximum
  <2>1. b0 \in Type /\ b0.position = 0
    BY <1>1 DEF Type
  <2>2. Carries(b0, <<>>)
    BY <1>1 DEF Carries, Least
  <2>3. Tells(b0, <<>>)
    BY <1>1, <2>1 DEF Tells
  <2> QED
    BY <1>1, <2>1, <2>2, <2>3 DEF Ready
<1>3. Becomes(puts(b0, s), s)
  BY DEF Copy
<1> HIDE DEF b0
<1>4. <<>> \o s = s /\ b0.position <= maximum
  BY <1>1, <1>2, TextsType
<1>5. Holds(puts(b0, s), s) /\ puts(b0, s).position <= maximum
  <2>1. /\ Holds(puts(b0, s), <<>> \o s)
        /\ puts(b0, s).position <= maximum
    BY <1>2, <1>4, TextsType, PutsHolds
  <2> QED
    BY <2>1, <1>4
<1> QED
  BY <1>3, <1>5, BecomesHolds

LEMMA RewindHolds ==
    ASSUME IInv, Rewind
    PROVE  IInv'
<1> DEFINE b == [message |-> [sb.message EXCEPT ![0] = NUL], position |-> 0]
<1>1. maximum \in Nat \ {0} /\ sb \in Type
  BY DEF IInv, Holds, Ready
<1>2. /\ b \in Type
      /\ b.message[0] = NUL
      /\ b.position = 0
  BY <1>1 DEF Type
<1>3. Becomes(b, <<>>)
  BY DEF Rewind
<1> HIDE DEF b
<1>4. /\ <<>> \in Seq(Char)
      /\ Len(<<>>) = 0
      /\ Least(Len(<<>>), maximum - 1) = 0
  BY <1>1 DEF Least
<1>5. Carries(b, <<>>) /\ Shows(b, <<>>)
  BY <1>2, <1>4 DEF Carries, Shows
<1>6. Tells(b, <<>>)
  BY <1>1, <1>2, <1>4 DEF Tells
<1>7. Holds(b, <<>>)
  BY <1>1, <1>2, <1>4, <1>5, <1>6 DEF Holds, Ready
<1>8. b.position <= maximum
  BY <1>1, <1>2
<1> QED
  BY <1>3, <1>7, <1>8, BecomesHolds

LEMMA PrintfHolds ==
    ASSUME IInv, NEW s \in Texts, Printf(s)
    PROVE  IInv'
<1>1. maximum \in Nat \ {0} /\ sb \in Type
  BY DEF IInv, Holds, Ready
<1>2. /\ Holds(Filled(sb, s), asked \o s)
      /\ Filled(sb, s).position <= maximum - 1
  BY TextsType, FilledHolds DEF IInv, Holds, Printf
<1>3. Filled(sb, s).position <= maximum
  BY <1>1, <1>2 DEF Holds, Ready, Type
<1>4. Becomes(Filled(sb, s), asked \o s)
  BY DEF Printf, vprintf
<1> QED
  BY <1>2, <1>3, <1>4, BecomesHolds

\* The array stays as it is: there is no room in it.
LEMMA PrintfPastEndHolds ==
    ASSUME IInv, NEW s \in Texts, PrintfPastEnd(s)
    PROVE  IInv'
<1>1. /\ maximum \in Nat \ {0}
      /\ sb \in Type
      /\ sb.position \in Nat
      /\ sb.position >= maximum
      /\ s \in Seq(Char)
  BY TextsType DEF IInv, Holds, Ready, Type, PrintfPastEnd
<1> DEFINE counts == IF sb.position = maximum THEN 0 .. MaxStray ELSE {Len(s)}
<1>2. PICK n \in Nat : sb' = [sb EXCEPT !.position = @ + n]
  <2>1. \E n \in counts : sb' = [sb EXCEPT !.position = @ + n]
    BY DEF PrintfPastEnd
  <2>2. counts \subseteq Nat
    BY <1>1, SizesAssumption
  <2> QED
    BY <2>1, <2>2
<1>3. maximum' = maximum /\ asked' = asked \o s
  BY DEF PrintfPastEnd
<1>4. /\ sb'.message = sb.message
      /\ sb'.position = sb.position + n
      /\ sb' \in Type
  <2> DEFINE M == [0 .. maximum - 1 -> Char \cup {NUL}]
  <2>1. sb \in [message : M, position : Nat] /\ sb.position + n \in Nat
    BY <1>1 DEF Type
  <2> HIDE DEF M
  <2>2. /\ sb'.message = sb.message
        /\ sb'.position = sb.position + n
        /\ sb' \in [message : M, position : Nat]
    BY <1>2, <2>1
  <2> QED
    BY <2>2 DEF Type, M
<1>5. Holds(sb, asked \o s)
  BY <1>1, FullHolds DEF full, IInv
<1>6. Len(asked \o s) > maximum - 1
  <2>1. Len(asked) \in Nat /\ Len(asked \o s) = Len(asked) + Len(s) /\ Len(s) \in Nat
    BY <1>1 DEF IInv, Holds, Ready
  <2> QED
    BY <1>1, <2>1 DEF IInv, Holds, Ready, Tells
<1>7. Carries(sb', asked \o s) /\ Shows(sb', asked \o s)
  BY <1>4, <1>5 DEF Holds, Carries, Shows
<1>8. Tells(sb', asked \o s)
  BY <1>1, <1>4, <1>6 DEF Tells, full
<1>9. Holds(sb', asked \o s)
  BY <1>1, <1>4, <1>5, <1>7, <1>8 DEF Holds, Ready
<1>10. Holds(sb, asked)'
  BY <1>3, <1>9 DEF Holds, Ready, Type, Carries, Shows, Tells, full, Least
<1>11. stray' \in {"read", "written"}
  BY DEF PrintfPastEnd, IInv
<1> QED
  BY <1>10, <1>11 DEF IInv, StrayIsPrintf

LEMMA TruncateHolds ==
    ASSUME IInv, NEW n \in Int, Truncate(n)
    PROVE  IInv'
<1> DEFINE k  == IF n < 0 THEN 0 ELSE n
           a2 == IF k < maximum - 1 THEN BT!Prefix(asked, k) ELSE asked
<1>1. /\ maximum \in Nat \ {0}
      /\ sb \in Type
      /\ sb.position \in Nat
      /\ sb.message \in [0 .. maximum - 1 -> Char \cup {NUL}]
      /\ asked \in Seq(Char)
      /\ Len(asked) \in Nat
  BY DEF IInv, Holds, Ready, Type
<1>2. /\ k \in Nat
      /\ k < sb.position
      /\ sb' = [message |-> [i \in DOMAIN sb.message |->
                                IF i = k THEN NUL ELSE sb.message[i]],
                position |-> k]
      /\ asked' = a2
      /\ maximum' = maximum
      /\ stray' = IF k >= maximum THEN "written" ELSE stray
  BY DEF Truncate, new_size
<1>3. /\ sb'.position = k
      /\ sb'.message = [i \in 0 .. maximum - 1 |->
                            IF i = k THEN NUL ELSE sb.message[i]]
      /\ sb' \in Type
  BY <1>1, <1>2 DEF Type
<1> HIDE DEF k
<1>4. StrayIsPrintf' /\ stray' \in {"none", "read", "written"}
  BY <1>1, <1>2, <1>3 DEF IInv, StrayIsPrintf
<1>5. CASE k < maximum - 1
  <2>1. k < Len(asked)
    BY <1>1, <1>2, <1>5 DEF IInv, Holds, Ready, Tells
  <2>2. /\ a2 \in Seq(Char)
        /\ Len(a2) = k
        /\ \A i \in 1 .. k : a2[i] = asked[i]
    BY <1>1, <1>2, <1>5, <2>1, PrefixFacts DEF Least
  <2> HIDE DEF a2
  <2>3. /\ Least(Len(a2), maximum - 1) = k
        /\ \A i \in 1 .. k : i \in 1 .. Least(Len(asked), maximum - 1)
    BY <1>1, <1>2, <1>5, <2>1, <2>2 DEF Least
  <2>4. \A i \in 1 .. k : sb'.message[i - 1] = sb.message[i - 1]
    BY <1>1, <1>2, <1>3, <1>5
  <2>5. \A i \in 1 .. k : sb'.message[i - 1] = a2[i]
    BY <2>2, <2>3, <2>4 DEF IInv, Holds, Shows, Carries
  <2>6. sb'.message[k] = NUL
    BY <1>1, <1>2, <1>3, <1>5
  <2>7. Carries(sb', a2) /\ Shows(sb', a2)
    BY <2>3, <2>5, <2>6 DEF Carries, Shows
  <2>8. Tells(sb', a2)
    BY <1>1, <1>2, <1>3, <1>5, <2>2 DEF Tells
  <2>9. Holds(sb', a2)
    BY <1>1, <1>3, <2>2, <2>7, <2>8 DEF Holds, Ready
  <2>10. Holds(sb, asked)'
    BY <1>2, <2>9 DEF Holds, Ready, Type, Carries, Shows, Tells, full, Least
  <2> QED
    BY <1>4, <2>10 DEF IInv
<1>6. CASE k >= maximum - 1
  <2>1. a2 = asked
    BY <1>1, <1>2, <1>6
  <2> HIDE DEF a2
  <2>2. Len(asked) > maximum - 1
    BY <1>1, <1>2, <1>6 DEF IInv, Holds, Ready, Tells
  <2>3. Least(Len(asked), maximum - 1) = maximum - 1
    BY <1>1, <2>2 DEF Least
  <2>4. sb'.message[maximum - 1] = NUL
    BY <1>1, <1>3, <2>3 DEF IInv, Holds, Shows
  <2>5. \A i \in 1 .. maximum - 1 : sb'.message[i - 1] = sb.message[i - 1]
    BY <1>1, <1>2, <1>3, <1>6
  <2>6. Carries(sb', asked) /\ Shows(sb', asked)
    BY <2>3, <2>4, <2>5 DEF Carries, Shows, IInv, Holds
  <2>7. Tells(sb', asked)
    BY <1>1, <1>2, <1>3, <1>6, <2>2 DEF Tells, full
  <2>8. Holds(sb', asked)
    BY <1>1, <1>3, <2>6, <2>7 DEF Holds, Ready
  <2>9. Holds(sb, asked)'
    BY <1>2, <2>1, <2>8 DEF Holds, Ready, Type, Carries, Shows, Tells, full, Least
  <2> QED
    BY <1>4, <2>9 DEF IInv
<1> QED
  BY <1>1, <1>2, <1>5, <1>6

LEMMA PathJoinHolds ==
    ASSUME IInv, NEW s \in Texts, PathJoin(s)
    PROVE  IInv'
<1> DEFINE t == Skipped(s)
<1>1. /\ t \in Seq(Char)
      /\ t # <<>>
      /\ maximum # 2
      /\ sb.position <= maximum
      /\ Becomes(path_join(sb, t), BT!Joined(asked, t))
  BY TextsType, SkippedType DEF PathJoin
<1> HIDE DEF t
<1>2. /\ Holds(path_join(sb, t), BT!Joined(asked, t))
      /\ path_join(sb, t).position <= maximum
  BY <1>1, JoinHolds DEF IInv
<1> QED
  BY <1>1, <1>2, BecomesHolds

LEMMA NextHolds == IInv /\ [Next]_vars => IInv'
<1> SUFFICES ASSUME IInv, [Next]_vars PROVE IInv'
  OBVIOUS
<1>1. CASE \E c \in Char : Putc(c)
  <2>1. PICK c \in Char : Putc(c)
    BY <1>1
  <2>2. /\ Holds(putc(sb, c), Append(asked, c))
        /\ sb.position <= maximum => putc(sb, c).position <= maximum
    BY PutcHolds DEF IInv
  <2>3. Becomes(putc(sb, c), Append(asked, c))
    BY <2>1 DEF Putc
  <2> QED
    BY <2>2, <2>3, BecomesHolds
<1>2. CASE \E s \in Texts : Puts(s)
  <2>1. PICK s \in Texts : Puts(s)
    BY <1>2
  <2>2. /\ Holds(puts(sb, s), asked \o s)
        /\ sb.position <= maximum => puts(sb, s).position <= maximum
    BY TextsType, PutsHolds DEF IInv, Holds
  <2>3. Becomes(puts(sb, s), asked \o s)
    BY <2>1 DEF Puts
  <2> QED
    BY <2>2, <2>3, BecomesHolds
<1>3. CASE \E s \in Texts : Write(s)
  <2>1. PICK s \in Texts : Write(s)
    BY <1>3
  <2>2. /\ Holds(write(sb, s), asked \o s)
        /\ sb.position <= maximum => write(sb, s).position <= maximum
    BY TextsType, WriteHolds DEF IInv
  <2>3. Becomes(write(sb, s), asked \o s)
    BY <2>1 DEF Write
  <2> QED
    BY <2>2, <2>3, BecomesHolds
<1>4. CASE \E s \in Texts : Copy(s)
  BY <1>4, CopyHolds
<1>5. CASE \E s \in Texts : PathJoin(s)
  BY <1>5, PathJoinHolds
<1>6. CASE \E s \in Texts : Printf(s)
  BY <1>6, PrintfHolds
<1>7. CASE \E s \in Texts : PrintfPastEnd(s)
  BY <1>7, PrintfPastEndHolds
<1>8. CASE Rewind
  BY <1>8, RewindHolds
<1>9. CASE \E n \in -1 .. maximum + MaxStray : Truncate(n)
  <2>1. PICK n \in Int : Truncate(n)
    BY <1>9
  <2> QED
    BY <2>1, TruncateHolds
<1>10. CASE UNCHANGED vars
  BY <1>10 DEF vars, IInv, StrayIsPrintf, Holds, Ready, Type, Carries, Shows,
               Tells, full, Least
<1> QED
  BY <1>1, <1>2, <1>3, <1>4, <1>5, <1>6, <1>7, <1>8, <1>9, <1>10 DEF Next

LEMMA Invariance == Spec => []IInv
BY InitHolds, NextHolds, PTL DEF Spec

(***************************************************************************)
(* The types (string_buffer.h:35-42).                                      *)
(***************************************************************************)
THEOREM TypeCorrect == Spec => []TypeOK
<1>1. IInv => TypeOK
  BY DEF IInv, Holds, Ready, Type, TypeOK
<1> QED
  BY <1>1, Invariance, PTL

(***************************************************************************)
(* After any calls the array holds a terminated prefix of what was asked,  *)
(* the longest there is room for (string_buffer/).                         *)
(***************************************************************************)
THEOREM PrefixShown == Spec => []ShowsPrefix
<1>1. IInv => ShowsPrefix
  BY DEF IInv, Holds, ShowsPrefix
<1> QED
  BY <1>1, Invariance, PTL

(***************************************************************************)
(* full() is true of every buffer that dropped something                   *)
(* (string_buffer/full.c).                                                 *)
(***************************************************************************)
THEOREM LossIsTold == Spec => []LossTells
<1>1. IInv => LossTells
  BY DEF IInv, Holds, Ready, LossTells
<1> QED
  BY <1>1, Invariance, PTL

(***************************************************************************)
(* Without a printf behind the end the position stays within one of the    *)
(* array (string_buffer/vprintf.c:30-33).                                  *)
(***************************************************************************)
THEOREM OnlyPrintfStrays == Spec => []StrayIsPrintf
<1>1. IInv => StrayIsPrintf
  BY DEF IInv
<1> QED
  BY <1>1, Invariance, PTL

-----------------------------------------------------------------------------
(***************************************************************************)
(* Refinement.                                                             *)
(***************************************************************************)

\* The text in the array is the prefix that BoundedText promises.
LEMMA ShownIsPrefix == IInv => Shown = BT!Prefix(asked, maximum - 1)
<1> SUFFICES ASSUME IInv PROVE Shown = BT!Prefix(asked, maximum - 1)
  OBVIOUS
<1>1. /\ maximum \in Nat \ {0}
      /\ sb.position \in Nat
      /\ asked \in Seq(Char)
      /\ Len(asked) \in Nat
  BY DEF IInv, Holds, Ready, Type
<1> DEFINE n == Least(Len(asked), maximum - 1)
<1>2. n \in Nat /\ n <= Len(asked)
  BY <1>1 DEF Least
<1>3. n = IF sb.position < maximum - 1 THEN sb.position ELSE maximum - 1
  BY <1>1 DEF IInv, Holds, Ready, Tells, full, Least
<1>4. \A i \in 1 .. n : sb.message[i - 1] = asked[i]
  BY DEF IInv, Holds, Shows, Carries
<1>5. Shown = [i \in 1 .. n |-> sb.message[i - 1]]
  BY <1>3 DEF Shown
<1>6. BT!Prefix(asked, maximum - 1) = SubSeq(asked, 1, n)
  BY DEF BT!Prefix, Least
<1> HIDE DEF n
<1>7. SubSeq(asked, 1, n) = [i \in 1 .. n |-> asked[i]]
  BY <1>1, <1>2
<1> QED
  BY <1>4, <1>5, <1>6, <1>7

LEMMA InitRefines == Init /\ IInv => BT!BTInit
<1> SUFFICES ASSUME Init, IInv PROVE BT!BTInit
  OBVIOUS
<1>1. maximum \in Nat \ {0} /\ asked = <<>>
  BY DEF Init, IInv, Holds, Ready
<1>2. Shown = <<>>
  BY <1>1, ShownIsPrefix DEF BT!Prefix
<1> QED
  BY <1>1, <1>2 DEF BT!BTInit

\* A step that sets asked to a shows the prefix of a.
LEMMA StepShows ==
    ASSUME IInv', maximum' = maximum
    PROVE  BT!Show(asked')
<1>1. (Shown = BT!Prefix(asked, maximum - 1))'
  BY ShownIsPrefix, PTL
<1>2. Shown' = BT!Prefix(asked', maximum - 1)
  BY <1>1 DEF BT!Prefix
<1> QED
  BY <1>2 DEF BT!Show

LEMMA StepRefines ==
    ASSUME IInv, IInv', [Next]_vars
    PROVE  [BT!BTNext]_(BT!btVars)
<1>1. \A s \in Texts : s \in Texts \cup {Skipped(r) : r \in Texts} \cup {<<c>> : c \in Char}
  OBVIOUS
<1>2. CASE \E c \in Char : Putc(c)
  <2>1. PICK c \in Char : asked' = Append(asked, c) /\ maximum' = maximum
    BY <1>2 DEF Putc, Becomes
  <2>2. asked' = asked \o <<c>>
    BY <2>1 DEF IInv, Holds, Ready
  <2>3. BT!Add(<<c>>)
    BY <2>1, <2>2, StepShows DEF BT!Add
  <2> QED
    BY <2>3 DEF BT!BTNext
<1>3. CASE \E s \in Texts : Puts(s) \/ Write(s) \/ Printf(s) \/ PrintfPastEnd(s)
  <2>1. PICK s \in Texts : asked' = asked \o s /\ maximum' = maximum
    BY <1>3 DEF Puts, Write, Printf, PrintfPastEnd, Becomes
  <2>2. BT!Add(s)
    BY <2>1, StepShows DEF BT!Add
  <2> QED
    BY <2>2 DEF BT!BTNext
<1>4. CASE \E s \in Texts : Copy(s)
  <2>1. PICK s \in Texts : asked' = s /\ maximum' = maximum
    BY <1>4 DEF Copy, Becomes
  <2>2. BT!Replace(s)
    BY <2>1, StepShows DEF BT!Replace
  <2> QED
    BY <2>2 DEF BT!BTNext
<1>5. CASE \E s \in Texts : PathJoin(s)
  <2>1. PICK s \in Texts : asked' = BT!Joined(asked, Skipped(s)) /\ maximum' = maximum
    BY <1>5 DEF PathJoin, Becomes
  <2>2. BT!Join(Skipped(s))
    BY <2>1, StepShows DEF BT!Join
  <2> QED
    BY <2>2 DEF BT!BTNext
<1>6. CASE Rewind
  <2>1. asked' = <<>> /\ maximum' = maximum
    BY <1>6 DEF Rewind, Becomes
  <2>2. BT!Forget
    BY <2>1, StepShows DEF BT!Forget
  <2> QED
    BY <2>2 DEF BT!BTNext
<1>7. CASE \E n \in -1 .. maximum + MaxStray : Truncate(n)
  <2>1. PICK n \in Int : Truncate(n)
    BY <1>7
  <2>2. maximum \in Nat \ {0} /\ maximum' = maximum
    BY <2>1 DEF Truncate, new_size, IInv, Holds, Ready
  <2> DEFINE k == IF n < 0 THEN 0 ELSE n
             j == IF k < maximum - 1 THEN k ELSE maximum - 1
  <2>3. asked' = IF k < maximum - 1 THEN BT!Prefix(asked, k) ELSE asked
    BY <2>1 DEF Truncate, new_size
  <2>4. j \in 0 .. maximum - 1
    BY <2>2
  <2>5. asked' = IF j < maximum - 1 THEN BT!Prefix(asked, j) ELSE asked
    BY <2>2, <2>3
  <2> HIDE DEF j, k
  <2>6. BT!Keep(j)
    BY <2>2, <2>5, StepShows DEF BT!Keep
  <2> QED
    BY <2>4, <2>6 DEF BT!BTNext
<1>8. CASE UNCHANGED vars
  BY <1>8 DEF vars, BT!btVars, Shown
<1> QED
  BY <1>2, <1>3, <1>4, <1>5, <1>6, <1>7, <1>8 DEF Next

(***************************************************************************)
(* The string buffer implements BoundedText: the clients see the longest   *)
(* prefix of what they asked for, at every moment and for arrays of every  *)
(* size (string_buffer.c, string_buffer/).                                 *)
(***************************************************************************)
THEOREM Refinement == Spec => IsBoundedText
<1>1. Init => BT!BTInit
  BY InitHolds, InitRefines
<1>2. IInv /\ IInv' /\ [Next]_vars => [BT!BTNext]_(BT!btVars)
  BY StepRefines
<1> QED
  BY <1>1, <1>2, Invariance, PTL DEF Spec, IsBoundedText, BT!BTSpec
===============================================================================
