--------------------------- MODULE MessagesProofs ---------------------------
(***************************************************************************)
(* Proofs about Messages, for any threads, calls, outputs and number of    *)
(* calls.  FrameOK says of one frame what is in it and in the buffer that  *)
(* it uses: how much of the text is written, copied and read, as long as   *)
(* nobody else has spoilt it.  It is about values, not variables, so that  *)
(* what a step does to the frame that takes it (the lemmas "...OK") and to *)
(* the frames of others (SpoiltOK, MixedOK, UndisturbedOK) are lemmas      *)
(* without primes; StoreStep, GoStep, LookupStep and StackStep put them    *)
(* together, one for each way of changing the frames.                      *)
(***************************************************************************)
EXTENDS Messages, SequenceTheorems, TLAPS

\* The text that the frame writes, with the name that it has.
Written(f) == assembled(f) \o footnotes(f)

\* The pieces of it that are in the buffer.
Filled(f) == IF f.pc \in {"assemble", "footnotes"} THEN f.position - 1 ELSE Len(Written(f))

\* b is the first n pieces of w behind pre.
Behind(b, pre, w, n) ==
    /\ Len(b) = Len(pre) + n
    /\ \A k \in 1 .. Len(pre) : b[k] = pre[k]
    /\ \A k \in 1 .. n : b[Len(pre) + k] = w[k]

Early == {"errno", "init", "lookup", "name"}

Prefixes == {<<>>, <<<<"program">>>>}

Reading(f) == f.text = "common" /\ ~f.spoilt

-----------------------------------------------------------------------------
\* What there is in a frame at each place.
Placed(f) ==
    /\ f.pc \in Early => f.position = 1
    /\ f.pc = "assemble" => f.position \in 1 .. 3
    /\ f.pc = "footnotes" => f.position \in 3 .. 3 + Len(footnotes(f))
    /\ f.pc \in {"copy", "read"} => f.position \in Cell
    /\ f.pc \in {"output", "copy", "printed", "restore", "return"} => f.form = "on_error"
    /\ f.pc \in Early \cup {"assemble", "footnotes", "output", "copy"}
          => f.said = <<>> /\ f.text = "common"
    /\ f.text = "local"
          => f.form = "on_error" /\ f.pc \in {"print", "told", "printed", "restore", "return"}
    /\ f.pc # "copy" /\ f.text = "common" => f.buf = <<>>
    /\ f.pc # "errno" => f.errnum = f.err

\* The name is that of the owner, unless getpwuid has answered others.
Named(f, p) == ~f.mixed => f.name = f.uid /\ (f.pc = "name" => p = f.uid)

\* The buffer holds the text as far as it is written, and a NUL behind it.
Holds(f, b) ==
    Reading(f) /\ f.pc \notin Early =>
        /\ \A k \in 1 .. Filled(f) : b[k] = Written(f)[k]
        /\ f.pc \notin {"assemble", "footnotes"} => b[Len(Written(f)) + 1] = NUL

\* The copy is the text, as far as it is copied.
Copied(f) ==
    /\ f.pc = "copy" /\ ~f.spoilt =>
          /\ f.position <= Len(Written(f)) + 1
          /\ \E pre \in Prefixes : Behind(f.buf, pre, Written(f), f.position - 1)
    /\ f.text = "local" /\ ~f.spoilt => f.buf \in {pre \o Written(f) : pre \in Prefixes}

\* Who reads the common buffer reads the text.
HasRead(f) ==
    Reading(f) =>
        /\ \A i \in DOMAIN f.said : f.said[i] = Written(f)
        /\ f.pc = "read" => /\ f.position <= Len(Written(f)) + 1
                            /\ Behind(f.got, <<>>, Written(f), f.position - 1)
        /\ f.pc \in {"told", "printed"} => f.got = Written(f)

\* Who is given the copy has the copy.
HasCopy(f) ==
    f.text = "local" =>
        /\ \A i \in DOMAIN f.said : f.said[i] = f.buf
        /\ f.pc \in {"told", "printed"} => f.got = f.buf

FrameOK(f, b, p) ==
    Placed(f) /\ Named(f, p) /\ Holds(f, b) /\ Copied(f) /\ HasRead(f) /\ HasCopy(f)

-----------------------------------------------------------------------------
USE DEF Cell

\* The pieces of a text, and the text that a frame writes.
LEMMA CallsTyped ==
    /\ \A c \in Call : c.form \in Form /\ c.uid \in Uid /\ c.err \in Error
    /\ Nested.form = "explain" /\ Nested.uid \in Uid /\ Nested.err \in Error
    /\ NUL \notin {<<"problem", u, n>> : u, n \in Uid}
    /\ NUL \notin {<<tag, e>> : tag \in {"error", "note"}, e \in Errno}
    /\ Error \subseteq Errno
<1>1. PICK c \in Call : TRUE
  BY CallAssumption
<1>2. \E u \in Uid : TRUE
  BY <1>1 DEF Uid
<1>3. Nested.uid \in Uid
  BY <1>2 DEF Nested
<1> QED
  BY <1>3, CallAssumption DEF Nested, Uid, Error, Errno, Form

LEMMA PieceTyped ==
    ASSUME NEW u \in Uid, NEW n \in Uid, NEW tag \in {"error", "note"}, NEW e \in Errno
    PROVE  /\ <<"problem", u, n>> \in Text /\ <<"problem", u, n>> # NUL
           /\ <<tag, e>> \in Text /\ <<tag, e>> # NUL
<1>1. <<"problem", u, n>> \in {<<"problem", v, m>> : v, m \in Uid}
  OBVIOUS
<1>2. <<tag, e>> \in {<<g, d>> : g \in {"error", "note"}, d \in Errno}
  OBVIOUS
<1> QED
  BY <1>1, <1>2, CallsTyped DEF Text

LEMMA FrameTyped ==
    ASSUME NEW f \in Frame
    PROVE  /\ f.form \in Form /\ f.uid \in Uid /\ f.err \in Error /\ f.pc \in FramePC
           /\ f.errnum \in Errno
           /\ f.name \in Uid /\ f.position \in Nat \ {0} /\ f.leaf \in Nat \ {0}
           /\ f.text \in {"common", "local"} /\ f.buf \in Seq(Text) /\ f.got \in Seq(Text)
           /\ f.said \in Seq(Seq(Text)) /\ f.hold_errno \in Errno
           /\ f.spoilt \in BOOLEAN /\ f.mixed \in BOOLEAN
  BY DEF Frame

LEMMA Pieces ==
    ASSUME NEW f \in Frame
    PROVE  /\ assembled(f) \in Seq(Text) /\ Len(assembled(f)) = 2
           /\ footnotes(f) \in Seq(Text) /\ Len(footnotes(f)) \in 0 .. 1
           /\ \A k \in 1 .. 2 : assembled(f)[k] # NUL
           /\ \A k \in 1 .. Len(footnotes(f)) : footnotes(f)[k] # NUL
<1>1. f.uid \in Uid /\ f.name \in Uid /\ f.errnum \in Errno
  BY FrameTyped
<1>2. problem(f) \in Text /\ problem(f) # NUL
  BY <1>1, PieceTyped DEF problem
<1>3. <<"error", f.errnum>> \in Text /\ <<"error", f.errnum>> # NUL
  BY <1>1, PieceTyped
<1>4. <<"note", f.errnum>> \in Text /\ <<"note", f.errnum>> # NUL
  BY <1>1, PieceTyped
<1> QED
  BY <1>2, <1>3, <1>4 DEF assembled, footnotes, software_error

LEMMA WrittenIs ==
    ASSUME NEW f \in Frame
    PROVE  /\ Written(f) \in Seq(Text)
           /\ Len(Written(f)) = 2 + Len(footnotes(f))
           /\ \A k \in 1 .. 2 : Written(f)[k] = assembled(f)[k]
           /\ \A k \in 1 .. Len(footnotes(f)) : Written(f)[2 + k] = footnotes(f)[k]
           /\ \A k \in 1 .. Len(Written(f)) : Written(f)[k] # NUL
<1>1. /\ Written(f) \in Seq(Text)
      /\ Len(Written(f)) = 2 + Len(footnotes(f))
      /\ \A k \in 1 .. 2 + Len(footnotes(f)) :
            Written(f)[k] = IF k <= 2 THEN assembled(f)[k] ELSE footnotes(f)[k - 2]
  BY Pieces, ConcatProperties DEF Written
<1>2. \A k \in 1 .. 2 : Written(f)[k] = assembled(f)[k]
  BY <1>1, Pieces
<1>3. \A k \in 1 .. Len(footnotes(f)) : Written(f)[2 + k] = footnotes(f)[k]
  <2> TAKE k \in 1 .. Len(footnotes(f))
  <2>1. 2 + k \in 1 .. 2 + Len(footnotes(f)) /\ ~(2 + k <= 2) /\ (2 + k) - 2 = k
    BY Pieces
  <2> QED
    BY <1>1, <2>1
<1>4. \A k \in 1 .. Len(Written(f)) : Written(f)[k] # NUL
  BY <1>1, Pieces
<1> QED
  BY <1>1, <1>2, <1>3, <1>4

-----------------------------------------------------------------------------
LEMMA BehindNothing ==
    ASSUME NEW pre \in Seq(Text), NEW w
    PROVE  Behind(pre, pre, w, 0)
  BY LenProperties DEF Behind

LEMMA BehindMore ==
    ASSUME NEW b \in Seq(Text), NEW pre \in Seq(Text), NEW w \in Seq(Text),
           NEW n \in Nat, n + 1 \in 1 .. Len(w), Behind(b, pre, w, n)
    PROVE  Behind(Append(b, w[n + 1]), pre, w, n + 1)
<1>1. w[n + 1] \in Text
  BY ElementOfSeq
<1>2. /\ Len(Append(b, w[n + 1])) = Len(b) + 1
      /\ \A i \in 1 .. Len(b) : Append(b, w[n + 1])[i] = b[i]
      /\ Append(b, w[n + 1])[Len(b) + 1] = w[n + 1]
  BY <1>1, AppendProperties
<1>3. Len(pre) \in Nat /\ Len(b) = Len(pre) + n
  BY LenProperties DEF Behind
<1>4. \A k \in 1 .. Len(pre) : Append(b, w[n + 1])[k] = pre[k]
  BY <1>2, <1>3 DEF Behind
<1>5. \A k \in 1 .. n + 1 : Append(b, w[n + 1])[Len(pre) + k] = w[k]
  <2> TAKE k \in 1 .. n + 1
  <2>1. CASE k = n + 1
    BY <1>2, <1>3, <2>1
  <2>2. CASE k \in 1 .. n
    <3>1. Len(pre) + k \in 1 .. Len(b)
      BY <1>3, <2>2
    <3> QED
      BY <1>2, <2>2, <3>1 DEF Behind
  <2>3. k = n + 1 \/ k \in 1 .. n
    OBVIOUS
  <2> QED
    BY <2>1, <2>2, <2>3
<1> QED
  BY <1>2, <1>3, <1>4, <1>5 DEF Behind

LEMMA BehindAll ==
    ASSUME NEW b \in Seq(Text), NEW pre \in Seq(Text), NEW w \in Seq(Text),
           Behind(b, pre, w, Len(w))
    PROVE  b = pre \o w
<1>1. /\ pre \o w \in Seq(Text)
      /\ Len(pre \o w) = Len(pre) + Len(w)
      /\ \A i \in 1 .. Len(pre) + Len(w) :
            (pre \o w)[i] = IF i <= Len(pre) THEN pre[i] ELSE w[i - Len(pre)]
  BY ConcatProperties
<1>2. Len(pre) \in Nat /\ Len(w) \in Nat
  BY LenProperties
<1>3. ASSUME NEW i \in 1 .. Len(b)
      PROVE  b[i] = (pre \o w)[i]
  <2>1. CASE i <= Len(pre)
    BY <1>1, <1>2, <2>1, SMTT(60) DEF Behind
  <2>2. CASE ~(i <= Len(pre))
    <3>1. i - Len(pre) \in 1 .. Len(w) /\ Len(pre) + (i - Len(pre)) = i
      BY <1>2, <2>2 DEF Behind
    <3>2. b[Len(pre) + (i - Len(pre))] = w[i - Len(pre)]
      BY <3>1 DEF Behind
    <3> QED
      BY <1>1, <1>2, <2>2, <3>1, <3>2 DEF Behind
  <2> QED
    BY <2>1, <2>2
<1> QED
  BY <1>1, <1>3, SeqEqual DEF Behind

LEMMA PrefixesTyped == Prefixes \subseteq Seq(Text)
  BY DEF Prefixes, Text

-----------------------------------------------------------------------------
LEMMA EnteredOK ==
    ASSUME NEW c \in Call \cup {Nested}, NEW b, NEW p
    PROVE  Entered(c) \in Frame /\ FrameOK(Entered(c), b, p)
<1>1. c.form \in Form /\ c.uid \in Uid /\ c.err \in Error
  BY CallsTyped DEF Form
<1>2. <<>> \in Seq(Text) /\ <<>> \in Seq(Seq(Text))
  OBVIOUS
<1>3. Entered(c) \in Frame
  BY <1>1, <1>2 DEF Entered, Frame, FramePC, Errno
<1>4. Placed(Entered(c)) /\ Named(Entered(c), p) /\ HasCopy(Entered(c))
  BY DEF Entered, Placed, Named, HasCopy, Early
<1>5. Holds(Entered(c), b) /\ Copied(Entered(c)) /\ HasRead(Entered(c))
  BY DEF Entered, Holds, Copied, HasRead, Early
<1> QED
  BY <1>3, <1>4, <1>5 DEF FrameOK

\* What others do to a frame that waits.
LEMMA SpoiltOK ==
    ASSUME NEW f \in Frame, NEW b, NEW c, NEW p, FrameOK(f, b, p)
    PROVE  Spoilt(f) \in Frame /\ FrameOK(Spoilt(f), c, p)
<1> DEFINE g == Spoilt(f)
<1>1. /\ g \in Frame /\ g.spoilt = TRUE
      /\ g.form = f.form /\ g.uid = f.uid /\ g.err = f.err /\ g.errnum = f.errnum /\ g.pc = f.pc
      /\ g.name = f.name /\ g.position = f.position /\ g.text = f.text
      /\ g.buf = f.buf /\ g.got = f.got /\ g.said = f.said /\ g.mixed = f.mixed
  BY DEF Frame, Spoilt
<1> HIDE DEF g
<1>2. footnotes(g) = footnotes(f)
  BY <1>1 DEF footnotes, software_error
<1>3. Placed(g) /\ Named(g, p)
  BY <1>1, <1>2 DEF FrameOK, Placed, Named
<1>4. Holds(g, c) /\ Copied(g) /\ HasRead(g)
  <2>1. g.text # "local" \/ g.text = "local"
    OBVIOUS
  <2> QED
    BY <1>1 DEF Holds, Copied, HasRead, Reading
<1>5. HasCopy(g)
  BY <1>1 DEF FrameOK, HasCopy
<1> QED
  BY <1>1, <1>3, <1>4, <1>5 DEF FrameOK, g

LEMMA MixedOK ==
    ASSUME NEW f \in Frame, NEW b, NEW p, NEW q, FrameOK(f, b, p)
    PROVE  Mixed(f) \in Frame /\ FrameOK(Mixed(f), b, q)
<1> DEFINE g == Mixed(f)
<1>1. /\ g \in Frame /\ g.mixed = TRUE
      /\ g.form = f.form /\ g.uid = f.uid /\ g.err = f.err /\ g.errnum = f.errnum /\ g.pc = f.pc
      /\ g.name = f.name /\ g.position = f.position /\ g.text = f.text
      /\ g.buf = f.buf /\ g.got = f.got /\ g.said = f.said /\ g.spoilt = f.spoilt
  BY DEF Frame, Mixed
<1> HIDE DEF g
<1>2. footnotes(g) = footnotes(f) /\ Written(g) = Written(f)
  BY <1>1 DEF footnotes, software_error, Written, assembled, problem
<1>3. Placed(g) /\ Named(g, q)
  BY <1>1, <1>2 DEF FrameOK, Placed, Named
<1>4. Holds(g, b) /\ Copied(g) /\ HasRead(g)
  BY <1>1, <1>2, ZenonT(60) DEF FrameOK, Holds, Copied, HasRead, Reading, Filled
<1>5. HasCopy(g)
  BY <1>1 DEF FrameOK, HasCopy
<1> QED
  BY <1>1, <1>3, <1>4, <1>5 DEF FrameOK, g

LEMMA UndisturbedOK ==
    ASSUME NEW f \in Frame, NEW b, NEW c, NEW p, NEW q, FrameOK(f, b, p)
    PROVE  /\ f.pc # "name" => FrameOK(f, b, q)
           /\ f.text # "common" \/ f.pc \in {"errno", "init"} => FrameOK(f, c, p)
  BY DEF FrameOK, Named, Holds, Reading, Early

-----------------------------------------------------------------------------
\* What the thread does to its innermost frame, up to the message's being there.
LEMMA TakenOK ==
    ASSUME NEW f \in Frame, NEW b, NEW p, FrameOK(f, b, p), f.pc = "errno",
           NEW e \in Errno, e = f.err
    PROVE  /\ [f EXCEPT !.pc = "init", !.errnum = e] \in Frame
           /\ FrameOK([f EXCEPT !.pc = "init", !.errnum = e], b, p)
<1> DEFINE g == [f EXCEPT !.pc = "init", !.errnum = e]
<1>1. /\ g \in Frame /\ g.pc = "init" /\ g.errnum = f.err
      /\ g.form = f.form /\ g.uid = f.uid /\ g.err = f.err
      /\ g.name = f.name /\ g.position = f.position /\ g.text = f.text
      /\ g.buf = f.buf /\ g.said = f.said /\ g.spoilt = f.spoilt /\ g.mixed = f.mixed
  BY DEF Frame, FramePC
<1> HIDE DEF g
<1>2. Placed(g) /\ Named(g, p) /\ HasCopy(g)
  BY <1>1 DEF FrameOK, Placed, Named, HasCopy, Early
<1>3. Holds(g, b) /\ Copied(g) /\ HasRead(g)
  BY <1>1 DEF FrameOK, Placed, Holds, Copied, HasRead, Early
<1> QED
  BY <1>1, <1>2, <1>3 DEF FrameOK, g

LEMMA StartedOK ==
    ASSUME NEW f \in Frame, NEW b, NEW c, NEW p, FrameOK(f, b, p), f.pc = "init"
    PROVE  /\ [f EXCEPT !.pc = "lookup"] \in Frame
           /\ FrameOK([f EXCEPT !.pc = "lookup"], c, p)
<1> DEFINE g == [f EXCEPT !.pc = "lookup"]
<1>1. /\ g \in Frame /\ g.pc = "lookup"
      /\ g.form = f.form /\ g.uid = f.uid /\ g.err = f.err /\ g.errnum = f.errnum
      /\ g.name = f.name /\ g.position = f.position /\ g.text = f.text
      /\ g.buf = f.buf /\ g.said = f.said /\ g.spoilt = f.spoilt /\ g.mixed = f.mixed
  BY DEF Frame, FramePC
<1> HIDE DEF g
<1>2. Placed(g) /\ Named(g, p) /\ HasCopy(g)
  BY <1>1 DEF FrameOK, Placed, Named, HasCopy, Early
<1>3. Holds(g, c) /\ Copied(g) /\ HasRead(g)
  BY <1>1 DEF FrameOK, Placed, Holds, Copied, HasRead, Early
<1> QED
  BY <1>1, <1>2, <1>3 DEF FrameOK, g

LEMMA LookedUpOK ==
    ASSUME NEW f \in Frame, NEW b, NEW p, FrameOK(f, b, p), f.pc = "lookup"
    PROVE  /\ [f EXCEPT !.pc = "name"] \in Frame
           /\ FrameOK([f EXCEPT !.pc = "name"], b, f.uid)
<1> DEFINE g == [f EXCEPT !.pc = "name"]
<1>1. /\ g \in Frame /\ g.pc = "name"
      /\ g.form = f.form /\ g.uid = f.uid /\ g.err = f.err /\ g.errnum = f.errnum
      /\ g.name = f.name /\ g.position = f.position /\ g.text = f.text
      /\ g.buf = f.buf /\ g.said = f.said /\ g.spoilt = f.spoilt /\ g.mixed = f.mixed
  BY DEF Frame, FramePC
<1> HIDE DEF g
<1>2. Placed(g) /\ Named(g, f.uid) /\ HasCopy(g)
  BY <1>1 DEF FrameOK, Placed, Named, HasCopy, Early
<1>3. Holds(g, b) /\ Copied(g) /\ HasRead(g)
  BY <1>1 DEF FrameOK, Placed, Holds, Copied, HasRead, Early
<1> QED
  BY <1>1, <1>2, <1>3 DEF FrameOK, g

LEMMA NameCopiedOK ==
    ASSUME NEW f \in Frame, NEW b, NEW p \in Uid, FrameOK(f, b, p), f.pc = "name"
    PROVE  /\ [f EXCEPT !.pc = "assemble", !.name = p] \in Frame
           /\ FrameOK([f EXCEPT !.pc = "assemble", !.name = p], b, p)
<1> DEFINE g == [f EXCEPT !.pc = "assemble", !.name = p]
<1>1. /\ g \in Frame /\ g.pc = "assemble" /\ g.name = p
      /\ g.form = f.form /\ g.uid = f.uid /\ g.err = f.err /\ g.errnum = f.errnum
      /\ g.position = f.position /\ g.text = f.text
      /\ g.buf = f.buf /\ g.said = f.said /\ g.spoilt = f.spoilt /\ g.mixed = f.mixed
  BY DEF Frame, FramePC
<1> HIDE DEF g
<1>2. Placed(g) /\ Named(g, p) /\ HasCopy(g)
  BY <1>1 DEF FrameOK, Placed, Named, HasCopy, Early
<1>3. g.position = 1 /\ g.text = "common" /\ g.said = <<>>
  BY <1>1 DEF FrameOK, Placed, Early
<1>4. Holds(g, b) /\ Copied(g) /\ HasRead(g)
  BY <1>1, <1>3 DEF Holds, Filled, Copied, HasRead
<1> QED
  BY <1>1, <1>2, <1>4 DEF FrameOK, g

LEMMA FootnoteIndex ==
    ASSUME NEW n \in 0 .. 1, NEW at \in Nat, at \in 3 .. 3 + n
    PROVE  /\ at \in 3 .. 4
           /\ at - 3 + 1 <= n => at = 3 /\ n = 1 /\ at - 3 + 1 = 1 /\ at \in 1 .. 2 + n
           /\ ~(at - 3 + 1 <= n) => at = (2 + n) + 1
  OBVIOUS

LEMMA AssembleIndex ==
    ASSUME NEW at \in Nat, at \in 1 .. 3
    PROVE  at - 1 + 1 = at /\ at \in 1 .. 4 /\ (at <= 2 => at \in 1 .. 2) /\ (~(at <= 2) => at = 3)
  OBVIOUS

\* Where in the text the next piece is, when there is one.
LEMMA AssembleWhere ==
    ASSUME NEW f \in Frame, NEW b, NEW p, FrameOK(f, b, p), f.pc = "assemble"
    PROVE  LET i == f.position - 1 + 1
           IN  /\ f.position \in 1 .. 3
               /\ i <= Len(assembled(f)) =>
                     /\ f.position \in 1 .. 2 /\ f.position \in 1 .. Len(Written(f))
                     /\ assembled(f)[i] = Written(f)[f.position]
               /\ ~(i <= Len(assembled(f))) => f.position = 3
<1>1. f.position \in 1 .. 3
  BY DEF FrameOK, Placed
<1>2. PICK at \in Nat : at = f.position
  BY FrameTyped
<1>3. Len(assembled(f)) = 2 /\ \A k \in 1 .. 2 : Written(f)[k] = assembled(f)[k]
  BY Pieces, WrittenIs
<1>4. PICK n \in 0 .. 1 : Len(footnotes(f)) = n /\ Len(Written(f)) = 2 + n
  BY Pieces, WrittenIs
<1>5. at - 1 + 1 = at /\ (at <= 2 => at \in 1 .. 2) /\ (~(at <= 2) => at = 3)
  BY <1>1, <1>2, AssembleIndex
<1>6. 1 .. 2 \subseteq 1 .. 2 + n
  BY <1>4
<1> QED
  BY <1>1, <1>2, <1>3, <1>4, <1>5, <1>6

LEMMA FootnotesWhere ==
    ASSUME NEW f \in Frame, NEW b, NEW p, FrameOK(f, b, p), f.pc = "footnotes"
    PROVE  LET i == f.position - 3 + 1
           IN  /\ f.position \in 3 .. 4
               /\ i <= Len(footnotes(f)) =>
                     /\ f.position = 3 /\ f.position \in 1 .. Len(Written(f))
                     /\ Len(footnotes(f)) = 1
                     /\ footnotes(f)[i] = Written(f)[f.position]
               /\ ~(i <= Len(footnotes(f))) => f.position = Len(Written(f)) + 1
<1>1. f.position \in 3 .. 3 + Len(footnotes(f))
  BY DEF FrameOK, Placed
<1>2. PICK at \in Nat : at = f.position
  BY FrameTyped
<1>3. PICK n \in 0 .. 1 : Len(footnotes(f)) = n /\ Len(Written(f)) = 2 + n
  BY Pieces, WrittenIs
<1>4. at \in 3 .. 3 + n
  BY <1>1, <1>2, <1>3
<1>5. /\ at \in 3 .. 4
      /\ at - 3 + 1 <= n => at = 3 /\ n = 1 /\ at - 3 + 1 = 1 /\ at \in 1 .. 2 + n
      /\ ~(at - 3 + 1 <= n) => at = (2 + n) + 1
  BY <1>4, FootnoteIndex
<1>6. ASSUME n = 1
      PROVE  Written(f)[3] = footnotes(f)[1]
  <2>1. 1 \in 1 .. Len(footnotes(f)) /\ 2 + 1 = 3
    BY <1>3, <1>6
  <2>2. Written(f)[2 + 1] = footnotes(f)[1]
    BY <2>1, WrittenIs
  <2> QED
    BY <2>1, <2>2
<1> QED
  BY <1>2, <1>3, <1>5, <1>6

LEMMA PieceStoredOK ==
    ASSUME NEW f \in Frame, NEW b, NEW p, FrameOK(f, b, p),
           b \in [Cell -> Text \cup {NUL}],
           f.position \in 1 .. Len(Written(f)),
           \/ f.pc = "assemble" /\ f.position \in 1 .. 2
           \/ f.pc = "footnotes" /\ f.position = 3 /\ Len(footnotes(f)) = 1
    PROVE  /\ [f EXCEPT !.position = @ + 1] \in Frame
           /\ FrameOK([f EXCEPT !.position = @ + 1],
                      [b EXCEPT ![f.position] = Written(f)[f.position]], p)
<1> DEFINE g == [f EXCEPT !.position = @ + 1]
           c == [b EXCEPT ![f.position] = Written(f)[f.position]]
<1>1. /\ g \in Frame /\ g.position = f.position + 1
      /\ g.form = f.form /\ g.uid = f.uid /\ g.err = f.err /\ g.errnum = f.errnum /\ g.pc = f.pc
      /\ g.name = f.name /\ g.text = f.text
      /\ g.buf = f.buf /\ g.said = f.said /\ g.spoilt = f.spoilt /\ g.mixed = f.mixed
  <2>1. f.position + 1 \in Nat \ {0}
    BY FrameTyped
  <2> QED
    BY <2>1 DEF Frame
<1>2. /\ f.position \in 1 .. 3
      /\ g.pc = "assemble" => f.position + 1 \in 1 .. 3
      /\ g.pc = "footnotes" => f.position + 1 \in 3 .. 3 + Len(footnotes(f))
      /\ f.pc \in {"assemble", "footnotes"}
  <2> HIDE DEF g
  <2>1. CASE f.pc = "assemble" /\ f.position \in 1 .. 2
    BY <1>1, <2>1
  <2>2. CASE f.pc = "footnotes" /\ f.position = 3 /\ Len(footnotes(f)) = 1
    BY <1>1, <2>2
  <2> QED
    BY <2>1, <2>2
<1>3. /\ c[f.position] = Written(f)[f.position]
      /\ \A k \in 1 .. f.position - 1 : c[k] = b[k]
  BY <1>2
<1> HIDE DEF g, c
<1>4. footnotes(g) = footnotes(f) /\ Written(g) = Written(f)
  BY <1>1 DEF footnotes, software_error, Written, assembled, problem
<1>5. Placed(g) /\ Named(g, p) /\ HasCopy(g)
  BY <1>1, <1>2, <1>4 DEF FrameOK, Placed, Named, HasCopy, Early
<1>6. Holds(g, c)
  <2> SUFFICES ASSUME Reading(g)
               PROVE  \A k \in 1 .. f.position : c[k] = Written(f)[k]
    <3>1. (f.position + 1) - 1 = f.position
      BY FrameTyped
    <3> QED
      BY <1>1, <1>2, <1>4, <3>1 DEF Holds, Filled
  <2>1. \A k \in 1 .. f.position - 1 : b[k] = Written(f)[k]
    BY <1>1, <1>2 DEF FrameOK, Holds, Filled, Reading, Early
  <2> QED
    BY <1>2, <1>3, <2>1
<1>7. Copied(g) /\ HasRead(g)
  BY <1>1, <1>2 DEF FrameOK, Placed, Copied, HasRead, Early
<1> QED
  BY <1>1, <1>5, <1>6, <1>7 DEF FrameOK, g, c

LEMMA NULStoredOK ==
    ASSUME NEW f \in Frame, NEW b, NEW p, FrameOK(f, b, p),
           b \in [Cell -> Text \cup {NUL}], NEW pc,
           \/ f.pc = "assemble" /\ f.position = 3 /\ pc = "footnotes"
           \/ /\ f.pc = "footnotes" /\ f.position = Len(Written(f)) + 1
              /\ pc = IF f.form = "on_error" THEN "output" ELSE "print"
    PROVE  /\ [f EXCEPT !.pc = pc] \in Frame
           /\ FrameOK([f EXCEPT !.pc = pc], [b EXCEPT ![f.position] = NUL], p)
<1> DEFINE g == [f EXCEPT !.pc = pc]
           c == [b EXCEPT ![f.position] = NUL]
<1>1. /\ g \in Frame /\ g.pc = pc
      /\ g.form = f.form /\ g.uid = f.uid /\ g.err = f.err /\ g.errnum = f.errnum /\ g.position = f.position
      /\ g.name = f.name /\ g.text = f.text
      /\ g.buf = f.buf /\ g.said = f.said /\ g.spoilt = f.spoilt /\ g.mixed = f.mixed
  BY DEF Frame, FramePC
<1>2. f.pc \in {"assemble", "footnotes"} /\ f.position \in 3 .. 4
  BY AssembleWhere, FootnotesWhere
<1>3. c[f.position] = NUL /\ \A k \in 1 .. f.position - 1 : c[k] = b[k]
  BY <1>2
<1> HIDE DEF g, c
<1>4. footnotes(g) = footnotes(f) /\ Written(g) = Written(f)
  BY <1>1 DEF footnotes, software_error, Written, assembled, problem
<1>5. Named(g, p) /\ HasCopy(g)
  BY <1>1, <1>2 DEF FrameOK, Named, HasCopy, Placed, Early
<1>6. Placed(g)
  <2>1. g.pc = "footnotes" => 3 \in 3 .. 3 + Len(footnotes(f))
    BY Pieces
  <2> QED
    BY <1>1, <1>2, <1>4, <2>1 DEF FrameOK, Placed, Early
<1>7. ASSUME Reading(g)
      PROVE  \A k \in 1 .. f.position - 1 : c[k] = Written(f)[k]
  BY <1>1, <1>2, <1>3, <1>7 DEF FrameOK, Holds, Filled, Reading, Early
<1>8. Holds(g, c)
  <2>1. CASE f.pc = "assemble"
    BY <1>1, <1>2, <1>4, <1>7, <2>1 DEF Holds, Filled
  <2>2. CASE f.pc = "footnotes"
    <3>1. PICK n \in Nat : n = Len(Written(f))
      BY WrittenIs, LenProperties
    <3>2. f.position - 1 = n
      BY <2>2, <3>1
    <3> QED
      BY <1>1, <1>3, <1>4, <1>7, <2>2, <3>1, <3>2 DEF Holds, Filled
  <2> QED
    BY <1>2, <2>1, <2>2
<1>9. Copied(g) /\ HasRead(g)
  BY <1>1, <1>2 DEF FrameOK, Placed, Copied, HasRead, Early
<1> QED
  BY <1>1, <1>5, <1>6, <1>8, <1>9 DEF FrameOK, g, c

-----------------------------------------------------------------------------
\* And from there to the reader.
LEMMA GivenOK ==
    ASSUME NEW f \in Frame, NEW b, NEW p, FrameOK(f, b, p), f.pc = "output"
    PROVE  /\ [f EXCEPT !.pc = "print"] \in Frame
           /\ FrameOK([f EXCEPT !.pc = "print"], b, p)
<1> DEFINE g == [f EXCEPT !.pc = "print"]
<1>1. /\ g \in Frame /\ g.pc = "print"
      /\ g.form = f.form /\ g.uid = f.uid /\ g.err = f.err /\ g.errnum = f.errnum /\ g.position = f.position
      /\ g.name = f.name /\ g.text = f.text
      /\ g.buf = f.buf /\ g.said = f.said /\ g.spoilt = f.spoilt /\ g.mixed = f.mixed
  BY DEF Frame, FramePC
<1> HIDE DEF g
<1>2. Written(g) = Written(f)
  BY <1>1 DEF footnotes, software_error, Written, assembled, problem
<1>3. Placed(g) /\ Named(g, p) /\ HasCopy(g)
  BY <1>1 DEF FrameOK, Placed, Named, HasCopy, Early
<1>4. Holds(g, b) /\ Copied(g) /\ HasRead(g)
  BY <1>1, <1>2 DEF FrameOK, Placed, Holds, Filled, Reading, Copied, HasRead, Early
<1> QED
  BY <1>1, <1>3, <1>4 DEF FrameOK, g

LEMMA CopyBegunOK ==
    ASSUME NEW f \in Frame, NEW b, NEW p, FrameOK(f, b, p), f.pc = "output",
           NEW prefix \in Prefixes
    PROVE  LET g == [f EXCEPT !.pc = "copy", !.position = 1, !.buf = prefix]
           IN  g \in Frame /\ FrameOK(g, b, p)
<1> DEFINE g == [f EXCEPT !.pc = "copy", !.position = 1, !.buf = prefix]
<1>0. prefix \in Seq(Text) /\ 1 \in Nat \ {0} /\ "copy" \in FramePC
  BY PrefixesTyped DEF FramePC
<1>1. /\ g \in Frame /\ g.pc = "copy" /\ g.position = 1 /\ g.buf = prefix
      /\ g.form = f.form /\ g.uid = f.uid /\ g.err = f.err /\ g.errnum = f.errnum
      /\ g.name = f.name /\ g.text = f.text
      /\ g.said = f.said /\ g.spoilt = f.spoilt /\ g.mixed = f.mixed
  BY <1>0 DEF Frame
<1> HIDE DEF g
<1>2. Written(g) = Written(f)
  BY <1>1 DEF footnotes, software_error, Written, assembled, problem
<1>3. Placed(g) /\ Named(g, p) /\ HasCopy(g)
  BY <1>1 DEF FrameOK, Placed, Named, HasCopy, Early
<1>4. Holds(g, b)
  BY <1>1, <1>2 DEF FrameOK, Holds, Filled, Reading, Early
<1>5. Copied(g)
  <2>1. Behind(prefix, prefix, Written(f), 0)
    BY <1>0, BehindNothing
  <2>2. 1 <= Len(Written(f)) + 1 /\ 1 - 1 = 0
    BY WrittenIs, LenProperties
  <2> QED
    BY <1>1, <1>2, <2>1, <2>2 DEF FrameOK, Placed, Copied
<1>6. HasRead(g)
  BY <1>1 DEF FrameOK, Placed, HasRead
<1> QED
  BY <1>1, <1>3, <1>4, <1>5, <1>6 DEF FrameOK, g

\* Who reads a NUL is at the end of the text, and else has its next piece.
LEMMA NextPiece ==
    ASSUME NEW f \in Frame, NEW b, NEW p, FrameOK(f, b, p),
           f.pc \in {"copy", "read"}, Reading(f)
    PROVE  /\ f.position \in 1 .. Len(Written(f)) + 1
           /\ b[f.position] = NUL => f.position - 1 = Len(Written(f))
           /\ b[f.position] # NUL => /\ f.position \in 1 .. Len(Written(f))
                                     /\ b[f.position] = Written(f)[f.position]
<1>1. PICK n \in Nat, at \in Nat \ {0} : n = Len(Written(f)) /\ at = f.position
  BY WrittenIs, LenProperties, FrameTyped
<1>2. at <= n + 1
  BY <1>1 DEF FrameOK, Copied, HasRead, Reading
<1>3. /\ \A k \in 1 .. n : b[k] = Written(f)[k]
      /\ b[n + 1] = NUL
  BY <1>1 DEF FrameOK, Holds, Filled, Early
<1>4. \A k \in 1 .. n : b[k] # NUL
  BY <1>1, <1>3, WrittenIs
<1>5. at \in 1 .. n + 1 /\ (at \in 1 .. n \/ at = n + 1) /\ (n + 1) - 1 = n
  BY <1>2
<1> QED
  BY <1>1, <1>3, <1>4, <1>5

LEMMA CopyEndedOK ==
    ASSUME NEW f \in Frame, NEW b, NEW p, FrameOK(f, b, p), f.pc = "copy",
           b[f.position] = NUL
    PROVE  /\ [f EXCEPT !.pc = "print", !.text = "local"] \in Frame
           /\ FrameOK([f EXCEPT !.pc = "print", !.text = "local"], b, p)
<1> DEFINE g == [f EXCEPT !.pc = "print", !.text = "local"]
<1>1. /\ g \in Frame /\ g.pc = "print" /\ g.text = "local"
      /\ g.form = f.form /\ g.uid = f.uid /\ g.err = f.err /\ g.errnum = f.errnum /\ g.position = f.position
      /\ g.name = f.name
      /\ g.buf = f.buf /\ g.said = f.said /\ g.spoilt = f.spoilt /\ g.mixed = f.mixed
  BY DEF Frame, FramePC
<1> HIDE DEF g
<1>2. Written(g) = Written(f)
  BY <1>1 DEF footnotes, software_error, Written, assembled, problem
<1>3. Placed(g) /\ Named(g, p) /\ HasCopy(g)
  BY <1>1 DEF FrameOK, Placed, Named, HasCopy, Early
<1>4. Holds(g, b) /\ HasRead(g)
  BY <1>1 DEF Holds, Reading, HasRead
<1>5. Copied(g)
  <2> SUFFICES ASSUME ~f.spoilt
               PROVE  f.buf \in {pre \o Written(f) : pre \in Prefixes}
    BY <1>1, <1>2 DEF Copied
  <2>1. Reading(f)
    BY DEF FrameOK, Placed, Reading
  <2>2. f.position - 1 = Len(Written(f))
    BY <2>1, NextPiece
  <2>3. PICK pre \in Prefixes : Behind(f.buf, pre, Written(f), Len(Written(f)))
    BY <2>2 DEF FrameOK, Copied
  <2>4. pre \in Seq(Text) /\ f.buf \in Seq(Text) /\ Written(f) \in Seq(Text)
    BY PrefixesTyped, FrameTyped, WrittenIs
  <2> QED
    BY <2>3, <2>4, BehindAll
<1> QED
  BY <1>1, <1>3, <1>4, <1>5 DEF FrameOK, g

LEMMA CellIndex ==
    ASSUME NEW at \in 1 .. 3
    PROVE  /\ at + 1 \in Nat \ {0} /\ at + 1 \in 1 .. 4
           /\ at - 1 \in Nat /\ (at + 1) - 1 = at /\ (at - 1) + 1 = at
  OBVIOUS

LEMMA PieceCopiedOK ==
    ASSUME NEW f \in Frame, NEW b, NEW p, FrameOK(f, b, p), f.pc = "copy",
           b \in [Cell -> Text \cup {NUL}], b[4] = NUL, b[f.position] # NUL
    PROVE  LET g == [f EXCEPT !.buf = Append(@, b[f.position]), !.position = @ + 1]
           IN  g \in Frame /\ FrameOK(g, b, p)
<1> DEFINE g == [f EXCEPT !.buf = Append(@, b[f.position]), !.position = @ + 1]
<1>0. /\ f.position \in 1 .. 3 /\ b[f.position] \in Text /\ f.buf \in Seq(Text)
      /\ Append(f.buf, b[f.position]) \in Seq(Text)
      /\ f.position + 1 \in Nat \ {0} /\ f.position + 1 \in Cell
      /\ f.position - 1 \in Nat /\ (f.position + 1) - 1 = f.position
      /\ (f.position - 1) + 1 = f.position
  <2>1. f.position \in 1 .. 4
    BY DEF FrameOK, Placed
  <2>2. f.position \in 1 .. 3
    BY <2>1
  <2>3. b[f.position] \in Text /\ f.buf \in Seq(Text)
    BY <2>1, FrameTyped
  <2>4. Append(f.buf, b[f.position]) \in Seq(Text)
    BY <2>3, AppendProperties
  <2>5. /\ f.position + 1 \in Nat \ {0} /\ f.position + 1 \in 1 .. 4
        /\ f.position - 1 \in Nat /\ (f.position + 1) - 1 = f.position
        /\ (f.position - 1) + 1 = f.position
    BY <2>2, CellIndex
  <2> QED
    BY <2>2, <2>3, <2>4, <2>5
<1>1. /\ g \in Frame /\ g.position = f.position + 1
      /\ g.buf = Append(f.buf, b[f.position])
      /\ g.form = f.form /\ g.uid = f.uid /\ g.err = f.err /\ g.errnum = f.errnum /\ g.pc = f.pc
      /\ g.name = f.name /\ g.text = f.text
      /\ g.said = f.said /\ g.spoilt = f.spoilt /\ g.mixed = f.mixed
  BY <1>0 DEF Frame
<1> HIDE DEF g
<1>2. Written(g) = Written(f)
  BY <1>1 DEF footnotes, software_error, Written, assembled, problem
<1>3. Placed(g) /\ Named(g, p) /\ HasCopy(g)
  BY <1>0, <1>1 DEF FrameOK, Placed, Named, HasCopy, Early
<1>4. Holds(g, b)
  BY <1>1, <1>2 DEF FrameOK, Holds, Filled, Reading, Early
<1>5. Copied(g)
  <2> SUFFICES ASSUME ~f.spoilt
               PROVE  /\ f.position + 1 <= Len(Written(f)) + 1
                      /\ \E pre \in Prefixes : Behind(g.buf, pre, Written(f), f.position)
    BY <1>0, <1>1, <1>2 DEF Copied, FrameOK, Placed
  <2>1. Reading(f)
    BY DEF FrameOK, Placed, Reading
  <2>2. f.position \in 1 .. Len(Written(f)) /\ b[f.position] = Written(f)[f.position]
    BY <2>1, NextPiece
  <2>3. PICK pre \in Prefixes : Behind(f.buf, pre, Written(f), f.position - 1)
    BY DEF FrameOK, Copied
  <2>4. pre \in Seq(Text) /\ Written(f) \in Seq(Text)
    BY PrefixesTyped, WrittenIs
  <2>5. Behind(Append(f.buf, Written(f)[(f.position - 1) + 1]), pre, Written(f),
               (f.position - 1) + 1)
    BY <1>0, <2>2, <2>3, <2>4, BehindMore
  <2>6. f.position + 1 <= Len(Written(f)) + 1
    BY <1>0, <2>2, <2>4, LenProperties
  <2> QED
    BY <1>0, <1>1, <2>2, <2>5, <2>6
<1>6. HasRead(g)
  BY <1>1 DEF FrameOK, Placed, HasRead, Early
<1> QED
  BY <1>1, <1>3, <1>4, <1>5, <1>6 DEF FrameOK, g

LEMMA CopyGivenOK ==
    ASSUME NEW f \in Frame, NEW b, NEW p, FrameOK(f, b, p), f.pc = "print",
           f.text = "local", NEW e \in Errno
    PROVE  LET g == [f EXCEPT !.hold_errno = e, !.position = 1, !.pc = "told", !.got = f.buf]
           IN  g \in Frame /\ FrameOK(g, b, p)
<1> DEFINE g == [f EXCEPT !.hold_errno = e, !.position = 1, !.pc = "told", !.got = f.buf]
<1>0. f.buf \in Seq(Text) /\ 1 \in Nat \ {0} /\ "told" \in FramePC
  BY FrameTyped DEF FramePC
<1>1. /\ g \in Frame /\ g.pc = "told" /\ g.got = f.buf /\ g.buf = f.buf
      /\ g.form = f.form /\ g.uid = f.uid /\ g.err = f.err /\ g.errnum = f.errnum
      /\ g.name = f.name /\ g.text = f.text
      /\ g.said = f.said /\ g.spoilt = f.spoilt /\ g.mixed = f.mixed
  BY <1>0 DEF Frame
<1> HIDE DEF g
<1>2. Written(g) = Written(f)
  BY <1>1 DEF footnotes, software_error, Written, assembled, problem
<1>3. Placed(g) /\ Named(g, p) /\ HasCopy(g)
  BY <1>1 DEF FrameOK, Placed, Named, HasCopy, Early
<1>4. Holds(g, b) /\ Copied(g) /\ HasRead(g)
  BY <1>1, <1>2 DEF FrameOK, Holds, Reading, Copied, HasRead
<1> QED
  BY <1>1, <1>3, <1>4 DEF FrameOK, g

LEMMA ReadBegunOK ==
    ASSUME NEW f \in Frame, NEW b, NEW p, FrameOK(f, b, p), f.pc = "print",
           f.text # "local", NEW e \in Errno
    PROVE  LET g == [f EXCEPT !.hold_errno = e, !.position = 1, !.pc = "read", !.got = <<>>]
           IN  g \in Frame /\ FrameOK(g, b, p)
<1> DEFINE g == [f EXCEPT !.hold_errno = e, !.position = 1, !.pc = "read", !.got = <<>>]
<1>0. <<>> \in Seq(Text) /\ 1 \in Nat \ {0} /\ "read" \in FramePC /\ f.text = "common"
  BY FrameTyped DEF FramePC
<1>1. /\ g \in Frame /\ g.pc = "read" /\ g.got = <<>> /\ g.position = 1 /\ g.buf = f.buf
      /\ g.form = f.form /\ g.uid = f.uid /\ g.err = f.err /\ g.errnum = f.errnum
      /\ g.name = f.name /\ g.text = f.text
      /\ g.said = f.said /\ g.spoilt = f.spoilt /\ g.mixed = f.mixed
  BY <1>0 DEF Frame
<1> HIDE DEF g
<1>2. Written(g) = Written(f)
  BY <1>1 DEF footnotes, software_error, Written, assembled, problem
<1>3. Placed(g) /\ Named(g, p) /\ HasCopy(g)
  BY <1>0, <1>1 DEF FrameOK, Placed, Named, HasCopy, Early
<1>4. Holds(g, b) /\ Copied(g)
  BY <1>0, <1>1, <1>2 DEF FrameOK, Holds, Filled, Reading, Copied, Early
<1>5. HasRead(g)
  <2>1. Behind(<<>>, <<>>, Written(f), 0)
    BY <1>0, BehindNothing
  <2>2. 1 <= Len(Written(f)) + 1 /\ 1 - 1 = 0
    BY WrittenIs, LenProperties
  <2> QED
    BY <1>1, <1>2, <2>1, <2>2 DEF FrameOK, HasRead, Reading
<1> QED
  BY <1>1, <1>3, <1>4, <1>5 DEF FrameOK, g

LEMMA ReadEndedOK ==
    ASSUME NEW f \in Frame, NEW b, NEW p, FrameOK(f, b, p), f.pc = "read",
           b[f.position] = NUL
    PROVE  /\ [f EXCEPT !.pc = "told"] \in Frame
           /\ FrameOK([f EXCEPT !.pc = "told"], b, p)
<1> DEFINE g == [f EXCEPT !.pc = "told"]
<1>0. f.text = "common"
  BY FrameTyped DEF FrameOK, Placed
<1>1. /\ g \in Frame /\ g.pc = "told" /\ g.got = f.got /\ g.buf = f.buf
      /\ g.form = f.form /\ g.uid = f.uid /\ g.err = f.err /\ g.errnum = f.errnum
      /\ g.name = f.name /\ g.text = f.text
      /\ g.said = f.said /\ g.spoilt = f.spoilt /\ g.mixed = f.mixed
  BY DEF Frame, FramePC
<1> HIDE DEF g
<1>2. Written(g) = Written(f)
  BY <1>1 DEF footnotes, software_error, Written, assembled, problem
<1>3. Placed(g) /\ Named(g, p) /\ HasCopy(g)
  BY <1>0, <1>1 DEF FrameOK, Placed, Named, HasCopy, Early
<1>4. Holds(g, b) /\ Copied(g)
  BY <1>0, <1>1, <1>2 DEF FrameOK, Holds, Filled, Reading, Copied, Early
<1>5. HasRead(g)
  <2> SUFFICES ASSUME Reading(f)
               PROVE  f.got = Written(f) /\ \A i \in DOMAIN f.said : f.said[i] = Written(f)
    BY <1>1, <1>2 DEF HasRead, Reading
  <2>1. f.position - 1 = Len(Written(f))
    BY NextPiece
  <2>2. Behind(f.got, <<>>, Written(f), Len(Written(f)))
    BY <2>1 DEF FrameOK, HasRead
  <2>3. f.got \in Seq(Text) /\ Written(f) \in Seq(Text) /\ <<>> \in Seq(Text)
    BY FrameTyped, WrittenIs
  <2>4. f.got = <<>> \o Written(f)
    BY <2>2, <2>3, BehindAll
  <2>5. f.got = Written(f)
    BY <2>3, <2>4, ConcatEmptySeq
  <2> QED
    BY <2>5 DEF FrameOK, HasRead
<1> QED
  BY <1>1, <1>3, <1>4, <1>5 DEF FrameOK, g

LEMMA PieceReadOK ==
    ASSUME NEW f \in Frame, NEW b, NEW p, FrameOK(f, b, p), f.pc = "read",
           b \in [Cell -> Text \cup {NUL}], b[4] = NUL, b[f.position] # NUL
    PROVE  LET g == [f EXCEPT !.got = Append(@, b[f.position]), !.position = @ + 1]
           IN  g \in Frame /\ FrameOK(g, b, p)
<1> DEFINE g == [f EXCEPT !.got = Append(@, b[f.position]), !.position = @ + 1]
<1>0. /\ f.position \in 1 .. 3 /\ b[f.position] \in Text /\ f.got \in Seq(Text)
      /\ Append(f.got, b[f.position]) \in Seq(Text)
      /\ f.position + 1 \in Nat \ {0} /\ f.position + 1 \in Cell
      /\ f.position - 1 \in Nat /\ (f.position + 1) - 1 = f.position
      /\ (f.position - 1) + 1 = f.position
  <2>1. f.position \in 1 .. 4
    BY DEF FrameOK, Placed
  <2>2. f.position \in 1 .. 3
    BY <2>1
  <2>3. b[f.position] \in Text /\ f.got \in Seq(Text)
    BY <2>1, FrameTyped
  <2>4. Append(f.got, b[f.position]) \in Seq(Text)
    BY <2>3, AppendProperties
  <2>5. /\ f.position + 1 \in Nat \ {0} /\ f.position + 1 \in 1 .. 4
        /\ f.position - 1 \in Nat /\ (f.position + 1) - 1 = f.position
        /\ (f.position - 1) + 1 = f.position
    BY <2>2, CellIndex
  <2> QED
    BY <2>2, <2>3, <2>4, <2>5
<1>1. /\ g \in Frame /\ g.position = f.position + 1
      /\ g.got = Append(f.got, b[f.position]) /\ g.buf = f.buf
      /\ g.form = f.form /\ g.uid = f.uid /\ g.err = f.err /\ g.errnum = f.errnum /\ g.pc = f.pc
      /\ g.name = f.name /\ g.text = f.text
      /\ g.said = f.said /\ g.spoilt = f.spoilt /\ g.mixed = f.mixed
  BY <1>0 DEF Frame
<1> HIDE DEF g
<1>2. Written(g) = Written(f)
  BY <1>1 DEF footnotes, software_error, Written, assembled, problem
<1>3. Placed(g) /\ Named(g, p) /\ HasCopy(g)
  BY <1>0, <1>1 DEF FrameOK, Placed, Named, HasCopy, Early
<1>4. Holds(g, b) /\ Copied(g)
  <2>1. Holds(g, b)
    BY <1>1, <1>2 DEF FrameOK, Holds, Filled, Reading, Early
  <2>2. Copied(g)
    BY <1>1, <1>2, ZenonT(60) DEF FrameOK, Copied
  <2> QED
    BY <2>1, <2>2
<1>5. HasRead(g)
  <2> SUFFICES ASSUME Reading(f)
               PROVE  /\ f.position + 1 <= Len(Written(f)) + 1
                      /\ Behind(g.got, <<>>, Written(f), f.position)
    BY <1>0, <1>1, <1>2 DEF FrameOK, HasRead, Reading
  <2>1. f.position \in 1 .. Len(Written(f)) /\ b[f.position] = Written(f)[f.position]
    BY NextPiece
  <2>2. Behind(f.got, <<>>, Written(f), f.position - 1)
    BY DEF FrameOK, HasRead
  <2>3. <<>> \in Seq(Text) /\ Written(f) \in Seq(Text)
    BY WrittenIs
  <2>4. Behind(Append(f.got, Written(f)[(f.position - 1) + 1]), <<>>, Written(f),
               (f.position - 1) + 1)
    BY <1>0, <2>1, <2>2, <2>3, BehindMore
  <2>5. f.position + 1 <= Len(Written(f)) + 1
    BY <1>0, <2>1, <2>3, LenProperties
  <2> QED
    BY <1>0, <1>1, <2>1, <2>4, <2>5
<1> QED
  BY <1>1, <1>3, <1>4, <1>5 DEF FrameOK, g

LEMMA ToldOK ==
    ASSUME NEW f \in Frame, NEW b, NEW p, FrameOK(f, b, p), f.pc = "told",
           f.form = "on_error"
    PROVE  /\ [f EXCEPT !.pc = "printed"] \in Frame
           /\ FrameOK([f EXCEPT !.pc = "printed"], b, p)
<1> DEFINE g == [f EXCEPT !.pc = "printed"]
<1>1. /\ g \in Frame /\ g.pc = "printed" /\ g.got = f.got /\ g.buf = f.buf
      /\ g.form = f.form /\ g.uid = f.uid /\ g.err = f.err /\ g.errnum = f.errnum
      /\ g.name = f.name /\ g.text = f.text
      /\ g.said = f.said /\ g.spoilt = f.spoilt /\ g.mixed = f.mixed
  BY DEF Frame, FramePC
<1> HIDE DEF g
<1>2. Written(g) = Written(f)
  BY <1>1 DEF footnotes, software_error, Written, assembled, problem
<1>3. Placed(g) /\ Named(g, p) /\ HasCopy(g)
  BY <1>1 DEF FrameOK, Placed, Named, HasCopy, Early
<1>4. Holds(g, b) /\ Copied(g) /\ HasRead(g)
  BY <1>1, <1>2 DEF FrameOK, Holds, Filled, Reading, Copied, HasRead, Early
<1> QED
  BY <1>1, <1>3, <1>4 DEF FrameOK, g

LEMMA PrintedOK ==
    ASSUME NEW f \in Frame, NEW b, NEW p, FrameOK(f, b, p), f.pc = "printed",
           NEW pc \in {"print", "restore"}
    PROVE  LET g == [f EXCEPT !.said = Append(@, f.got), !.got = <<>>, !.leaf = @ + 1,
                              !.pc = pc]
           IN  g \in Frame /\ FrameOK(g, b, p)
<1> DEFINE g == [f EXCEPT !.said = Append(@, f.got), !.got = <<>>, !.leaf = @ + 1, !.pc = pc]
<1>0. /\ f.said \in Seq(Seq(Text)) /\ f.got \in Seq(Text) /\ <<>> \in Seq(Text)
      /\ Append(f.said, f.got) \in Seq(Seq(Text))
      /\ f.leaf + 1 \in Nat \ {0} /\ pc \in FramePC
  <2>1. /\ f.said \in Seq(Seq(Text)) /\ f.got \in Seq(Text) /\ <<>> \in Seq(Text)
        /\ f.leaf \in Nat \ {0}
    BY FrameTyped
  <2>2. Append(f.said, f.got) \in Seq(Seq(Text))
    BY <2>1, AppendProperties
  <2>3. f.leaf + 1 \in Nat \ {0}
    BY <2>1
  <2> QED
    BY <2>1, <2>2, <2>3 DEF FramePC
<1>1. /\ g \in Frame /\ g.pc = pc /\ g.buf = f.buf /\ g.said = Append(f.said, f.got)
      /\ g.form = f.form /\ g.uid = f.uid /\ g.err = f.err /\ g.errnum = f.errnum
      /\ g.name = f.name /\ g.text = f.text
      /\ g.spoilt = f.spoilt /\ g.mixed = f.mixed
  BY <1>0 DEF Frame
<1> HIDE DEF g
<1>2. Written(g) = Written(f)
  BY <1>1 DEF footnotes, software_error, Written, assembled, problem
<1>3. Placed(g) /\ Named(g, p)
  BY <1>1 DEF FrameOK, Placed, Named, Early
<1>4. Holds(g, b) /\ Copied(g)
  BY <1>1, <1>2 DEF FrameOK, Holds, Filled, Reading, Copied, Early
<1>5. \A i \in DOMAIN g.said : g.said[i] = f.got \/ (i \in DOMAIN f.said /\ g.said[i] = f.said[i])
  <2>1. /\ Len(g.said) = Len(f.said) + 1
        /\ \A i \in 1 .. Len(f.said) : g.said[i] = f.said[i]
        /\ g.said[Len(f.said) + 1] = f.got
    BY <1>0, <1>1, AppendProperties
  <2>2. DOMAIN g.said = 1 .. Len(f.said) + 1 /\ DOMAIN f.said = 1 .. Len(f.said)
        /\ Len(f.said) \in Nat
    BY <1>0, <1>1, <2>1, LenProperties
  <2>3. \A i \in 1 .. Len(f.said) + 1 : i \in 1 .. Len(f.said) \/ i = Len(f.said) + 1
    BY <2>2
  <2> QED
    BY <2>1, <2>2, <2>3
<1>6. HasRead(g) /\ HasCopy(g)
  BY <1>1, <1>2, <1>5 DEF FrameOK, HasRead, HasCopy, Reading
<1> QED
  BY <1>1, <1>3, <1>4, <1>6 DEF FrameOK, g

LEMMA RestoredOK ==
    ASSUME NEW f \in Frame, NEW b, NEW p, FrameOK(f, b, p), f.pc = "restore"
    PROVE  /\ [f EXCEPT !.pc = "return"] \in Frame
           /\ FrameOK([f EXCEPT !.pc = "return"], b, p)
<1> DEFINE g == [f EXCEPT !.pc = "return"]
<1>1. /\ g \in Frame /\ g.pc = "return" /\ g.got = f.got /\ g.buf = f.buf
      /\ g.form = f.form /\ g.uid = f.uid /\ g.err = f.err /\ g.errnum = f.errnum
      /\ g.name = f.name /\ g.text = f.text
      /\ g.said = f.said /\ g.spoilt = f.spoilt /\ g.mixed = f.mixed
  BY DEF Frame, FramePC
<1> HIDE DEF g
<1>2. Written(g) = Written(f)
  BY <1>1 DEF footnotes, software_error, Written, assembled, problem
<1>3. Placed(g) /\ Named(g, p) /\ HasCopy(g)
  BY <1>1 DEF FrameOK, Placed, Named, HasCopy, Early
<1>4. Holds(g, b) /\ Copied(g) /\ HasRead(g)
  BY <1>1, <1>2 DEF FrameOK, Holds, Filled, Reading, Copied, HasRead, Early
<1> QED
  BY <1>1, <1>3, <1>4 DEF FrameOK, g

-----------------------------------------------------------------------------
(***************************************************************************)
(* The invariant.                                                          *)
(***************************************************************************)
\* The buffer that the frame writes to, or that it leaves to the client.
Buffer(f, o, c) == IF ToOwn(f) THEN o ELSE c

StateTyped ==
    /\ common \in [Cell -> Text \cup {NUL}]
    /\ own \in [Thread -> [Cell -> Text \cup {NUL}]]
    /\ common[4] = NUL /\ \A t \in Thread : own[t][4] = NUL
    /\ pw \in Uid
    /\ output \in Seq({"plain", "client"})
    /\ errno \in [Thread -> Errno]
    /\ frames \in [Thread -> Seq(Frame)]
    /\ made \in [Thread -> 0 .. MaxCalls]

\* All but the innermost frame wait for a part of their output.
Waiting ==
    \A t \in Thread : \A i \in DOMAIN frames[t] : i > 1 => frames[t][i].pc = "printed"

FramesOK ==
    \A t \in Thread : \A i \in DOMAIN frames[t] :
        FrameOK(frames[t][i], Buffer(frames[t][i], own[t], common), pw)

\* errno is what the call failed with, until it is taken and once it is put back.
ErrnoThere ==
    \A t \in Thread : In(t, "errno") \/ In(t, "return") => errno[t] = Top(t).err

IInv == StateTyped /\ Waiting /\ FramesOK /\ ErrnoThere

LEMMA SeqOfFunction ==
    ASSUME NEW S, NEW n \in Nat, NEW s \in [1 .. n -> S]
    PROVE  s \in Seq(S) /\ Len(s) = n
  OBVIOUS

LEMMA StackTyped ==
    ASSUME StateTyped, NEW t \in Thread
    PROVE  /\ frames[t] \in Seq(Frame) /\ Len(frames[t]) \in Nat
           /\ DOMAIN frames[t] = 1 .. Len(frames[t])
           /\ \A i \in DOMAIN frames[t] : frames[t][i] \in Frame
           /\ frames[t] # <<>> => 1 \in DOMAIN frames[t] /\ Top(t) \in Frame
<1>1. frames[t] \in Seq(Frame)
  BY DEF StateTyped
<1>2. Len(frames[t]) \in Nat /\ DOMAIN frames[t] = 1 .. Len(frames[t])
  BY <1>1, LenProperties
<1>3. \A i \in DOMAIN frames[t] : frames[t][i] \in Frame
  BY <1>1, <1>2, ElementOfSeq
<1>4. frames[t] # <<>> => Len(frames[t]) \in Nat \ {0}
  BY <1>1, EmptySeq
<1>5. frames[t] # <<>> => 1 \in DOMAIN frames[t]
  BY <1>2, <1>4
<1> QED
  BY <1>1, <1>2, <1>3, <1>5 DEF Top

LEMMA TopOK ==
    ASSUME IInv, NEW t \in Thread, frames[t] # <<>>
    PROVE  /\ Top(t) \in Frame
           /\ FrameOK(Top(t), Buffer(Top(t), own[t], common), pw)
  BY StackTyped DEF IInv, FramesOK, Top

\* The frames that wait do not use the buffer of the thread.
LEMMA BelowOK ==
    ASSUME IInv, NEW t \in Thread, NEW i \in DOMAIN frames[t], i > 1
    PROVE  /\ frames[t][i].pc = "printed"
           /\ ~ToOwn(frames[t][i])
           /\ FrameOK(frames[t][i], common, pw)
<1>1. frames[t][i].pc = "printed"
  BY DEF IInv, Waiting
<1>2. FrameOK(frames[t][i], Buffer(frames[t][i], own[t], common), pw)
  BY DEF IInv, FramesOK
<1>3. frames[t][i].form = "on_error"
  BY <1>1, <1>2 DEF FrameOK, Placed
<1> QED
  BY <1>1, <1>2, <1>3 DEF ToOwn, Buffer

\* Who does nothing to its frame does not change.
LEMMA MarkedSame ==
    ASSUME NEW f \in Frame
    PROVE  /\ Spoilt(f).pc = f.pc /\ Spoilt(f).err = f.err /\ Spoilt(f).form = f.form
           /\ Mixed(f).pc = f.pc /\ Mixed(f).err = f.err /\ Mixed(f).form = f.form
           /\ Spoilt(f) \in Frame /\ Mixed(f) \in Frame
  BY DEF Frame, Spoilt, Mixed

LEMMA GoesFrames ==
    ASSUME StateTyped, NEW t \in Thread, frames[t] # <<>>, NEW g \in Frame, Goes(t, g)
    PROVE  /\ frames' \in [Thread -> Seq(Frame)]
           /\ \A u \in Thread : DOMAIN frames'[u] = DOMAIN frames[u]
           /\ frames'[t][1] = g
           /\ \A u \in Thread : \A i \in DOMAIN frames[u] :
                 u # t \/ i # 1 => frames'[u][i] = frames[u][i]
<1>1. frames' = [u \in Thread |->
          [i \in DOMAIN frames[u] |-> IF u = t /\ i = 1 THEN g ELSE frames[u][i]]]
  BY DEF Goes, Becomes, Nobody, Same
<1>2. ASSUME NEW u \in Thread
      PROVE  frames'[u] \in Seq(Frame)
  <2>1. PICK n \in Nat : DOMAIN frames[u] = 1 .. n
    BY StackTyped
  <2>2. frames'[u] \in [1 .. n -> Frame]
    BY <1>1, <2>1, StackTyped
  <2> QED
    BY <2>2, SeqOfFunction
<1> QED
  BY <1>1, <1>2, StackTyped

LEMMA SpoilsFrames ==
    ASSUME StateTyped, NEW t \in Thread, frames[t] # <<>>, NEW g \in Frame,
           Becomes(t, g, Depends, Spoilt)
    PROVE  /\ frames' \in [Thread -> Seq(Frame)]
           /\ \A u \in Thread : DOMAIN frames'[u] = DOMAIN frames[u]
           /\ frames'[t][1] = g
           /\ \A u \in Thread : \A i \in DOMAIN frames[u] :
                 u # t \/ i # 1 => frames'[u][i] = IF Depends(frames[u][i])
                                                   THEN Spoilt(frames[u][i])
                                                   ELSE frames[u][i]
<1>1. frames' = [u \in Thread |->
          [i \in DOMAIN frames[u] |-> IF u = t /\ i = 1 THEN g
                                      ELSE IF Depends(frames[u][i]) THEN Spoilt(frames[u][i])
                                      ELSE frames[u][i]]]
  BY DEF Becomes
<1>2. ASSUME NEW u \in Thread
      PROVE  frames'[u] \in Seq(Frame)
  <2>1. PICK n \in Nat : DOMAIN frames[u] = 1 .. n
    BY StackTyped
  <2>2. \A i \in 1 .. n : frames[u][i] \in Frame /\ Spoilt(frames[u][i]) \in Frame
    BY <2>1, StackTyped, MarkedSame
  <2>3. frames'[u] \in [1 .. n -> Frame]
    BY <1>1, <2>1, <2>2
  <2> QED
    BY <2>3, SeqOfFunction
<1> QED
  BY <1>1, <1>2, StackTyped

LEMMA MixesFrames ==
    ASSUME StateTyped, NEW t \in Thread, frames[t] # <<>>, NEW g \in Frame,
           Becomes(t, g, AtName, Mixed)
    PROVE  /\ frames' \in [Thread -> Seq(Frame)]
           /\ \A u \in Thread : DOMAIN frames'[u] = DOMAIN frames[u]
           /\ frames'[t][1] = g
           /\ \A u \in Thread : \A i \in DOMAIN frames[u] :
                 u # t \/ i # 1 => frames'[u][i] = IF AtName(frames[u][i])
                                                   THEN Mixed(frames[u][i])
                                                   ELSE frames[u][i]
<1>1. frames' = [u \in Thread |->
          [i \in DOMAIN frames[u] |-> IF u = t /\ i = 1 THEN g
                                      ELSE IF AtName(frames[u][i]) THEN Mixed(frames[u][i])
                                      ELSE frames[u][i]]]
  BY DEF Becomes
<1>2. ASSUME NEW u \in Thread
      PROVE  frames'[u] \in Seq(Frame)
  <2>1. PICK n \in Nat : DOMAIN frames[u] = 1 .. n
    BY StackTyped
  <2>2. \A i \in 1 .. n : frames[u][i] \in Frame /\ Mixed(frames[u][i]) \in Frame
    BY <2>1, StackTyped, MarkedSame
  <2>3. frames'[u] \in [1 .. n -> Frame]
    BY <1>1, <2>1, <2>2
  <2> QED
    BY <2>3, SeqOfFunction
<1> QED
  BY <1>1, <1>2, StackTyped

\* A thread changes its frame to g; what else changes leaves the other frames well.
LEMMA StepOK ==
    ASSUME IInv, NEW t \in Thread, frames[t] # <<>>, NEW g \in Frame,
           \A u \in Thread : DOMAIN frames'[u] = DOMAIN frames[u],
           frames'[t][1] = g,
           \A u \in Thread : u # t => errno'[u] = errno[u],
           g.pc \in {"errno", "return"} => errno'[t] = g.err,
           FrameOK(g, Buffer(g, own'[t], common'), pw'),
           \A u \in Thread : \A i \in DOMAIN frames[u] : u # t \/ i # 1 =>
               /\ frames'[u][i].pc = frames[u][i].pc
               /\ frames'[u][i].err = frames[u][i].err
               /\ FrameOK(frames'[u][i], Buffer(frames'[u][i], own'[u], common'), pw')
    PROVE  Waiting' /\ FramesOK' /\ ErrnoThere'
<1>1. Waiting'
  BY DEF IInv, Waiting
<1>2. FramesOK'
  <2> SUFFICES ASSUME NEW u \in Thread, NEW i \in DOMAIN frames[u]
               PROVE  FrameOK(frames'[u][i], Buffer(frames'[u][i], own'[u], common'), pw')
    BY DEF FramesOK
  <2> QED
    OBVIOUS
<1>3. ErrnoThere'
  <2> SUFFICES ASSUME NEW u \in Thread, frames'[u] # <<>>, frames'[u][1].pc \in {"errno", "return"}
               PROVE  errno'[u] = frames'[u][1].err
    BY DEF ErrnoThere, In, Top
  <2>1. CASE u = t
    BY <2>1
  <2>2. CASE u # t
    <3>1. frames[u] # <<>> /\ 1 \in DOMAIN frames[u]
      <4>1. 1 \in DOMAIN frames[u] \/ DOMAIN frames[u] = {}
        <5>1. PICK n \in Nat : DOMAIN frames[u] = 1 .. n
          BY StackTyped DEF IInv
        <5> QED
          BY <5>1
      <4> QED
        BY <4>1, StackTyped DEF IInv
    <3>2. frames[u][1].pc \in {"errno", "return"} /\ frames[u][1].err = frames'[u][1].err
      BY <2>2, <3>1
    <3> QED
      BY <2>2, <3>1, <3>2 DEF IInv, ErrnoThere, In, Top
  <2> QED
    BY <2>1, <2>2
<1> QED
  BY <1>1, <1>2, <1>3

LEMMA GoStep ==
    ASSUME IInv, NEW t \in Thread, frames[t] # <<>>, NEW g \in Frame, Goes(t, g),
           UNCHANGED <<common, own, pw, output, made>>, errno' \in [Thread -> Errno],
           \A u \in Thread : u # t => errno'[u] = errno[u],
           g.pc \in {"errno", "return"} => errno'[t] = g.err,
           FrameOK(g, Buffer(g, own[t], common), pw)
    PROVE  IInv'
<1>1. StateTyped
  BY DEF IInv
<1>2. /\ frames' \in [Thread -> Seq(Frame)]
      /\ \A u \in Thread : DOMAIN frames'[u] = DOMAIN frames[u]
      /\ frames'[t][1] = g
      /\ \A u \in Thread : \A i \in DOMAIN frames[u] :
            u # t \/ i # 1 => frames'[u][i] = frames[u][i]
  BY <1>1, GoesFrames
<1>3. StateTyped'
  BY <1>1, <1>2 DEF StateTyped
<1>4. \A u \in Thread : \A i \in DOMAIN frames[u] :
         FrameOK(frames[u][i], Buffer(frames[u][i], own[u], common), pw)
  BY DEF IInv, FramesOK
<1>5. Waiting' /\ FramesOK' /\ ErrnoThere'
  BY <1>2, <1>4, StepOK, SMTT(60)
<1> QED
  BY <1>3, <1>5 DEF IInv

LEMMA LookupStep ==
    ASSUME IInv, NEW t \in Thread, frames[t] # <<>>, NEW g \in Frame,
           Becomes(t, g, AtName, Mixed), pw' \in Uid,
           UNCHANGED <<common, own, output, made>>, errno' \in [Thread -> Errno],
           \A u \in Thread : u # t => errno'[u] = errno[u],
           g.pc \notin {"errno", "return"},
           FrameOK(g, Buffer(g, own[t], common), pw')
    PROVE  IInv'
<1>1. StateTyped
  BY DEF IInv
<1>2. /\ frames' \in [Thread -> Seq(Frame)]
      /\ \A u \in Thread : DOMAIN frames'[u] = DOMAIN frames[u]
      /\ frames'[t][1] = g
      /\ \A u \in Thread : \A i \in DOMAIN frames[u] :
            u # t \/ i # 1 => frames'[u][i] = IF AtName(frames[u][i])
                                              THEN Mixed(frames[u][i])
                                              ELSE frames[u][i]
  BY <1>1, MixesFrames
<1>3. StateTyped'
  BY <1>1, <1>2 DEF StateTyped
<1>4. ASSUME NEW u \in Thread, NEW i \in DOMAIN frames[u], u # t \/ i # 1
      PROVE  /\ frames'[u][i].pc = frames[u][i].pc
             /\ frames'[u][i].err = frames[u][i].err
             /\ FrameOK(frames'[u][i], Buffer(frames'[u][i], own'[u], common'), pw')
  <2>1. FrameOK(frames[u][i], Buffer(frames[u][i], own[u], common), pw) /\ frames[u][i] \in Frame
    BY <1>1, StackTyped DEF IInv, FramesOK
  <2>2. CASE AtName(frames[u][i])
    <3>1. frames'[u][i] = Mixed(frames[u][i])
      BY <1>2, <1>4, <2>2
    <3>2. FrameOK(frames'[u][i], Buffer(frames[u][i], own[u], common), pw')
      BY <2>1, <3>1, MixedOK
    <3> QED
      BY <2>1, <3>1, <3>2, MarkedSame DEF Buffer, ToOwn
  <2>3. CASE ~AtName(frames[u][i])
    <3>1. frames'[u][i] = frames[u][i]
      BY <1>2, <1>4, <2>3
    <3>2. FrameOK(frames[u][i], Buffer(frames[u][i], own[u], common), pw')
      BY <2>1, <2>3, UndisturbedOK DEF AtName
    <3> QED
      BY <3>1, <3>2
  <2> QED
    BY <2>2, <2>3
<1>5. Waiting' /\ FramesOK' /\ ErrnoThere'
  BY <1>2, <1>4, StepOK
<1> QED
  BY <1>3, <1>5 DEF IInv

LEMMA StoreStep ==
    ASSUME IInv, NEW t \in Thread, frames[t] # <<>>, NEW g \in Frame,
           NEW at \in Cell, NEW piece \in Text \cup {NUL}, at = 4 => piece = NUL,
           Stores(t, at, piece, g), UNCHANGED <<pw, output, errno, made>>,
           g.form = Top(t).form, g.pc \notin {"errno", "return"},
           FrameOK(g, [Buffer(g, own[t], common) EXCEPT ![at] = piece], pw)
    PROVE  IInv'
<1>1. StateTyped
  BY DEF IInv
<1>2. ToOwn(Top(t)) <=> ToOwn(g)
  BY DEF ToOwn
<1>3. CASE ToOwn(g)
  <2>1. Goes(t, g) /\ own' = [own EXCEPT ![t][at] = piece] /\ common' = common
    BY <1>2, <1>3 DEF Stores
  <2>2. /\ frames' \in [Thread -> Seq(Frame)]
        /\ \A u \in Thread : DOMAIN frames'[u] = DOMAIN frames[u]
        /\ frames'[t][1] = g
        /\ \A u \in Thread : \A i \in DOMAIN frames[u] :
              u # t \/ i # 1 => frames'[u][i] = frames[u][i]
    BY <1>1, <2>1, GoesFrames
  <2>3. /\ own'[t] = [own[t] EXCEPT ![at] = piece]
        /\ \A u \in Thread : u # t => own'[u] = own[u]
        /\ own' \in [Thread -> [Cell -> Text \cup {NUL}]]
        /\ \A u \in Thread : own'[u][4] = NUL
    BY <1>1, <2>1 DEF StateTyped
  <2>4. StateTyped'
    BY <1>1, <2>1, <2>2, <2>3 DEF StateTyped
  <2>5. FrameOK(g, Buffer(g, own'[t], common'), pw')
    BY <1>3, <2>3 DEF Buffer
  <2>6. ASSUME NEW u \in Thread, NEW i \in DOMAIN frames[u], u # t \/ i # 1
        PROVE  /\ frames'[u][i] = frames[u][i]
               /\ FrameOK(frames'[u][i], Buffer(frames'[u][i], own'[u], common'), pw')
    <3>1. frames'[u][i] = frames[u][i]
      BY <2>2, <2>6
    <3>2. CASE u # t
      BY <2>1, <2>3, <3>1, <3>2 DEF IInv, FramesOK
    <3>3. CASE u = t
      <4>1. i > 1
        <5>1. PICK n \in Nat : DOMAIN frames[u] = 1 .. n
          BY <1>1, StackTyped
        <5> QED
          BY <2>6, <3>3, <5>1
      <4>2. ~ToOwn(frames[u][i]) /\ FrameOK(frames[u][i], common, pw)
        BY <4>1, BelowOK
      <4> QED
        BY <2>1, <3>1, <4>2 DEF Buffer
    <3> QED
      BY <3>2, <3>3
  <2>7. Waiting' /\ FramesOK' /\ ErrnoThere'
    BY <2>2, <2>5, <2>6, StepOK
  <2> QED
    BY <2>4, <2>7 DEF IInv
<1>4. CASE ~ToOwn(g)
  <2>1. /\ Becomes(t, g, Depends, Spoilt) /\ common' = [common EXCEPT ![at] = piece]
        /\ own' = own
    BY <1>2, <1>4 DEF Stores
  <2>2. /\ frames' \in [Thread -> Seq(Frame)]
        /\ \A u \in Thread : DOMAIN frames'[u] = DOMAIN frames[u]
        /\ frames'[t][1] = g
        /\ \A u \in Thread : \A i \in DOMAIN frames[u] :
              u # t \/ i # 1 => frames'[u][i] = IF Depends(frames[u][i])
                                                THEN Spoilt(frames[u][i])
                                                ELSE frames[u][i]
    BY <1>1, <2>1, SpoilsFrames
  <2>3. common' \in [Cell -> Text \cup {NUL}] /\ common'[4] = NUL
    BY <1>1, <2>1 DEF StateTyped
  <2>4. StateTyped'
    BY <1>1, <2>1, <2>2, <2>3 DEF StateTyped
  <2>5. FrameOK(g, Buffer(g, own'[t], common'), pw')
    BY <1>4, <2>1 DEF Buffer
  <2>6. ASSUME NEW u \in Thread, NEW i \in DOMAIN frames[u], u # t \/ i # 1
        PROVE  /\ frames'[u][i].pc = frames[u][i].pc
               /\ frames'[u][i].err = frames[u][i].err
               /\ FrameOK(frames'[u][i], Buffer(frames'[u][i], own'[u], common'), pw')
    <3>1. FrameOK(frames[u][i], Buffer(frames[u][i], own[u], common), pw) /\ frames[u][i] \in Frame
      BY <1>1, StackTyped DEF IInv, FramesOK
    <3>2. CASE Depends(frames[u][i])
      <4>1. frames'[u][i] = Spoilt(frames[u][i])
        BY <2>2, <2>6, <3>2
      <4>2. FrameOK(frames'[u][i], Buffer(frames'[u][i], own'[u], common'), pw)
        BY <3>1, <4>1, SpoiltOK
      <4> QED
        BY <3>1, <4>1, <4>2, MarkedSame
    <3>3. CASE ~Depends(frames[u][i])
      <4>1. frames'[u][i] = frames[u][i]
        BY <2>2, <2>6, <3>3
      <4>2. CASE ToOwn(frames[u][i])
        BY <2>1, <3>1, <4>1, <4>2 DEF Buffer
      <4>3. CASE ~ToOwn(frames[u][i])
        <5>1. frames[u][i].text # "common" \/ frames[u][i].pc \in {"errno", "init"}
          BY <3>3, <4>3 DEF Depends
        <5>2. FrameOK(frames[u][i], common', pw)
          BY <3>1, <5>1, UndisturbedOK
        <5> QED
          BY <4>1, <4>3, <5>2 DEF Buffer
      <4> QED
        BY <4>2, <4>3
    <3> QED
      BY <3>2, <3>3
  <2>7. Waiting' /\ FramesOK' /\ ErrnoThere'
    BY <2>2, <2>5, <2>6, StepOK
  <2> QED
    BY <2>4, <2>7 DEF IInv
<1> QED
  BY <1>3, <1>4

\* A thread begins a call, nested or not, or returns from one.
LEMMA StackStep ==
    ASSUME IInv, NEW t \in Thread, NEW s \in Seq(Frame),
           frames' = [frames EXCEPT ![t] = s],
           own' \in [Thread -> [Cell -> Text \cup {NUL}]], \A u \in Thread : own'[u][4] = NUL,
           \A u \in Thread : u # t => own'[u] = own[u],
           errno' \in [Thread -> Errno], \A u \in Thread : u # t => errno'[u] = errno[u],
           made' \in [Thread -> 0 .. MaxCalls], UNCHANGED <<common, pw, output>>,
           s # <<>> /\ s[1].pc \in {"errno", "return"} => errno'[t] = s[1].err,
           \A i \in DOMAIN s : /\ i > 1 => s[i].pc = "printed"
                               /\ FrameOK(s[i], Buffer(s[i], own'[t], common), pw)
    PROVE  IInv'
<1>1. StateTyped
  BY DEF IInv
<1>2. /\ frames' \in [Thread -> Seq(Frame)] /\ frames'[t] = s
      /\ \A u \in Thread : u # t => frames'[u] = frames[u]
  BY <1>1 DEF StateTyped
<1>3. StateTyped'
  BY <1>1, <1>2 DEF StateTyped
<1>4. Waiting'
  <2>1. ASSUME NEW u \in Thread, NEW i \in DOMAIN frames'[u], i > 1
        PROVE  frames'[u][i].pc = "printed"
    BY <1>2, <2>1 DEF IInv, Waiting
  <2> QED
    BY <2>1 DEF Waiting
<1>5. FramesOK'
  <2>1. ASSUME NEW u \in Thread, NEW i \in DOMAIN frames'[u]
        PROVE  FrameOK(frames'[u][i], Buffer(frames'[u][i], own'[u], common'), pw')
    BY <1>2 DEF IInv, FramesOK
  <2> QED
    BY <2>1 DEF FramesOK
<1>6. ErrnoThere'
  <2>1. ASSUME NEW u \in Thread, frames'[u] # <<>>, frames'[u][1].pc \in {"errno", "return"}
        PROVE  errno'[u] = frames'[u][1].err
    BY <1>2, <2>1 DEF IInv, ErrnoThere, In, Top
  <2> QED
    BY <2>1 DEF ErrnoThere, In, Top
<1> QED
  BY <1>3, <1>4, <1>5, <1>6 DEF IInv

LEMMA FailsStep ==
    ASSUME IInv, NEW t \in Thread, NEW c \in Call, Fails(t, c)
    PROVE  IInv'
<1>1. StateTyped
  BY DEF IInv
<1>2. Entered(c) \in Frame /\ FrameOK(Entered(c), Buffer(Entered(c), own[t], common), pw)
  BY EnteredOK
<1>3. PICK s : s = <<Entered(c)>>
  OBVIOUS
<1>4. s \in Seq(Frame) /\ DOMAIN s = {1} /\ s[1] = Entered(c)
  BY <1>2, <1>3
<1>5. s[1].err = c.err /\ errno'[t] = c.err
  BY <1>1, <1>4 DEF Entered, Fails, StateTyped
<1>6. frames' = [frames EXCEPT ![t] = s] /\ UNCHANGED <<common, own, pw, output>>
  BY <1>3 DEF Fails
<1>7. errno' \in [Thread -> Errno] /\ \A u \in Thread : u # t => errno'[u] = errno[u]
  <2>1. c.err \in Errno
    BY CallsTyped DEF Errno
  <2> QED
    BY <1>1, <2>1 DEF Fails, StateTyped
<1>8. made' \in [Thread -> 0 .. MaxCalls]
  <2>1. MaxCalls \in Nat
    BY CallAssumption
  <2>2. made[t] + 1 \in 0 .. MaxCalls
    BY <1>1, <2>1 DEF Fails, StateTyped
  <2> QED
    BY <1>1, <2>2 DEF Fails, StateTyped
<1>9. own' \in [Thread -> [Cell -> Text \cup {NUL}]] /\ \A u \in Thread : own'[u][4] = NUL
  BY <1>1, <1>6 DEF StateTyped
<1>10. \A i \in DOMAIN s : /\ i > 1 => s[i].pc = "printed"
                           /\ FrameOK(s[i], Buffer(s[i], own'[t], common), pw)
  BY <1>2, <1>4, <1>6
<1> QED
  BY <1>4, <1>5, <1>6, <1>7, <1>8, <1>9, <1>10, StackStep

LEMMA ReturnStep ==
    ASSUME IInv, NEW t \in Thread, Return(t), UNCHANGED made
    PROVE  IInv'
<1>1. StateTyped /\ frames[t] # <<>>
  BY DEF IInv, Return, In
<1>2. PICK s : s = Tail(frames[t])
  OBVIOUS
<1>3. /\ s \in Seq(Frame) /\ DOMAIN s = 1 .. Len(s) /\ Len(s) = Len(frames[t]) - 1
      /\ Len(s) \in Nat
      /\ \A i \in 1 .. Len(s) : s[i] = frames[t][i + 1]
  BY <1>1, <1>2, StackTyped, HeadTailProperties, LenProperties
<1>4. ASSUME NEW i \in DOMAIN s
      PROVE  /\ s[i].pc = "printed"
             /\ FrameOK(s[i], Buffer(s[i], own'[t], common), pw)
  <2>1. i + 1 \in 1 .. Len(frames[t]) /\ i + 1 > 1
    BY <1>1, <1>3, StackTyped
  <2>2. PICK k \in DOMAIN frames[t] : k = i + 1
    BY <1>1, <2>1, StackTyped
  <2>3. s[i] = frames[t][k] /\ k > 1
    BY <1>3, <2>1, <2>2
  <2>4. /\ frames[t][k].pc = "printed" /\ ~ToOwn(frames[t][k])
        /\ FrameOK(frames[t][k], common, pw)
    BY <2>3, BelowOK
  <2> QED
    BY <2>3, <2>4 DEF Buffer
<1>5. s # <<>> => s[1].pc \notin {"errno", "return"}
  <2>1. s # <<>> => 1 \in DOMAIN s
    BY <1>3, EmptySeq
  <2> QED
    BY <1>4, <2>1
<1>6. frames' = [frames EXCEPT ![t] = s] /\ UNCHANGED <<common, pw, output>>
  BY <1>2 DEF Return
<1>7. errno' \in [Thread -> Errno] /\ \A u \in Thread : u # t => errno'[u] = errno[u]
  <2>1. "client" \in Errno
    BY DEF Errno
  <2> QED
    BY <1>1, <2>1 DEF Return, StateTyped
<1>8. /\ own' \in [Thread -> [Cell -> Text \cup {NUL}]]
      /\ \A u \in Thread : own'[u][4] = NUL
      /\ \A u \in Thread : u # t => own'[u] = own[u]
  <2>1. own' = [own EXCEPT ![t] = [i \in Cell |-> NUL]]
    BY DEF Return
  <2>2. [i \in Cell |-> NUL] \in [Cell -> Text \cup {NUL}] /\ [i \in Cell |-> NUL][4] = NUL
    OBVIOUS
  <2> QED
    BY <1>1, <2>1, <2>2 DEF StateTyped
<1>9. made' \in [Thread -> 0 .. MaxCalls]
  BY <1>1 DEF StateTyped
<1> QED
  BY <1>3, <1>4, <1>5, <1>6, <1>7, <1>8, <1>9, StackStep

LEMMA ToldClientStep ==
    ASSUME IInv, NEW t \in Thread, ToldClient(t), UNCHANGED made
    PROVE  IInv'
<1>1. /\ StateTyped /\ frames[t] # <<>>
      /\ Top(t) \in Frame /\ Top(t).pc = "told" /\ Top(t).form = "on_error"
      /\ FrameOK(Top(t), Buffer(Top(t), own[t], common), pw)
  BY TopOK DEF IInv, ToldClient, In
<1>2. PICK f \in Frame : f = Top(t)
  BY <1>1
<1>3. PICK g : g = [f EXCEPT !.pc = "printed"]
  OBVIOUS
<1>4. g \in Frame /\ FrameOK(g, Buffer(f, own[t], common), pw)
  BY <1>1, <1>2, <1>3, ToldOK
<1>5. g.form = "on_error" /\ g.pc = "printed"
  BY <1>1, <1>2, <1>3 DEF Frame
<1>6. FrameOK(g, Buffer(g, own[t], common), pw)
  BY <1>1, <1>2, <1>4, <1>5 DEF Buffer, ToOwn
<1>7. PICK e : e = Entered(Nested)
  OBVIOUS
<1>8. e \in Frame /\ e.err = "EPIPE" /\ FrameOK(e, Buffer(e, own[t], common), pw)
  <2>1. e.err = "EPIPE"
    BY <1>7 DEF Entered, Nested
  <2> QED
    BY <1>7, <2>1, EnteredOK
<1>9. PICK s : s = <<e, g>> \o Tail(frames[t])
  OBVIOUS
<1>10. /\ <<e, g>> \in Seq(Frame) /\ Len(<<e, g>>) = 2
       /\ <<e, g>>[1] = e /\ <<e, g>>[2] = g
  BY <1>4, <1>8
<1>11. /\ Tail(frames[t]) \in Seq(Frame) /\ Len(Tail(frames[t])) = Len(frames[t]) - 1
       /\ Len(Tail(frames[t])) \in Nat
       /\ \A i \in 1 .. Len(Tail(frames[t])) : Tail(frames[t])[i] = frames[t][i + 1]
  BY <1>1, StackTyped, HeadTailProperties, LenProperties
<1>12. PICK n \in Nat : n = Len(Tail(frames[t])) /\ Len(frames[t]) = n + 1
  BY <1>1, <1>11, StackTyped
<1>13. /\ s \in Seq(Frame) /\ DOMAIN s = 1 .. 2 + n
       /\ \A i \in 1 .. 2 + n :
             s[i] = IF i <= 2 THEN <<e, g>>[i] ELSE Tail(frames[t])[i - 2]
  BY <1>9, <1>10, <1>11, <1>12, ConcatProperties, LenProperties
<1>14. ASSUME NEW i \in DOMAIN s
       PROVE  /\ i > 1 => s[i].pc = "printed"
              /\ FrameOK(s[i], Buffer(s[i], own[t], common), pw)
  <2>0. i \in 1 .. 2 + n
    BY <1>13
  <2>1. CASE i = 1
    <3>1. s[i] = e
      BY <1>10, <1>13, <2>0, <2>1
    <3> QED
      BY <1>8, <2>1, <3>1
  <2>2. CASE i = 2
    <3>1. s[i] = g
      BY <1>10, <1>13, <2>0, <2>2
    <3> QED
      BY <1>5, <1>6, <3>1
  <2>3. CASE i # 1 /\ i # 2
    <3>1. i - 2 \in 1 .. n /\ (i - 2) + 1 = i - 1 /\ i - 1 \in 1 .. n + 1 /\ i - 1 > 1
          /\ ~(i <= 2)
      BY <2>0, <2>3
    <3>2. PICK k \in DOMAIN frames[t] : k = i - 1
      BY <1>1, <1>12, <3>1, StackTyped
    <3>3. s[i] = frames[t][k] /\ k > 1
      BY <1>11, <1>12, <1>13, <2>0, <3>1, <3>2
    <3>4. /\ frames[t][k].pc = "printed" /\ ~ToOwn(frames[t][k])
          /\ FrameOK(frames[t][k], common, pw)
      BY <3>3, BelowOK
    <3> QED
      BY <3>3, <3>4 DEF Buffer
  <2> QED
    BY <2>1, <2>2, <2>3
<1>15. frames' = [frames EXCEPT ![t] = s] /\ UNCHANGED <<common, own, pw, output>>
  BY <1>2, <1>3, <1>7, <1>9 DEF ToldClient, Top
<1>16. errno' \in [Thread -> Errno] /\ \A u \in Thread : u # t => errno'[u] = errno[u]
  <2>1. "EPIPE" \in Errno
    BY DEF Errno, Error
  <2> QED
    BY <1>1, <2>1 DEF ToldClient, StateTyped
<1>17. errno'[t] = s[1].err
  <2>1. 1 \in 1 .. 2 + n
    OBVIOUS
  <2> QED
    BY <1>1, <1>8, <1>10, <1>13, <2>1 DEF ToldClient, StateTyped
<1>18. /\ own' \in [Thread -> [Cell -> Text \cup {NUL}]] /\ own' = own
       /\ \A u \in Thread : own'[u][4] = NUL
       /\ made' \in [Thread -> 0 .. MaxCalls]
  BY <1>1, <1>15 DEF StateTyped
<1> QED
  BY <1>13, <1>14, <1>15, <1>16, <1>17, <1>18, StackStep

LEMMA TakeErrnoStep ==
    ASSUME IInv, NEW t \in Thread, TakeErrno(t), UNCHANGED made
    PROVE  IInv'
<1>1. /\ frames[t] # <<>> /\ Top(t).pc = "errno"
      /\ UNCHANGED <<common, own, pw, output, errno>>
  BY DEF TakeErrno, In
<1>2. PICK f \in Frame : f = Top(t) /\ FrameOK(f, Buffer(f, own[t], common), pw)
  BY <1>1, TopOK
<1>3. f.err = errno[t] /\ errno[t] \in Errno
  BY <1>1, <1>2 DEF IInv, ErrnoThere, In, StateTyped
<1>4. PICK g : g = [f EXCEPT !.pc = "init", !.errnum = errno[t]]
  OBVIOUS
<1>5. g.form = f.form /\ g.pc = "init"
  BY <1>4 DEF Frame
<1>6. g \in Frame /\ FrameOK(g, Buffer(f, own[t], common), pw)
  BY <1>1, <1>2, <1>3, <1>4, TakenOK
<1>7. Goes(t, g) /\ FrameOK(g, Buffer(g, own[t], common), pw)
  BY <1>2, <1>4, <1>5, <1>6 DEF TakeErrno, Buffer, ToOwn
<1>8. errno' \in [Thread -> Errno] /\ \A u \in Thread : u # t => errno'[u] = errno[u]
  BY <1>1 DEF IInv, StateTyped
<1> QED
  BY <1>1, <1>5, <1>6, <1>7, <1>8, GoStep

LEMMA StartBufferStep ==
    ASSUME IInv, NEW t \in Thread, StartBuffer(t), UNCHANGED made
    PROVE  IInv'
<1>1. frames[t] # <<>> /\ Top(t).pc = "init"
  BY DEF StartBuffer, In
<1>2. PICK f \in Frame : f = Top(t) /\ FrameOK(f, Buffer(f, own[t], common), pw)
  BY <1>1, TopOK
<1>3. PICK g : g = [f EXCEPT !.pc = "lookup"]
  OBVIOUS
<1>4. g.form = f.form /\ g.pc = "lookup"
  BY <1>3 DEF Frame
<1>5. g \in Frame /\ FrameOK(g, [Buffer(g, own[t], common) EXCEPT ![1] = NUL], pw)
  BY <1>1, <1>2, <1>3, StartedOK
<1>6. Stores(t, 1, NUL, g) /\ UNCHANGED <<pw, output, errno>>
  BY <1>2, <1>3 DEF StartBuffer
<1>7. 1 \in Cell /\ NUL \in Text \cup {NUL}
  OBVIOUS
<1> QED
  BY <1>1, <1>2, <1>4, <1>5, <1>6, <1>7, StoreStep

LEMMA LookupOK ==
    ASSUME IInv, NEW t \in Thread, Lookup(t), UNCHANGED made
    PROVE  IInv'
<1>1. frames[t] # <<>> /\ Top(t).pc = "lookup"
  BY DEF Lookup, In
<1>2. PICK f \in Frame : f = Top(t) /\ FrameOK(f, Buffer(f, own[t], common), pw)
  BY <1>1, TopOK
<1>3. PICK g : g = [f EXCEPT !.pc = "name"]
  OBVIOUS
<1>4. g.form = f.form /\ g.pc = "name"
  BY <1>3 DEF Frame
<1>5. g \in Frame /\ FrameOK(g, Buffer(f, own[t], common), f.uid)
  BY <1>1, <1>2, <1>3, LookedUpOK
<1>6. /\ Becomes(t, g, AtName, Mixed) /\ pw' = f.uid /\ UNCHANGED <<common, own, output>>
      /\ errno' = [errno EXCEPT ![t] = "disturbed"]
  BY <1>2, <1>3 DEF Lookup
<1>7. errno' \in [Thread -> Errno] /\ \A u \in Thread : u # t => errno'[u] = errno[u]
  BY <1>6 DEF IInv, StateTyped, Errno
<1>8. f.uid \in Uid
  BY FrameTyped
<1>9. FrameOK(g, Buffer(g, own[t], common), pw') /\ pw' \in Uid
  BY <1>4, <1>5, <1>6, <1>8 DEF Buffer, ToOwn
<1> QED
  BY <1>1, <1>4, <1>5, <1>6, <1>7, <1>9, LookupStep

LEMMA CopyNameStep ==
    ASSUME IInv, NEW t \in Thread, CopyName(t), UNCHANGED made
    PROVE  IInv'
<1>1. frames[t] # <<>> /\ Top(t).pc = "name"
  BY DEF CopyName, In
<1>2. PICK f \in Frame : f = Top(t) /\ FrameOK(f, Buffer(f, own[t], common), pw)
  BY <1>1, TopOK
<1>3. PICK g : g = [f EXCEPT !.pc = "assemble", !.name = pw]
  OBVIOUS
<1>4. g.form = f.form /\ g.pc = "assemble"
  BY <1>3 DEF Frame
<1>5. pw \in Uid
  BY DEF IInv, StateTyped
<1>6. g \in Frame /\ FrameOK(g, Buffer(f, own[t], common), pw)
  BY <1>1, <1>2, <1>3, <1>5, NameCopiedOK
<1>7. Goes(t, g) /\ UNCHANGED <<common, own, pw, output, errno>>
  BY <1>2, <1>3 DEF CopyName
<1>8. errno' \in [Thread -> Errno] /\ \A u \in Thread : u # t => errno'[u] = errno[u]
  BY <1>7 DEF IInv, StateTyped
<1>9. FrameOK(g, Buffer(g, own[t], common), pw)
  BY <1>4, <1>6 DEF Buffer, ToOwn
<1> QED
  BY <1>1, <1>4, <1>6, <1>7, <1>8, <1>9, GoStep

LEMMA BufferTyped ==
    ASSUME IInv, NEW t \in Thread, NEW f
    PROVE  /\ Buffer(f, own[t], common) \in [Cell -> Text \cup {NUL}]
           /\ Buffer(f, own[t], common)[4] = NUL
  BY DEF IInv, StateTyped, Buffer

\* Assemble and Footnotes: the next piece, if there is one.
LEMMA PieceStep ==
    ASSUME IInv, NEW t \in Thread, frames[t] # <<>>, NEW f \in Frame, f = Top(t),
           f.position \in 1 .. Len(Written(f)),
           \/ f.pc = "assemble" /\ f.position \in 1 .. 2
           \/ f.pc = "footnotes" /\ f.position = 3 /\ Len(footnotes(f)) = 1,
           Stores(t, f.position, Written(f)[f.position], [f EXCEPT !.position = @ + 1]),
           UNCHANGED <<pw, output, errno, made>>
    PROVE  IInv'
<1>1. FrameOK(f, Buffer(f, own[t], common), pw)
  BY TopOK
<1>2. PICK g : g = [f EXCEPT !.position = @ + 1]
  OBVIOUS
<1>3. g.form = f.form /\ g.pc = f.pc
  BY <1>2 DEF Frame
<1>4. /\ g \in Frame
      /\ FrameOK(g, [Buffer(f, own[t], common) EXCEPT ![f.position] = Written(f)[f.position]], pw)
  BY <1>1, <1>2, BufferTyped, PieceStoredOK
<1>5. f.position \in Cell /\ f.position # 4
  OBVIOUS
<1>6. Written(f)[f.position] \in Text
  BY WrittenIs, ElementOfSeq
<1>7. Buffer(g, own[t], common) = Buffer(f, own[t], common)
  BY <1>3 DEF Buffer, ToOwn
<1>8. PICK at \in Cell, piece \in Text \cup {NUL} : at = f.position /\ piece = Written(f)[f.position]
  BY <1>5, <1>6
<1>9. /\ Stores(t, at, piece, g) /\ at # 4 /\ g.pc \notin {"errno", "return"}
      /\ FrameOK(g, [Buffer(g, own[t], common) EXCEPT ![at] = piece], pw)
  BY <1>2, <1>3, <1>4, <1>5, <1>7, <1>8
<1> QED
  BY <1>3, <1>4, <1>9, StoreStep

\* Or the NUL.
LEMMA NULStep ==
    ASSUME IInv, NEW t \in Thread, frames[t] # <<>>, NEW f \in Frame, f = Top(t), NEW pc,
           \/ f.pc = "assemble" /\ f.position = 3 /\ pc = "footnotes"
           \/ /\ f.pc = "footnotes" /\ f.position = Len(Written(f)) + 1
              /\ pc = IF f.form = "on_error" THEN "output" ELSE "print",
           Stores(t, f.position, NUL, [f EXCEPT !.pc = pc]),
           UNCHANGED <<pw, output, errno, made>>
    PROVE  IInv'
<1>1. FrameOK(f, Buffer(f, own[t], common), pw)
  BY TopOK
<1>2. PICK g : g = [f EXCEPT !.pc = pc]
  OBVIOUS
<1>3. g.form = f.form /\ g.pc = pc
  BY <1>2 DEF Frame
<1>4. g \in Frame /\ FrameOK(g, [Buffer(f, own[t], common) EXCEPT ![f.position] = NUL], pw)
  BY <1>1, <1>2, BufferTyped, NULStoredOK
<1>5. f.position \in Cell
  BY <1>1, AssembleWhere, FootnotesWhere
<1>6. Buffer(g, own[t], common) = Buffer(f, own[t], common)
  BY <1>3 DEF Buffer, ToOwn
<1>7. PICK at \in Cell : at = f.position
  BY <1>5
<1>8. /\ Stores(t, at, NUL, g) /\ g.pc \notin {"errno", "return"}
      /\ FrameOK(g, [Buffer(g, own[t], common) EXCEPT ![at] = NUL], pw)
  BY <1>2, <1>3, <1>4, <1>6, <1>7
<1> QED
  BY <1>3, <1>4, <1>8, StoreStep

LEMMA AssembleStep ==
    ASSUME IInv, NEW t \in Thread, Assemble(t), UNCHANGED made
    PROVE  IInv'
<1>1. frames[t] # <<>> /\ Top(t).pc = "assemble"
  BY DEF Assemble, In
<1>2. PICK f \in Frame : f = Top(t) /\ FrameOK(f, Buffer(f, own[t], common), pw)
  BY <1>1, TopOK
<1>3. PICK i : i = f.position - 1 + 1
  OBVIOUS
<1>4. /\ i <= Len(assembled(f)) =>
            /\ f.position \in 1 .. 2 /\ f.position \in 1 .. Len(Written(f))
            /\ assembled(f)[i] = Written(f)[f.position]
      /\ ~(i <= Len(assembled(f))) => f.position = 3
  BY <1>1, <1>2, <1>3, AssembleWhere
<1>5. /\ IF i <= Len(assembled(f))
         THEN Stores(t, f.position, assembled(f)[i], [f EXCEPT !.position = @ + 1])
         ELSE Stores(t, f.position, NUL, [f EXCEPT !.pc = "footnotes"])
      /\ UNCHANGED <<pw, output, errno>>
  BY <1>2, <1>3 DEF Assemble, Storing
<1>6. CASE i <= Len(assembled(f))
  BY <1>1, <1>2, <1>4, <1>5, <1>6, PieceStep
<1>7. CASE ~(i <= Len(assembled(f)))
  BY <1>1, <1>2, <1>4, <1>5, <1>7, NULStep
<1> QED
  BY <1>6, <1>7

LEMMA FootnotesStep ==
    ASSUME IInv, NEW t \in Thread, Footnotes(t), UNCHANGED made
    PROVE  IInv'
<1>1. frames[t] # <<>> /\ Top(t).pc = "footnotes"
  BY DEF Footnotes, In
<1>2. PICK f \in Frame : f = Top(t) /\ FrameOK(f, Buffer(f, own[t], common), pw)
  BY <1>1, TopOK
<1>3. PICK i : i = f.position - 3 + 1
  OBVIOUS
<1>4. PICK pc : pc = IF f.form = "on_error" THEN "output" ELSE "print"
  OBVIOUS
<1>5. /\ i <= Len(footnotes(f)) =>
            /\ f.position = 3 /\ f.position \in 1 .. Len(Written(f))
            /\ Len(footnotes(f)) = 1
            /\ footnotes(f)[i] = Written(f)[f.position]
      /\ ~(i <= Len(footnotes(f))) => f.position = Len(Written(f)) + 1
  BY <1>1, <1>2, <1>3, FootnotesWhere
<1>6. /\ IF i <= Len(footnotes(f))
         THEN Stores(t, f.position, footnotes(f)[i], [f EXCEPT !.position = @ + 1])
         ELSE Stores(t, f.position, NUL, [f EXCEPT !.pc = pc])
      /\ UNCHANGED <<pw, output, errno>>
  BY <1>2, <1>3, <1>4 DEF Footnotes, Storing
<1>7. CASE i <= Len(footnotes(f))
  BY <1>1, <1>2, <1>5, <1>6, <1>7, PieceStep
<1>8. CASE ~(i <= Len(footnotes(f)))
  BY <1>1, <1>2, <1>4, <1>5, <1>6, <1>8, NULStep
<1> QED
  BY <1>7, <1>8

LEMMA OutputErrorStep ==
    ASSUME IInv, NEW t \in Thread, OutputError(t), UNCHANGED made
    PROVE  IInv'
<1>1. frames[t] # <<>> /\ Top(t).pc = "output" /\ UNCHANGED <<common, own, pw, output, errno>>
  BY DEF OutputError, In
<1>2. PICK f \in Frame : f = Top(t) /\ FrameOK(f, Buffer(f, own[t], common), pw)
  BY <1>1, TopOK
<1>3. errno' \in [Thread -> Errno] /\ \A u \in Thread : u # t => errno'[u] = errno[u]
  BY <1>1 DEF IInv, StateTyped
<1>4. CASE Goes(t, [f EXCEPT !.pc = "print"])
  <2>1. PICK g : g = [f EXCEPT !.pc = "print"]
    OBVIOUS
  <2>2. g.form = f.form /\ g.pc = "print"
    BY <2>1 DEF Frame
  <2>3. g \in Frame /\ FrameOK(g, Buffer(f, own[t], common), pw)
    BY <1>1, <1>2, <2>1, GivenOK
  <2>4. Goes(t, g) /\ FrameOK(g, Buffer(g, own[t], common), pw)
    BY <1>4, <2>1, <2>2, <2>3 DEF Buffer, ToOwn
  <2> QED
    BY <1>1, <1>3, <2>2, <2>3, <2>4, GoStep
<1>5. ASSUME NEW prefix \in Prefixes,
             Goes(t, [f EXCEPT !.pc = "copy", !.position = 1, !.buf = prefix])
      PROVE  IInv'
  <2>1. PICK g : g = [f EXCEPT !.pc = "copy", !.position = 1, !.buf = prefix]
    OBVIOUS
  <2>2. g.form = f.form /\ g.pc = "copy"
    BY <2>1 DEF Frame
  <2>3. g \in Frame /\ FrameOK(g, Buffer(f, own[t], common), pw)
    BY <1>1, <1>2, <2>1, CopyBegunOK
  <2>4. Goes(t, g) /\ FrameOK(g, Buffer(g, own[t], common), pw)
    BY <1>5, <2>1, <2>2, <2>3 DEF Buffer, ToOwn
  <2> QED
    BY <1>1, <1>3, <2>2, <2>3, <2>4, GoStep
<1>6. \/ Goes(t, [f EXCEPT !.pc = "print"])
      \/ \E prefix \in {<<<<"program">>>>, <<>>} :
            Goes(t, [f EXCEPT !.pc = "copy", !.position = 1, !.buf = prefix])
  BY <1>2 DEF OutputError
<1> QED
  BY <1>4, <1>5, <1>6 DEF Prefixes

LEMMA CopyStep ==
    ASSUME IInv, NEW t \in Thread, Copy(t), UNCHANGED made
    PROVE  IInv'
<1>1. frames[t] # <<>> /\ Top(t).pc = "copy" /\ UNCHANGED <<common, own, pw, output, errno>>
  BY DEF Copy, In
<1>2. PICK f \in Frame : f = Top(t) /\ FrameOK(f, Buffer(f, own[t], common), pw)
  BY <1>1, TopOK
<1>3. errno' \in [Thread -> Errno] /\ \A u \in Thread : u # t => errno'[u] = errno[u]
  BY <1>1 DEF IInv, StateTyped
<1>4. Buffer(f, own[t], common) = common
  BY <1>1, <1>2 DEF FrameOK, Placed, Buffer, ToOwn
<1>5. common \in [Cell -> Text \cup {NUL}] /\ common[4] = NUL
  BY DEF IInv, StateTyped
<1>6. IF common[f.position] = NUL
      THEN Goes(t, [f EXCEPT !.pc = "print", !.text = "local"])
      ELSE Goes(t, [f EXCEPT !.buf = Append(@, common[f.position]), !.position = @ + 1])
  BY <1>2 DEF Copy, printed
<1>7. CASE common[f.position] = NUL
  <2>1. PICK g : g = [f EXCEPT !.pc = "print", !.text = "local"]
    OBVIOUS
  <2>2. g.form = f.form /\ g.pc = "print"
    BY <2>1 DEF Frame
  <2>3. g \in Frame /\ FrameOK(g, common, pw)
    BY <1>1, <1>2, <1>4, <1>7, <2>1, CopyEndedOK
  <2>4. Goes(t, g) /\ FrameOK(g, Buffer(g, own[t], common), pw)
    BY <1>4, <1>6, <1>7, <2>1, <2>2, <2>3 DEF Buffer, ToOwn
  <2> QED
    BY <1>1, <1>3, <2>2, <2>3, <2>4, GoStep
<1>8. CASE common[f.position] # NUL
  <2>1. PICK g : g = [f EXCEPT !.buf = Append(@, common[f.position]), !.position = @ + 1]
    OBVIOUS
  <2>2. g.form = f.form /\ g.pc = "copy"
    BY <1>1, <1>2, <2>1 DEF Frame
  <2>3. g \in Frame /\ FrameOK(g, common, pw)
    BY <1>1, <1>2, <1>4, <1>5, <1>8, <2>1, PieceCopiedOK
  <2>4. Goes(t, g) /\ FrameOK(g, Buffer(g, own[t], common), pw)
    BY <1>4, <1>6, <1>8, <2>1, <2>2, <2>3 DEF Buffer, ToOwn
  <2> QED
    BY <1>1, <1>3, <2>2, <2>3, <2>4, GoStep
<1> QED
  BY <1>7, <1>8

LEMMA PrintPartStep ==
    ASSUME IInv, NEW t \in Thread, PrintPart(t), UNCHANGED made
    PROVE  IInv'
<1>1. frames[t] # <<>> /\ Top(t).pc = "print" /\ UNCHANGED <<common, own, pw, output, errno>>
  BY DEF PrintPart, In
<1>2. PICK f \in Frame : f = Top(t) /\ FrameOK(f, Buffer(f, own[t], common), pw)
  BY <1>1, TopOK
<1>3. errno' \in [Thread -> Errno] /\ \A u \in Thread : u # t => errno'[u] = errno[u]
  BY <1>1 DEF IInv, StateTyped
<1>4. PICK e \in Errno : e = errno[t]
  BY DEF IInv, StateTyped
<1>5. IF f.text = "local"
      THEN Goes(t, [f EXCEPT !.hold_errno = e, !.position = 1, !.pc = "told", !.got = f.buf])
      ELSE Goes(t, [f EXCEPT !.hold_errno = e, !.position = 1, !.pc = "read", !.got = <<>>])
  <2> DEFINE g == [f EXCEPT !.hold_errno = e, !.position = 1]
  <2>1. /\ [g EXCEPT !.pc = "told", !.got = f.buf]
              = [f EXCEPT !.hold_errno = e, !.position = 1, !.pc = "told", !.got = f.buf]
        /\ [g EXCEPT !.pc = "read", !.got = <<>>]
              = [f EXCEPT !.hold_errno = e, !.position = 1, !.pc = "read", !.got = <<>>]
    OBVIOUS
  <2> QED
    BY <1>2, <1>4, <2>1 DEF PrintPart
<1>6. CASE f.text = "local"
  <2>1. PICK g : g = [f EXCEPT !.hold_errno = e, !.position = 1, !.pc = "told", !.got = f.buf]
    OBVIOUS
  <2>2. g.form = f.form /\ g.pc = "told"
    BY <2>1 DEF Frame
  <2>3. g \in Frame /\ FrameOK(g, Buffer(f, own[t], common), pw)
    BY <1>1, <1>2, <1>6, <2>1, CopyGivenOK
  <2>4. Goes(t, g) /\ FrameOK(g, Buffer(g, own[t], common), pw)
    BY <1>5, <1>6, <2>1, <2>2, <2>3 DEF Buffer, ToOwn
  <2> QED
    BY <1>1, <1>3, <2>2, <2>3, <2>4, GoStep
<1>7. CASE f.text # "local"
  <2>1. PICK g : g = [f EXCEPT !.hold_errno = e, !.position = 1, !.pc = "read", !.got = <<>>]
    OBVIOUS
  <2>2. g.form = f.form /\ g.pc = "read"
    BY <2>1 DEF Frame
  <2>3. g \in Frame /\ FrameOK(g, Buffer(f, own[t], common), pw)
    BY <1>1, <1>2, <1>7, <2>1, ReadBegunOK
  <2>4. Goes(t, g) /\ FrameOK(g, Buffer(g, own[t], common), pw)
    BY <1>5, <1>7, <2>1, <2>2, <2>3 DEF Buffer, ToOwn
  <2> QED
    BY <1>1, <1>3, <2>2, <2>3, <2>4, GoStep
<1> QED
  BY <1>6, <1>7

LEMMA ReadStep ==
    ASSUME IInv, NEW t \in Thread, Read(t), UNCHANGED made
    PROVE  IInv'
<1>1. frames[t] # <<>> /\ Top(t).pc = "read" /\ UNCHANGED <<common, own, pw, output, errno>>
  BY DEF Read, In
<1>2. PICK f \in Frame : f = Top(t) /\ FrameOK(f, Buffer(f, own[t], common), pw)
  BY <1>1, TopOK
<1>3. errno' \in [Thread -> Errno] /\ \A u \in Thread : u # t => errno'[u] = errno[u]
  BY <1>1 DEF IInv, StateTyped
<1>4. PICK b : b = Buffer(f, own[t], common)
  OBVIOUS
<1>5. b \in [Cell -> Text \cup {NUL}] /\ b[4] = NUL
  BY <1>4, BufferTyped
<1>6. IF b[f.position] = NUL
      THEN Goes(t, [f EXCEPT !.pc = "told"])
      ELSE Goes(t, [f EXCEPT !.got = Append(@, b[f.position]), !.position = @ + 1])
  <2>1. b[f.position] = IF ToOwn(f) THEN own[t][f.position] ELSE common[f.position]
    BY <1>4 DEF Buffer
  <2> QED
    BY <1>2, <2>1 DEF Read
<1>7. CASE b[f.position] = NUL
  <2>1. PICK g : g = [f EXCEPT !.pc = "told"]
    OBVIOUS
  <2>2. g.form = f.form /\ g.pc = "told"
    BY <2>1 DEF Frame
  <2>3. g \in Frame /\ FrameOK(g, b, pw)
    BY <1>1, <1>2, <1>4, <1>7, <2>1, ReadEndedOK
  <2>4. Goes(t, g) /\ FrameOK(g, Buffer(g, own[t], common), pw)
    BY <1>4, <1>6, <1>7, <2>1, <2>2, <2>3 DEF Buffer, ToOwn
  <2> QED
    BY <1>1, <1>3, <2>2, <2>3, <2>4, GoStep
<1>8. CASE b[f.position] # NUL
  <2>1. PICK g : g = [f EXCEPT !.got = Append(@, b[f.position]), !.position = @ + 1]
    OBVIOUS
  <2>2. g.form = f.form /\ g.pc = "read"
    BY <1>1, <1>2, <2>1 DEF Frame
  <2>3. g \in Frame /\ FrameOK(g, b, pw)
    BY <1>1, <1>2, <1>4, <1>5, <1>8, <2>1, PieceReadOK
  <2>4. Goes(t, g) /\ FrameOK(g, Buffer(g, own[t], common), pw)
    BY <1>4, <1>6, <1>8, <2>1, <2>2, <2>3 DEF Buffer, ToOwn
  <2> QED
    BY <1>1, <1>3, <2>2, <2>3, <2>4, GoStep
<1> QED
  BY <1>7, <1>8

LEMMA ToldStep ==
    ASSUME IInv, NEW t \in Thread, Told(t), UNCHANGED made
    PROVE  IInv'
<1>1. /\ frames[t] # <<>> /\ Top(t).pc = "told" /\ Top(t).form = "on_error"
      /\ UNCHANGED <<common, own, pw, output>>
  BY DEF Told, In
<1>2. PICK f \in Frame : f = Top(t) /\ FrameOK(f, Buffer(f, own[t], common), pw)
  BY <1>1, TopOK
<1>3. errno' \in [Thread -> Errno] /\ \A u \in Thread : u # t => errno'[u] = errno[u]
  BY DEF Told, IInv, StateTyped, Errno
<1>4. PICK g : g = [f EXCEPT !.pc = "printed"]
  OBVIOUS
<1>5. g.form = f.form /\ g.pc = "printed"
  BY <1>4 DEF Frame
<1>6. g \in Frame /\ FrameOK(g, Buffer(f, own[t], common), pw)
  BY <1>1, <1>2, <1>4, ToldOK
<1>7. Goes(t, g) /\ FrameOK(g, Buffer(g, own[t], common), pw)
  BY <1>2, <1>4, <1>5, <1>6 DEF Told, Buffer, ToOwn
<1> QED
  BY <1>1, <1>3, <1>5, <1>6, <1>7, GoStep

LEMMA PrintedStep ==
    ASSUME IInv, NEW t \in Thread, Printed(t), UNCHANGED made
    PROVE  IInv'
<1>1. /\ frames[t] # <<>> /\ Top(t).pc = "printed"
      /\ UNCHANGED <<common, own, pw, output>>
  BY DEF Printed, In
<1>2. PICK f \in Frame : f = Top(t) /\ FrameOK(f, Buffer(f, own[t], common), pw)
  BY <1>1, TopOK
<1>3. errno' \in [Thread -> Errno] /\ \A u \in Thread : u # t => errno'[u] = errno[u]
  <2>1. f.hold_errno \in Errno
    BY FrameTyped
  <2> QED
    BY <1>2, <2>1 DEF Printed, IInv, StateTyped
<1>4. PICK pc \in {"print", "restore"} :
         pc = IF f.leaf < Len(output) THEN "print" ELSE "restore"
  OBVIOUS
<1>5. PICK g : g = [f EXCEPT !.said = Append(@, f.got), !.got = <<>>, !.leaf = @ + 1,
                             !.pc = pc]
  OBVIOUS
<1>6. g.form = f.form /\ g.pc = pc
  BY <1>5 DEF Frame
<1>7. g \in Frame /\ FrameOK(g, Buffer(f, own[t], common), pw)
  BY <1>1, <1>2, <1>5, PrintedOK
<1>8. Goes(t, g)
  BY <1>2, <1>4, <1>5 DEF Printed
<1>9. FrameOK(g, Buffer(g, own[t], common), pw)
  BY <1>6, <1>7 DEF Buffer, ToOwn
<1> QED
  BY <1>1, <1>3, <1>6, <1>7, <1>8, <1>9, GoStep

LEMMA RestoreStep ==
    ASSUME IInv, NEW t \in Thread, Restore(t), UNCHANGED made
    PROVE  IInv'
<1>1. /\ frames[t] # <<>> /\ Top(t).pc = "restore"
      /\ UNCHANGED <<common, own, pw, output>>
  BY DEF Restore, In
<1>2. PICK f \in Frame : f = Top(t) /\ FrameOK(f, Buffer(f, own[t], common), pw)
  BY <1>1, TopOK
<1>3. /\ errno' \in [Thread -> Errno] /\ \A u \in Thread : u # t => errno'[u] = errno[u]
      /\ errno'[t] = f.err
  <2>1. f.errnum \in Errno /\ f.errnum = f.err
    BY <1>1, <1>2, FrameTyped DEF FrameOK, Placed
  <2> QED
    BY <1>2, <2>1 DEF Restore, held, IInv, StateTyped
<1>4. PICK g : g = [f EXCEPT !.pc = "return"]
  OBVIOUS
<1>5. g.form = f.form /\ g.err = f.err /\ g.errnum = f.errnum
  BY <1>4 DEF Frame
<1>6. g \in Frame /\ FrameOK(g, Buffer(f, own[t], common), pw)
  BY <1>1, <1>2, <1>4, RestoredOK
<1>7. Goes(t, g) /\ FrameOK(g, Buffer(g, own[t], common), pw)
  BY <1>2, <1>4, <1>5, <1>6 DEF Restore, Buffer, ToOwn
<1> QED
  BY <1>1, <1>3, <1>5, <1>6, <1>7, GoStep

-----------------------------------------------------------------------------
LEMMA InitOK == Init => IInv
<1> SUFFICES ASSUME Init
             PROVE  IInv
  OBVIOUS
<1>1. <<"note", "EPIPE">> \in Text
  BY DEF Text, Error, Errno
<1>2. common \in [Cell -> Text \cup {NUL}] /\ common[4] = NUL
  <2>1. PICK n \in Cell : common = [i \in Cell |-> IF i < n THEN <<"note", "EPIPE">> ELSE NUL]
    BY DEF Init
  <2>2. ~(4 < n)
    OBVIOUS
  <2> QED
    BY <1>1, <2>1, <2>2
<1>3. output \in Seq({"plain", "client"}) /\ MaxCalls \in Nat
  BY CallAssumption DEF Init
<1>4. \A t \in Thread : frames[t] = <<>> /\ DOMAIN frames[t] = {}
  <2>1. DOMAIN <<>> = {}
    OBVIOUS
  <2>2. \A t \in Thread : frames[t] = <<>>
    BY DEF Init
  <2> QED
    BY <2>1, <2>2
<1>5. frames \in [Thread -> Seq(Frame)]
  BY DEF Init
<1>6. made \in [Thread -> 0 .. MaxCalls]
  BY <1>3 DEF Init
<1>7. StateTyped
  BY <1>2, <1>3, <1>5, <1>6 DEF Init, StateTyped, Errno
<1>8. Waiting /\ FramesOK /\ ErrnoThere
  BY <1>4 DEF Waiting, FramesOK, ErrnoThere, In
<1> QED
  BY <1>7, <1>8 DEF IInv

LEMMA NextOK == IInv /\ [Next]_vars => IInv'
<1> SUFFICES ASSUME IInv, [Next]_vars
             PROVE  IInv'
  OBVIOUS
<1>1. ASSUME NEW t \in Thread, Work(t), UNCHANGED made
      PROVE  IInv'
  BY <1>1, TakeErrnoStep, StartBufferStep, LookupOK, CopyNameStep, AssembleStep, FootnotesStep,
     OutputErrorStep, CopyStep, PrintPartStep, ReadStep, ToldStep, ToldClientStep,
     PrintedStep, RestoreStep, ReturnStep DEF Work
<1>2. ASSUME NEW t \in Thread, NEW c \in Call, Fails(t, c)
      PROVE  IInv'
  BY <1>2, FailsStep
<1>3. CASE UNCHANGED vars
  BY <1>3 DEF vars, IInv, StateTyped, Waiting, FramesOK, ErrnoThere, In, Top
<1> QED
  BY <1>1, <1>2, <1>3 DEF Next

LEMMA InvariantHolds == Spec => []IInv
  BY InitOK, NextOK, PTL DEF Spec

-----------------------------------------------------------------------------
(***************************************************************************)
(* What the reader gets.                                                   *)
(***************************************************************************)
LEMMA InFrames ==
    ASSUME IInv, NEW f \in Frames
    PROVE  f \in Frame /\ \E b : FrameOK(f, b, pw)
<1>0. PICK t \in Thread : \E i \in DOMAIN frames[t] : f = frames[t][i]
  BY DEF Frames
<1>1. PICK i \in DOMAIN frames[t] : f = frames[t][i]
  BY <1>0
<1>2. FrameOK(f, Buffer(f, own[t], common), pw)
  BY <1>1 DEF IInv, FramesOK
<1> QED
  BY <1>1, <1>2, StackTyped DEF IInv

\* With the name of the owner, what is written is the message.
LEMMA WrittenIsMessage ==
    ASSUME NEW f, f.name = f.uid, f.errnum = f.err
    PROVE  Written(f) = Message(f)
  BY DEF Written, assembled, problem, footnotes, Message

LEMMA RightInFrame ==
    ASSUME NEW f \in Frame, NEW b, NEW p, FrameOK(f, b, p),
           f.pc = "told", ~f.spoilt, ~f.mixed
    PROVE  f.got \in {Message(f), <<<<"program">>>> \o Message(f)}
<1>1. Written(f) = Message(f) /\ Written(f) \in Seq(Text)
  BY WrittenIsMessage, WrittenIs DEF FrameOK, Named, Placed
<1>2. CASE f.text = "common"
  BY <1>1, <1>2 DEF FrameOK, HasRead, Reading
<1>3. CASE f.text = "local"
  <2>1. f.got \in {pre \o Written(f) : pre \in Prefixes}
    BY <1>3 DEF FrameOK, Copied, HasCopy
  <2>2. <<>> \o Written(f) = Written(f)
    BY <1>1, ConcatEmptySeq
  <2> QED
    BY <1>1, <2>1, <2>2 DEF Prefixes
<1> QED
  BY <1>2, <1>3, FrameTyped

LEMMA AgreesInFrame ==
    ASSUME NEW f \in Frame, NEW b, NEW p, FrameOK(f, b, p), f.buf # <<>> \/ ~f.spoilt
    PROVE  \A i, j \in DOMAIN f.said : f.said[i] = f.said[j]
<1>1. CASE f.text = "local"
  BY <1>1 DEF FrameOK, HasCopy
<1>2. CASE f.text = "common" /\ ~f.spoilt
  BY <1>2 DEF FrameOK, HasRead, Reading
<1>3. CASE f.text = "common" /\ f.buf # <<>>
  <2>1. f.said = <<>>
    BY <1>3 DEF FrameOK, Placed
  <2>2. DOMAIN f.said = {}
    BY <2>1
  <2> QED
    BY <2>2
<1> QED
  BY <1>1, <1>2, <1>3, FrameTyped

(***************************************************************************)
(* Types, and no reader runs past the end of a buffer that others write    *)
(* to meanwhile.                                                           *)
(***************************************************************************)
THEOREM TypeCorrect == Spec => []TypeOK
<1>1. IInv => TypeOK
  <2> SUFFICES ASSUME IInv
               PROVE  TypeOK
    OBVIOUS
  <2>1. ASSUME NEW t \in Thread, In(t, "copy") \/ In(t, "read")
        PROVE  Top(t).position \in Cell
    BY <2>1, TopOK DEF In, FrameOK, Placed
  <2> QED
    BY <2>1 DEF IInv, StateTyped, TypeOK
<1> QED
  BY <1>1, InvariantHolds, PTL

(***************************************************************************)
(* What is read is the message of the call, unless another writes to the   *)
(* common buffer, or asks getpwuid, before the last of it is read: of any  *)
(* number of threads, calls and parts of the output.                       *)
(***************************************************************************)
THEOREM MessageIsRight == Spec => []MessageRight
<1>1. IInv => MessageRight
  BY InFrames, RightInFrame DEF MessageRight
<1> QED
  BY <1>1, InvariantHolds, PTL

(***************************************************************************)
(* The parts of an output are given the same text.                         *)
(***************************************************************************)
THEOREM PartsDoAgree == Spec => []PartsAgree
<1>1. IInv => PartsAgree
  BY InFrames, AgreesInFrame DEF PartsAgree
<1> QED
  BY <1>1, InvariantHolds, PTL

(***************************************************************************)
(* When explain_fchown_on_error returns, errno is that of fchown: it is    *)
(* taken while it is still that, and put back whatever has changed it.     *)
(***************************************************************************)
THEOREM ErrnoIsKept == Spec => []ErrnoKept
<1>1. IInv => ErrnoKept
  BY DEF IInv, ErrnoThere, ErrnoKept
<1> QED
  BY <1>1, InvariantHolds, PTL
=============================================================================
