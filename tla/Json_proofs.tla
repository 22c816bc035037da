------------------------------ MODULE Json_proofs ------------------------------
(***************************************************************************)
(* Theorems about JsonTransfer, for every set of events, files, sizes and  *)
(* limits, given what the assumptions say of parseEvent and                *)
(* serializeEvent.                                                         *)
(***************************************************************************)
EXTENDS JsonTransfer, Induction, SequenceTheorems

-----------------------------------------------------------------------------
(* The bytes of lines *)

IsLine(l) == l.size \in Nat /\ l.ending \in Ending

\* A sequence of which only the elements matter.
Lines(s) == s \in Seq({s[i] : i \in 1 .. Len(s)}) /\ \A i \in 1 .. Len(s) : IsLine(s[i])

LEMMA LineBytesNat ==
  ASSUME NEW l, IsLine(l)
  PROVE  LineBytes(l) \in Nat
  BY DEF IsLine, LineBytes, EndingBytes, Ending

\* The sums that BytesOf is defined with.
LEMMA Sums ==
  ASSUME NEW T, NEW s \in Seq(T), \A i \in 1 .. Len(s) : IsLine(s[i])
  PROVE  \E f \in [0 .. Len(s) -> Nat] :
           /\ f[0] = 0 /\ \A n \in 1 .. Len(s) : f[n] = f[n - 1] + LineBytes(s[n])
           /\ BytesOf(s) = f[Len(s)]
<1>. DEFINE step == [p \in (1 .. Len(s)) \X Nat |-> p[2] + LineBytes(s[p[1]])]
            Def(f) == f = [n \in 0 .. Len(s) |->
                             IF n = 0 THEN 0 ELSE f[n - 1] + LineBytes(s[n])]
<1>1. Len(s) \in Nat /\ \A n \in 1 .. Len(s) : LineBytes(s[n]) \in Nat
  BY LineBytesNat
<1>2. step \in [(1 .. Len(s)) \X Nat -> Nat]
  BY <1>1
<1>3. PICK g : RunOf(g, 0, step, Len(s), Nat)
  <2>1. 0 \in Nat /\ StepOn(step, Len(s), Nat)
    BY <1>2 DEF StepOn
  <2>. HIDE DEF step
  <2>. QED  BY <1>1, <2>1, Recursion
<1>4. ASSUME NEW n \in 1 .. Len(s)  PROVE g[n] = g[n - 1] + LineBytes(s[n])
  <2>1. n - 1 \in 0 .. Len(s) /\ g[n - 1] \in Nat
    BY <1>1, <1>3 DEF RunOf
  <2>2. step[<<n, g[n - 1]>>] = g[n - 1] + LineBytes(s[n])
    BY <2>1
  <2>. QED  BY <1>3, <2>2 DEF RunOf
<1>5. Def(g)
  BY <1>1, <1>3, <1>4 DEF RunOf
<1>. DEFINE f == CHOOSE h : Def(h)
<1>6. Def(f)
  <2>. HIDE DEF Def
  <2>. QED  BY <1>5
<1>7. /\ f[0] = 0 /\ \A n \in 1 .. Len(s) : f[n] = f[n - 1] + LineBytes(s[n])
      /\ DOMAIN f = 0 .. Len(s) /\ f = [n \in DOMAIN f |-> f[n]]
  <2>. HIDE DEF f
  <2>. QED  BY <1>1, <1>6
<1>. DEFINE S == {k \in Nat : f[k] \in Nat}
<1>8. \A n \in 0 .. Len(s) : n \in S
  <2>. HIDE DEF f
  <2>1. 0 \in S
    BY <1>7
  <2>2. ASSUME NEW n \in 1 .. Len(s), n - 1 \in S  PROVE n \in S
    BY <1>1, <1>7, <2>2
  <2>. HIDE DEF S
  <2>. QED  BY <1>1, <2>1, <2>2, RangeInduction
<1>9. f \in [0 .. Len(s) -> Nat]
  <2>. HIDE DEF f
  <2>. QED  BY <1>7, <1>8
<1>10. BytesOf(s) = f[Len(s)]
  BY Zenon DEF BytesOf
<1>. HIDE DEF f
<1>. QED  BY <1>7, <1>9, <1>10

\* The sums of a sequence and of one that begins with it are the same.
LEMMA BytesOfPrefix ==
  ASSUME NEW T, NEW s \in Seq(T), \A i \in 1 .. Len(s) : IsLine(s[i]),
         NEW U, NEW t \in Seq(U), Len(t) <= Len(s), \A i \in 1 .. Len(t) : t[i] = s[i],
         NEW f, f[0] = 0, \A n \in 1 .. Len(s) : f[n] = f[n - 1] + LineBytes(s[n])
  PROVE  BytesOf(t) = f[Len(t)]
<1>1. Len(s) \in Nat /\ Len(t) \in Nat
  OBVIOUS
<1>2. PICK g \in [0 .. Len(t) -> Nat] :
        /\ g[0] = 0 /\ \A n \in 1 .. Len(t) : g[n] = g[n - 1] + LineBytes(t[n])
        /\ BytesOf(t) = g[Len(t)]
  <2>1. \A i \in 1 .. Len(t) : IsLine(t[i])
    OBVIOUS
  <2>. QED  BY <2>1, Sums
<1>. DEFINE S == {n \in Nat : g[n] = f[n]}
<1>3. 0 \in S
  BY <1>2
<1>4. ASSUME NEW n \in 1 .. Len(t), n - 1 \in S  PROVE n \in S
  <2>1. n \in 1 .. Len(s) /\ t[n] = s[n]
    OBVIOUS
  <2>. QED  BY <1>2, <1>4, <2>1
<1>5. \A n \in 0 .. Len(t) : n \in S
  <2>. HIDE DEF S
  <2>. QED  BY <1>1, <1>3, <1>4, RangeInduction
<1>. QED  BY <1>1, <1>2, <1>5

-----------------------------------------------------------------------------
(* Offsets: the bytes in front of a line *)

Offset(s, n) == BytesOf(SubSeq(s, 1, n))

LEMMA OffsetLemma ==
  ASSUME NEW T, NEW s \in Seq(T), \A i \in 1 .. Len(s) : IsLine(s[i])
  PROVE  /\ Offset(s, 0) = 0
         /\ \A n \in 0 .. Len(s) : Offset(s, n) \in Nat
         /\ \A n \in 1 .. Len(s) : Offset(s, n) = Offset(s, n - 1) + LineBytes(s[n])
         /\ Offset(s, Len(s)) = BytesOf(s)
<1>1. PICK f \in [0 .. Len(s) -> Nat] :
        /\ f[0] = 0 /\ \A n \in 1 .. Len(s) : f[n] = f[n - 1] + LineBytes(s[n])
        /\ BytesOf(s) = f[Len(s)]
  BY Sums
<1>2. ASSUME NEW n \in 0 .. Len(s)  PROVE Offset(s, n) = f[n]
  <2>1. /\ SubSeq(s, 1, n) \in Seq(T) /\ Len(SubSeq(s, 1, n)) = n
        /\ \A i \in 1 .. n : SubSeq(s, 1, n)[i] = s[i]
    OBVIOUS
  <2>2. Len(SubSeq(s, 1, n)) <= Len(s)
    BY <2>1
  <2>3. BytesOf(SubSeq(s, 1, n)) = f[Len(SubSeq(s, 1, n))]
    BY <1>1, <2>1, <2>2, BytesOfPrefix, ZenonT(60)
  <2>. QED  BY <2>1, <2>3 DEF Offset
<1>3. /\ 0 \in 0 .. Len(s) /\ Len(s) \in 0 .. Len(s)
      /\ \A n \in 1 .. Len(s) : n \in 0 .. Len(s) /\ n - 1 \in 0 .. Len(s)
  OBVIOUS
<1>4. Offset(s, 0) = 0 /\ Offset(s, Len(s)) = BytesOf(s)
  BY <1>1, <1>2, <1>3, Zenon
<1>5. ASSUME NEW n \in 0 .. Len(s)  PROVE Offset(s, n) \in Nat
  <2>1. f[n] \in Nat
    BY <1>1
  <2>. QED  BY <1>2, <2>1, Zenon
<1>6. ASSUME NEW n \in 1 .. Len(s)  PROVE Offset(s, n) = Offset(s, n - 1) + LineBytes(s[n])
  <2>1. Offset(s, n) = f[n] /\ Offset(s, n - 1) = f[n - 1]
    BY <1>2, <1>3, Zenon
  <2>2. f[n] = f[n - 1] + LineBytes(s[n])
    BY <1>1, Zenon
  <2>. QED  BY <2>1, <2>2, Zenon
<1>. QED  BY <1>4, <1>5, <1>6, Zenon

\* Offsets depend on the lines in front only.
LEMMA OffsetOfPrefix ==
  ASSUME NEW T, NEW s \in Seq(T), NEW t \in Seq(T), NEW n \in 0 .. Len(s), n <= Len(t),
         \A i \in 1 .. n : s[i] = t[i]
  PROVE  SubSeq(s, 1, n) = SubSeq(t, 1, n) /\ Offset(s, n) = Offset(t, n)
<1>1. SubSeq(s, 1, n) = SubSeq(t, 1, n)
  OBVIOUS
<1>. QED  BY <1>1 DEF Offset

LEMMA OffsetsGrow ==
  ASSUME NEW T, NEW s \in Seq(T), \A i \in 1 .. Len(s) : IsLine(s[i]),
         NEW m \in 0 .. Len(s), NEW n \in m .. Len(s)
  PROVE  /\ Offset(s, m) <= Offset(s, n)
         /\ (\A i \in 1 .. Len(s) : LineBytes(s[i]) > 0) /\ m < n => Offset(s, m) < Offset(s, n)
<1>. DEFINE S == {k \in Nat : k \in m .. Len(s) =>
                    /\ Offset(s, m) <= Offset(s, k)
                    /\ (\A i \in 1 .. Len(s) : LineBytes(s[i]) > 0) /\ m < k
                         => Offset(s, m) < Offset(s, k)}
<1>1. /\ Len(s) \in Nat /\ \A k \in 0 .. Len(s) : Offset(s, k) \in Nat
      /\ \A k \in 1 .. Len(s) : /\ Offset(s, k) = Offset(s, k - 1) + LineBytes(s[k])
                                /\ LineBytes(s[k]) \in Nat
  BY OffsetLemma, LineBytesNat
<1>2. 0 \in S
  BY <1>1
<1>3. ASSUME NEW k \in 1 .. Len(s), k - 1 \in S  PROVE k \in S
  <2>1. CASE k <= m
    BY <2>1, <1>1
  <2>2. CASE m < k
    <3>1. k - 1 \in m .. Len(s) /\ k - 1 \in 0 .. Len(s)
      BY <1>1, <2>2
    <3>2. Offset(s, k) = Offset(s, k - 1) + LineBytes(s[k]) /\ LineBytes(s[k]) \in Nat
          /\ Offset(s, k - 1) \in Nat /\ Offset(s, m) \in Nat /\ Offset(s, k) \in Nat
      BY <1>1, <3>1
    <3>3. Offset(s, m) <= Offset(s, k - 1)
      BY <1>3, <3>1
    <3>. QED  BY <3>2, <3>3
  <2>. QED  BY <2>1, <2>2, <1>1
<1>4. \A k \in 0 .. Len(s) : k \in S
  <2>. HIDE DEF S
  <2>. QED  BY <1>1, <1>2, <1>3, RangeInduction
<1>. QED  BY <1>1, <1>4
-----------------------------------------------------------------------------
(* Events in the order of a transfer *)

PlaceOf ==
  [StartTransfer |-> "InTransfer", StartBasket |-> "InBasket", Object |-> "InBasket",
   EndBasket |-> "InTransfer", EndTransfer |-> "AfterTransfer"]

\* The state that the events of s lead to.
Place(s) == IF s = <<>> THEN "BeforeTransfer" ELSE PlaceOf[s[Len(s)].kind]

InOrder(s) ==
  \A i \in 1 .. Len(s) : IF i = 1 THEN s[i].kind = "StartTransfer"
                                   ELSE <<s[i - 1].kind, s[i].kind>> \in Stream!Follows

-----------------------------------------------------------------------------
(* The inductive invariant *)

Json ==
  {EventJson(e) : e \in Events} \cup {Malformed}
    \cup UNION {{f.text[i].json : i \in DOMAIN f.text} : f \in Files}
AnyEvent == {LineEvent(j)[1] : j \in {k \in Json : LineEvent(k) # <<>>}}
AnyLine == [json : Json, size : Nat, ending : Ending]

WriterTypeOK ==
  /\ text \in Seq(AnyLine)
  /\ writerState \in TransferState \cup {"Closed"}
  /\ written \in Seq(Events)
  /\ file \in Files \cup {Output}

ReaderTypeOK ==
  /\ readerState \in TransferState
  /\ fed \in Nat /\ buffered \in Nat /\ parsed \in Nat
  /\ queue \in Seq(AnyEvent) /\ delivered \in Seq(AnyEvent)
  /\ inputFinished \in BOOLEAN
  /\ pc \in {"Idle", "Lines"}
  /\ reply \in {"Ok", "Error", "Event", "NeedInput", "End"}

TypeOK == WriterTypeOK /\ ReaderTypeOK

LineOf(e) == Line(EventJson(e), SizeOf(EventJson(e)), "lf")

\* What the output may have taken of an event that write() did not accept.
PartOf(e) ==
  {Line(Malformed, n, "none") : n \in 1 .. SizeOf(EventJson(e)) - 1}
    \cup {[LineOf(e) EXCEPT !.ending = "none"], LineOf(e)}

\* The text is what was written, or the file.
TextOK ==
  /\ \A i \in 1 .. Len(text) : /\ LineBytes(text[i]) > 0
                               /\ text[i].ending = "none" => i = Len(text)
  /\ file # Output => text = file.text /\ written = <<>> /\ writerState = "BeforeTransfer"
  /\ file = Output =>
       /\ Len(text) \in {Len(written), Len(written) + 1}
       /\ \A i \in 1 .. Len(written) : text[i] = LineOf(written[i])
       /\ Len(text) = Len(written) + 1 =>
            /\ writerState = "Failed"
            /\ \E e \in Events : /\ e.kind \in DOMAIN After[Place(written)]
                                 /\ text[Len(text)] \in PartOf(e)

\* The writer's state is the place in the transfer.
WriterOK ==
  /\ InOrder(written)
  /\ writerState \notin {"Failed", "Closed"} => writerState = Place(written)
  /\ writerState = "Closed" => Place(written) = "AfterTransfer"

\* The events of the parsed lines, which are in order; the reader's state is their place.
Parsed == delivered \o queue
LinesOK ==
  /\ parsed <= Len(text)
  /\ Len(Parsed) = parsed
  /\ \A i \in 1 .. parsed : LineEvent(text[i].json) = <<Parsed[i]>>
  /\ InOrder(Parsed)
  /\ readerState # "Failed" => readerState = Place(Parsed)

\* What was fed; and that between calls no whole line is left.
BytesOK ==
  /\ fed <= BytesOf(text)
  /\ readerState # "Failed" /\ ~inputFinished => fed = Offset(text, parsed) + buffered
  /\ pc = "Idle" /\ readerState # "Failed" /\ ~inputFinished => ~HasLine
  /\ inputFinished /\ file # Output /\ fed = BytesOf(text) => parsed = Len(text)

CallsOK ==
  /\ pc = "Lines" => readerState # "Failed" /\ ~inputFinished
  /\ inputFinished => readerState = "AfterTransfer"
  /\ reply = "End" => inputFinished /\ queue = <<>>

IInv == TypeOK /\ TextOK /\ WriterOK /\ LinesOK /\ BytesOK /\ CallsOK

-----------------------------------------------------------------------------
(* Lemmas about the parts *)

LEMMA LineEventOf ==
  ASSUME NEW j \in Json, LineEvent(j) # <<>>
  PROVE  LineEvent(j)[1] \in AnyEvent /\ LineEvent(j) = <<LineEvent(j)[1]>>
<1>1. LineEvent(j)[1] \in AnyEvent
  BY DEF AnyEvent
<1>2. CASE \E e \in Events : j = EventJson(e)
  <2>1. PICK e \in Events : j = EventJson(e)
    BY <1>2
  <2>2. LineEvent(j) = <<e>>
    BY <2>1, RoundTripAssumption
  <2>. QED  BY <1>1, <2>2
<1>3. CASE \E f \in Files : \E i \in DOMAIN f.text : j = f.text[i].json
  <2>0. PICK f \in Files : \E i \in DOMAIN f.text : j = f.text[i].json
    BY <1>3
  <2>1. PICK i \in DOMAIN f.text : j = f.text[i].json
    BY <2>0
  <2>2. LineEvent(f.text[i].json) = <<>> \/ LineEvent(f.text[i].json) = <<LineEvent(f.text[i].json)[1]>>
    BY FilesAssumption DEF IsText
  <2>. QED  BY <1>1, <2>1, <2>2
<1>4. CASE j = Malformed
  BY <1>4, MalformedAssumption
<1>. QED  BY <1>2, <1>3, <1>4 DEF Json

\* After allows what may follow, and leads to the place of the event.
LEMMA AfterPlace ==
  ASSUME NEW p \in {"BeforeTransfer", "InTransfer", "InBasket", "AfterTransfer"},
         NEW k \in DOMAIN After[p]
  PROVE  /\ k \in DOMAIN PlaceOf /\ After[p][k] = PlaceOf[k]
         /\ p = "BeforeTransfer" => k = "StartTransfer"
         /\ \A prev \in DOMAIN PlaceOf : p = PlaceOf[prev] => <<prev, k>> \in Stream!Follows
<1>1. CASE p = "BeforeTransfer"
  BY <1>1 DEF After, PlaceOf
<1>2. CASE p = "InTransfer"
  BY <1>2 DEF After, PlaceOf, Stream!Follows
<1>3. CASE p = "InBasket"
  BY <1>3 DEF After, PlaceOf, Stream!Follows
<1>4. CASE p = "AfterTransfer"
  BY <1>4 DEF After, PlaceOf
<1>. QED  BY <1>1, <1>2, <1>3, <1>4

\* And the other way round.
LEMMA FollowsAfter ==
  ASSUME NEW prev, NEW k, <<prev, k>> \in Stream!Follows
  PROVE  prev \in DOMAIN PlaceOf /\ k \in DOMAIN PlaceOf /\ k \in DOMAIN After[PlaceOf[prev]]
  BY DEF Stream!Follows, PlaceOf, After

LEMMA KindsInOrder ==
  ASSUME NEW T, NEW s \in Seq(T), InOrder(s), NEW i \in 1 .. Len(s)
  PROVE  s[i].kind \in DOMAIN PlaceOf
<1>1. CASE i = 1
  BY <1>1 DEF InOrder, PlaceOf
<1>2. CASE i # 1
  BY <1>2, FollowsAfter DEF InOrder
<1>. QED  BY <1>1, <1>2

LEMMA PlaceInOrder ==
  ASSUME NEW T, NEW s \in Seq(T), InOrder(s)
  PROVE  Place(s) \in {"BeforeTransfer", "InTransfer", "InBasket", "AfterTransfer"}
<1>1. CASE s = <<>>
  BY <1>1 DEF Place
<1>2. CASE s # <<>>
  <2>1. Len(s) \in 1 .. Len(s)
    BY <1>2
  <2>. QED  BY <1>2, <2>1, KindsInOrder DEF Place, PlaceOf
<1>. QED  BY <1>1, <1>2

\* One more event that is allowed keeps the order.
LEMMA NextInOrder ==
  ASSUME NEW T, NEW s \in Seq(T), InOrder(s), NEW e \in T, e.kind \in DOMAIN After[Place(s)]
  PROVE  /\ InOrder(Append(s, e))
         /\ Place(Append(s, e)) = After[Place(s)][e.kind]
         /\ Stream!MayFollow(s, e.kind)
<1>. DEFINE t == Append(s, e)
<1>1. /\ t \in Seq(T) /\ Len(t) = Len(s) + 1 /\ Len(s) \in Nat /\ t # <<>>
      /\ t[Len(t)] = e /\ \A i \in 1 .. Len(s) : t[i] = s[i]
  OBVIOUS
<1>2. Place(s) \in {"BeforeTransfer", "InTransfer", "InBasket", "AfterTransfer"}
  BY PlaceInOrder
<1>3. /\ e.kind \in DOMAIN PlaceOf /\ After[Place(s)][e.kind] = PlaceOf[e.kind]
      /\ Place(s) = "BeforeTransfer" => e.kind = "StartTransfer"
      /\ \A prev \in DOMAIN PlaceOf : Place(s) = PlaceOf[prev] => <<prev, e.kind>> \in Stream!Follows
  BY <1>2, AfterPlace
<1>4. IF s = <<>> THEN e.kind = "StartTransfer" ELSE <<s[Len(s)].kind, e.kind>> \in Stream!Follows
  <2>1. CASE s = <<>>
    BY <2>1, <1>3 DEF Place
  <2>2. CASE s # <<>>
    <3>1. Len(s) \in 1 .. Len(s)
      BY <2>2
    <3>2. s[Len(s)].kind \in DOMAIN PlaceOf
      BY <3>1, KindsInOrder
    <3>. QED  BY <2>2, <3>2, <1>3 DEF Place
  <2>. QED  BY <2>1, <2>2
<1>5. ASSUME NEW i \in 1 .. Len(t)
      PROVE  IF i = 1 THEN t[i].kind = "StartTransfer"
                      ELSE <<t[i - 1].kind, t[i].kind>> \in Stream!Follows
  <2>1. CASE i <= Len(s)
    <3>1. i \in 1 .. Len(s) /\ (i # 1 => i - 1 \in 1 .. Len(s))
      BY <2>1, <1>1
    <3>. QED  BY <3>1, <1>1 DEF InOrder
  <2>2. CASE i = Len(s) + 1 /\ s = <<>>
    BY <2>2, <1>1, <1>4
  <2>3. CASE i = Len(s) + 1 /\ s # <<>>
    <3>1. i # 1 /\ i - 1 = Len(s) /\ Len(s) \in 1 .. Len(s)
      BY <2>3, <1>1
    <3>2. t[i] = e /\ t[i - 1] = s[Len(s)]
      BY <3>1, <2>3, <1>1
    <3>. QED  BY <3>1, <3>2, <2>3, <1>4
  <2>4. Len(t) = Len(s) + 1 /\ Len(s) \in Nat
    BY <1>1
  <2>5. i <= Len(s) \/ i = Len(s) + 1
    <3>. HIDE DEF t
    <3>. QED  BY <2>4
  <2>. QED  BY <2>1, <2>2, <2>3, <2>5, Zenon
<1>6. InOrder(t)
  BY <1>5 DEF InOrder
<1>7. Place(t) = PlaceOf[e.kind]
  <2>. HIDE DEF t
  <2>. QED  BY <1>1 DEF Place
<1>. QED  BY <1>3, <1>4, <1>6, <1>7 DEF Stream!MayFollow

\* An event that comes later in order is allowed where those in front of it lead.
LEMMA AllowedInOrder ==
  ASSUME NEW T, NEW s \in Seq(T), InOrder(s), NEW n \in 1 .. Len(s),
         NEW U, NEW t \in Seq(U), Len(t) = n - 1, \A i \in 1 .. n - 1 : t[i] = s[i]
  PROVE  s[n].kind \in DOMAIN After[Place(t)]
<1>1. CASE n = 1
  <2>1. t = <<>>
    BY <1>1
  <2>2. s[1].kind = "StartTransfer"
    BY <1>1 DEF InOrder
  <2>. QED  BY <1>1, <2>1, <2>2 DEF Place, After
<1>2. CASE n # 1
  <2>1. n - 1 \in 1 .. n - 1 /\ t # <<>> /\ t[Len(t)] = s[n - 1]
    BY <1>2
  <2>2. <<s[n - 1].kind, s[n].kind>> \in Stream!Follows
    BY <1>2 DEF InOrder
  <2>. QED  BY <2>1, <2>2, FollowsAfter DEF Place
<1>. QED  BY <1>1, <1>2

-----------------------------------------------------------------------------
(* The start *)

LEMMA FileText ==
  ASSUME NEW f \in Files
  PROVE  /\ f.text \in Seq(AnyLine)
         /\ \A i \in 1 .. Len(f.text) : /\ LineBytes(f.text[i]) > 0
                                        /\ f.text[i].ending = "none" => i = Len(f.text)
<1>. DEFINE J == {f.text[i].json : i \in DOMAIN f.text}
<1>1. J \subseteq Json
  BY DEF Json
<1>2. IsText(f.text)
  BY FilesAssumption
<1>3. f.text \in Seq([json : J, size : Nat, ending : Ending])
  BY <1>2 DEF IsText
<1>4. [json : J, size : Nat, ending : Ending] \subseteq AnyLine
  BY <1>1 DEF AnyLine
<1>5. f.text \in Seq(AnyLine)
  BY <1>3, <1>4, SeqMonotonic
<1>. QED  BY <1>2, <1>5 DEF IsText

\* The lines of the text have bytes.
LEMMA TextLines ==
  ASSUME text \in Seq(AnyLine)
  PROVE  /\ Len(text) \in Nat
         /\ \A i \in 1 .. Len(text) : /\ text[i] \in AnyLine /\ IsLine(text[i])
                                     /\ text[i].json \in Json /\ LineBytes(text[i]) \in Nat
         /\ BytesOf(text) \in Nat
<1>0. Len(text) \in Nat /\ \A i \in 1 .. Len(text) : text[i] \in AnyLine
  OBVIOUS
<1>1. \A l \in AnyLine : l.json \in Json /\ IsLine(l)
  BY DEF AnyLine, IsLine
<1>2. BytesOf(text) \in Nat
  BY <1>0, <1>1, OffsetLemma
<1>. QED  BY <1>0, <1>1, <1>2, LineBytesNat

LEMMA InitHolds == Init => IInv
<1>. SUFFICES ASSUME Init  PROVE IInv
  OBVIOUS
<1>. USE DEF WriterInit, ReaderInit
<1>1. file \in Files \cup {Output} /\ text = file.text
  BY DEF Init
<1>2. /\ text \in Seq(AnyLine)
      /\ \A i \in 1 .. Len(text) : /\ LineBytes(text[i]) > 0
                                   /\ text[i].ending = "none" => i = Len(text)
  <2>1. CASE file \in Files
    BY <1>1, <2>1, FileText
  <2>2. CASE file = Output
    BY <1>1, <2>2 DEF Output
  <2>. QED  BY <1>1, <2>1, <2>2
<1>3. TypeOK
  <2>1. WriterTypeOK
    BY <1>1, <1>2 DEF Init, WriterTypeOK, TransferState
  <2>2. ReaderTypeOK
    <3>1. queue \in Seq(AnyEvent) /\ delivered \in Seq(AnyEvent)
      BY DEF Init
    <3>2. inputFinished \in BOOLEAN /\ reply = "Ok" /\ pc = "Idle" /\ readerState = "BeforeTransfer"
      BY DEF Init
    <3>. QED  BY <3>1, <3>2 DEF Init, ReaderTypeOK, TransferState
  <2>. QED  BY <2>1, <2>2 DEF TypeOK
<1>4. TextOK
  <2>1. written = <<>> /\ writerState = "BeforeTransfer" /\ Len(written) = 0
    BY DEF Init
  <2>2. file = Output => Len(text) = 0
    BY <1>1 DEF Output
  <2>. QED  BY <1>1, <1>2, <2>1, <2>2 DEF TextOK
<1>5. WriterOK
  BY DEF Init, WriterOK, InOrder, Place
<1>6. Parsed = <<>> /\ Len(Parsed) = 0
  BY DEF Init, Parsed
<1>7. LinesOK
  BY <1>2, <1>6 DEF Init, LinesOK, InOrder, Place
<1>8. BytesOK
  <2>1. Offset(text, 0) = 0 /\ Len(text) \in Nat /\ BytesOf(text) \in Nat
    BY <1>2, TextLines, OffsetLemma
  <2>2. ~HasLine
    <3>1. parsed = 0 /\ buffered = 0
      BY DEF Init
    <3>2. \A i \in 1 .. Len(text) : LineBytes(text[i]) > 0 /\ LineBytes(text[i]) \in Nat
      <4>1. \A i \in 1 .. Len(text) : LineBytes(text[i]) \in Nat
        BY <1>2, TextLines
      <4>. QED  BY <1>2, <4>1
    <3>. QED  BY <2>1, <3>1, <3>2 DEF HasLine
  <2>. QED  BY <2>1, <2>2 DEF Init, BytesOK
<1>9. CallsOK
  BY DEF Init, CallsOK
<1>. QED  BY <1>3, <1>4, <1>5, <1>7, <1>8, <1>9 DEF IInv

-----------------------------------------------------------------------------
(* The writer *)

\* One more line does not disturb the reader.
LEMMA ReaderKeeps ==
  ASSUME IInv, file = Output, UNCHANGED <<readerVars, file>>,
         text' = text \/ \E x \in AnyLine : LineBytes(x) > 0 /\ text' = Append(text, x)
  PROVE  ReaderTypeOK' /\ LinesOK' /\ BytesOK' /\ CallsOK' /\ text' \in Seq(AnyLine)
<1>1. text \in Seq(AnyLine) /\ parsed \in Nat /\ fed \in Nat /\ buffered \in Nat
  BY DEF IInv, TypeOK, WriterTypeOK, ReaderTypeOK
<1>2. ReaderTypeOK' /\ CallsOK'
  BY DEF IInv, TypeOK, ReaderTypeOK, CallsOK, readerVars
<1>3. Parsed' = Parsed
  BY DEF Parsed, readerVars
<1>4. CASE text' = text
  <2>1. LinesOK'
    BY <1>3, <1>4 DEF IInv, LinesOK, readerVars
  <2>2. BytesOK'
    BY <1>4 DEF IInv, BytesOK, HasLine, readerVars
  <2>. QED  BY <1>1, <1>2, <1>4, <2>1, <2>2
<1>5. CASE \E x \in AnyLine : LineBytes(x) > 0 /\ text' = Append(text, x)
  <2>1. PICK x \in AnyLine : LineBytes(x) > 0 /\ text' = Append(text, x)
    BY <1>5
  <2>2. /\ text' \in Seq(AnyLine) /\ Len(text') = Len(text) + 1 /\ Len(text) \in Nat
        /\ text'[Len(text) + 1] = x /\ \A i \in 1 .. Len(text) : text'[i] = text[i]
    BY <1>1, <2>1
  <2>3. LinesOK'
    <3>1. parsed <= Len(text) /\ \A i \in 1 .. parsed : i \in 1 .. Len(text)
      BY <1>1, <2>2 DEF IInv, LinesOK
    <3>2. \A i \in 1 .. parsed : LineEvent(text'[i].json) = <<Parsed[i]>>
      BY <2>2, <3>1 DEF IInv, LinesOK
    <3>. QED  BY <1>1, <1>3, <2>2, <3>1, <3>2 DEF IInv, LinesOK, readerVars
  <2>4. /\ \A i \in 1 .. Len(text) : IsLine(text[i]) /\ LineBytes(text[i]) \in Nat
        /\ BytesOf(text) \in Nat /\ IsLine(x) /\ LineBytes(x) \in Nat
    <3>1. IsLine(x)
      BY DEF IsLine, AnyLine
    <3>. QED  BY <1>1, <3>1, TextLines, LineBytesNat
  <2>5. BytesOf(text') = BytesOf(text) + LineBytes(x)
    <3>1. \A i \in 1 .. Len(text') : IsLine(text'[i])
      BY <2>2, <2>4
    <3>2. Offset(text', Len(text')) = BytesOf(text') /\ Offset(text, Len(text)) = BytesOf(text)
      BY <1>1, <2>2, <2>4, <3>1, OffsetLemma
    <3>3. Offset(text', Len(text')) = Offset(text', Len(text')  - 1) + LineBytes(text'[Len(text')])
      <4>1. Len(text') \in 1 .. Len(text')
        BY <2>2
      <4>. QED  BY <2>2, <3>1, <4>1, OffsetLemma
    <3>4. Offset(text', Len(text)) = Offset(text, Len(text))
      <4>1. Len(text) \in 0 .. Len(text) /\ Len(text) <= Len(text')
        BY <2>2
      <4>. QED  BY <1>1, <2>2, <4>1, OffsetOfPrefix
    <3>. QED  BY <2>2, <3>2, <3>3, <3>4
  <2>6. Offset(text', parsed) = Offset(text, parsed)
    <3>1. parsed \in 0 .. Len(text) /\ parsed <= Len(text')
      BY <1>1, <2>2 DEF IInv, LinesOK
    <3>2. \A i \in 1 .. parsed : text[i] = text'[i]
      BY <2>2, <3>1
    <3>. QED  BY <1>1, <2>2, <3>1, <3>2, OffsetOfPrefix
  <2>7. ~HasLine /\ (readerState # "Failed" /\ ~inputFinished => fed = Offset(text, parsed) + buffered)
          /\ readerState # "Failed" /\ ~inputFinished => ~HasLine'
    <3>. SUFFICES ASSUME ~HasLine, fed = Offset(text, parsed) + buffered  PROVE ~HasLine'
      OBVIOUS
    <3>1. CASE parsed < Len(text)
      <4>1. parsed + 1 \in 1 .. Len(text) /\ parsed + 1 \in 1 .. Len(text')
        BY <3>1, <1>1, <2>2
      <4>. QED  BY <3>1, <4>1, <2>2, <1>1 DEF HasLine, readerVars
    <3>2. CASE parsed = Len(text)
      <4>1. Offset(text, parsed) = BytesOf(text)
        BY <3>2, <1>1, <2>4, OffsetLemma
      <4>2. buffered = 0
        BY <4>1, <1>1, <2>4 DEF IInv, BytesOK
      <4>. QED  BY <3>2, <4>2, <2>1, <2>2, <2>4 DEF HasLine, readerVars
    <3>. QED  BY <3>1, <3>2, <1>1, <2>2 DEF IInv, LinesOK
  <2>8. BytesOK'
    <3>1. fed' <= BytesOf(text')
      BY <1>1, <2>1, <2>4, <2>5 DEF IInv, BytesOK, readerVars
    <3>2. readerState # "Failed" /\ ~inputFinished => fed' = Offset(text', parsed') + buffered'
      BY <2>6 DEF IInv, BytesOK, readerVars
    <3>3. pc = "Idle" /\ readerState # "Failed" /\ ~inputFinished => ~HasLine'
      BY <2>7 DEF IInv, BytesOK
    <3>. QED  BY <3>1, <3>2, <3>3 DEF BytesOK, readerVars
  <2>. QED  BY <1>2, <2>2, <2>3, <2>8
<1>. QED  BY <1>4, <1>5

\* Calls that write nothing.
LEMMA WriterQuiet ==
  ASSUME IInv, UNCHANGED <<readerVars, file, text, written>>, file = Output,
         \/ writerState' \in {writerState, "Failed"}
         \/ writerState = "AfterTransfer" /\ writerState' = "Closed"
  PROVE  IInv'
<1>1. /\ ReaderTypeOK' /\ LinesOK' /\ BytesOK' /\ CallsOK' /\ text' \in Seq(AnyLine)
  BY ReaderKeeps
<1>2. WriterTypeOK'
  BY <1>1 DEF IInv, TypeOK, WriterTypeOK, TransferState
<1>3. TextOK'
  BY DEF IInv, TextOK
<1>4. WriterOK'
  BY DEF IInv, WriterOK
<1>. QED  BY <1>1, <1>2, <1>3, <1>4 DEF IInv, TypeOK

\* The text of a writer that has not failed is what was written.
LEMMA TextWritten ==
  ASSUME IInv, file = Output, MayWrite
  PROVE  /\ Len(text) = Len(written)
         /\ writerState = Place(written)
         /\ text \in Seq(AnyLine) /\ written \in Seq(Events)
         /\ \A i \in 1 .. Len(text) : text[i].ending = "lf"
<1>1. /\ text \in Seq(AnyLine) /\ written \in Seq(Events)
      /\ writerState \notin {"Failed", "Closed"}
  BY DEF IInv, TypeOK, WriterTypeOK, MayWrite
<1>2. Len(text) = Len(written) /\ \A i \in 1 .. Len(written) : text[i] = LineOf(written[i])
  BY <1>1 DEF IInv, TextOK
<1>3. writerState = Place(written)
  BY <1>1 DEF IInv, WriterOK
<1>4. \A e : LineOf(e).ending = "lf"
  BY DEF LineOf, Line
<1>. QED  BY <1>1, <1>2, <1>3, <1>4

LEMMA LineOfEvent ==
  ASSUME NEW e \in Events
  PROVE  /\ LineOf(e) \in AnyLine /\ PartOf(e) \subseteq AnyLine
         /\ LineBytes(LineOf(e)) > 0 /\ \A l \in PartOf(e) : LineBytes(l) > 0
<1>1. SizeOf(EventJson(e)) \in Nat \ {0}
  BY SizeAssumption
<1>2. EventJson(e) \in Json /\ Malformed \in Json
  BY DEF Json
<1>. QED  BY <1>1, <1>2 DEF LineOf, PartOf, AnyLine, Line, Ending, LineBytes, EndingBytes

LEMMA WriteHolds ==
  ASSUME IInv, file = Output, UNCHANGED <<readerVars, file>>, Write
  PROVE  IInv'
<1>1. PICK e \in Events :
        /\ Allowed(e) /\ text' = Append(text, LineOf(e)) /\ written' = Append(written, e)
        /\ writerState' = Advance[writerState][e.kind] /\ MayWrite
  BY DEF Write, Answer, LineOf
<1>2. /\ Len(text) = Len(written) /\ writerState = Place(written)
      /\ text \in Seq(AnyLine) /\ written \in Seq(Events)
      /\ \A i \in 1 .. Len(text) : text[i].ending = "lf"
  BY <1>1, TextWritten
<1>3. LineOf(e) \in AnyLine /\ LineBytes(LineOf(e)) > 0 /\ LineOf(e).ending = "lf"
  BY LineOfEvent DEF LineOf, Line
<1>4. ReaderTypeOK' /\ LinesOK' /\ BytesOK' /\ CallsOK' /\ text' \in Seq(AnyLine)
  BY <1>1, <1>3, ReaderKeeps
<1>5. InOrder(written) /\ e.kind \in DOMAIN After[Place(written)]
  BY <1>1, <1>2 DEF IInv, WriterOK, Allowed, Advance, After
<1>6. InOrder(written') /\ Place(written') = After[Place(written)][e.kind]
  BY <1>1, <1>2, <1>5, NextInOrder
<1>7. writerState' = Place(written')
  BY <1>1, <1>2, <1>6 DEF Advance, After
<1>8. writerState' \in {"BeforeTransfer", "InTransfer", "InBasket", "AfterTransfer"}
  <2>1. written' \in Seq(Events)
    BY <1>1, <1>2
  <2>. QED  BY <1>6, <1>7, <2>1, PlaceInOrder
<1>9. /\ Len(text') = Len(text) + 1 /\ Len(written') = Len(written) + 1 /\ Len(text) \in Nat
      /\ text'[Len(text) + 1] = LineOf(e) /\ written'[Len(written) + 1] = e
      /\ \A i \in 1 .. Len(text) : text'[i] = text[i] /\ written'[i] = written[i]
  BY <1>1, <1>2, <1>3
<1>10. WriterTypeOK'
  BY <1>1, <1>2, <1>4, <1>8 DEF IInv, TypeOK, WriterTypeOK, TransferState
<1>11. WriterOK'
  BY <1>6, <1>7, <1>8 DEF WriterOK
<1>12. TextOK'
  <2>1. ASSUME NEW i \in 1 .. Len(text')
        PROVE  LineBytes(text'[i]) > 0 /\ text'[i].ending = "lf" /\ text'[i] = LineOf(written'[i])
    <3>1. CASE i \in 1 .. Len(text)
      BY <3>1, <1>2, <1>9 DEF IInv, TextOK
    <3>2. CASE i = Len(text) + 1
      BY <3>2, <1>2, <1>3, <1>9
    <3>. QED  BY <3>1, <3>2, <1>9
  <2>2. Len(text') = Len(written') /\ Len(written') \in Nat
    BY <1>2, <1>9
  <2>. QED  BY <2>1, <2>2 DEF TextOK
<1>. QED  BY <1>4, <1>10, <1>11, <1>12 DEF IInv, TypeOK

LEMMA WriteFailsHolds ==
  ASSUME IInv, file = Output, UNCHANGED <<readerVars, file>>, WriteFails
  PROVE  IInv'
<1>0. PICK e \in Events : \E taken \in 0 .. SizeOf(EventJson(e)) + 1 :
        Allowed(e) /\ text' = text \o Cut(EventJson(e), taken)
  BY DEF WriteFails
<1>1. PICK taken \in 0 .. SizeOf(EventJson(e)) + 1 :
        /\ Allowed(e) /\ text' = text \o Cut(EventJson(e), taken)
        /\ written' = written /\ writerState' = "Failed" /\ MayWrite
  BY <1>0 DEF WriteFails, Answer
<1>2. /\ Len(text) = Len(written) /\ writerState = Place(written)
      /\ text \in Seq(AnyLine) /\ written \in Seq(Events)
      /\ \A i \in 1 .. Len(text) : text[i].ending = "lf"
  BY <1>1, TextWritten
<1>3. CASE taken = 0
  <2>1. text' = text
    <3>1. SizeOf(EventJson(e)) \in Nat \ {0}
      BY SizeAssumption
    <3>2. Cut(EventJson(e), taken) = <<>>
      BY <1>3, <3>1 DEF Cut
    <3>. QED  BY <1>1, <1>2, <3>2
  <2>. QED  BY <1>1, <2>1, WriterQuiet
<1>4. CASE taken # 0
  <2>1. PICK l \in PartOf(e) : Cut(EventJson(e), taken) = <<l>>
    <3>1. SizeOf(EventJson(e)) \in Nat \ {0} /\ taken \in Nat
      BY SizeAssumption, <1>1
    <3>2. CASE taken \in 1 .. SizeOf(EventJson(e)) - 1
      BY <3>1, <3>2 DEF Cut, PartOf
    <3>3. CASE taken = SizeOf(EventJson(e))
      <4>1. Cut(EventJson(e), taken) = <<Line(EventJson(e), taken, "none")>>
        BY <3>1, <3>3 DEF Cut
      <4>2. Line(EventJson(e), taken, "none") = [LineOf(e) EXCEPT !.ending = "none"]
        BY <3>3 DEF LineOf, Line
      <4>. QED  BY <4>1, <4>2 DEF PartOf
    <3>4. CASE taken = SizeOf(EventJson(e)) + 1
      <4>1. Cut(EventJson(e), taken) = <<Line(EventJson(e), taken - 1, "lf")>>
        BY <3>1, <3>4 DEF Cut
      <4>2. taken - 1 = SizeOf(EventJson(e))
        BY <3>1, <3>4
      <4>. QED  BY <4>1, <4>2 DEF PartOf, LineOf
    <3>. QED  BY <1>4, <3>1, <3>2, <3>3, <3>4
  <2>2. l \in AnyLine /\ LineBytes(l) > 0
    BY LineOfEvent
  <2>3. text' = Append(text, l)
    BY <1>1, <1>2, <2>1, <2>2
  <2>4. ReaderTypeOK' /\ LinesOK' /\ BytesOK' /\ CallsOK' /\ text' \in Seq(AnyLine)
    BY <2>2, <2>3, ReaderKeeps
  <2>5. WriterTypeOK' /\ WriterOK'
    BY <1>1, <2>4 DEF IInv, TypeOK, WriterTypeOK, WriterOK, TransferState
  <2>6. /\ Len(text') = Len(text) + 1 /\ Len(text) \in Nat /\ text'[Len(text) + 1] = l
        /\ \A i \in 1 .. Len(text) : text'[i] = text[i]
    BY <1>2, <2>2, <2>3
  <2>7. TextOK'
    <3>1. ASSUME NEW i \in 1 .. Len(text')
          PROVE  LineBytes(text'[i]) > 0 /\ (text'[i].ending = "none" => i = Len(text'))
      <4>1. CASE i \in 1 .. Len(text)
        BY <4>1, <1>2, <2>6 DEF IInv, TextOK
      <4>2. CASE i = Len(text) + 1
        BY <4>2, <2>2, <2>6
      <4>. QED  BY <4>1, <4>2, <2>6
    <3>2. \A i \in 1 .. Len(written') : text'[i] = LineOf(written'[i])
      BY <1>1, <1>2, <2>6 DEF IInv, TextOK
    <3>3. e.kind \in DOMAIN After[Place(written')] /\ text'[Len(text')] \in PartOf(e)
      BY <1>1, <1>2, <2>6 DEF Allowed, Advance, After
    <3>4. Len(text') = Len(written') + 1 /\ writerState' = "Failed" /\ file' = Output
      BY <1>1, <1>2, <2>6
    <3>. QED  BY <3>1, <3>2, <3>3, <3>4 DEF TextOK
  <2>. QED  BY <2>4, <2>5, <2>7 DEF IInv, TypeOK
<1>. QED  BY <1>3, <1>4

LEMMA WritingHolds ==
  ASSUME IInv, Writing
  PROVE  IInv'
<1>1. file = Output /\ UNCHANGED <<readerVars, file>> /\ WriterNext
  BY DEF Writing
<1>2. CASE WriteRefused \/ WriteOutOfOrder \/ FlushRefused \/ Flush \/ CloseAgain \/ CloseTooEarly
             \/ Close
  <2>1. UNCHANGED <<text, written>>
    BY <1>2 DEF WriteRefused, WriteOutOfOrder, FlushRefused, Flush, CloseAgain, CloseTooEarly,
       Close, Answer
  <2>2. \/ writerState' \in {writerState, "Failed"}
        \/ writerState = "AfterTransfer" /\ writerState' = "Closed"
    BY <1>2 DEF WriteRefused, WriteOutOfOrder, FlushRefused, Flush, CloseAgain, CloseTooEarly,
       Close, Answer
  <2>. QED  BY <1>1, <2>1, <2>2, WriterQuiet
<1>. QED  BY <1>1, <1>2, WriteHolds, WriteFailsHolds DEF WriterNext

-----------------------------------------------------------------------------
(* The reader *)

\* What the steps of the reader leave alone.
LEMMA WriterKeeps ==
  ASSUME IInv, UNCHANGED <<writerVars, file>>
  PROVE  WriterTypeOK' /\ TextOK' /\ WriterOK'
<1>1. WriterTypeOK'
  BY DEF IInv, TypeOK, WriterTypeOK, writerVars
<1>2. TextOK'
  BY DEF IInv, TextOK, writerVars
<1>3. WriterOK'
  BY DEF IInv, WriterOK, writerVars
<1>. QED  BY <1>1, <1>2, <1>3

\* What is known of the lines and the bytes when a call comes.
LEMMA ReaderFacts ==
  ASSUME IInv
  PROVE  /\ text \in Seq(AnyLine) /\ Len(text) \in Nat
         /\ \A i \in 1 .. Len(text) : /\ IsLine(text[i]) /\ LineBytes(text[i]) \in Nat
                                     /\ LineBytes(text[i]) > 0 /\ text[i].json \in Json
                                     /\ text[i].size \in Nat
         /\ BytesOf(text) \in Nat /\ fed \in Nat /\ buffered \in Nat
         /\ parsed \in 0 .. Len(text) /\ Offset(text, parsed) \in Nat
         /\ Parsed \in Seq(AnyEvent) /\ queue \in Seq(AnyEvent) /\ delivered \in Seq(AnyEvent)
         /\ Len(Parsed) = parsed
<1>1. /\ text \in Seq(AnyLine) /\ fed \in Nat /\ buffered \in Nat /\ parsed \in Nat
      /\ queue \in Seq(AnyEvent) /\ delivered \in Seq(AnyEvent)
  BY DEF IInv, TypeOK, WriterTypeOK, ReaderTypeOK
<1>2. parsed <= Len(text) /\ Len(Parsed) = parsed
  BY DEF IInv, LinesOK
<1>3. /\ Len(text) \in Nat /\ BytesOf(text) \in Nat
      /\ \A i \in 1 .. Len(text) : /\ IsLine(text[i]) /\ LineBytes(text[i]) \in Nat
                                  /\ text[i].json \in Json
  BY <1>1, TextLines
<1>4. \A i \in 1 .. Len(text) : LineBytes(text[i]) > 0 /\ text[i].size \in Nat
  BY <1>3 DEF IInv, TextOK, IsLine
<1>5. Offset(text, parsed) \in Nat
  BY <1>1, <1>2, <1>3, OffsetLemma
<1>6. Parsed \in Seq(AnyEvent)
  BY <1>1 DEF Parsed
<1>. QED  BY <1>1, <1>2, <1>3, <1>4, <1>5, <1>6

\* A line that is accepted: its event comes last, in order.
LEMMA AcceptHolds ==
  ASSUME IInv, NEW json \in Json, parsed < Len(text), text[parsed + 1].json = json,
         readerState # "Failed", Accept(json), UNCHANGED <<text, delivered>>
  PROVE  /\ parsed' = parsed + 1 /\ queue' \in Seq(AnyEvent)
         /\ LineEvent(json) # <<>>
         /\ Len(Parsed') = parsed'
         /\ Parsed' = Append(Parsed, LineEvent(json)[1])
         /\ \A i \in 1 .. parsed' : LineEvent(text'[i].json) = <<Parsed'[i]>>
         /\ InOrder(Parsed') /\ StateAfter(json) = Place(Parsed')
         /\ Stream!MayFollow(Parsed, LineEvent(json)[1].kind)
         /\ StateAfter(json) \in {"InTransfer", "InBasket", "AfterTransfer"}
<1>. DEFINE e == LineEvent(json)[1]
<1>1. LineEvent(json) # <<>>
  BY DEF Accept, Accepts
<1>2. e \in AnyEvent /\ LineEvent(json) = <<e>>
  BY <1>1, LineEventOf
<1>3. e.kind \in DOMAIN After[readerState]
  <2>1. PICK i \in DOMAIN LineEvent(json) : LineEvent(json)[i].kind \in DOMAIN After[readerState]
    BY DEF Accept, Accepts
  <2>2. i = 1
    BY <1>2, <2>1
  <2>. QED  BY <2>1, <2>2
<1>4. /\ Parsed \in Seq(AnyEvent) /\ queue \in Seq(AnyEvent) /\ delivered \in Seq(AnyEvent)
      /\ Len(Parsed) = parsed /\ parsed \in Nat
  BY ReaderFacts
<1>5. queue' = Append(queue, e) /\ parsed' = parsed + 1
  BY DEF Accept
<1>6. Parsed' = Append(Parsed, e)
  <2>. HIDE DEF e
  <2>. QED  BY <1>2, <1>4, <1>5 DEF Parsed
<1>7. InOrder(Parsed) /\ readerState = Place(Parsed)
  BY DEF IInv, LinesOK
<1>8. /\ InOrder(Parsed') /\ Place(Parsed') = After[readerState][e.kind]
      /\ Stream!MayFollow(Parsed, e.kind)
  <2>. HIDE DEF e
  <2>. QED  BY <1>2, <1>3, <1>4, <1>6, <1>7, NextInOrder
<1>9. ASSUME NEW i \in 1 .. parsed'  PROVE LineEvent(text'[i].json) = <<Parsed'[i]>>
  <2>1. CASE i \in 1 .. parsed
    <3>1. Parsed'[i] = Parsed[i]
      BY <1>2, <1>4, <1>6, <2>1
    <3>. QED  BY <2>1, <3>1 DEF IInv, LinesOK
  <2>2. CASE i = parsed + 1
    <3>1. Parsed'[i] = e
      BY <1>2, <1>4, <1>6, <2>2
    <3>. QED  BY <1>2, <2>2, <3>1
  <2>. QED  BY <1>4, <1>5, <2>1, <2>2
<1>10. After[readerState][e.kind] \in {"InTransfer", "InBasket", "AfterTransfer"}
  <2>1. readerState \in {"BeforeTransfer", "InTransfer", "InBasket", "AfterTransfer"}
    BY DEF IInv, TypeOK, ReaderTypeOK, TransferState
  <2>. QED  BY <1>3, <2>1 DEF After
<1>. QED  BY <1>1, <1>2, <1>4, <1>5, <1>6, <1>8, <1>9, <1>10 DEF StateAfter

LEMMA FeedHolds ==
  ASSUME IInv, UNCHANGED <<writerVars, file>>, Feed
  PROVE  IInv'
<1>1. WriterTypeOK' /\ TextOK' /\ WriterOK'
  BY WriterKeeps
<1>2. BytesOf(text) \in Nat /\ fed \in Nat /\ buffered \in Nat /\ fed <= BytesOf(text)
  BY ReaderFacts DEF IInv, BytesOK
<1>3. PICK n \in Nat :
        /\ fed + n <= BytesOf(text) /\ fed' = fed + n /\ buffered' = buffered + n
        /\ IF n = 0 THEN pc' = "Idle" /\ reply' = "Ok" ELSE pc' = "Lines" /\ reply' = reply
        /\ pc = "Idle" /\ ~Refused
        /\ UNCHANGED <<readerState, parsed, queue, inputFinished, delivered>>
  <2>1. \A n \in ChunkSizes \cup {BytesOf(text) - fed} : n \in Nat
    BY <1>2, ChunkAssumption
  <2>. QED  BY <2>1 DEF Feed
<1>4. readerState # "Failed" /\ ~inputFinished
  BY <1>3 DEF Refused
<1>5. Parsed' = Parsed /\ text' = text /\ fed' \in Nat /\ buffered' \in Nat
  BY <1>2, <1>3 DEF Parsed, writerVars
<1>6. ReaderTypeOK'
  BY <1>3, <1>5 DEF IInv, TypeOK, ReaderTypeOK
<1>7. LinesOK'
  BY <1>3, <1>5 DEF IInv, LinesOK
<1>8. BytesOK'
  <2>1. fed' = Offset(text', parsed') + buffered'
    <3>1. Offset(text, parsed) \in Nat /\ fed = Offset(text, parsed) + buffered
      BY <1>4, ReaderFacts DEF IInv, BytesOK
    <3>. QED  BY <1>2, <1>3, <1>5, <3>1
  <2>2. pc' = "Idle" => ~HasLine'
    <3>1. pc' = "Idle" => buffered' = buffered
      BY <1>2, <1>3
    <3>. QED  BY <1>3, <1>4, <1>5, <3>1 DEF IInv, BytesOK, HasLine
  <2>. QED  BY <1>3, <1>4, <1>5, <2>1, <2>2 DEF BytesOK
<1>9. CallsOK'
  BY <1>3, <1>4 DEF IInv, CallsOK
<1>. QED  BY <1>1, <1>6, <1>7, <1>8, <1>9 DEF IInv, TypeOK

\* Steps that leave the lines and the bytes as they are.
LEMMA ReaderQuiet ==
  ASSUME IInv, UNCHANGED <<writerVars, file, fed, buffered, parsed, queue, delivered>>,
         readerState' \in {readerState, "Failed"}, UNCHANGED inputFinished,
         inputFinished => readerState' = readerState,
         pc' = "Idle", pc = "Lines" => readerState' = "Failed" \/ ~HasLine,
         reply' \in {"Ok", "Error", "NeedInput", "End"},
         reply' = "End" => inputFinished /\ queue = <<>>
  PROVE  IInv'
<1>1. WriterTypeOK' /\ TextOK' /\ WriterOK'
  BY WriterKeeps
<1>2. Parsed' = Parsed /\ text' = text
  BY DEF Parsed, writerVars
<1>3. ReaderTypeOK'
  BY DEF IInv, TypeOK, ReaderTypeOK, TransferState
<1>4. LinesOK'
  BY <1>2 DEF IInv, LinesOK
<1>5. BytesOK'
  <2>1. pc \in {"Idle", "Lines"}
    BY DEF IInv, TypeOK, ReaderTypeOK
  <2>. QED  BY <1>2, <2>1 DEF IInv, BytesOK, HasLine, writerVars
<1>6. CallsOK'
  BY DEF IInv, CallsOK
<1>. QED  BY <1>1, <1>3, <1>4, <1>5, <1>6 DEF IInv, TypeOK

\* A caller can only have bytes left of a line that is not parsed yet.
LEMMA RestLine ==
  ASSUME IInv, buffered > 0, readerState # "Failed", ~inputFinished
  PROVE  /\ parsed < Len(text) /\ parsed + 1 \in 1 .. Len(text)
         /\ Offset(text, parsed + 1) = Offset(text, parsed) + LineBytes(text[parsed + 1])
         /\ Offset(text, parsed + 1) <= BytesOf(text)
         /\ fed = Offset(text, parsed) + buffered
<1>1. /\ text \in Seq(AnyLine) /\ Len(text) \in Nat
      /\ \A i \in 1 .. Len(text) : IsLine(text[i])
      /\ BytesOf(text) \in Nat /\ fed \in Nat /\ buffered \in Nat
      /\ parsed \in 0 .. Len(text) /\ Offset(text, parsed) \in Nat
  BY ReaderFacts
<1>2. fed = Offset(text, parsed) + buffered /\ fed <= BytesOf(text)
  BY DEF IInv, BytesOK
<1>3. Offset(text, Len(text)) = BytesOf(text)
  BY <1>1, OffsetLemma
<1>4. parsed # Len(text)
  BY <1>1, <1>2, <1>3
<1>5. parsed + 1 \in 1 .. Len(text) /\ parsed + 1 \in 0 .. Len(text) /\ (parsed + 1) - 1 = parsed
      /\ Len(text) \in parsed + 1 .. Len(text)
  BY <1>1, <1>4
<1>6. Offset(text, parsed + 1) = Offset(text, parsed) + LineBytes(text[parsed + 1])
  BY <1>1, <1>5, OffsetLemma
<1>7. Offset(text, parsed + 1) <= Offset(text, Len(text))
  BY <1>1, <1>5, OffsetsGrow
<1>. QED  BY <1>1, <1>2, <1>3, <1>4, <1>5, <1>6, <1>7

LEMMA ConsumeLineHolds ==
  ASSUME IInv, UNCHANGED <<writerVars, file>>, ConsumeLine
  PROVE  IInv'
<1>. DEFINE json == text[parsed + 1].json
<1>1. /\ pc = "Lines" /\ HasLine /\ readerState # "Failed" /\ ~inputFinished
      /\ buffered' = buffered - LineBytes(text[parsed + 1])
      /\ UNCHANGED <<fed, inputFinished, delivered, text, file>>
  BY DEF ConsumeLine, IInv, CallsOK, writerVars
<1>2. /\ text \in Seq(AnyLine) /\ Len(text) \in Nat
      /\ \A i \in 1 .. Len(text) : /\ IsLine(text[i]) /\ LineBytes(text[i]) \in Nat
                                  /\ LineBytes(text[i]) > 0 /\ text[i].json \in Json
      /\ fed \in Nat /\ buffered \in Nat /\ parsed \in 0 .. Len(text)
  BY ReaderFacts
<1>3. /\ parsed + 1 \in 1 .. Len(text) /\ parsed < Len(text)
      /\ LineBytes(text[parsed + 1]) \in Nat /\ LineBytes(text[parsed + 1]) > 0
      /\ buffered >= LineBytes(text[parsed + 1])
  BY <1>1, <1>2 DEF HasLine
<1>4. json \in Json /\ buffered > 0 /\ buffered' \in Nat
  BY <1>1, <1>2, <1>3
<1>5. /\ Offset(text, parsed + 1) = Offset(text, parsed) + LineBytes(text[parsed + 1])
      /\ fed = Offset(text, parsed) + buffered
  BY <1>1, <1>4, RestLine
<1>6. WriterTypeOK' /\ TextOK' /\ WriterOK'
  BY WriterKeeps
<1>7. CASE Accept(json) /\ readerState' = StateAfter(json) /\ UNCHANGED <<reply, pc>>
  <2>1. /\ parsed' = parsed + 1 /\ queue' \in Seq(AnyEvent) /\ Len(Parsed') = parsed'
        /\ \A i \in 1 .. parsed' : LineEvent(text'[i].json) = <<Parsed'[i]>>
        /\ InOrder(Parsed') /\ StateAfter(json) = Place(Parsed')
        /\ StateAfter(json) \in {"InTransfer", "InBasket", "AfterTransfer"}
    <3>1. Accept(json) /\ text[parsed + 1].json = json
      BY <1>7
    <3>. HIDE DEF json
    <3>. QED  BY <1>1, <1>3, <1>4, <3>1, AcceptHolds
  <2>. HIDE DEF json
  <2>2. ReaderTypeOK'
    BY <1>1, <1>4, <1>2, <1>7, <2>1 DEF IInv, TypeOK, ReaderTypeOK, TransferState
  <2>3. LinesOK'
    BY <1>1, <1>3, <1>7, <2>1 DEF LinesOK
  <2>4. BytesOK'
    <3>1. Offset(text, parsed) \in Nat
      BY ReaderFacts
    <3>2. fed' = Offset(text', parsed') + buffered'
      BY <1>1, <1>2, <1>3, <1>5, <2>1, <3>1
    <3>. QED  BY <1>1, <1>7, <3>2 DEF IInv, BytesOK
  <2>5. CallsOK'
    BY <1>1, <1>7, <2>1 DEF IInv, CallsOK
  <2>. QED  BY <1>6, <2>2, <2>3, <2>4, <2>5 DEF IInv, TypeOK
<1>8. CASE Reject(json) /\ pc' = "Idle"
  <2>1. readerState' = "Failed" /\ reply' = "Error" /\ UNCHANGED <<queue, parsed>>
    BY <1>8 DEF Reject
  <2>2. Parsed' = Parsed
    BY <1>1, <2>1 DEF Parsed
  <2>3. ReaderTypeOK'
    BY <1>1, <1>4, <1>8, <2>1 DEF IInv, TypeOK, ReaderTypeOK, TransferState
  <2>4. LinesOK' /\ BytesOK' /\ CallsOK'
    BY <1>1, <1>8, <2>1, <2>2 DEF IInv, LinesOK, BytesOK, CallsOK
  <2>. QED  BY <1>6, <2>3, <2>4 DEF IInv, TypeOK
<1>. QED  BY <1>7, <1>8 DEF ConsumeLine

LEMMA FinishHolds ==
  ASSUME IInv, UNCHANGED <<writerVars, file>>, Finish
  PROVE  IInv'
<1>1. /\ pc = "Idle" /\ pc' = "Idle" /\ readerState # "Failed" /\ ~inputFinished /\ buffered = 0
      /\ UNCHANGED <<fed, buffered, parsed, queue, delivered, text, file>>
  BY DEF Finish, Refused, writerVars
<1>2. WriterTypeOK' /\ TextOK' /\ WriterOK'
  BY WriterKeeps
<1>3. Parsed' = Parsed
  BY <1>1 DEF Parsed
<1>4. \/ readerState = "AfterTransfer" /\ readerState' = "AfterTransfer" /\ inputFinished' = TRUE
           /\ reply' = "Ok"
      \/ readerState' = "Failed" /\ inputFinished' = FALSE /\ reply' = "Error"
  BY DEF Finish, Complete
<1>5. ReaderTypeOK'
  BY <1>1, <1>4 DEF IInv, TypeOK, ReaderTypeOK, TransferState
<1>6. LinesOK'
  BY <1>1, <1>3, <1>4 DEF IInv, LinesOK
<1>7. BytesOK'
  <2>1. fed = BytesOf(text) => parsed = Len(text)
    <3>1. /\ text \in Seq(AnyLine) /\ Len(text) \in Nat /\ parsed \in 0 .. Len(text)
          /\ \A i \in 1 .. Len(text) : IsLine(text[i]) /\ LineBytes(text[i]) > 0
          /\ Offset(text, parsed) \in Nat /\ fed = Offset(text, parsed) + buffered
      BY <1>1, ReaderFacts DEF IInv, BytesOK
    <3>2. Offset(text, Len(text)) = BytesOf(text)
      BY <3>1, OffsetLemma
    <3>3. parsed < Len(text) => Offset(text, parsed) < Offset(text, Len(text))
      <4>1. Len(text) \in parsed .. Len(text)
        BY <3>1
      <4>. QED  BY <3>1, <4>1, OffsetsGrow
    <3>. QED  BY <1>1, <3>1, <3>2, <3>3
  <2>. QED  BY <1>1, <1>4, <2>1 DEF IInv, BytesOK
<1>8. CallsOK'
  BY <1>1, <1>4 DEF IInv, CallsOK
<1>. QED  BY <1>2, <1>5, <1>6, <1>7, <1>8 DEF IInv, TypeOK

\* The last line may come without its newline, and all of it was fed.
LEMMA RestIsLine ==
  ASSUME IInv, buffered > 0, pc = "Idle", readerState # "Failed", ~inputFinished, Accept(Rest)
  PROVE  /\ parsed < Len(text) /\ Rest = text[parsed + 1].json /\ Rest \in Json
         /\ buffered >= text[parsed + 1].size
         /\ fed = BytesOf(text) => parsed + 1 = Len(text)
<1>1. /\ parsed < Len(text) /\ parsed + 1 \in 1 .. Len(text)
      /\ Offset(text, parsed + 1) = Offset(text, parsed) + LineBytes(text[parsed + 1])
      /\ Offset(text, parsed + 1) <= BytesOf(text)
      /\ fed = Offset(text, parsed) + buffered
  BY RestLine
<1>2. Rest # Malformed
  BY MalformedAssumption DEF Accept, Accepts
<1>3. buffered >= text[parsed + 1].size /\ Rest = text[parsed + 1].json
  BY <1>2 DEF Rest
<1>4. /\ Rest \in Json /\ LineBytes(text[parsed + 1]) \in Nat /\ buffered \in Nat
      /\ Offset(text, parsed) \in Nat
  BY <1>1, <1>3, ReaderFacts
<1>5. ASSUME fed = BytesOf(text)  PROVE parsed + 1 = Len(text)
  <2>1. buffered >= LineBytes(text[parsed + 1])
    BY <1>1, <1>4, <1>5
  <2>2. text[parsed + 1].ending = "none"
    BY <1>1, <2>1 DEF IInv, BytesOK, HasLine
  <2>. QED  BY <1>1, <2>2 DEF IInv, TextOK
<1>. QED  BY <1>1, <1>3, <1>4, <1>5

LEMMA FinishTailHolds ==
  ASSUME IInv, UNCHANGED <<writerVars, file>>, FinishTail
  PROVE  IInv'
<1>1. /\ pc = "Idle" /\ pc' = "Idle" /\ readerState # "Failed" /\ ~inputFinished /\ buffered > 0
      /\ buffered' = 0
      /\ UNCHANGED <<fed, delivered, text, file>>
  BY DEF FinishTail, Refused, writerVars
<1>2. WriterTypeOK' /\ TextOK' /\ WriterOK'
  BY WriterKeeps
<1>3. CASE Accept(Rest) /\ Complete(StateAfter(Rest))
  <2>1. /\ parsed < Len(text) /\ Rest = text[parsed + 1].json /\ Rest \in Json
        /\ fed = BytesOf(text) => parsed + 1 = Len(text)
    BY <1>1, <1>3, RestIsLine
  <2>2. /\ parsed' = parsed + 1 /\ queue' \in Seq(AnyEvent) /\ Len(Parsed') = parsed'
        /\ \A i \in 1 .. parsed' : LineEvent(text'[i].json) = <<Parsed'[i]>>
        /\ InOrder(Parsed') /\ StateAfter(Rest) = Place(Parsed')
    BY <1>1, <1>3, <2>1, AcceptHolds
  <2>3. \/ StateAfter(Rest) = "AfterTransfer" /\ readerState' = "AfterTransfer"
             /\ inputFinished' = TRUE /\ reply' = "Ok"
        \/ readerState' = "Failed" /\ inputFinished' = FALSE /\ reply' = "Error"
    BY <1>3 DEF Complete
  <2>4. parsed \in Nat /\ Len(text) \in Nat
    BY ReaderFacts
  <2>5. ReaderTypeOK'
    <3>1. /\ readerState' \in TransferState /\ inputFinished' \in BOOLEAN
          /\ reply' \in {"Ok", "Error", "Event", "NeedInput", "End"}
      BY <2>3 DEF TransferState
    <3>2. fed' \in Nat /\ buffered' \in Nat /\ parsed' \in Nat /\ delivered' \in Seq(AnyEvent)
      BY <1>1, <2>2, <2>4, ReaderFacts
    <3>. QED  BY <1>1, <2>2, <3>1, <3>2 DEF ReaderTypeOK
  <2>6. LinesOK'
    BY <1>1, <2>1, <2>2, <2>3, <2>4 DEF LinesOK
  <2>7. BytesOK'
    BY <1>1, <2>1, <2>2, <2>3 DEF IInv, BytesOK
  <2>8. CallsOK'
    BY <1>1, <2>3 DEF CallsOK
  <2>. QED  BY <1>2, <2>5, <2>6, <2>7, <2>8 DEF IInv, TypeOK
<1>4. CASE Reject(Rest) /\ UNCHANGED inputFinished
  <2>1. readerState' = "Failed" /\ reply' = "Error" /\ UNCHANGED <<queue, parsed>>
    BY <1>4 DEF Reject
  <2>2. Parsed' = Parsed
    BY <1>1, <2>1 DEF Parsed
  <2>3. ReaderTypeOK'
    BY <1>1, <1>4, <2>1 DEF IInv, TypeOK, ReaderTypeOK, TransferState
  <2>4. LinesOK' /\ BytesOK' /\ CallsOK'
    BY <1>1, <1>4, <2>1, <2>2 DEF IInv, LinesOK, BytesOK, CallsOK
  <2>. QED  BY <1>2, <2>3, <2>4 DEF IInv, TypeOK
<1>. QED  BY <1>3, <1>4 DEF FinishTail

\* next() moves the event at the front of the queue, and no other.
LEMMA NextEventMoves ==
  ASSUME IInv, NextEvent
  PROVE  /\ Parsed' = Parsed /\ Head(queue) \in AnyEvent
         /\ delivered' = Append(delivered, Head(queue)) /\ delivered' \in Seq(AnyEvent)
         /\ queue' \in Seq(AnyEvent) /\ Len(delivered) \in Nat
         /\ Len(delivered) < parsed /\ Parsed[Len(delivered) + 1] = Head(queue)
<1>1. /\ queue \in Seq(AnyEvent) /\ delivered \in Seq(AnyEvent) /\ Len(Parsed) = parsed
      /\ queue # <<>> /\ delivered' = Append(delivered, Head(queue)) /\ queue' = Tail(queue)
  BY ReaderFacts DEF NextEvent
<1>2. Parsed' = Parsed
  BY <1>1 DEF Parsed
<1>. QED  BY <1>1, <1>2 DEF Parsed

LEMMA NextEventHolds ==
  ASSUME IInv, UNCHANGED <<writerVars, file>>, NextEvent
  PROVE  IInv'
<1>1. WriterTypeOK' /\ TextOK' /\ WriterOK'
  BY WriterKeeps
<1>2. Parsed' = Parsed /\ delivered' \in Seq(AnyEvent) /\ queue' \in Seq(AnyEvent)
  BY NextEventMoves
<1>3. /\ pc = "Idle" /\ reply' = "Event" /\ UNCHANGED text
      /\ UNCHANGED <<readerState, fed, buffered, parsed, inputFinished, pc, file>>
  BY DEF NextEvent, writerVars
<1>4. ReaderTypeOK'
  BY <1>2, <1>3 DEF IInv, TypeOK, ReaderTypeOK
<1>5. LinesOK'
  BY <1>2, <1>3 DEF IInv, LinesOK
<1>6. BytesOK'
  BY <1>3 DEF IInv, BytesOK, HasLine
<1>7. CallsOK'
  BY <1>3 DEF IInv, CallsOK
<1>. QED  BY <1>1, <1>4, <1>5, <1>6, <1>7 DEF IInv, TypeOK

LEMMA ReadingHolds ==
  ASSUME IInv, Reading
  PROVE  IInv'
<1>1. UNCHANGED <<writerVars, file>> /\ ReaderNext
  BY DEF Reading
<1>2. CASE FeedOrFinishRefused
  BY <1>1, <1>2, ReaderQuiet DEF FeedOrFinishRefused
<1>3. CASE LineTooLong
  <2>1. ~inputFinished
    BY <1>3 DEF LineTooLong, IInv, CallsOK
  <2>. QED  BY <1>1, <1>3, <2>1, ReaderQuiet DEF LineTooLong
<1>4. CASE LinesDone
  BY <1>1, <1>4, ReaderQuiet DEF LinesDone
<1>5. CASE NextNoEvent
  BY <1>1, <1>5, ReaderQuiet DEF NextNoEvent
<1>. QED  BY <1>1, <1>2, <1>3, <1>4, <1>5, FeedHolds, ConsumeLineHolds, FinishHolds,
          FinishTailHolds, NextEventHolds DEF ReaderNext

LEMMA StutterHolds ==
  ASSUME IInv, UNCHANGED vars
  PROVE  IInv'
<1>1. WriterTypeOK' /\ TextOK' /\ WriterOK'
  BY WriterKeeps DEF vars
<1>2. ReaderTypeOK'
  BY DEF IInv, TypeOK, ReaderTypeOK, vars, readerVars
<1>3. Parsed' = Parsed
  BY DEF Parsed, vars, readerVars
<1>4. LinesOK' /\ BytesOK' /\ CallsOK'
  BY <1>3 DEF IInv, LinesOK, BytesOK, CallsOK, HasLine, vars, writerVars, readerVars
<1>. QED  BY <1>1, <1>2, <1>4 DEF IInv, TypeOK

THEOREM IInvHolds == Spec => []IInv
<1>1. IInv /\ [Next]_vars => IInv'
  BY WritingHolds, ReadingHolds, StutterHolds DEF Next
<1>. QED  BY InitHolds, <1>1, PTL DEF Spec

-----------------------------------------------------------------------------
(* What is written and what is read *)

\* The output holds the lines of the events that write() accepted, and a part of one more at most.
THEOREM WhatIsWritten == Spec => []OutputIsWritten
<1>1. ASSUME IInv, file = Output
      PROVE  LET lines == [i \in DOMAIN written |->
                             Line(EventJson(written[i]), SizeOf(EventJson(written[i])), "lf")]
             IN  text = lines \/ (writerState = "Failed" /\ text # <<>> /\ Front(text) = lines)
  <2>. DEFINE lines == [i \in 1 .. Len(written) |-> LineOf(written[i])]
  <2>1. /\ text \in Seq(AnyLine) /\ written \in Seq(Events)
        /\ Len(text) \in {Len(written), Len(written) + 1}
        /\ \A i \in 1 .. Len(written) : text[i] = LineOf(written[i])
        /\ Len(text) = Len(written) + 1 => writerState = "Failed"
    BY <1>1 DEF IInv, TypeOK, WriterTypeOK, TextOK
  <2>2. CASE Len(text) = Len(written)
    <3>1. text \in Seq(AnyLine)
      BY <2>1
    <3>2. text = [i \in 1 .. Len(text) |-> text[i]]
      BY <3>1
    <3>3. \A i \in 1 .. Len(text) : text[i] = LineOf(written[i])
      BY <2>1, <2>2, Zenon
    <3>4. text = [i \in 1 .. Len(text) |-> LineOf(written[i])]
      BY <3>2, <3>3, Zenon
    <3>5. text = lines
      BY <2>2, <3>4, Zenon
    <3>. QED  BY <2>1, <3>5 DEF LineOf
  <2>3. CASE Len(text) = Len(written) + 1
    <3>1. Front(text) = [i \in 1 .. Len(written) |-> text[i]]
      BY <2>1, <2>3 DEF Front
    <3>2. Front(text) = lines
      BY <2>1, <3>1
    <3>3. text # <<>>
      BY <2>1, <2>3
    <3>. QED  BY <2>1, <2>3, <3>2, <3>3 DEF LineOf
  <2>. QED  BY <2>1, <2>2, <2>3
<1>2. IInv => OutputIsWritten
  BY <1>1 DEF OutputIsWritten
<1>. QED  BY <1>2, IInvHolds, PTL

\* The events handed out and queued are those of the parsed lines, one each, in order.
THEOREM LinesAreRead == Spec => []ReadsLines
<1>1. ASSUME IInv  PROVE ReadsLines
  <2>1. queue \in Seq(AnyEvent) /\ delivered \in Seq(AnyEvent)
    BY <1>1, ReaderFacts
  <2>2. Len(delivered) + Len(queue) = parsed
    BY <1>1, <2>1 DEF IInv, LinesOK, Parsed
  <2>. QED  BY <1>1, <2>2 DEF IInv, LinesOK, BytesOK, ReadsLines, Parsed, Offset
<1>. QED  BY <1>1, IInvHolds, PTL

\* The reader's events are the written ones as far as both reach, and one event of a line that
\* write() did not accept may follow them.
LEMMA ParsedIsWritten ==
  ASSUME IInv, file = Output, NEW i \in 1 .. parsed, i <= Len(written)
  PROVE  Parsed[i] = written[i]
<1>1. /\ text[i] = LineOf(written[i]) /\ LineEvent(text[i].json) = <<Parsed[i]>>
  BY DEF IInv, TextOK, LinesOK
<1>2. written[i] \in Events
  <2>1. written \in Seq(Events) /\ parsed \in Nat
    BY ReaderFacts DEF IInv, TypeOK, WriterTypeOK
  <2>. QED  BY <2>1
<1>3. text[i].json = EventJson(written[i])
  BY <1>1 DEF LineOf, Line
<1>4. LineEvent(EventJson(written[i])) \in {<<written[i]>>, <<>>}
  BY <1>2, RoundTripAssumption
<1>5. <<Parsed[i]>> \in {<<written[i]>>, <<>>}
  BY <1>1, <1>3, <1>4, Zenon
<1>. QED  BY <1>5

LEMMA EndOfTransfer ==
  ASSUME IInv, file = Output, Place(Parsed) = "AfterTransfer"
  PROVE  Len(written) <= parsed
<1>1. SUFFICES ASSUME parsed < Len(written)  PROVE FALSE
  <2>1. written \in Seq(Events) /\ parsed \in Nat
    BY ReaderFacts DEF IInv, TypeOK, WriterTypeOK
  <2>. QED  BY <1>1, <2>1
<1>2. /\ written \in Seq(Events) /\ InOrder(written)
      /\ Parsed \in Seq(AnyEvent) /\ Len(Parsed) = parsed /\ parsed \in Nat
  BY ReaderFacts DEF IInv, TypeOK, WriterTypeOK, WriterOK
<1>3. parsed + 1 \in 1 .. Len(written) /\ Len(Parsed) = (parsed + 1) - 1
  BY <1>1, <1>2
<1>4. \A i \in 1 .. (parsed + 1) - 1 : Parsed[i] = written[i]
  BY <1>1, <1>2, ParsedIsWritten
<1>5. written[parsed + 1].kind \in DOMAIN After[Place(Parsed)]
  BY <1>2, <1>3, <1>4, AllowedInOrder
<1>. QED  BY <1>5 DEF After

\* Who is told of the end of the output has what was written; who fed a whole file, its events.
THEOREM EndIsComplete == Spec => []ReadsBack
<1>1. ASSUME IInv, reply = "End"  PROVE Place(delivered) = "AfterTransfer" /\ Parsed = delivered
  <2>1. inputFinished /\ queue = <<>> /\ readerState = "AfterTransfer"
    BY <1>1 DEF IInv, CallsOK
  <2>2. Parsed = delivered
    BY <1>1, <2>1, ReaderFacts DEF Parsed
  <2>. QED  BY <1>1, <2>1, <2>2 DEF IInv, LinesOK
<1>2. ASSUME IInv, reply = "End", file = Output
      PROVE  IsPrefix(written, delivered) /\ Len(delivered) - Len(written) <= 1
               /\ (Len(delivered) > Len(written) => writerState = "Failed")
  <2>1. /\ Parsed = delivered /\ delivered \in Seq(AnyEvent) /\ written \in Seq(Events)
        /\ Len(delivered) = parsed /\ parsed \in 0 .. Len(text) /\ Len(text) \in Nat
    BY <1>1, <1>2, ReaderFacts DEF IInv, TypeOK, WriterTypeOK
  <2>2. Len(written) <= Len(delivered)
    BY <1>1, <1>2, <2>1, EndOfTransfer
  <2>3. \A i \in 1 .. Len(written) : delivered[i] = written[i]
    BY <1>2, <2>1, <2>2, ParsedIsWritten
  <2>4. SubSeq(written, 1, Len(written)) = SubSeq(delivered, 1, Len(written))
    BY <2>1, <2>2, <2>3
  <2>5. /\ Len(text) \in {Len(written), Len(written) + 1}
        /\ Len(text) = Len(written) + 1 => writerState = "Failed"
    BY <1>2 DEF IInv, TextOK
  <2>. QED  BY <2>1, <2>2, <2>4, <2>5 DEF IsPrefix
<1>3. ASSUME IInv, reply = "End", file # Output, fed = BytesOf(text)
      PROVE  file.events # <<>> /\ delivered = file.events
  <2>1. /\ Parsed = delivered /\ delivered \in Seq(AnyEvent)
        /\ Len(delivered) = parsed /\ text \in Seq(AnyLine) /\ Len(text) \in Nat
        /\ \A i \in 1 .. Len(text) : text[i].json \in Json
    BY <1>1, <1>3, ReaderFacts
  <2>2. parsed = Len(text) /\ file \in Files /\ text = file.text
    BY <1>3 DEF IInv, BytesOK, CallsOK, TextOK, TypeOK, WriterTypeOK
  <2>3. \A i \in 1 .. Len(text) : LineEvent(text[i].json) = <<delivered[i]>>
    BY <1>3, <2>1, <2>2 DEF IInv, LinesOK
  <2>4. EventsOf(text) = delivered
    <3>1. delivered = [i \in 1 .. Len(delivered) |-> delivered[i]]
      BY <2>1
    <3>2. EventsOf(text) = [i \in 1 .. Len(text) |-> delivered[i]]
      BY <2>1, <2>3 DEF EventsOf
    <3>. QED  BY <2>1, <2>2, <3>1, <3>2
  <2>5. Stream!Complete(delivered)
    <3>1. delivered # <<>> /\ InOrder(delivered) /\ Len(delivered) \in 1 .. Len(delivered)
      BY <1>1, <1>3, <2>1 DEF Place, IInv, LinesOK
    <3>2. delivered[Len(delivered)].kind \in DOMAIN PlaceOf
      BY <2>1, <3>1, KindsInOrder
    <3>3. PlaceOf[delivered[Len(delivered)].kind] = "AfterTransfer"
      BY <1>1, <1>3, <3>1 DEF Place
    <3>. QED  BY <3>1, <3>2, <3>3 DEF PlaceOf, Stream!Complete
  <2>6. ASSUME NEW i \in 1 .. Len(text)
        PROVE  Stream!MayFollow(SubSeq(delivered, 1, i - 1), delivered[i].kind)
    <3>1. IF i = 1 THEN delivered[i].kind = "StartTransfer"
                   ELSE <<delivered[i - 1].kind, delivered[i].kind>> \in Stream!Follows
      BY <1>3, <2>1, <2>2 DEF IInv, LinesOK, InOrder
    <3>2. /\ i = 1 => SubSeq(delivered, 1, i - 1) = <<>>
          /\ i # 1 => /\ SubSeq(delivered, 1, i - 1) # <<>>
                      /\ Len(SubSeq(delivered, 1, i - 1)) = i - 1
                      /\ SubSeq(delivered, 1, i - 1)[i - 1] = delivered[i - 1]
      BY <2>1, <2>2
    <3>. QED  BY <3>1, <3>2 DEF Stream!MayFollow
  <2>7. IsTransfer(text)
    <3>1. \A i \in DOMAIN text : i \in 1 .. Len(text) /\ LineEvent(text[i].json) # <<>>
      BY <2>1, <2>3
    <3>. QED  BY <2>4, <2>5, <2>6, <3>1, Zenon DEF IsTransfer
  <2>8. file.events = delivered
    BY <2>2, <2>4, <2>7, FilesAssumption
  <2>. QED  BY <2>5, <2>8 DEF Stream!Complete
<1>4. IInv => ReadsBack
  BY <1>2, <1>3 DEF ReadsBack
<1>. QED  BY <1>4, IInvHolds, PTL

-----------------------------------------------------------------------------
(* The reader does not fail on what the writer wrote *)

\* A line of the output that has its newline is the line of an event that is in order.
LEMMA OutputLine ==
  ASSUME IInv, file = Output, NEW i \in 1 .. Len(text), text[i].ending # "none"
  PROVE  \E e \in Events : /\ text[i] = LineOf(e)
                           /\ i = parsed + 1 => e.kind \in DOMAIN After[Place(Parsed)]
<1>1. /\ written \in Seq(Events) /\ Len(text) \in {Len(written), Len(written) + 1}
      /\ Parsed \in Seq(AnyEvent) /\ Len(Parsed) = parsed /\ parsed \in Nat
      /\ InOrder(written)
  BY ReaderFacts DEF IInv, TypeOK, WriterTypeOK, TextOK, WriterOK
<1>2. CASE i <= Len(written)
  <2>1. text[i] = LineOf(written[i]) /\ written[i] \in Events /\ i \in 1 .. Len(written)
    BY <1>1, <1>2 DEF IInv, TextOK
  <2>2. ASSUME i = parsed + 1  PROVE written[i].kind \in DOMAIN After[Place(Parsed)]
    <3>1. Len(Parsed) = i - 1 /\ \A j \in 1 .. i - 1 : Parsed[j] = written[j]
      BY <1>1, <1>2, <2>2, ParsedIsWritten
    <3>. QED  BY <1>1, <2>1, <3>1, AllowedInOrder
  <2>. QED  BY <2>1, <2>2
<1>3. CASE i = Len(written) + 1
  <2>1. PICK e \in Events : e.kind \in DOMAIN After[Place(written)] /\ text[i] \in PartOf(e)
    BY <1>1, <1>3 DEF IInv, TextOK
  <2>2. text[i] = LineOf(e)
    BY <2>1 DEF PartOf, Line, LineOf
  <2>3. ASSUME i = parsed + 1  PROVE Parsed = written
    <3>1. Len(Parsed) = Len(written) /\ \A j \in 1 .. Len(written) : Parsed[j] = written[j]
      BY <1>1, <1>3, <2>3, ParsedIsWritten
    <3>2. /\ Parsed = [j \in 1 .. Len(Parsed) |-> Parsed[j]]
          /\ written = [j \in 1 .. Len(written) |-> written[j]]
      BY <1>1
    <3>. QED  BY <3>1, <3>2
  <2>. QED  BY <2>1, <2>2, <2>3
<1>. QED  BY <1>1, <1>2, <1>3

\* A reader that was fed all of a finished output has read all that was written.
LEMMA AllRead ==
  ASSUME IInv, file = Output, fed = BytesOf(text), writerState \in {"AfterTransfer", "Closed"},
         pc = "Idle", readerState # "Failed", ~inputFinished
  PROVE  buffered = 0 /\ Place(Parsed) = "AfterTransfer"
<1>1. /\ text \in Seq(AnyLine) /\ Len(text) \in Nat /\ parsed \in 0 .. Len(text)
      /\ \A i \in 1 .. Len(text) : /\ IsLine(text[i]) /\ LineBytes(text[i]) > 0
                                  /\ LineBytes(text[i]) \in Nat
      /\ Offset(text, parsed) \in Nat /\ buffered \in Nat
      /\ fed = Offset(text, parsed) + buffered
      /\ Parsed \in Seq(AnyEvent) /\ Len(Parsed) = parsed
  BY ReaderFacts DEF IInv, BytesOK
<1>2. /\ written \in Seq(Events) /\ Len(text) = Len(written) /\ Place(written) = "AfterTransfer"
      /\ \A i \in 1 .. Len(text) : text[i].ending = "lf"
  <2>1. \A e : LineOf(e).ending = "lf"
    BY DEF LineOf, Line
  <2>2. writerState # "Failed"
    OBVIOUS
  <2>3. /\ written \in Seq(Events) /\ Len(text) = Len(written)
        /\ \A i \in 1 .. Len(written) : text[i] = LineOf(written[i])
    BY <2>2 DEF IInv, TypeOK, WriterTypeOK, TextOK
  <2>4. Place(written) = "AfterTransfer"
    BY DEF IInv, WriterOK
  <2>. QED  BY <2>1, <2>3, <2>4
<1>3. ASSUME buffered > 0  PROVE FALSE
  <2>1. /\ parsed < Len(text) /\ parsed + 1 \in 1 .. Len(text)
        /\ Offset(text, parsed + 1) = Offset(text, parsed) + LineBytes(text[parsed + 1])
        /\ Offset(text, parsed + 1) <= BytesOf(text)
    BY <1>3, RestLine
  <2>2. LineBytes(text[parsed + 1]) \in Nat /\ text[parsed + 1].ending = "lf"
    BY <1>1, <1>2, <2>1
  <2>3. buffered >= LineBytes(text[parsed + 1])
    BY <1>1, <2>1, <2>2
  <2>4. HasLine
    BY <2>1, <2>2, <2>3 DEF HasLine
  <2>. QED  BY <2>4 DEF IInv, BytesOK
<1>4. buffered = 0
  BY <1>1, <1>3
<1>5. parsed = Len(text)
  <2>1. Offset(text, Len(text)) = BytesOf(text)
    BY <1>1, OffsetLemma
  <2>2. parsed < Len(text) => Offset(text, parsed) < Offset(text, Len(text))
    <3>1. Len(text) \in parsed .. Len(text)
      BY <1>1
    <3>. QED  BY <1>1, <3>1, OffsetsGrow
  <2>3. Offset(text, parsed) = Offset(text, Len(text))
    <3>1. Offset(text, parsed) \in Nat /\ BytesOf(text) = Offset(text, parsed) + buffered
      BY <1>1
    <3>. HIDE DEF Offset
    <3>. QED  BY <1>4, <2>1, <3>1
  <2>. QED  BY <1>1, <2>2, <2>3
<1>6. Parsed = written
  <2>1. Len(Parsed) = Len(written) /\ \A j \in 1 .. Len(written) : Parsed[j] = written[j]
    BY <1>1, <1>2, <1>5, ParsedIsWritten
  <2>2. /\ Parsed = [j \in 1 .. Len(Parsed) |-> Parsed[j]]
        /\ written = [j \in 1 .. Len(written) |-> written[j]]
    BY <1>1, <1>2
  <2>. QED  BY <2>1, <2>2
<1>. QED  BY <1>2, <1>4, <1>6

TooEarly == pc = "Idle" /\ (fed < BytesOf(text) \/ writerState \notin {"AfterTransfer", "Closed"})
TooLongLine == \E i \in 1 .. Len(text) : text[i].size > MaxLineBytes
Unfindable ==
  \E e \in Events : ~Findable(e) /\ \E i \in 1 .. Len(text) : text[i].json = EventJson(e)

\* What is not taken for a line in time is too long, or a part of a line.
LEMMA TooLongFails ==
  ASSUME IInv, file = Output, LineTooLong
  PROVE  TooLongLine
<1>1. /\ pc = "Lines" /\ ~HasLine /\ buffered > MaxLineBytes
      /\ readerState # "Failed" /\ ~inputFinished
  BY DEF LineTooLong, TooLong, IInv, CallsOK
<1>2. /\ MaxLineBytes \in Nat /\ buffered \in Nat /\ fed \in Nat /\ BytesOf(text) \in Nat
      /\ text \in Seq(AnyLine) /\ Len(text) \in Nat /\ Offset(text, parsed) \in Nat
      /\ \A i \in 1 .. Len(text) : IsLine(text[i]) /\ text[i].size \in Nat
  BY LimitAssumption, ReaderFacts
<1>3. buffered > 0
  BY <1>1, <1>2
<1>4. /\ parsed < Len(text) /\ parsed + 1 \in 1 .. Len(text)
      /\ Offset(text, parsed + 1) = Offset(text, parsed) + LineBytes(text[parsed + 1])
      /\ fed = Offset(text, parsed) + buffered /\ fed <= BytesOf(text)
  BY <1>1, <1>3, RestLine DEF IInv, BytesOK
<1>. DEFINE l == text[parsed + 1]
<1>5. l.size \in Nat /\ IsLine(l)
  BY <1>2, <1>4
<1>6. CASE l.ending = "none"
  <2>1. parsed + 1 = Len(text)
    BY <1>4, <1>6 DEF IInv, TextOK
  <2>2. Offset(text, parsed + 1) = BytesOf(text)
    BY <1>2, <2>1, OffsetLemma
  <2>3. LineBytes(l) = l.size
    BY <1>5, <1>6 DEF LineBytes, EndingBytes
  <2>. HIDE DEF l
  <2>4. buffered <= l.size
    BY <1>2, <1>4, <1>5, <2>2, <2>3 DEF l
  <2>. QED  BY <1>1, <1>2, <1>4, <1>5, <2>4 DEF TooLongLine, l
<1>7. CASE l.ending # "none"
  <2>1. PICK e \in Events : l = LineOf(e)
    BY <1>4, <1>7, OutputLine
  <2>2. LineBytes(l) = l.size + 1
    BY <2>1, <1>5 DEF LineBytes, EndingBytes, LineOf, Line
  <2>3. buffered < LineBytes(l)
    BY <1>1, <1>2, <1>4, <1>5, <1>7, <2>2 DEF HasLine
  <2>. QED  BY <1>1, <1>2, <1>4, <1>5, <2>2, <2>3 DEF TooLongLine
<1>. QED  BY <1>6, <1>7

\* The reader does not fail on what the writer wrote, however it was cut, but if it is finished
\* too early, a line is longer than the limit, or an attribute has no INTERLIS name.
THEOREM OwnOutputIsRead == Spec => ReadsOwnOutput
<1>1. ASSUME IInv, [Next]_vars, file = Output, readerState # "Failed", readerState' = "Failed"
      PROVE  TooEarly \/ TooLongLine \/ Unfindable
  <2>1. ReaderNext /\ UNCHANGED text
    BY <1>1 DEF Next, Writing, Reading, vars, readerVars, writerVars
  <2>2. CASE LineTooLong
    BY <1>1, <2>2, TooLongFails
  <2>3. CASE ConsumeLine
    <3>. DEFINE json == text[parsed + 1].json
    <3>1. HasLine /\ ~Accepts(json)
      <4>1. Accept(json) => StateAfter(json) # "Failed"
        <5>1. ASSUME Accept(json)  PROVE StateAfter(json) \in {"InTransfer", "InBasket", "AfterTransfer"}
          <6>1. json \in Json /\ parsed < Len(text) /\ UNCHANGED <<text, delivered>>
            <7>1. parsed < Len(text) /\ parsed + 1 \in 1 .. Len(text)
              BY <1>1, <2>3, ReaderFacts DEF ConsumeLine, HasLine
            <7>. QED  BY <1>1, <2>1, <2>3, <7>1, ReaderFacts DEF ConsumeLine
          <6>. HIDE DEF json
          <6>2. text[parsed + 1].json = json
            BY DEF json
          <6>. QED  BY <1>1, <5>1, <6>1, <6>2, AcceptHolds
        <5>. QED  BY <5>1
      <4>. QED  BY <1>1, <2>3, <4>1 DEF ConsumeLine, Reject
    <3>2. parsed + 1 \in 1 .. Len(text) /\ text[parsed + 1].ending # "none"
      BY <1>1, <3>1, ReaderFacts DEF HasLine
    <3>3. PICK e \in Events : /\ text[parsed + 1] = LineOf(e)
                              /\ e.kind \in DOMAIN After[Place(Parsed)]
      BY <1>1, <3>2, OutputLine
    <3>4. json = EventJson(e) /\ readerState = Place(Parsed)
      BY <1>1, <3>3 DEF LineOf, Line, IInv, LinesOK
    <3>5. ~Findable(e)
      <4>1. SUFFICES ASSUME LineEvent(EventJson(e)) = <<e>>  PROVE FALSE
        BY RoundTripAssumption
      <4>. QED  BY <3>1, <3>3, <3>4, <4>1 DEF Accepts
    <3>. QED  BY <3>2, <3>4, <3>5 DEF Unfindable
  <2>4. CASE Finish \/ FinishTail
    <3>1. SUFFICES ASSUME ~TooEarly  PROVE FALSE
      OBVIOUS
    <3>2. pc = "Idle" /\ ~inputFinished
      BY <2>4 DEF Finish, FinishTail, Refused
    <3>3. fed = BytesOf(text) /\ writerState \in {"AfterTransfer", "Closed"}
      <4>1. fed <= BytesOf(text) /\ fed \in Nat /\ BytesOf(text) \in Nat
        BY <1>1, ReaderFacts DEF IInv, BytesOK
      <4>. QED  BY <3>1, <3>2, <4>1 DEF TooEarly
    <3>4. buffered = 0 /\ readerState = "AfterTransfer"
      BY <1>1, <3>2, <3>3, AllRead DEF IInv, LinesOK
    <3>. QED  BY <1>1, <2>4, <3>4 DEF Finish, FinishTail, Complete
  <2>5. CASE Feed \/ FeedOrFinishRefused \/ LinesDone \/ NextEvent \/ NextNoEvent
    BY <1>1, <2>5 DEF Feed, FeedOrFinishRefused, LinesDone, NextEvent, NextNoEvent
  <2>. QED  BY <2>1, <2>2, <2>3, <2>4, <2>5 DEF ReaderNext
<1>. DEFINE Step == file = Output /\ readerState # "Failed" /\ readerState' = "Failed" =>
                      \/ pc = "Idle" /\ (fed < BytesOf(text)
                                           \/ writerState \notin {"AfterTransfer", "Closed"})
                      \/ \E i \in 1 .. Len(text) : text[i].size > MaxLineBytes
                      \/ \E e \in Events : ~Findable(e)
                           /\ \E i \in 1 .. Len(text) : text[i].json = EventJson(e)
<1>2. IInv /\ [Next]_vars => [Step]_vars
  BY <1>1 DEF TooEarly, TooLongLine, Unfindable
<1>. QED  BY <1>2, IInvHolds, PTL DEF Spec, ReadsOwnOutput

-----------------------------------------------------------------------------
(* The event stream *)

\* A step leaves what the caller sees as it is, delivers an event, ends or fails.
LEMMA DeliversInOrder ==
  ASSUME IInv, IInv', NextEvent
  PROVE  Stream!Deliver
<1>1. /\ Parsed' = Parsed /\ Head(queue) \in AnyEvent
      /\ delivered' = Append(delivered, Head(queue)) /\ delivered' \in Seq(AnyEvent)
      /\ Len(delivered) < parsed /\ Parsed[Len(delivered) + 1] = Head(queue)
  BY NextEventMoves
<1>2. /\ delivered \in Seq(AnyEvent) /\ Parsed \in Seq(AnyEvent) /\ Len(Parsed) = parsed
      /\ parsed \in Nat /\ Len(delivered) \in Nat
      /\ \A i \in 1 .. Len(delivered) : Parsed[i] = delivered[i]
  <2>1. /\ delivered \in Seq(AnyEvent) /\ Parsed \in Seq(AnyEvent) /\ Len(Parsed) = parsed
        /\ parsed \in Nat /\ queue \in Seq(AnyEvent)
    BY ReaderFacts
  <2>. QED  BY <2>1 DEF Parsed
<1>3. Len(delivered') = Len(delivered) + 1 /\ delivered'[Len(delivered')] = Head(queue)
  BY <1>1, <1>2
<1>4. Stream!MayFollow(delivered, Head(queue).kind)
  <2>. DEFINE n == Len(delivered) + 1
  <2>1. n \in 1 .. Len(Parsed)
    BY <1>1, <1>2
  <2>2. IF n = 1 THEN Parsed[n].kind = "StartTransfer"
                 ELSE <<Parsed[n - 1].kind, Parsed[n].kind>> \in Stream!Follows
    BY <2>1 DEF IInv, LinesOK, InOrder
  <2>3. CASE delivered = <<>>
    BY <1>1, <2>2, <2>3 DEF Stream!MayFollow
  <2>4. CASE delivered # <<>>
    <3>1. n # 1 /\ n - 1 = Len(delivered) /\ Len(delivered) \in 1 .. Len(delivered)
      BY <1>2, <2>4
    <3>. QED  BY <1>1, <1>2, <2>2, <2>4, <3>1 DEF Stream!MayFollow
  <2>. QED  BY <2>3, <2>4
<1>5. Phase = "Open" /\ Phase' \in {"Open", "Ended"}
  BY DEF NextEvent, Phase, IsFinished
<1>6. ASSUME Phase' = "Ended"  PROVE Stream!Complete(delivered')
  <2>1. inputFinished' /\ queue' = <<>>
    BY <1>6 DEF Phase, IsFinished
  <2>2. delivered' = Parsed' /\ Place(Parsed') = "AfterTransfer" /\ InOrder(Parsed')
    <3>1. Parsed' = delivered'
      BY <1>1, <2>1 DEF Parsed
    <3>. QED  BY <2>1, <3>1 DEF IInv, LinesOK, CallsOK
  <2>3. /\ delivered' # <<>> /\ Len(delivered') \in 1 .. Len(delivered')
        /\ PlaceOf[delivered'[Len(delivered')].kind] = "AfterTransfer"
    BY <1>1, <1>2, <1>3, <2>2 DEF Place
  <2>4. delivered'[Len(delivered')].kind \in DOMAIN PlaceOf
    BY <1>1, <2>2, <2>3, KindsInOrder
  <2>. QED  BY <2>3, <2>4 DEF PlaceOf, Stream!Complete
<1>. QED  BY <1>1, <1>3, <1>4, <1>5, <1>6 DEF Stream!Deliver

LEMMA FinishedDelivered ==
  ASSUME IInv, IsFinished
  PROVE  Stream!Complete(delivered)
<1>1. inputFinished /\ queue = <<>> /\ delivered \in Seq(AnyEvent)
  BY ReaderFacts DEF IsFinished
<1>2. Parsed = delivered
  BY <1>1 DEF Parsed
<1>3. Place(delivered) = "AfterTransfer" /\ InOrder(delivered)
  BY <1>1, <1>2 DEF IInv, LinesOK, CallsOK
<1>4. /\ delivered # <<>> /\ Len(delivered) \in 1 .. Len(delivered)
      /\ PlaceOf[delivered[Len(delivered)].kind] = "AfterTransfer"
  BY <1>1, <1>3 DEF Place
<1>5. delivered[Len(delivered)].kind \in DOMAIN PlaceOf
  BY <1>1, <1>3, <1>4, KindsInOrder
<1>. QED  BY <1>4, <1>5 DEF PlaceOf, Stream!Complete

\* The reader implements the event stream, as the XTF reader does: one transfer in the order of
\* the grammar, an end only after EndTransfer, and both the end and a failure for good.
THEOREM Refinement == Spec => ImplementsEventStream
<1>1. Init => Stream!StreamInit
  BY DEF Init, ReaderInit, Stream!StreamInit, Phase, IsFinished
<1>2. IInv' => (IsFinished => Stream!Complete(delivered))'
  <2>1. IInv => (IsFinished => Stream!Complete(delivered))
    BY FinishedDelivered
  <2>. QED  BY <2>1, PTL
<1>3. ASSUME IInv, IInv', [Next]_vars
      PROVE  [Stream!Next]_<<delivered, Phase>>
  <2>1. CASE Writing \/ UNCHANGED vars
    BY <2>1 DEF Writing, vars, readerVars, Phase, IsFinished
  <2>2. CASE Reading /\ NextEvent
    BY <1>3, <2>2, DeliversInOrder DEF Stream!Next
  <2>3. CASE Reading /\ ~NextEvent
    <3>1. delivered' = delivered
      BY <2>3 DEF Reading, ReaderNext, Feed, FeedOrFinishRefused, ConsumeLine, LineTooLong,
         LinesDone, Finish, FinishTail, NextNoEvent
    <3>2. Stream!Complete(delivered) \/ ~IsFinished'
      <4>1. (IsFinished => Stream!Complete(delivered))'
        BY <1>3, <1>2
      <4>. QED  BY <3>1, <4>1 DEF Stream!Complete
    <3>3. CASE Phase = "Open"
      <4>1. Phase' \in {"Open", "Failed"} \/ (Phase' = "Ended" /\ Stream!Complete(delivered))
        BY <3>2 DEF Phase
      <4>. QED  BY <3>1, <3>3, <4>1 DEF Stream!Next, Stream!End, Stream!Fail
    <3>4. CASE Phase = "Ended"
      <4>1. inputFinished /\ queue = <<>> /\ pc # "Lines" /\ readerState = "AfterTransfer"
        BY <1>3, <3>4 DEF Phase, IsFinished, IInv, CallsOK
      <4>2. FeedOrFinishRefused \/ NextNoEvent
        BY <2>3, <4>1 DEF Reading, ReaderNext, Feed, ConsumeLine, LineTooLong, LinesDone, Finish,
           FinishTail, Refused
      <4>3. inputFinished' /\ queue' = <<>> /\ readerState' = "AfterTransfer"
        BY <4>1, <4>2 DEF FeedOrFinishRefused, NextNoEvent
      <4>. QED  BY <3>1, <3>4, <4>3 DEF Phase, IsFinished
    <3>5. CASE Phase = "Failed"
      <4>1. readerState = "Failed" /\ queue = <<>> /\ pc # "Lines" /\ ~inputFinished
        BY <1>3, <3>5 DEF Phase, IsFinished, IInv, CallsOK
      <4>2. FeedOrFinishRefused \/ NextNoEvent
        BY <2>3, <4>1 DEF Reading, ReaderNext, Feed, ConsumeLine, LineTooLong, LinesDone, Finish,
           FinishTail, Refused
      <4>3. UNCHANGED <<readerState, queue, inputFinished>> /\ reply' # "Event"
        BY <4>1, <4>2 DEF FeedOrFinishRefused, NextNoEvent
      <4>. QED  BY <3>1, <3>5, <4>1, <4>3 DEF Phase, IsFinished
    <3>. QED  BY <3>3, <3>4, <3>5 DEF Phase
  <2>. QED  BY <1>3, <2>1, <2>2, <2>3 DEF Next
<1>4. IInv /\ IInv' /\ [Next]_vars => [Stream!Next]_Stream!streamVars
  BY <1>3 DEF Stream!streamVars
<1>. QED  BY <1>1, <1>4, IInvHolds, PTL DEF Spec, ImplementsEventStream, Stream!Spec
=============================================================================
