--------------------------- MODULE XtfReader_proofs ---------------------------
(***************************************************************************)
(* Theorems about the XTF reader, for every document, chunking and limit.  *)
(*                                                                         *)
(* First, what the reader relies on in its two dialects: whatever a        *)
(* callback returns without throwing keeps the dialect well-formed, and    *)
(* emits no event but the one that takes the transfer from the place of    *)
(* the old state to the place of the new one.                              *)
(*                                                                         *)
(* The steps inside a call into Expat are then taken together: whatever    *)
(* such a step is, it keeps the types, keeps the dialect in step with the  *)
(* coordinator, and queues at most one event, which fits the grammar       *)
(* (ParserStep).  The invariants need one case for all of them.            *)
(***************************************************************************)
EXTENDS XtfReader, SequenceTheorems, TLAPS

-----------------------------------------------------------------------------
(* The dialects *)


DialectOK(d) ==
  /\ d \in Dialect
  /\ d.state # "Failed"
  /\ d.captureKind = "Header" <=> d.state = "CapturingHeader"
  /\ d.captureKind = "Attribute" => d.state = "InObject"

Moves ==
  { <<"BeforeTransfer", "StartTransfer", "InTransfer">>,
    <<"InTransfer", "StartBasket", "InBasket">>,
    <<"InBasket", "Object", "InBasket">>,
    <<"InBasket", "EndBasket", "InTransfer">>,
    <<"InTransfer", "EndTransfer", "AfterTransfer">> }

ResultOK(d, r) ==
  /\ r \in Result
  /\ ~r.thrown =>
       /\ DialectOK(r.dialect)
       /\ r.emit = <<>> => Position(r.dialect.state) = Position(d.state)
       /\ r.emit # <<>> =>
            <<Position(d.state), Head(r.emit).kind, Position(r.dialect.state)>> \in Moves

\* A callback that throws returns a result.
LEMMA ThrownOK ==
  ASSUME NEW d \in Dialect
  PROVE  ResultOK(d, Thrown(d))
<1>1. [d EXCEPT !.state = "Failed"] \in Dialect
  BY DEF Dialect, DialectState
<1>2. Thrown(d) \in Result
  BY <1>1 DEF Thrown, Result
<1>. QED  BY <1>2 DEF ResultOK, Thrown

\* A callback that emits nothing stays at its place.
LEMMA QuietOK ==
  ASSUME NEW d, NEW c, DialectOK(c), Position(c.state) = Position(d.state)
  PROVE  ResultOK(d, Quiet(c))
<1>1. Quiet(c) \in Result
  BY DEF Quiet, Result, DialectOK
<1>. QED  BY <1>1 DEF ResultOK, Quiet

\* A callback that emits an event moves with it.
LEMMA EmitsOK ==
  ASSUME NEW d, NEW c, NEW kind, NEW id \in STRING, DialectOK(c),
         <<Position(d.state), kind, Position(c.state)>> \in Moves
  PROVE  ResultOK(d, Emits(c, kind, id))
<1>1. kind \in EventKind
  BY DEF Moves, EventKind
<1>2. <<[kind |-> kind, id |-> id]>> \in Seq(Event)
  BY <1>1 DEF Event
<1>3. Emits(c, kind, id) \in Result
  BY <1>2 DEF Emits, Result, DialectOK
<1>. QED  BY <1>3 DEF ResultOK, Emits

\* The two instances of the vocabulary are the reader's own.
LEMMA SameVocabulary ==
  /\ \A d : V23!Thrown(d) = Thrown(d) /\ V24!Thrown(d) = Thrown(d)
  /\ \A d, r : V23!Fails(d, r) = Fails(d, r) /\ V24!Fails(d, r) = Fails(d, r)
  /\ \A d : V23!Quiet(d) = Quiet(d) /\ V24!Quiet(d) = Quiet(d)
  /\ \A d, k, i : V23!Emits(d, k, i) = Emits(d, k, i) /\ V24!Emits(d, k, i) = Emits(d, k, i)
  /\ \A d : V23!Innermost(d) = Innermost(d) /\ V24!Innermost(d) = Innermost(d)
  BY DEF V23!Thrown, V24!Thrown, Thrown, V23!Fails, V24!Fails, Fails, V23!Quiet, V24!Quiet, Quiet,
     V23!Emits, V24!Emits, Emits, V23!Innermost, V24!Innermost, Innermost

\* Diagnostics change nothing else.
LEMMA DiagnosedOK ==
  ASSUME NEW d \in Dialect, NEW r, ResultOK(d, r), NEW x \in Seq(Report)
  PROVE  ResultOK(d, [r EXCEPT !.diagnostics = x])
<1>. DEFINE s == [r EXCEPT !.diagnostics = x]
<1>1. s \in Result /\ s.thrown = r.thrown /\ s.dialect = r.dialect /\ s.emit = r.emit
  BY DEF ResultOK, Result
<1>. QED  BY <1>1 DEF ResultOK

\* A callback that throws after it has reported.
LEMMA FailsOK ==
  ASSUME NEW d \in Dialect, NEW r, ResultOK(d, r)
  PROVE  ResultOK(d, Fails(d, r))
<1>1. r.diagnostics \in Seq(Report)
  BY DEF ResultOK, Result
<1>. QED  BY <1>1, ThrownOK, DiagnosedOK DEF Fails

LEMMA ReportType ==
  ASSUME NEW e \in Element, NEW severities \in SUBSET Severity
  PROVE  <<[about |-> e.local, severities |-> severities]>> \in Seq(Report)
<1>1. [about |-> e.local, severities |-> severities] \in Report
  BY DEF Report, Element
<1>. QED  BY <1>1

LEMMA ReportedOK ==
  ASSUME NEW d \in Dialect, NEW r, ResultOK(d, r), NEW e \in Element, NEW faults
  PROVE  /\ ResultOK(d, V24!Reported(d, r, e, faults))
         /\ ResultOK(d, V23!Reported(d, r, e, faults))
<1>1. ResultOK(d, V23!Thrown(d)) /\ ResultOK(d, V24!Thrown(d))
  BY ThrownOK, SameVocabulary
<1>2. <<>> \in Seq(Report)
  OBVIOUS
<1>3. \A x, p : V23!Reports(e, x, p) \in Seq(Report)
  BY <1>2, ReportType DEF V23!Reports, Severity
<1>4. \A x, p : V24!Reports(e, x, p) \in Seq(Report)
  BY <1>2, ReportType DEF V24!Reports, Severity
<1>. QED  BY <1>1, <1>3, <1>4, DiagnosedOK DEF V24!Reported, V23!Reported

\* Text is put down to the element that is open.
LEMMA TextTakenOK ==
  ASSUME NEW d, DialectOK(d)
  PROVE  ResultOK(d, Quiet([d EXCEPT !.texts = d.texts \cup Innermost(d)]))
<1>. DEFINE c == [d EXCEPT !.texts = d.texts \cup Innermost(d)]
<1>1. d \in Dialect /\ d.captured \in Seq(Captured) /\ d.texts \in SUBSET Nat
  BY DEF DialectOK, Dialect
<1>2. DOMAIN d.captured \subseteq Nat
  BY <1>1
<1>3. d.texts \cup Innermost(d) \in SUBSET Nat
  BY <1>1, <1>2 DEF Innermost
<1>4. c \in Dialect
  BY <1>1, <1>3 DEF Dialect
<1>5. c.state = d.state /\ c.captureKind = d.captureKind
  BY <1>1 DEF Dialect
<1>. QED  BY <1>4, <1>5, QuietOK DEF DialectOK

-----------------------------------------------------------------------------
(* The callbacks of XTF 2.3 *)

LEMMA CaptureStart23 ==
  ASSUME NEW d, DialectOK(d), NEW e \in Element
  PROVE  ResultOK(d, V23!CaptureStart(d, e))
<1>. DEFINE y == Append(d.captured, [depth |-> Len(d.nodes), element |-> e])
            c == [d EXCEPT !.nodes = <<e>> \o d.nodes, !.captured = y]
<1>1. d.nodes \in Seq(Element) /\ d.captured \in Seq(Captured)
  BY DEF DialectOK, Dialect
<1>2. [depth |-> Len(d.nodes), element |-> e] \in Captured
  BY <1>1 DEF Captured
<1>3. y \in Seq(Captured)
  BY <1>1, <1>2
<1>4. <<e>> \o d.nodes \in Seq(Element)
  BY <1>1
<1>5. DialectOK(c) /\ c.state = d.state
  <2>1. c \in Dialect
    BY <1>3, <1>4 DEF DialectOK, Dialect
  <2>. QED  BY <2>1 DEF DialectOK, Dialect
<1>. QED  BY <1>5, QuietOK, SameVocabulary DEF V23!CaptureStart

LEMMA BeginCapture23 ==
  ASSUME NEW d, d \in Dialect, NEW e \in Element, NEW k \in CaptureKind,
         d.state # "Failed",
         k = "Header" <=> d.state = "CapturingHeader",
         k = "Attribute" => d.state = "InObject"
  PROVE  /\ DialectOK(V23!BeginCapture(d, k, e))
         /\ V23!BeginCapture(d, k, e).state = d.state
<1>1. <<e>> \in Seq(Element)
  OBVIOUS
<1>2. V23!BeginCapture(d, k, e) \in Dialect
  BY <1>1 DEF V23!BeginCapture, Dialect
<1>. QED  BY <1>2 DEF V23!BeginCapture, DialectOK, Dialect

LEMMA ParseHeader23 ==
  ASSUME NEW d, DialectOK([d EXCEPT !.state = "ExpectData"]), d \in Dialect,
         d.state = "CapturingHeader", NEW h \in Element, NEW s, NEW texts
  PROVE  ResultOK(d, V23!ParseHeader(d, h, s, texts))
<1>. DEFINE c == [d EXCEPT !.state = "ExpectData"]
<1>1. c.state = "ExpectData"
  BY DEF Dialect
<1>2. <<Position(d.state), "StartTransfer", Position(c.state)>> \in Moves
  BY <1>1 DEF Position, Moves
<1>3. ResultOK(d, V23!Emits(c, "StartTransfer", h.local))
  BY <1>2, EmitsOK, SameVocabulary DEF Element
<1>4. \A x : /\ ResultOK(d, V23!Reported(d, V23!Emits(c, "StartTransfer", h.local), h, x))
             /\ ResultOK(d, V23!Fails(d, V23!Reported(d, V23!Emits(c, "StartTransfer", h.local),
                                                     h, x)))
  BY <1>3, ReportedOK, FailsOK, SameVocabulary
<1>. QED  BY <1>4 DEF V23!ParseHeader

LEMMA FinishAttribute23 ==
  ASSUME NEW d, DialectOK(d), NEW h \in Element, NEW s, NEW texts
  PROVE  ResultOK(d, V23!FinishAttribute(d, h, s, texts))
<1>1. ResultOK(d, V23!Thrown(d)) /\ ResultOK(d, V23!Quiet(d)) /\ d \in Dialect
  BY ThrownOK, QuietOK, SameVocabulary DEF DialectOK
<1>. QED  BY <1>1, ReportedOK DEF V23!FinishAttribute

LEMMA FinishCapture23 ==
  ASSUME NEW d, DialectOK(d), d.captureKind # "None", NEW e \in Element
  PROVE  ResultOK(d, V23!FinishCapture(d, e))
<1>. DEFINE closed == [d EXCEPT !.nodes = <<>>, !.captured = <<>>, !.texts = {},
                                !.captureKind = "None"]
            mismatch == d.nodes = <<>> \/ ~V23!SameName(Head(d.nodes), e)
<1>1. d.nodes \in Seq(Element) /\ d \in Dialect
  BY DEF DialectOK, Dialect
<1>2. CASE mismatch
  BY <1>1, <1>2, ThrownOK, SameVocabulary DEF V23!FinishCapture
<1>3. CASE ~mismatch /\ Tail(d.nodes) # <<>>
  <2>. DEFINE c == [d EXCEPT !.nodes = Tail(d.nodes)]
  <2>1. Tail(d.nodes) \in Seq(Element)
    BY <1>1, <1>3
  <2>2. c \in Dialect /\ c.state = d.state /\ c.captureKind = d.captureKind
    <3>1. c \in Dialect
      BY <1>1, <2>1 DEF Dialect
    <3>. QED  BY <3>1, <1>1 DEF Dialect
  <2>3. DialectOK(c)
    BY <2>2 DEF DialectOK
  <2>4. V23!FinishCapture(d, e) = Quiet(c)
    BY <1>3, SameVocabulary DEF V23!FinishCapture
  <2>. QED  BY <2>2, <2>3, <2>4, QuietOK
<1>4. CASE ~mismatch /\ Tail(d.nodes) = <<>>
  <2>1. Head(d.nodes) \in Element
    BY <1>1, <1>4
  <2>2. closed \in Dialect
    <3>1. <<>> \in Seq(Element) /\ <<>> \in Seq(Captured) /\ {} \in SUBSET Nat
          /\ "None" \in CaptureKind
      BY DEF CaptureKind
    <3>. QED  BY <3>1, <1>1 DEF Dialect
  <2>3. closed.state = d.state /\ closed.captureKind = "None" /\ closed.object = d.object
    BY <1>1 DEF Dialect
  <2>4. CASE d.captureKind = "Header"
    <3>. DEFINE c == [closed EXCEPT !.state = "ExpectData"]
    <3>1. c \in Dialect
      BY <2>2 DEF Dialect, DialectState
    <3>2. c.state = "ExpectData" /\ c.captureKind = "None"
      BY <2>2, <2>3 DEF Dialect
    <3>3. DialectOK(c) /\ closed.state = "CapturingHeader"
      BY <3>1, <3>2, <2>3, <2>4 DEF DialectOK
    <3>4. ResultOK(closed, V23!ParseHeader(closed, Head(d.nodes), d.captured, d.texts))
      BY <2>1, <2>2, <3>3, ParseHeader23
    <3>5. ResultOK(d, V23!ParseHeader(closed, Head(d.nodes), d.captured, d.texts))
      BY <3>4, <2>3 DEF ResultOK
    <3>. QED  BY <1>4, <2>4, <3>5 DEF V23!FinishCapture
  <2>5. CASE d.captureKind # "Header"
    <3>1. DialectOK(closed)
      BY <2>2, <2>3, <2>5 DEF DialectOK
    <3>2. ResultOK(closed, V23!FinishAttribute(closed, Head(d.nodes), d.captured, d.texts))
      BY <3>1, <2>1, FinishAttribute23
    <3>3. ResultOK(d, V23!FinishAttribute(closed, Head(d.nodes), d.captured, d.texts))
      BY <3>2, <2>3 DEF ResultOK
    <3>. QED  BY <1>4, <2>5, <3>3 DEF V23!FinishCapture
  <2>. QED  BY <2>4, <2>5
<1>. QED  BY <1>2, <1>3, <1>4

LEMMA BeginBasket23 ==
  ASSUME NEW d, DialectOK(d), d.state = "InData", NEW e \in Element
  PROVE  ResultOK(d, V23!BeginBasket(d, e))
<1>. DEFINE c == [d EXCEPT !.state = "InBasket", !.basket = <<e>>]
<1>1. d \in Dialect /\ <<e>> \in Seq(Element)
  BY DEF DialectOK
<1>2. c \in Dialect
  BY <1>1 DEF Dialect, DialectState
<1>3. c.state = "InBasket" /\ c.captureKind = d.captureKind
  BY <1>1 DEF Dialect
<1>4. DialectOK(c)
  BY <1>2, <1>3 DEF DialectOK
<1>5. <<Position(d.state), "StartBasket", Position(c.state)>> \in Moves
  BY <1>3 DEF Position, Moves
<1>6. ResultOK(d, V23!Emits(c, "StartBasket", e.local))
  BY <1>4, <1>5, EmitsOK, SameVocabulary DEF Element
<1>7. ResultOK(d, V23!Thrown(d))
  BY <1>1, ThrownOK, SameVocabulary
<1>. QED  BY <1>1, <1>6, <1>7, ReportedOK DEF V23!BeginBasket

LEMMA BeginObject23 ==
  ASSUME NEW d, DialectOK(d), d.state = "InBasket", NEW e \in Element
  PROVE  ResultOK(d, V23!BeginObject(d, e))
<1>. DEFINE c == [d EXCEPT !.state = "InObject", !.object = <<e>>]
<1>1. d \in Dialect /\ <<e>> \in Seq(Element)
  BY DEF DialectOK
<1>2. c \in Dialect
  BY <1>1 DEF Dialect, DialectState
<1>3. c.state = "InObject" /\ c.captureKind = d.captureKind
  BY <1>1 DEF Dialect
<1>4. DialectOK(c)
  BY <1>2, <1>3 DEF DialectOK
<1>5. Position(c.state) = Position(d.state)
  BY <1>3 DEF Position
<1>6. ResultOK(d, V23!Quiet(c))
  BY <1>4, <1>5, QuietOK, SameVocabulary
<1>7. ResultOK(d, V23!Thrown(d))
  BY <1>1, ThrownOK, SameVocabulary
<1>. QED  BY <1>1, <1>6, <1>7, ReportedOK DEF V23!BeginObject

LEMMA OnStartElement23 ==
  ASSUME NEW d, DialectOK(d), NEW e \in Element
  PROVE  ResultOK(d, V23!OnStartElement(d, e))
<1>1. d \in Dialect /\ ResultOK(d, V23!Thrown(d))
  BY ThrownOK, SameVocabulary DEF DialectOK
<1>2. CASE d.captureKind # "None"
  BY <1>2, CaptureStart23 DEF V23!OnStartElement
<1>3. CASE d.captureKind = "None" /\ d.state = "ExpectHeader"
  <2>. DEFINE h == [d EXCEPT !.state = "CapturingHeader"]
              c == V23!BeginCapture(h, "Header", e)
  <2>1. h \in Dialect /\ h.state = "CapturingHeader"
    BY <1>1 DEF Dialect, DialectState
  <2>2. DialectOK(c) /\ c.state = "CapturingHeader"
    BY <2>1, BeginCapture23 DEF CaptureKind
  <2>3. Position(c.state) = Position(d.state)
    BY <1>3, <2>2 DEF Position
  <2>4. ResultOK(d, V23!Quiet(c))
    BY <2>2, <2>3, QuietOK, SameVocabulary
  <2>. QED  BY <1>1, <1>3, <2>4 DEF V23!OnStartElement
<1>4. CASE d.captureKind = "None" /\ d.state = "ExpectData"
  <2>. DEFINE c == [d EXCEPT !.state = "InData"]
  <2>1. c \in Dialect
    BY <1>1 DEF Dialect, DialectState
  <2>2. c.state = "InData" /\ c.captureKind = "None"
    BY <1>1, <1>4 DEF Dialect
  <2>3. DialectOK(c) /\ Position(c.state) = Position(d.state)
    BY <1>4, <2>1, <2>2 DEF DialectOK, Position
  <2>4. ResultOK(d, V23!Quiet(c))
    BY <2>3, QuietOK, SameVocabulary
  <2>. QED  BY <1>1, <1>4, <2>4 DEF V23!OnStartElement
<1>5. CASE d.captureKind = "None" /\ d.state = "InData"
  BY <1>5, BeginBasket23 DEF V23!OnStartElement
<1>6. CASE d.captureKind = "None" /\ d.state = "InBasket"
  BY <1>6, BeginObject23 DEF V23!OnStartElement
<1>7. CASE d.captureKind = "None" /\ d.state = "InObject"
  <2>. DEFINE c == V23!BeginCapture(d, "Attribute", e)
  <2>1. DialectOK(c) /\ c.state = d.state
    BY <1>1, <1>7, BeginCapture23 DEF CaptureKind
  <2>2. ResultOK(d, V23!Quiet(c))
    BY <2>1, QuietOK, SameVocabulary
  <2>. QED  BY <1>7, <2>2 DEF V23!OnStartElement
<1>8. CASE /\ d.captureKind = "None"
           /\ d.state \notin {"ExpectHeader", "ExpectData", "InData", "InBasket", "InObject"}
  BY <1>1, <1>8 DEF V23!OnStartElement
<1>. QED  BY <1>2, <1>3, <1>4, <1>5, <1>6, <1>7, <1>8

LEMMA OnEndElement23 ==
  ASSUME NEW d, DialectOK(d), NEW e \in Element
  PROVE  ResultOK(d, V23!OnEndElement(d, e))
<1>1. d \in Dialect /\ ResultOK(d, V23!Thrown(d)) /\ <<>> \in Seq(Element)
  BY ThrownOK, SameVocabulary DEF DialectOK
<1>2. CASE d.captureKind # "None"
  BY <1>2, FinishCapture23 DEF V23!OnEndElement
<1>3. CASE d.captureKind = "None" /\ d.state = "InObject"
  <2>. DEFINE c == [d EXCEPT !.state = "InBasket", !.object = <<>>]
  <2>1. c \in Dialect
    BY <1>1 DEF Dialect, DialectState
  <2>2. c.state = "InBasket" /\ c.captureKind = "None"
    BY <1>1, <1>3 DEF Dialect
  <2>3. DialectOK(c) /\ <<Position(d.state), "Object", Position(c.state)>> \in Moves
    BY <1>3, <2>1, <2>2 DEF DialectOK, Position, Moves
  <2>4. ResultOK(d, V23!Emits(c, "Object", e.local))
    BY <2>3, EmitsOK, SameVocabulary DEF Element
  <2>. QED  BY <1>1, <1>3, <2>4 DEF V23!OnEndElement
<1>4. CASE d.captureKind = "None" /\ d.state = "InBasket"
  <2>. DEFINE c == [d EXCEPT !.state = "InData", !.basket = <<>>]
  <2>1. c \in Dialect
    BY <1>1 DEF Dialect, DialectState
  <2>2. c.state = "InData" /\ c.captureKind = "None"
    BY <1>1, <1>4 DEF Dialect
  <2>3. DialectOK(c) /\ <<Position(d.state), "EndBasket", Position(c.state)>> \in Moves
    BY <1>4, <2>1, <2>2 DEF DialectOK, Position, Moves
  <2>4. ResultOK(d, V23!Emits(c, "EndBasket", e.local))
    BY <2>3, EmitsOK, SameVocabulary DEF Element
  <2>. QED  BY <1>1, <1>4, <2>4 DEF V23!OnEndElement
<1>5. CASE d.captureKind = "None" /\ d.state = "InData"
  <2>. DEFINE c == [d EXCEPT !.state = "AfterData"]
  <2>1. c \in Dialect
    BY <1>1 DEF Dialect, DialectState
  <2>2. c.state = "AfterData" /\ c.captureKind = "None"
    BY <1>1, <1>5 DEF Dialect
  <2>3. DialectOK(c) /\ Position(c.state) = Position(d.state)
    BY <1>5, <2>1, <2>2 DEF DialectOK, Position
  <2>4. ResultOK(d, V23!Quiet(c))
    BY <2>3, QuietOK, SameVocabulary
  <2>. QED  BY <1>1, <1>5, <2>4 DEF V23!OnEndElement
<1>6. CASE d.captureKind = "None" /\ d.state \notin {"InData", "InBasket", "InObject"}
  BY <1>1, <1>6 DEF V23!OnEndElement
<1>. QED  BY <1>2, <1>3, <1>4, <1>5, <1>6

LEMMA OnText23 ==
  ASSUME NEW d, DialectOK(d)
  PROVE  ResultOK(d, V23!OnText(d))
<1>1. ResultOK(d, V23!Thrown(d))
  BY ThrownOK, SameVocabulary DEF DialectOK
<1>2. ResultOK(d, V23!Quiet([d EXCEPT !.texts = d.texts \cup V23!Innermost(d)]))
  BY TextTakenOK, SameVocabulary
<1>. QED  BY <1>1, <1>2 DEF V23!OnText

LEMMA OnRootClosed23 ==
  ASSUME NEW d, DialectOK(d), NEW e \in Element
  PROVE  ResultOK(d, V23!OnRootClosed(d, e))
<1>1. d \in Dialect /\ ResultOK(d, V23!Thrown(d))
  BY ThrownOK, SameVocabulary DEF DialectOK
<1>2. CASE d.state # "AfterData"
  BY <1>1, <1>2 DEF V23!OnRootClosed
<1>3. CASE d.state = "AfterData"
  <2>. DEFINE c == [d EXCEPT !.state = "Done"]
  <2>1. c \in Dialect
    BY <1>1 DEF Dialect, DialectState
  <2>2. c.state = "Done" /\ c.captureKind = d.captureKind
    BY <1>1 DEF Dialect
  <2>3. DialectOK(c) /\ <<Position(d.state), "EndTransfer", Position(c.state)>> \in Moves
    BY <1>3, <2>1, <2>2 DEF DialectOK, Position, Moves
  <2>4. ResultOK(d, V23!Emits(c, "EndTransfer", e.local))
    BY <2>3, EmitsOK, SameVocabulary DEF Element
  <2>. QED  BY <1>3, <2>4 DEF V23!OnRootClosed
<1>. QED  BY <1>2, <1>3

-----------------------------------------------------------------------------
(* The callbacks of XTF 2.4 *)

LEMMA CaptureStart24 ==
  ASSUME NEW d, DialectOK(d), NEW e \in Element
  PROVE  ResultOK(d, V24!CaptureStart(d, e))
<1>. DEFINE y == Append(d.captured, [depth |-> Len(d.nodes), element |-> e])
            c == [d EXCEPT !.nodes = <<e>> \o d.nodes, !.captured = y]
<1>1. d.nodes \in Seq(Element) /\ d.captured \in Seq(Captured)
  BY DEF DialectOK, Dialect
<1>2. [depth |-> Len(d.nodes), element |-> e] \in Captured
  BY <1>1 DEF Captured
<1>3. y \in Seq(Captured)
  BY <1>1, <1>2
<1>4. <<e>> \o d.nodes \in Seq(Element)
  BY <1>1
<1>5. DialectOK(c) /\ c.state = d.state
  <2>1. c \in Dialect
    BY <1>3, <1>4 DEF DialectOK, Dialect
  <2>. QED  BY <2>1 DEF DialectOK, Dialect
<1>. QED  BY <1>5, QuietOK, SameVocabulary DEF V24!CaptureStart

LEMMA BeginCapture24 ==
  ASSUME NEW d, d \in Dialect, NEW e \in Element, NEW k \in CaptureKind,
         d.state # "Failed",
         k = "Header" <=> d.state = "CapturingHeader",
         k = "Attribute" => d.state = "InObject"
  PROVE  /\ DialectOK(V24!BeginCapture(d, k, e))
         /\ V24!BeginCapture(d, k, e).state = d.state
<1>1. <<e>> \in Seq(Element)
  OBVIOUS
<1>2. V24!BeginCapture(d, k, e) \in Dialect
  BY <1>1 DEF V24!BeginCapture, Dialect
<1>. QED  BY <1>2 DEF V24!BeginCapture, DialectOK, Dialect

LEMMA ParseHeader24 ==
  ASSUME NEW d, DialectOK([d EXCEPT !.state = "ExpectData"]), d \in Dialect,
         d.state = "CapturingHeader", NEW h \in Element, NEW s, NEW texts
  PROVE  ResultOK(d, V24!ParseHeader(d, h, s, texts))
<1>. DEFINE c == [d EXCEPT !.state = "ExpectData"]
<1>1. c.state = "ExpectData"
  BY DEF Dialect
<1>2. <<Position(d.state), "StartTransfer", Position(c.state)>> \in Moves
  BY <1>1 DEF Position, Moves
<1>3. ResultOK(d, V24!Emits(c, "StartTransfer", h.local))
  BY <1>2, EmitsOK, SameVocabulary DEF Element
<1>4. \A x : /\ ResultOK(d, V24!Reported(d, V24!Emits(c, "StartTransfer", h.local), h, x))
             /\ ResultOK(d, V24!Fails(d, V24!Reported(d, V24!Emits(c, "StartTransfer", h.local),
                                                     h, x)))
  BY <1>3, ReportedOK, FailsOK, SameVocabulary
<1>. QED  BY <1>4 DEF V24!ParseHeader

LEMMA FinishAttribute24 ==
  ASSUME NEW d, DialectOK(d), NEW h \in Element, NEW s, NEW texts
  PROVE  ResultOK(d, V24!FinishAttribute(d, h, s, texts))
<1>1. ResultOK(d, V24!Thrown(d)) /\ ResultOK(d, V24!Quiet(d)) /\ d \in Dialect
  BY ThrownOK, QuietOK, SameVocabulary DEF DialectOK
<1>. QED  BY <1>1, ReportedOK DEF V24!FinishAttribute

LEMMA FinishCapture24 ==
  ASSUME NEW d, DialectOK(d), d.captureKind # "None", NEW e \in Element
  PROVE  ResultOK(d, V24!FinishCapture(d, e))
<1>. DEFINE closed == [d EXCEPT !.nodes = <<>>, !.captured = <<>>, !.texts = {},
                                !.captureKind = "None"]
            mismatch == d.nodes = <<>> \/ ~V24!SameName(Head(d.nodes), e)
<1>1. d.nodes \in Seq(Element) /\ d \in Dialect
  BY DEF DialectOK, Dialect
<1>2. CASE mismatch
  BY <1>1, <1>2, ThrownOK, SameVocabulary DEF V24!FinishCapture
<1>3. CASE ~mismatch /\ Tail(d.nodes) # <<>>
  <2>. DEFINE c == [d EXCEPT !.nodes = Tail(d.nodes)]
  <2>1. Tail(d.nodes) \in Seq(Element)
    BY <1>1, <1>3
  <2>2. c \in Dialect /\ c.state = d.state /\ c.captureKind = d.captureKind
    <3>1. c \in Dialect
      BY <1>1, <2>1 DEF Dialect
    <3>. QED  BY <3>1, <1>1 DEF Dialect
  <2>3. DialectOK(c)
    BY <2>2 DEF DialectOK
  <2>4. V24!FinishCapture(d, e) = Quiet(c)
    BY <1>3, SameVocabulary DEF V24!FinishCapture
  <2>. QED  BY <2>2, <2>3, <2>4, QuietOK
<1>4. CASE ~mismatch /\ Tail(d.nodes) = <<>>
  <2>1. Head(d.nodes) \in Element
    BY <1>1, <1>4
  <2>2. closed \in Dialect
    <3>1. <<>> \in Seq(Element) /\ <<>> \in Seq(Captured) /\ {} \in SUBSET Nat
          /\ "None" \in CaptureKind
      BY DEF CaptureKind
    <3>. QED  BY <3>1, <1>1 DEF Dialect
  <2>3. closed.state = d.state /\ closed.captureKind = "None" /\ closed.object = d.object
    BY <1>1 DEF Dialect
  <2>4. CASE d.captureKind = "Header"
    <3>. DEFINE c == [closed EXCEPT !.state = "ExpectData"]
    <3>1. c \in Dialect
      BY <2>2 DEF Dialect, DialectState
    <3>2. c.state = "ExpectData" /\ c.captureKind = "None"
      BY <2>2, <2>3 DEF Dialect
    <3>3. DialectOK(c) /\ closed.state = "CapturingHeader"
      BY <3>1, <3>2, <2>3, <2>4 DEF DialectOK
    <3>4. ResultOK(closed, V24!ParseHeader(closed, Head(d.nodes), d.captured, d.texts))
      BY <2>1, <2>2, <3>3, ParseHeader24
    <3>5. ResultOK(d, V24!ParseHeader(closed, Head(d.nodes), d.captured, d.texts))
      BY <3>4, <2>3 DEF ResultOK
    <3>. QED  BY <1>4, <2>4, <3>5 DEF V24!FinishCapture
  <2>5. CASE d.captureKind # "Header"
    <3>1. DialectOK(closed)
      BY <2>2, <2>3, <2>5 DEF DialectOK
    <3>2. ResultOK(closed, V24!FinishAttribute(closed, Head(d.nodes), d.captured, d.texts))
      BY <3>1, <2>1, FinishAttribute24
    <3>3. ResultOK(d, V24!FinishAttribute(closed, Head(d.nodes), d.captured, d.texts))
      BY <3>2, <2>3 DEF ResultOK
    <3>. QED  BY <1>4, <2>5, <3>3 DEF V24!FinishCapture
  <2>. QED  BY <2>4, <2>5
<1>. QED  BY <1>2, <1>3, <1>4

LEMMA BeginBasket24 ==
  ASSUME NEW d, DialectOK(d), d.state = "InData", NEW e \in Element
  PROVE  ResultOK(d, V24!BeginBasket(d, e))
<1>. DEFINE c == [d EXCEPT !.state = "InBasket", !.basket = <<e>>]
<1>1. d \in Dialect /\ <<e>> \in Seq(Element)
  BY DEF DialectOK
<1>2. c \in Dialect
  BY <1>1 DEF Dialect, DialectState
<1>3. c.state = "InBasket" /\ c.captureKind = d.captureKind
  BY <1>1 DEF Dialect
<1>4. DialectOK(c)
  BY <1>2, <1>3 DEF DialectOK
<1>5. <<Position(d.state), "StartBasket", Position(c.state)>> \in Moves
  BY <1>3 DEF Position, Moves
<1>6. ResultOK(d, V24!Emits(c, "StartBasket", e.local))
  BY <1>4, <1>5, EmitsOK, SameVocabulary DEF Element
<1>7. ResultOK(d, V24!Thrown(d))
  BY <1>1, ThrownOK, SameVocabulary
<1>. QED  BY <1>1, <1>6, <1>7, ReportedOK DEF V24!BeginBasket

LEMMA BeginObject24 ==
  ASSUME NEW d, DialectOK(d), d.state = "InBasket", NEW e \in Element
  PROVE  ResultOK(d, V24!BeginObject(d, e))
<1>. DEFINE c == [d EXCEPT !.state = "InObject", !.object = <<e>>]
<1>1. d \in Dialect /\ <<e>> \in Seq(Element)
  BY DEF DialectOK
<1>2. c \in Dialect
  BY <1>1 DEF Dialect, DialectState
<1>3. c.state = "InObject" /\ c.captureKind = d.captureKind
  BY <1>1 DEF Dialect
<1>4. DialectOK(c)
  BY <1>2, <1>3 DEF DialectOK
<1>5. Position(c.state) = Position(d.state)
  BY <1>3 DEF Position
<1>6. ResultOK(d, V24!Quiet(c))
  BY <1>4, <1>5, QuietOK, SameVocabulary
<1>7. ResultOK(d, V24!Thrown(d))
  BY <1>1, ThrownOK, SameVocabulary
<1>. QED  BY <1>1, <1>6, <1>7, ReportedOK DEF V24!BeginObject

LEMMA OnStartElement24 ==
  ASSUME NEW d, DialectOK(d), NEW e \in Element
  PROVE  ResultOK(d, V24!OnStartElement(d, e))
<1>1. d \in Dialect /\ ResultOK(d, V24!Thrown(d))
  BY ThrownOK, SameVocabulary DEF DialectOK
<1>2. CASE d.captureKind # "None"
  BY <1>2, CaptureStart24 DEF V24!OnStartElement
<1>3. CASE d.captureKind = "None" /\ d.state = "ExpectHeader"
  <2>. DEFINE h == [d EXCEPT !.state = "CapturingHeader"]
              c == V24!BeginCapture(h, "Header", e)
  <2>1. h \in Dialect /\ h.state = "CapturingHeader"
    BY <1>1 DEF Dialect, DialectState
  <2>2. DialectOK(c) /\ c.state = "CapturingHeader"
    BY <2>1, BeginCapture24 DEF CaptureKind
  <2>3. Position(c.state) = Position(d.state)
    BY <1>3, <2>2 DEF Position
  <2>4. ResultOK(d, V24!Quiet(c))
    BY <2>2, <2>3, QuietOK, SameVocabulary
  <2>. QED  BY <1>1, <1>3, <2>4 DEF V24!OnStartElement
<1>4. CASE d.captureKind = "None" /\ d.state = "ExpectData"
  <2>. DEFINE c == [d EXCEPT !.state = "InData"]
  <2>1. c \in Dialect
    BY <1>1 DEF Dialect, DialectState
  <2>2. c.state = "InData" /\ c.captureKind = "None"
    BY <1>1, <1>4 DEF Dialect
  <2>3. DialectOK(c) /\ Position(c.state) = Position(d.state)
    BY <1>4, <2>1, <2>2 DEF DialectOK, Position
  <2>4. ResultOK(d, V24!Quiet(c))
    BY <2>3, QuietOK, SameVocabulary
  <2>. QED  BY <1>1, <1>4, <2>4 DEF V24!OnStartElement
<1>5. CASE d.captureKind = "None" /\ d.state = "InData"
  BY <1>5, BeginBasket24 DEF V24!OnStartElement
<1>6. CASE d.captureKind = "None" /\ d.state = "InBasket"
  BY <1>6, BeginObject24 DEF V24!OnStartElement
<1>7. CASE d.captureKind = "None" /\ d.state = "InObject"
  <2>. DEFINE c == V24!BeginCapture(d, "Attribute", e)
  <2>1. DialectOK(c) /\ c.state = d.state
    BY <1>1, <1>7, BeginCapture24 DEF CaptureKind
  <2>2. ResultOK(d, V24!Quiet(c))
    BY <2>1, QuietOK, SameVocabulary
  <2>. QED  BY <1>7, <2>2 DEF V24!OnStartElement
<1>8. CASE /\ d.captureKind = "None"
           /\ d.state \notin {"ExpectHeader", "ExpectData", "InData", "InBasket", "InObject"}
  BY <1>1, <1>8 DEF V24!OnStartElement
<1>. QED  BY <1>2, <1>3, <1>4, <1>5, <1>6, <1>7, <1>8

LEMMA OnEndElement24 ==
  ASSUME NEW d, DialectOK(d), NEW e \in Element
  PROVE  ResultOK(d, V24!OnEndElement(d, e))
<1>1. d \in Dialect /\ ResultOK(d, V24!Thrown(d)) /\ <<>> \in Seq(Element)
  BY ThrownOK, SameVocabulary DEF DialectOK
<1>2. CASE d.captureKind # "None"
  BY <1>2, FinishCapture24 DEF V24!OnEndElement
<1>3. CASE d.captureKind = "None" /\ d.state = "InObject"
  <2>. DEFINE c == [d EXCEPT !.state = "InBasket", !.object = <<>>]
  <2>1. c \in Dialect
    BY <1>1 DEF Dialect, DialectState
  <2>2. c.state = "InBasket" /\ c.captureKind = "None"
    BY <1>1, <1>3 DEF Dialect
  <2>3. DialectOK(c) /\ <<Position(d.state), "Object", Position(c.state)>> \in Moves
    BY <1>3, <2>1, <2>2 DEF DialectOK, Position, Moves
  <2>4. ResultOK(d, V24!Emits(c, "Object", e.local))
    BY <2>3, EmitsOK, SameVocabulary DEF Element
  <2>. QED  BY <1>1, <1>3, <2>4 DEF V24!OnEndElement
<1>4. CASE d.captureKind = "None" /\ d.state = "InBasket"
  <2>. DEFINE c == [d EXCEPT !.state = "InData", !.basket = <<>>]
  <2>1. c \in Dialect
    BY <1>1 DEF Dialect, DialectState
  <2>2. c.state = "InData" /\ c.captureKind = "None"
    BY <1>1, <1>4 DEF Dialect
  <2>3. DialectOK(c) /\ <<Position(d.state), "EndBasket", Position(c.state)>> \in Moves
    BY <1>4, <2>1, <2>2 DEF DialectOK, Position, Moves
  <2>4. ResultOK(d, V24!Emits(c, "EndBasket", e.local))
    BY <2>3, EmitsOK, SameVocabulary DEF Element
  <2>. QED  BY <1>1, <1>4, <2>4 DEF V24!OnEndElement
<1>5. CASE d.captureKind = "None" /\ d.state = "InData"
  <2>. DEFINE c == [d EXCEPT !.state = "AfterData"]
  <2>1. c \in Dialect
    BY <1>1 DEF Dialect, DialectState
  <2>2. c.state = "AfterData" /\ c.captureKind = "None"
    BY <1>1, <1>5 DEF Dialect
  <2>3. DialectOK(c) /\ Position(c.state) = Position(d.state)
    BY <1>5, <2>1, <2>2 DEF DialectOK, Position
  <2>4. ResultOK(d, V24!Quiet(c))
    BY <2>3, QuietOK, SameVocabulary
  <2>. QED  BY <1>1, <1>5, <2>4 DEF V24!OnEndElement
<1>6. CASE d.captureKind = "None" /\ d.state \notin {"InData", "InBasket", "InObject"}
  BY <1>1, <1>6 DEF V24!OnEndElement
<1>. QED  BY <1>2, <1>3, <1>4, <1>5, <1>6

LEMMA OnText24 ==
  ASSUME NEW d, DialectOK(d)
  PROVE  ResultOK(d, V24!OnText(d))
<1>1. ResultOK(d, V24!Thrown(d))
  BY ThrownOK, SameVocabulary DEF DialectOK
<1>2. ResultOK(d, V24!Quiet([d EXCEPT !.texts = d.texts \cup V24!Innermost(d)]))
  BY TextTakenOK, SameVocabulary
<1>. QED  BY <1>1, <1>2 DEF V24!OnText

LEMMA OnRootClosed24 ==
  ASSUME NEW d, DialectOK(d), NEW e \in Element
  PROVE  ResultOK(d, V24!OnRootClosed(d, e))
<1>1. d \in Dialect /\ ResultOK(d, V24!Thrown(d))
  BY ThrownOK, SameVocabulary DEF DialectOK
<1>2. CASE d.state # "AfterData"
  BY <1>1, <1>2 DEF V24!OnRootClosed
<1>3. CASE d.state = "AfterData"
  <2>. DEFINE c == [d EXCEPT !.state = "Done"]
  <2>1. c \in Dialect
    BY <1>1 DEF Dialect, DialectState
  <2>2. c.state = "Done" /\ c.captureKind = d.captureKind
    BY <1>1 DEF Dialect
  <2>3. DialectOK(c) /\ <<Position(d.state), "EndTransfer", Position(c.state)>> \in Moves
    BY <1>3, <2>1, <2>2 DEF DialectOK, Position, Moves
  <2>4. ResultOK(d, V24!Emits(c, "EndTransfer", e.local))
    BY <2>3, EmitsOK, SameVocabulary DEF Element
  <2>. QED  BY <1>3, <2>4 DEF V24!OnRootClosed
<1>. QED  BY <1>2, <1>3

-----------------------------------------------------------------------------
(* Types *)

Typed ==
  /\ TypeOK
  /\ DialectOK(dialect)
  /\ endPending => tags # <<>>
  /\ state = "Failed" => pc = "Idle"
  /\ state = "BeforeRoot" => dialect = NewDialect

\* The callbacks of the dialect that the root has selected.
LEMMA DialectResults ==
  ASSUME DialectOK(dialect)
  PROVE  /\ ResultOK(dialect, DialectText)
         /\ \A e \in Element : /\ ResultOK(dialect, DialectStart(e))
                               /\ ResultOK(dialect, DialectEnd(e))
                               /\ ResultOK(dialect, DialectRootClosed(e))
  BY OnStartElement23, OnEndElement23, OnText23, OnRootClosed23,
     OnStartElement24, OnEndElement24, OnText24, OnRootClosed24
     DEF DialectStart, DialectEnd, DialectText, DialectRootClosed,
         OnStart, OnEnd, OnText, OnRootClosed

\* What a step does to the queue, and how it may leave the parser.
QueueStep ==
  /\ \/ UNCHANGED queueVars
     \/ \E event \in Event : ValidOrder(event.kind) /\ Enqueue(event)
  /\ \/ parsing' \in {parsing, "Finished"}
     \/ parsing' = "Suspended" /\ eventQueue' # <<>>

\* What the coordinator's part of a callback does.
CallbackEffect ==
  /\ QueueTypeOK' /\ CoordinatorTypeOK' /\ ParserTypeOK' /\ parsing' \in Parsing
  /\ UNCHANGED <<finished, suspended, inParse>>
  /\ QueueStep
  /\ DialectOK(dialect')
  /\ DialectAgreement => DialectAgreement'
  /\ state' # "Failed"
  /\ state' = "BeforeRoot" => dialect' = NewDialect

\* What Expat's part does.
ExpatEffect ==
  /\ UNCHANGED <<doc, received, finalBuffer, partialBefore, deferring>>
  /\ cursor' \in 0 .. Len(doc.tokens)
  /\ endPending' \in BOOLEAN
  /\ tags' \in Seq(Element)
  /\ endPending' => tags' # <<>>

\* A step inside a call into Expat, as the proofs of the invariants see it.
ParserStep ==
  /\ pc = "Parse" /\ state # "Failed" /\ state' # "Failed"
  /\ UNCHANGED <<callerVars, readerVars, doc, finished, suspended, inParse, finalBuffer>>
  /\ QueueStep
  /\ DialectAgreement => DialectAgreement'

LEMMA ParserStepLemma ==
  ASSUME Typed, pc = "Parse", UNCHANGED unchangedInCallback, ExpatEffect, CallbackEffect
  PROVE  ParserStep /\ Typed'
<1>1. state # "Failed" /\ UNCHANGED <<callerVars, readerVars>>
  BY DEF Typed, unchangedInCallback
<1>2. CallerTypeOK' /\ ReaderTypeOK'
  BY <1>1 DEF Typed, TypeOK, CallerTypeOK, ReaderTypeOK, callerVars, readerVars
<1>3. ExpatTypeOK' /\ doc' \in Documents
  BY DEF Typed, TypeOK, ExpatTypeOK, ExpatEffect, CallbackEffect
<1>4. Typed'
  BY <1>2, <1>3 DEF Typed, TypeOK, ExpatEffect, CallbackEffect
<1>5. ParserStep
  BY <1>1 DEF ParserStep, CallbackEffect, ExpatEffect
<1>. QED  BY <1>4, <1>5

\* A callback that fails before it reaches the dialect.
LEMMA FailsAtOnceLemma ==
  ASSUME Typed, pc = "Parse", CallbackFailsAtOnce
  PROVE  CallbackEffect
  BY DEF CallbackFailsAtOnce, CallbackFails, CallbackEffect, QueueStep, Typed, TypeOK,
     QueueTypeOK, CoordinatorTypeOK, ParserTypeOK, Parsing, queueVars, coordinatorVars,
     DialectAgreement

\* A part of a report is one.
LEMMA PartsType ==
  ASSUME NEW reports \in Seq(Report), NEW part \in PartsOf(reports)
  PROVE  part \in Seq(Report) /\ Len(part) <= 1
<1>1. CASE part = <<>>
  BY <1>1
<1>2. CASE part # <<>>
  <2>. DEFINE parts(report) == {[report EXCEPT !.severities = some] :
                                  some \in (SUBSET report.severities) \ {{}}}
  <2>1. PICK p \in UNION {parts(report) : report \in Range(reports)} : part = <<p>>
    BY <1>2, Zenon DEF PartsOf
  <2>2. PICK report \in Range(reports) : p \in parts(report)
    BY <2>1, Zenon
  <2>3. report \in Report
    BY <2>2 DEF Range
  <2>4. p \in Report
    BY <2>2, <2>3 DEF Report
  <2>. QED  BY <2>1, <2>4
<1>. QED  BY <1>1, <1>2

\* A callback that a dialect has answered with r.
LEMMA CallbackLemma ==
  ASSUME Typed, pc = "Parse", state = "InRoot",
         NEW r, ResultOK(dialect, r),
         NEW s \in {"InRoot", "AfterRoot"}, NEW k \in Nat,
         CallbackRuns, Callback(r, s, k)
  PROVE  CallbackEffect
<1>. DEFINE event == Head(r.emit)
<1>1. /\ r.dialect \in Dialect /\ r.diagnostics \in Seq(Report)
      /\ r.emit \in Seq(Event)
      /\ r.emit # <<>> => event \in Event
  BY DEF ResultOK, Result
<1>2. ASSUME r.emit # <<>>, ValidOrder(event.kind), Enqueue(event)
      PROVE  QueueTypeOK' /\ eventQueue' # <<>>
  <2>1. eventState' \in EventState
    BY <1>2 DEF Enqueue, EventStateAfter, EventState, ValidOrder
  <2>2. eventQueue \in Seq(Event) /\ emitted \in Seq(Event) /\ event \in Event
    BY <1>1, <1>2 DEF Typed, TypeOK, QueueTypeOK
  <2>. QED  BY <1>2, <2>1, <2>2 DEF Enqueue, QueueTypeOK
<1>3. CASE CallbackReturns(r, s, k)
  <2>1. /\ ~r.thrown /\ state' = s /\ depth' = k /\ dialect' = r.dialect
        /\ diagnostics' = diagnostics \o r.diagnostics
        /\ taken' = taken
        /\ detected' = detected
        /\ UNCHANGED <<finished, failed, suspended, inParse, callbackError>>
    BY <1>3 DEF CallbackReturns, Add, parserVars
  <2>2. /\ CoordinatorTypeOK' /\ ParserTypeOK' /\ DialectOK(dialect')
        /\ state' \notin {"BeforeRoot", "Failed"}
    BY <1>1, <2>1 DEF Typed, TypeOK, CoordinatorTypeOK, ParserTypeOK, ResultOK, CoordinatorState
  <2>3. CASE r.emit = <<>> /\ UNCHANGED queueVars /\ parsing' = parsing
    <3>1. QueueTypeOK' /\ parsing' \in Parsing
      BY <2>3 DEF Typed, TypeOK, QueueTypeOK, ExpatTypeOK, queueVars
    <3>2. DialectAgreement => DialectAgreement'
      BY <2>1, <2>2, <2>3 DEF DialectAgreement, ResultOK, queueVars, Typed, DialectOK
    <3>. QED  BY <2>1, <2>2, <2>3, <3>1, <3>2 DEF CallbackEffect, QueueStep
  <2>4. CASE /\ r.emit # <<>> /\ ValidOrder(event.kind) /\ Enqueue(event)
             /\ parsing' \in {parsing, "Suspended"}
    <3>1. QueueTypeOK' /\ parsing' \in Parsing /\ eventQueue' # <<>>
      BY <2>4, <1>2 DEF Typed, TypeOK, ExpatTypeOK, Parsing
    <3>2. eventState' = Position(r.dialect.state)
      BY <2>1, <2>4 DEF Enqueue, EventStateAfter, ResultOK, Moves
    <3>3. DialectAgreement'
      BY <2>1, <2>2, <3>2 DEF DialectAgreement, DialectOK
    <3>. QED  BY <1>1, <2>1, <2>2, <2>4, <3>1, <3>3 DEF CallbackEffect, QueueStep
  <2>. QED  BY <1>3, <2>3, <2>4 DEF CallbackReturns, Suspend
<1>4. CASE CallbackThrows(r)
  <2>0. diagnostics' \in Seq(Report) /\ taken' = taken
    <3>1. PICK reports \in Seq(Report) : Add(reports)
      BY <1>1, <1>4, PartsType, Zenon DEF CallbackThrows
    <3>. QED  BY <3>1 DEF Add, Typed, TypeOK, CoordinatorTypeOK
  <2>1. /\ UNCHANGED <<state, depth, detected, dialect>>
        /\ UNCHANGED <<finished, failed, suspended, inParse>>
        /\ callbackError' = TRUE /\ parsing' = "Finished"
    BY <1>4 DEF CallbackThrows, CallbackFails, coordinatorVars
  <2>2. /\ CoordinatorTypeOK' /\ ParserTypeOK' /\ state' = "InRoot" /\ DialectOK(dialect')
        /\ parsing' \in Parsing /\ DialectAgreement'
    BY <2>0, <2>1 DEF Typed, TypeOK, CoordinatorTypeOK, ParserTypeOK, Parsing, DialectAgreement
  <2>3. CASE UNCHANGED queueVars
    <3>1. QueueTypeOK'
      BY <2>3 DEF Typed, TypeOK, QueueTypeOK, queueVars
    <3>. QED  BY <2>1, <2>2, <2>3, <3>1 DEF CallbackEffect, QueueStep
  <2>4. CASE r.emit # <<>> /\ ValidOrder(event.kind) /\ Enqueue(event)
    BY <1>1, <1>2, <2>1, <2>2, <2>4 DEF CallbackEffect, QueueStep
  <2>. QED  BY <1>4, <2>3, <2>4 DEF CallbackThrows
<1>. QED  BY <1>3, <1>4 DEF Callback

\* The token that Expat handles next.
LEMMA NextTokenType ==
  ASSUME Typed, Ready
  PROVE  NextToken.element \in Element /\ cursor + 1 \in 0 .. Len(doc.tokens)
<1>1. doc.tokens \in Seq(Token)
  BY DocumentsAssumption DEF Typed, TypeOK
<1>2. cursor \in Nat /\ cursor + 1 \in 1 .. Len(doc.tokens)
  BY <1>1 DEF Typed, TypeOK, ExpatTypeOK, Ready, CompleteToken
<1>3. NextToken \in Token
  BY <1>1, <1>2 DEF NextToken
<1>4. NextToken.element \in Element
  BY <1>3 DEF Token
<1>5. cursor + 1 \in 0 .. Len(doc.tokens)
  BY <1>2
<1>. QED  BY <1>4, <1>5

LEMMA StartElementStep ==
  ASSUME Typed, StartElement
  PROVE  ParserStep /\ Typed'
<1>. DEFINE e == NextToken.element
<1>1. e \in Element /\ cursor + 1 \in 0 .. Len(doc.tokens)
  BY NextTokenType DEF StartElement
<1>2. /\ pc = "Parse" /\ CallbackRuns
      /\ StartTagCallback /\ UNCHANGED unchangedInCallback
  BY DEF StartElement, InCallback
<1>3. ExpatEffect
  BY <1>1, <1>2 DEF Typed, TypeOK, ExpatTypeOK, StartTagCallback, ExpatEffect
<1>4. CASE CallbackFailsAtOnce
  BY <1>2, <1>3, <1>4, FailsAtOnceLemma, ParserStepLemma
<1>5. CASE state = "BeforeRoot" /\ RootAccepted(e) /\ RootElement(e) /\ ~CallbackFailsAtOnce
  <2>1. /\ detected' = RootVersion(e) /\ dialect' = NewDialect /\ depth' = 1
        /\ state' = "InRoot" /\ parsing' = parsing
        /\ UNCHANGED <<diagnostics, taken, eventState, eventQueue, emitted, finished, failed,
                       suspended, inParse, callbackError>>
    BY <1>5 DEF RootElement, queueVars, parserVars
  <2>2. DialectOK(dialect) /\ dialect = NewDialect
    BY <1>5 DEF Typed
  <2>3. QueueTypeOK' /\ ParserTypeOK' /\ CoordinatorTypeOK' /\ parsing' \in Parsing
    BY <2>1, <2>2 DEF Typed, TypeOK, QueueTypeOK, ParserTypeOK, CoordinatorTypeOK, ExpatTypeOK,
       RootVersion, CoordinatorState
  <2>4. DialectAgreement => DialectAgreement'
    BY <1>5, <2>1, <2>2 DEF DialectAgreement
  <2>5. CallbackEffect
    BY <2>1, <2>2, <2>3, <2>4 DEF CallbackEffect, QueueStep, queueVars
  <2>. QED  BY <1>2, <1>3, <2>5, ParserStepLemma
<1>6. CASE state = "InRoot" /\ Callback(DialectStart(e), state, depth + 1)
  <2>1. ResultOK(dialect, DialectStart(e))
    BY <1>1, DialectResults DEF Typed
  <2>2. depth + 1 \in Nat
    BY DEF Typed, TypeOK, CoordinatorTypeOK
  <2>3. CallbackEffect
    BY <1>2, <1>6, <2>1, <2>2, CallbackLemma
  <2>. QED  BY <1>2, <1>3, <2>3, ParserStepLemma
<1>. QED  BY <1>4, <1>5, <1>6 DEF StartElement, RootElement

LEMMA EndElementStep ==
  ASSUME Typed, EndElement
  PROVE  ParserStep /\ Typed'
<1>. DEFINE e == Head(tags)
<1>1. tags # <<>> /\ tags \in Seq(Element)
  BY DEF EndElement, IllFormed, Typed, TypeOK, ExpatTypeOK
<1>2. e \in Element /\ Tail(tags) \in Seq(Element)
  BY <1>1
<1>3. /\ pc = "Parse" /\ CallbackRuns /\ state = "InRoot"
      /\ EndTagCallback /\ UNCHANGED unchangedInCallback
  BY DEF EndElement, InCallback
<1>4. endPending \/ cursor + 1 \in 0 .. Len(doc.tokens)
  BY NextTokenType DEF EndElement
<1>5. ExpatEffect
  BY <1>2, <1>3, <1>4 DEF Typed, TypeOK, ExpatTypeOK, EndTagCallback, ExpatEffect
<1>6. ResultOK(dialect, DialectEnd(e)) /\ ResultOK(dialect, DialectRootClosed(e))
  BY <1>2, DialectResults DEF Typed
<1>7. depth \in Nat
  BY DEF Typed, TypeOK, CoordinatorTypeOK
<1>8. CASE depth = 1 /\ Callback(DialectRootClosed(e), "AfterRoot", 0)
  BY <1>3, <1>5, <1>6, <1>8, CallbackLemma, ParserStepLemma
<1>9. CASE depth > 1 /\ Callback(DialectEnd(e), state, depth - 1)
  <2>1. depth - 1 \in Nat
    BY <1>7, <1>9
  <2>. QED  BY <1>3, <1>5, <1>6, <1>9, <2>1, CallbackLemma, ParserStepLemma
<1>. QED  BY <1>8, <1>9 DEF EndElement

LEMMA OtherParserSteps ==
  ASSUME Typed, CharacterData \/ Doctype \/ Malformed \/ SkippedEndElement
  PROVE  ParserStep /\ Typed'
<1>1. CASE CharacterData \/ Doctype
  <2>1. pc = "Parse" /\ CallbackRuns /\ UNCHANGED unchangedInCallback /\ OtherCallback
    BY <1>1 DEF CharacterData, Doctype, InCallback
  <2>2. cursor + 1 \in 0 .. Len(doc.tokens)
    BY <1>1, NextTokenType DEF CharacterData, Doctype
  <2>3. ExpatEffect
    BY <2>1, <2>2 DEF Typed, TypeOK, ExpatTypeOK, OtherCallback, ExpatEffect
  <2>4. CASE Doctype
    BY <2>1, <2>3, <2>4, FailsAtOnceLemma, ParserStepLemma DEF Doctype
  <2>5. CASE CharacterData
    <3>1. ResultOK(dialect, DialectText)
      BY DialectResults DEF Typed
    <3>2. depth \in Nat
      BY DEF Typed, TypeOK, CoordinatorTypeOK
    <3>3. state = "InRoot" /\ Callback(DialectText, state, depth)
      BY <2>5 DEF CharacterData
    <3>4. CallbackEffect
      BY <2>1, <3>1, <3>2, <3>3, CallbackLemma
    <3>. QED  BY <2>1, <2>3, <3>4, ParserStepLemma
  <2>. QED  BY <1>1, <2>4, <2>5
<1>2. CASE Malformed \/ SkippedEndElement
  <2>1. /\ pc = "Parse" /\ UNCHANGED unchangedInCallback
        /\ UNCHANGED <<coordinatorVars, queueVars, parserVars>>
        /\ parsing' \in {parsing, "Finished"}
    BY <1>2 DEF Malformed, SkippedEndElement, InCallback
  <2>2. CallbackEffect
    BY <2>1 DEF CallbackEffect, QueueStep, Typed, TypeOK, QueueTypeOK, CoordinatorTypeOK,
       ParserTypeOK, ExpatTypeOK, Parsing, coordinatorVars, queueVars, parserVars,
       DialectAgreement
  <2>3. ExpatEffect
    <3>1. CASE Malformed
      BY <3>1 DEF Malformed, Typed, TypeOK, ExpatTypeOK, ExpatEffect
    <3>2. CASE SkippedEndElement
      <4>1. endPending /\ EndTagCallback
        BY <3>2 DEF SkippedEndElement
      <4>2. tags # <<>> /\ tags \in Seq(Element)
        BY <4>1 DEF Typed, TypeOK, ExpatTypeOK
      <4>3. Tail(tags) \in Seq(Element)
        BY <4>2
      <4>. QED  BY <4>1, <4>3 DEF EndTagCallback, Typed, TypeOK, ExpatTypeOK, ExpatEffect
    <3>. QED  BY <1>2, <3>1, <3>2
  <2>. QED  BY <2>1, <2>2, <2>3, ParserStepLemma
<1>. QED  BY <1>1, <1>2

LEMMA PiecesType ==
  ASSUME NEW size \in Nat
  PROVE  Pieces(size) \in Seq(Nat)
<1>. DEFINE Q == QueuedInputChunkSize
            count == IF size = 0 THEN 1 ELSE (size + Q - 1) \div Q
<1>1. Q \in Nat \ {0}
  BY LimitsAssumption
<1>2. count \in Nat
  BY <1>1
<1>3. size % Q \in Nat
  BY <1>1
<1>4. \A i \in 1 .. count : (IF i * Q <= size THEN Q ELSE size % Q) \in Nat
  BY <1>1, <1>3
<1>5. [i \in 1 .. count |-> IF i * Q <= size THEN Q ELSE size % Q] \in [1 .. count -> Nat]
  BY <1>4
<1>. HIDE DEF count
<1>6. [i \in 1 .. count |-> IF i * Q <= size THEN Q ELSE size % Q] \in Seq(Nat)
  BY <1>2, <1>5
<1>. QED  BY <1>6 DEF Pieces, count

LEMMA CallTypes ==
  ASSUME Typed,
         \/ \E size \in Chunks : FeedAccepted(size) \/ FeedOverLimit(size)
         \/ FeedOrFinishRejected \/ FinishAccepted \/ NextAccepted \/ NextRejected
         \/ TakeDiagnostics
  PROVE  Typed'
<1>1. ASSUME NEW size \in Chunks, FeedAccepted(size)
      PROVE  Typed'
  <2>1. size \in Nat /\ Pieces(size) \in Seq(Nat)
    <3>1. DocBytes \in Nat
      BY DocumentsAssumption, TokenBytesAssumption DEF Typed, TypeOK, DocBytes
    <3>2. size \in Nat
      BY <3>1 DEF Chunks, Typed, TypeOK, ReaderTypeOK
    <3>. QED  BY <3>2, PiecesType
  <2>2. ReaderTypeOK' /\ CallerTypeOK'
    BY <1>1, <2>1 DEF FeedAccepted, Typed, TypeOK, ReaderTypeOK, CallerTypeOK, Call
  <2>. QED
    BY <1>1, <2>2 DEF FeedAccepted, Typed, TypeOK, QueueTypeOK, CoordinatorTypeOK, ParserTypeOK,
       ExpatTypeOK, queueVars, coordinatorVars, parserVars, expatVars
<1>2. ASSUME NEW size \in Chunks, FeedOverLimit(size)
      PROVE  Typed'
  BY <1>2 DEF FeedOverLimit, Typed, TypeOK, QueueTypeOK, CoordinatorTypeOK, CallerTypeOK,
     ReaderTypeOK, ParserTypeOK, ExpatTypeOK, CoordinatorState, Reply, queueVars, readerVars,
     parserVars, expatVars
<1>3. CASE FeedOrFinishRejected \/ NextRejected
  BY <1>3, SMTT(30) DEF FeedOrFinishRejected, NextRejected, Refuse, Typed, TypeOK, QueueTypeOK,
     CoordinatorTypeOK, CallerTypeOK, ReaderTypeOK, ParserTypeOK, ExpatTypeOK, Reply,
     queueVars, coordinatorVars, readerVars, parserVars, expatVars
<1>4. CASE FinishAccepted
  BY <1>4 DEF FinishAccepted, Typed, TypeOK, QueueTypeOK, CoordinatorTypeOK, CallerTypeOK,
     ReaderTypeOK, ParserTypeOK, ExpatTypeOK, Call, queueVars, coordinatorVars, parserVars,
     expatVars
<1>5. CASE NextAccepted
  <2>1. /\ eventQueue' \in Seq(Event) /\ held' \in Seq(Event) /\ Len(held') <= 1
    BY <1>5 DEF NextAccepted, Typed, TypeOK, QueueTypeOK
  <2>. QED
    BY <1>5, <2>1 DEF NextAccepted, Typed, TypeOK, QueueTypeOK, CoordinatorTypeOK, CallerTypeOK,
       ReaderTypeOK, ParserTypeOK, ExpatTypeOK, Call, coordinatorVars, readerVars, parserVars,
       expatVars
<1>6. CASE TakeDiagnostics
  BY <1>6 DEF TakeDiagnostics, Typed, TypeOK, QueueTypeOK, CoordinatorTypeOK, CallerTypeOK,
     ReaderTypeOK, ParserTypeOK, ExpatTypeOK, queueVars, callerVars, readerVars, parserVars,
     expatVars
<1>. QED  BY <1>1, <1>2, <1>3, <1>4, <1>5, <1>6

\* A pass over the buffered bytes keeps the types of Expat's own counters.
LEMMA CallProcessorType ==
  ASSUME Typed, NEW bytes \in Nat, NEW final, CallProcessor(bytes, final)
  PROVE  deferring' \in BOOLEAN /\ partialBefore' \in Int
<1>1. TokenBytes \in Nat /\ cursor \in Nat /\ partialBefore \in Int
  BY TokenBytesAssumption DEF Typed, TypeOK, ExpatTypeOK
<1>2. bytes - Consumed \in Int
  BY <1>1 DEF Consumed
<1>3. \E defer \in BOOLEAN : /\ deferring' = defer
                             /\ partialBefore' \in {partialBefore, 0, bytes - Consumed}
  BY Zenon DEF CallProcessor
<1>. QED  BY <1>1, <1>2, <1>3

\* Calls into Expat, up to their first callback.
LEMMA BeginTypes ==
  ASSUME Typed,
         \/ BeginResume \/ BeginFinish
         \/ \E size \in Nat : BeginFeed(size)
  PROVE  ExpatTypeOK' /\ ParserTypeOK' /\ doc' \in Documents /\ (endPending' => tags' # <<>>)
<1>1. ASSUME NEW size \in Nat, NEW final \in BOOLEAN, XML_ParseBuffer(size, final)
      PROVE  ExpatTypeOK' /\ doc' \in Documents /\ (endPending' => tags' # <<>>)
  <2>1. received + size \in Nat
    BY DEF Typed, TypeOK, ExpatTypeOK
  <2>2. deferring' \in BOOLEAN /\ partialBefore' \in Int
    BY <1>1, <2>1, CallProcessorType DEF XML_ParseBuffer
  <2>. QED  BY <1>1, <2>1, <2>2 DEF XML_ParseBuffer, Typed, TypeOK, ExpatTypeOK, Parsing
<1>2. ASSUME XML_ResumeParser
      PROVE  ExpatTypeOK' /\ doc' \in Documents /\ (endPending' => tags' # <<>>)
  <2>1. deferring' \in BOOLEAN /\ partialBefore' \in Int
    BY <1>2, CallProcessorType DEF XML_ResumeParser, Typed, TypeOK, ExpatTypeOK
  <2>. QED  BY <1>2, <2>1 DEF XML_ResumeParser, Typed, TypeOK, ExpatTypeOK, Parsing
<1>3. ParserTypeOK'
  BY DEF BeginResume, BeginFinish, BeginFeed, Typed, TypeOK, ParserTypeOK
<1>. QED  BY <1>1, <1>2, <1>3 DEF BeginResume, BeginFinish, BeginFeed

LEMMA PumpTypes ==
  ASSUME Typed, Pump
  PROVE  Typed'
<1>1. CASE PumpResumes \/ PumpFinishes
  <2>1. ExpatTypeOK' /\ ParserTypeOK' /\ doc' \in Documents /\ (endPending' => tags' # <<>>)
    BY <1>1, BeginTypes DEF PumpResumes, PumpFinishes
  <2>. QED
    BY <1>1, <2>1 DEF PumpResumes, PumpFinishes, Typed, TypeOK, QueueTypeOK, CoordinatorTypeOK,
       CallerTypeOK, ReaderTypeOK, queueVars, coordinatorVars, readerVars
<1>2. CASE PumpFeedsChunk
  <2>1. inputQueue # <<>> /\ inputQueue \in Seq(Nat)
    BY <1>2 DEF PumpFeedsChunk, Typed, TypeOK, ReaderTypeOK
  <2>2. Head(inputQueue) \in Nat /\ Tail(inputQueue) \in Seq(Nat)
    BY <2>1
  <2>3. /\ ExpatTypeOK' /\ ParserTypeOK' /\ doc' \in Documents /\ (endPending' => tags' # <<>>)
    <3>1. CASE UNCHANGED <<pc, parserVars, expatVars>>
      BY <3>1 DEF Typed, TypeOK, ExpatTypeOK, ParserTypeOK, parserVars, expatVars
    <3>2. CASE BeginFeed(Head(inputQueue))
      BY <2>2, <3>2, BeginTypes
    <3>. QED  BY <1>2, <3>1, <3>2 DEF PumpFeedsChunk
  <2>4. /\ UNCHANGED <<call, held, reply, delivered, totalFed, finishCalled, parseComplete,
                       queueVars, coordinatorVars>>
        /\ inputQueue' = Tail(inputQueue) /\ pc' \in {pc, "Parse"} /\ pc = "Drain"
    BY <1>2 DEF PumpFeedsChunk
  <2>. QED
    BY <2>2, <2>3, <2>4 DEF Typed, TypeOK, QueueTypeOK, CoordinatorTypeOK,
       CallerTypeOK, ReaderTypeOK, queueVars, coordinatorVars
<1>3. CASE PumpResumeFails
  BY <1>3 DEF PumpResumeFails, PumpFails, Typed, TypeOK, QueueTypeOK, CoordinatorTypeOK,
     CallerTypeOK, ReaderTypeOK, ParserTypeOK, ExpatTypeOK, CoordinatorState, Reply, Call,
     queueVars, readerVars, parserVars, expatVars
<1>4. CASE PumpSkipsResume \/ PumpDone
  <2>1. /\ pc \in {"Pump", "Drain"} /\ pc' \in {"Drain", "Reply"}
        /\ UNCHANGED <<call, held, reply, delivered>>
        /\ UNCHANGED <<queueVars, coordinatorVars, readerVars, parserVars, expatVars>>
    BY <1>4 DEF PumpSkipsResume, PumpDone
  <2>2. CallerTypeOK' /\ QueueTypeOK' /\ CoordinatorTypeOK' /\ ReaderTypeOK'
    BY <2>1 DEF Typed, TypeOK, QueueTypeOK, CoordinatorTypeOK, CallerTypeOK, ReaderTypeOK,
       queueVars, coordinatorVars, readerVars
  <2>3. ParserTypeOK' /\ ExpatTypeOK' /\ doc' \in Documents
    BY <2>1 DEF Typed, TypeOK, ParserTypeOK, ExpatTypeOK, parserVars, expatVars
  <2>. QED  BY <2>1, <2>2, <2>3 DEF Typed, TypeOK, coordinatorVars, expatVars
<1>. QED  BY <1>1, <1>2, <1>3, <1>4 DEF Pump

LEMMA ParserEndTypes ==
  ASSUME Typed, ParserReturns \/ ParserReturnsEarly \/ ParserThrows
  PROVE  Typed'
<1>1. CASE ParserReturns \/ ParserReturnsEarly
  <2>1. ParserTypeOK' /\ ExpatTypeOK' /\ doc' \in Documents /\ (endPending' => tags' # <<>>)
    BY <1>1 DEF ParserReturns, ParserReturnsEarly, ParseSucceeds, Typed, TypeOK, ParserTypeOK,
       ExpatTypeOK, Parsing
  <2>2. CASE ParserReturns
    BY <2>1, <2>2 DEF ParserReturns, Typed, TypeOK, QueueTypeOK, CoordinatorTypeOK,
       CallerTypeOK, ReaderTypeOK, ExpatTypeOK, queueVars, coordinatorVars
  <2>3. CASE ParserReturnsEarly
    BY <2>1, <2>3 DEF ParserReturnsEarly, PumpFails, Typed, TypeOK, QueueTypeOK,
       CoordinatorTypeOK, CallerTypeOK, ReaderTypeOK, CoordinatorState, Reply, Call,
       queueVars, readerVars
  <2>. QED  BY <1>1, <2>2, <2>3
<1>2. CASE ParserThrows
  <2>1. ParserTypeOK' /\ ExpatTypeOK' /\ doc' \in Documents /\ (endPending' => tags' # <<>>)
    BY <1>2 DEF ParserThrows, ParseFails, Typed, TypeOK, ParserTypeOK, ExpatTypeOK, expatVars
  <2>2. PumpFails
    BY <1>2 DEF ParserThrows
  <2>. QED
    BY <2>1, <2>2 DEF PumpFails, Typed, TypeOK, QueueTypeOK, CoordinatorTypeOK, CallerTypeOK,
       ReaderTypeOK, CoordinatorState, Reply, Call, queueVars, readerVars
<1>. QED  BY <1>1, <1>2

LEMMA ReturnTypes ==
  ASSUME Typed, Return
  PROVE  Typed'
<1>1. eventQueue' \in Seq(Event) /\ delivered' \in Seq(Event)
  <2>1. held \in Seq(Event) /\ eventQueue \in Seq(Event) /\ delivered \in Seq(Event)
    BY DEF Typed, TypeOK, QueueTypeOK, CallerTypeOK
  <2>2. CASE ReturnEvent
    <3>1. held \o eventQueue \in Seq(Event) /\ held \o eventQueue # <<>>
      BY <2>1, <2>2 DEF ReturnEvent
    <3>2. Head(held \o eventQueue) \in Event
      BY <3>1
    <3>3. held = <<>> => eventQueue # <<>>
      BY <2>1, <3>1
    <3>. QED  BY <2>1, <2>2, <3>2, <3>3 DEF ReturnEvent
  <2>3. CASE ReturnOk \/ ReturnNoEvent
    BY <2>1, <2>3 DEF ReturnOk, ReturnNoEvent
  <2>. QED  BY <2>2, <2>3 DEF Return
<1>2. \E r \in Reply : Answer(r)
  BY DEF Return, ReturnOk, ReturnEvent, ReturnNoEvent, Reply
<1>. QED
  BY <1>1, <1>2 DEF Answer, Typed, TypeOK, QueueTypeOK, CoordinatorTypeOK, CallerTypeOK,
     ReaderTypeOK, ParserTypeOK, ExpatTypeOK, Call, coordinatorVars, readerVars, parserVars,
     expatVars

LEMMA InitTyped == Init => Typed
<1>. SUFFICES ASSUME Init PROVE Typed
  OBVIOUS
<1>1. NewDialect \in Dialect
  BY DEF NewDialect, Dialect, DialectState, CaptureKind
<1>2. DialectOK(dialect) /\ dialect = NewDialect
  BY <1>1 DEF Init, DialectOK, NewDialect
<1>3. doc.tokens \in Seq(Token)
  BY DocumentsAssumption DEF Init
<1>4. 0 \in 0 .. Len(doc.tokens)
  BY <1>3
<1>5. /\ <<>> \in Seq(Event) /\ <<>> \in Seq(Nat) /\ <<>> \in Seq(Element)
      /\ Len(<<>>) = 0
  OBVIOUS
<1>6. ExpatTypeOK
  <2>1. /\ received = 0 /\ cursor = 0 /\ endPending = FALSE /\ tags = <<>>
        /\ parsing = "Initialized" /\ finalBuffer = FALSE /\ partialBefore = 0
        /\ deferring = FALSE
    BY DEF Init, ExpatInit
  <2>2. cursor \in 0 .. Len(doc.tokens)
    BY <1>4, <2>1
  <2>3. received \in Nat /\ partialBefore \in Int
    BY <2>1
  <2>4. tags \in Seq(Element)
    BY <1>5, <2>1
  <2>5. parsing \in Parsing /\ endPending \in BOOLEAN /\ finalBuffer \in BOOLEAN /\ deferring \in BOOLEAN
    BY <2>1 DEF Parsing
  <2>. QED  BY <2>2, <2>3, <2>4, <2>5 DEF ExpatTypeOK
<1>7. ParserTypeOK /\ doc \in Documents /\ ~endPending
  BY DEF Init, ExpatInit, ParserInit, ParserTypeOK
<1>8. QueueTypeOK
  BY <1>5 DEF Init, QueueTypeOK, EventState
<1>9. CoordinatorTypeOK
  BY <1>1, <1>2 DEF Init, CoordinatorTypeOK, CoordinatorState
<1>10. CallerTypeOK
  <2>1. held = <<>> /\ delivered = <<>> /\ pc = "Idle" /\ call = "None" /\ reply = "None"
    BY DEF Init
  <2>. QED  BY <1>5, <2>1 DEF CallerTypeOK, Call, Reply
<1>11. ReaderTypeOK
  BY <1>5 DEF Init, ReaderTypeOK
<1>. QED  BY <1>2, <1>6, <1>7, <1>8, <1>9, <1>10, <1>11 DEF Init, Typed, TypeOK

\* The steps inside a call into Expat that are neither its begin nor its end.
InParser == StartElement \/ EndElement \/ SkippedEndElement \/ CharacterData \/ Doctype \/ Malformed

LEMMA InParserStep ==
  ASSUME Typed, InParser
  PROVE  ParserStep /\ Typed'
  BY StartElementStep, EndElementStep, OtherParserSteps DEF InParser

LEMMA TypedStep ==
  ASSUME Typed, [Next]_vars
  PROVE  Typed'
<1>1. CASE Next
  BY <1>1, CallTypes, PumpTypes, ParserEndTypes, ReturnTypes, InParserStep
     DEF Next, Feed, Parse, InParser
<1>2. CASE UNCHANGED vars
  BY <1>2 DEF vars, queueVars, coordinatorVars, callerVars, readerVars, parserVars, expatVars,
     Typed, TypeOK, QueueTypeOK, CoordinatorTypeOK, CallerTypeOK, ReaderTypeOK, ParserTypeOK,
     ExpatTypeOK
<1>. QED  BY <1>1, <1>2

\* Every variable of the reader, the wrapper and the parser keeps its type: in particular the
\* depth never falls below zero, an end tag always finds its open element, and the dialects
\* return well-formed results.
THEOREM TypeCorrect == Spec => []TypeOK
<1>1. Init => Typed
  BY InitTyped
<1>2. Typed /\ [Next]_vars => Typed'
  BY TypedStep
<1>3. Typed => TypeOK
  BY DEF Typed
<1>. QED  BY <1>1, <1>2, <1>3, PTL DEF Spec

-----------------------------------------------------------------------------
(* The dialect and the coordinator agree. *)

Agreed == Typed /\ DialectAgreement

LEMMA AgreedStep ==
  ASSUME Agreed, [Next]_vars
  PROVE  Agreed'
<1>1. Typed'
  BY TypedStep DEF Agreed
<1>2. CASE InParser
  BY <1>1, <1>2, InParserStep DEF Agreed, ParserStep
<1>3. CASE UNCHANGED <<dialect, eventState>> /\ (state' = state /\ callbackError' = callbackError)
  BY <1>1, <1>3 DEF Agreed, DialectAgreement
<1>4. CASE state' = "Failed"
  BY <1>1, <1>4 DEF Agreed, DialectAgreement
<1>5. CASE (\E size \in Chunks : FeedAccepted(size) \/ FeedOverLimit(size))
             \/ FeedOrFinishRejected \/ FinishAccepted \/ NextAccepted \/ NextRejected
             \/ TakeDiagnostics
  BY <1>3, <1>4, <1>5 DEF FeedAccepted, FeedOverLimit, FeedOrFinishRejected, FinishAccepted,
     NextAccepted, NextRejected, TakeDiagnostics, Refuse, queueVars, coordinatorVars, parserVars
<1>6. CASE Pump
  <2>1. CASE PumpResumes \/ PumpFinishes \/ PumpFeedsChunk
    BY <1>3, <2>1 DEF PumpResumes, PumpFinishes, PumpFeedsChunk, BeginResume, BeginFinish,
       BeginFeed, queueVars, coordinatorVars, parserVars
  <2>2. CASE PumpSkipsResume \/ PumpDone
    BY <1>3, <2>2 DEF PumpSkipsResume, PumpDone, queueVars, coordinatorVars, parserVars
  <2>3. CASE PumpResumeFails
    BY <1>4, <2>3 DEF PumpResumeFails, PumpFails
  <2>. QED  BY <1>6, <2>1, <2>2, <2>3 DEF Pump
<1>7. CASE ParserReturns \/ ParserReturnsEarly \/ ParserThrows
  BY <1>3, <1>4, <1>7 DEF ParserReturns, ParserReturnsEarly, ParserThrows, PumpFails,
     ParseSucceeds, queueVars, coordinatorVars
<1>8. CASE Return
  BY <1>3, <1>8 DEF Return, ReturnOk, ReturnEvent, ReturnNoEvent, Answer, coordinatorVars, parserVars
<1>9. CASE UNCHANGED vars
  BY <1>3, <1>9 DEF vars, queueVars, coordinatorVars, parserVars
<1>. QED  BY <1>2, <1>5, <1>6, <1>7, <1>8, <1>9 DEF Next, Feed, Parse, InParser

\* The dialect's state and the coordinator's event state always stand for the same place in the
\* transfer, so the coordinator never rejects an event of a dialect.
THEOREM Agreement == Spec => []DialectAgreement
<1>1. Init => Agreed
  BY InitTyped DEF Init, Agreed, DialectAgreement, NewDialect, Position
<1>2. Agreed /\ [Next]_vars => Agreed'
  BY AgreedStep
<1>3. Agreed => DialectAgreement
  BY DEF Agreed
<1>. QED  BY <1>1, <1>2, <1>3, PTL DEF Spec

-----------------------------------------------------------------------------
(* No event is lost, repeated or overtaken. *)

LEMMA HeadAndTail ==
  ASSUME NEW q \in Seq(Event), q # <<>>
  PROVE  /\ Head(q) \in Event /\ Tail(q) \in Seq(Event)
         /\ q = <<Head(q)>> \o Tail(q)
<1>1. Head(q) \in Event /\ Tail(q) \in Seq(Event) /\ <<Head(q)>> \in Seq(Event)
  BY HeadTailProperties
<1>2. Len(q) = Len(<<Head(q)>> \o Tail(q)) /\ <<Head(q)>> \o Tail(q) \in Seq(Event)
  BY <1>1
<1>3. \A i \in 1 .. Len(q) : q[i] = (<<Head(q)>> \o Tail(q))[i]
  BY <1>1
<1>. QED  BY <1>1, <1>2, <1>3, SeqEqual

LEMMA PrefixOfConcat ==
  ASSUME NEW S, NEW s \in Seq(S), NEW t \in Seq(S)
  PROVE  IsPrefix(s, s \o t)
<1>1. PICK u : u = s \o t
  OBVIOUS
<1>2. /\ u \in Seq(S) /\ Len(u) = Len(s) + Len(t) /\ Len(s) \in Nat /\ Len(t) \in Nat
      /\ \A i \in 1 .. Len(s) : u[i] = s[i]
  BY <1>1, ConcatProperties
<1>3. Len(s) <= Len(u) /\ SubSeq(s, 1, Len(s)) = SubSeq(u, 1, Len(s))
  BY <1>2
<1>. QED  BY <1>1, <1>3 DEF IsPrefix

LEMMA Associative ==
  ASSUME NEW s \in Seq(Event), NEW t \in Seq(Event), NEW u \in Seq(Event)
  PROVE  /\ (s \o t) \o u = s \o (t \o u)
         /\ s \o t \in Seq(Event)
<1>1. s \o t \in Seq(Event)
  BY ConcatProperties
<1>2. (s \o t) \o u = s \o (t \o u)
  BY ConcatAssociative
<1>. QED  BY <1>1, <1>2

LEMMA WithoutFirst ==
  ASSUME NEW s \in Seq(Event), NEW t \in Seq(Event), Len(s) = 1
  PROVE  Tail(s \o t) = t
<1>. DEFINE r == s \o t
<1>1. r \in Seq(Event) /\ Len(r) = Len(t) + 1
  BY ConcatProperties
<1>2. r # <<>>
  BY <1>1
<1>3. /\ Tail(r) \in Seq(Event) /\ Len(Tail(r)) = Len(t)
      /\ \A i \in 1 .. Len(t) : Tail(r)[i] = r[i + 1]
  <2>. HIDE DEF r
  <2>. QED  BY <1>1, <1>2, HeadTailProperties
<1>4. ASSUME NEW i \in 1 .. Len(t)
      PROVE  r[i + 1] = t[i]
  <2>1. i + 1 \in 1 .. Len(s) + Len(t) /\ ~(i + 1 <= Len(s)) /\ (i + 1) - Len(s) = i
    OBVIOUS
  <2>2. r[i + 1] = IF i + 1 <= Len(s) THEN s[i + 1] ELSE t[(i + 1) - Len(s)]
    BY <2>1, ConcatProperties
  <2>. QED  BY <2>1, <2>2
<1>5. Tail(r) = t
  BY <1>3, <1>4, SeqEqual
<1>. QED  BY <1>5

History ==
  /\ pc = "Idle" => held = <<>>
  /\ held # <<>> => call = "Next"
  /\ DeliveredInOrder

LEMMA HistoryStep ==
  ASSUME Typed, History, [Next]_vars
  PROVE  History'
<1>. DEFINE InOrder == delivered \o held \o eventQueue = emitted
<1>1. /\ delivered \in Seq(Event) /\ held \in Seq(Event)
      /\ eventQueue \in Seq(Event) /\ emitted \in Seq(Event)
      /\ state = "Failed" => pc = "Idle"
  BY DEF Typed, TypeOK, QueueTypeOK, CallerTypeOK
<1>2. ASSUME InOrder, delivered' \in Seq(Event), held' \in Seq(Event), eventQueue' \in Seq(Event),
             InOrder',
             pc' = "Idle" => held' = <<>>,
             held' # <<>> => call' = "Next"
      PROVE  History'
  <2>1. held' \o eventQueue' \in Seq(Event)
    BY <1>2
  <2>2. emitted' = delivered' \o (held' \o eventQueue')
    BY <1>2, Associative, ZenonT(60)
  <2>3. IsPrefix(delivered', emitted')
    BY <1>2, <2>1, <2>2, PrefixOfConcat
  <2>. QED  BY <1>2, <2>3 DEF History, DeliveredInOrder
<1>3. CASE InParser
  <2>1. /\ pc = "Parse" /\ UNCHANGED <<pc, call, held, reply, delivered>>
        /\ UNCHANGED queueVars \/ \E event \in Event : ValidOrder(event.kind) /\ Enqueue(event)
    BY <1>3, InParserStep DEF ParserStep, QueueStep, callerVars
  <2>2. InOrder
    BY <2>1 DEF History, DeliveredInOrder
  <2>3. CASE UNCHANGED queueVars
    BY <1>1, <1>2, <2>1, <2>2, <2>3 DEF queueVars, History
  <2>4. ASSUME NEW event \in Event, Enqueue(event)
        PROVE  History'
    <3>1. /\ eventQueue' = eventQueue \o <<event>> /\ emitted' = emitted \o <<event>>
          /\ <<event>> \in Seq(Event) /\ eventQueue' \in Seq(Event)
      BY <1>1, <2>4, AppendIsConcat DEF Enqueue
    <3>2. delivered \o held \in Seq(Event)
      BY <1>1
    <3>3. (delivered \o held) \o (eventQueue \o <<event>>)
            = ((delivered \o held) \o eventQueue) \o <<event>>
      BY <1>1, <3>1, <3>2, Associative, SMTT(30)
    <3>4. UNCHANGED <<delivered, held>>
      BY <2>1
    <3>5. InOrder'
      BY <2>2, <3>1, <3>3, <3>4
    <3>. QED  BY <1>1, <1>2, <2>1, <2>2, <3>1, <3>5 DEF History
  <2>. QED  BY <2>1, <2>3, <2>4
<1>4. CASE NextAccepted
  <2>1. pc = "Idle" /\ state # "Failed" /\ held = <<>> /\ call' = "Next" /\ pc' = "Pump"
        /\ UNCHANGED <<delivered, emitted>>
    BY <1>4 DEF NextAccepted, History
  <2>2. InOrder
    BY <2>1 DEF History, DeliveredInOrder
  <2>3. delivered \o eventQueue = emitted
    BY <1>1, <2>1, <2>2, ConcatEmptySeq
  <2>4. CASE eventQueue = <<>>
    <3>1. held' = held /\ eventQueue' = eventQueue
      BY <1>4, <2>1, <2>4 DEF NextAccepted
    <3>. QED  BY <1>1, <1>2, <2>1, <2>2, <3>1
  <2>5. CASE eventQueue # <<>>
    <3>1. /\ held' = <<Head(eventQueue)>> /\ eventQueue' = Tail(eventQueue)
          /\ held' \in Seq(Event) /\ eventQueue' \in Seq(Event)
          /\ eventQueue = held' \o eventQueue'
      BY <1>1, <1>4, <2>5, HeadAndTail DEF NextAccepted
    <3>2. (delivered \o held') \o eventQueue' = delivered \o (held' \o eventQueue')
      <4>1. delivered \in Seq(Event) /\ held' \in Seq(Event) /\ eventQueue' \in Seq(Event)
        BY <1>1, <3>1
      <4>. QED  BY <4>1, Associative
    <3>3. InOrder'
      BY <2>1, <2>3, <3>1, <3>2
    <3>. QED  BY <1>1, <1>2, <2>1, <2>2, <3>1, <3>3
  <2>. QED  BY <2>4, <2>5
<1>5. CASE ReturnEvent
  <2>1. /\ pc = "Reply" /\ pc' = "Idle" /\ held' = <<>> /\ emitted' = emitted
        /\ held \o eventQueue # <<>>
        /\ delivered' = Append(delivered, Head(held \o eventQueue))
        /\ eventQueue' = IF held = <<>> THEN Tail(eventQueue) ELSE eventQueue
    BY <1>5 DEF ReturnEvent, Answer
  <2>2. InOrder
    BY <2>1 DEF History, DeliveredInOrder
  <2>. DEFINE rest == held \o eventQueue
  <2>3. rest \in Seq(Event) /\ rest # <<>> /\ delivered \o rest = emitted
    <3>1. rest \in Seq(Event) /\ (delivered \o held) \o eventQueue = delivered \o rest
      BY <1>1, Associative
    <3>. QED  BY <2>1, <2>2, <3>1
  <2>4. Head(rest) \in Event /\ Tail(rest) \in Seq(Event) /\ rest = <<Head(rest)>> \o Tail(rest)
    <3>. HIDE DEF rest
    <3>. QED  BY <2>3, HeadAndTail
  <2>5. eventQueue' = Tail(rest)
    <3>1. CASE held = <<>>
      BY <1>1, <2>1, <3>1, ConcatEmptySeq
    <3>2. CASE held # <<>>
      BY <1>1, <2>1, <3>2, WithoutFirst DEF Typed, TypeOK, CallerTypeOK
    <3>. QED  BY <3>1, <3>2
  <2>6. delivered' = delivered \o <<Head(rest)>> /\ <<Head(rest)>> \in Seq(Event)
    BY <1>1, <2>1, <2>4, AppendIsConcat
  <2>7. delivered' \o eventQueue' = emitted' /\ delivered' \in Seq(Event)
    <3>. HIDE DEF rest
    <3>1. /\ (delivered \o <<Head(rest)>>) \o Tail(rest) = delivered \o (<<Head(rest)>> \o Tail(rest))
          /\ delivered \o <<Head(rest)>> \in Seq(Event)
      <4>. DEFINE first == <<Head(rest)>>
                  others == Tail(rest)
      <4>1. delivered \in Seq(Event) /\ first \in Seq(Event) /\ others \in Seq(Event)
        BY <1>1, <2>4, <2>6
      <4>. HIDE DEF first, others
      <4>2. /\ (delivered \o first) \o others = delivered \o (first \o others)
            /\ delivered \o first \in Seq(Event)
        BY <4>1, Associative
      <4>. QED  BY <4>2 DEF first, others
    <3>. QED  BY <2>1, <2>3, <2>4, <2>5, <2>6, <3>1
  <2>8. held' \in Seq(Event) /\ eventQueue' \in Seq(Event)
    <3>1. <<>> \in Seq(Event)
      BY EmptySeq
    <3>. QED  BY <2>1, <2>4, <2>5, <3>1
  <2>9. delivered' \o held' = delivered'
    BY <2>1, <2>7, ConcatEmptySeq
  <2>. QED  BY <1>2, <2>1, <2>2, <2>7, <2>8, <2>9
<1>6. CASE ReturnOk \/ ReturnNoEvent
  <2>1. /\ pc = "Reply" /\ held' = <<>> /\ held = <<>>
        /\ UNCHANGED <<delivered, eventQueue, emitted>>
    BY <1>6 DEF ReturnOk, ReturnNoEvent, Answer, History
  <2>2. InOrder
    BY <2>1 DEF History, DeliveredInOrder
  <2>. QED  BY <1>1, <1>2, <2>1, <2>2
<1>7. CASE state' = "Failed" /\ pc' = "Idle" /\ held' = <<>> /\ UNCHANGED <<delivered, emitted>>
  BY <1>7 DEF History, DeliveredInOrder
<1>8. CASE /\ UNCHANGED <<delivered, held, eventQueue, emitted>>
           /\ pc' = "Idle" => pc = "Idle"
           /\ call' = call \/ pc = "Idle"
           /\ (pc' # "Idle" \/ state' # "Failed") => (pc # "Idle" \/ state # "Failed")
  BY <1>8 DEF History, DeliveredInOrder
<1>9. CASE (\E size \in Chunks : FeedAccepted(size) \/ FeedOverLimit(size))
             \/ FeedOrFinishRejected \/ FinishAccepted \/ NextRejected \/ TakeDiagnostics
  BY <1>8, <1>9 DEF FeedAccepted, FeedOverLimit, FeedOrFinishRejected, FinishAccepted,
     NextRejected, TakeDiagnostics, Refuse, queueVars, coordinatorVars, callerVars
<1>10. CASE Pump
  <2>1. CASE PumpResumes \/ PumpFinishes \/ PumpFeedsChunk \/ PumpSkipsResume \/ PumpDone
    BY <1>8, <2>1 DEF PumpResumes, PumpFinishes, PumpFeedsChunk, PumpSkipsResume, PumpDone,
       queueVars, coordinatorVars
  <2>2. CASE PumpResumeFails
    BY <1>7, <2>2 DEF PumpResumeFails, PumpFails, queueVars
  <2>. QED  BY <1>10, <2>1, <2>2 DEF Pump
<1>11. CASE ParserReturns \/ ParserReturnsEarly \/ ParserThrows
  BY <1>7, <1>8, <1>11 DEF ParserReturns, ParserReturnsEarly, ParserThrows, PumpFails,
     queueVars, coordinatorVars
<1>12. CASE UNCHANGED vars
  BY <1>8, <1>12 DEF vars, queueVars, coordinatorVars, callerVars
<1>. QED
  BY <1>3, <1>4, <1>5, <1>6, <1>9, <1>10, <1>11, <1>12 DEF Next, Feed, Parse, Return, InParser

LEMMA InitHistory ==
  ASSUME Init
  PROVE  History
<1>1. /\ pc = "Idle" /\ held = <<>> /\ delivered = <<>> /\ eventQueue = <<>> /\ emitted = <<>>
  BY DEF Init
<1>2. <<>> \in Seq(Event) /\ <<>> \o <<>> = <<>>
  BY EmptySeq, ConcatEmptySeq
<1>3. IsPrefix(<<>>, <<>>)
  BY <1>2, PrefixOfConcat
<1>. QED  BY <1>1, <1>2, <1>3 DEF History, DeliveredInOrder

\* Until pump() throws, the events handed out, held by next() and queued are those that the
\* coordinator accepted, in this order; after it, the caller has received a prefix of them.
THEOREM EventsInOrder == Spec => []DeliveredInOrder
<1>1. Init => Typed /\ History
  BY InitTyped, InitHistory
<1>2. Typed /\ History /\ [Next]_vars => Typed' /\ History'
  BY TypedStep, HistoryStep
<1>3. History => DeliveredInOrder
  BY DEF History
<1>. QED  BY <1>1, <1>2, <1>3, PTL DEF Spec
=============================================================================
