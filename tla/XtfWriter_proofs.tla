---------------------------- MODULE XtfWriter_proofs ----------------------------
(***************************************************************************)
(* Proofs about XtfWriter, for every dialect writer, every sink and every  *)
(* set of events: types, the order of the events, that a failure or a      *)
(* close is final, that a parser understands the output as the writer      *)
(* means it, that events are balanced, and that a closed document is       *)
(* complete.                                                               *)
(***************************************************************************)
EXTENDS XtfWriter, SequenceTheorems, FiniteSetTheorems, TLAPS

-----------------------------------------------------------------------------
(* The parser's document *)

LEMMA BindingsType ==
  /\ NothingDeclared \in Bindings /\ OnlyXml \in Bindings
  /\ \A b, d \in Bindings : Bind(b, d) \in Bindings
  BY PrefixAssumption, NamespaceAssumption DEF Bindings, NothingDeclared, OnlyXml, Bind

LEMMA NamesType ==
  ASSUME NEW b \in Bindings, NEW n \in Lexical
  PROVE  ElementName(b, n) \in Expanded /\ AttributeName(b, n) \in Expanded
  BY NamespaceAssumption, PrefixAssumption
     DEF Bindings, Lexical, Expanded, ElementName, AttributeName

LEMMA InScopeType ==
  ASSUME NEW d \in Document
  PROVE  InScope(d) \in Bindings
<1>1. CASE d.open = <<>>
  BY <1>1, BindingsType DEF InScope
<1>2. CASE d.open # <<>>
  <2>1. d.open \in Seq(Scope) /\ Len(d.open) \in 1 .. Len(d.open)
    BY <1>2 DEF Document
  <2>2. d.open[Len(d.open)] \in Scope
    BY <2>1
  <2>. QED  BY <1>2, <2>2 DEF InScope, Scope
<1>. QED  BY <1>1, <1>2

StartToken == [tag : {"start", "empty"}, name : Lexical, declares : Bindings,
               attributes : Seq(Lexical)]

LEMMA ReadStartType ==
  ASSUME NEW d \in Document, NEW t \in StartToken
  PROVE  ReadStart(d, t) \in Document
<1>. DEFINE b == Bind(InScope(d), t.declares)
            attrs == Attributes(b, t)
            scope == [name |-> t.name, bindings |-> b]
            node == [tag |-> "start", name |-> ElementName(b, t.name), attributes |-> attrs]
<1>1. /\ t.name \in Lexical /\ t.declares \in Bindings /\ t.attributes \in Seq(Lexical)
      /\ d.open \in Seq(Scope) /\ d.nodes \in Seq(Node) /\ d.wellFormed \in BOOLEAN
  BY DEF StartToken, Document
<1>2. b \in Bindings
  BY <1>1, InScopeType, BindingsType
<1>3. \A i \in DOMAIN t.attributes : t.attributes[i] \in Lexical
  BY <1>1
<1>4. attrs \in Seq(Expanded)
  <2>1. \A i \in DOMAIN t.attributes : AttributeName(b, t.attributes[i]) \in Expanded
    BY <1>2, <1>3, NamesType
  <2>2. DOMAIN t.attributes = 1 .. Len(t.attributes) /\ Len(t.attributes) \in Nat
    BY <1>1
  <2>. HIDE DEF b
  <2>. QED  BY <2>1, <2>2 DEF Attributes
<1>5. scope \in Scope /\ node \in Node
  <2>. HIDE DEF b
  <2>1. ElementName(b, t.name) \in Expanded
    BY <1>1, <1>2, NamesType
  <2>. HIDE DEF attrs
  <2>. QED  BY <1>1, <1>2, <1>4, <2>1 DEF Scope, Node
<1>6. Append(d.open, scope) \in Seq(Scope) /\ Append(d.nodes, node) \in Seq(Node)
  <2>. HIDE DEF scope, node
  <2>. QED  BY <1>1, <1>5
<1>7. (d.wellFormed /\ LegalStart(d, t, b)) \in BOOLEAN
  OBVIOUS
<1>8. PICK w \in BOOLEAN :
        ReadStart(d, t) = [open |-> Append(d.open, scope), rootSeen |-> TRUE,
                           wellFormed |-> w, nodes |-> Append(d.nodes, node)]
  BY <1>7 DEF ReadStart
<1>. HIDE DEF scope, node
<1>. QED  BY <1>6, <1>8 DEF Document

LEMMA ReadEndType ==
  ASSUME NEW d \in Document, NEW name
  PROVE  ReadEnd(d, name) \in Document
<1>1. CASE d.open = <<>> \/ d.open[Len(d.open)].name # name
  BY <1>1 DEF ReadEnd, Document
<1>2. CASE ~(d.open = <<>> \/ d.open[Len(d.open)].name # name)
  <2>1. d.open \in Seq(Scope) /\ d.open # <<>> /\ d.nodes \in Seq(Node)
    BY <1>2 DEF Document
  <2>2. SubSeq(d.open, 1, Len(d.open) - 1) \in Seq(Scope)
    BY <2>1
  <2>3. [tag |-> "end"] \in Node
    BY DEF Node
  <2>4. Append(d.nodes, [tag |-> "end"]) \in Seq(Node)
    BY <2>1, <2>3
  <2>. QED  BY <1>2, <2>2, <2>4 DEF ReadEnd, Document
<1>. QED  BY <1>1, <1>2

LEMMA ReadTextType ==
  ASSUME NEW d \in Document
  PROVE  Read(d, [tag |-> "text"]) \in Document
<1>1. [tag |-> "text"] \in Node /\ d.nodes \in Seq(Node)
  BY DEF Node, Document
<1>2. Append(d.nodes, [tag |-> "text"]) \in Seq(Node)
  BY <1>1
<1>3. Read(d, [tag |-> "text"]) = [d EXCEPT !.wellFormed = d.wellFormed /\ d.open # <<>>,
                                           !.nodes = Append(d.nodes, [tag |-> "text"])]
  BY DEF Read
<1>4. (d.wellFormed /\ d.open # <<>>) \in BOOLEAN
  OBVIOUS
<1>. QED  BY <1>2, <1>3, <1>4 DEF Document

LEMMA ReadType ==
  ASSUME NEW d \in Document
  PROVE  /\ \A t \in StartToken : Read(d, t) \in Document
         /\ \A name : Read(d, [tag |-> "end", name |-> name]) \in Document
<1>1. ASSUME NEW t \in StartToken
      PROVE  Read(d, t) \in Document
  <2>1. t.tag \in {"start", "empty"}
    BY DEF StartToken
  <2>2. Read(d, t) \in {ReadStart(d, t), ReadEnd(ReadStart(d, t), t.name)}
    BY <2>1 DEF Read
  <2>. QED  BY <2>2, ReadStartType, ReadEndType
<1>2. ASSUME NEW name
      PROVE  Read(d, [tag |-> "end", name |-> name]) \in Document
  BY ReadEndType DEF Read
<1>. QED  BY <1>1, <1>2
-----------------------------------------------------------------------------
(* The XML writer's elements *)

LEMMA FrameType ==
  ASSUME NEW f \in Frame
  PROVE  /\ f.name \in XmlName /\ f.prefix \in Prefixes
         /\ f.bindings \in Bindings /\ f.declared \in Bindings
         /\ f.attributes \in Seq(Attribute) /\ f.startPending \in BOOLEAN
         /\ [f EXCEPT !.startPending = FALSE] \in Frame
  BY DEF Frame

LEMMA TopType ==
  ASSUME frames \in Seq(Frame), frames # <<>>
  PROVE  Top \in Frame /\ Depth \in 1 .. Len(frames)
  BY DEF Top, Depth

LEMMA ReplaceTopType ==
  ASSUME frames \in Seq(Frame), frames # <<>>, NEW f \in Frame
  PROVE  ReplaceTop(f) \in Seq(Frame)
  BY DEF ReplaceTop, Depth

LEMMA InheritedType ==
  ASSUME frames \in Seq(Frame)
  PROVE  Inherited \in Bindings
  BY TopType, BindingsType, FrameType DEF Inherited

LEMMA FlushedType ==
  ASSUME frames \in Seq(Frame)
  PROVE  FlushedFrames \in Seq(Frame)
<1>1. CASE frames = <<>>
  BY <1>1 DEF FlushedFrames
<1>2. CASE frames # <<>>
  BY <1>2, TopType, FrameType, ReplaceTopType DEF FlushedFrames, FlushedTop
<1>. QED  BY <1>1, <1>2

LEMMA LexicalType ==
  ASSUME NEW p \in Prefixes, NEW name \in XmlName
  PROVE  [prefix |-> p, local |-> name.local] \in Lexical
<1>1. name.local \in STRING
  BY DEF XmlName
<1>. QED  BY <1>1 DEF Lexical

LEMMA StartTagType ==
  ASSUME NEW f \in Frame, NEW tag \in {"start", "empty"}
  PROVE  StartTag(f, tag) \in StartToken
<1>. DEFINE attrs == [i \in DOMAIN f.attributes |-> [prefix |-> f.attributes[i].prefix,
                                                     local |-> f.attributes[i].name.local]]
<1>1. f.attributes \in Seq(Attribute)
  BY FrameType
<1>2. \A i \in DOMAIN f.attributes :
        [prefix |-> f.attributes[i].prefix, local |-> f.attributes[i].name.local] \in Lexical
  <2>1. \A i \in DOMAIN f.attributes :
          f.attributes[i].name \in XmlName /\ f.attributes[i].prefix \in Prefixes
    <3>1. \A i \in DOMAIN f.attributes : f.attributes[i] \in Attribute
      BY <1>1
    <3>. QED  BY <3>1 DEF Attribute
  <2>. QED  BY <2>1, LexicalType
<1>3. attrs \in Seq(Lexical)
  <2>1. DOMAIN f.attributes = 1 .. Len(f.attributes) /\ Len(f.attributes) \in Nat
    BY <1>1
  <2>. QED  BY <1>2, <2>1
<1>4. [prefix |-> f.prefix, local |-> f.name.local] \in Lexical
  BY FrameType, LexicalType
<1>5. StartTag(f, tag) = [tag |-> tag, name |-> [prefix |-> f.prefix, local |-> f.name.local],
                          declares |-> f.declared, attributes |-> attrs]
  BY DEF StartTag
<1>6. f.declared \in Bindings
  BY FrameType
<1>. HIDE DEF attrs
<1>. QED  BY <1>3, <1>4, <1>5, <1>6 DEF StartToken

LEMMA AfterFlushStartType ==
  ASSUME XmlTypeOK
  PROVE  AfterFlushStart \in Document
<1>1. frames \in Seq(Frame) /\ document \in Document
  BY DEF XmlTypeOK
<1>2. CASE frames # <<>> /\ Top.startPending
  <2>1. StartTag(Top, "start") \in StartToken
    BY <1>1, <1>2, TopType, StartTagType
  <2>. QED  BY <1>1, <1>2, <2>1, ReadType DEF AfterFlushStart
<1>3. CASE ~(frames # <<>> /\ Top.startPending)
  BY <1>1, <1>3 DEF AfterFlushStart
<1>. QED  BY <1>2, <1>3

LEMMA AfterCallType ==
  ASSUME XmlTypeOK, NEW c \in XmlCall, ~Refused(c)
  PROVE  AfterCall(c) \in Document
<1>1. document \in Document /\ frames \in Seq(Frame)
  BY DEF XmlTypeOK
<1>. AfterFlushStart \in Document
  BY AfterFlushStartType
<1>2. c.op \in {"startDocument", "endElement", "startElement", "writeAttribute",
                "writeNamespace", "text"}
  BY DEF XmlCall
<1>3. CASE c.op \in {"startDocument", "writeNamespace", "writeAttribute"}
  BY <1>1, <1>3 DEF AfterCall
<1>4. CASE c.op = "startElement"
  BY <1>1, <1>4 DEF AfterCall
<1>5. CASE c.op = "text"
  BY <1>1, <1>5, ReadTextType DEF AfterCall
<1>6. CASE c.op = "endElement"
  <2>1. frames # <<>>
    BY <1>6 DEF Refused
  <2>2. Top \in Frame
    BY <1>1, <2>1, TopType
  <2>3. CASE Top.startPending
    BY <1>1, <1>6, <2>2, <2>3, StartTagType, ReadType DEF AfterCall
  <2>4. CASE ~Top.startPending
    BY <1>1, <1>6, <2>4, ReadType DEF AfterCall
  <2>. QED  BY <2>3, <2>4
<1>. QED  BY <1>2, <1>3, <1>4, <1>5, <1>6

LEMMA PartOfType ==
  ASSUME XmlTypeOK, NEW c, NEW d \in PartOf(c)
  PROVE  d \in Document
  BY AfterFlushStartType DEF PartOf, XmlTypeOK

\* The prefix for a name is a prefix, as long as there are enough of them.
LEMMA PrefixForType ==
  ASSUME NEW b \in Bindings, NEW name \in XmlName, NEW attribute \in BOOLEAN,
         nextPrefix \in 0 .. Len(Generated),
         Generates(b, name, attribute) => FirstFree(b) # {}
  PROVE  PrefixFor(b, name, attribute) \in Prefixes
<1>1. CASE name.ns \in {NoNamespace, XmlNamespace}
  BY <1>1, PrefixAssumption, NamespaceAssumption DEF PrefixFor
<1>2. CASE name.ns \notin {NoNamespace, XmlNamespace}
  <2>1. CASE FollowsHint(b, name)
    BY <1>2, <2>1 DEF PrefixFor, XmlName
  <2>2. CASE ~FollowsHint(b, name) /\ UsesDefault(b, name, attribute)
    BY <1>2, <2>2, PrefixAssumption DEF PrefixFor
  <2>3. CASE /\ ~FollowsHint(b, name) /\ ~UsesDefault(b, name, attribute)
             /\ BoundTo(b, name.ns, attribute) # {}
    <3>1. (CHOOSE p \in BoundTo(b, name.ns, attribute) : TRUE) \in BoundTo(b, name.ns, attribute)
      BY <2>3
    <3>. QED  BY <1>2, <2>3, <3>1 DEF PrefixFor, BoundTo
  <2>4. CASE /\ ~FollowsHint(b, name) /\ ~UsesDefault(b, name, attribute)
             /\ BoundTo(b, name.ns, attribute) = {}
    <3>1. FirstFree(b) # {}
      BY <1>2, <2>4 DEF Generates
    <3>2. (CHOOSE n \in FirstFree(b) : TRUE) \in FirstFree(b)
      BY <3>1
    <3>3. \A n \in FirstFree(b) : Generated[n] \in Prefixes
      BY GeneratedAssumption DEF FirstFree
    <3>. QED  BY <1>2, <2>4, <3>2, <3>3 DEF PrefixFor
  <2>. QED  BY <2>1, <2>2, <2>3, <2>4
<1>. QED  BY <1>1, <1>2

LEMMA AddDeclarationType ==
  ASSUME NEW f \in Frame, NEW parent, NEW p \in Prefixes, NEW ns \in Namespaces
  PROVE  AddDeclaration(f, parent, p, ns) \in Frame
<1>1. [f.bindings EXCEPT ![p] = ns] \in Bindings /\ [f.declared EXCEPT ![p] = ns] \in Bindings
  BY FrameType DEF Bindings
<1>2. [f EXCEPT !.bindings[p] = ns, !.declared[p] = ns]
        = [f EXCEPT !.bindings = [f.bindings EXCEPT ![p] = ns],
                    !.declared = [f.declared EXCEPT ![p] = ns]]
  BY DEF Frame
<1>3. [f EXCEPT !.bindings = [f.bindings EXCEPT ![p] = ns],
                !.declared = [f.declared EXCEPT ![p] = ns]] \in Frame
  BY <1>1 DEF Frame
<1>. QED  BY <1>2, <1>3 DEF AddDeclaration

LEMMA NamedType ==
  ASSUME NEW f \in Frame, NEW parent, NEW name \in XmlName, NEW attribute \in BOOLEAN,
         nextPrefix \in 0 .. Len(Generated),
         Generates(f.bindings, name, attribute) => FirstFree(f.bindings) # {}
  PROVE  Named(f, parent, name, attribute) \in Frame
  BY PrefixForType, AddDeclarationType, FrameType DEF Named, XmlName
-----------------------------------------------------------------------------
(* The calls of the XML writer keep the types *)

LEMMA TakePrefixType ==
  ASSUME nextPrefix \in 0 .. Len(Generated), NEW b, NEW name, NEW attribute,
         TakePrefix(b, name, attribute)
  PROVE  /\ nextPrefix' \in 0 .. Len(Generated)
         /\ Generates(b, name, attribute) => FirstFree(b) # {}
<1>1. Len(Generated) \in Nat
  BY GeneratedAssumption
<1>2. CASE Generates(b, name, attribute)
  BY <1>1, <1>2 DEF TakePrefix, FirstFree
<1>3. CASE ~Generates(b, name, attribute)
  BY <1>3 DEF TakePrefix
<1>. QED  BY <1>2, <1>3

LEMMA StartElementType ==
  ASSUME XmlTypeOK, NEW name \in XmlName, StartElement(name)
  PROVE  /\ frames' \in Seq(Frame) /\ nextPrefix' \in 0 .. Len(Generated)
         /\ rootStarted' \in BOOLEAN /\ xmlState' = xmlState
<1>. DEFINE f == NewFrame(name)
            p == PrefixFor(f.bindings, name, FALSE)
            g == Named(f, Inherited, name, FALSE)
<1>1. frames \in Seq(Frame) /\ nextPrefix \in 0 .. Len(Generated)
  BY DEF XmlTypeOK
<1>2. f \in Frame
  <2>1. <<>> \in Seq(Attribute)
    OBVIOUS
  <2>. QED  BY <1>1, <2>1, InheritedType, BindingsType, PrefixAssumption DEF NewFrame, Frame
<1>3. /\ frames' = Append(FlushedFrames, [g EXCEPT !.prefix = p])
      /\ TakePrefix(f.bindings, name, FALSE)
      /\ rootStarted' = TRUE /\ xmlState' = xmlState
  BY DEF StartElement
<1>. HIDE DEF f
<1>4. /\ nextPrefix' \in 0 .. Len(Generated)
      /\ Generates(f.bindings, name, FALSE) => FirstFree(f.bindings) # {}
  BY <1>1, <1>3, TakePrefixType
<1>5. g \in Frame
  BY <1>1, <1>2, <1>4, NamedType
<1>6. p \in Prefixes
  BY <1>1, <1>2, <1>4, PrefixForType, FrameType
<1>. HIDE DEF g, p
<1>7. [g EXCEPT !.prefix = p] \in Frame
  BY <1>5, <1>6 DEF Frame
<1>8. Append(FlushedFrames, [g EXCEPT !.prefix = p]) \in Seq(Frame)
  BY <1>1, <1>7, FlushedType
<1>. QED  BY <1>3, <1>4, <1>8

LEMMA WriteAttributeType ==
  ASSUME XmlTypeOK, frames # <<>>, NEW name \in XmlName, WriteAttribute(name)
  PROVE  /\ frames' \in Seq(Frame) /\ nextPrefix' \in 0 .. Len(Generated)
         /\ UNCHANGED <<xmlState, rootStarted>>
<1>. DEFINE p == PrefixFor(Top.bindings, name, TRUE)
            g == Named(Top, ParentBindings, name, TRUE)
            a == [name |-> name, prefix |-> p]
<1>1. frames \in Seq(Frame) /\ nextPrefix \in 0 .. Len(Generated)
  BY DEF XmlTypeOK
<1>2. Top \in Frame
  BY <1>1, TopType
<1>3. /\ frames' = ReplaceTop([g EXCEPT !.attributes = Append(@, a)])
      /\ TakePrefix(Top.bindings, name, TRUE)
      /\ UNCHANGED <<xmlState, rootStarted>>
  BY DEF WriteAttribute
<1>4. /\ nextPrefix' \in 0 .. Len(Generated)
      /\ Generates(Top.bindings, name, TRUE) => FirstFree(Top.bindings) # {}
  BY <1>1, <1>3, TakePrefixType
<1>5. g \in Frame
  BY <1>1, <1>2, <1>4, NamedType
<1>6. p \in Prefixes
  BY <1>1, <1>2, <1>4, PrefixForType, FrameType
<1>. HIDE DEF g, p
<1>7. Append(g.attributes, a) \in Seq(Attribute)
  <2>1. a \in Attribute
    BY <1>6 DEF Attribute
  <2>2. g.attributes \in Seq(Attribute)
    BY <1>5, FrameType
  <2>. HIDE DEF a
  <2>. QED  BY <2>1, <2>2
<1>. HIDE DEF a
<1>8. [g EXCEPT !.attributes = Append(@, a)] \in Frame
  BY <1>5, <1>7 DEF Frame
<1>. QED  BY <1>1, <1>3, <1>4, <1>8, ReplaceTopType

LEMMA WriteNamespaceType ==
  ASSUME XmlTypeOK, frames # <<>>, NEW p \in Prefixes, NEW ns \in Namespaces,
         WriteNamespace(p, ns)
  PROVE  frames' \in Seq(Frame) /\ UNCHANGED <<xmlState, nextPrefix, rootStarted>>
<1>1. frames \in Seq(Frame)
  BY DEF XmlTypeOK
<1>2. AddDeclaration(Top, ParentBindings, p, ns) \in Frame
  BY <1>1, TopType, AddDeclarationType
<1>. QED  BY <1>1, <1>2, ReplaceTopType DEF WriteNamespace

LEMMA XmlSucceedsType ==
  ASSUME XmlTypeOK, NEW c \in XmlCall, XmlSucceeds(c)
  PROVE  XmlTypeOK'
<1>1. /\ frames \in Seq(Frame) /\ nextPrefix \in 0 .. Len(Generated)
      /\ xmlState \in XmlState /\ rootStarted \in BOOLEAN /\ sink' = sink
      /\ sink \in {"open", "closed", "failed"}
  BY DEF XmlTypeOK, XmlSucceeds
<1>2. ~Refused(c) /\ document' = AfterCall(c)
  BY DEF XmlSucceeds
<1>3. document' \in Document
  BY <1>2, AfterCallType
<1>4. c.op # "startDocument" /\ c.op # "startElement" => frames # <<>>
  BY <1>2 DEF Refused, XmlCall
<1>5. CASE c.op = "startDocument" /\ StartDocument
  BY <1>1, <1>3, <1>5 DEF StartDocument, XmlTypeOK, XmlState
<1>6. CASE c.op = "startElement" /\ StartElement(c.name)
  <2>1. c.name \in XmlName
    BY <1>6 DEF XmlCall
  <2>. QED  BY <1>1, <1>3, <1>6, <2>1, StartElementType DEF XmlTypeOK
<1>7. CASE c.op = "writeNamespace" /\ WriteNamespace(c.prefix, c.ns)
  <2>1. c.prefix \in Prefixes /\ c.ns \in Namespaces
    BY <1>7 DEF XmlCall
  <2>. QED  BY <1>1, <1>3, <1>4, <1>7, <2>1, WriteNamespaceType DEF XmlTypeOK
<1>8. CASE c.op = "writeAttribute" /\ WriteAttribute(c.name)
  <2>1. c.name \in XmlName
    BY <1>8 DEF XmlCall
  <2>. QED  BY <1>1, <1>3, <1>4, <1>8, <2>1, WriteAttributeType DEF XmlTypeOK
<1>9. CASE c.op = "text" /\ Text
  <2>1. frames' \in Seq(Frame)
    BY <1>1, <1>4, <1>9, TopType, FrameType, ReplaceTopType DEF Text, FlushedTop
  <2>. QED  BY <1>1, <1>3, <1>9, <2>1 DEF Text, XmlTypeOK
<1>10. CASE c.op = "endElement" /\ EndElement
  <2>1. frames' \in Seq(Frame)
    BY <1>1, <1>4, <1>10 DEF EndElement, Depth
  <2>. QED  BY <1>1, <1>3, <1>10, <2>1 DEF EndElement, XmlTypeOK
<1>. QED  BY <1>5, <1>6, <1>7, <1>8, <1>9, <1>10 DEF XmlSucceeds

LEMMA XmlFailsType ==
  ASSUME XmlTypeOK, NEW c, XmlRefuses(c) \/ SinkFails(c)
  PROVE  XmlTypeOK'
<1>1. document' \in Document
  BY PartOfType DEF XmlRefuses, SinkFails
<1>2. CASE XmlRefuses(c)
  BY <1>1, <1>2 DEF XmlRefuses, XmlStops, XmlTypeOK, XmlState
<1>3. CASE SinkFails(c)
  BY <1>1, <1>3 DEF SinkFails, XmlTypeOK, XmlState
<1>. QED  BY <1>2, <1>3

LEMMA XmlUnchangedType ==
  ASSUME XmlTypeOK, UNCHANGED <<xmlVars, sinkVars>>
  PROVE  XmlTypeOK'
  BY DEF XmlTypeOK, xmlVars, sinkVars
-----------------------------------------------------------------------------
(* Types *)

CoordinatorTypeOK ==
  /\ state \in WriterState
  /\ writer \in Writers
  /\ running \in Seq(Events) /\ Len(running) <= 1
  /\ calls \in Seq(DialectCall)
  /\ written \in Seq(Events)
  /\ told \subseteq Severity
  /\ reply \in {"None", "Ok", "Error"}

LEMMA OneElement ==
  ASSUME NEW S, NEW s \in Seq(S), s # <<>>, Len(s) <= 1
  PROVE  Len(s) = 1
<1>1. Len(s) \in Nat /\ Len(s) # 0
  BY EmptySeq
<1>2. \A n \in Nat : n # 0 /\ n <= 1 => n = 1
  OBVIOUS
<1>. QED  BY <1>1, <1>2

LEMMA InitType == Init => TypeOK
<1>. SUFFICES ASSUME Init PROVE TypeOK
  OBVIOUS
<1>1. /\ <<>> \in Seq(Frame) /\ <<>> \in Seq(Scope) /\ <<>> \in Seq(Node)
      /\ <<>> \in Seq(Events) /\ <<>> \in Seq(DialectCall) /\ Len(<<>>) = 0
  OBVIOUS
<1>2. Len(Generated) \in Nat
  BY GeneratedAssumption
<1>3. NewDocument \in Document
  BY <1>1 DEF NewDocument, Document
<1>4. XmlTypeOK
  <2>1. /\ xmlState = "BeforeDocument" /\ frames = <<>> /\ nextPrefix = 0
        /\ rootStarted = FALSE /\ sink = "open" /\ document = NewDocument
    BY DEF Init, XmlInit
  <2>2. nextPrefix \in 0 .. Len(Generated)
    BY <1>2, <2>1
  <2>3. frames \in Seq(Frame) /\ document \in Document
    BY <1>1, <1>3, <2>1
  <2>. QED  BY <2>1, <2>2, <2>3 DEF XmlTypeOK, XmlState
<1>5. CoordinatorTypeOK
  BY <1>1, DialectAssumption DEF Init, CoordinatorTypeOK, WriterState
<1>. QED  BY <1>4, <1>5 DEF TypeOK, CoordinatorTypeOK

\* What a call leaves behind that throws, or returns at once.
LEMMA ThrowType ==
  ASSUME CoordinatorTypeOK, Throw, UNCHANGED <<writer, written, told>>
  PROVE  CoordinatorTypeOK'
<1>1. <<>> \in Seq(Events) /\ <<>> \in Seq(DialectCall) /\ Len(<<>>) = 0
  OBVIOUS
<1>. QED  BY <1>1 DEF Throw, CoordinatorTypeOK, WriterState

LEMMA CoordinatorUnchangedType ==
  ASSUME CoordinatorTypeOK, UNCHANGED <<writer, running, calls, written, told>>,
         state' \in {state, "Closed"}, reply' \in {reply, "Ok", "Error"}
  PROVE  CoordinatorTypeOK'
  BY DEF CoordinatorTypeOK, WriterState

LEMMA RefuseType ==
  ASSUME XmlTypeOK, CoordinatorTypeOK, Refuse
  PROVE  XmlTypeOK' /\ CoordinatorTypeOK'
  BY XmlUnchangedType, CoordinatorUnchangedType DEF Refuse

LEMMA NextType == TypeOK /\ [Next]_vars => TypeOK'
<1>. SUFFICES ASSUME XmlTypeOK, CoordinatorTypeOK, [Next]_vars
              PROVE  XmlTypeOK' /\ CoordinatorTypeOK'
  BY DEF TypeOK, CoordinatorTypeOK
<1>1. ASSUME NEW e \in Events, WriteOutOfOrder(e)
      PROVE  XmlTypeOK' /\ CoordinatorTypeOK'
  BY <1>1, XmlUnchangedType, ThrowType DEF WriteOutOfOrder
<1>2. ASSUME NEW e \in Events, WriteBegins(e)
      PROVE  XmlTypeOK' /\ CoordinatorTypeOK'
  <2>1. running' = <<e>> /\ calls' = CallsOf(writer, e)
        /\ UNCHANGED <<state, writer, written, told, reply, xmlVars, sinkVars>>
    BY <1>2 DEF WriteBegins
  <2>2. <<e>> \in Seq(Events) /\ Len(<<e>>) = 1
    OBVIOUS
  <2>3. CallsOf(writer, e) \in Seq(DialectCall)
    BY DialectAssumption DEF CoordinatorTypeOK
  <2>4. CoordinatorTypeOK'
    BY <2>1, <2>2, <2>3 DEF CoordinatorTypeOK
  <2>. QED  BY <2>1, <2>4, XmlUnchangedType
<1>3. CASE WriteRefused
  BY <1>3, RefuseType DEF WriteRefused
<1>4. CASE CallSucceeds
  <2>1. XmlTypeOK'
    BY <1>4, XmlSucceedsType DEF CallSucceeds
  <2>2. calls \in Seq(DialectCall) /\ calls # <<>>
    BY <1>4 DEF CallSucceeds, CoordinatorTypeOK
  <2>3. Tail(calls) \in Seq(DialectCall)
    BY <2>2
  <2>4. CoordinatorTypeOK'
    BY <1>4, <2>3 DEF CallSucceeds, CoordinatorTypeOK
  <2>. QED  BY <2>1, <2>4
<1>5. CASE CallReports
  <2>1. XmlTypeOK'
    BY <1>5, XmlUnchangedType DEF CallReports
  <2>2. calls \in Seq(DialectCall) /\ calls # <<>>
    BY <1>5 DEF CallReports, CoordinatorTypeOK
  <2>3. Tail(calls) \in Seq(DialectCall)
    BY <2>2
  <2>4. told' \subseteq Severity
    <3>1. Head(calls) \in DialectCall /\ Head(calls).op = "report"
      BY <1>5, <2>2 DEF CallReports
    <3>2. Head(calls).severity \in Severity
      BY <3>1 DEF DialectCall, XmlCall
    <3>. QED  BY <1>5, <3>2 DEF CallReports, CoordinatorTypeOK
  <2>5. CoordinatorTypeOK'
    BY <1>5, <2>3, <2>4 DEF CallReports, CoordinatorTypeOK
  <2>. QED  BY <2>1, <2>5
<1>6. CASE CallThrows
  <2>1. Throw /\ UNCHANGED <<writer, written, told>>
    BY <1>6 DEF CallThrows
  <2>2. \/ XmlRefuses(Head(calls)) \/ SinkFails(Head(calls))
        \/ UNCHANGED <<xmlVars, sinkVars>>
    BY <1>6 DEF CallThrows
  <2>. QED  BY <2>1, <2>2, ThrowType, XmlFailsType, XmlUnchangedType
<1>7. CASE WriteReturns
  <2>1. XmlTypeOK'
    BY <1>7, XmlUnchangedType DEF WriteReturns
  <2>2. running \in Seq(Events) /\ Len(running) = 1
    <3>1. running \in Seq(Events) /\ running # <<>> /\ Len(running) <= 1
      BY <1>7 DEF WriteReturns, Idle, CoordinatorTypeOK
    <3>. QED  BY <3>1, OneElement
  <2>3. running[1] \in Events
    BY <2>2
  <2>4. running[1].kind \in Kind
    BY <2>3, EventsAssumption
  <2>5. state' \in WriterState
    BY <1>7, <2>4 DEF WriteReturns, Advanced, Kind, WriterState, CoordinatorTypeOK
  <2>6. writer' \in Writers
    BY <1>7, <2>3, DialectAssumption DEF WriteReturns, CoordinatorTypeOK
  <2>7. written' \in Seq(Events)
    BY <1>7, <2>2 DEF WriteReturns, CoordinatorTypeOK
  <2>8. <<>> \in Seq(Events) /\ Len(<<>>) = 0
    OBVIOUS
  <2>9. CoordinatorTypeOK'
    BY <1>7, <2>5, <2>6, <2>7, <2>8 DEF WriteReturns, CoordinatorTypeOK
  <2>. QED  BY <2>1, <2>9
<1>8. CASE FlushRefusedInState
  BY <1>8, RefuseType DEF FlushRefusedInState
<1>9. CASE Flush
  <2>1. XmlTypeOK'
    <3>1. document' \in Document
      BY <1>9, AfterFlushStartType DEF Flush, FlushXml
    <3>2. frames' \in Seq(Frame)
      BY <1>9, FlushedType DEF Flush, FlushXml, XmlTypeOK
    <3>. QED  BY <1>9, <3>1, <3>2 DEF Flush, FlushXml, XmlTypeOK
  <2>. QED  BY <1>9, <2>1, CoordinatorUnchangedType DEF Flush
<1>10. CASE FlushFails
  <2>1. document' \in Document
    BY <1>10, AfterFlushStartType DEF FlushFails, XmlTypeOK
  <2>2. XmlTypeOK'
    BY <1>10, <2>1 DEF FlushFails, XmlStops, XmlTypeOK, XmlState
  <2>. QED  BY <1>10, <2>2, ThrowType DEF FlushFails
<1>11. CASE CloseAgain
  BY <1>11, XmlUnchangedType, CoordinatorUnchangedType DEF CloseAgain
<1>12. CASE CloseOfFailed
  BY <1>12, RefuseType DEF CloseOfFailed
<1>13. CASE CloseTooEarly
  BY <1>13, XmlUnchangedType, ThrowType DEF CloseTooEarly
<1>14. CASE Close
  <2>1. XmlTypeOK'
    BY <1>14 DEF Close, EndDocument, XmlTypeOK, XmlState
  <2>. QED  BY <1>14, <2>1, CoordinatorUnchangedType DEF Close
<1>15. CASE CloseFails
  <2>1. XmlTypeOK'
    BY <1>15 DEF CloseFails, XmlStops, XmlTypeOK, XmlState
  <2>. QED  BY <1>15, <2>1, ThrowType DEF CloseFails
<1>16. CASE UNCHANGED vars
  <2>1. UNCHANGED <<xmlVars, sinkVars>> /\ UNCHANGED coordinatorVars
    BY <1>16 DEF vars
  <2>. QED  BY <2>1, XmlUnchangedType, CoordinatorUnchangedType DEF coordinatorVars
<1>. QED  BY <1>1, <1>2, <1>3, <1>4, <1>5, <1>6, <1>7, <1>8, <1>9, <1>10, <1>11, <1>12, <1>13,
             <1>14, <1>15, <1>16 DEF Next

\* Every variable of the writer keeps its type: the XML writer's stack, the sink's document and
\* the calls still to make (XtfWriter.cpp, XmlWriter.cpp).
THEOREM TypeCorrect == Spec => []TypeOK
<1>. QED  BY InitType, NextType, PTL DEF Spec
-----------------------------------------------------------------------------
(* The order of the events *)

LastIn(kinds) == written # <<>> /\ written[Len(written)].kind \in kinds

\* The coordinator's state is what the events written so far have made of it, and an event
\* being written was valid in it.
InOrder ==
  /\ state = "BeforeTransfer" => written = <<>>
  /\ state = "InTransfer" => LastIn({"StartTransfer"})
  /\ state = "InBasket" => LastIn({"StartBasket", "Object"})
  /\ state = "AfterBasket" => LastIn({"EndBasket"})
  /\ state \in {"AfterTransfer", "Closed"} => LastIn({"EndTransfer"})
  /\ running = <<>> => calls = <<>>
  /\ running # <<>> => Valid(running[1].kind)

Inv == TypeOK /\ InOrder

LEMMA ThrowInOrder ==
  ASSUME InOrder, Throw, UNCHANGED <<writer, written, told>>
  PROVE  InOrder'
  BY DEF InOrder, Throw

LEMMA UnchangedInOrder ==
  ASSUME InOrder, UNCHANGED <<state, running, calls, written>>
  PROVE  InOrder'
  BY DEF InOrder, LastIn, Valid

\* The event has been written: it is the last one.
LEMMA WriteReturnsInOrder ==
  ASSUME Inv, WriteReturns
  PROVE  /\ running[1] \in Events /\ written' = Append(written, running[1])
         /\ Valid(running[1].kind) /\ state' = Advanced(running[1].kind)
         /\ written \in Seq(Events) /\ Len(written') = Len(written) + 1
         /\ written'[Len(written')] = running[1]
         /\ InOrder'
<1>1. /\ running \in Seq(Events) /\ Len(running) = 1 /\ running # <<>>
      /\ written \in Seq(Events) /\ calls = <<>>
  <2>1. running \in Seq(Events) /\ running # <<>> /\ Len(running) <= 1
    BY DEF WriteReturns, Idle, Inv, TypeOK
  <2>. QED  BY <2>1, OneElement DEF Inv, TypeOK, WriteReturns
<1>2. running = <<running[1]>> /\ running[1] \in Events
  BY <1>1
<1>3. written' = written \o <<running[1]>>
  BY <1>2 DEF WriteReturns
<1>4. written' = Append(written, running[1])
  BY <1>1, <1>2, <1>3
<1>5. Len(written') = Len(written) + 1 /\ written'[Len(written')] = running[1] /\ written' # <<>>
  BY <1>1, <1>2, <1>4
<1>6. Valid(running[1].kind) /\ state' = Advanced(running[1].kind)
  BY <1>1 DEF Inv, InOrder, WriteReturns
<1>7. running' = <<>> /\ calls' = <<>>
  BY <1>1 DEF WriteReturns
<1>9. \/ state' = "InTransfer" /\ running[1].kind = "StartTransfer"
      \/ state' = "InBasket" /\ running[1].kind \in {"StartBasket", "Object"}
      \/ state' = "AfterBasket" /\ running[1].kind = "EndBasket"
      \/ state' = "AfterTransfer" /\ running[1].kind = "EndTransfer"
  BY <1>6 DEF Valid, Advanced
<1>10. InOrder'
  BY <1>5, <1>7, <1>9 DEF InOrder, LastIn
<1>. QED  BY <1>1, <1>2, <1>4, <1>5, <1>6, <1>10

LEMMA NextInOrder == Inv /\ [Next]_vars => InOrder'
<1>. SUFFICES ASSUME Inv, [Next]_vars
              PROVE  InOrder'
  OBVIOUS
<1>. InOrder
  BY DEF Inv
<1>1. ASSUME NEW e \in Events, WriteOutOfOrder(e)
      PROVE  InOrder'
  BY <1>1, ThrowInOrder DEF WriteOutOfOrder
<1>2. ASSUME NEW e \in Events, WriteBegins(e)
      PROVE  InOrder'
  <2>1. running' = <<e>> /\ running' # <<>> /\ running'[1] = e
    BY <1>2 DEF WriteBegins
  <2>2. Valid(e.kind) /\ UNCHANGED <<state, written>>
    BY <1>2 DEF WriteBegins
  <2>3. Valid(running[1].kind)'
    BY <2>1, <2>2 DEF Valid
  <2>. QED  BY <2>1, <2>2, <2>3 DEF InOrder, LastIn
<1>3. CASE WriteRefused \/ FlushRefusedInState \/ CloseOfFailed
  BY <1>3, UnchangedInOrder DEF WriteRefused, FlushRefusedInState, CloseOfFailed, Refuse
<1>4. CASE CallSucceeds \/ CallReports
  <2>1. UNCHANGED <<state, running, written>> /\ calls # <<>>
    BY <1>4 DEF CallSucceeds, CallReports
  <2>2. running # <<>>
    BY <2>1 DEF InOrder
  <2>. QED  BY <2>1, <2>2 DEF InOrder, LastIn, Valid
<1>5. CASE CallThrows \/ FlushFails \/ CloseTooEarly \/ CloseFails
  BY <1>5, ThrowInOrder DEF CallThrows, FlushFails, CloseTooEarly, CloseFails
<1>6. CASE WriteReturns
  BY <1>6, WriteReturnsInOrder
<1>7. CASE Flush \/ CloseAgain
  BY <1>7, UnchangedInOrder DEF Flush, CloseAgain
<1>8. CASE Close
  BY <1>8 DEF Close, Idle, InOrder, LastIn, Valid
<1>9. CASE UNCHANGED vars
  BY <1>9, UnchangedInOrder DEF vars, coordinatorVars
<1>. QED  BY <1>1, <1>2, <1>3, <1>4, <1>5, <1>6, <1>7, <1>8, <1>9 DEF Next

LEMMA Inductive == Spec => []Inv
<1>1. Init => InOrder
  BY DEF Init, InOrder
<1>2. Init => Inv
  BY <1>1, InitType DEF Inv
<1>3. Inv /\ [Next]_vars => Inv'
  BY NextType, NextInOrder DEF Inv
<1>. QED  BY <1>2, <1>3, PTL DEF Spec
-----------------------------------------------------------------------------
(* The event stream, and the end *)

LEMMA PhaseOpen ==
  state \notin {"Failed", "Closed"} <=> Phase = "Open"
  BY DEF Phase

LEMMA StepImplements == Inv /\ [Next]_vars => [Stream!Next]_<<written, Phase>>
<1>. SUFFICES ASSUME Inv, [Next]_vars, ~UNCHANGED <<written, Phase>>
              PROVE  Stream!Next
  OBVIOUS
<1>. InOrder /\ TypeOK
  BY DEF Inv
<1>1. CASE WriteReturns
  <2>1. /\ running[1] \in Events /\ written' = Append(written, running[1])
        /\ Valid(running[1].kind) /\ state' = Advanced(running[1].kind)
        /\ Len(written') = Len(written) + 1 /\ written'[Len(written')] = running[1]
    BY <1>1, WriteReturnsInOrder
  <2>2. Phase = "Open" /\ Phase' = "Open"
    BY <2>1 DEF Valid, Advanced, Phase
  <2>3. Stream!MayFollow(written, running[1].kind)
    BY <2>1 DEF Valid, InOrder, LastIn, Stream!MayFollow, Stream!Follows
  <2>4. Stream!Deliver
    BY <2>1, <2>2, <2>3 DEF Stream!Deliver
  <2>. QED  BY <2>4 DEF Stream!Next
<1>2. CASE Close
  <2>1. Phase = "Open" /\ Phase' = "Ended" /\ written' = written
    BY <1>2 DEF Close, Phase
  <2>2. Stream!Complete(written)
    BY <1>2 DEF Close, InOrder, LastIn, Stream!Complete
  <2>. QED  BY <2>1, <2>2 DEF Stream!Next, Stream!End
<1>3. CASE Throw /\ UNCHANGED written /\ state \notin {"Closed", "Failed"}
  <2>1. Phase = "Open" /\ Phase' = "Failed" /\ written' = written
    BY <1>3 DEF Throw, Phase
  <2>. QED  BY <2>1 DEF Stream!Next, Stream!Fail
<1>4. ASSUME NEW e \in Events, WriteOutOfOrder(e)
      PROVE  Throw /\ UNCHANGED written /\ state \notin {"Closed", "Failed"}
  BY <1>4 DEF WriteOutOfOrder
<1>5. CASE CallThrows
  <2>1. Throw /\ UNCHANGED written /\ calls # <<>>
    BY <1>5 DEF CallThrows
  <2>2. state \notin {"Closed", "Failed"}
    BY <2>1 DEF InOrder, Valid
  <2>. QED  BY <1>3, <2>1, <2>2
<1>6. CASE FlushFails \/ CloseTooEarly \/ CloseFails
  BY <1>3, <1>6 DEF FlushFails, CloseTooEarly, CloseFails
<1>7. ~UNCHANGED <<state, written>>
  BY DEF Phase
<1>8. \A e \in Events : ~WriteBegins(e)
  BY <1>7 DEF WriteBegins
<1>9. ~(WriteRefused \/ FlushRefusedInState \/ CloseOfFailed \/ CallSucceeds \/ CallReports)
  BY <1>7 DEF WriteRefused, FlushRefusedInState, CloseOfFailed, Refuse, CallSucceeds, CallReports
<1>10. ~(Flush \/ CloseAgain \/ UNCHANGED vars)
  BY <1>7 DEF Flush, CloseAgain, vars, coordinatorVars
<1>11. \/ \E e \in Events : WriteOutOfOrder(e)
       \/ CallThrows \/ WriteReturns \/ Close
       \/ FlushFails \/ CloseTooEarly \/ CloseFails
  BY <1>8, <1>9, <1>10 DEF Next
<1>. QED  BY <1>1, <1>2, <1>3, <1>4, <1>5, <1>6, <1>11

\* Whatever the dialects do and however the sink fails, the events written are the beginning
\* of a transfer in the order of the grammar, and the writer closes only on a complete one.
THEOREM EventStreamTaken == Spec => TakesEventStream
<1>1. Init => Stream!StreamInit
  BY DEF Init, Stream!StreamInit, Phase
<1>2. Inv /\ [Next]_vars => [Stream!Next]_(Stream!streamVars)
  BY StepImplements DEF Stream!streamVars
<1>. QED  BY <1>1, <1>2, Inductive, PTL DEF Spec, TakesEventStream, Stream!Spec

LEMMA TerminalStepHolds ==
  ASSUME Inv, [Next]_vars, state \in {"Failed", "Closed"}
  PROVE  /\ UNCHANGED <<state, written, told, document, sink>>
         /\ UNCHANGED vars \/ (reply' = "Ok" => state = "Closed")
<1>. InOrder
  BY DEF Inv
<1>1. running = <<>> /\ calls = <<>>
  BY DEF InOrder, Valid
<1>2. CASE WriteRefused \/ FlushRefusedInState \/ CloseOfFailed
  BY <1>2 DEF WriteRefused, FlushRefusedInState, CloseOfFailed, Refuse, sinkVars
<1>3. CASE CloseAgain
  BY <1>3 DEF CloseAgain, sinkVars
<1>4. CASE UNCHANGED vars
  BY <1>4 DEF vars, coordinatorVars, sinkVars
<1>5. /\ \A e \in Events : ~WriteOutOfOrder(e) /\ ~WriteBegins(e)
      /\ ~CallSucceeds /\ ~CallReports /\ ~CallThrows /\ ~WriteReturns
      /\ ~Flush /\ ~FlushFails /\ ~CloseTooEarly /\ ~Close /\ ~CloseFails
  BY <1>1 DEF WriteOutOfOrder, WriteBegins, CallSucceeds, CallReports, CallThrows, WriteReturns,
              Flush, FlushFails, CloseTooEarly, Close, CloseFails, Idle
<1>. QED  BY <1>2, <1>3, <1>4, <1>5 DEF Next

\* After a failure or a close the writer accepts nothing but another close, and the sink gets
\* nothing more.
THEOREM TerminalHolds == Spec => Terminal
<1>1. Inv /\ [Next]_vars => [NothingMore]_vars
  BY TerminalStepHolds DEF NothingMore
<1>. QED  BY <1>1, Inductive, PTL DEF Spec, Terminal
-----------------------------------------------------------------------------
(* Names and namespaces: the elements of the writer, and those of the parser *)

\* What the element around the i-th one has in scope.
Outer(fs, i) == IF i = 1 THEN OnlyXml ELSE fs[i - 1].bindings

AttributeNamed(b, a) ==
  IF a.name.ns = NoNamespace THEN a.prefix = NoPrefix
  ELSE a.prefix # NoPrefix /\ b[a.prefix] = a.name.ns

\* An element has what its parent has in scope and what it declares.
InScopeOf(f, outer) ==
  /\ f.bindings = Bind(outer, f.declared)
  /\ f.bindings["xml"] = XmlNamespace
  /\ \A p \in Prefixes \ {NoPrefix} : f.declared[p] # NoNamespace

\* Its prefixes stand for the namespaces that were asked for, but for an element without namespace
\* below a default one.
FrameOK(f, outer) ==
  /\ InScopeOf(f, outer)
  /\ IF f.name.ns = NoNamespace THEN f.prefix = NoPrefix ELSE f.bindings[f.prefix] = f.name.ns
  /\ \A j \in DOMAIN f.attributes : AttributeNamed(f.bindings, f.attributes[j])
  /\ \A j, k \in DOMAIN f.attributes :
       (/\ f.attributes[j].name.ns = f.attributes[k].name.ns
        /\ f.attributes[j].name.local = f.attributes[k].name.local) => j = k

StackOK(fs) ==
  \A i \in 1 .. Len(fs) : /\ FrameOK(fs[i], Outer(fs, i))
                          /\ fs[i].startPending => i = Len(fs)

Markup ==
  /\ xmlState = "BeforeDocument" => frames = <<>>
  /\ frames # <<>> => rootStarted
  /\ StackOK(frames)

\* The n-th call of s has been made, and the start tag of the i-th may still be added to.
Declarable(s, i, n) ==
  /\ s[i].op = "startElement"
  /\ \A k \in i + 1 .. n : s[k].op \in {"writeNamespace", "report", "fail"}

\* How many calls of s have been made when `left' is what is left of it.
Made(s, left) == Len(s) - Len(left)

\* The calls left are the last ones of the event's, and a declaration finds the start tag it is for.
InPlan(s, n) ==
  /\ \A i \in 1 .. n : Declarable(s, i, n) =>
       /\ frames # <<>> /\ Top.startPending
       /\ Top.attributes = <<>> /\ Top.name = s[i].name
       /\ (i = 2 /\ s[1].op = "startDocument") => Depth = 1
  /\ (n = 1 /\ s[1].op = "startDocument") => frames = <<>>
Progress ==
  running # <<>> =>
    LET s == CallsOf(writer, running[1])
    IN  /\ Len(calls) <= Len(s)
        /\ \A i \in 1 .. Len(calls) : calls[i] = s[Made(s, calls) + i]
        /\ InPlan(s, Made(s, calls))

\* The parser has the elements whose start tag is written.
ScopeOf(f) == [name |-> [prefix |-> f.prefix, local |-> f.name.local], bindings |-> f.bindings]
Scopes(n) == [i \in 1 .. n |-> ScopeOf(frames[i])]
HasPending == frames # <<>> /\ Top.startPending
Sent == IF HasPending THEN Depth - 1 ELSE Depth
Mirrors ==
  /\ document.wellFormed
  /\ state # "Failed" =>
       /\ document.open = Scopes(Sent)
       /\ document.rootSeen <=> (rootStarted /\ (Sent = 0 => frames = <<>>))

\* An element without namespace has no default one, unless that is still to be undeclared.
Undefaulted(f) == f.name.ns = NoNamespace => f.bindings[NoPrefix] \in {Unbound, NoNamespace}
NoDefaults == Undeclares => \A i \in 1 .. Len(frames) : WillBeRead(frames[i]) => Undefaulted(frames[i])

\* g is f with p declared as ns.
WithPrefix(g, f, p, ns, outer) ==
  /\ g \in Frame
  /\ InScopeOf(g, outer)
  /\ g.bindings[p] = ns
  /\ \A q \in Prefixes \ {p} : g.bindings[q] = f.bindings[q]
  /\ g.name = f.name /\ g.prefix = f.prefix
  /\ g.attributes = f.attributes /\ g.startPending = f.startPending

\* A declaration is in scope afterwards, changes no other prefix, and leaves the rest alone.
LEMMA DeclarationKeeps ==
  ASSUME NEW f \in Frame, NEW outer \in Bindings, NEW parent,
         NEW p \in Prefixes, NEW ns \in Namespaces, ~Undeclarable(f, p, ns),
         InScopeOf(f, outer)
  PROVE  WithPrefix(AddDeclaration(f, parent, p, ns), f, p, ns, outer)
<1>. DEFINE g == AddDeclaration(f, parent, p, ns)
<1>. g = AddDeclaration(f, parent, p, ns)
  OBVIOUS
<1>. HIDE DEF g
<1>1. g \in Frame
  BY AddDeclarationType
<1>2. CASE g = f /\ f.bindings[p] = ns
  BY <1>1, <1>2 DEF WithPrefix
<1>3. CASE g = [f EXCEPT !.bindings[p] = ns, !.declared[p] = ns]
  <2>1. f.bindings \in Bindings /\ f.declared \in Bindings
    BY FrameType
  <2>2. /\ g.bindings = [f.bindings EXCEPT ![p] = ns]
        /\ g.declared = [f.declared EXCEPT ![p] = ns]
        /\ g.name = f.name /\ g.prefix = f.prefix
        /\ g.attributes = f.attributes /\ g.startPending = f.startPending
    BY <1>3 DEF Frame
  <2>3. /\ g.bindings[p] = ns /\ g.declared[p] = ns
        /\ \A q \in Prefixes \ {p} : g.bindings[q] = f.bindings[q] /\ g.declared[q] = f.declared[q]
    BY <2>1, <2>2 DEF Bindings
  <2>4. \A q \in Prefixes : g.bindings[q] = Bind(outer, g.declared)[q]
    <3>1. \A q \in Prefixes : f.bindings[q] = IF f.declared[q] = Unbound THEN outer[q] ELSE f.declared[q]
      BY DEF Bind, InScopeOf
    <3>2. ns # Unbound
      BY NamespaceAssumption
    <3>. QED  BY <2>3, <3>1, <3>2 DEF Bind
  <2>5. g.bindings = Bind(outer, g.declared)
    <3>1. g.bindings \in Bindings /\ Bind(outer, g.declared) \in Bindings
      BY <1>1, FrameType, BindingsType
    <3>. QED  BY <2>4, <3>1 DEF Bindings
  <2>6. g.bindings["xml"] = XmlNamespace
    BY <2>3, PrefixAssumption DEF Undeclarable, InScopeOf
  <2>7. \A q \in Prefixes \ {NoPrefix} : g.declared[q] # NoNamespace
    BY <2>3 DEF Undeclarable, InScopeOf
  <2>. QED  BY <1>1, <2>2, <2>3, <2>5, <2>6, <2>7 DEF InScopeOf, WithPrefix
<1>. QED  BY <1>2, <1>3 DEF AddDeclaration, g

\* The prefix of a name is the empty one for no namespace; that of an attribute stands for its
\* namespace already, or for nothing.
LEMMA PrefixForSound ==
  ASSUME NEW b \in Bindings, NEW name \in XmlName, NEW attribute \in BOOLEAN,
         nextPrefix \in 0 .. Len(Generated),
         Generates(b, name, attribute) => FirstFree(b) # {}
  PROVE  LET p == PrefixFor(b, name, attribute)
         IN  /\ p \in Prefixes
             /\ name.ns = NoNamespace => p = NoPrefix
             /\ name.ns = XmlNamespace => p = "xml"
             /\ attribute => (name.ns \notin {NoNamespace, XmlNamespace} =>
                                p # NoPrefix /\ b[p] \in {Unbound, name.ns})
<1>. DEFINE p == PrefixFor(b, name, attribute)
<1>1. p \in Prefixes
  BY PrefixForType
<1>2. name.ns = NoNamespace => p = NoPrefix
  BY NamespaceAssumption DEF PrefixFor
<1>3. name.ns = XmlNamespace => p = "xml"
  BY NamespaceAssumption DEF PrefixFor
<1>4. ASSUME attribute, name.ns \notin {NoNamespace, XmlNamespace}
      PROVE  p # NoPrefix /\ b[p] \in {Unbound, name.ns}
  <2>1. CASE FollowsHint(b, name)
    BY <1>4, <2>1 DEF PrefixFor, FollowsHint
  <2>2. ~UsesDefault(b, name, attribute)
    BY <1>4 DEF UsesDefault
  <2>3. CASE ~FollowsHint(b, name) /\ BoundTo(b, name.ns, attribute) # {}
    <3>1. (CHOOSE q \in BoundTo(b, name.ns, attribute) : TRUE) \in BoundTo(b, name.ns, attribute)
      BY <2>3
    <3>2. p \in BoundTo(b, name.ns, attribute)
      BY <1>4, <2>2, <2>3, <3>1 DEF PrefixFor
    <3>. QED  BY <1>4, <3>2 DEF BoundTo
  <2>4. CASE ~FollowsHint(b, name) /\ BoundTo(b, name.ns, attribute) = {}
    <3>1. FirstFree(b) # {}
      BY <1>4, <2>2, <2>4 DEF Generates
    <3>2. (CHOOSE n \in FirstFree(b) : TRUE) \in FirstFree(b)
      BY <3>1
    <3>3. PICK n \in FirstFree(b) : p = Generated[n]
      BY <1>4, <2>2, <2>4, <3>2 DEF PrefixFor
    <3>4. n \in 1 .. Len(Generated) /\ b[Generated[n]] = Unbound
      BY DEF FirstFree
    <3>5. Generated[n] # NoPrefix
      BY <3>4, GeneratedAssumption
    <3>. QED  BY <3>3, <3>4, <3>5
  <2>. QED  BY <2>1, <2>3, <2>4
<1>. QED  BY <1>1, <1>2, <1>3, <1>4

\* A new element.
LEMMA NewElementOK ==
  ASSUME frames \in Seq(Frame), Inherited["xml"] = XmlNamespace,
         nextPrefix \in 0 .. Len(Generated), NEW name \in XmlName,
         ~Unnameable(NewFrame(name), name, FALSE),
         TakePrefix(Inherited, name, FALSE),
         NEW g, g = [Named(NewFrame(name), Inherited, name, FALSE) EXCEPT
                       !.prefix = PrefixFor(Inherited, name, FALSE)]
  PROVE  /\ g \in Frame /\ FrameOK(g, Inherited)
         /\ g.name = name /\ g.attributes = <<>> /\ g.startPending = TRUE
<1>. DEFINE f == NewFrame(name)
            p == PrefixFor(Inherited, name, FALSE)
            h == Named(f, Inherited, name, FALSE)
<1>1. Inherited \in Bindings
  BY InheritedType
<1>2. f \in Frame
  <2>1. <<>> \in Seq(Attribute)
    OBVIOUS
  <2>. QED  BY <1>1, <2>1, BindingsType, PrefixAssumption DEF NewFrame, Frame
<1>3. /\ f.bindings = Inherited /\ f.declared = NothingDeclared /\ f.name = name
      /\ f.attributes = <<>> /\ f.startPending = TRUE
  BY DEF NewFrame
<1>4. f.bindings = Bind(Inherited, f.declared)
  BY <1>1, <1>3 DEF Bind, Bindings, NothingDeclared
<1>5. InScopeOf(f, Inherited)
  BY <1>3, <1>4, NamespaceAssumption DEF NothingDeclared, InScopeOf
<1>6. Generates(Inherited, name, FALSE) => FirstFree(Inherited) # {}
  BY TakePrefixType
<1>7. /\ p \in Prefixes
      /\ name.ns = NoNamespace => p = NoPrefix
      /\ name.ns = XmlNamespace => p = "xml"
  BY <1>1, <1>6, PrefixForSound
<1>8. name.ns \in Namespaces
  BY DEF XmlName
<1>. HIDE DEF p
<1>9. /\ h \in Frame
      /\ InScopeOf(h, Inherited)
      /\ name.ns # NoNamespace => h.bindings[p] = name.ns
      /\ h.name = name /\ h.attributes = <<>> /\ h.startPending = TRUE
  <2>1. CASE name.ns \in {NoNamespace, XmlNamespace}
    <3>1. h = f
      BY <2>1 DEF Named
    <3>. HIDE DEF f, h
    <3>. QED  BY <2>1, <3>1, <1>2, <1>3, <1>4, <1>5, <1>7
  <2>2. CASE name.ns \notin {NoNamespace, XmlNamespace}
    <3>1. h = AddDeclaration(f, Inherited, p, name.ns)
      BY <2>2, <1>3 DEF Named, p
    <3>2. ~Undeclarable(f, p, name.ns)
      BY <2>2, <1>3 DEF Unnameable, p
    <3>. HIDE DEF f, h
    <3>3. WithPrefix(h, f, p, name.ns, Inherited)
      BY <3>1, <3>2, <1>1, <1>2, <1>5, <1>7, <1>8, DeclarationKeeps
    <3>. QED  BY <3>3, <1>3 DEF WithPrefix
  <2>. QED  BY <2>1, <2>2
<1>10. g = [h EXCEPT !.prefix = p]
  BY DEF p
<1>. HIDE DEF f, h
<1>11. /\ g \in Frame /\ g.prefix = p
       /\ g.bindings = h.bindings /\ g.declared = h.declared
       /\ g.name = name /\ g.attributes = <<>> /\ g.startPending = TRUE
  BY <1>7, <1>9, <1>10 DEF Frame
<1>12. DOMAIN g.attributes = {}
  <2>1. DOMAIN <<>> = {}
    OBVIOUS
  <2>. QED  BY <1>11, <2>1
<1>13. InScopeOf(g, Inherited)
  BY <1>9, <1>11 DEF InScopeOf
<1>14. IF g.name.ns = NoNamespace THEN g.prefix = NoPrefix ELSE g.bindings[g.prefix] = g.name.ns
  BY <1>7, <1>9, <1>11
<1>. QED  BY <1>11, <1>12, <1>13, <1>14 DEF FrameOK

\* An attribute more.
WithAttribute(f, parent, name) ==
  [Named(f, parent, name, TRUE) EXCEPT
     !.attributes = Append(@, [name |-> name, prefix |-> PrefixFor(f.bindings, name, TRUE)])]

\* g has the name of f, and its prefixes still stand for what was asked for.
StillOK(g, f, outer) ==
  /\ g \in Frame
  /\ FrameOK(g, outer)
  /\ g.name = f.name
  /\ g.startPending = f.startPending
  /\ Undefaulted(f) => Undefaulted(g)

LEMMA AttributeKeeps ==
  ASSUME NEW f \in Frame, NEW outer \in Bindings, FrameOK(f, outer), NEW parent,
         nextPrefix \in 0 .. Len(Generated), NEW name \in XmlName,
         ~HasAttribute(f, name), ~Unnameable(f, name, TRUE),
         TakePrefix(f.bindings, name, TRUE),
         NEW g, g = WithAttribute(f, parent, name)
  PROVE  StillOK(g, f, outer)
<1>. DEFINE p == PrefixFor(f.bindings, name, TRUE)
            h == Named(f, parent, name, TRUE)
            a == [name |-> name, prefix |-> p]
<1>1. /\ f.bindings \in Bindings /\ f.attributes \in Seq(Attribute)
  BY FrameType
<1>2. /\ InScopeOf(f, outer)
      /\ IF f.name.ns = NoNamespace THEN f.prefix = NoPrefix ELSE f.bindings[f.prefix] = f.name.ns
      /\ \A j \in DOMAIN f.attributes : AttributeNamed(f.bindings, f.attributes[j])
      /\ \A j, k \in DOMAIN f.attributes :
           (/\ f.attributes[j].name.ns = f.attributes[k].name.ns
            /\ f.attributes[j].name.local = f.attributes[k].name.local) => j = k
  BY DEF FrameOK
<1>3. Generates(f.bindings, name, TRUE) => FirstFree(f.bindings) # {}
  BY TakePrefixType
<1>4. /\ p \in Prefixes
      /\ name.ns = NoNamespace => p = NoPrefix
      /\ name.ns = XmlNamespace => p = "xml"
      /\ name.ns \notin {NoNamespace, XmlNamespace} =>
           p # NoPrefix /\ f.bindings[p] \in {Unbound, name.ns}
  BY <1>1, <1>3, PrefixForSound
<1>5. name.ns \in Namespaces
  BY DEF XmlName
<1>. HIDE DEF p
\* No prefix that stands for something gets another meaning.
<1>6. /\ h \in Frame
      /\ InScopeOf(h, outer)
      /\ name.ns # NoNamespace => h.bindings[p] = name.ns
      /\ \A q \in Prefixes : f.bindings[q] # Unbound => h.bindings[q] = f.bindings[q]
      /\ h.bindings[NoPrefix] = f.bindings[NoPrefix]
      /\ h.name = f.name /\ h.prefix = f.prefix
      /\ h.attributes = f.attributes /\ h.startPending = f.startPending
  <2>1. CASE name.ns \in {NoNamespace, XmlNamespace}
    <3>1. h = f
      BY <2>1 DEF Named
    <3>. HIDE DEF h
    <3>. QED  BY <2>1, <3>1, <1>2, <1>4 DEF InScopeOf
  <2>2. CASE name.ns \notin {NoNamespace, XmlNamespace}
    <3>1. h = AddDeclaration(f, parent, p, name.ns)
      BY <2>2 DEF Named, p
    <3>2. ~Undeclarable(f, p, name.ns)
      BY <2>2 DEF Unnameable, p
    <3>. HIDE DEF h
    <3>3. /\ h \in Frame
          /\ InScopeOf(h, outer)
          /\ h.bindings[p] = name.ns
          /\ \A q \in Prefixes \ {p} : h.bindings[q] = f.bindings[q]
          /\ h.name = f.name /\ h.prefix = f.prefix
          /\ h.attributes = f.attributes /\ h.startPending = f.startPending
      <4>1. WithPrefix(h, f, p, name.ns, outer)
        BY <3>1, <3>2, <1>2, <1>4, <1>5, DeclarationKeeps
      <4>. QED  BY <4>1 DEF WithPrefix
    <3>4. \A q \in Prefixes : f.bindings[q] # Unbound => h.bindings[q] = f.bindings[q]
      BY <2>2, <3>3, <1>4
    <3>5. h.bindings[NoPrefix] = f.bindings[NoPrefix]
      BY <2>2, <3>3, <1>4, PrefixAssumption
    <3>. QED  BY <3>3, <3>4, <3>5
  <2>. QED  BY <2>1, <2>2
<1>7. g = [h EXCEPT !.attributes = Append(@, a)]
  BY DEF p, WithAttribute
<1>. HIDE DEF h
<1>8. a \in Attribute /\ a.name = name /\ a.prefix = p
  BY <1>4 DEF Attribute
<1>. HIDE DEF a
<1>9. /\ Append(f.attributes, a) \in Seq(Attribute)
      /\ Len(Append(f.attributes, a)) = Len(f.attributes) + 1
      /\ \A j \in 1 .. Len(f.attributes) : Append(f.attributes, a)[j] = f.attributes[j]
      /\ Append(f.attributes, a)[Len(f.attributes) + 1] = a
      /\ Len(f.attributes) \in Nat
  BY <1>1, <1>8
<1>10. /\ g \in Frame /\ g.attributes = Append(f.attributes, a)
       /\ g.bindings = h.bindings /\ g.declared = h.declared
       /\ g.name = f.name /\ g.prefix = f.prefix /\ g.startPending = f.startPending
  BY <1>6, <1>7, <1>9 DEF Frame
<1>11. \A j \in DOMAIN g.attributes :
         \/ j \in DOMAIN f.attributes /\ g.attributes[j] = f.attributes[j]
         \/ j = Len(f.attributes) + 1 /\ g.attributes[j] = a
  <2>. DEFINE s == Append(f.attributes, a)
  <2>1. /\ s \in Seq(Attribute) /\ Len(s) = Len(f.attributes) + 1 /\ g.attributes = s
        /\ \A j \in 1 .. Len(f.attributes) : s[j] = f.attributes[j]
        /\ s[Len(f.attributes) + 1] = a
    BY <1>9, <1>10
  <2>. HIDE DEF s
  <2>2. DOMAIN s = 1 .. Len(f.attributes) + 1
    BY <2>1, LenProperties
  <2>3. DOMAIN f.attributes = 1 .. Len(f.attributes)
    BY <1>1, LenProperties
  <2>4. \A j \in DOMAIN s : j \in 1 .. Len(f.attributes) \/ j = Len(f.attributes) + 1
    BY <2>2, <1>9
  <2>. QED  BY <2>1, <2>3, <2>4
<1>12. ASSUME NEW j \in DOMAIN f.attributes
       PROVE  AttributeNamed(g.bindings, f.attributes[j])
  <2>1. f.attributes[j] \in Attribute
    BY <1>1
  <2>2. f.attributes[j].name.ns \in Namespaces /\ f.attributes[j].prefix \in Prefixes
    BY <2>1 DEF Attribute, XmlName
  <2>3. AttributeNamed(f.bindings, f.attributes[j])
    BY <1>2
  <2>. QED  BY <2>2, <2>3, <1>6, <1>10, NamespaceAssumption DEF AttributeNamed
<1>13. AttributeNamed(g.bindings, a)
  BY <1>4, <1>6, <1>8, <1>10, PrefixAssumption, NamespaceAssumption DEF AttributeNamed
<1>14. \A j \in DOMAIN g.attributes : AttributeNamed(g.bindings, g.attributes[j])
  BY <1>11, <1>12, <1>13
<1>15. \A j, k \in DOMAIN g.attributes :
         (/\ g.attributes[j].name.ns = g.attributes[k].name.ns
          /\ g.attributes[j].name.local = g.attributes[k].name.local) => j = k
  <2>1. \A j \in DOMAIN f.attributes :
          ~(/\ f.attributes[j].name.ns = a.name.ns
            /\ f.attributes[j].name.local = a.name.local)
    BY <1>8 DEF HasAttribute
  <2>2. \A j, k \in DOMAIN f.attributes :
          (/\ f.attributes[j].name.ns = f.attributes[k].name.ns
           /\ f.attributes[j].name.local = f.attributes[k].name.local) => j = k
    BY <1>2
  <2>3. TAKE j, k \in DOMAIN g.attributes
  <2>4. CASE g.attributes[j] = a /\ g.attributes[k] # a
    BY <2>1, <2>4, <1>11
  <2>5. CASE g.attributes[j] # a /\ g.attributes[k] = a
    BY <2>1, <2>5, <1>11
  <2>6. CASE g.attributes[j] = a /\ g.attributes[k] = a
    BY <2>1, <2>6, <1>11
  <2>7. CASE g.attributes[j] # a /\ g.attributes[k] # a
    BY <2>2, <2>7, <1>11
  <2>. QED  BY <2>4, <2>5, <2>6, <2>7
<1>16. IF g.name.ns = NoNamespace THEN g.prefix = NoPrefix ELSE g.bindings[g.prefix] = g.name.ns
  <2>1. f.name.ns \in Namespaces /\ f.prefix \in Prefixes
    BY FrameType DEF XmlName
  <2>. QED  BY <2>1, <1>2, <1>6, <1>10, NamespaceAssumption
<1>17. FrameOK(g, outer)
  <2>1. InScopeOf(g, outer)
    BY <1>6, <1>10 DEF InScopeOf
  <2>. QED  BY <2>1, <1>14, <1>15, <1>16 DEF FrameOK
<1>18. Undefaulted(f) => Undefaulted(g)
  BY <1>6, <1>10 DEF Undefaulted
<1>. QED  BY <1>10, <1>17, <1>18 DEF StillOK

\* A namespace more: the element has no attribute, and either no namespace of its own or one
\* whose prefix it declares.
LEMMA NamespaceKeeps ==
  ASSUME NEW f \in Frame, NEW outer \in Bindings, FrameOK(f, outer), NEW parent,
         NEW p \in Prefixes, NEW ns \in Namespaces, ~Undeclarable(f, p, ns),
         f.attributes = <<>>,
         \/ f.name.ns = NoNamespace /\ p = NoPrefix /\ ns = NoNamespace
         \/ f.name.ns # NoNamespace /\ outer = OnlyXml,
         NEW g, g = AddDeclaration(f, parent, p, ns)
  PROVE  /\ g \in Frame /\ FrameOK(g, outer)
         /\ g.name = f.name /\ g.attributes = <<>> /\ g.startPending = f.startPending
         /\ Undefaulted(g)
<1>1. /\ InScopeOf(f, outer)
      /\ IF f.name.ns = NoNamespace THEN f.prefix = NoPrefix ELSE f.bindings[f.prefix] = f.name.ns
  BY DEF FrameOK
<1>2. /\ g \in Frame
      /\ InScopeOf(g, outer)
      /\ g.bindings[p] = ns
      /\ \A q \in Prefixes \ {p} : g.bindings[q] = f.bindings[q]
      /\ g.name = f.name /\ g.prefix = f.prefix
      /\ g.attributes = f.attributes /\ g.startPending = f.startPending
  <2>1. WithPrefix(g, f, p, ns, outer)
    BY <1>1, DeclarationKeeps
  <2>. QED  BY <2>1 DEF WithPrefix
<1>3. IF g.name.ns = NoNamespace THEN g.prefix = NoPrefix ELSE g.bindings[g.prefix] = g.name.ns
  <2>1. CASE f.name.ns = NoNamespace \/ f.prefix # p
    BY <1>1, <1>2, <2>1, FrameType
  <2>2. CASE f.name.ns # NoNamespace /\ f.prefix = p
    <3>1. f.bindings[p] = f.name.ns /\ outer = OnlyXml
      BY <1>1, <2>2
    <3>2. f.name.ns \in Namespaces
      BY FrameType DEF XmlName
    <3>3. f.bindings[p] = IF f.declared[p] = Unbound THEN OnlyXml[p] ELSE f.declared[p]
      BY <1>1, <3>1 DEF Bind, InScopeOf
    <3>4. OnlyXml["xml"] = XmlNamespace /\ \A q \in Prefixes \ {"xml"} : OnlyXml[q] = Unbound
      BY PrefixAssumption DEF OnlyXml, NothingDeclared
    <3>5. CASE p = "xml"
      BY <1>2, <2>2, <3>1, <3>5, <1>1 DEF InScopeOf
    <3>6. CASE p # "xml"
      <4>1. f.declared[p] = f.name.ns /\ f.declared[p] # Unbound
        BY <3>1, <3>2, <3>3, <3>4, <3>6, NamespaceAssumption
      <4>2. ns = f.name.ns
        BY <4>1 DEF Undeclarable
      <4>. QED  BY <1>2, <2>2, <4>2
    <3>. QED  BY <3>5, <3>6
  <2>. QED  BY <2>1, <2>2
<1>4. DOMAIN g.attributes = {}
  BY <1>2
<1>5. FrameOK(g, outer)
  BY <1>2, <1>3, <1>4 DEF FrameOK
<1>6. Undefaulted(g)
  BY <1>2 DEF Undefaulted
<1>. QED  BY <1>2, <1>5, <1>6
-----------------------------------------------------------------------------
(* The stack *)

Written(f) == [f EXCEPT !.startPending = FALSE]

LEMMA WrittenSame ==
  ASSUME NEW f \in Frame
  PROVE  /\ Written(f) \in Frame /\ ScopeOf(Written(f)) = ScopeOf(f)
         /\ Written(f).bindings = f.bindings /\ ~Written(f).startPending
         /\ \A outer : FrameOK(f, outer) => FrameOK(Written(f), outer)
         /\ Undefaulted(f) => Undefaulted(Written(f))
         /\ f.startPending = FALSE => Written(f) = f
<1>. DEFINE g == Written(f)
<1>1. /\ g \in Frame /\ g.name = f.name /\ g.prefix = f.prefix /\ g.bindings = f.bindings
      /\ g.declared = f.declared /\ g.attributes = f.attributes /\ g.startPending = FALSE
  BY DEF Frame, Written
<1>2. f.startPending = FALSE => g = f
  BY DEF Frame, Written
<1>. HIDE DEF g
<1>3. ScopeOf(g) = ScopeOf(f)
  BY <1>1 DEF ScopeOf
<1>4. \A outer : FrameOK(f, outer) => FrameOK(g, outer)
  BY <1>1 DEF FrameOK, InScopeOf
<1>5. Undefaulted(f) => Undefaulted(g)
  BY <1>1 DEF Undefaulted
<1>. QED  BY <1>1, <1>2, <1>3, <1>4, <1>5 DEF g

\* The start tag of the innermost element is written.
LEMMA StackFlushed ==
  ASSUME frames \in Seq(Frame), StackOK(frames), NEW fs, fs = FlushedFrames
  PROVE  /\ fs \in Seq(Frame) /\ Len(fs) = Len(frames)
         /\ \A i \in 1 .. Len(frames) : fs[i] = Written(frames[i])
         /\ \A i \in 1 .. Len(fs) : ~fs[i].startPending
         /\ StackOK(fs)
<1>1. fs \in Seq(Frame)
  BY FlushedType
<1>2. CASE frames = <<>>
  <2>1. fs = <<>> /\ Len(fs) = 0
    BY <1>2 DEF FlushedFrames
  <2>. QED  BY <1>1, <1>2, <2>1 DEF StackOK
<1>3. CASE frames # <<>>
  <2>1. /\ Len(frames) \in Nat /\ Len(frames) >= 1
        /\ \A i \in 1 .. Len(frames) : frames[i] \in Frame
    BY <1>3
  <2>2. fs = [frames EXCEPT ![Len(frames)] = Written(frames[Len(frames)])]
    BY <1>3 DEF FlushedFrames, FlushedTop, ReplaceTop, Top, Depth, Written
  <2>3. Len(fs) = Len(frames)
    BY <2>2
  <2>4. \A i \in 1 .. Len(frames) : frames[i].startPending \in BOOLEAN
    BY <2>1, FrameType
  <2>5. \A i \in 1 .. Len(frames) : i # Len(frames) => frames[i].startPending = FALSE
    BY <2>4 DEF StackOK
  <2>6. \A i \in 1 .. Len(frames) : i # Len(frames) => Written(frames[i]) = frames[i]
    BY <2>1, <2>5, WrittenSame
  <2>7. ASSUME NEW i \in 1 .. Len(frames)
        PROVE  fs[i] = Written(frames[i])
    <3>1. fs[i] = IF i = Len(frames) THEN Written(frames[Len(frames)]) ELSE frames[i]
      BY <2>1, <2>2
    <3>. QED  BY <3>1, <2>6
  <2>8. \A i \in 1 .. Len(fs) : ~fs[i].startPending
    <3>1. ASSUME NEW i \in 1 .. Len(frames)  PROVE ~fs[i].startPending
      <4>1. frames[i] \in Frame
        BY <2>1
      <4>2. ~Written(frames[i]).startPending
        BY <4>1, WrittenSame
      <4> QED BY <2>7, <4>2
    <3> QED BY <2>3, <3>1
  <2>9. ASSUME NEW i \in 1 .. Len(fs)
        PROVE  FrameOK(fs[i], Outer(fs, i))
    <3>1. FrameOK(frames[i], Outer(frames, i))
      BY <2>3 DEF StackOK
    <3>2. Outer(fs, i) = Outer(frames, i)
      <4>1. CASE i = 1
        BY <4>1 DEF Outer
      <4>2. CASE i # 1
        <5>1. i - 1 \in 1 .. Len(frames)
          BY <2>1, <2>3, <4>2
        <5>2. fs[i - 1].bindings = frames[i - 1].bindings
          BY <5>1, <2>1, <2>7, WrittenSame
        <5>. QED  BY <4>2, <5>2 DEF Outer
      <4>. QED  BY <4>1, <4>2
    <3>3. fs[i] = Written(frames[i]) /\ frames[i] \in Frame
      BY <2>1, <2>3, <2>7
    <3>. QED  BY <3>1, <3>2, <3>3, WrittenSame
  <2>. QED  BY <1>1, <2>3, <2>7, <2>8, <2>9 DEF StackOK
<1>. QED  BY <1>2, <1>3

\* An element more, one less, another one on top.
LEMMA StackPushed ==
  ASSUME NEW fs \in Seq(Frame), StackOK(fs), \A i \in 1 .. Len(fs) : ~fs[i].startPending,
         NEW g \in Frame,
         FrameOK(g, IF fs = <<>> THEN OnlyXml ELSE fs[Len(fs)].bindings)
  PROVE  /\ Append(fs, g) \in Seq(Frame) /\ Len(Append(fs, g)) = Len(fs) + 1
         /\ \A i \in 1 .. Len(fs) : Append(fs, g)[i] = fs[i]
         /\ Append(fs, g)[Len(fs) + 1] = g
         /\ StackOK(Append(fs, g))
<1>. DEFINE gs == Append(fs, g)
<1>1. /\ gs \in Seq(Frame) /\ Len(gs) = Len(fs) + 1
      /\ \A i \in 1 .. Len(fs) : gs[i] = fs[i]
      /\ gs[Len(fs) + 1] = g
      /\ Len(fs) \in Nat
  OBVIOUS
<1>. HIDE DEF gs
<1>2. ASSUME NEW i \in 1 .. Len(gs)
      PROVE  FrameOK(gs[i], Outer(gs, i)) /\ (gs[i].startPending => i = Len(gs))
  <2>1. CASE i <= Len(fs)
    <3>1. i \in 1 .. Len(fs) /\ gs[i] = fs[i]
      BY <1>1, <2>1
    <3>2. Outer(gs, i) = Outer(fs, i)
      <4>1. i # 1 => i - 1 \in 1 .. Len(fs)
        BY <1>1, <3>1
      <4>. QED  BY <4>1, <1>1 DEF Outer
    <3>. QED  BY <3>1, <3>2 DEF StackOK
  <2>2. CASE i = Len(fs) + 1
    <3>1. gs[i] = g
      BY <1>1, <2>2
    <3>2. CASE fs = <<>>
      <4>1. i = 1
        BY <2>2, <3>2
      <4>. QED  BY <1>1, <2>2, <3>1, <3>2, <4>1 DEF Outer
    <3>3. CASE fs # <<>>
      <4>1. Len(fs) # 0
        BY <3>3
      <4>2. i # 1 /\ i - 1 = Len(fs) /\ Len(fs) \in 1 .. Len(fs)
        BY <1>1, <2>2, <4>1
      <4>3. Outer(gs, i) = fs[Len(fs)].bindings
        BY <1>1, <4>2 DEF Outer
      <4>. QED  BY <1>1, <2>2, <3>1, <3>3, <4>3
    <3>. QED  BY <3>2, <3>3
  <2>. QED  BY <1>1, <2>1, <2>2
<1>3. StackOK(gs)
  BY <1>2 DEF StackOK
<1>. QED  BY <1>1, <1>3 DEF gs

LEMMA StackPopped ==
  ASSUME NEW fs \in Seq(Frame), StackOK(fs), fs # <<>>
  PROVE  LET gs == SubSeq(fs, 1, Len(fs) - 1)
         IN  /\ gs \in Seq(Frame) /\ Len(gs) = Len(fs) - 1
             /\ \A i \in 1 .. Len(gs) : gs[i] = fs[i] /\ ~gs[i].startPending
             /\ StackOK(gs)
<1>. DEFINE gs == SubSeq(fs, 1, Len(fs) - 1)
<1>1. Len(fs) \in Nat /\ Len(fs) >= 1
  BY EmptySeq
<1>2. /\ gs \in Seq(Frame) /\ Len(gs) = Len(fs) - 1
      /\ \A i \in 1 .. Len(gs) : gs[i] = fs[i]
  <2>1. \A i \in 1 .. Len(fs) - 1 : fs[i] \in Frame
    BY <1>1
  <2>2. Len(fs) - 1 \in Int /\ 1 \in Int
    BY <1>1
  <2>3. /\ gs \in Seq(Frame)
        /\ Len(gs) = IF 1 <= Len(fs) - 1 THEN (Len(fs) - 1) - 1 + 1 ELSE 0
        /\ \A i \in 1 .. (Len(fs) - 1) - 1 + 1 : gs[i] = fs[1 + i - 1]
    BY <2>1, <2>2, SubSeqProperties
  <2>. HIDE DEF gs
  <2>4. Len(gs) = Len(fs) - 1
    <3>1. \A k \in Nat : k >= 1 => (IF 1 <= k - 1 THEN (k - 1) - 1 + 1 ELSE 0) = k - 1
      OBVIOUS
    <3>. QED  BY <1>1, <2>3, <3>1
  <2>5. ASSUME NEW i \in 1 .. Len(gs)
        PROVE  gs[i] = fs[i]
    <3>1. i \in 1 .. (Len(fs) - 1) - 1 + 1 /\ 1 + i - 1 = i
      BY <1>1, <2>4
    <3>2. gs[i] = fs[1 + i - 1]
      BY <2>3, <3>1
    <3>. QED  BY <3>1, <3>2
  <2>. QED  BY <2>3, <2>4, <2>5
<1>. HIDE DEF gs
<1>3. \A i \in 1 .. Len(gs) : i \in 1 .. Len(fs) /\ i # Len(fs) /\ (i # 1 => i - 1 \in 1 .. Len(gs))
  BY <1>1, <1>2
<1>4. \A i \in 1 .. Len(gs) : ~gs[i].startPending
  BY <1>2, <1>3 DEF StackOK
<1>5. \A i \in 1 .. Len(gs) : Outer(gs, i) = Outer(fs, i)
  BY <1>2, <1>3 DEF Outer
<1>6. StackOK(gs)
  BY <1>2, <1>3, <1>4, <1>5 DEF StackOK
<1>. QED  BY <1>2, <1>4, <1>6 DEF gs

LEMMA StackReplaced ==
  ASSUME frames \in Seq(Frame), StackOK(frames), frames # <<>>,
         NEW g \in Frame, FrameOK(g, Outer(frames, Depth))
  PROVE  LET gs == ReplaceTop(g)
         IN  /\ gs \in Seq(Frame) /\ Len(gs) = Depth
             /\ \A i \in 1 .. Depth : gs[i] = IF i = Depth THEN g ELSE frames[i]
             /\ StackOK(gs)
<1>. DEFINE gs == ReplaceTop(g)
<1>1. Depth \in Nat /\ Depth >= 1 /\ Depth = Len(frames)
  BY EmptySeq DEF Depth
<1>2. /\ gs \in Seq(Frame) /\ Len(gs) = Depth
      /\ \A i \in 1 .. Depth : gs[i] = IF i = Depth THEN g ELSE frames[i]
  BY <1>1 DEF ReplaceTop
<1>. HIDE DEF gs
<1>3. ASSUME NEW i \in 1 .. Depth
      PROVE  Outer(gs, i) = Outer(frames, i)
  <2>1. i # 1 => (i - 1 \in 1 .. Depth /\ i - 1 # Depth)
    BY <1>1
  <2>. QED  BY <2>1, <1>2 DEF Outer
<1>4. StackOK(gs)
  BY <1>1, <1>2, <1>3 DEF StackOK
<1>. QED  BY <1>2, <1>4 DEF gs
-----------------------------------------------------------------------------
(* What the parser makes of a start tag *)

\* The start tag of an element is legal, and afterwards the parser has the element's bindings.
LEMMA StartIsRead ==
  ASSUME NEW f \in Frame, NEW d \in Document, d.wellFormed,
         FrameOK(f, InScope(d)), d.open = <<>> => ~d.rootSeen,
         NEW tag \in {"start", "empty"}
  PROVE  LET r == ReadStart(d, StartTag(f, tag))
         IN  /\ r.wellFormed /\ r.rootSeen
             /\ r.open = Append(d.open, ScopeOf(f))
<1>. DEFINE t == StartTag(f, tag)
            b == Bind(InScope(d), t.declares)
<1>1. /\ t.declares = f.declared
      /\ t.name = [prefix |-> f.prefix, local |-> f.name.local]
      /\ DOMAIN t.attributes = DOMAIN f.attributes
      /\ \A j \in DOMAIN f.attributes :
           t.attributes[j] = [prefix |-> f.attributes[j].prefix, local |-> f.attributes[j].name.local]
  BY DEF StartTag
<1>2. b = f.bindings
  BY <1>1 DEF FrameOK, InScopeOf
<1>3. /\ f.bindings \in Bindings /\ f.prefix \in Prefixes /\ f.name \in XmlName
      /\ f.attributes \in Seq(Attribute)
  BY FrameType
<1>. HIDE DEF t, b
<1>4. ElementName(b, t.name).ns # Unbound
  <2>1. f.name.ns \in Namespaces
    BY <1>3 DEF XmlName
  <2>2. f.prefix = NoPrefix \/ f.bindings[f.prefix] = f.name.ns
    BY DEF FrameOK
  <2>. QED  BY <1>1, <1>2, <2>1, <2>2, NamespaceAssumption DEF ElementName
<1>5. ASSUME NEW j \in DOMAIN f.attributes
      PROVE  /\ Attributes(b, t)[j].ns = f.attributes[j].name.ns
             /\ Attributes(b, t)[j].local = f.attributes[j].name.local
             /\ f.attributes[j].name.ns \in Namespaces
  <2>1. f.attributes[j] \in Attribute
    BY <1>3
  <2>2. f.attributes[j].name.ns \in Namespaces
    BY <2>1 DEF Attribute, XmlName
  <2>3. AttributeNamed(f.bindings, f.attributes[j])
    BY DEF FrameOK
  <2>4. Attributes(b, t)[j] = AttributeName(b, t.attributes[j])
    BY <1>1 DEF Attributes
  <2>5. /\ AttributeName(b, t.attributes[j]).ns = f.attributes[j].name.ns
        /\ AttributeName(b, t.attributes[j]).local = f.attributes[j].name.local
    <3>1. /\ t.attributes[j].prefix = f.attributes[j].prefix
          /\ t.attributes[j].local = f.attributes[j].name.local
      <4>1. t.attributes[j] = [prefix |-> f.attributes[j].prefix,
                               local |-> f.attributes[j].name.local]
        BY <1>1
      <4>. QED  BY <4>1
    <3>. QED  BY <1>2, <2>3, <3>1 DEF AttributeName, AttributeNamed
  <2>. QED  BY <2>2, <2>4, <2>5
<1>6. DOMAIN Attributes(b, t) = DOMAIN f.attributes
  BY <1>1 DEF Attributes
<1>7. \A j \in DOMAIN Attributes(b, t) :
        /\ Attributes(b, t)[j].ns # Unbound
        /\ \A k \in DOMAIN Attributes(b, t) : Attributes(b, t)[j] = Attributes(b, t)[k] => j = k
  <2>1. \A j, k \in DOMAIN f.attributes :
          (/\ f.attributes[j].name.ns = f.attributes[k].name.ns
           /\ f.attributes[j].name.local = f.attributes[k].name.local) => j = k
    BY DEF FrameOK
  <2>. QED  BY <1>5, <1>6, <2>1, NamespaceAssumption
<1>8. \A p \in Prefixes \ {NoPrefix} : t.declares[p] # NoNamespace
  BY <1>1 DEF FrameOK, InScopeOf
<1>9. LegalStart(d, t, b)
  BY <1>4, <1>7, <1>8 DEF LegalStart
<1>10. /\ ReadStart(d, t).open = Append(d.open, [name |-> t.name, bindings |-> b])
       /\ ReadStart(d, t).rootSeen = TRUE
       /\ ReadStart(d, t).wellFormed = (d.wellFormed /\ LegalStart(d, t, b))
  BY DEF ReadStart, b
<1>11. [name |-> t.name, bindings |-> b] = ScopeOf(f)
  BY <1>1, <1>2 DEF ScopeOf
<1>. QED  BY <1>9, <1>10, <1>11 DEF t

LEMMA ScopesProperties ==
  ASSUME frames \in Seq(Frame), NEW n \in Nat, n <= Len(frames)
  PROVE  /\ Scopes(n) \in Seq(Scope) /\ Len(Scopes(n)) = n
         /\ \A i \in 1 .. n : Scopes(n)[i] = ScopeOf(frames[i])
         /\ n < Len(frames) => Append(Scopes(n), ScopeOf(frames[n + 1])) = Scopes(n + 1)
         /\ n > 0 => SubSeq(Scopes(n), 1, n - 1) = Scopes(n - 1)
<1>1. \A i \in 1 .. Len(frames) : ScopeOf(frames[i]) \in Scope
  <2>1. TAKE i \in 1 .. Len(frames)
  <2>2. frames[i] \in Frame
    OBVIOUS
  <2>. QED  BY <2>2, FrameType, LexicalType DEF ScopeOf, Scope
<1>2. \A m \in Nat : m <= Len(frames) =>
        /\ Scopes(m) \in Seq(Scope) /\ Len(Scopes(m)) = m
        /\ \A i \in 1 .. m : Scopes(m)[i] = ScopeOf(frames[i])
  BY <1>1 DEF Scopes
<1>3. n < Len(frames) => Append(Scopes(n), ScopeOf(frames[n + 1])) = Scopes(n + 1)
  <2>. SUFFICES ASSUME n < Len(frames)
                PROVE  Append(Scopes(n), ScopeOf(frames[n + 1])) = Scopes(n + 1)
    OBVIOUS
  <2>. DEFINE s == Append(Scopes(n), ScopeOf(frames[n + 1]))
  <2>1. n + 1 \in 1 .. Len(frames) /\ ScopeOf(frames[n + 1]) \in Scope
    BY <1>1
  <2>2. /\ Scopes(n) \in Seq(Scope) /\ Len(Scopes(n)) = n
        /\ \A i \in 1 .. n : Scopes(n)[i] = ScopeOf(frames[i])
    BY <1>2
  <2>3. /\ s \in Seq(Scope) /\ Len(s) = n + 1
        /\ \A i \in 1 .. n : s[i] = Scopes(n)[i]
        /\ s[n + 1] = ScopeOf(frames[n + 1])
    BY <2>1, <2>2
  <2>4. /\ Scopes(n + 1) \in Seq(Scope) /\ Len(Scopes(n + 1)) = n + 1
        /\ \A i \in 1 .. n + 1 : Scopes(n + 1)[i] = ScopeOf(frames[i])
    BY <2>1, <1>2
  <2>. HIDE DEF s
  <2>5. \A i \in 1 .. n + 1 : s[i] = Scopes(n + 1)[i]
    BY <2>2, <2>3, <2>4
  <2>6. s = Scopes(n + 1)
    BY <2>3, <2>4, <2>5, SeqEqual
  <2>. QED  BY <2>6 DEF s
<1>4. n > 0 => SubSeq(Scopes(n), 1, n - 1) = Scopes(n - 1)
  <2>. SUFFICES ASSUME n > 0
                PROVE  SubSeq(Scopes(n), 1, n - 1) = Scopes(n - 1)
    OBVIOUS
  <2>. DEFINE s == SubSeq(Scopes(n), 1, n - 1)
  <2>1. /\ Scopes(n) \in Seq(Scope) /\ Len(Scopes(n)) = n
        /\ \A i \in 1 .. n : Scopes(n)[i] = ScopeOf(frames[i])
        /\ n - 1 \in Nat /\ n - 1 <= Len(frames)
    BY <1>2
  <2>2. /\ Scopes(n - 1) \in Seq(Scope) /\ Len(Scopes(n - 1)) = n - 1
        /\ \A i \in 1 .. n - 1 : Scopes(n - 1)[i] = ScopeOf(frames[i])
    BY <1>2, <2>1
  <2>3. s \in Seq(Scope) /\ Len(s) = n - 1 /\ \A i \in 1 .. n - 1 : s[i] = Scopes(n)[i]
    <3>1. \A i \in 1 .. n - 1 : Scopes(n)[i] \in Scope
      BY <2>1
    <3>2. n - 1 \in Int /\ 1 \in Int
      OBVIOUS
    <3>3. /\ s \in Seq(Scope)
          /\ Len(s) = IF 1 <= n - 1 THEN (n - 1) - 1 + 1 ELSE 0
          /\ \A i \in 1 .. (n - 1) - 1 + 1 : s[i] = Scopes(n)[1 + i - 1]
      BY <3>1, <3>2, SubSeqProperties
    <3>. HIDE DEF s
    <3>. QED  BY <3>3
  <2>. HIDE DEF s
  <2>4. \A i \in 1 .. n - 1 : s[i] = Scopes(n - 1)[i]
    BY <2>1, <2>2, <2>3
  <2>5. s = Scopes(n - 1)
    BY <2>2, <2>3, <2>4, SeqEqual
  <2>. QED  BY <2>5 DEF s
<1>. QED  BY <1>2, <1>3, <1>4
-----------------------------------------------------------------------------
(* The calls *)

LEMMA DepthProperties ==
  ASSUME XmlTypeOK, Markup
  PROVE  /\ frames \in Seq(Frame) /\ Depth \in Nat /\ Depth = Len(frames) /\ document \in Document
         /\ frames # <<>> <=> Depth > 0
         /\ frames # <<>> => Top \in Frame /\ Top = frames[Depth] /\ FrameOK(Top, Outer(frames, Depth))
         /\ \A i \in 1 .. Depth : frames[i] \in Frame
         /\ nextPrefix \in 0 .. Len(Generated)
<1>1. frames \in Seq(Frame) /\ Depth = Len(frames) /\ Depth \in Nat
  BY DEF XmlTypeOK, Depth
<1>2. frames # <<>> <=> Depth > 0
  BY <1>1, EmptySeq
<1>3. frames # <<>> => Top \in Frame /\ Top = frames[Depth] /\ FrameOK(Top, Outer(frames, Depth))
  BY <1>1, <1>2 DEF Top, Markup, StackOK
<1>4. \A i \in 1 .. Depth : frames[i] \in Frame
  BY <1>1
<1>. QED  BY <1>1, <1>2, <1>3, <1>4 DEF XmlTypeOK

\* The parser's scope is that of the writer's elements.
LEMMA ScopeIsMirrored ==
  ASSUME XmlTypeOK, Markup, Mirrors, state # "Failed", HasPending
  PROVE  InScope(document) = Outer(frames, Depth) /\ (document.open = <<>> <=> Depth = 1)
<1>1. /\ frames \in Seq(Frame) /\ Depth \in Nat /\ Depth = Len(frames) /\ Depth > 0
      /\ Sent = Depth - 1 /\ document.open = Scopes(Depth - 1)
  BY DepthProperties DEF HasPending, Mirrors, Sent
<1>2. Depth - 1 \in Nat /\ Depth - 1 <= Len(frames)
  BY <1>1
<1>3. /\ document.open \in Seq(Scope) /\ Len(document.open) = Depth - 1
      /\ \A i \in 1 .. Depth - 1 : document.open[i] = ScopeOf(frames[i])
  BY <1>1, <1>2, ScopesProperties
<1>4. CASE Depth = 1
  BY <1>3, <1>4 DEF InScope, Outer
<1>5. CASE Depth # 1
  <2>1. Depth - 1 \in 1 .. Depth - 1 /\ document.open # <<>>
    BY <1>1, <1>3, <1>5
  <2>2. InScope(document) = ScopeOf(frames[Depth - 1]).bindings
    BY <1>3, <2>1 DEF InScope
  <2>. QED  BY <1>5, <2>1, <2>2 DEF Outer, ScopeOf
<1>. QED  BY <1>4, <1>5

\* The pending start tag: the parser knows all elements afterwards.
LEMMA PendingIsRead ==
  ASSUME XmlTypeOK, Markup, Mirrors, state # "Failed", HasPending, NEW tag \in {"start", "empty"}
  PROVE  LET r == ReadStart(document, StartTag(Top, tag))
         IN  r \in Document /\ r.wellFormed /\ r.rootSeen /\ r.open = Scopes(Depth)
<1>. DEFINE r == ReadStart(document, StartTag(Top, tag))
<1>1. /\ frames \in Seq(Frame) /\ Depth \in Nat /\ Depth = Len(frames) /\ Depth > 0
      /\ Top \in Frame /\ Top = frames[Depth] /\ FrameOK(Top, Outer(frames, Depth))
      /\ document \in Document
  BY DepthProperties DEF HasPending
<1>2. /\ Sent = Depth - 1 /\ document.open = Scopes(Depth - 1) /\ document.wellFormed
      /\ document.rootSeen <=> (rootStarted /\ (Sent = 0 => frames = <<>>))
  BY DEF HasPending, Mirrors, Sent
<1>3. InScope(document) = Outer(frames, Depth) /\ (document.open = <<>> <=> Depth = 1)
  BY ScopeIsMirrored
<1>4. document.open = <<>> => ~document.rootSeen
  BY <1>1, <1>2, <1>3 DEF HasPending
<1>5. r.wellFormed /\ r.rootSeen /\ r.open = Append(document.open, ScopeOf(Top))
  BY <1>1, <1>2, <1>3, <1>4, StartIsRead
<1>6. r \in Document
  BY <1>1, StartTagType, ReadStartType
<1>7. Append(Scopes(Depth - 1), ScopeOf(frames[Depth])) = Scopes(Depth)
  <2>1. Depth - 1 \in Nat /\ Depth - 1 < Len(frames) /\ (Depth - 1) + 1 = Depth
    BY <1>1
  <2>. QED  BY <1>1, <2>1, ScopesProperties
<1>. HIDE DEF r
<1>8. r.open = Scopes(Depth)
  BY <1>1, <1>2, <1>5, <1>7
<1>. QED  BY <1>5, <1>6, <1>8 DEF r

LEMMA FlushIsRead ==
  ASSUME XmlTypeOK, Markup, Mirrors, state # "Failed"
  PROVE  /\ AfterFlushStart \in Document
         /\ AfterFlushStart.wellFormed
         /\ AfterFlushStart.open = Scopes(Depth)
         /\ AfterFlushStart.rootSeen <=> rootStarted
<1>1. CASE HasPending
  <2>1. AfterFlushStart = ReadStart(document, StartTag(Top, "start"))
    BY <1>1 DEF HasPending, AfterFlushStart, Read, StartTag
  <2>2. rootStarted
    BY <1>1 DEF HasPending, Markup
  <2>. QED  BY <1>1, <2>1, <2>2, PendingIsRead
<1>2. CASE ~HasPending
  <2>1. AfterFlushStart = document
    BY <1>2 DEF HasPending, AfterFlushStart
  <2>2. Sent = Depth
    BY <1>2 DEF Sent
  <2>3. Sent = 0 => frames = <<>>
    BY <2>2, DepthProperties
  <2>. QED  BY <2>1, <2>2, <2>3, DepthProperties DEF Mirrors
<1>. QED  BY <1>1, <1>2

LEMMA StartDocumentKeeps ==
  ASSUME XmlTypeOK, Markup, Mirrors, state # "Failed", state' = state,
         NEW c \in XmlCall, c.op = "startDocument", XmlSucceeds(c)
  PROVE  frames = <<>> /\ frames' = frames /\ Markup' /\ Mirrors'
<1>1. /\ xmlState = "BeforeDocument" /\ xmlState' = "InDocument"
      /\ UNCHANGED <<frames, nextPrefix, rootStarted>> /\ document' = document
  BY DEF XmlSucceeds, Refused, StartDocument, AfterCall
<1>2. frames = <<>>
  BY <1>1 DEF Markup
<1>. QED  BY <1>1, <1>2 DEF Markup, Mirrors, Sent, HasPending, Scopes, Depth, Top

LEMMA StartElementKeeps ==
  ASSUME XmlTypeOK, Markup, Mirrors, state # "Failed", state' = state,
         NEW c \in XmlCall, c.op = "startElement", XmlSucceeds(c)
  PROVE  /\ Len(frames') = Depth + 1
         /\ \A i \in 1 .. Depth : frames'[i] = Written(frames[i])
         /\ frames'[Depth + 1] \in Frame
         /\ frames'[Depth + 1].name = c.name /\ frames'[Depth + 1].attributes = <<>>
         /\ frames'[Depth + 1].startPending = TRUE
         /\ Markup' /\ Mirrors'
<1>. DEFINE g == [Named(NewFrame(c.name), Inherited, c.name, FALSE) EXCEPT
                    !.prefix = PrefixFor(Inherited, c.name, FALSE)]
            fs == FlushedFrames
<1>1. /\ xmlState = "InDocument" /\ xmlState' = xmlState /\ rootStarted' = TRUE
      /\ frames = <<>> => ~rootStarted
      /\ ~Unnameable(NewFrame(c.name), c.name, FALSE)
      /\ TakePrefix(Inherited, c.name, FALSE)
      /\ frames' = Append(fs, g)
      /\ document' = AfterFlushStart
  <2>1. ~Refused(c) /\ StartElement(c.name) /\ document' = AfterFlushStart
    BY DEF XmlSucceeds, AfterCall
  <2>2. xmlState = "InDocument" /\ ~(frames = <<>> /\ rootStarted)
        /\ ~Unnameable(NewFrame(c.name), c.name, FALSE)
    BY <2>1 DEF Refused
  <2>3. NewFrame(c.name).bindings = Inherited
    BY DEF NewFrame
  <2>. QED  BY <2>1, <2>2, <2>3 DEF StartElement
<1>2. c.name \in XmlName
  BY DEF XmlCall
<1>3. /\ frames \in Seq(Frame) /\ Depth \in Nat /\ Depth = Len(frames) /\ document \in Document
      /\ frames # <<>> <=> Depth > 0
      /\ frames # <<>> => Top \in Frame /\ Top = frames[Depth] /\ FrameOK(Top, Outer(frames, Depth))
      /\ \A i \in 1 .. Depth : frames[i] \in Frame
      /\ nextPrefix \in 0 .. Len(Generated)
  BY DepthProperties
<1>4. Inherited["xml"] = XmlNamespace
  <2>1. CASE frames = <<>>
    BY <2>1, PrefixAssumption DEF Inherited, OnlyXml, NothingDeclared
  <2>2. CASE frames # <<>>
    BY <2>2, <1>3 DEF Inherited, FrameOK, InScopeOf
  <2>. QED  BY <2>1, <2>2
<1>5. /\ g \in Frame /\ FrameOK(g, Inherited)
      /\ g.name = c.name /\ g.attributes = <<>> /\ g.startPending = TRUE
  BY <1>1, <1>2, <1>3, <1>4, NewElementOK
<1>6. /\ fs \in Seq(Frame) /\ Len(fs) = Depth
      /\ \A i \in 1 .. Depth : fs[i] = Written(frames[i])
      /\ \A i \in 1 .. Len(fs) : ~fs[i].startPending
      /\ StackOK(fs)
  BY <1>3, StackFlushed DEF Markup
<1>. HIDE DEF g, fs
<1>7. Inherited = IF fs = <<>> THEN OnlyXml ELSE fs[Len(fs)].bindings
  <2>1. CASE frames = <<>>
    <3>1. fs = <<>>
      BY <2>1, <1>3, <1>6
    <3>. QED  BY <2>1, <3>1 DEF Inherited
  <2>2. CASE frames # <<>>
    <3>1. Depth \in 1 .. Depth /\ fs # <<>>
      BY <2>2, <1>3, <1>6, EmptySeq
    <3>2. fs[Depth].bindings = Top.bindings
      BY <3>1, <2>2, <1>3, <1>6, WrittenSame
    <3>. QED  BY <2>2, <3>1, <3>2, <1>6 DEF Inherited
  <2>. QED  BY <2>1, <2>2
<1>8. /\ frames' \in Seq(Frame) /\ Len(frames') = Depth + 1
      /\ \A i \in 1 .. Depth : frames'[i] = fs[i]
      /\ frames'[Depth + 1] = g
      /\ StackOK(frames')
  BY <1>1, <1>5, <1>6, <1>7, StackPushed
<1>9. Markup'
  <2>1. StackOK(frames)'
    BY <1>8 DEF StackOK
  <2>. QED  BY <1>1, <2>1 DEF Markup
<1>10. \A i \in 1 .. Depth : ScopeOf(frames'[i]) = ScopeOf(frames[i])
  BY <1>3, <1>6, <1>8, WrittenSame
<1>11. HasPending' /\ Sent' = Depth /\ Depth' = Depth + 1
  <2>1. Depth' = Depth + 1
    BY <1>8 DEF Depth
  <2>2. Top' = g /\ frames' # <<>>
    BY <1>3, <1>8, <2>1 DEF Top
  <2>. QED  BY <1>3, <1>5, <2>1, <2>2 DEF HasPending, Sent
<1>12. Scopes(Sent)' = Scopes(Depth)
  BY <1>10, <1>11 DEF Scopes
<1>13. Mirrors'
  <2>1. /\ AfterFlushStart.wellFormed /\ AfterFlushStart.open = Scopes(Depth)
        /\ AfterFlushStart.rootSeen <=> rootStarted
    BY FlushIsRead
  <2>2. rootStarted <=> (Depth = 0 => FALSE)
    BY <1>1, <1>3 DEF Markup
  <2>3. frames' # <<>>
    BY <1>11 DEF HasPending
  <2>. QED  BY <1>1, <1>11, <1>12, <2>1, <2>2, <2>3 DEF Mirrors
<1>. QED  BY <1>5, <1>6, <1>8, <1>9, <1>13

\* The innermost element is replaced by one that is still pending: nothing is written.
LEMMA PendingReplaced ==
  ASSUME XmlTypeOK, Markup, Mirrors, state' = state,
         HasPending, NEW g \in Frame, FrameOK(g, Outer(frames, Depth)), g.startPending = Top.startPending,
         frames' = ReplaceTop(g), document' = document,
         UNCHANGED <<xmlState, rootStarted>>
  PROVE  /\ Len(frames') = Depth
         /\ \A i \in 1 .. Depth : frames'[i] = IF i = Depth THEN g ELSE frames[i]
         /\ Depth' = Depth /\ Top' = g /\ HasPending'
         /\ Markup' /\ Mirrors'
<1>1. /\ frames \in Seq(Frame) /\ Depth \in Nat /\ Depth = Len(frames) /\ Depth > 0
      /\ frames # <<>>
  BY DepthProperties DEF HasPending
<1>2. /\ frames' \in Seq(Frame) /\ Len(frames') = Depth
      /\ \A i \in 1 .. Depth : frames'[i] = IF i = Depth THEN g ELSE frames[i]
      /\ StackOK(frames')
  BY <1>1, StackReplaced DEF Markup
<1>3. Depth' = Depth /\ Top' = g /\ frames' # <<>> /\ HasPending' /\ Sent' = Sent /\ Sent = Depth - 1
  <2>1. Depth' = Depth
    BY <1>2 DEF Depth
  <2>2. frames' # <<>> /\ Top' = g
    BY <1>1, <1>2, <2>1 DEF Top
  <2>3. g.startPending
    BY DEF HasPending
  <2>. QED  BY <2>1, <2>2, <2>3 DEF HasPending, Sent
<1>4. StackOK(frames)'
  BY <1>2 DEF StackOK
<1>5. Markup'
  BY <1>1, <1>4 DEF Markup
<1>6. Scopes(Sent)' = Scopes(Sent)
  <2>1. \A i \in 1 .. Depth - 1 : i \in 1 .. Depth /\ i # Depth
    BY <1>1
  <2>2. \A i \in 1 .. Depth - 1 : frames'[i] = frames[i]
    BY <1>2, <2>1
  <2>. QED  BY <1>3, <2>2 DEF Scopes
<1>7. Mirrors'
  BY <1>1, <1>3, <1>6 DEF Mirrors
<1>. QED  BY <1>2, <1>3, <1>5, <1>7

LEMMA WriteAttributeKeeps ==
  ASSUME XmlTypeOK, Markup, Mirrors, state' = state,
         NEW c \in XmlCall, c.op = "writeAttribute", XmlSucceeds(c)
  PROVE  /\ HasPending /\ Len(frames') = Depth
         /\ \A i \in 1 .. Depth : i # Depth => frames'[i] = frames[i]
         /\ (Undefaulted(Top) => Undefaulted(frames'[Depth]))
         /\ Markup' /\ Mirrors'
<1>. DEFINE g == WithAttribute(Top, ParentBindings, c.name)
<1>1. /\ HasPending /\ ~HasAttribute(Top, c.name) /\ ~Unnameable(Top, c.name, TRUE)
      /\ frames' = ReplaceTop(g) /\ TakePrefix(Top.bindings, c.name, TRUE)
      /\ document' = document /\ UNCHANGED <<xmlState, rootStarted>>
  <2>1. ~Refused(c) /\ WriteAttribute(c.name) /\ document' = document
    BY DEF XmlSucceeds, AfterCall
  <2>2. /\ frames # <<>> /\ Top.startPending
        /\ ~HasAttribute(Top, c.name) /\ ~Unnameable(Top, c.name, TRUE)
    BY <2>1 DEF Refused
  <2>. QED  BY <2>1, <2>2 DEF WriteAttribute, HasPending, WithAttribute
<1>2. c.name \in XmlName
  BY DEF XmlCall
<1>3. /\ Depth \in Nat /\ Depth > 0 /\ frames # <<>>
      /\ Top \in Frame /\ FrameOK(Top, Outer(frames, Depth))
      /\ nextPrefix \in 0 .. Len(Generated)
  BY <1>1, DepthProperties DEF HasPending
<1>4. Outer(frames, Depth) \in Bindings
  <2>1. \A i \in 1 .. Depth : frames[i] \in Frame
    BY DepthProperties
  <2>2. Depth # 1 => Depth - 1 \in 1 .. Depth
    BY <1>3
  <2>3. Depth # 1 => frames[Depth - 1].bindings \in Bindings
    BY <2>1, <2>2, FrameType
  <2>. QED  BY <2>3, BindingsType DEF Outer
<1>5. /\ g \in Frame /\ FrameOK(g, Outer(frames, Depth))
      /\ g.startPending = Top.startPending
      /\ (Undefaulted(Top) => Undefaulted(g))
  <2>1. StillOK(g, Top, Outer(frames, Depth))
    BY <1>1, <1>2, <1>3, <1>4, AttributeKeeps
  <2>. QED  BY <2>1 DEF StillOK
<1>. HIDE DEF g
<1>6. /\ Len(frames') = Depth
      /\ \A i \in 1 .. Depth : frames'[i] = IF i = Depth THEN g ELSE frames[i]
      /\ Markup' /\ Mirrors'
  BY <1>1, <1>5, PendingReplaced
<1>7. frames'[Depth] = g /\ \A i \in 1 .. Depth : i # Depth => frames'[i] = frames[i]
  BY <1>3, <1>6
<1>. QED  BY <1>1, <1>5, <1>6, <1>7

\* A declaration comes where DeclaresFirst says: for the start tag that is pending.
LEMMA WriteNamespaceKeeps ==
  ASSUME XmlTypeOK, Markup, Mirrors, state' = state,
         NEW c \in XmlCall, c.op = "writeNamespace", XmlSucceeds(c),
         Top.attributes = <<>>,
         \/ Top.name.ns = NoNamespace /\ c.prefix = NoPrefix /\ c.ns = NoNamespace
         \/ Top.name.ns # NoNamespace /\ Depth = 1
  PROVE  /\ HasPending /\ Len(frames') = Depth
         /\ \A i \in 1 .. Depth : i # Depth => frames'[i] = frames[i]
         /\ Undefaulted(frames'[Depth])
         /\ Depth' = Depth /\ HasPending' /\ Top'.name = Top.name /\ Top'.attributes = <<>>
         /\ Markup' /\ Mirrors'
<1>. DEFINE g == AddDeclaration(Top, ParentBindings, c.prefix, c.ns)
<1>1. /\ HasPending /\ ~Undeclarable(Top, c.prefix, c.ns)
      /\ frames' = ReplaceTop(g) /\ document' = document /\ UNCHANGED <<xmlState, rootStarted>>
  <2>1. ~Refused(c) /\ WriteNamespace(c.prefix, c.ns) /\ document' = document
    BY DEF XmlSucceeds, AfterCall
  <2>2. frames # <<>> /\ Top.startPending /\ ~Undeclarable(Top, c.prefix, c.ns)
    BY <2>1 DEF Refused
  <2>. QED  BY <2>1, <2>2 DEF WriteNamespace, HasPending
<1>2. c.prefix \in Prefixes /\ c.ns \in Namespaces
  BY DEF XmlCall
<1>3. /\ Depth \in Nat /\ Depth > 0 /\ frames # <<>>
      /\ Top \in Frame /\ FrameOK(Top, Outer(frames, Depth))
  BY <1>1, DepthProperties DEF HasPending
<1>4. Outer(frames, Depth) \in Bindings
  <2>1. \A i \in 1 .. Depth : frames[i] \in Frame
    BY DepthProperties
  <2>2. Depth # 1 => Depth - 1 \in 1 .. Depth
    BY <1>3
  <2>3. Depth # 1 => frames[Depth - 1].bindings \in Bindings
    BY <2>1, <2>2, FrameType
  <2>. QED  BY <2>3, BindingsType DEF Outer
<1>5. \/ Top.name.ns = NoNamespace /\ c.prefix = NoPrefix /\ c.ns = NoNamespace
      \/ Top.name.ns # NoNamespace /\ Outer(frames, Depth) = OnlyXml
  BY DEF Outer
<1>6. /\ g \in Frame /\ FrameOK(g, Outer(frames, Depth))
      /\ g.name = Top.name /\ g.attributes = <<>> /\ g.startPending = Top.startPending
      /\ Undefaulted(g)
  BY <1>1, <1>2, <1>3, <1>4, <1>5, NamespaceKeeps
<1>. HIDE DEF g
<1>7. /\ Len(frames') = Depth
      /\ \A i \in 1 .. Depth : frames'[i] = IF i = Depth THEN g ELSE frames[i]
      /\ Depth' = Depth /\ Top' = g /\ HasPending'
      /\ Markup' /\ Mirrors'
  BY <1>1, <1>6, PendingReplaced
<1>8. frames'[Depth] = g /\ \A i \in 1 .. Depth : i # Depth => frames'[i] = frames[i]
  BY <1>3, <1>7
<1>. QED  BY <1>1, <1>6, <1>7, <1>8

\* A flush writes the pending start tag; so does a text, which comes behind it.
LEMMA FlushKeeps ==
  ASSUME XmlTypeOK, Markup, Mirrors, state # "Failed", state' = state,
         frames' = FlushedFrames, UNCHANGED <<xmlState, rootStarted>>,
         document'.open = AfterFlushStart.open, document'.rootSeen = AfterFlushStart.rootSeen,
         document'.wellFormed
  PROVE  /\ Len(frames') = Depth
         /\ \A i \in 1 .. Depth : frames'[i] = Written(frames[i])
         /\ Markup' /\ Mirrors'
<1>1. /\ frames \in Seq(Frame) /\ Depth \in Nat /\ Depth = Len(frames)
      /\ frames # <<>> <=> Depth > 0
      /\ \A i \in 1 .. Depth : frames[i] \in Frame
  BY DepthProperties
<1>2. /\ frames' \in Seq(Frame) /\ Len(frames') = Depth
      /\ \A i \in 1 .. Depth : frames'[i] = Written(frames[i])
      /\ \A i \in 1 .. Len(frames') : ~frames'[i].startPending
      /\ StackOK(frames')
  BY <1>1, StackFlushed DEF Markup
<1>3. StackOK(frames)'
  BY <1>2 DEF StackOK
<1>4. frames' = <<>> <=> frames = <<>>
  BY <1>1, <1>2, EmptySeq
<1>5. Markup'
  BY <1>3, <1>4 DEF Markup
<1>6. Depth' = Depth /\ ~HasPending' /\ Sent' = Depth
  <2>1. Depth' = Depth
    BY <1>2 DEF Depth
  <2>2. ~HasPending'
    BY <1>1, <1>2, <1>4, <2>1 DEF HasPending, Top
  <2>. QED  BY <2>1, <2>2 DEF Sent
<1>7. Scopes(Sent)' = Scopes(Depth)
  BY <1>1, <1>2, <1>6, WrittenSame DEF Scopes
<1>8. /\ AfterFlushStart.open = Scopes(Depth)
      /\ AfterFlushStart.rootSeen <=> rootStarted
  BY FlushIsRead
<1>9. Mirrors'
  BY <1>1, <1>4, <1>6, <1>7, <1>8 DEF Mirrors
<1>. QED  BY <1>2, <1>5, <1>9

LEMMA TextKeeps ==
  ASSUME XmlTypeOK, Markup, Mirrors, state # "Failed", state' = state,
         NEW c \in XmlCall, c.op = "text", XmlSucceeds(c)
  PROVE  /\ Len(frames') = Depth
         /\ \A i \in 1 .. Depth : frames'[i] = Written(frames[i])
         /\ Markup' /\ Mirrors'
<1>1. /\ frames # <<>> /\ frames' = ReplaceTop(FlushedTop) /\ UNCHANGED <<xmlState, rootStarted>>
      /\ document' = Read(AfterFlushStart, [tag |-> "text"])
  BY DEF XmlSucceeds, Refused, Text, AfterCall
<1>2. frames' = FlushedFrames
  BY <1>1 DEF FlushedFrames
<1>3. /\ AfterFlushStart \in Document /\ AfterFlushStart.wellFormed
      /\ AfterFlushStart.open = Scopes(Depth)
  BY FlushIsRead
<1>4. document' = [AfterFlushStart EXCEPT
                     !.wellFormed = AfterFlushStart.wellFormed /\ AfterFlushStart.open # <<>>,
                     !.nodes = Append(AfterFlushStart.nodes, [tag |-> "text"])]
  BY <1>1 DEF Read
<1>5. AfterFlushStart.open # <<>>
  <2>1. frames \in Seq(Frame) /\ Depth \in Nat /\ Depth = Len(frames) /\ Depth > 0
    BY <1>1, DepthProperties
  <2>2. Len(Scopes(Depth)) = Depth
    BY <2>1, ScopesProperties
  <2>. QED  BY <1>3, <2>1, <2>2
<1>6. /\ document'.open = AfterFlushStart.open /\ document'.rootSeen = AfterFlushStart.rootSeen
      /\ document'.wellFormed
  BY <1>3, <1>4, <1>5 DEF Document
<1>. QED  BY <1>1, <1>2, <1>6, FlushKeeps
LEMMA EndElementKeeps ==
  ASSUME XmlTypeOK, Markup, Mirrors, state # "Failed", state' = state,
         NEW c \in XmlCall, c.op = "endElement", XmlSucceeds(c)
  PROVE  /\ frames # <<>> /\ Len(frames') = Depth - 1
         /\ \A i \in 1 .. Depth - 1 : frames'[i] = frames[i]
         /\ Markup' /\ Mirrors'
<1>. DEFINE fs == SubSeq(frames, 1, Depth - 1)
            name == [prefix |-> Top.prefix, local |-> Top.name.local]
            d == IF HasPending THEN ReadStart(document, StartTag(Top, "empty")) ELSE document
<1>1. /\ frames # <<>> /\ frames' = fs /\ UNCHANGED <<xmlState, rootStarted>>
      /\ document' = IF Top.startPending THEN Read(document, StartTag(Top, "empty"))
                     ELSE Read(document, [tag |-> "end", name |-> name])
  BY DEF XmlSucceeds, Refused, EndElement, AfterCall
<1>2. /\ frames \in Seq(Frame) /\ Depth \in Nat /\ Depth = Len(frames) /\ Depth > 0
      /\ Top \in Frame /\ Top = frames[Depth] /\ StackOK(frames)
      /\ document \in Document /\ rootStarted
  BY <1>1, DepthProperties DEF Markup
<1>3. /\ fs \in Seq(Frame) /\ Len(fs) = Depth - 1
      /\ \A i \in 1 .. Len(fs) : fs[i] = frames[i] /\ ~fs[i].startPending
      /\ StackOK(fs)
  BY <1>1, <1>2, StackPopped
<1>4. document' = ReadEnd(d, name)
  <2>1. CASE HasPending
    <3>1. StartTag(Top, "empty").tag = "empty" /\ StartTag(Top, "empty").name = name
      BY DEF StartTag
    <3>2. Read(document, StartTag(Top, "empty"))
            = ReadEnd(ReadStart(document, StartTag(Top, "empty")), name)
      BY <3>1 DEF Read
    <3>. QED  BY <1>1, <2>1, <3>2 DEF HasPending
  <2>2. CASE ~HasPending
    <3>1. Read(document, [tag |-> "end", name |-> name]) = ReadEnd(document, name)
      BY DEF Read
    <3>. QED  BY <1>1, <2>2, <3>1 DEF HasPending
  <2>. QED  BY <2>1, <2>2
<1>5. d \in Document /\ d.wellFormed /\ d.rootSeen /\ d.open = Scopes(Depth)
  <2>1. CASE HasPending
    BY <2>1, PendingIsRead
  <2>2. CASE ~HasPending
    BY <1>2, <2>2 DEF Mirrors, Sent
  <2>. QED  BY <2>1, <2>2
<1>. HIDE DEF fs, d
<1>6. /\ Len(d.open) = Depth /\ d.open # <<>>
      /\ d.open[Len(d.open)].name = name
      /\ SubSeq(d.open, 1, Len(d.open) - 1) = Scopes(Depth - 1)
  <2>1. /\ Scopes(Depth) \in Seq(Scope) /\ Len(Scopes(Depth)) = Depth
        /\ \A i \in 1 .. Depth : Scopes(Depth)[i] = ScopeOf(frames[i])
        /\ SubSeq(Scopes(Depth), 1, Depth - 1) = Scopes(Depth - 1)
    BY <1>2, ScopesProperties
  <2>2. Depth \in 1 .. Depth
    BY <1>2
  <2>3. Scopes(Depth)[Depth].name = name
    <3>1. Scopes(Depth)[Depth] = ScopeOf(Top)
      BY <1>2, <2>1, <2>2
    <3>2. ScopeOf(Top).name = name
      BY DEF ScopeOf
    <3>. QED  BY <3>1, <3>2
  <2>. QED  BY <1>2, <1>5, <2>1, <2>3
<1>7. document'.open = Scopes(Depth - 1) /\ document'.rootSeen /\ document'.wellFormed
  <2>1. document' = [d EXCEPT !.open = SubSeq(d.open, 1, Len(d.open) - 1),
                              !.nodes = Append(d.nodes, [tag |-> "end"])]
    BY <1>4, <1>6 DEF ReadEnd
  <2>. QED  BY <1>5, <1>6, <2>1 DEF Document
<1>8. StackOK(frames)'
  BY <1>1, <1>3 DEF StackOK
<1>9. Markup'
  BY <1>1, <1>2, <1>8 DEF Markup
<1>10. Depth' = Depth - 1 /\ ~HasPending' /\ Sent' = Depth - 1 /\ (Sent' = 0 => frames' = <<>>)
  <2>1. Depth' = Depth - 1
    BY <1>1, <1>3 DEF Depth
  <2>2. frames' # <<>> => Depth - 1 \in 1 .. Len(fs)
    BY <1>1, <1>2, <1>3, EmptySeq
  <2>3. ~HasPending'
    BY <1>1, <1>3, <2>1, <2>2 DEF HasPending, Top
  <2>4. Depth - 1 = 0 => frames' = <<>>
    BY <1>1, <1>3, EmptySeq
  <2>. QED  BY <2>1, <2>3, <2>4 DEF Sent
<1>11. Scopes(Sent)' = Scopes(Depth - 1)
  BY <1>1, <1>3, <1>10 DEF Scopes
<1>12. Mirrors'
  BY <1>1, <1>2, <1>7, <1>10, <1>11 DEF Mirrors
<1>. QED  BY <1>1, <1>3, <1>9, <1>12

\* A call that stops has written the start tag at most, and leaves the elements.
LEMMA StoppedKeeps ==
  ASSUME XmlTypeOK, Markup, Mirrors, state # "Failed", state' = "Failed",
         document' \in {document, AfterFlushStart},
         xmlState' \in {xmlState, "Failed", "AfterDocument"}, UNCHANGED <<frames, rootStarted>>
  PROVE  Markup' /\ Mirrors'
<1>1. Markup'
  BY DEF Markup
<1>2. AfterFlushStart.wellFormed /\ document.wellFormed
  BY FlushIsRead DEF Mirrors
<1>. QED  BY <1>1, <1>2 DEF Mirrors
-----------------------------------------------------------------------------
(* The calls of an event, one after the other *)

\* The next call is the one after those that have been made.
LEMMA Planned ==
  ASSUME Inv, Progress, calls # <<>>, calls' = Tail(calls), UNCHANGED <<writer, running>>,
         NEW s, s = CallsOf(writer, running[1]), NEW n, n = Made(s, calls)
  PROVE  /\ state \notin {"Failed", "Closed"}
         /\ n \in Nat /\ n + 1 <= Len(s) /\ Len(s) \in Nat
         /\ Head(calls) = s[n + 1] /\ Head(calls) \in DialectCall
         /\ InPlan(s, n)
         /\ writer \in Writers /\ running[1] \in Events
         /\ InPlan(s, n + 1)' => Progress'
         /\ n + 1 < Len(s) => calls' # <<>> /\ Head(calls') = s[n + 2]
<1>1. /\ running # <<>> /\ Valid(running[1].kind)
      /\ calls \in Seq(DialectCall) /\ writer \in Writers
      /\ running \in Seq(Events) /\ Len(running) <= 1
  BY DEF Inv, InOrder, TypeOK
<1>2. running[1] \in Events
  BY <1>1, OneElement
<1>3. state \notin {"Failed", "Closed"}
  BY <1>1 DEF Valid
<1>4. s \in Seq(DialectCall) /\ Len(s) \in Nat
  BY <1>1, <1>2, DialectAssumption
<1>5. /\ Len(calls) <= Len(s) /\ n = Len(s) - Len(calls)
      /\ \A i \in 1 .. Len(calls) : calls[i] = s[n + i]
      /\ InPlan(s, n)
  BY <1>1 DEF Progress, Made
<1>6. Len(calls) \in Nat /\ Len(calls) >= 1 /\ Head(calls) = calls[1] /\ Head(calls) \in DialectCall
  BY <1>1
<1>7. n \in Nat /\ n + 1 <= Len(s)
  BY <1>4, <1>5, <1>6
<1>8. Head(calls) = s[n + 1]
  BY <1>5, <1>6
<1>9. /\ Len(calls') = Len(calls) - 1
      /\ \A i \in 1 .. Len(calls) - 1 : calls'[i] = calls[i + 1]
  BY <1>1, <1>6
<1>10. Len(calls') <= Len(s) /\ Len(s) - Len(calls') = n + 1
  BY <1>4, <1>5, <1>6, <1>9
<1>11. \A i \in 1 .. Len(calls') : calls'[i] = s[(n + 1) + i]
  <2>1. TAKE i \in 1 .. Len(calls')
  <2>2. i \in 1 .. Len(calls) - 1 /\ i + 1 \in 1 .. Len(calls) /\ n + (i + 1) = (n + 1) + i
    BY <1>6, <1>7, <1>9
  <2>3. calls'[i] = calls[i + 1] /\ calls[i + 1] = s[n + (i + 1)]
    BY <1>5, <1>9, <2>2
  <2>. QED  BY <2>2, <2>3
<1>12. ASSUME InPlan(s, n + 1)'
       PROVE  Progress'
  <2>1. s = CallsOf(writer', running'[1])
    OBVIOUS
  <2>2. Len(s) - Len(calls') = n + 1
    BY <1>10
  <2>. QED  BY <1>10, <1>11, <1>12, <2>1, <2>2 DEF Progress, Made
<1>13. n + 1 < Len(s) => calls' # <<>> /\ Head(calls') = s[n + 2]
  <2>. SUFFICES ASSUME n + 1 < Len(s)
                PROVE  calls' # <<>> /\ Head(calls') = s[n + 2]
    OBVIOUS
  <2>1. /\ Len(calls') \in Nat /\ Len(calls') >= 1 /\ Len(calls') # 0
        /\ (n + 1) + 1 = n + 2
    BY <1>4, <1>6, <1>7, <1>9, <1>10
  <2>2. calls' \in Seq(DialectCall)
    BY <1>1, <1>6
  <2>3. calls' # <<>>
    BY <2>1, <2>2, EmptySeq
  <2>4. Head(calls') = calls'[1]
    BY <2>2, <2>3
  <2>. QED  BY <1>11, <2>1, <2>3, <2>4
<1>. QED  BY <1>1, <1>2, <1>3, <1>4, <1>5, <1>6, <1>7, <1>8, <1>12, <1>13

\* A call that neither starts an element nor declares a namespace leaves no start tag to
\* declare one for.
LEMMA NothingDeclarable ==
  ASSUME NEW s, NEW n \in Nat,
         s[n + 1].op \in {"startDocument", "endElement", "writeAttribute", "text"},
         s[n + 1].op = "startDocument" => frames' = <<>>
  PROVE  InPlan(s, n + 1)'
<1>1. \A i \in 1 .. n + 1 : ~Declarable(s, i, n + 1)
  BY DEF Declarable
<1>2. (n + 1 = 1 /\ s[1].op = "startDocument") => s[n + 1].op = "startDocument"
  OBVIOUS
<1>. QED  BY <1>1, <1>2 DEF InPlan

\* A diagnostic or a declaration leaves what was declarable.
LEMMA StillDeclarable ==
  ASSUME NEW s, NEW n \in Nat, s[n + 1].op \in {"writeNamespace", "report"},
         InPlan(s, n),
         (\E i \in 1 .. n : Declarable(s, i, n)) =>
           /\ frames' # <<>> /\ Top'.startPending
           /\ Top'.attributes = <<>> /\ Top'.name = Top.name /\ Depth' = Depth
  PROVE  InPlan(s, n + 1)'
<1>1. ASSUME NEW i \in 1 .. n + 1, Declarable(s, i, n + 1)
      PROVE  i \in 1 .. n /\ Declarable(s, i, n)
  <2>1. i # n + 1
    BY <1>1 DEF Declarable
  <2>2. i \in 1 .. n /\ \A k \in i + 1 .. n : k \in i + 1 .. n + 1
    BY <2>1
  <2>. QED  BY <1>1, <2>2 DEF Declarable
<1>2. ASSUME NEW i \in 1 .. n + 1, Declarable(s, i, n + 1)
      PROVE  /\ frames' # <<>> /\ Top'.startPending
             /\ Top'.attributes = <<>> /\ Top'.name = s[i].name
             /\ (i = 2 /\ s[1].op = "startDocument") => Depth' = 1
  <2>1. i \in 1 .. n /\ Declarable(s, i, n)
    BY <1>1, <1>2
  <2>2. Top.name = s[i].name /\ ((i = 2 /\ s[1].op = "startDocument") => Depth = 1)
    BY <2>1 DEF InPlan
  <2>. QED  BY <2>1, <2>2
<1>3. ~(n + 1 = 1 /\ s[1].op = "startDocument")
  OBVIOUS
<1>. QED  BY <1>2, <1>3 DEF InPlan, Declarable
-----------------------------------------------------------------------------
(* The invariant *)

NamesInv == Markup /\ Mirrors /\ Progress /\ NoDefaults

\* A declaration is for the start tag that is pending: the assumption about the dialects.
LEMMA DeclarationPlanned ==
  ASSUME XmlTypeOK, NEW s, NEW n \in Nat, n + 1 <= Len(s), Len(s) \in Nat,
         DeclaresFirst(s), InPlan(s, n), s[n + 1].op = "writeNamespace"
  PROVE  /\ \E i \in 1 .. n : Declarable(s, i, n)
         /\ Top.attributes = <<>>
         /\ \/ /\ Top.name.ns = NoNamespace
               /\ s[n + 1].prefix = NoPrefix /\ s[n + 1].ns = NoNamespace
            \/ Top.name.ns # NoNamespace /\ Depth = 1
<1>1. n + 1 \in DOMAIN s
  BY DEF XmlTypeOK
<1>2. PICK i \in 1 .. n :
        /\ s[i].op = "startElement"
        /\ \A k \in i + 1 .. n : s[k].op \in {"writeNamespace", "report", "fail"}
        /\ IF s[i].name.ns = NoNamespace
           THEN s[n + 1].prefix = NoPrefix /\ s[n + 1].ns = NoNamespace
           ELSE i = 2 /\ s[1].op = "startDocument"
  BY <1>1 DEF DeclaresFirst
<1>3. Declarable(s, i, n)
  BY <1>2 DEF Declarable
<1>4. /\ Top.attributes = <<>> /\ Top.name = s[i].name
      /\ (i = 2 /\ s[1].op = "startDocument") => Depth = 1
  BY <1>3 DEF InPlan
<1>. QED  BY <1>2, <1>3, <1>4

\* The call reaches the XML writer.
LEMMA CallSucceedsKeeps ==
  ASSUME Inv, NamesInv, CallSucceeds
  PROVE  NamesInv'
<1>. DEFINE c == Head(calls)
<1>1. /\ c \in XmlCall /\ XmlSucceeds(c) /\ calls # <<>> /\ calls' = Tail(calls)
      /\ UNCHANGED <<state, writer, running>>
  BY DEF CallSucceeds
<1>2. PICK s : s = CallsOf(writer, running[1])
  OBVIOUS
<1>3. PICK n : n = Made(s, calls)
  OBVIOUS
<1>4. /\ state \notin {"Failed", "Closed"}
      /\ n \in Nat /\ n + 1 <= Len(s) /\ Len(s) \in Nat
      /\ c = s[n + 1]
      /\ InPlan(s, n)
      /\ InPlan(s, n + 1)' => Progress'
      /\ n + 1 < Len(s) => calls' # <<>> /\ Head(calls') = s[n + 2]
      /\ writer \in Writers /\ running[1] \in Events
  BY <1>1, <1>2, <1>3, Planned DEF NamesInv
<1>5. DeclaresFirst(s) /\ (Undeclares => UndeclaresIn(s))
  BY <1>2, <1>4, DeclaringAssumption DEF Undeclares
<1>6. XmlTypeOK /\ Markup /\ Mirrors /\ state # "Failed" /\ state' = state
  BY <1>1, <1>4 DEF Inv, TypeOK, NamesInv
<1>7. /\ Depth \in Nat /\ Depth = Len(frames) /\ \A i \in 1 .. Depth : frames[i] \in Frame
      /\ frames # <<>> <=> Depth > 0
  BY <1>6, DepthProperties
\* Only a declaration may find a default namespace in the way.
<1>8. (Undeclares /\ c.op # "writeNamespace") => \A i \in 1 .. Depth : Undefaulted(frames[i])
  BY <1>4, <1>7 DEF NamesInv, NoDefaults, WillBeRead
<1>. HIDE DEF c
<1>9. CASE c.op = "startDocument"
  <2>1. frames = <<>> /\ frames' = frames /\ Markup' /\ Mirrors'
    BY <1>1, <1>6, <1>9, StartDocumentKeeps
  <2>2. Progress'
    BY <1>4, <1>9, <2>1, NothingDeclarable
  <2>3. NoDefaults'
    <3>1. Len(frames') = 0
      BY <2>1, <1>7
    <3>. QED  BY <3>1 DEF NoDefaults
  <2>. QED  BY <2>1, <2>2, <2>3 DEF NamesInv
<1>10. CASE c.op = "startElement"
  <2>1. /\ Len(frames') = Depth + 1
        /\ \A i \in 1 .. Depth : frames'[i] = Written(frames[i])
        /\ frames'[Depth + 1] \in Frame
        /\ frames'[Depth + 1].name = c.name /\ frames'[Depth + 1].attributes = <<>>
        /\ frames'[Depth + 1].startPending = TRUE
        /\ Markup' /\ Mirrors'
    BY <1>1, <1>6, <1>10, StartElementKeeps
  <2>2. Depth' = Depth + 1 /\ Top' = frames'[Depth + 1]
    BY <2>1 DEF Depth, Top
  <2>3. frames' # <<>>
    <3>1. frames' \in Seq(Frame)
      <4>1. TypeOK'
        BY NextType DEF Inv, Next
      <4>. QED  BY <4>1 DEF TypeOK, XmlTypeOK
    <3>. QED  BY <1>7, <2>1, <3>1, EmptySeq
  <2>4. \A i \in 1 .. n + 1 : Declarable(s, i, n + 1) => i = n + 1
    <3>1. \A i \in 1 .. n + 1 : i # n + 1 => n + 1 \in i + 1 .. n + 1
      BY <1>4
    <3>. QED  BY <1>4, <1>10, <3>1 DEF Declarable
  <2>5. (n + 1 = 2 /\ s[1].op = "startDocument") => Depth' = 1
    <3>. SUFFICES ASSUME n + 1 = 2, s[1].op = "startDocument"
                  PROVE  Depth' = 1
      OBVIOUS
    <3>1. frames = <<>>
      BY <1>4 DEF InPlan
    <3>. QED  BY <1>7, <2>2, <3>1
  <2>6. InPlan(s, n + 1)'
    BY <1>4, <1>10, <2>1, <2>2, <2>3, <2>4, <2>5 DEF InPlan, Declarable
  <2>7. ASSUME Undeclares, NEW i \in 1 .. Depth + 1, WillBeRead(frames[i])'
        PROVE  Undefaulted(frames[i])'
    <3>1. CASE i # Depth + 1
      <4>1. i \in 1 .. Depth /\ frames'[i] = Written(frames[i]) /\ frames[i] \in Frame
        BY <1>7, <2>1, <3>1
      <4>2. Undefaulted(frames[i])
        BY <1>8, <1>10, <2>7, <4>1
      <4>3. Undefaulted(Written(frames[i]))
        BY <4>1, <4>2, WrittenSame
      <4>. QED  BY <4>1, <4>3 DEF Undefaulted
    <3>2. CASE i = Depth + 1
      <4>1. c.name.ns # NoNamespace
        <5>. SUFFICES ASSUME c.name.ns = NoNamespace
                      PROVE  FALSE
          OBVIOUS
        <5>1. n + 1 \in DOMAIN s
          BY <1>4, <2>7, <1>5, <1>10
        <5>2. n + 1 < Len(s) /\ s[n + 2].op = "writeNamespace"
          BY <1>4, <1>5, <1>10, <2>7, <5>1 DEF UndeclaresIn
        <5>3. calls' # <<>> /\ Head(calls').op = "writeNamespace"
          BY <1>4, <5>2
        <5>. QED  BY <2>1, <2>7, <3>2, <5>3 DEF WillBeRead
      <4>. QED  BY <2>1, <3>2, <4>1 DEF Undefaulted
    <3>. QED  BY <3>1, <3>2
  <2>8. NoDefaults'
    BY <2>1, <2>7 DEF NoDefaults, Undeclares
  <2>. QED  BY <1>4, <2>1, <2>6, <2>8 DEF NamesInv
<1>11. CASE c.op = "writeAttribute"
  <2>1. /\ HasPending /\ Len(frames') = Depth
        /\ \A i \in 1 .. Depth : i # Depth => frames'[i] = frames[i]
        /\ (Undefaulted(Top) => Undefaulted(frames'[Depth]))
        /\ Markup' /\ Mirrors'
    BY <1>1, <1>6, <1>11, WriteAttributeKeeps
  <2>2. Progress'
    BY <1>4, <1>11, NothingDeclarable
  <2>3. NoDefaults'
    <3>. SUFFICES ASSUME Undeclares, NEW i \in 1 .. Depth
                  PROVE  Undefaulted(frames'[i])
      BY <2>1 DEF NoDefaults, Undeclares, Undefaulted
    <3>1. Undefaulted(frames[i])
      BY <1>8, <1>11
    <3>2. CASE i = Depth
      BY <2>1, <3>1, <3>2 DEF Top
    <3>3. CASE i # Depth
      BY <2>1, <3>1, <3>3
    <3>. QED  BY <3>2, <3>3
  <2>. QED  BY <2>1, <2>2, <2>3 DEF NamesInv
<1>12. CASE c.op = "writeNamespace"
  <2>1. /\ \E i \in 1 .. n : Declarable(s, i, n)
        /\ Top.attributes = <<>>
        /\ \/ Top.name.ns = NoNamespace /\ c.prefix = NoPrefix /\ c.ns = NoNamespace
           \/ Top.name.ns # NoNamespace /\ Depth = 1
    BY <1>4, <1>5, <1>6, <1>12, DeclarationPlanned
  <2>2. /\ HasPending /\ Len(frames') = Depth
        /\ \A i \in 1 .. Depth : i # Depth => frames'[i] = frames[i]
        /\ Undefaulted(frames'[Depth])
        /\ Depth' = Depth /\ HasPending' /\ Top'.name = Top.name /\ Top'.attributes = <<>>
        /\ Markup' /\ Mirrors'
    BY <1>1, <1>6, <1>12, <2>1, WriteNamespaceKeeps
  <2>3. Progress'
    <3>1. frames' # <<>> /\ Top'.startPending
      BY <2>2 DEF HasPending
    <3>. QED  BY <1>4, <1>12, <2>2, <3>1, StillDeclarable
  <2>4. NoDefaults'
    <3>. SUFFICES ASSUME Undeclares, NEW i \in 1 .. Depth
                  PROVE  Undefaulted(frames'[i])
      BY <2>2 DEF NoDefaults, Undeclares, Undefaulted
    <3>1. CASE i = Depth
      BY <2>2, <3>1
    <3>2. CASE i # Depth
      <4>1. frames'[i] = frames[i]
        BY <2>2, <3>2
      <4>2. frames[i].startPending => i = Depth
        BY <1>6, <1>7 DEF Markup, StackOK
      <4>3. WillBeRead(frames[i])
        BY <3>2, <4>2 DEF WillBeRead
      <4>. QED  BY <1>7, <4>1, <4>3 DEF NamesInv, NoDefaults
    <3>. QED  BY <3>1, <3>2
  <2>. QED  BY <2>2, <2>3, <2>4 DEF NamesInv
<1>13. CASE c.op = "text"
  <2>1. /\ Len(frames') = Depth
        /\ \A i \in 1 .. Depth : frames'[i] = Written(frames[i])
        /\ Markup' /\ Mirrors'
    BY <1>1, <1>6, <1>13, TextKeeps
  <2>2. Progress'
    BY <1>4, <1>13, NothingDeclarable
  <2>3. NoDefaults'
    <3>. SUFFICES ASSUME Undeclares, NEW i \in 1 .. Depth
                  PROVE  Undefaulted(frames'[i])
      BY <2>1 DEF NoDefaults, Undeclares, Undefaulted
    <3>1. Undefaulted(frames[i]) /\ frames[i] \in Frame
      BY <1>7, <1>8, <1>13
    <3>. QED  BY <2>1, <3>1, WrittenSame
  <2>. QED  BY <2>1, <2>2, <2>3 DEF NamesInv
<1>14. CASE c.op = "endElement"
  <2>1. /\ frames # <<>> /\ Len(frames') = Depth - 1
        /\ \A i \in 1 .. Depth - 1 : frames'[i] = frames[i]
        /\ Markup' /\ Mirrors'
    BY <1>1, <1>6, <1>14, EndElementKeeps
  <2>2. Progress'
    BY <1>4, <1>14, NothingDeclarable
  <2>3. NoDefaults'
    <3>. SUFFICES ASSUME Undeclares, NEW i \in 1 .. Depth - 1
                  PROVE  Undefaulted(frames'[i])
      BY <2>1 DEF NoDefaults, Undeclares, Undefaulted
    <3>1. Undefaulted(frames[i])
      BY <1>7, <1>8, <1>14
    <3>. QED  BY <2>1, <3>1
  <2>. QED  BY <2>1, <2>2, <2>3 DEF NamesInv
<1>. QED  BY <1>1, <1>9, <1>10, <1>11, <1>12, <1>13, <1>14 DEF XmlCall
\* An exception leaves the call: what the sink has is the beginning of a document.
LEMMA ThrowKeeps ==
  ASSUME Inv, NamesInv, state # "Failed", Throw,
         document' \in {document, AfterFlushStart},
         xmlState' \in {xmlState, "Failed", "AfterDocument"}, UNCHANGED <<frames, rootStarted>>
  PROVE  NamesInv'
<1>1. Markup' /\ Mirrors'
  BY StoppedKeeps DEF Throw, Inv, TypeOK, NamesInv
<1>2. Progress'
  BY DEF Throw, Progress
<1>3. NoDefaults'
  BY DEF Throw, NamesInv, NoDefaults, WillBeRead, Undeclares, Undefaulted
<1>. QED  BY <1>1, <1>2, <1>3 DEF NamesInv

LEMMA OutputSame ==
  ASSUME NamesInv, UNCHANGED <<xmlVars, sinkVars>>, state' # "Failed" => state # "Failed"
  PROVE  Markup' /\ Mirrors'
<1>1. Markup'
  BY DEF NamesInv, xmlVars, Markup, StackOK, FrameOK, InScopeOf, Outer
<1>2. Mirrors'
  BY DEF NamesInv, xmlVars, sinkVars, Mirrors, Scopes, Sent, HasPending, Depth, Top
<1>. QED  BY <1>1, <1>2

LEMMA SameKeeps ==
  ASSUME NamesInv, UNCHANGED <<xmlVars, sinkVars>>, UNCHANGED <<state, writer, running, calls>>
  PROVE  NamesInv'
<1>1. Markup' /\ Mirrors'
  BY OutputSame
<1>2. Progress'
  <2>1. \A s, n : InPlan(s, n) => InPlan(s, n)'
    BY DEF xmlVars, InPlan, Declarable, Depth, Top
  <2>2. PICK s : s = CallsOf(writer, running[1])
    OBVIOUS
  <2>3. PICK n : n = Made(s, calls)
    OBVIOUS
  <2>4. n = Made(s, calls') /\ s = CallsOf(writer', running'[1])
    BY <2>2, <2>3 DEF Made
  <2>. QED  BY <2>1, <2>2, <2>3, <2>4 DEF NamesInv, Progress, Made
<1>3. NoDefaults'
  BY DEF NamesInv, xmlVars, NoDefaults, WillBeRead, Undeclares, Undefaulted
<1>. QED  BY <1>1, <1>2, <1>3 DEF NamesInv

\* Between two events nothing waits to be declared.
LEMMA AllUndefaulted ==
  ASSUME NamesInv, state # "Failed", calls = <<>>, Undeclares
  PROVE  \A i \in 1 .. Len(frames) : Undefaulted(frames[i])
  BY DEF NamesInv, NoDefaults, WillBeRead

LEMMA WriteBeginsKeeps ==
  ASSUME Inv, NamesInv, NEW e \in Events, WriteBegins(e)
  PROVE  NamesInv'
<1>1. /\ UNCHANGED <<state, writer, xmlVars, sinkVars>>
      /\ running' = <<e>> /\ calls' = CallsOf(writer, e)
      /\ state # "Failed" /\ calls = <<>> /\ writer \in Writers
  BY DEF WriteBegins, Inv, InOrder, Idle, TypeOK
<1>2. Markup' /\ Mirrors'
  BY <1>1, OutputSame
<1>3. Progress'
  <2>1. PICK s : s = CallsOf(writer, e)
    OBVIOUS
  <2>2. s \in Seq(DialectCall) /\ Len(s) \in Nat
    BY <1>1, <2>1, DialectAssumption
  <2>3. Made(s, s) = 0 /\ \A i \in 1 .. Len(s) : s[i] = s[0 + i]
    BY <2>2 DEF Made
  <2>4. InPlan(s, 0)'
    BY DEF InPlan
  <2>5. CallsOf(writer', running'[1]) = s /\ calls' = s
    BY <1>1, <2>1
  <2>. QED  BY <2>2, <2>3, <2>4, <2>5 DEF Progress, Made
<1>4. NoDefaults'
  BY <1>1, AllUndefaulted DEF xmlVars, NoDefaults, Undeclares, Undefaulted
<1>. QED  BY <1>2, <1>3, <1>4 DEF NamesInv

LEMMA CallReportsKeeps ==
  ASSUME Inv, NamesInv, CallReports
  PROVE  NamesInv'
<1>1. /\ UNCHANGED <<state, writer, running, xmlVars, sinkVars>>
      /\ calls # <<>> /\ calls' = Tail(calls) /\ Head(calls).op = "report"
  BY DEF CallReports
<1>2. Markup' /\ Mirrors'
  BY <1>1, OutputSame
<1>3. Progress'
  <2>1. PICK s : s = CallsOf(writer, running[1])
    OBVIOUS
  <2>2. PICK n : n = Made(s, calls)
    OBVIOUS
  <2>3. /\ n \in Nat /\ Head(calls) = s[n + 1] /\ InPlan(s, n)
        /\ InPlan(s, n + 1)' => Progress'
    BY <1>1, <2>1, <2>2, Planned DEF NamesInv
  <2>4. (\E i \in 1 .. n : Declarable(s, i, n)) =>
          /\ frames' # <<>> /\ Top'.startPending
          /\ Top'.attributes = <<>> /\ Top'.name = Top.name /\ Depth' = Depth
    BY <1>1, <2>3 DEF InPlan, xmlVars, Top, Depth
  <2>5. InPlan(s, n + 1)'
    BY <1>1, <2>3, <2>4, StillDeclarable
  <2>. QED  BY <2>3, <2>5
<1>4. NoDefaults'
  <2>1. Undeclares => \A i \in 1 .. Len(frames) : Undefaulted(frames[i])
    <3>1. state # "Failed"
      BY <1>1 DEF Inv, InOrder, Valid
    <3>. QED  BY <1>1, <3>1 DEF NamesInv, NoDefaults, WillBeRead
  <2>. QED  BY <1>1, <2>1 DEF xmlVars, NoDefaults, Undeclares, Undefaulted
<1>. QED  BY <1>2, <1>3, <1>4 DEF NamesInv

\* Between two events a flush may write the start tag.
LEMMA FlushStepKeeps ==
  ASSUME Inv, NamesInv, Flush
  PROVE  NamesInv'
<1>1. /\ state # "Failed" /\ state' = state /\ running = <<>> /\ running' = running /\ calls = <<>>
      /\ frames' = FlushedFrames /\ UNCHANGED <<xmlState, rootStarted>>
      /\ document' = AfterFlushStart
  BY DEF Flush, FlushXml, Idle, Inv, InOrder
<1>2. XmlTypeOK /\ Markup /\ Mirrors
  BY DEF Inv, TypeOK, NamesInv
<1>3. /\ Len(frames') = Depth
      /\ \A i \in 1 .. Depth : frames'[i] = Written(frames[i])
      /\ Markup' /\ Mirrors'
  <2>1. AfterFlushStart.wellFormed
    BY <1>1, <1>2, FlushIsRead
  <2>. QED  BY <1>1, <1>2, <2>1, FlushKeeps
<1>4. Progress'
  BY <1>1 DEF Progress
<1>5. NoDefaults'
  <2>. SUFFICES ASSUME Undeclares, NEW i \in 1 .. Depth
                PROVE  Undefaulted(frames'[i])
    BY <1>3 DEF NoDefaults, Undeclares, Undefaulted
  <2>1. Undefaulted(frames[i]) /\ frames[i] \in Frame
    BY <1>1, <1>2, AllUndefaulted, DepthProperties
  <2>. QED  BY <1>3, <2>1, WrittenSame
<1>. QED  BY <1>3, <1>4, <1>5 DEF NamesInv

LEMMA CloseKeeps ==
  ASSUME Inv, NamesInv, Close
  PROVE  NamesInv' /\ CompleteDocument(document)'
<1>1. /\ state = "AfterTransfer" /\ state' = "Closed" /\ running = <<>> /\ running' = running
      /\ frames = <<>> /\ rootStarted /\ xmlState' = "AfterDocument"
      /\ UNCHANGED <<frames, rootStarted, document>>
  BY DEF Close, EndDocument, EndDocumentRefused, Idle
<1>2. Markup'
  BY <1>1 DEF NamesInv, Markup, StackOK
<1>3. Len(frames) = 0 /\ Sent = 0
  BY <1>1 DEF Sent, HasPending, Depth
<1>4. document.wellFormed /\ document.open = Scopes(0) /\ document.rootSeen
  BY <1>1, <1>3 DEF NamesInv, Mirrors
<1>5. Mirrors'
  BY <1>1, <1>3, <1>4 DEF Mirrors, Sent, HasPending, Depth, Scopes
<1>6. Progress'
  BY <1>1 DEF Progress
<1>7. NoDefaults'
  BY <1>1, <1>3 DEF NoDefaults
<1>8. document.open = <<>>
  <2>1. document.open \in Seq(Scope)
    BY DEF Inv, TypeOK, XmlTypeOK, Document
  <2>2. Len(document.open) = 0
    BY <1>4 DEF Scopes
  <2>. QED  BY <2>1, <2>2, EmptySeq
<1>. QED  BY <1>1, <1>2, <1>4, <1>5, <1>6, <1>7, <1>8 DEF NamesInv, CompleteDocument

LEMMA NextKeepsNames == Inv /\ NamesInv /\ [Next]_vars => NamesInv'
<1>. SUFFICES ASSUME Inv, NamesInv, [Next]_vars
              PROVE  NamesInv'
  OBVIOUS
<1>1. CASE WriteRefused \/ FlushRefusedInState \/ CloseOfFailed \/ CloseAgain \/ UNCHANGED vars
  <2>1. UNCHANGED <<xmlVars, sinkVars>> /\ UNCHANGED <<state, writer, running, calls>>
    BY <1>1 DEF WriteRefused, FlushRefusedInState, CloseOfFailed, CloseAgain, Refuse,
                vars, coordinatorVars
  <2>. QED  BY <2>1, SameKeeps
<1>2. ASSUME NEW e \in Events, WriteOutOfOrder(e)
      PROVE  NamesInv'
  BY <1>2, ThrowKeeps DEF WriteOutOfOrder, xmlVars, sinkVars
<1>3. ASSUME NEW e \in Events, WriteBegins(e)
      PROVE  NamesInv'
  BY <1>3, WriteBeginsKeeps
<1>4. CASE CallSucceeds
  BY <1>4, CallSucceedsKeeps
<1>5. CASE CallReports
  BY <1>5, CallReportsKeeps
<1>6. CASE CallThrows
  <2>1. state # "Failed"
    BY <1>6 DEF CallThrows, Inv, InOrder, Valid
  <2>2. \/ XmlRefuses(Head(calls)) \/ SinkFails(Head(calls))
        \/ UNCHANGED <<xmlVars, sinkVars>>
    BY <1>6 DEF CallThrows
  <2>3. /\ document' \in {document, AfterFlushStart}
        /\ xmlState' \in {xmlState, "Failed", "AfterDocument"} /\ UNCHANGED <<frames, rootStarted>>
    BY <2>2 DEF XmlRefuses, SinkFails, PartOf, XmlStops, xmlVars, sinkVars
  <2>. QED  BY <1>6, <2>1, <2>3, ThrowKeeps DEF CallThrows
<1>7. CASE WriteReturns
  <2>1. /\ UNCHANGED <<xmlVars, sinkVars>> /\ calls = <<>> /\ calls' = calls /\ running' = <<>>
        /\ state # "Failed" /\ state' # "Failed"
    BY <1>7, WriteReturnsInOrder DEF WriteReturns, Valid, Advanced
  <2>2. Markup' /\ Mirrors'
    BY <2>1, OutputSame
  <2>3. Progress'
    BY <2>1 DEF Progress
  <2>4. NoDefaults'
    BY <2>1, AllUndefaulted DEF xmlVars, NoDefaults, Undeclares, Undefaulted
  <2>. QED  BY <2>2, <2>3, <2>4 DEF NamesInv
<1>8. CASE Flush
  BY <1>8, FlushStepKeeps
<1>9. CASE FlushFails
  BY <1>9, ThrowKeeps DEF FlushFails, XmlStops, sinkVars
<1>10. CASE CloseTooEarly
  BY <1>10, ThrowKeeps DEF CloseTooEarly, xmlVars, sinkVars
<1>11. CASE Close
  BY <1>11, CloseKeeps
<1>12. CASE CloseFails
  BY <1>12, ThrowKeeps DEF CloseFails, XmlStops
<1>. QED  BY <1>1, <1>2, <1>3, <1>4, <1>5, <1>6, <1>7, <1>8, <1>9, <1>10, <1>11, <1>12 DEF Next

LEMMA NamesInductive == Spec => [](Inv /\ NamesInv)
<1>1. Init => NamesInv
  <2>. SUFFICES ASSUME Init
                PROVE  NamesInv
    OBVIOUS
  <2>1. /\ frames = <<>> /\ Len(frames) = 0 /\ ~rootStarted /\ document = NewDocument
        /\ running = <<>>
    BY DEF Init, XmlInit
  <2>2. Sent = 0 /\ Scopes(Sent) = <<>>
    BY <2>1 DEF Sent, HasPending, Depth, Scopes
  <2>. QED  BY <2>1, <2>2
            DEF NamesInv, Markup, StackOK, Mirrors, Progress, NoDefaults, NewDocument
<1>2. Inv /\ NamesInv /\ [Next]_vars => (Inv /\ NamesInv)'
  BY NextKeepsNames, NextType, NextInOrder DEF Inv
<1>3. Init => Inv
  BY InitType DEF Init, Inv, InOrder
<1>. QED  BY <1>1, <1>2, <1>3, PTL DEF Spec

\* However an event stops half-way, what the sink has is the beginning of a well-formed
\* document, and the parser's open elements are those of the writer, with the same bindings
\* (XmlWriter.cpp).
THEOREM OutputIsUnderstood == Spec => []Understood
<1>1. Inv /\ NamesInv => Understood
  BY DEF NamesInv, Mirrors, Understood, Sent, HasPending, Scopes, ScopeOf
<1>. QED  BY <1>1, NamesInductive, PTL

\* A dialect writer that undeclares the default namespace on every element without namespace
\* has the names in the output that it asked for, whatever else is declared on the elements and
\* around them (prefixFor and addDeclaration of XmlWriter.cpp).
THEOREM NamesAreKept == Undeclares => (Spec => []NamesKept)
<1>. SUFFICES ASSUME Undeclares
              PROVE  Spec => []NamesKept
  OBVIOUS
<1>1. Inv /\ NamesInv => NamesKept
  <2>. SUFFICES ASSUME Inv, NamesInv, NEW i \in DOMAIN frames, WillBeRead(frames[i])
                PROVE  LET f == frames[i]
                       IN  /\ ElementName(f.bindings, [prefix |-> f.prefix,
                                                       local |-> f.name.local]).ns = f.name.ns
                           /\ \A j \in DOMAIN f.attributes :
                                AttributeName(f.bindings, [prefix |-> f.attributes[j].prefix,
                                                           local |-> f.attributes[j].name.local]).ns
                                  = f.attributes[j].name.ns
    BY DEF NamesKept
  <2>1. frames \in Seq(Frame) /\ i \in 1 .. Len(frames) /\ frames[i] \in Frame
    BY DEF Inv, TypeOK, XmlTypeOK
  <2>2. FrameOK(frames[i], Outer(frames, i)) /\ Undefaulted(frames[i])
    BY <2>1 DEF NamesInv, Markup, StackOK, NoDefaults
  <2>3. frames[i].name.ns \in Namespaces
    BY <2>1, FrameType DEF XmlName
  <2>4. ElementName(frames[i].bindings, [prefix |-> frames[i].prefix,
                                         local |-> frames[i].name.local]).ns = frames[i].name.ns
    BY <2>2, <2>3, NamespaceAssumption DEF ElementName, FrameOK, Undefaulted
  <2>5. \A j \in DOMAIN frames[i].attributes : AttributeNamed(frames[i].bindings,
                                                              frames[i].attributes[j])
    BY <2>2 DEF FrameOK
  <2>. QED  BY <2>4, <2>5 DEF AttributeNamed, AttributeName
<1>. QED  BY <1>1, NamesInductive, PTL

\* A writer that is closed has written one complete document for a complete transfer, and has
\* closed the sink (XtfWriter::close).
THEOREM ClosedDocumentIsComplete == Spec => []ClosedIsComplete
<1>1. Init => ClosedIsComplete
  BY DEF Init, ClosedIsComplete
<1>2. Inv /\ NamesInv /\ ClosedIsComplete /\ [Next]_vars => ClosedIsComplete'
  <2>. SUFFICES ASSUME Inv, NamesInv, ClosedIsComplete, [Next]_vars, state' = "Closed"
                PROVE  ClosedIsComplete'
    BY DEF ClosedIsComplete
  <2>1. CASE state = "Closed"
    <3>1. UNCHANGED <<document, sink, written>>
      BY <2>1, TerminalStepHolds
    <3>. QED  BY <2>1, <3>1 DEF ClosedIsComplete, CompleteDocument
  <2>2. CASE Close
    <3>1. CompleteDocument(document)'
      BY <2>2, CloseKeeps
    <3>2. LastIn({"EndTransfer"}) /\ written' = written /\ sink' = "closed"
      BY <2>2 DEF Close, Inv, InOrder
    <3>. QED  BY <3>1, <3>2 DEF ClosedIsComplete, LastIn
  <2>3. CASE state # "Closed" /\ ~Close
    <3>1. CASE WriteReturns
      <4>1. state' = Advanced(running[1].kind) /\ Valid(running[1].kind)
        BY <3>1, WriteReturnsInOrder
      <4>. QED  BY <4>1 DEF Valid, Advanced
    <3>2. ~WriteReturns => (state' = state \/ state' = "Failed")
      BY <2>3 DEF Next, WriteOutOfOrder, WriteBegins, WriteRefused, CallSucceeds, CallReports,
                  CallThrows, FlushRefusedInState, Flush, FlushFails, CloseAgain, CloseOfFailed,
                  CloseTooEarly, CloseFails, Refuse, Throw, vars, coordinatorVars
    <3>. QED  BY <2>3, <3>1, <3>2
  <2>. QED  BY <2>1, <2>2, <2>3
<1>. QED  BY <1>1, <1>2, NamesInductive, PTL DEF Spec
-----------------------------------------------------------------------------
(* The elements open between two events *)

\* The calls of one kind among the first n.
CallingIn(op, s, n) == {i \in 1 .. n : s[i].op = op}
Count(op, s, n) == Cardinality(CallingIn(op, s, n))

LEMMA CallingIsFinite ==
  ASSUME NEW op, NEW s, NEW n \in Nat
  PROVE  IsFiniteSet(CallingIn(op, s, n)) /\ Count(op, s, n) \in Nat
<1>1. IsFiniteSet(1 .. n)
  BY FS_Interval
<1>2. IsFiniteSet(CallingIn(op, s, n))
  BY <1>1, FS_Subset DEF CallingIn
<1>. QED  BY <1>2, FS_CardinalityType DEF Count

LEMMA CountOfNone == \A op, s : Count(op, s, 0) = 0
<1>1. \A op, s : CallingIn(op, s, 0) = {}
  BY DEF CallingIn
<1>. QED  BY <1>1, FS_EmptySet DEF Count

LEMMA CountOfNext ==
  ASSUME NEW op, NEW s, NEW n \in Nat
  PROVE  Count(op, s, n + 1) = IF s[n + 1].op = op THEN Count(op, s, n) + 1 ELSE Count(op, s, n)
<1>1. CASE s[n + 1].op = op
  <2>1. CallingIn(op, s, n + 1) = CallingIn(op, s, n) \cup {n + 1}
    BY <1>1 DEF CallingIn
  <2>2. n + 1 \notin CallingIn(op, s, n)
    BY DEF CallingIn
  <2>. QED  BY <1>1, <2>1, <2>2, CallingIsFinite, FS_AddElement DEF Count
<1>2. CASE s[n + 1].op # op
  <2>1. CallingIn(op, s, n + 1) = CallingIn(op, s, n)
    BY <1>2 DEF CallingIn
  <2>. QED  BY <1>2, <2>1 DEF Count
<1>. QED  BY <1>1, <1>2

\* After n of the calls of the running event, none of which failed.
BalancedSoFar(s, n) ==
  /\ \A i \in 1 .. n : s[i].op # "fail"
  /\ Depth + Count("endElement", s, n) = OpenBetween(state, writer) + Count("startElement", s, n)

BalanceInv ==
  state # "Failed" =>
    /\ state = "BeforeTransfer" => writer \in NewWriters
    /\ running = <<>> => Depth = OpenBetween(state, writer)
    /\ running # <<>> => LET s == CallsOf(writer, running[1]) IN BalancedSoFar(s, Made(s, calls))

LEMMA OpenBetweenIsNat ==
  ASSUME Inv, state # "Failed", Events # {}
  PROVE  OpenBetween(state, writer) \in Nat
<1>1. writer \in Writers /\ state \in WriterState
  BY DEF Inv, TypeOK
<1>2. OpenOf(writer) \in Nat
  BY <1>1, BalancedAssumption
<1>. QED  BY <1>1, <1>2 DEF OpenBetween, WriterState

\* What one call does to the depth.
LEMMA DepthOfCall ==
  ASSUME Inv, NamesInv, CallSucceeds, NEW c, c = Head(calls)
  PROVE  /\ c.op \in {"startDocument", "startElement", "writeNamespace", "writeAttribute", "text",
                      "endElement"}
         /\ Depth \in Nat
         /\ Depth' = CASE c.op = "startElement" -> Depth + 1
                       [] c.op = "endElement" -> Depth - 1
                       [] c.op \notin {"startElement", "endElement"} -> Depth
<1>1. c \in XmlCall /\ XmlSucceeds(c) /\ calls # <<>> /\ state' = state
  BY DEF CallSucceeds
<1>2. XmlTypeOK /\ Markup /\ Mirrors /\ state # "Failed"
  BY <1>1 DEF Inv, InOrder, TypeOK, Valid, NamesInv
<1>3. frames \in Seq(Frame) /\ Depth \in Nat /\ Depth = Len(frames)
  BY <1>2, DepthProperties
<1>4. c.op \in {"startDocument", "startElement", "writeNamespace", "writeAttribute", "text",
                "endElement"}
  BY <1>1 DEF XmlSucceeds
<1>5. CASE c.op = "startDocument"
  BY <1>1, <1>3, <1>5 DEF XmlSucceeds, StartDocument, Depth
<1>6. CASE c.op = "startElement"
  BY <1>1, <1>2, <1>3, <1>6, StartElementKeeps DEF Depth
<1>7. CASE c.op = "endElement"
  BY <1>1, <1>2, <1>3, <1>7, EndElementKeeps DEF Depth
<1>8. CASE c.op \in {"writeNamespace", "writeAttribute", "text"}
  <2>1. \E f : frames' = ReplaceTop(f)
    BY <1>1, <1>8 DEF XmlSucceeds, WriteNamespace, WriteAttribute, Text
  <2>2. DOMAIN frames' = 1 .. Len(frames)
    BY <1>3, <2>1 DEF ReplaceTop
  <2>3. frames' \in Seq(Frame)
    <3>1. TypeOK'
      BY NextType DEF Inv, Next
    <3>. QED  BY <3>1 DEF TypeOK, XmlTypeOK
  <2>4. Len(frames') = Len(frames)
    BY <1>3, <2>2, <2>3
  <2>. QED  BY <1>8, <2>4 DEF Depth
<1>. QED  BY <1>3, <1>4, <1>5, <1>6, <1>7, <1>8

LEMMA CallKeepsBalance ==
  ASSUME Inv, NamesInv, BalanceInv, CallSucceeds \/ CallReports
  PROVE  BalanceInv'
<1>. DEFINE c == Head(calls)
<1>1. /\ calls # <<>> /\ calls' = Tail(calls) /\ UNCHANGED <<state, writer, running>>
  BY DEF CallSucceeds, CallReports
<1>2. PICK s : s = CallsOf(writer, running[1])
  OBVIOUS
<1>3. PICK n : n = Made(s, calls)
  OBVIOUS
<1>4. /\ state \notin {"Failed", "Closed"}
      /\ n \in Nat /\ n + 1 <= Len(s) /\ Len(s) \in Nat
      /\ c = s[n + 1] /\ running[1] \in Events
  BY <1>1, <1>2, <1>3, Planned DEF NamesInv
<1>5. /\ running # <<>> /\ (state = "BeforeTransfer" => writer \in NewWriters)
      /\ BalancedSoFar(s, n)
  BY <1>1, <1>2, <1>3, <1>4 DEF BalanceInv, Inv, InOrder
<1>6. Made(s, calls') = n + 1
  <2>1. calls \in Seq(DialectCall) /\ calls # <<>>
    BY <1>1 DEF Inv, TypeOK
  <2>2. Len(calls) \in Nat /\ Len(calls') = Len(calls) - 1
    BY <1>1, <2>1
  <2>. QED  BY <1>3, <1>4, <2>2 DEF Made
<1>7. /\ c.op # "fail" /\ Depth \in Nat
      /\ Depth' = CASE c.op = "startElement" -> Depth + 1
                    [] c.op = "endElement" -> Depth - 1
                    [] c.op \notin {"startElement", "endElement"} -> Depth
  <2>1. CASE CallSucceeds
    BY <2>1, DepthOfCall
  <2>2. CASE CallReports
    <3>1. c.op = "report" /\ Depth' = Depth
      BY <2>2 DEF CallReports, xmlVars, Depth
    <3>2. Depth \in Nat
      <4>1. frames \in Seq(Frame)
        BY DEF Inv, TypeOK, XmlTypeOK
      <4>. QED  BY <4>1 DEF Depth
    <3>. QED  BY <3>1, <3>2
  <2>. QED  BY <2>1, <2>2
<1>. HIDE DEF c
<1>8. PICK open \in Nat : open = OpenBetween(state, writer)
  BY <1>4, OpenBetweenIsNat
<1>9. OpenBetween(state', writer') = open
  BY <1>1, <1>8
<1>10. /\ Count("startElement", s, n) \in Nat /\ Count("endElement", s, n) \in Nat
       /\ Depth + Count("endElement", s, n) = open + Count("startElement", s, n)
  BY <1>4, <1>5, <1>8, CallingIsFinite DEF BalancedSoFar
<1>11. /\ Count("startElement", s, n + 1)
            = IF c.op = "startElement" THEN Count("startElement", s, n) + 1
              ELSE Count("startElement", s, n)
       /\ Count("endElement", s, n + 1)
            = IF c.op = "endElement" THEN Count("endElement", s, n) + 1
              ELSE Count("endElement", s, n)
  BY <1>4, CountOfNext
<1>12. Depth' + Count("endElement", s, n + 1) = open + Count("startElement", s, n + 1)
  <2>1. CASE c.op = "startElement"
    <3>1. /\ Depth' = Depth + 1 /\ Count("endElement", s, n + 1) = Count("endElement", s, n)
          /\ Count("startElement", s, n + 1) = Count("startElement", s, n) + 1
      BY <1>7, <1>11, <2>1
    <3>. QED  BY <1>7, <1>10, <3>1
  <2>2. CASE c.op = "endElement"
    <3>1. /\ Depth' = Depth - 1 /\ Count("endElement", s, n + 1) = Count("endElement", s, n) + 1
          /\ Count("startElement", s, n + 1) = Count("startElement", s, n)
      BY <1>7, <1>11, <2>2
    <3>. QED  BY <1>7, <1>10, <3>1
  <2>3. CASE c.op \notin {"startElement", "endElement"}
    BY <1>7, <1>10, <1>11, <2>3
  <2>. QED  BY <2>1, <2>2, <2>3
<1>13. \A i \in 1 .. n + 1 : s[i].op # "fail"
  <2>1. \A i \in 1 .. n + 1 : i = n + 1 \/ i \in 1 .. n
    BY <1>4
  <2>. QED  BY <1>4, <1>5, <1>7, <2>1 DEF BalancedSoFar
<1>14. BalancedSoFar(s, n + 1)'
  BY <1>9, <1>12, <1>13 DEF BalancedSoFar
<1>15. s = CallsOf(writer', running'[1])
  BY <1>1, <1>2
<1>. QED  BY <1>1, <1>5, <1>6, <1>14, <1>15 DEF BalanceInv

\* The event is complete: what it leaves open is what the assumption about the dialects says.
LEMMA ReturnKeepsBalance ==
  ASSUME Inv, NamesInv, BalanceInv, WriteReturns
  PROVE  BalanceInv'
<1>1. /\ running # <<>> /\ calls = <<>> /\ Valid(running[1].kind) /\ running[1] \in Events
      /\ state' = Advanced(running[1].kind) /\ writer' = StateAfter(writer, running[1])
      /\ running' = <<>> /\ frames' = frames /\ writer \in Writers
  BY WriteReturnsInOrder DEF WriteReturns, Idle, xmlVars, Inv, TypeOK
<1>2. state # "Failed" /\ running[1].kind \in Kind
  BY <1>1, EventsAssumption DEF Valid
<1>3. PICK e \in Events : e = running[1]
  BY <1>1
<1>4. PICK s : s = CallsOf(writer, e)
  OBVIOUS
<1>5. s \in Seq(DialectCall) /\ Len(s) \in Nat
  BY <1>1, <1>4, DialectAssumption
<1>6. Made(s, calls) = Len(s)
  BY <1>1, <1>5 DEF Made
<1>7. /\ state = "BeforeTransfer" => writer \in NewWriters
      /\ BalancedSoFar(s, Len(s))
  BY <1>1, <1>2, <1>3, <1>4, <1>6 DEF BalanceInv
<1>8. \A op : CallingIn(op, s, Len(s)) = Calling(op, s)
  BY <1>5 DEF CallingIn, Calling
<1>9. Calling("fail", s) = {}
  BY <1>5, <1>7 DEF BalancedSoFar, Calling
<1>10. PICK starts \in Nat : starts = Cardinality(Calling("startElement", s))
  BY <1>5, <1>8, CallingIsFinite DEF Count
<1>11. PICK ends \in Nat : ends = Cardinality(Calling("endElement", s))
  BY <1>5, <1>8, CallingIsFinite DEF Count
<1>12. Depth + ends = OpenBetween(state, writer) + starts
  BY <1>7, <1>8, <1>10, <1>11 DEF BalancedSoFar, Count
<1>13. \A before, after : Balances(s, before, after) => before + starts = after + ends
  BY <1>9, <1>10, <1>11 DEF Balances
<1>14. PICK open : open = OpenOf(writer)
  OBVIOUS
<1>15. PICK next : next = OpenOf(writer')
  OBVIOUS
<1>16. open \in Nat /\ next \in Nat
  BY <1>1, <1>3, <1>14, <1>15, DialectAssumption, BalancedAssumption
<1>17. Depth \in Nat /\ Depth' = Depth
  <2>1. frames \in Seq(Frame)
    BY DEF Inv, TypeOK, XmlTypeOK
  <2>. QED  BY <1>1, <2>1 DEF Depth
<1>18. Depth' = OpenBetween(state', writer') /\ state' # "BeforeTransfer"
  <2>1. CASE e.kind = "StartTransfer"
    <3>1. state = "BeforeTransfer" /\ state' = "InTransfer"
      BY <1>1, <1>3, <2>1 DEF Valid, Advanced
    <3>2. OpenBetween(state, writer) = 0 /\ OpenBetween(state', writer') = next
      BY <1>15, <3>1 DEF OpenBetween
    <3>3. 0 + starts = next + ends
      BY <1>1, <1>3, <1>4, <1>7, <1>13, <1>15, <2>1, <3>1, BalancedAssumption
    <3>. QED  BY <1>10, <1>11, <1>12, <1>16, <1>17, <3>1, <3>2, <3>3
  <2>2. CASE e.kind = "StartBasket"
    <3>1. state \in {"InTransfer", "AfterBasket"} /\ state' = "InBasket"
      BY <1>1, <1>3, <2>2 DEF Valid, Advanced
    <3>2. OpenBetween(state, writer) = open /\ OpenBetween(state', writer') = next + 1
      BY <1>14, <1>15, <3>1 DEF OpenBetween
    <3>3. open + starts = (next + 1) + ends
      BY <1>1, <1>3, <1>4, <1>13, <1>14, <1>15, <2>2, BalancedAssumption
    <3>. QED  BY <1>12, <1>16, <1>17, <3>1, <3>2, <3>3
  <2>3. CASE e.kind = "Object"
    <3>1. state = "InBasket" /\ state' = "InBasket"
      BY <1>1, <1>3, <2>3 DEF Valid, Advanced
    <3>2. OpenBetween(state, writer) = open + 1 /\ OpenBetween(state', writer') = next + 1
      BY <1>14, <1>15, <3>1 DEF OpenBetween
    <3>3. 0 + starts = 0 + ends /\ next = open
      BY <1>1, <1>3, <1>4, <1>13, <1>14, <1>15, <2>3, BalancedAssumption
    <3>. QED  BY <1>12, <1>16, <1>17, <3>1, <3>2, <3>3
  <2>4. CASE e.kind = "EndBasket"
    <3>1. state = "InBasket" /\ state' = "AfterBasket"
      BY <1>1, <1>3, <2>4 DEF Valid, Advanced
    <3>2. OpenBetween(state, writer) = open + 1 /\ OpenBetween(state', writer') = next
      BY <1>14, <1>15, <3>1 DEF OpenBetween
    <3>3. 1 + starts = 0 + ends /\ next = open
      BY <1>1, <1>3, <1>4, <1>13, <1>14, <1>15, <2>4, BalancedAssumption
    <3>. QED  BY <1>12, <1>16, <1>17, <3>1, <3>2, <3>3
  <2>5. CASE e.kind = "EndTransfer"
    <3>1. state \in {"InTransfer", "AfterBasket"} /\ state' = "AfterTransfer"
      BY <1>1, <1>3, <2>5 DEF Valid, Advanced
    <3>2. OpenBetween(state, writer) = open /\ OpenBetween(state', writer') = 0
      BY <1>14, <3>1 DEF OpenBetween
    <3>3. open + starts = 0 + ends
      BY <1>1, <1>3, <1>4, <1>13, <1>14, <2>5, BalancedAssumption
    <3>. QED  BY <1>12, <1>16, <1>17, <3>1, <3>2, <3>3
  <2>. QED  BY <1>2, <1>3, <2>1, <2>2, <2>3, <2>4, <2>5 DEF Kind
<1>. QED  BY <1>1, <1>18 DEF BalanceInv

LEMMA BeginKeepsBalance ==
  ASSUME Inv, BalanceInv, NEW e \in Events, WriteBegins(e)
  PROVE  BalanceInv'
<1>1. /\ UNCHANGED <<state, writer, frames>> /\ state # "Failed" /\ running = <<>>
      /\ running' = <<e>> /\ calls' = CallsOf(writer, e) /\ writer \in Writers
  BY DEF WriteBegins, Idle, xmlVars, Inv, TypeOK
<1>2. PICK s : s = CallsOf(writer, e)
  OBVIOUS
<1>3. s \in Seq(DialectCall) /\ Len(s) \in Nat
  BY <1>1, <1>2, DialectAssumption
<1>4. Made(s, calls') = 0
  BY <1>1, <1>2, <1>3 DEF Made
<1>5. Depth' = OpenBetween(state', writer') /\ (state = "BeforeTransfer" => writer \in NewWriters)
  BY <1>1 DEF BalanceInv, Depth
<1>6. BalancedSoFar(s, 0)'
  BY <1>5, CountOfNone DEF BalancedSoFar
<1>7. CallsOf(writer', running'[1]) = s
  BY <1>1, <1>2
<1>. QED  BY <1>1, <1>4, <1>5, <1>6, <1>7 DEF BalanceInv

LEMMA NextKeepsBalance == Inv /\ NamesInv /\ BalanceInv /\ [Next]_vars => BalanceInv'
<1>. SUFFICES ASSUME Inv, NamesInv, BalanceInv, [Next]_vars
              PROVE  BalanceInv'
  OBVIOUS
<1>1. ASSUME NEW e \in Events, WriteOutOfOrder(e) \/ WriteBegins(e)
      PROVE  BalanceInv'
  <2>1. CASE WriteOutOfOrder(e)
    BY <2>1 DEF WriteOutOfOrder, Throw, BalanceInv
  <2>. QED  BY <1>1, <2>1, BeginKeepsBalance
<1>2. CASE WriteRefused \/ FlushRefusedInState \/ CloseOfFailed \/ CloseAgain \/ UNCHANGED vars
  <2>1. UNCHANGED <<state, writer, running, calls, frames>>
    BY <1>2 DEF WriteRefused, FlushRefusedInState, CloseOfFailed, CloseAgain, Refuse, vars,
                coordinatorVars, xmlVars
  <2>. QED  BY <2>1 DEF BalanceInv, BalancedSoFar, Depth
<1>3. CASE CallSucceeds \/ CallReports
  BY <1>3, CallKeepsBalance
<1>4. CASE CallThrows \/ FlushFails \/ CloseTooEarly \/ CloseFails
  BY <1>4 DEF CallThrows, FlushFails, CloseTooEarly, CloseFails, Throw, BalanceInv
<1>5. CASE WriteReturns
  BY <1>5, ReturnKeepsBalance
<1>6. CASE Flush
  <2>1. /\ UNCHANGED <<state, writer, running, calls>> /\ running = <<>> /\ state # "Failed"
        /\ frames' = FlushedFrames
    BY <1>6 DEF Flush, FlushXml, Idle
  <2>2. frames \in Seq(Frame)
    BY DEF Inv, TypeOK, XmlTypeOK
  <2>3. Depth' = Depth
    BY <2>1, <2>2, StackFlushed DEF Depth, NamesInv, Markup
  <2>. QED  BY <2>1, <2>3 DEF BalanceInv
<1>7. CASE Close
  <2>1. /\ UNCHANGED <<writer, running, calls>> /\ running = <<>> /\ state = "AfterTransfer"
        /\ state' = "Closed" /\ Depth' = Depth
    BY <1>7 DEF Close, EndDocument, Idle, Depth
  <2>2. Depth = 0
    BY <2>1 DEF BalanceInv, OpenBetween
  <2>. QED  BY <2>1, <2>2 DEF BalanceInv, OpenBetween
<1>. QED  BY <1>1, <1>2, <1>3, <1>4, <1>5, <1>6, <1>7 DEF Next

\* Between two events the elements open are those of the transfer and its basket, for every dialect
\* writer whose events balance when their checks pass: an event stopped half-way is the only one
\* that leaves anything open, and nothing is written after it (XtfWriter::write).
THEOREM EventsAreBalanced == Spec => []BalancedBetweenEvents
<1>1. Init => BalanceInv
  <2>1. Init => state = "BeforeTransfer" /\ writer \in NewWriters /\ running = <<>> /\ Depth = 0
    BY DEF Init, XmlInit, Depth
  <2>. QED  BY <2>1 DEF BalanceInv, OpenBetween
<1>2. Inv /\ NamesInv /\ BalanceInv /\ [Next]_vars => BalanceInv'
  BY NextKeepsBalance
<1>3. BalanceInv => BalancedBetweenEvents
  BY DEF BalanceInv, BalancedBetweenEvents, Idle
<1>. QED  BY <1>1, <1>2, <1>3, NamesInductive, PTL DEF Spec
=============================================================================
