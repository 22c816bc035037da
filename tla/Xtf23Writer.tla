------------------------------ MODULE Xtf23Writer ------------------------------
(***************************************************************************)
(* The XTF 2.3 writer (source/xtf/v23/Xtf23Writer.cpp): what each event    *)
(* makes it call.  Its only state is whether the data section is open.     *)
(***************************************************************************)
EXTENDS XtfWriting

DialectWriters == {"dataSectionClosed", "dataSectionOpen"}
NewDialectWriter == "dataSectionClosed"

XtfName(local) == [ns |-> "ili23", local |-> local, hint |-> NoPrefix, valid |-> TRUE]
AttributeName(local) == [ns |-> NoNamespace, local |-> local, hint |-> NoPrefix, valid |-> TRUE]
Attr(local) == Attribute(AttributeName(local))

InterlisName(name, Plan(_)) == Check(name.ili # NoName, Plan(XtfName(name.ili)))

\* An extension without a namespace undeclares the default one, which the root declares.
WriteExtension(x) == Extension(x, TRUE)

IsAlias(x) == x.name.local = "ALIAS" /\ x.name.ns \in {NoNamespace, "ili23"}
Enabled(x) == IF IsAlias(x) THEN WriteExtension(x) ELSE IfEnabled(WriteExtension(x))
-----------------------------------------------------------------------------
(* Transfer and basket *)

Model(model) ==
  Check(model.name # NoName,
    When(model.version # "given" \/ model.uri # "given", StrictOrReport)
      \o Element(XtfName("MODEL"),
           Attr("NAME") \o When(model.version = "given", Attr("VERSION"))
                        \o When(model.uri = "given", Attr("URI"))))

OidSpace(complete) ==
  Check(complete, Element(XtfName("OIDSPACE"), Attr("NAME") \o Attr("OIDDOMAIN")))

StartTransfer(header) ==
  Check(header.version = "V23",
    StartDocument
      \o Start(XtfName("TRANSFER"))
      \o Element(XtfName("HEADERSECTION"),
           Attr("VERSION") \o Attr("SENDER")
             \o Element(XtfName("MODELS"), Each(header.models, Model))
             \o Each(header.extensions, LAMBDA x : When(IsAlias(x), WriteExtension(x)))
             \o When(header.oidSpaces # <<>>,
                     Element(XtfName("OIDSPACES"), Each(header.oidSpaces, OidSpace)))
             \o When(header.comment, Element(XtfName("COMMENT"), Text(TRUE)))
             \o Each(header.extensions, LAMBDA x : When(~IsAlias(x), Enabled(x)))))

MatchesBasket(x, basket) ==
  \/ x.name.local = basket.topic.ili
  \/ \E i \in DOMAIN basket.topic.xml : /\ x.name.ns = basket.topic.xml[i].ns
                                        /\ x.name.local = basket.topic.xml[i].local

OpenDataSection(w) == When(w = "dataSectionClosed", Start(XtfName("DATASECTION")))

StartBasket(w, basket) ==
  Check(basket.id = "given",
    OpenDataSection(w)
      \o InterlisName(basket.topic, Start)
      \o Attr("BID")
      \o When(HasKind(basket), Attr("KIND"))
      \o When(basket.startState, Attr("STARTSTATE"))
      \o When(basket.endState, Attr("ENDSTATE"))
      \o When(HasConsistency(basket), Attr("CONSISTENCY"))
      \o When(basket.topics, Attr("TOPICS"))
      \o When(basket.domains, StrictOrReport \o Attr("DOMAINS"))
      \o Each(basket.extensions, LAMBDA x : When(MatchesBasket(x, basket), BasketAttributes(x)))
      \o Each(basket.extensions, LAMBDA x : When(~MatchesBasket(x, basket), Enabled(x))))

\* Mutant of EndTransfer: a transfer without baskets gets no data section.
EndTransferWithoutSection(w) == When(w = "dataSectionOpen", End) \o End

EndTransfer(w) == OpenDataSection(w) \o End \o End
-----------------------------------------------------------------------------
(* Objects and geometry *)

IsOidMarker(o) == o.tag.ili = "OID" /\ o.oid # "absent" /\ o.members = <<>>

RECURSIVE WriteStructured(_), WriteNamedValue(_, _), WriteMembers(_, _)

WriteNamedValue(name, value) ==
  InterlisName(name, LAMBDA n :
    Element(n,
      IF value.primitive THEN Text(value.valid)
      ELSE IF IsOidMarker(value) THEN Check(value.oid = "given", Attr("OID"))
      ELSE IF IsReference(value)
      THEN ReferenceAttributes(value.reference, AttributeName("REF"), AttributeName("BID"),
                               AttributeName("ORDER_POS"))
             \o When(~IsReferencePlaceholder(value), WriteStructured(value))
      ELSE WriteStructured(value)))

\* writeGenericContents, or for geometry the members that have no place in it.
WriteMembers(o, known) ==
  FlattenSeq([i \in DOMAIN o.members |->
    LET m == o.members[i]
    IN  When(m.name.ili \notin known,
          When(known # {}, StrictOrReport)
            \o FlattenSeq([j \in DOMAIN ValuesOf(m) |-> WriteNamedValue(m.name, ValuesOf(m)[j])]))])

Primitive(o, member, required) == PrimitiveMember(o, member, XtfName(member), required)

WriteCoordinate(o) ==
  Element(XtfName("COORD"),
    Primitive(o, "C1", TRUE) \o Primitive(o, "C2", FALSE) \o Primitive(o, "C3", FALSE)
      \o WriteMembers(o, {"C1", "C2", "C3"}))

WriteArc(o) ==
  Element(XtfName("ARC"),
    Primitive(o, "C1", TRUE) \o Primitive(o, "C2", TRUE) \o Primitive(o, "C3", FALSE)
      \o Primitive(o, "A1", TRUE) \o Primitive(o, "A2", TRUE) \o Primitive(o, "R", FALSE)
      \o WriteMembers(o, {"C1", "C2", "C3", "A1", "A2", "R"}))

\* A group is in CLIPPED elements if the geometry is incomplete, else there is only one.
Groups(values, clipped, Plan(_)) ==
  Check(clipped \/ Len(values) = 1,
    SomeObjects(values, LAMBDA v : IF clipped THEN Element(XtfName("CLIPPED"), Plan(v)) ELSE Plan(v)))

WriteSegments(sequence) ==
  SomeObjects(Values(sequence, "SEGMENT"), LAMBDA v : WriteStructured(v))
    \o When(\E i \in DOMAIN sequence.members : sequence.members[i].name.ili # "SEGMENT",
            StrictOrReport)

WritePolyline(o) ==
  Element(XtfName("POLYLINE"),
    (LET attributes == Values(o, "LINEATTR")
     IN  Check(Len(attributes) <= 1,
           Each(attributes, LAMBDA v :
             Check(~v.primitive, Element(XtfName("LINEATTR"), WriteStructured(v))))))
      \o Groups(Values(o, "SEQUENCE"), o.consistency = "Incomplete", WriteSegments)
      \o WriteMembers(o, {"LINEATTR", "SEQUENCE"}))

WriteBoundary(o) ==
  Element(XtfName("BOUNDARY"),
    SomeObjects(Values(o, "POLYLINE"), WritePolyline) \o WriteMembers(o, {"POLYLINE"}))

WriteSurfaceBoundaries(o) == SomeObjects(Values(o, "BOUNDARY"), WriteBoundary)

WriteClippedGroup(o) == WriteSurfaceBoundaries(o) \o WriteMembers(o, {"BOUNDARY"})

WriteMultiSurface(o) ==
  Groups(Values(o, "SURFACE"), o.consistency = "Incomplete", WriteClippedGroup)
    \o WriteMembers(o, {"SURFACE"})

\* A SURFACE names its clipped groups, or is one itself, or is not clipped.
WriteSingleSurface(o) ==
  (LET clipped == Values(o, "CLIPPED")
   IN  IF clipped # <<>>
       THEN Check(Values(o, "BOUNDARY") = <<>>, Groups(clipped, TRUE, WriteClippedGroup))
       ELSE Groups(<<o>>, o.consistency = "Incomplete", WriteSurfaceBoundaries))
    \o WriteMembers(o, {"BOUNDARY", "CLIPPED"})

WriteSurface(o) ==
  Element(XtfName("SURFACE"),
          IF o.tag.ili = "MULTISURFACE" THEN WriteMultiSurface(o) ELSE WriteSingleSurface(o))

WriteStructured(o) ==
  CASE o.tag.ili = "COORD"    -> WriteCoordinate(o)
    [] o.tag.ili = "ARC"      -> WriteArc(o)
    [] o.tag.ili = "POLYLINE" -> WritePolyline(o)
    [] o.tag.ili \in {"SURFACE", "AREA", "MULTISURFACE"} -> WriteSurface(o)
    [] o.tag.ili = "BOUNDARY" -> WriteBoundary(o)
    [] OTHER -> InterlisName(o.tag, LAMBDA n : Element(n, WriteMembers(o, {})))

Object(o) ==
  LET deletion == o.tag.ili = "DELETE"
  IN  Check(o.oid = "given",
        InterlisName(o.tag, LAMBDA n :
          Element(n,
            Attr("TID")
              \o When(o.reference.basket # "absent", Check(~deletion, Attr("BID")))
              \o Check(o.reference.oid = "absent" /\ o.reference.order = "absent",
                   When(~deletion,
                     When(HasOperation(o), Attr("OPERATION"))
                       \o When(HasConsistency(o), Attr("CONSISTENCY")))
                     \o WriteMembers(o, {})))))
-----------------------------------------------------------------------------
\* What the writer calls for an event, and what it remembers.
Calls(w, e) ==
  CASE e.kind = "StartTransfer" -> StartTransfer(e.header)
    [] e.kind = "StartBasket"   -> StartBasket(w, e.basket)
    [] e.kind = "Object"        -> Object(e.object)
    [] e.kind = "EndBasket"     -> End
    [] e.kind = "EndTransfer"   -> EndTransfer(w)

After(w, e) ==
  CASE e.kind = "StartBasket" -> "dataSectionOpen"
    [] e.kind = "EndTransfer" -> "dataSectionClosed"
    [] e.kind \in {"StartTransfer", "Object", "EndBasket"} -> w
=============================================================================
