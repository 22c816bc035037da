------------------------------ MODULE Xtf24Writer ------------------------------
(***************************************************************************)
(* The XTF 2.4 writer (source/xtf/v24/Xtf24Writer.cpp): what each event    *)
(* makes it call.  Its state is what the header has said of the models: a  *)
(* set of [name, ns, prefix], one for each model with a namespace.         *)
(***************************************************************************)
EXTENDS XtfWriting

CONSTANTS
  ModelPrefixes   \* "m0", "m1", ... in their order; as many as a run needs

NewDialectWriter == {}

IliName(local) == [ns |-> "ili24", local |-> local, hint |-> "ili", valid |-> TRUE]
GeometryName(local) == [ns |-> "geom", local |-> local, hint |-> "geom", valid |-> TRUE]
IliAttribute(local) == Attribute(IliName(local))

WriteExtension(x) == Extension(x, FALSE)
Enabled(x) == IfEnabled(WriteExtension(x))

\* requireXmlName: the name has a QName in a model's namespace.
HasXmlName(name) ==
  /\ name.xml # <<>>
  /\ name.xml[1].ns \notin {NoNamespace, "ili24", "geom"} /\ name.xml[1].local # NoName

\* Without a QName a basket has its model's namespace and the prefix of the header.
StartOfBasket(w, topic) ==
  IF topic.xml # <<>> THEN Check(HasXmlName(topic), Start(topic.xml[1]))
  ELSE Check(Len(topic.parts) = 2 /\ \E m \in w : m.name = topic.parts[1],
         LET model == CHOOSE m \in w : m.name = topic.parts[1]
         IN  Start([ns |-> model.ns, local |-> topic.parts[2], hint |-> model.prefix,
                    valid |-> TRUE]))
-----------------------------------------------------------------------------
(* Transfer and basket *)

\* uniquePrefix: the next of the writer's own prefixes that no model has for its hint.
NextOwnPrefix(owned, taken) ==
  CHOOSE n \in taken + 1 .. Len(ModelPrefixes) :
    ModelPrefixes[n] \notin owned /\ \A m \in taken + 1 .. n - 1 : ModelPrefixes[m] \in owned

\* One model more is declared on the root; acc.owned are the prefixes in use, and of
\* ModelPrefixes acc.taken have been.
DeclareModel(acc, model) ==
  LET hinted == model.hint \notin acc.owned \cup {NoPrefix, "xml"}
      taken  == IF hinted THEN acc.taken ELSE NextOwnPrefix(acc.owned, acc.taken)
      prefix == IF hinted THEN model.hint ELSE ModelPrefixes[taken]
      unambiguous == \A m \in acc.models : m.name = model.name => m.ns = model.ns
      start == Check(model.name # NoName,
                     When(model.version # "absent" \/ model.uri # "absent", StrictOrReport))
  IN  IF model.ns = NoNamespace
      THEN [acc EXCEPT !.plan = @ \o start]
      ELSE [models |-> {m \in acc.models : m.name # model.name}
                         \cup {[name |-> model.name, ns |-> model.ns, prefix |-> prefix]},
            owned  |-> acc.owned \cup {prefix},
            taken  |-> taken,
            plan   |-> acc.plan \o start
                         \o When(model.local \notin {NoName, model.name}, StrictOrReport)
                         \o Check(unambiguous, Namespace(prefix, model.ns))]

DeclareModels(models) ==
  FoldLeft(DeclareModel,
           [models |-> {}, owned |-> {"ili", "geom"}, taken |-> 0, plan |-> <<>>], models)

TextElement(local) == Element(IliName(local), Text(TRUE))

StartTransfer(header) ==
  Check(header.version = "V24" /\ header.models # <<>>,
    StartDocument
      \o Start(IliName("transfer"))
      \o Namespace("geom", "geom")
      \o DeclareModels(header.models).plan
      \o Element(IliName("headersection"),
           Element(IliName("models"), Each(header.models, LAMBDA m : TextElement("model")))
             \o When(header.sender, TextElement("sender"))
             \o When(header.comment, TextElement("comment"))
             \o When(header.oidSpaces # <<>>, StrictOrReport)
             \o Each(header.extensions, Enabled))
      \o Start(IliName("datasection")))

MatchesBasket(x, basket) ==
  \E i \in DOMAIN basket.topic.xml : /\ x.name.ns = basket.topic.xml[i].ns
                                     /\ x.name.local = basket.topic.xml[i].local

StartBasket(w, basket) ==
  Check(basket.id = "given",
    StartOfBasket(w, basket.topic)
      \o IliAttribute("bid")
      \o When(HasKind(basket),
              IliAttribute("kind")
                \o When(~basket.startState \/ ~basket.endState, StrictOrReport))
      \o When(basket.startState, IliAttribute("startstate"))
      \o When(basket.endState, IliAttribute("endstate"))
      \o When(basket.domains, IliAttribute("domains"))
      \o When(basket.consistency = "Incomplete", IliAttribute("consistency"))
      \o When(basket.consistency \in {"Inconsistent", "Adapted"}, StrictOrReport)
      \o When(basket.topics, StrictOrReport)
      \o Each(basket.extensions, LAMBDA x : When(MatchesBasket(x, basket), BasketAttributes(x)))
      \o Each(basket.extensions, LAMBDA x : When(~MatchesBasket(x, basket), Enabled(x))))

EndTransfer == End \o End
-----------------------------------------------------------------------------
(* Objects and geometry *)

Lower == [C1 |-> "c1", C2 |-> "c2", C3 |-> "c3", A1 |-> "a1", A2 |-> "a2", R |-> "r"]

Primitive(o, member, required) ==
  PrimitiveMember(o, member, GeometryName(Lower[member]), required)

\* A geometry member without a place is not written.
DiagnoseUnknownMembers(o, known) ==
  Each(o.members, LAMBDA m : When(m.name.ili \notin known, StrictOrReport))

WriteCoordinate(o) ==
  Element(GeometryName("coord"),
    Primitive(o, "C1", TRUE) \o Primitive(o, "C2", FALSE)
      \o Check(Values(o, "C3") # <<>> => Values(o, "C2") # <<>>, Primitive(o, "C3", FALSE))
      \o DiagnoseUnknownMembers(o, {"C1", "C2", "C3"}))

WriteArc(o) ==
  Element(GeometryName("arc"),
    Primitive(o, "C1", TRUE) \o Primitive(o, "C2", TRUE) \o Primitive(o, "C3", FALSE)
      \o Primitive(o, "A1", TRUE) \o Primitive(o, "A2", TRUE) \o Primitive(o, "R", FALSE)
      \o DiagnoseUnknownMembers(o, {"C1", "C2", "C3", "A1", "A2", "R"}))

RECURSIVE WriteStructured(_)

WriteSegments(sequence) ==
  SomeObjects(Values(sequence, "SEGMENT"), LAMBDA v : WriteStructured(v))
    \o DiagnoseUnknownMembers(sequence, {"SEGMENT"})

WritePolyline(o) ==
  Element(GeometryName("polyline"),
    When(Values(o, "LINEATTR") # <<>>, StrictOrReport)
      \o Check(Len(Values(o, "SEQUENCE")) = 1, SomeObjects(Values(o, "SEQUENCE"), WriteSegments))
      \o DiagnoseUnknownMembers(o, {"SEQUENCE", "LINEATTR"}))

\* A multi-geometry whose members have the tag of the member's name.
WriteMultiCoord(o) ==
  Element(GeometryName("multicoord"),
    SomeObjects(Values(o, "COORD"), LAMBDA v : Check(v.tag.ili = "COORD", WriteCoordinate(v)))
      \o DiagnoseUnknownMembers(o, {"COORD"}))

WriteMultiPolyline(o) ==
  Element(GeometryName("multipolyline"),
    SomeObjects(Values(o, "POLYLINE"),
                LAMBDA v : Check(v.tag.ili = "POLYLINE", WritePolyline(v)))
      \o DiagnoseUnknownMembers(o, {"POLYLINE"}))

WriteBoundary(boundary, wrapper) ==
  Element(GeometryName(wrapper),
    IF boundary.tag.ili = "POLYLINE" THEN WritePolyline(boundary)
    ELSE SomeObjects(Values(boundary, "POLYLINE"), WritePolyline)
           \o DiagnoseUnknownMembers(boundary, {"POLYLINE"}))

Boundaries(values, wrapper) ==
  Each(values, LAMBDA v : Check(~v.primitive, WriteBoundary(v, wrapper)))

\* One exterior and its interiors, or boundaries of which the first is the exterior.
WriteSurface(o) ==
  LET exterior == Values(o, "EXTERIOR")
      direct   == Values(o, "BOUNDARY")
  IN  Element(GeometryName("surface"),
        IF exterior # <<>>
        THEN Check(direct = <<>> /\ Len(exterior) = 1,
               Boundaries(exterior, "exterior") \o Boundaries(Values(o, "INTERIOR"), "interior")
                 \o DiagnoseUnknownMembers(o, {"EXTERIOR", "INTERIOR"}))
        ELSE Check(direct # <<>>,
               Boundaries(<<direct[1]>>, "exterior") \o Boundaries(Tail(direct), "interior")
                 \o DiagnoseUnknownMembers(o, {"BOUNDARY"})))

WriteMultiSurface(o) ==
  LET member == IF Values(o, "SURFACE") # <<>> THEN "SURFACE" ELSE "AREA"
  IN  Element(GeometryName("multisurface"),
        SomeObjects(Values(o, member), WriteSurface) \o DiagnoseUnknownMembers(o, {member}))

IsDirectGeometry(name, value) ==
  /\ ~value.primitive /\ name.xml # <<>> /\ value.tag.xml # <<>>
  /\ name.xml[1].ns = "geom" /\ value.tag.xml[1].ns = "geom"
  /\ name.xml[1].local = value.tag.xml[1].local

WriteNamedValue(name, value) ==
  IF IsDirectGeometry(name, value) THEN WriteStructured(value)
  ELSE Check(HasXmlName(name),
         Element(name.xml[1],
           IF value.primitive THEN Text(value.valid)
           ELSE IF IsReference(value)
           THEN ReferenceAttributes(value.reference, IliName("ref"), IliName("bid"), IliName("order_pos"))
                  \o When(~IsReferencePlaceholder(value), WriteStructured(value))
           ELSE WriteStructured(value)))

\* A member "text" without a QName is the text of the element itself.
WriteGenericContents(o) ==
  Each(o.members, LAMBDA m :
    Each(ValuesOf(m), LAMBDA v :
      IF m.name.xml = <<>> /\ m.name.ili = "text" /\ v.primitive
      THEN Text(v.valid)
      ELSE WriteNamedValue(m.name, v)))

\* A value of a model's class, or of a geometry this writer does not know.
WriteClass(o) ==
  LET ns == o.tag.xml[1].ns
      content == Element(o.tag.xml[1], WriteGenericContents(o))
  IN  Check(o.tag.xml # <<>> /\ ns \notin {NoNamespace, "ili24"} /\ o.tag.xml[1].local # NoName,
        IF ns = "geom" THEN IfEnabled(content) ELSE content)

WriteStructured(o) ==
  CASE o.tag.ili = "COORD"         -> WriteCoordinate(o)
    [] o.tag.ili = "ARC"           -> WriteArc(o)
    [] o.tag.ili = "POLYLINE"      -> WritePolyline(o)
    [] o.tag.ili = "MULTICOORD"    -> WriteMultiCoord(o)
    [] o.tag.ili = "MULTIPOLYLINE" -> WriteMultiPolyline(o)
    [] o.tag.ili \in {"SURFACE", "AREA"} -> WriteSurface(o)
    [] o.tag.ili \in {"MULTISURFACE", "MULTIAREA"} -> WriteMultiSurface(o)
    [] OTHER -> WriteClass(o)

IsDeletion(tag) ==
  \/ tag.ili = "DELETE"
  \/ \E i \in DOMAIN tag.xml : tag.xml[i].ns = "ili24" /\ tag.xml[i].local = "delete"

Object(o) ==
  LET deletion == IsDeletion(o.tag)
      content ==
        When(o.oid # "absent", Check(o.oid = "given", IliAttribute("tid")))
          \o When(o.reference.basket # "absent", StrictOrReport \o IliAttribute("bid"))
          \o Check(o.reference.oid = "absent" /\ o.reference.order = "absent",
               (IF deletion
                THEN When(o.operation \notin {"Delete", "None"}, StrictOrReport)
                ELSE When(HasOperation(o), IliAttribute("operation")))
                 \o When(HasConsistency(o), StrictOrReport)
                 \o WriteGenericContents(o))
  IN  IF deletion THEN Element(IliName("delete"), content)
      ELSE Check(HasXmlName(o.tag), Element(o.tag.xml[1], content))
-----------------------------------------------------------------------------
\* What the writer calls for an event, and what it remembers.
Calls(w, e) ==
  CASE e.kind = "StartTransfer" -> StartTransfer(e.header)
    [] e.kind = "StartBasket"   -> StartBasket(w, e.basket)
    [] e.kind = "Object"        -> Object(e.object)
    [] e.kind = "EndBasket"     -> End
    [] e.kind = "EndTransfer"   -> EndTransfer

After(w, e) ==
  IF e.kind = "StartTransfer" THEN DeclareModels(e.header.models).models ELSE w
=============================================================================
