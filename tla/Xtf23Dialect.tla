----------------------------- MODULE Xtf23Dialect -----------------------------
(***************************************************************************)
(* The XTF 2.3 dialect (source/xtf/v23/Xtf23Dialect.cpp).  The state       *)
(* machine has the shape of the 2.4 one; header, basket and object follow  *)
(* other rules.  For HEADERSECTION, `id' is the VERSION attribute ("wrong" *)
(* for another version than 2.3) and irregular `attrs' a missing SENDER;   *)
(* for a MODEL, `id' is NAME and irregular `attrs' a missing VERSION or    *)
(* URI.                                                                    *)
(***************************************************************************)
EXTENDS XtfSyntax

CONSTANTS
  Strict,                     \* Strictness::Strict (TRUE) or Lenient (FALSE)
  PreserveUnknownExtensions,  \* options.preserveUnknownExtensions
  RequireAtLeastOneModel      \* options.requireAtLeastOneModel

IsControl(e, local) == e.ns = "ili23" /\ e.local = local

\* What a strict dialect throws on.
Rejected == {"irregular", "miscased"} \cup FaultIf(~PreserveUnknownExtensions, "unknown")

\* The result r of a callback in state d for element e that meets these faults.
Reported(d, r, e, faults) ==
  IF Strict /\ faults \cap Rejected # {}
  THEN [Thrown(d) EXCEPT !.diagnostics =
          Reports(e, faults \ Rejected, PreserveUnknownExtensions)]
  ELSE [r EXCEPT !.diagnostics = Reports(e, faults, PreserveUnknownExtensions)]

-----------------------------------------------------------------------------
(* Header *)

IsChild(captured, i) == captured[i].depth = 1

\* The direct child of HEADERSECTION that entry i lies under, or is.
ChildOf(captured, i) ==
  CHOOSE j \in 1 .. i : IsChild(captured, j) /\ \A k \in j + 1 .. i : ~IsChild(captured, k)

Children(captured, local) ==
  {i \in DOMAIN captured : IsChild(captured, i) /\ IsControl(captured[i].element, local)}

Under(captured, local) ==
  {i \in DOMAIN captured :
     captured[i].depth = 2 /\ ChildOf(captured, i) \in Children(captured, local)}

ModelEntries(captured) ==
  {i \in Under(captured, "MODELS") : IsControl(captured[i].element, "MODEL")}

NamedModels(captured) == {i \in ModelEntries(captured) : captured[i].element.id = "given"}

\* Elements that no rule of the header places, and incomplete MODEL or OIDSPACE entries.
Unplaced(captured) ==
  \/ \E i \in DOMAIN captured :
       /\ IsChild(captured, i)
       /\ \A local \in {"MODELS", "ALIAS", "OIDSPACES", "COMMENT", "SENDER", "VERSION"} :
            ~IsControl(captured[i].element, local)
  \/ Under(captured, "MODELS") # NamedModels(captured)
  \/ \E i \in Under(captured, "OIDSPACES") : \/ ~IsControl(captured[i].element, "OIDSPACE")
                                             \/ captured[i].element.id # "given"

\* validateAlias: ENTRIES with FOR, holding TAGENTRY, VALENTRY and DELENTRY, each with
\* its required attributes (irregular `attrs' when one is missing).
IrregularAlias(captured) ==
  \E i \in DOMAIN captured :
    /\ captured[i].depth \in {2, 3}
    /\ ChildOf(captured, i) \in Children(captured, "ALIAS")
    /\ \/ captured[i].element.attrs = "irregular"
       \/ captured[i].depth = 2 /\ ~IsControl(captured[i].element, "ENTRIES")
       \/ captured[i].depth = 3 /\ \A local \in {"TAGENTRY", "VALENTRY", "DELENTRY"} :
                                    ~IsControl(captured[i].element, local)

IrregularOidSpaces(captured) ==
  \/ \E i \in Under(captured, "OIDSPACES") : /\ IsControl(captured[i].element, "OIDSPACE")
                                             /\ captured[i].element.id # "given"
  \/ \E i \in Children(captured, "OIDSPACES") :
       i + 1 \notin Under(captured, "OIDSPACES")

\* A MODEL takes no elements, a COMMENT text only.
Nested(captured) ==
  \/ Under(captured, "COMMENT") # {}
  \/ \E i \in DOMAIN captured, m \in NamedModels(captured) :
       captured[i].depth = 3 /\ m < i /\ \A k \in m + 1 .. i : captured[k].depth > 2

\* The VERSION attribute, or else the text of the last VERSION element.
Version(header, captured) ==
  LET elements == Children(captured, "VERSION")
  IN  IF header.id # "absent" \/ elements = {} THEN header.id
      ELSE captured[CHOOSE i \in elements : \A j \in elements : j <= i].element.id

\* SENDER and VERSION elements are the form of the pre-0.2 writer.
IrregularHeader(header, captured) ==
  \/ Version(header, captured) \in {"absent", "empty"}
  \/ Children(captured, "VERSION") \cup Children(captured, "SENDER") # {}
  \/ header.attrs = "irregular"
  \/ \E i, j \in Children(captured, "MODELS") : i # j
  \/ ModelEntries(captured) # NamedModels(captured)
  \/ Nested(captured) \/ IrregularAlias(captured) \/ IrregularOidSpaces(captured)

UnknownAttributes(header, captured) ==
  \/ header.attrs = "unknown"
  \/ \E i \in Children(captured, "MODELS") : captured[i].element.attrs # "clean"
  \/ \E i \in NamedModels(captured) \cup Under(captured, "OIDSPACES") :
       captured[i].element.attrs = "unknown"

ParseHeader(d, header, captured, texts) ==
  LET irregular == \/ IrregularHeader(header, captured)
                   \/ texts \cap (Children(captured, "MODELS") \cup NamedModels(captured)) # {}
      unknown == Unplaced(captured) \/ UnknownAttributes(header, captured)
      parsed == Reported(d, Emits([d EXCEPT !.state = "ExpectData"],
                                  "StartTransfer", header.local),
                         header, FaultIf(irregular, "irregular") \cup FaultIf(unknown, "unknown"))
  IN  IF \/ Children(captured, "HEADERSECTION") \cup Children(captured, "DATASECTION") # {}
         \/ Version(header, captured) = "wrong"
         \/ RequireAtLeastOneModel /\ NamedModels(captured) = {}
         \/ Strict /\ \E i \in NamedModels(captured) : captured[i].element.attrs = "irregular"
      THEN Fails(d, parsed)
      ELSE parsed

-----------------------------------------------------------------------------
(* Baskets, objects and attributes *)

BeginBasket(d, e) ==
  IF e.id # "given"
  THEN Thrown(d)
  ELSE Reported(d, Emits([d EXCEPT !.state = "InBasket", !.basket = <<e>>],
                         "StartBasket", e.local),
                e, {e.attrs})

BeginObject(d, e) ==
  IF IsControl(e, "DELETE") /\ e.id # "given"
  THEN Thrown(d)
  ELSE Reported(d, Quiet([d EXCEPT !.state = "InObject", !.object = <<e>>]),
                e, FaultIf(e.id # "given" \/ e.attrs = "unknown", "irregular")
                     \cup ({e.attrs} \ {"unknown"}))

IsGeometry(e) ==
  e.local \in {"POLYLINE", "polyline", "SURFACE", "surface", "AREA", "area",
               "BOUNDARY", "boundary"}

\* What the object takes each captured element for: attributes and values alternate, but a
\* geometry is a value with all that is inside it.
Roles(captured) ==
  LET role[i \in 0 .. Len(captured)] ==
        IF i = 0 THEN "attribute"
        ELSE LET outer == role[Parent(captured, i)]
             IN  CASE outer = "geometry" -> "geometry"
                   [] outer = "value" -> "attribute"
                   [] outer = "attribute" ->
                        IF IsGeometry(captured[i].element) THEN "geometry" ELSE "value"
  IN  role

\* A reference takes no text and one object (an OID with anything inside is irregular).  Unlike
\* 2.4, XML attributes the dialect does not know and the text of a value are dropped without a
\* diagnostic.
FinishAttribute(d, e, captured, texts) ==
  LET all == 0 .. Len(captured)
      At(i) == IF i = 0 THEN e ELSE captured[i].element
      attributes == {i \in all : Roles(captured)[i] = "attribute"}
      references == {i \in attributes : At(i).id = "given"}
      irregular == \/ \E i \in all : At(i).attrs = "irregular"
                   \/ \E i \in references : \/ i \in texts
                                            \/ \E j, k \in Inside(captured, i) : j # k
      noted == \E i \in texts \cap (attributes \ references) : Inside(captured, i) # {}
  IN  IF d.object = <<>> THEN Thrown(d)
      ELSE Reported(d, Quiet(d), e,
                    FaultIf(irregular, "irregular") \cup FaultIf(noted, "noted"))

BeginCapture(d, kind, e) == [d EXCEPT !.captureKind = kind, !.nodes = <<e>>]

CaptureStart(d, e) ==
  Quiet([d EXCEPT !.nodes = <<e>> \o d.nodes,
                  !.captured = Append(d.captured, [depth |-> Len(d.nodes), element |-> e])])

FinishCapture(d, e) ==
  IF d.nodes = <<>> \/ ~SameName(Head(d.nodes), e)
  THEN Thrown(d)
  ELSE IF Tail(d.nodes) # <<>>
  THEN Quiet([d EXCEPT !.nodes = Tail(d.nodes)])
  ELSE LET closed == [d EXCEPT !.nodes = <<>>, !.captured = <<>>, !.texts = {},
                               !.captureKind = "None"]
       IN  IF d.captureKind = "Header"
           THEN ParseHeader(closed, Head(d.nodes), d.captured, d.texts)
           ELSE FinishAttribute(closed, Head(d.nodes), d.captured, d.texts)

-----------------------------------------------------------------------------
(* The callbacks the coordinator makes *)

OnStartElement(d, e) ==
  CASE d.captureKind # "None" -> CaptureStart(d, e)
    [] d.captureKind = "None" /\ d.state = "ExpectHeader" /\ IsControl(e, "HEADERSECTION") ->
         Quiet(BeginCapture([d EXCEPT !.state = "CapturingHeader"], "Header", e))
    [] d.captureKind = "None" /\ d.state = "ExpectData" /\ IsControl(e, "DATASECTION") ->
         Quiet([d EXCEPT !.state = "InData"])
    [] d.captureKind = "None" /\ d.state = "InData"   -> BeginBasket(d, e)
    [] d.captureKind = "None" /\ d.state = "InBasket" -> BeginObject(d, e)
    [] d.captureKind = "None" /\ d.state = "InObject" -> Quiet(BeginCapture(d, "Attribute", e))
    [] OTHER -> Thrown(d)

OnEndElement(d, e) ==
  CASE d.captureKind # "None" -> FinishCapture(d, e)
    [] d.captureKind = "None" /\ d.state = "InObject"
         /\ d.object # <<>> /\ SameName(Head(d.object), e) ->
         Emits([d EXCEPT !.state = "InBasket", !.object = <<>>], "Object", e.local)
    [] d.captureKind = "None" /\ d.state = "InBasket"
         /\ d.basket # <<>> /\ SameName(Head(d.basket), e) ->
         Emits([d EXCEPT !.state = "InData", !.basket = <<>>], "EndBasket", e.local)
    [] d.captureKind = "None" /\ d.state = "InData" /\ IsControl(e, "DATASECTION") ->
         Quiet([d EXCEPT !.state = "AfterData"])
    [] OTHER -> Thrown(d)

\* Non-whitespace text: kept while capturing, an error between control elements.
OnText(d) ==
  IF d.captureKind # "None" /\ d.nodes # <<>>
  THEN Quiet([d EXCEPT !.texts = d.texts \cup Innermost(d)])
  ELSE Thrown(d)

OnRootClosed(d, root) ==
  IF d.state # "AfterData" THEN Thrown(d)
  ELSE Emits([d EXCEPT !.state = "Done"], "EndTransfer", root.local)
=============================================================================
