----------------------------- MODULE Xtf24Dialect -----------------------------
(***************************************************************************)
(* The XTF 2.4 dialect (source/xtf/v24/Xtf24Dialect.cpp): the state        *)
(* machine that turns element callbacks into transfer events.  Every       *)
(* callback is a function of the dialect's state and the element, and      *)
(* returns a Result of XtfSyntax.                                          *)
(***************************************************************************)
EXTENDS XtfSyntax

CONSTANTS
  Strict,                     \* Strictness::Strict (TRUE) or Lenient (FALSE)
  PreserveUnknownExtensions,  \* options.preserveUnknownExtensions
  RequireAtLeastOneModel      \* options.requireAtLeastOneModel

IsControl(e, local) == e.ns = "ili24" /\ e.local = local
HasModelNamespace(e) == e.ns \notin {"none", "ili24", "geom"}

\* What a strict dialect throws on.
Rejected == {"irregular", "miscased"} \cup FaultIf(~PreserveUnknownExtensions, "unknown")

\* The result r of a callback in state d for element e that meets these faults.
Reported(d, r, e, faults) ==
  IF Strict /\ faults \cap Rejected # {}
  THEN [Thrown(d) EXCEPT !.diagnostics =
          Reports(e, faults \ Rejected, PreserveUnknownExtensions)]
  ELSE [r EXCEPT !.diagnostics = Reports(e, faults, PreserveUnknownExtensions)]

-----------------------------------------------------------------------------
(* Header *)

\* Entry i of a captured header is a direct child of ili:headersection.
IsChild(captured, i) == captured[i].depth = 1

\* The direct child of ili:headersection that entry i lies under, or is.
ChildOf(captured, i) ==
  CHOOSE j \in 1 .. i : IsChild(captured, j) /\ \A k \in j + 1 .. i : ~IsChild(captured, k)

Children(captured, local) ==
  {i \in DOMAIN captured : IsChild(captured, i) /\ IsControl(captured[i].element, local)}

ModelEntries(captured) ==
  {i \in DOMAIN captured : /\ captured[i].depth = 2
                           /\ ChildOf(captured, i) \in Children(captured, "models")
                           /\ IsControl(captured[i].element, "model")}

\* Elements that no rule of the header places: unknown children, and children of
\* ili:models other than a named ili:model.
Unplaced(captured) ==
  {i \in DOMAIN captured :
     \/ /\ IsChild(captured, i)
        /\ \A local \in {"models", "sender", "comment"} : ~IsControl(captured[i].element, local)
     \/ /\ captured[i].depth = 2
        /\ ChildOf(captured, i) \in Children(captured, "models")
        /\ (i \notin ModelEntries(captured) \/ captured[i].element.id # "given")}

OutOfOrder(captured) ==
  LET models  == Children(captured, "models")
      sender  == Children(captured, "sender")
      comment == Children(captured, "comment")
  IN  \/ \E i \in models : i # 1
      \/ \E i \in sender : \/ \A m \in models : m > i
                           \/ \E k \in (sender \cup comment) : k < i
      \/ \E i \in comment : \/ \A m \in models : m > i
                            \/ \E k \in comment : k < i

\* ili:sender, ili:comment and ili:model take text only.
NestedInText(captured) ==
  \E i \in DOMAIN captured :
    \/ /\ captured[i].depth = 2
       /\ ChildOf(captured, i) \in Children(captured, "sender") \cup Children(captured, "comment")
    \/ /\ captured[i].depth = 3
       /\ ChildOf(captured, i) \in Children(captured, "models")
       /\ \E m \in ModelEntries(captured) : m < i /\ captured[m].element.id = "given"
                                              /\ \A k \in m + 1 .. i : captured[k].depth > 2

UnknownAttributes(header, captured) ==
  \/ header.attrs # "clean"
  \/ \E i \in Children(captured, "models") \cup Children(captured, "sender")
              \cup Children(captured, "comment") \cup ModelEntries(captured) :
       captured[i].element.attrs # "clean"

ParseHeader(d, header, captured, texts) ==
  LET named == {i \in ModelEntries(captured) : captured[i].element.id = "given"}
      irregular == \/ OutOfOrder(captured) \/ NestedInText(captured)
                   \/ named # ModelEntries(captured)
                   \/ texts \cap Children(captured, "models") # {}
      unknown == Unplaced(captured) # {} \/ UnknownAttributes(header, captured)
      parsed == Reported(d, Emits([d EXCEPT !.state = "ExpectData"],
                                  "StartTransfer", header.local),
                         header, FaultIf(irregular, "irregular") \cup FaultIf(unknown, "unknown"))
  IN  IF \/ Children(captured, "headersection") \cup Children(captured, "datasection") # {}
         \/ Children(captured, "models") = {}
         \/ RequireAtLeastOneModel /\ named = {}
      THEN Fails(d, parsed)
      ELSE parsed

-----------------------------------------------------------------------------
(* Baskets, objects and attributes *)

BeginBasket(d, e) ==
  IF ~HasModelNamespace(e) \/ e.id # "given"
  THEN Thrown(d)
  ELSE Reported(d, Emits([d EXCEPT !.state = "InBasket", !.basket = <<e>>],
                         "StartBasket", e.local),
                e, {e.attrs})

BeginObject(d, e) ==
  IF ~IsControl(e, "delete") /\ ~HasModelNamespace(e)
  THEN Thrown(d)
  ELSE Reported(d, Quiet([d EXCEPT !.state = "InObject", !.object = <<e>>]),
                e, FaultIf(e.id = "empty" \/ e.attrs = "unknown", "irregular")
                     \cup ({e.attrs} \ {"unknown"}))

IsGeometry(e) ==
  e.ns = "geom" /\ e.local \in {"coord", "arc", "polyline", "multicoord", "multipolyline",
                                "surface", "area", "multisurface", "multiarea"}

\* What the object takes each captured element for: attributes and values alternate, but an
\* unknown geometry holds values, and a known one is a value with all that is inside it.
Roles(captured) ==
  LET role[i \in 0 .. Len(captured)] ==
        IF i = 0 THEN "attribute"
        ELSE LET p == Parent(captured, i)
             IN  IF role[p] = "geometry" THEN "geometry"
                 ELSE IF role[p] = "value" /\ captured[p].element.ns # "geom" THEN "attribute"
                 ELSE IF IsGeometry(captured[i].element) THEN "geometry" ELSE "value"
  IN  role

\* finishAttribute hands the captured tree to the object.  A reference takes no text and one
\* object; mixed text and an unknown geometry are kept and noted.
FinishAttribute(d, e, captured, texts) ==
  LET all == 0 .. Len(captured)
      At(i) == IF i = 0 THEN e ELSE captured[i].element
      attributes == {i \in all : Roles(captured)[i] = "attribute"}
      values == {i \in all : Roles(captured)[i] = "value"}
      references == {i \in attributes : At(i).id = "given"}
      irregular == \/ \E i \in all : At(i).attrs # "clean"
                   \/ \E i \in references : \/ i \in texts
                                            \/ \E j, k \in Inside(captured, i) : j # k
      noted == \/ texts \cap values # {}
               \/ \E i \in values : At(i).ns = "geom"
               \/ \E i \in texts \cap (attributes \ references) : Inside(captured, i) # {}
  IN  IF d.object = <<>> THEN Thrown(d)
      ELSE Reported(d, Quiet(d), e,
                    FaultIf(irregular, "irregular") \cup FaultIf(noted, "noted"))

BeginCapture(d, kind, e) == [d EXCEPT !.captureKind = kind, !.nodes = <<e>>]

CaptureStart(d, e) ==
  Quiet([d EXCEPT !.nodes = <<e>> \o d.nodes,
                  !.captured = Append(d.captured, [depth |-> Len(d.nodes), element |-> e])])

FinishCapture(d, e) ==
  IF d.nodes = <<>> \/ ~SameName(Head(d.nodes), e)
  THEN Thrown(d)
  ELSE IF Tail(d.nodes) # <<>>
  THEN Quiet([d EXCEPT !.nodes = Tail(d.nodes)])
  ELSE LET closed == [d EXCEPT !.nodes = <<>>, !.captured = <<>>, !.texts = {},
                               !.captureKind = "None"]
       IN  IF d.captureKind = "Header"
           THEN ParseHeader(closed, Head(d.nodes), d.captured, d.texts)
           ELSE FinishAttribute(closed, Head(d.nodes), d.captured, d.texts)

-----------------------------------------------------------------------------
(* The callbacks the coordinator makes *)

OnStartElement(d, e) ==
  CASE d.captureKind # "None" -> CaptureStart(d, e)
    [] d.captureKind = "None" /\ d.state = "ExpectHeader" /\ IsControl(e, "headersection") ->
         Quiet(BeginCapture([d EXCEPT !.state = "CapturingHeader"], "Header", e))
    [] d.captureKind = "None" /\ d.state = "ExpectData" /\ IsControl(e, "datasection") ->
         Quiet([d EXCEPT !.state = "InData"])
    [] d.captureKind = "None" /\ d.state = "InData"   -> BeginBasket(d, e)
    [] d.captureKind = "None" /\ d.state = "InBasket" -> BeginObject(d, e)
    [] d.captureKind = "None" /\ d.state = "InObject" -> Quiet(BeginCapture(d, "Attribute", e))
    [] OTHER -> Thrown(d)

OnEndElement(d, e) ==
  CASE d.captureKind # "None" -> FinishCapture(d, e)
    [] d.captureKind = "None" /\ d.state = "InObject"
         /\ d.object # <<>> /\ SameName(Head(d.object), e) ->
         Emits([d EXCEPT !.state = "InBasket", !.object = <<>>], "Object", e.local)
    [] d.captureKind = "None" /\ d.state = "InBasket"
         /\ d.basket # <<>> /\ SameName(Head(d.basket), e) ->
         Emits([d EXCEPT !.state = "InData", !.basket = <<>>], "EndBasket", e.local)
    [] d.captureKind = "None" /\ d.state = "InData" /\ IsControl(e, "datasection") ->
         Quiet([d EXCEPT !.state = "AfterData"])
    [] OTHER -> Thrown(d)

\* Non-whitespace text: kept while capturing, an error between control elements.
OnText(d) ==
  IF d.captureKind # "None" /\ d.nodes # <<>>
  THEN Quiet([d EXCEPT !.texts = d.texts \cup Innermost(d)])
  ELSE Thrown(d)

OnRootClosed(d, root) ==
  IF d.state # "AfterData" THEN Thrown(d)
  ELSE Emits([d EXCEPT !.state = "Done"], "EndTransfer", root.local)
=============================================================================
