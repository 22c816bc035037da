------------------------------ MODULE MC_XtfWriter ------------------------------
(***************************************************************************)
(* Events for XtfWriter, its dialect writers, and the reader's dialects to *)
(* read back what was written.                                             *)
(***************************************************************************)
EXTENDS XtfWriter

MCPrefixes == {"", "xml", "ili", "geom", "p", "q", "ns0", "ns1", "m0", "m1"}
MCNamespaces == {"", "xml", "ili23", "ili24", "geom", "mod", "mod2", "vendor"}
MCGenerated == <<"ns0", "ns1">>

\* The dialect writers with the default options, and strict ones that drop extensions.
W23 == INSTANCE Xtf23Writer WITH Strict <- FALSE, PreserveUnknownExtensions <- TRUE
W24 == INSTANCE Xtf24Writer WITH Strict <- FALSE, PreserveUnknownExtensions <- TRUE,
                                 ModelPrefixes <- <<"m0", "m1">>
Strict23 == INSTANCE Xtf23Writer WITH Strict <- TRUE, PreserveUnknownExtensions <- FALSE
Strict24 == INSTANCE Xtf24Writer WITH Strict <- TRUE, PreserveUnknownExtensions <- FALSE,
                                      ModelPrefixes <- <<"m0", "m1">>
-----------------------------------------------------------------------------
(* Names, values and events *)

Qualified(ns, local, hint) == [ns |-> ns, local |-> local, hint |-> hint, valid |-> TRUE]

\* An INTERLIS name without QName, and one with the QName of the model.
Plain(ili) == [ili |-> ili, parts |-> <<ili>>, xml |-> <<>>]
InModel(ili) == [ili |-> ili, parts |-> <<ili>>, xml |-> <<Qualified("mod", ili, "p")>>]
InGeometry(ili, local) == [ili |-> ili, parts |-> <<ili>>, xml |-> <<Qualified("geom", local, "geom")>>]
TopicOfModel == [ili |-> "M.T", parts |-> <<"M", "T">>, xml |-> <<>>]

NoReference == [oid |-> "absent", basket |-> "absent", order |-> "absent"]
Value(valid) == [primitive |-> TRUE, valid |-> valid]
Obj(tag, members) ==
  [primitive |-> FALSE, tag |-> tag, oid |-> "absent", reference |-> NoReference,
   operation |-> "None", consistency |-> "Complete", members |-> members]
Member(name, values) == [name |-> name, values |-> values]

Coord(members) ==
  Obj(Plain("COORD"), [i \in DOMAIN members |-> Member(Plain(members[i]), <<Value(TRUE)>>)])
Geometry(tag, member, values) == Obj(Plain(tag), <<Member(Plain(member), values)>>)
Polyline ==
  Geometry("POLYLINE", "SEQUENCE",
    <<Geometry("SEGMENTS", "SEGMENT",
        <<Coord(<<"C1", "C2">>), [Coord(<<"C1", "C2", "A1", "A2">>) EXCEPT !.tag = Plain("ARC")]>>)>>)
Surface == Geometry("SURFACE", "BOUNDARY", <<Geometry("BOUNDARY", "POLYLINE", <<Polyline>>)>>)

Extension(name, attributes, text, children) ==
  [name |-> name, attributes |-> attributes, text |-> text, children |-> children]
Inner == Extension(Qualified("", "inner", ""), <<>>, TRUE, <<>>)
Vendor(children) ==
  Extension(Qualified("vendor", "ext", ""),
            <<Qualified("vendor", "a", ""), Qualified("", "b", ""), Qualified("mod2", "c", "p")>>,
            FALSE, children)

Header(version, models) ==
  [version |-> version, models |-> models, sender |-> FALSE, comment |-> FALSE,
   oidSpaces |-> <<>>, extensions |-> <<>>]
Model(name, more, ns, hint) ==
  [name |-> name, version |-> more, uri |-> more, ns |-> ns, local |-> name, hint |-> hint]

\* An event, and the names of its element in either version.
StartTransfer(header) == [kind |-> "StartTransfer", names |-> {}, header |-> header]
StartBasket(basket) == [kind |-> "StartBasket", names |-> {"T", "M.T"}, basket |-> basket]
Object(object) == [kind |-> "Object", names |-> {"C", "DELETE", "delete"}, object |-> object]
EndBasket == [kind |-> "EndBasket", names |-> {}]
EndTransfer == [kind |-> "EndTransfer", names |-> {}]

Basket(topic) ==
  [topic |-> topic, id |-> "given", basketKind |-> "Full", consistency |-> "Complete",
   startState |-> FALSE, endState |-> FALSE, domains |-> FALSE, topics |-> FALSE,
   extensions |-> <<>>]
-----------------------------------------------------------------------------
(* The events *)

Header23 == Header("V23", <<Model("M", "given", "", "")>>)
Header24 == Header("V24", <<Model("M", "absent", "mod", "p")>>)

\* Everything a header may have; the model lacks its version, which is reported.
RichHeader23 ==
  [Header("V23", <<Model("M", "absent", "", "")>>) EXCEPT
     !.comment = TRUE, !.oidSpaces = <<TRUE>>,
     !.extensions = <<Extension(Qualified("", "ALIAS", ""), <<>>, FALSE, <<>>), Vendor(<<Inner>>)>>]

\* Two models that want the same prefix, and an extension.
RichHeader24(extension) ==
  [Header("V24", <<Model("M", "absent", "mod", "p"), Model("N", "absent", "mod2", "p")>>) EXCEPT
     !.comment = TRUE, !.sender = TRUE, !.extensions = <<extension>>]

\* Everything a basket may have in both versions; the extension has attributes of its own, and
\* one that repeats the BID of 2.4 with another prefix.
RichBasket(topic, attribute) ==
  [Basket(topic) EXCEPT
     !.basketKind = "Update", !.startState = TRUE, !.endState = TRUE, !.consistency = "Incomplete",
     !.extensions = <<Extension(Qualified("mod", "T", ""), <<attribute>>, FALSE, <<>>)>>]

WithOid(o) == [o EXCEPT !.oid = "given"]
Ref(tag) == [Obj(Plain(tag), <<>>) EXCEPT !.reference = [NoReference EXCEPT !.oid = "given"]]

Object23 ==
  WithOid(Obj(Plain("C"),
    <<Member(Plain("a"), <<Value(TRUE), Obj(Plain("S"), <<Member(Plain("b"), <<Value(TRUE)>>)>>)>>),
      Member(Plain("r"), <<Ref("REF")>>), Member(Plain("g"), <<Surface>>)>>))

Surface24 == Obj(InGeometry("SURFACE", "surface"), Surface.members)

\* The last member has an XML name only, so that its value, which is not XML, is left out.
Object24 ==
  WithOid(Obj(InModel("C"),
    <<Member(InModel("a"), <<Value(TRUE), Obj(InModel("S"), <<Member(InModel("b"), <<Value(TRUE)>>)>>)>>),
      Member(InModel("r"), <<Ref("REFERENCE")>>),
      Member(InGeometry("surface", "surface"), <<Surface24>>),
      Member(InModel("m"), <<Geometry("MULTICOORD", "COORD", <<Coord(<<"C1">>)>>),
                             Geometry("MULTIPOLYLINE", "POLYLINE", <<Polyline>>),
                             Geometry("MULTISURFACE", "SURFACE", <<Surface>>)>>),
      Member([InModel("x") EXCEPT !.ili = ""], <<Value(FALSE)>>)>>))

Deletion == WithOid(Obj([InModel("DELETE") EXCEPT !.xml = <<Qualified("ili24", "delete", "")>>], <<>>))
UnknownGeometry == Obj(InModel("C"), <<Member(InModel("g"), <<Obj(InGeometry("CIRCLE", "circle"), <<>>)>>)>>)

\* A coordinate without C1, and a text that is not XML: the fault is found inside the object,
\* its start already written.
Broken(value) == WithOid(Obj(InModel("C"), <<Member(InModel("g"), <<value>>)>>))

\* Each version meets the events of the other one, too.
AllEvents ==
  {StartTransfer(Header23), StartTransfer(RichHeader23), StartTransfer(Header24),
   StartTransfer(RichHeader24(Vendor(<<>>))), EndTransfer, EndBasket,
   StartBasket(Basket(Plain("T"))), StartBasket(Basket(TopicOfModel)),
   StartBasket([Basket(InModel("T")) EXCEPT !.id = "empty"]),
   StartBasket([Basket(InModel("T")) EXCEPT !.domains = TRUE, !.topics = TRUE]),
   StartBasket(RichBasket(InModel("T"), Qualified("vendor", "a", "q"))),
   StartBasket(RichBasket(InModel("T"), Qualified("ili24", "bid", "q"))),
   Object(Object23), Object(Object24), Object(Deletion), Object(UnknownGeometry),
   Object(Broken(Coord(<<"C2">>))), Object(Broken(Value(FALSE)))}

\* A no-namespace element inside an extension that declares a default namespace.
NestedEvents24 == {StartTransfer(RichHeader24(Vendor(<<Inner>>))), EndTransfer}
-----------------------------------------------------------------------------
(* The dialect writers: of the version and the options the writer was made with *)

Writer23(state23, strict) == [v23 |-> state23, strict |-> strict]
Writer24(models, strict) == [v24 |-> models, strict |-> strict]

Is23(w) == "v23" \in DOMAIN w

DialectCalls(w, e) ==
  IF Is23(w)
  THEN IF w.strict THEN Strict23!Calls(w.v23, e) ELSE W23!Calls(w.v23, e)
  ELSE IF w.strict THEN Strict24!Calls(w.v24, e) ELSE W24!Calls(w.v24, e)

DialectAfter(w, e) ==
  IF Is23(w) THEN Writer23(W23!After(w.v23, e), w.strict) ELSE Writer24(W24!After(w.v24, e), w.strict)

\* The root and the data section, which a 2.3 writer opens with the first basket.
OpenElements(w) == IF Is23(w) /\ w.v23 = "dataSectionClosed" THEN 1 ELSE 2

NewDialectWriters ==
  {Writer23(W23!NewDialectWriter, strict) : strict \in BOOLEAN}
    \cup {Writer24(W24!NewDialectWriter, strict) : strict \in BOOLEAN}
OnlyNew24 == {Writer24(W24!NewDialectWriter, FALSE)}

DialectWriters ==
  {Writer23(s, strict) : s \in W23!DialectWriters, strict \in BOOLEAN}
    \cup {Writer24(models, strict) : strict \in BOOLEAN,
             models \in {W24!NewDialectWriter}
                          \cup {W24!After(W24!NewDialectWriter, e) :
                                  e \in {s \in Events : s.kind = "StartTransfer"}}}
-----------------------------------------------------------------------------
(* Reading back *)

R23 == INSTANCE Xtf23Dialect WITH Strict <- FALSE, PreserveUnknownExtensions <- TRUE,
                                  RequireAtLeastOneModel <- FALSE
R24 == INSTANCE Xtf24Dialect WITH Strict <- FALSE, PreserveUnknownExtensions <- TRUE,
                                  RequireAtLeastOneModel <- FALSE

\* An XML node as the reader's dialects see it: the attributes they need are those of the
\* element's place.
Identifying(local, depth) ==
  CASE local = "HEADERSECTION" -> {"VERSION"}
    [] local \in {"MODEL", "OIDSPACE"} -> {"NAME"}
    [] depth = 2 /\ local # "HEADERSECTION" -> {"BID", "bid"}
    [] OTHER -> {"TID", "tid"}

AsElement(node, depth) ==
  [ns    |-> CASE node.name.ns \in {"ili23", "ili24", "geom"} -> node.name.ns
               [] node.name.ns = "" -> "none"
               [] OTHER -> "model",
   local |-> node.name.local,
   id    |-> IF \/ node.name.local = "model" /\ node.name.ns = "ili24"
                \/ \E i \in DOMAIN node.attributes :
                     node.attributes[i].local \in Identifying(node.name.local, depth)
             THEN "given" ELSE "absent",
   attrs |-> "clean"]

\* The callbacks of the dialect that the root element chooses.
V23(r) == r.stack[1].ns = "ili23"
OnStart(r, e) == IF V23(r) THEN R23!OnStartElement(r.dialect, e) ELSE R24!OnStartElement(r.dialect, e)
OnEnd(r, e)   == IF V23(r) THEN R23!OnEndElement(r.dialect, e) ELSE R24!OnEndElement(r.dialect, e)
OnText(r)     == IF V23(r) THEN R23!OnText(r.dialect) ELSE R24!OnText(r.dialect)
OnRootClosed(r) ==
  IF V23(r) THEN R23!OnRootClosed(r.dialect, r.stack[1]) ELSE R24!OnRootClosed(r.dialect, r.stack[1])

After1(r, result) ==
  [r EXCEPT !.ok = r.ok /\ ~result.thrown, !.dialect = result.dialect,
            !.events = r.events \o result.emit]

ReadNode(r, node) ==
  LET depth == Len(r.stack)
      e     == AsElement(node, depth)
  IN  CASE node.tag = "start" /\ depth = 0 -> [r EXCEPT !.stack = <<e>>]
        [] node.tag = "start" /\ depth > 0 -> [After1(r, OnStart(r, e)) EXCEPT !.stack = Append(r.stack, e)]
        [] node.tag = "text" -> After1(r, OnText(r))
        [] node.tag = "end" ->
             [After1(r, IF depth = 1 THEN OnRootClosed(r) ELSE OnEnd(r, r.stack[depth]))
                EXCEPT !.stack = SubSeq(r.stack, 1, depth - 1)]

SX == INSTANCE SequencesExt
RSyntax == INSTANCE XtfSyntax

ReadBack ==
  SX!FoldLeft(ReadNode,
    [stack |-> <<>>, dialect |-> RSyntax!NewDialect, events |-> <<>>, ok |-> TRUE],
    document.nodes)

\* What was written without an error is a document of its version, and the reader makes the
\* same events of it: their kinds in their order, and the names of baskets and objects.
ReadsBack ==
  (state = "Closed" /\ "Error" \notin told) =>
    /\ ReadBack.ok
    /\ Len(ReadBack.events) = Len(written)
    /\ \A i \in DOMAIN written :
         /\ ReadBack.events[i].kind = written[i].kind
         /\ written[i].kind \in {"StartBasket", "Object"} => ReadBack.events[i].id \in written[i].names

\* The dialect writers undeclare a default namespace wherever they must, but for the element of
\* the run nested_extension.
ASSUME UndeclaringAssumption == Events # NestedEvents24 => Undeclares
=============================================================================
