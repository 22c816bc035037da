------------------------------- MODULE XmlWriter -------------------------------
(***************************************************************************)
(* The XML writer (source/xml/XmlWriter.cpp) and the sink it writes to.    *)
(*                                                                         *)
(* A start tag is not written when the element is started but when what    *)
(* follows it is known to be content: until then attributes and namespace  *)
(* declarations may be added.  The sink is external: it may refuse any     *)
(* write, flush or close.  Indentation, escaping and the lexical checks of *)
(* names and text are abstracted to the flag `valid' of a call.            *)
(***************************************************************************)
EXTENDS XmlDocument

CONSTANTS
  Generated   \* the prefixes "ns0", "ns1", ... in their order; as many as a run needs

ASSUME GeneratedAssumption == Generated \in Seq(Prefixes \ {NoPrefix, "xml", "xmlns"})

\* XmlQualifiedName with its prefix hint; ~valid if validateName, validateXmlText or the
\* reserved xmlns namespace refuse it.
XmlName == [ns : Namespaces, local : STRING, hint : Prefixes, valid : BOOLEAN]

\* The calls of the dialect writers.
XmlCall ==
  [op : {"startDocument", "endElement"}]
    \cup [op : {"startElement", "writeAttribute"}, name : XmlName]
    \cup [op : {"writeNamespace"}, prefix : Prefixes, ns : Namespaces]
    \cup [op : {"text"}, valid : BOOLEAN]

VARIABLES
  xmlState,     \* XmlState
  frames,       \* the open elements, innermost last
  nextPrefix,   \* number of prefixes generated
  rootStarted,
  sink,         \* "open", "closed" or "failed"
  document      \* what a parser makes of the sink's tokens

xmlVars == <<xmlState, frames, nextPrefix, rootStarted>>
sinkVars == <<sink, document>>

XmlState == {"BeforeDocument", "InDocument", "AfterDocument", "Failed"}

\* `name' is the name asked for and `prefix' the one chosen for it; `declared' holds the
\* declarations of this element, `bindings' those of its ancestors too.
Attribute == [name : XmlName, prefix : Prefixes]
Frame == [name : XmlName, prefix : Prefixes, bindings : Bindings, declared : Bindings,
          attributes : Seq(Attribute), startPending : BOOLEAN]

XmlInit ==
  /\ xmlState = "BeforeDocument" /\ frames = <<>> /\ nextPrefix = 0 /\ rootStarted = FALSE
  /\ sink = "open" /\ document = NewDocument

Depth == Len(frames)
Top == frames[Depth]
Inherited == IF frames = <<>> THEN OnlyXml ELSE Top.bindings
ReplaceTop(f) == [frames EXCEPT ![Depth] = f]
-----------------------------------------------------------------------------
(* Namespaces *)

\* addDeclaration would fail: a reserved prefix, or one the element has declared otherwise.
Undeclarable(f, p, ns) ==
  \/ p = "xmlns"
  \/ p = "xml" /\ ns # XmlNamespace
  \/ p # NoPrefix /\ ns = NoNamespace
  \/ f.declared[p] \notin {Unbound, ns}

\* A declaration that the element or, unchanged, its parent has made is not repeated.
AddDeclaration(f, parent, p, ns) ==
  IF f.bindings[p] = ns /\ ns \in {f.declared[p], parent[p]}
  THEN f
  ELSE [f EXCEPT !.bindings[p] = ns, !.declared[p] = ns]

\* The prefixes that stand for the namespace; only an element may use the default one.
BoundTo(b, ns, attribute) == {p \in Prefixes : b[p] = ns /\ (attribute => p # NoPrefix)}

FirstFree(b) ==
  {n \in nextPrefix + 1 .. Len(Generated) :
     /\ b[Generated[n]] = Unbound
     /\ \A m \in nextPrefix + 1 .. n - 1 : b[Generated[m]] # Unbound}

FollowsHint(b, name) == name.hint # NoPrefix /\ b[name.hint] \in {Unbound, name.ns}
UsesDefault(b, name, attribute) ==
  ~attribute /\ (b[NoPrefix] = name.ns \/ name.hint = NoPrefix)

\* A new prefix is generated for the name.
Generates(b, name, attribute) ==
  /\ name.ns \notin {NoNamespace, XmlNamespace}
  /\ ~FollowsHint(b, name) /\ ~UsesDefault(b, name, attribute)
  /\ BoundTo(b, name.ns, attribute) = {}

\* Mutant of PrefixFor: an attribute takes the default namespace for its own.
PrefixForAsElement(b, name, attribute) ==
  CASE name.ns = NoNamespace  -> NoPrefix
    [] name.ns = XmlNamespace -> "xml"
    [] name.ns \notin {NoNamespace, XmlNamespace} ->
         IF FollowsHint(b, name) THEN name.hint
         ELSE IF UsesDefault(b, name, FALSE) THEN NoPrefix
         ELSE IF BoundTo(b, name.ns, FALSE) # {} THEN CHOOSE p \in BoundTo(b, name.ns, FALSE) : TRUE
         ELSE Generated[CHOOSE n \in FirstFree(b) : TRUE]

\* The prefix for a name: its hint unless that is taken, the default namespace for an
\* element, any prefix already bound, or a new one.
PrefixFor(b, name, attribute) ==
  CASE name.ns = NoNamespace  -> NoPrefix
    [] name.ns = XmlNamespace -> "xml"
    [] name.ns \notin {NoNamespace, XmlNamespace} ->
         IF FollowsHint(b, name) THEN name.hint
         ELSE IF UsesDefault(b, name, attribute) THEN NoPrefix
         ELSE IF BoundTo(b, name.ns, attribute) # {}
         THEN CHOOSE p \in BoundTo(b, name.ns, attribute) : TRUE
         ELSE Generated[CHOOSE n \in FirstFree(b) : TRUE]

\* prefixFor refuses the name on the element f.
Unnameable(f, name, attribute) ==
  \/ ~name.valid
  \/ name.ns = NoNamespace /\ name.hint # NoPrefix
  \/ name.ns \notin {NoNamespace, XmlNamespace}
       /\ Undeclarable(f, PrefixFor(f.bindings, name, attribute), name.ns)

\* The element f once it has the declaration that the name needs.
Named(f, parent, name, attribute) ==
  IF name.ns \in {NoNamespace, XmlNamespace} THEN f
  ELSE AddDeclaration(f, parent, PrefixFor(f.bindings, name, attribute), name.ns)

\* Generated is long enough, and nextPrefix counts what was taken from it.
TakePrefix(b, name, attribute) ==
  IF Generates(b, name, attribute) THEN nextPrefix' \in FirstFree(b) ELSE UNCHANGED nextPrefix
-----------------------------------------------------------------------------
(* What the sink receives *)

StartTag(f, tag) ==
  [tag |-> tag, name |-> [prefix |-> f.prefix, local |-> f.name.local], declares |-> f.declared,
   attributes |-> [i \in DOMAIN f.attributes |-> [prefix |-> f.attributes[i].prefix,
                                                  local |-> f.attributes[i].name.local]]]

\* flushStart of the innermost element.
AfterFlushStart ==
  IF frames # <<>> /\ Top.startPending THEN Read(document, StartTag(Top, "start")) ELSE document

FlushedTop == [Top EXCEPT !.startPending = FALSE]
FlushedFrames == IF frames = <<>> THEN <<>> ELSE ReplaceTop(FlushedTop)

\* What the sink has once the call has succeeded.
AfterCall(c) ==
  CASE c.op = "startElement" -> AfterFlushStart
    [] c.op = "text"         -> Read(AfterFlushStart, [tag |-> "text"])
    [] c.op = "endElement"   ->
         IF Top.startPending THEN Read(document, StartTag(Top, "empty"))
         ELSE Read(document, [tag |-> "end", name |-> [prefix |-> Top.prefix,
                                                       local |-> Top.name.local]])
    [] c.op \in {"startDocument", "writeNamespace", "writeAttribute"} -> document
-----------------------------------------------------------------------------
(* The calls *)

\* A new element with the bindings of its parent.
NewFrame(name) ==
  [name |-> name, prefix |-> NoPrefix, bindings |-> Inherited, declared |-> NothingDeclared,
   attributes |-> <<>>, startPending |-> TRUE]

\* The bindings of the parent of the innermost element.
ParentBindings == IF Depth > 1 THEN frames[Depth - 1].bindings ELSE NothingDeclared

\* Mutant of HasAttribute: the same name with another prefix is another name.
HasAttributeWithHint(f, name) == \E i \in DOMAIN f.attributes : f.attributes[i].name = name

HasAttribute(f, name) ==
  \E i \in DOMAIN f.attributes : /\ f.attributes[i].name.ns = name.ns
                                 /\ f.attributes[i].name.local = name.local

\* The checks refuse the call.  The document is opened before anything else, once.
Refused(c) ==
  CASE c.op = "startDocument" -> xmlState # "BeforeDocument"
    [] c.op = "startElement"  -> \/ xmlState # "InDocument"
                                 \/ frames = <<>> /\ rootStarted
                                 \/ Unnameable(NewFrame(c.name), c.name, FALSE)
    [] c.op = "writeNamespace" -> \/ xmlState # "InDocument" \/ frames = <<>> \/ ~Top.startPending
                                  \/ Undeclarable(Top, c.prefix, c.ns)
    [] c.op = "writeAttribute" -> \/ xmlState # "InDocument" \/ frames = <<>> \/ ~Top.startPending
                                  \/ HasAttribute(Top, c.name)
                                  \/ Unnameable(Top, c.name, TRUE)
    [] c.op = "text"           -> xmlState # "InDocument" \/ frames = <<>> \/ ~c.valid
    [] c.op = "endElement"     -> xmlState # "InDocument" \/ frames = <<>>

StartDocument ==
  /\ xmlState' = "InDocument"
  /\ UNCHANGED <<frames, nextPrefix, rootStarted>>

StartElement(name) ==
  LET f == NewFrame(name)
  IN  /\ frames' = Append(FlushedFrames,
                          [Named(f, Inherited, name, FALSE) EXCEPT
                             !.prefix = PrefixFor(f.bindings, name, FALSE)])
      /\ TakePrefix(f.bindings, name, FALSE)
      /\ rootStarted' = TRUE
      /\ UNCHANGED xmlState

WriteNamespace(prefix, ns) ==
  /\ frames' = ReplaceTop(AddDeclaration(Top, ParentBindings, prefix, ns))
  /\ UNCHANGED <<xmlState, nextPrefix, rootStarted>>

WriteAttribute(name) ==
  /\ frames' = ReplaceTop(
       [Named(Top, ParentBindings, name, TRUE) EXCEPT
          !.attributes = Append(@, [name |-> name,
                                    prefix |-> PrefixFor(Top.bindings, name, TRUE)])])
  /\ TakePrefix(Top.bindings, name, TRUE)
  /\ UNCHANGED <<xmlState, rootStarted>>

Text ==
  /\ frames' = ReplaceTop(FlushedTop)
  /\ UNCHANGED <<xmlState, nextPrefix, rootStarted>>

EndElement ==
  /\ frames' = SubSeq(frames, 1, Depth - 1)
  /\ UNCHANGED <<xmlState, nextPrefix, rootStarted>>

\* The call passes the checks, and the sink takes what it writes.
XmlSucceeds(c) ==
  /\ ~Refused(c)
  /\ document' = AfterCall(c) /\ UNCHANGED sink
  /\ \/ c.op = "startDocument" /\ StartDocument
     \/ c.op = "startElement" /\ StartElement(c.name)
     \/ c.op = "writeNamespace" /\ WriteNamespace(c.prefix, c.ns)
     \/ c.op = "writeAttribute" /\ WriteAttribute(c.name)
     \/ c.op = "text" /\ Text
     \/ c.op = "endElement" /\ EndElement

\* What the sink may have of a call that stops: an element or a text flushes the pending
\* start tag before anything else.
PartOf(c) == IF c.op \in {"startElement", "text"} THEN {document, AfterFlushStart} ELSE {document}

\* An exception.  What it leaves of the frames is never looked at again.
XmlStops == xmlState' \in {xmlState, "Failed"} /\ UNCHANGED <<frames, nextPrefix, rootStarted>>

\* The checks refuse the call.
XmlRefuses(c) == Refused(c) /\ document' \in PartOf(c) /\ XmlStops /\ UNCHANGED sink

\* The sink takes only a part of what the call writes, or throws.
SinkFails(c) ==
  /\ ~Refused(c) /\ c.op \notin {"writeNamespace", "writeAttribute"}
  /\ document' \in PartOf(c)
  /\ sink' = "failed" /\ xmlState' = "Failed"
  /\ UNCHANGED <<frames, nextPrefix, rootStarted>>
-----------------------------------------------------------------------------
(* endDocument and flush *)

EndDocumentRefused == xmlState # "InDocument" \/ frames # <<>> \/ ~rootStarted

EndDocument ==
  /\ ~EndDocumentRefused
  /\ xmlState' = "AfterDocument"
  /\ UNCHANGED <<frames, nextPrefix, rootStarted, document>>

FlushRefused == xmlState \notin {"InDocument", "AfterDocument"}

FlushXml ==
  /\ ~FlushRefused
  /\ document' = AfterFlushStart /\ frames' = FlushedFrames
  /\ UNCHANGED <<xmlState, nextPrefix, rootStarted, sink>>
-----------------------------------------------------------------------------
XmlTypeOK ==
  /\ xmlState \in XmlState
  /\ frames \in Seq(Frame)
  /\ nextPrefix \in 0 .. Len(Generated)
  /\ rootStarted \in BOOLEAN
  /\ sink \in {"open", "closed", "failed"}
  /\ document \in Document
=============================================================================
