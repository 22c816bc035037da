------------------------------ MODULE XtfWriting ------------------------------
(***************************************************************************)
(* What both dialect writers are written with: the calls they make, and    *)
(* the data of the events.  What a dialect does is a sequence of calls of  *)
(* the XML writer, diagnostics, and checks that fail; after a failure the  *)
(* rest of the sequence is never reached.                                  *)
(*                                                                         *)
(*   IomName    [ili : STRING, parts : Seq(STRING), xml : at most one XmlName] *)
(*   Extension  [name : XmlName, attributes : Seq(XmlName), text : BOOLEAN, *)
(*               children : Seq(Extension)]                                *)
(*   Value      [primitive |-> TRUE, valid : BOOLEAN], or an Object        *)
(*   Object     [primitive |-> FALSE, tag : IomName, oid : Identifier,     *)
(*               reference : Reference, operation, consistency,            *)
(*               members : Seq([name : IomName, values : Seq(Value)])]     *)
(*   Reference  [oid, basket, order : Identifier]; an empty order is zero  *)
(*                                                                         *)
(* Names of geometry members and tags are in upper case here.  The code    *)
(* compares tags, and leaves known members out of the unknown ones,        *)
(* without regard to case; it looks members up in one case only (segment,  *)
(* C1), which is the case that all members here have.                      *)
(***************************************************************************)
EXTENDS Naturals, Sequences, SequencesExt

CONSTANTS
  NoPrefix, NoNamespace,
  Strict,                      \* options.strictness
  PreserveUnknownExtensions    \* options.preserveUnknownExtensions

Identifier == {"absent", "empty", "given"}
NoName == ""

StartDocument == <<[op |-> "startDocument"]>>
Start(name) == <<[op |-> "startElement", name |-> name]>>
Attribute(name) == <<[op |-> "writeAttribute", name |-> name]>>
Namespace(prefix, ns) == <<[op |-> "writeNamespace", prefix |-> prefix, ns |-> ns]>>
Text(valid) == <<[op |-> "text", valid |-> valid]>>
End == <<[op |-> "endElement"]>>
Report == <<[op |-> "report", severity |-> "Warning"]>>
Fail == <<[op |-> "fail"]>>
StrictOrReport == IF Strict THEN Fail ELSE <<[op |-> "report", severity |-> "Error"]>>

Element(name, content) == Start(name) \o content \o End

When(condition, plan) == IF condition THEN plan ELSE <<>>

\* The code checks the condition before it goes on.
Check(condition, plan) == IF condition THEN plan ELSE Fail
Each(s, Plan(_)) == FlattenSeq([i \in DOMAIN s |-> Plan(s[i])])

\* extensionEnabled: an extension is written with a warning, or dropped.
IfEnabled(plan) == IF PreserveUnknownExtensions THEN Report \o plan ELSE StrictOrReport

\* An extension with its children; one without a namespace undeclares the default one, or not.
RECURSIVE Extension(_, _)
Extension(x, undeclares) ==
  Check(x.name.local # NoName,
    Start(x.name)
      \o When(undeclares /\ x.name.ns = NoNamespace, Namespace(NoPrefix, NoNamespace))
      \o Each(x.attributes, LAMBDA a : Check(a.local # NoName, Attribute(a)))
      \o When(x.text, Text(TRUE))
      \o FlattenSeq([i \in DOMAIN x.children |-> Extension(x.children[i], undeclares)])
      \o End)

\* valueCount() and value() find a member by its INTERLIS name only; one without it has no values.
ValuesOf(m) == IF m.name.ili = NoName /\ m.name.xml # <<>> THEN <<>> ELSE m.values

Values(o, member) ==
  FlattenSeq([i \in DOMAIN o.members |->
                IF o.members[i].name.ili = member THEN o.members[i].values ELSE <<>>])

\* At least one value, all of them objects, each written by Plan.
SomeObjects(values, Plan(_)) ==
  Check(values # <<>>, Each(values, LAMBDA v : Check(~v.primitive, Plan(v))))

\* A kind, consistency or operation that has a spelling; the others are left out.
HasKind(basket) == basket.basketKind \in {"Update", "Initial"}
HasConsistency(x) == x.consistency \in {"Incomplete", "Inconsistent", "Adapted"}
HasOperation(o) == o.operation \in {"Update", "Delete"}

IsReference(o) == \E part \in DOMAIN o.reference : o.reference[part] # "absent"
IsReferencePlaceholder(o) == o.tag.ili \in {"REF", "REFERENCE"} /\ o.members = <<>>

\* writeReferenceAttributes, with the names of the dialect.
ReferenceAttributes(reference, ref, bid, order) ==
  Check(reference.oid = "given",
    Attribute(ref)
      \o When(reference.basket # "absent",
              Check(reference.basket = "given", Attribute(bid)))
      \o When(reference.order # "absent",
              Check(reference.order = "given", Attribute(order))))

\* writePrimitiveMember: at most one lexical value, at least one if required.
PrimitiveMember(o, member, name, required) ==
  LET values == Values(o, member)
  IN  IF values = <<>>
      THEN When(required, Fail)
      ELSE Check(Len(values) = 1 /\ values[1].primitive,
                 Element(name, Text(values[1].valid)))

\* An extension with the name of the basket adds its attributes to the basket's start tag.
BasketAttributes(x) ==
  IF PreserveUnknownExtensions
  THEN Report \o Each(x.attributes, Attribute)
         \o When(x.text \/ x.children # <<>>, StrictOrReport)
  ELSE StrictOrReport
=============================================================================
