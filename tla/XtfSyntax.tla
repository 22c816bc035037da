------------------------------ MODULE XtfSyntax ------------------------------
(***************************************************************************)
(* What passes between the XML parser, the XTF dialects and the reader's   *)
(* coordinator: elements, tokens, events, and the result of one dialect    *)
(* callback.                                                               *)
(*                                                                         *)
(* An element keeps what the dialects decide on.  `ns' classifies the      *)
(* namespace, `local' is the local name (and the identity of a basket or   *)
(* object), `id' says whether the identifying attribute or text (BID, TID, *)
(* VERSION, model name, the REF of an attribute) is there, and `attrs'     *)
(* whether the other attributes are all known ("clean"), contain one the   *)
(* dialect has no place for ("unknown"), a value its lexical rules reject  *)
(* ("irregular"), or a legal value in the wrong case ("miscased").  A      *)
(* geometry is irregular, too, if its dialect rejects what is inside it.   *)
(***************************************************************************)
EXTENDS Naturals, Sequences

Namespace == {"ili22", "ili23", "ili24", "geom", "model", "none"}
Identifier == {"given", "empty", "absent", "wrong"}
AttributeClass == {"clean", "unknown", "irregular", "miscased"}

Element == [ns : Namespace, local : STRING, id : Identifier, attrs : AttributeClass]

\* Two expanded XML names are equal.
SameName(e, f) == e.ns = f.ns /\ e.local = f.local

\* The XML tokens Expat reports: an empty-element tag is one token but two callbacks.
Tag == {"start", "end", "empty", "text", "doctype", "malformed"}
Token == [tag : Tag, element : Element]

EventKind == {"StartTransfer", "StartBasket", "Object", "EndBasket", "EndTransfer"}
Event == [kind : EventKind, id : STRING]

Severity == {"Warning", "Error"}

\* The diagnostics of one callback: the element they are about, and how severe they are.
Report == [about : STRING, severities : SUBSET Severity]

(***************************************************************************)
(* The state both dialects share.  `nodes' is the stack of elements being  *)
(* captured, innermost first; `captured' lists what was captured below the *)
(* outermost node in document order, each with its depth below that node,  *)
(* and `texts' holds the numbers of those with text, 0 for the outermost.  *)
(* `basket' and `object' hold the current basket and object, if any.       *)
(***************************************************************************)
DialectState == {"ExpectHeader", "CapturingHeader", "ExpectData", "InData",
                 "InBasket", "InObject", "AfterData", "Done", "Failed"}
CaptureKind == {"None", "Header", "Attribute"}
Captured == [depth : Nat, element : Element]

Dialect == [state       : DialectState,
            captureKind : CaptureKind,
            nodes       : Seq(Element),
            captured    : Seq(Captured),
            texts       : SUBSET Nat,
            basket      : Seq(Element),
            object      : Seq(Element)]

NewDialect == [state |-> "ExpectHeader", captureKind |-> "None", nodes |-> <<>>,
               captured |-> <<>>, texts |-> {}, basket |-> <<>>, object |-> <<>>]

\* The element captured last that is still open, as a set of one number.
Innermost(d) ==
  LET open == {0} \cup {i \in DOMAIN d.captured : d.captured[i].depth = Len(d.nodes) - 1}
  IN  {i \in open : \A j \in open : j <= i}

\* Entry i of what was captured is a child of the last shallower one before it.
Parent(captured, i) ==
  LET before == {0} \cup {j \in 1 .. i - 1 : captured[j].depth < captured[i].depth}
  IN  CHOOSE j \in before : \A k \in before : k <= j

Inside(captured, i) == {j \in DOMAIN captured : Parent(captured, j) = i}

(***************************************************************************)
(* One dialect callback either throws, or leaves the dialect in a new      *)
(* state, having emitted at most one event and made at most one report.  Of*)
(* a callback that throws, the report is what it may have made before.     *)
(***************************************************************************)
Result == [thrown      : BOOLEAN,
           dialect     : Dialect,
           emit        : Seq(Event),
           diagnostics : Seq(Report)]

Thrown(d) == [thrown |-> TRUE, dialect |-> [d EXCEPT !.state = "Failed"],
              emit |-> <<>>, diagnostics |-> <<>>]

\* The callback throws where it would have returned r.
Fails(d, r) == [Thrown(d) EXCEPT !.diagnostics = r.diagnostics]

Quiet(d) == [thrown |-> FALSE, dialect |-> d, emit |-> <<>>, diagnostics |-> <<>>]

Emits(d, kind, id) ==
  [thrown |-> FALSE, dialect |-> d, emit |-> <<[kind |-> kind, id |-> id]>>,
   diagnostics |-> <<>>]

(***************************************************************************)
(* What a dialect finds wrong: something "irregular" goes to               *)
(* strictOrReport and becomes an Error, a "miscased" value a Warning of a  *)
(* lenient dialect, an "unknown" extension a Warning if it is preserved    *)
(* and an Error otherwise; what is "noted" is a Warning in any case.       *)
(***************************************************************************)
Fault == {"irregular", "miscased", "unknown", "noted"}

FaultIf(condition, fault) == IF condition THEN {fault} ELSE {}

Reports(e, faults, preserve) ==
  LET errors == {"irregular"} \cup FaultIf(~preserve, "unknown")
      severities == (IF faults \cap errors # {} THEN {"Error"} ELSE {})
                      \cup (IF faults \cap (Fault \ errors) # {} THEN {"Warning"} ELSE {})
  IN  IF severities = {} THEN <<>> ELSE <<[about |-> e.local, severities |-> severities]>>
=============================================================================
