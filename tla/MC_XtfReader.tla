------------------------------ MODULE MC_XtfReader ------------------------------
(***************************************************************************)
(* Documents for XtfReader.  Each comes with the events a reader must make *)
(* of it, written down by hand, and with whether it is valid.              *)
(***************************************************************************)
EXTENDS XtfReader

El(ns, local, id, attrs) == [ns |-> ns, local |-> local, id |-> id, attrs |-> attrs]
Start(e) == [tag |-> "start", element |-> e]
End(e)   == [tag |-> "end", element |-> e]
Empty(e) == [tag |-> "empty", element |-> e]
NoElement == El("none", "", "absent", "clean")
Text == [tag |-> "text", element |-> NoElement]
DocType == [tag |-> "doctype", element |-> NoElement]
Garbage == [tag |-> "malformed", element |-> NoElement]

Ev(kind, id) == [kind |-> kind, id |-> id]

(* XTF 2.4 *)
transfer == El("ili24", "transfer", "absent", "clean")
header   == El("ili24", "headersection", "absent", "clean")
models   == El("ili24", "models", "absent", "clean")
model    == El("ili24", "model", "given", "clean")
sender   == El("ili24", "sender", "absent", "clean")
comment  == El("ili24", "comment", "absent", "clean")
data     == El("ili24", "datasection", "absent", "clean")
T1 == El("model", "T1", "given", "clean")
T2 == El("model", "T2", "given", "clean")
C1 == El("model", "C1", "given", "clean")
C2 == El("model", "C2", "given", "clean")
attr == El("model", "a", "absent", "clean")

(* XTF 2.3 *)
TRANSFER == El("ili23", "TRANSFER", "absent", "clean")
HEADER   == El("ili23", "HEADERSECTION", "given", "clean")
MODELS   == El("ili23", "MODELS", "absent", "clean")
DATA     == El("ili23", "DATASECTION", "absent", "clean")

Header24 == <<Start(transfer), Start(header), Empty(models), End(header)>>
Header23 == <<Start(TRANSFER), Empty(HEADER)>>

Valid(tokens, events) ==
  [tokens |-> tokens, events |-> events, valid |-> TRUE, diagnoses |-> <<>>]

\* An invalid document, and the events of the part before the fault.
Invalid(tokens, events) ==
  [tokens |-> tokens, events |-> events, valid |-> FALSE, diagnoses |-> <<>>]

\* Two objects in a basket, one with an attribute that has text.
Plain24 ==
  Valid(Header24 \o <<Start(data), Start(T1), Empty(C1),
                      Start(C2), Start(attr), Text, End(attr), End(C2),
                      End(T1), End(data), End(transfer)>>,
        <<Ev("StartTransfer", "headersection"), Ev("StartBasket", "T1"), Ev("Object", "C1"),
          Ev("Object", "C2"), Ev("EndBasket", "T1"), Ev("EndTransfer", "transfer")>>)

\* The header written out, and no basket.
Header24Full ==
  Valid(<<Start(transfer), Start(header), Start(models), Empty(model), End(models),
          Empty(sender), Empty(comment), End(header), Empty(data), End(transfer)>>,
        <<Ev("StartTransfer", "headersection"), Ev("EndTransfer", "transfer")>>)

Plain23 ==
  Valid(Header23 \o <<Start(DATA), Start(T1), Empty(C1), Empty(C2), End(T1),
                      End(DATA), End(TRANSFER)>>,
        <<Ev("StartTransfer", "HEADERSECTION"), Ev("StartBasket", "T1"), Ev("Object", "C1"),
          Ev("Object", "C2"), Ev("EndBasket", "T1"), Ev("EndTransfer", "TRANSFER")>>)

(* Documents that a lenient reader accepts, and what it reports of them. *)
Told(about, severity) == [about |-> about, severities |-> {severity}]
Missing == El("model", "C1", "empty", "clean")
Ref == El("model", "r", "given", "clean")
Struct == El("model", "s", "absent", "clean")
Ball == El("geom", "ball", "absent", "clean")

Lenient(tokens, events, diagnoses) ==
  [Valid(tokens, events) EXCEPT !.diagnoses = diagnoses]

LenientDocuments == {
  \* the sender before the models, a miscased value in a basket's start tag, an object without
  \* TID, an attribute value that cannot be read
  Lenient(<<Start(transfer), Start(header), Empty(sender), Empty(models), End(header),
            Start(data), Start([T1 EXCEPT !.attrs = "miscased"]), Empty(Missing), Start(C2),
            Empty([attr EXCEPT !.attrs = "irregular"]), End(C2), End(T1), End(data), End(transfer)>>,
          <<Ev("StartTransfer", "headersection"), Ev("StartBasket", "T1"), Ev("Object", "C1"),
            Ev("Object", "C2"), Ev("EndBasket", "T1"), Ev("EndTransfer", "transfer")>>,
          <<Told("headersection", "Error"), Told("T1", "Warning"), Told("C1", "Error"),
            Told("a", "Error")>>),
  \* text beside the models, text beside a structure, a geometry nobody knows
  Lenient(<<Start(transfer), Start(header), Start(models), Text, End(models), End(header),
            Start(data), Start(T1), Start(C1), Start(attr), Text, Empty(Struct), End(attr),
            Start(attr), Empty(Ball), End(attr), End(C1), End(T1), End(data), End(transfer)>>,
          <<Ev("StartTransfer", "headersection"), Ev("StartBasket", "T1"), Ev("Object", "C1"),
            Ev("EndBasket", "T1"), Ev("EndTransfer", "transfer")>>,
          <<Told("headersection", "Error"), Told("a", "Warning"), Told("a", "Warning")>>),
  \* an unknown attribute of the header, of a basket, a miscased one of an object
  Lenient(<<Start(TRANSFER), Empty([HEADER EXCEPT !.attrs = "unknown"]), Start(DATA),
            Start([T1 EXCEPT !.attrs = "unknown"]), Empty([C1 EXCEPT !.attrs = "miscased"]),
            End(T1), End(DATA), End(TRANSFER)>>,
          <<Ev("StartTransfer", "HEADERSECTION"), Ev("StartBasket", "T1"), Ev("Object", "C1"),
            Ev("EndBasket", "T1"), Ev("EndTransfer", "TRANSFER")>>,
          <<Told("HEADERSECTION", "Warning"), Told("T1", "Warning"), Told("C1", "Warning")>>),
  \* text beside the models, text beside a structure, a reference with text
  Lenient(<<Start(TRANSFER), Start(HEADER), Start(MODELS), Text, End(MODELS), End(HEADER),
            Start(DATA), Start(T1), Start(C1), Start(attr), Text, Empty(Struct), End(attr),
            Start(Ref), Text, End(Ref), End(C1), End(T1), End(DATA), End(TRANSFER)>>,
          <<Ev("StartTransfer", "HEADERSECTION"), Ev("StartBasket", "T1"), Ev("Object", "C1"),
            Ev("EndBasket", "T1"), Ev("EndTransfer", "TRANSFER")>>,
          <<Told("HEADERSECTION", "Error"), Told("a", "Warning"), Told("r", "Error")>>) }

\* A basket without objects, written as an empty-element tag.
EmptyBasket23 ==
  Valid(Header23 \o <<Start(DATA), Empty(T1), Start(T2), Empty(C1), End(T2),
                      End(DATA), End(TRANSFER)>>,
        <<Ev("StartTransfer", "HEADERSECTION"), Ev("StartBasket", "T1"), Ev("EndBasket", "T1"),
          Ev("StartBasket", "T2"), Ev("Object", "C1"), Ev("EndBasket", "T2"),
          Ev("EndTransfer", "TRANSFER")>>)

(* Faults *)
Started24 == <<Ev("StartTransfer", "headersection")>>
InBasket24 == Started24 \o <<Ev("StartBasket", "T1")>>

\* The reader of the faulty documents is strict, requires a model and preserves no extensions.
Declared24 ==
  <<Start(transfer), Start(header), Start(models), Empty(model), End(models), End(header)>>

Faulty == {
  \* ends inside the root
  Invalid(Declared24 \o <<Start(data), Start(T1), Empty(C1), End(T1), End(data)>>,
          InBasket24 \o <<Ev("Object", "C1"), Ev("EndBasket", "T1")>>),
  \* ill-formed inside a basket
  Invalid(Declared24 \o <<Start(data), Start(T1), Empty(C1), Garbage>>,
          InBasket24 \o <<Ev("Object", "C1")>>),
  \* the wrong end tag
  Invalid(Declared24 \o <<Start(data), Start(T1), End(data)>>, InBasket24),
  \* text between control elements
  Invalid(Declared24 \o <<Start(data), Start(T1), Text, End(T1), End(data), End(transfer)>>,
          InBasket24),
  \* a basket without identifier, and one without model namespace
  Invalid(Declared24 \o <<Start(data), Empty(El("model", "T1", "absent", "clean"))>>, Started24),
  Invalid(Declared24 \o <<Start(data), Empty(El("ili24", "T1", "given", "clean"))>>, Started24),
  \* no header, a header without models, no data section
  Invalid(<<Start(transfer), Start(data)>>, <<>>),
  Invalid(<<Start(transfer), Empty(header)>>, <<>>),
  Invalid(Declared24 \o <<End(transfer)>>, Started24),
  \* a second root
  Invalid(Declared24 \o <<Empty(data), End(transfer), Empty(transfer)>>,
          Started24 \o <<Ev("EndTransfer", "transfer")>>),
  \* text in the models
  Invalid(<<Start(transfer), Start(header), Start(models), Text, Empty(model), End(models),
            End(header)>>, <<>>),
  \* another root, a document type declaration
  Invalid(<<Empty(El("ili22", "TRANSFER", "absent", "clean"))>>, <<>>),
  Invalid(<<DocType, Empty(transfer)>>, <<>>),
  \* deeper than MaxDepth
  Invalid(Declared24 \o <<Start(data), Start(T1), Start(C1), Start(attr), Empty(attr)>>,
          InBasket24) }

\* The same for 2.3.
Model23(id, attrs) == El("ili23", "MODEL", id, attrs)
Control23(local, attrs) == El("ili23", local, "absent", attrs)

Sections23(header23, content) ==
  <<Start(TRANSFER), Start(header23)>> \o content \o <<End(HEADER)>>

Models23 == <<Start(MODELS), Empty(Model23("given", "clean")), End(MODELS)>>

BadHeader23(header23, content) ==
  Invalid(Sections23(header23, content) \o <<Start(DATA), Empty(T1), End(DATA), End(TRANSFER)>>, <<>>)

Started23 == <<Ev("StartTransfer", "HEADERSECTION")>>
AfterHeader23(content, events) ==
  Invalid(Sections23(HEADER, Models23) \o content, Started23 \o events)

Faulty23 == {
  \* no version, another version in the attribute, and in an element (the old writer's form)
  BadHeader23(El("ili23", "HEADERSECTION", "absent", "clean"), Models23),
  BadHeader23(El("ili23", "HEADERSECTION", "wrong", "clean"), Models23),
  BadHeader23(El("ili23", "HEADERSECTION", "absent", "clean"),
              Models23 \o <<Empty(El("ili23", "VERSION", "wrong", "clean"))>>),
  \* no model, one without name, one without version, one with an element inside, two MODELS
  BadHeader23(HEADER, <<Empty(MODELS)>>),
  BadHeader23(HEADER, <<Start(MODELS), Empty(Model23("absent", "clean")), End(MODELS)>>),
  BadHeader23(HEADER, <<Start(MODELS), Empty(Model23("given", "irregular")), End(MODELS)>>),
  BadHeader23(HEADER, <<Start(MODELS), Start(Model23("given", "clean")), Empty(attr),
                        End(Model23("given", "clean")), End(MODELS)>>),
  BadHeader23(HEADER, Models23 \o Models23),
  \* text in a model, and beside it
  BadHeader23(HEADER, <<Start(MODELS), Start(Model23("given", "clean")), Text,
                        End(Model23("given", "clean")), End(MODELS)>>),
  BadHeader23(HEADER, <<Start(MODELS), Text, Empty(Model23("given", "clean")), End(MODELS)>>),
  \* an element without a place, a section inside the header, no identifier spaces
  BadHeader23(HEADER, Models23 \o <<Empty(attr)>>),
  BadHeader23(HEADER, Models23 \o <<Empty(Control23("DATASECTION", "clean"))>>),
  BadHeader23(HEADER, Models23 \o <<Empty(Control23("OIDSPACES", "clean"))>>),
  \* alias entries without their attributes, and a comment with an element
  BadHeader23(HEADER, Models23 \o <<Start(Control23("ALIAS", "clean")),
                        Empty(Control23("ENTRIES", "irregular")), End(Control23("ALIAS", "clean"))>>),
  BadHeader23(HEADER, Models23 \o <<Start(Control23("COMMENT", "clean")), Empty(attr),
                        End(Control23("COMMENT", "clean"))>>),
  \* no data section, one closed twice, a basket without BID, a deletion and an object without TID
  AfterHeader23(<<End(TRANSFER)>>, <<>>),
  AfterHeader23(<<Empty(DATA), Empty(DATA), End(TRANSFER)>>, <<>>),
  AfterHeader23(<<Start(DATA), Empty(El("model", "T1", "empty", "clean"))>>, <<>>),
  AfterHeader23(<<Start(DATA), Start(T1), Empty(El("ili23", "DELETE", "absent", "clean"))>>,
                <<Ev("StartBasket", "T1")>>),
  AfterHeader23(<<Start(DATA), Start(T1), Empty(El("model", "C1", "absent", "clean"))>>,
                <<Ev("StartBasket", "T1")>>),
  \* an attribute value that cannot be read
  AfterHeader23(<<Start(DATA), Start(T1), Start(C1), Empty(El("model", "a", "absent", "irregular")),
                  End(C1)>>, <<Ev("StartBasket", "T1")>>) }

\* A valid document for that reader, with everything a header may have and a deletion.
FullHeader23(baskets, events) ==
  Valid(Sections23(HEADER,
          Models23 \o
          <<Start(Control23("ALIAS", "clean")), Start(Control23("ENTRIES", "clean")),
            Empty(Control23("TAGENTRY", "clean")), End(Control23("ENTRIES", "clean")),
            End(Control23("ALIAS", "clean")), Start(Control23("OIDSPACES", "clean")),
            Empty(El("ili23", "OIDSPACE", "given", "clean")),
            End(Control23("OIDSPACES", "clean")),
            Start(Control23("COMMENT", "clean")), Text, End(Control23("COMMENT", "clean"))>>) \o
        <<Start(DATA), Start(T1), Empty(El("ili23", "DELETE", "given", "clean")), End(T1)>> \o
        baskets \o <<End(DATA), End(TRANSFER)>>,
        Started23 \o <<Ev("StartBasket", "T1"), Ev("Object", "DELETE"), Ev("EndBasket", "T1")>> \o
        events \o <<Ev("EndTransfer", "TRANSFER")>>)

\* One basket more than MaxTotalInputBytes allows.
TooLong23 ==
  FullHeader23(<<Start(T2), End(T2)>>, <<Ev("StartBasket", "T2"), Ev("EndBasket", "T2")>>)

EmptyBasket24 ==
  Valid(Declared24 \o <<Start(data), Empty(T1), End(data), End(transfer)>>,
        <<Ev("StartTransfer", "headersection"), Ev("StartBasket", "T1"), Ev("EndBasket", "T1"),
          Ev("EndTransfer", "transfer")>>)

\* Two faults that are let pass, and one that is not: the input ends inside a basket.
Unfinished24 ==
  [Invalid(<<Start(transfer), Start(header), Empty(sender), Empty(models), End(header),
             Start(data), Start(T1), Empty(Missing), Empty(C2)>>,
           <<Ev("StartTransfer", "headersection"), Ev("StartBasket", "T1"), Ev("Object", "C1"),
             Ev("Object", "C2")>>)
     EXCEPT !.diagnoses = <<Told("headersection", "Error"), Told("C1", "Error")>>]

(* The document sets of the runs *)
ChunkedDocuments  == {Plain24, Plain23, Header24Full, Unfinished24} \cup LenientDocuments
FaultyDocuments   == Faulty \cup Faulty23 \cup {EmptyBasket24, FullHeader23(<<>>, <<>>), TooLong23}
EmptyBaskets      == {EmptyBasket23}
OnlyPlain23       == {Plain23}
=============================================================================
