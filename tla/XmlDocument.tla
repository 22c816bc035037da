----------------------------- MODULE XmlDocument -----------------------------
(***************************************************************************)
(* External: what a namespace-aware XML parser makes of the tokens written *)
(* so far.  It knows nothing of the writer: it has the stack of open       *)
(* elements with the namespace bindings in scope, and the nodes it has     *)
(* understood, each with its expanded name.                                *)
(***************************************************************************)
EXTENDS Naturals, Sequences

CONSTANTS
  Prefixes,         \* namespace prefixes, NoPrefix and "xml" among them
  Namespaces,       \* namespace URIs, NoNamespace and XmlNamespace among them
  NoPrefix,         \* the empty prefix
  NoNamespace,      \* the empty URI
  XmlNamespace,     \* http://www.w3.org/XML/1998/namespace
  Unbound           \* no namespace at all

ASSUME PrefixAssumption == NoPrefix \in Prefixes /\ "xml" \in Prefixes /\ NoPrefix # "xml"
ASSUME NamespaceAssumption ==
  /\ NoNamespace \in Namespaces /\ XmlNamespace \in Namespaces
  /\ NoNamespace # XmlNamespace
  /\ Unbound \notin Namespaces

\* Prefixes to namespaces: what is in scope, or what one start tag declares.
Bindings == [Prefixes -> Namespaces \cup {Unbound}]
NothingDeclared == [p \in Prefixes |-> Unbound]
OnlyXml == [NothingDeclared EXCEPT !["xml"] = XmlNamespace]

\* A name as it stands in a tag.
Lexical == [prefix : Prefixes, local : STRING]
Token == [tag : {"start", "empty"}, name : Lexical, declares : Bindings, attributes : Seq(Lexical)]
           \cup [tag : {"end"}, name : Lexical] \cup [tag : {"text"}]

Expanded == [ns : Namespaces \cup {Unbound}, local : STRING]
Node == [tag : {"start"}, name : Expanded, attributes : Seq(Expanded)]
           \cup [tag : {"end", "text"}]

Scope == [name : Lexical, bindings : Bindings]
Document == [open : Seq(Scope), rootSeen : BOOLEAN, wellFormed : BOOLEAN, nodes : Seq(Node)]

NewDocument == [open |-> <<>>, rootSeen |-> FALSE, wellFormed |-> TRUE, nodes |-> <<>>]

InScope(d) == IF d.open = <<>> THEN OnlyXml ELSE d.open[Len(d.open)].bindings

Bind(b, declares) == [p \in Prefixes |-> IF declares[p] = Unbound THEN b[p] ELSE declares[p]]

\* An element without a prefix has the default namespace, an attribute without one has none.
ElementName(b, n) ==
  [ns |-> IF n.prefix = NoPrefix /\ b[NoPrefix] = Unbound THEN NoNamespace ELSE b[n.prefix],
   local |-> n.local]
AttributeName(b, n) ==
  [ns |-> IF n.prefix = NoPrefix THEN NoNamespace ELSE b[n.prefix], local |-> n.local]

Attributes(b, t) == [i \in DOMAIN t.attributes |-> AttributeName(b, t.attributes[i])]

\* A start tag: one root, every prefix bound, no attribute twice, no prefix undeclared.
LegalStart(d, t, b) ==
  LET attrs == Attributes(b, t)
  IN  /\ d.open = <<>> => ~d.rootSeen
      /\ ElementName(b, t.name).ns # Unbound
      /\ \A i \in DOMAIN attrs :
           /\ attrs[i].ns # Unbound
           /\ \A j \in DOMAIN attrs : attrs[i] = attrs[j] => i = j
      /\ \A p \in Prefixes \ {NoPrefix} : t.declares[p] # NoNamespace

ReadStart(d, t) ==
  LET b == Bind(InScope(d), t.declares)
  IN  [open       |-> Append(d.open, [name |-> t.name, bindings |-> b]),
       rootSeen   |-> TRUE,
       wellFormed |-> d.wellFormed /\ LegalStart(d, t, b),
       nodes      |-> Append(d.nodes, [tag |-> "start", name |-> ElementName(b, t.name),
                                       attributes |-> Attributes(b, t)])]

\* An end tag, which must have the name of the start tag.
ReadEnd(d, name) ==
  IF d.open = <<>> \/ d.open[Len(d.open)].name # name
  THEN [d EXCEPT !.wellFormed = FALSE]
  ELSE [d EXCEPT !.open = SubSeq(d.open, 1, Len(d.open) - 1),
                 !.nodes = Append(d.nodes, [tag |-> "end"])]

Read(d, t) ==
  CASE t.tag = "start" -> ReadStart(d, t)
    [] t.tag = "empty" -> ReadEnd(ReadStart(d, t), t.name)
    [] t.tag = "end"   -> ReadEnd(d, t.name)
    [] t.tag = "text"  -> [d EXCEPT !.wellFormed = d.wellFormed /\ d.open # <<>>,
                                    !.nodes = Append(d.nodes, [tag |-> "text"])]

\* One complete element and nothing else.
CompleteDocument(d) == d.wellFormed /\ d.rootSeen /\ d.open = <<>>
=============================================================================
