----------------------------- MODULE IlicMetamodel ------------------------------
(***************************************************************************)
(* What the constructor of source/ilic/IlicModelIndex.cpp makes of the     *)
(* models that the ilic compiler has read.  It copies what it needs, with  *)
(* each element at its concept: the root of its translations.  The         *)
(* compiler makes no cycle of translations, extensions or nodes.           *)
(***************************************************************************)
EXTENDS Naturals, Sequences, SequencesExt

CONSTANTS
  Models,   \* the models of the metamodel store, in their order
  Element   \* for each element a record with its kind, its name, the element `of' that it
            \* translates, the element it is `in', and what a class, an attribute, a role, an
            \* enumeration or a package has below it

NoElement == "no element"
The(e) == Element[e]

RECURSIVE TranslationRoot(_), ScopedName(_), ContainingModel(_), Inherited(_), Below(_)

TranslationRoot(e) == IF The(e).of = NoElement THEN e ELSE TranslationRoot(The(e).of)

ScopedName(e) ==
  Append(IF The(e).in = NoElement THEN <<>> ELSE ScopedName(The(e).in), The(e).name)

ContainingModel(e) == IF The(e).kind = "model" THEN The(e) ELSE ContainingModel(The(e).in)

\* makeVariant(): the XML name is that of the root in its model's namespace.
MakeVariant(e) ==
  LET root == TranslationRoot(e)
  IN  [concept |-> root, scoped |-> ScopedName(e), local |-> The(e).name,
       xml |-> <<ContainingModel(root).namespace, The(root).name>>,
       model |-> ContainingModel(e).name, language |-> ContainingModel(e).language]

\* visitPackage(): the elements of a model, each topic before its own.
Visited(kind) ==
  LET Inside(package) ==
        FlattenSeq([i \in DOMAIN The(package).elements |->
          LET e == The(package).elements[i] IN <<e>> \o The(e).elements])
      all == FlattenSeq([i \in DOMAIN Models |-> Inside(Models[i])])
  IN  SelectSeq(all, LAMBDA e : The(e).kind = kind)

\* registerEnumeration(): the values of an attribute, as paths in their tree, with their concepts.
Below(n) ==
  LET Under(values) ==
        [i \in DOMAIN values |-> [values[i] EXCEPT !.lexical = <<The(n).name>> \o @]]
  IN  <<[lexical |-> <<The(n).name>>, concept |-> TranslationRoot(n)]>>
        \o FlattenSeq([i \in DOMAIN The(n).nodes |-> Under(Below(The(n).nodes[i]))])
Enumerated(p) == FlattenSeq([i \in DOMAIN The(p).nodes |-> Below(The(p).nodes[i])])

\* The first one of each key.
FirstOfEach(elements, KeyOf(_)) ==
  LET IsFirst(i) == \A j \in 1 .. i - 1 : KeyOf(elements[j]) # KeyOf(elements[i])
  IN  FlattenSeq([i \in DOMAIN elements |-> IF IsFirst(i) THEN <<elements[i]>> ELSE <<>>])

\* registerProperty() over all classes: the first variant of a property in a model counts.
RegisterProperties ==
  LET classes == Visited("class")
      Declared(k) == The(k).roles \o The(k).attributes \o The(k).access
      registered == FirstOfEach(FlattenSeq([i \in DOMAIN classes |-> Declared(classes[i])]),
                                LAMBDA p : <<TranslationRoot(p), ContainingModel(p).name>>)
      Variant(p) == MakeVariant(p) @@ [enumerations |-> Enumerated(p), transient |-> The(p).transient]
  IN  [i \in DOMAIN registered |-> Variant(registered[i])]

\* classOrder(): the properties of a class and of those it extends, the most general class first.
Inherited(class) ==
  LET k == The(class)
      own == IF k.sort = "association" THEN k.roles \o k.access \o k.attributes
             ELSE k.attributes \o k.access
  IN  (IF k.super = NoElement THEN <<>> ELSE Inherited(k.super)) \o own
AllProperties(class) ==
  LET inherited == Inherited(class)
  IN  FirstOfEach([i \in DOMAIN inherited |-> TranslationRoot(inherited[i])], LAMBDA c : c)

\* standaloneAssociation(); a maximum of -1 is unbounded.
StandaloneAssociation(class) ==
  LET hasAttributes == \E a \in ToSet(class.attributes) : ~The(a).transient
      roles == {The(r) : r \in ToSet(class.roles)}
      Maximum(r) == IF r.max = -1 /\ r.composition THEN 1 ELSE r.max
      ExactlyOne(r) == r.min = 1 /\ Maximum(r) = 1
      Many(r) == Maximum(r) = -1 \/ Maximum(r) > 1
  IN  \/ Len(class.roles) > 2
      \/ Len(class.roles) < 2 /\ hasAttributes
      \/ /\ Len(class.roles) = 2 /\ \A r \in roles : ~ExactlyOne(r)
         /\ hasAttributes \/ \A r \in roles : Many(r)

Transferable(class) ==
  /\ ~class.abstract /\ class.sort # "structure"
  /\ class.sort = "view" => ~class.transient
  /\ class.sort = "association" => StandaloneAssociation(class)

Index ==
  LET Variants(elements) == [i \in DOMAIN elements |-> MakeVariant(elements[i])]
      ClassVariant(k) == MakeVariant(k) @@ [allProperties |-> AllProperties(k),
                                            transferable |-> Transferable(The(k))]
      classes == Visited("class")
      Model(e) == [name |-> The(e).name, language |-> The(e).language]
  IN  [models |-> [i \in DOMAIN Models |-> Model(Models[i])],
       topics |-> Variants(Visited("topic")),
       classes |-> [i \in DOMAIN classes |-> ClassVariant(classes[i])],
       properties |-> RegisterProperties]
=============================================================================
