----------------------------- MODULE IlicModelIndex -----------------------------
(***************************************************************************)
(* The queries of source/ilic/IlicModelIndex.cpp: what the names, roles    *)
(* and enumeration values of a transfer mean in the models that the ilic   *)
(* compiler has read, and what they are called in another of these models. *)
(* Elements that are translations of one another are one concept; its      *)
(* variants are the elements.                                              *)
(***************************************************************************)
EXTENDS Naturals, Sequences, SequencesExt, FiniteSets, FiniteSetsExt, Selection

\* A name as IomName has it: the parts of the INTERLIS name, and the expanded XML name; each
\* may be missing.
Name(ili, xml) == [ili |-> ili, xml |-> xml]

-----------------------------------------------------------------------------
(* Queries.  Each one finds something, or finds that it is not known, or   *)
(* throws.                                                                 *)
Found(x) == [is |-> "found", what |-> x]
Unknown == [is |-> "unknown"]
Mismatch == [is |-> "throws"]
IfFound(answer, Next(_)) == IF answer.is = "found" THEN Next(answer.what) ELSE answer

VariantsOf(concept, variants) == Only(variants, {v \in ToSet(variants) : v.concept = concept})

Transient(index, concept) == \E v \in ToSet(VariantsOf(concept, index.properties)) : v.transient

\* An EnumVariant for each attribute that has the value, in the order of the attributes.
EnumVariants(index, concept) ==
  FlattenSeq([i \in DOMAIN index.properties |->
    LET p == index.properties[i]
        values == VariantsOf(concept, p.enumerations)
    IN  [j \in DOMAIN values |->
           [model |-> p.model, language |-> p.language, lexical |-> values[j].lexical]]])

MatchesName(observed, v) ==
  IF Len(observed.ili) > 1 THEN v.scoped = observed.ili ELSE <<v.local>> = observed.ili
Matches(observed, v) == MatchesName(observed, v) \/ v.xml = observed.xml

\* lookup(): the concept of a name, and its variant where only one has the name.
OneConcept(concepts, variant) ==
  CASE concepts = {} -> Unknown
    [] Cardinality(concepts) = 1 -> Found([concept |-> CHOOSE c \in concepts : TRUE, variant |-> variant])
    [] Cardinality(concepts) > 1 -> Mismatch
OneVariant(byName, byXml) ==
  CASE Cardinality(byName) = 1 -> byName
    [] Cardinality(byName) # 1 /\ Cardinality(byXml) = 1 -> byXml
    [] OTHER -> {}
Lookup(observed, variants) ==
  LET byName == {v \in ToSet(variants) : MatchesName(observed, v)}
      byXml == {v \in ToSet(variants) : v.xml = observed.xml}
  IN  OneConcept({v.concept : v \in byName \cup byXml}, OneVariant(byName, byXml))

\* modelLanguage(), transferModel() and modelIndex() find a model by its name.
Named(index, name) == {i \in DOMAIN index.models : index.models[i].name = name}
LanguageOf(index, name) == index.models[CHOOSE i \in Named(index, name) : TRUE].language

\* Mutant of Selected: the model that is meant counts for no more than its language.
SelectedByLanguage(index, variants, target) ==
  LET alike == {i \in DOMAIN variants : variants[i].language = LanguageOf(index, target)}
  IN  IF Cardinality(Named(index, target)) # 1 \/ Cardinality(alike) # 1 THEN Mismatch
      ELSE Found(variants[CHOOSE i \in alike : TRUE])

\* The first variant of the target, or the only one in its language.  It throws where a second one
\* in the language comes before the one of the target.
Selected(index, variants, target) ==
  LET model == [i \in DOMAIN variants |-> variants[i].model]
      Alike(i) == /\ variants[i].language = LanguageOf(index, target)
                  /\ \A j \in 1 .. i : model[j] # target
      fits == {i \in DOMAIN variants : model[i] = target \/ Alike(i)}
  IN  IF Cardinality(Named(index, target)) # 1 \/ fits = {} THEN Mismatch
      ELSE IF \E i, j \in fits : i < j /\ model[i] # target /\ model[j] # target THEN Mismatch
      ELSE Found(variants[CHOOSE i \in fits : \A j \in fits : model[j] = target => model[i] = target /\ i <= j])

\* chooseVariant(); without a target the variant that was observed has to be known.
ChooseVariant(index, variants, observed, target) ==
  CASE target = "" /\ observed # {} -> Found(CHOOSE v \in observed : TRUE)
    [] target = "" /\ observed = {} -> Mismatch
    [] target # "" -> Selected(index, variants, target)

\* iomName()
IomNameOf(v, version, scoped) ==
  Name(IF scoped THEN v.scoped ELSE <<v.local>>, IF version = "V24" THEN v.xml ELSE <<>>)

Resolve(index, source, variants, target, version, scoped) ==
  LET Chosen(s) == ChooseVariant(index, VariantsOf(s.concept, variants), s.variant, target)
      NameOf(v) == Found(IomNameOf(v, version, scoped))
  IN  IfFound(source, LAMBDA s : IfFound(Chosen(s), NameOf))

ResolveTopic(index, observed, target, version) ==
  Resolve(index, Lookup(observed, index.topics), index.topics, target, version, TRUE)
ResolveClass(index, observed, target, version) ==
  Resolve(index, Lookup(observed, index.classes), index.classes, target, version, TRUE)

\* propertyLookup(): among the properties that some variant of the class has.
PropertiesOf(index, class) ==
  LET concepts == UNION {ToSet(v.allProperties) : v \in ToSet(VariantsOf(class, index.classes))}
  IN  Only(index.properties, {p \in ToSet(index.properties) : p.concept \in concepts})
PropertyLookup(index, owner, observed) ==
  IfFound(Lookup(owner, index.classes),
          LAMBDA class : Lookup(observed, PropertiesOf(index, class.concept)))

ResolveProperty(index, owner, observed, target, version) ==
  Resolve(index, PropertyLookup(index, owner, observed), index.properties, target, version, FALSE)

IsTransientProperty(index, owner, observed) ==
  LET Answer(property) == Found(Transient(index, property.concept))
  IN  IfFound(PropertyLookup(index, owner, observed), Answer) = Found(TRUE)

IsTopLevelTransferable(index, observed) ==
  LET Some(class) == \E v \in ToSet(VariantsOf(class.concept, index.classes)) : v.transferable
  IN  IfFound(Lookup(observed, index.classes), LAMBDA class : Found(Some(class))) = Found(TRUE)

\* transferProperties(): their names, if each one has a name in the target.
AllFound(answers) ==
  IF Mismatch \in ToSet(answers) THEN Mismatch ELSE Found([i \in DOMAIN answers |-> answers[i].what])
TransferProperties(index, owner, target, version) ==
  LET Chosen(class) ==
        ChooseVariant(index, VariantsOf(class.concept, index.classes), class.variant, target)
      NameOf(c) ==
        Resolve(index, Found([concept |-> c, variant |-> {}]), index.properties, target, version,
                FALSE)
      NamesOf(concepts) == AllFound([i \in DOMAIN concepts |-> NameOf(concepts[i])])
      Written(class) == {c \in ToSet(class.allProperties) : ~Transient(index, c)}
      Names(class) == NamesOf(Only(class.allProperties, Written(class)))
  IN  IfFound(Lookup(owner, index.classes), LAMBDA class : IfFound(Chosen(class), Names))

\* Mutant of EnumConcepts: a value is read in the first model that has the property.
EnumConceptsOfFirst(index, property, lexical) ==
  LET values == Head(VariantsOf(property.concept, index.properties)).enumerations
  IN  {v.concept : v \in {v \in ToSet(values) : v.lexical = lexical}}

\* enumConcept(): what a value of the property is, in the variant that was observed, or in any.
EnumConcepts(index, property, lexical) ==
  LET variants == IF property.variant # {} THEN property.variant
                  ELSE ToSet(VariantsOf(property.concept, index.properties))
      values == UNION {ToSet(v.enumerations) : v \in variants}
  IN  {v.concept : v \in {v \in values : v.lexical = lexical}}

\* translateEnumeration(); the text of a property that is no enumeration stays as it is.
TranslateEnumeration(index, owner, observed, lexical, target) ==
  LET IsEnumeration(property) ==
        \E v \in ToSet(VariantsOf(property.concept, index.properties)) : v.enumerations # <<>>
      InTarget(value) == IfFound(Selected(index, EnumVariants(index, value.concept), target),
                                 LAMBDA v : Found(v.lexical))
      Text(property) ==
        IF IsEnumeration(property)
        THEN IfFound(OneConcept(EnumConcepts(index, property, lexical), {}), InTarget)
        ELSE Found(lexical)
  IN  IfFound(PropertyLookup(index, owner, observed), Text)

-----------------------------------------------------------------------------
\* What every index is.  The translations of a class have the properties that it has: the compiler
\* of the models sees to that.
IsSequence(s) == s \in Seq(ToSet(s))
IsIndex(x) ==
  /\ IsSequence(x.classes) /\ IsSequence(x.properties)
  /\ \A v \in ToSet(x.classes) : IsSequence(v.allProperties)
  /\ \A v, w \in ToSet(x.classes) :
       v.concept = w.concept => ToSet(v.allProperties) = ToSet(w.allProperties)
=============================================================================
