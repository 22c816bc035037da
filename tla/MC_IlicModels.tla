------------------------------ MODULE MC_IlicModels ------------------------------
(***************************************************************************)
(* What the reader and the writer of the model layer are for (a            *)
(* translation keeps the meaning, and loses nothing that is clear), and    *)
(* models of the ilic compiler and transfers of their data to check it.    *)
(***************************************************************************)
EXTENDS IlicXtf, TLC

(* What a name means, what a text means as a value of the attribute of this name: in the language *)
(* of the name, where it has an INTERLIS name. *)
Meanings(name, variants) == {v.concept : v \in {v \in ToSet(variants) : Matches(name, v)}}
TextMeanings(class, name, text) ==
  LET variants == {v \in ToSet(PropertiesOf(index, class)) : Matches(name, v)}
      named == {v \in variants : MatchesName(name, v)}
      values == UNION {ToSet(v.enumerations) : v \in IF named # {} THEN named ELSE variants}
  IN  {v.concept : v \in {v \in values : v.lexical = text}}

\* What an object says: its class, and for each property all values in their order.  What means
\* nothing in the models stands for itself.
Sense(meanings, itself) == IF meanings = {} THEN <<"itself", itself>> ELSE <<"meaning", meanings>>
RECURSIVE MeaningOf(_)
MeaningOf(object) ==
  LET classes == Meanings(object.tag, index.classes)
      PropertyOf(a) ==
        Sense(UNION {Meanings(a.name, PropertiesOf(index, c)) : c \in classes}, a.name)
      ValueOf(a, v) ==
        IF v.isObject THEN <<"part", MeaningOf(v.of)>>
        ELSE Sense(UNION {TextMeanings(c, a.name, v.of) : c \in classes}, v.of)
      ValuesOf(p) ==
        FlattenSeq([i \in DOMAIN object.attributes |->
          LET a == object.attributes[i]
          IN  IF PropertyOf(a) # p THEN <<>> ELSE [j \in DOMAIN a.values |-> ValueOf(a, a.values[j])]])
  IN  [class |-> Sense(classes, object.tag), oid |-> object.oid,
       values |-> [p \in {PropertyOf(a) : a \in ToSet(object.attributes)} |-> ValuesOf(p)]]

\* A translation keeps the meaning: a basket or an object that was handed out or written without a
\* diagnostic says what the event says that it comes from, in one model or another.
MeaningKept ==
  \A e \in ToSet(handed \o accepted) :
    Transformed(e.by, e.item).notes = <<>> =>
      CASE script[e.item] = "StartBasket" ->
             Meanings(e.event.topic, index.topics) = Meanings(content[e.item].topic, index.topics)
        [] script[e.item] = "Object" -> MeaningOf(e.event) = MeaningOf(content[e.item])
        [] OTHER -> TRUE

(* When a name or a value is clear: it means one thing, and that has one name in the target. *)
\* The target itself has one name for it, or of all variants there is one in its language.  A name
\* of the target's own is clear all the same only if it comes before the third variant of the
\* language: chooseVariant() throws at the second one that is not the target's.
OneName(variants, target, NameIn(_)) ==
  LET own == {i \in DOMAIN variants : variants[i].model = target}
      alike == {i \in DOMAIN variants : variants[i].language = LanguageOf(index, target)}
      before == {i \in alike : \A j \in own : i < j}
      names == {NameIn(variants[i]) : i \in own}
  IN  IF own # {} THEN Cardinality(names) = 1 /\ Cardinality(before) <= 1
      ELSE Cardinality(alike) = 1

Clear(name, variants, target) ==
  LET meanings == Meanings(name, variants)
  IN  /\ Cardinality(meanings) <= 1
      /\ \A c \in meanings : OneName(VariantsOf(c, variants), target, LAMBDA v : v.scoped)

\* A value has a variant for each attribute that shares it: where two of them do, it is clear in
\* their own model only, and if that model comes first or second in its language.
ClearText(class, name, text, target) ==
  LET meanings == TextMeanings(class, name, text)
  IN  /\ Cardinality(meanings) <= 1
      /\ \A c \in meanings : OneName(EnumVariants(index, c), target, LAMBDA v : v.lexical)

RECURSIVE ClearObject(_, _)
ClearObject(object, target) ==
  /\ Clear(object.tag, index.classes, target)
  /\ \A c \in Meanings(object.tag, index.classes), a \in ToSet(object.attributes) :
       /\ Clear(a.name, PropertiesOf(index, c), target)
       /\ \A v \in ToSet(a.values) :
            IF v.isObject THEN ClearObject(v.of, target) ELSE ClearText(c, a.name, v.of, target)

ClearItem(i, target) ==
  CASE script[i] = "StartTransfer" ->
         Cardinality({LanguageOf(index, m.name) : m \in ToSet(KnownIn(content[i].models))}) <= 1
    [] script[i] = "StartBasket" -> Clear(content[i].topic, index.topics, target)
    [] script[i] = "Object" -> ClearObject(content[i], target)
    [] OTHER -> TRUE

\* An event is lost only if the header selects models of several languages, or if it has a name or a
\* value that is ambiguous, has no translation into the model selected, or has two translations
\* into its language before the one into the model itself.  (Without a model selected, the names
\* stay those of the event and enumeration values throw.)
LostOnlyIfUnclear ==
  \A l \in lost :
    script[l.item] = "StartTransfer" \/ l.selected # "" => ~ClearItem(l.item, l.selected)

(* Models and transfers. *)
NoElement == "no element"
\* An element with nothing in it that translates none.
Plain(kind, name, in) ==
  [kind |-> kind, name |-> name, in |-> in, of |-> NoElement, elements |-> <<>>,
   sort |-> "class", super |-> NoElement, abstract |-> FALSE, transient |-> FALSE,
   attributes |-> <<>>, roles |-> <<>>, access |-> <<>>, nodes |-> <<>>,
   min |-> 0, max |-> 1, composition |-> FALSE, language |-> "", namespace |-> ""]

\* A model with one topic, whose names end in s: a class that extends another one, with an
\* enumeration, a structure, a transient attribute and a role, a view and an association.
ModelWith(m, s, language, names) ==
     m :> [Plain("model", m, NoElement) EXCEPT !.language = language, !.namespace = "ns" \o m,
                                                 !.elements = <<m \o "T">>]
  @@ (m \o "T") :> [Plain("topic", "T" \o s, m) EXCEPT
                      !.elements = <<m \o "P", m \o "C", m \o "D", m \o "V", m \o "L">>]
  @@ (m \o "P") :> [Plain("class", "P" \o s, m \o "T") EXCEPT !.abstract = TRUE,
                                                                !.attributes = <<m \o "code">>]
  @@ (m \o "C") :> [Plain("class", "C" \o s, m \o "T") EXCEPT
                      !.super = m \o "P", !.attributes = <<m \o "status", m \o "detail", m \o "calc">>,
                      !.access = <<m \o "r1">>]
  @@ (m \o "D") :> [Plain("class", "D" \o s, m \o "T") EXCEPT !.sort = "structure",
                                                                !.attributes = <<m \o "text">>]
  @@ (m \o "V") :> [Plain("class", "V" \o s, m \o "T") EXCEPT !.sort = "view", !.transient = TRUE]
  @@ (m \o "L") :> [Plain("class", "L" \o s, m \o "T") EXCEPT
                      !.sort = "association", !.roles = <<m \o "r1", m \o "r2">>]
  @@ (m \o "code") :> Plain("attribute", "code" \o s, m \o "P")
  @@ (m \o "status") :> [Plain("attribute", "status" \o s, m \o "C") EXCEPT
                           !.nodes = <<m \o "x", m \o "y">>]
  @@ (m \o "detail") :> Plain("attribute", "detail" \o s, m \o "C")
  @@ (m \o "calc") :> [Plain("attribute", "calc" \o s, m \o "C") EXCEPT !.transient = TRUE]
  @@ (m \o "text") :> Plain("attribute", "text" \o s, m \o "D")
  @@ (m \o "r1") :> [Plain("role", "r1" \o s, m \o "L") EXCEPT !.max = -1]
  @@ (m \o "r2") :> [Plain("role", "r2" \o s, m \o "L") EXCEPT !.max = -1, !.composition = TRUE]
  @@ (m \o "x") :> [Plain("node", names[1], NoElement) EXCEPT !.nodes = <<m \o "x1">>]
  @@ (m \o "x1") :> Plain("node", names[2], NoElement)
  @@ (m \o "y") :> Plain("node", names[3], NoElement)

Parts == {"", "T", "P", "C", "D", "V", "L", "code", "status", "detail", "calc", "text", "r1", "r2",
          "x", "x1", "y"}

Base == ModelWith("B", "", "de", <<"left", "lower", "right">>)

\* A translation, with false friends among the values.
FrenchAs(m, s) ==
  LET f == ModelWith(m, s, "fr", <<"right", "lower", "gauche">>)
      Original == [e \in {m \o p : p \in Parts} |-> "B" \o (CHOOSE p \in Parts : e = m \o p)]
  IN  [e \in DOMAIN f |-> [f[e] EXCEPT !.of = Original[e]]]
French == FrenchAs("F", "f")

\* Another model, with a class of the same name.
Other ==
     "O" :> [Plain("model", "O", NoElement) EXCEPT !.language = "en", !.namespace = "nsO",
                                                     !.elements = <<"OT">>]
  @@ "OT" :> [Plain("topic", "U", "O") EXCEPT !.elements = <<"OC">>]
  @@ "OC" :> Plain("class", "C", "OT")

\* A model in the language of the base, with a class that extends the one of the base.
Extending ==
     "E" :> [Plain("model", "E", NoElement) EXCEPT !.language = "de", !.namespace = "nsE",
                                                     !.elements = <<"ET">>]
  @@ "ET" :> [Plain("topic", "W", "E") EXCEPT !.elements = <<"EC">>]
  @@ "EC" :> [Plain("class", "G", "ET") EXCEPT !.super = "BC", !.attributes = <<"Eextra">>]
  @@ "Eextra" :> Plain("attribute", "extra", "EC")

\* In the base a second attribute has the same enumeration.
SharedDomain ==
  "Bsecond" :> [Base["Bstatus"] EXCEPT !.name = "second"]
    @@ [Base EXCEPT !["BC"].attributes = @ \o <<"Bsecond">>] @@ Extending

Translated == INSTANCE IlicMetamodel WITH Models <- <<"B", "F", "O">>, Element <- Base @@ French @@ Other
Extended == INSTANCE IlicMetamodel WITH Models <- <<"B", "E">>, Element <- Base @@ Extending
\* Three translations into one language: the second one is found, the third one comes too late.
Thrice == INSTANCE IlicMetamodel WITH
            Models <- <<"B", "F", "G", "H">>,
            Element <- Base @@ French @@ FrenchAs("G", "g") @@ FrenchAs("H", "h")
Shared == INSTANCE IlicMetamodel WITH Models <- <<"B", "E">>, Element <- SharedDomain

-----------------------------------------------------------------------------
Header(models, version) ==
  [models |-> [i \in DOMAIN models |-> [name |-> models[i], entry |-> "event"]], version |-> version]

Member(name, values) == [name |-> Name(<<name>>, <<>>), values |-> values]
Object(tag, attributes) == [tag |-> Name(tag, <<>>), oid |-> "o1", attributes |-> attributes]
Detail(tag, name) == Part([Object(tag, <<Member(name, <<Text(<<"t">>)>>)>>) EXCEPT !.oid = ""])

Status(value) == Member("status", <<Text(value)>>)

NoContent == [none |-> TRUE]
Transfer(models, version, topic, object) ==
  <<Header(models, version), [topic |-> topic], object, NoContent, NoContent>>
Kinds == <<"StartTransfer", "StartBasket", "Object", "EndBasket", "EndTransfer">>

C == <<"B", "T", "C">>
Topic == Name(<<"B", "T">>, <<>>)
InFrench(object) == Transfer(<<"F", "Elsewhere">>, "V23", Topic, object)

\* Values that are nested, repeated, opaque and out of the transfer order.
Full ==
  Object(C, <<Member("detail", <<Detail(<<"B", "T", "D">>, "text"), Detail(<<"COORD">>, "C1")>>),
              Member("code", <<Text(<<"c">>)>>), Member("r1", <<Detail(<<"REF">>, "ref")>>),
              Status(<<"left", "lower">>)>>)

TranslatedTransfers == {
  InFrench(Full), InFrench(Object(<<"F", "Tf", "Cf">>, <<Member("statusf", <<Text(<<"right">>)>>)>>)),
  \* both names of one attribute, a class name alone, in French and without ambiguity
  InFrench(Object(C, <<Status(<<"right">>), Member("statusf", <<Text(<<"gauche">>)>>)>>)),
  InFrench(Object(<<"Cf">>, <<Status(<<"left">>)>>)),
  \* a name of two classes, an unknown class, property and value, a transient property
  InFrench(Object(<<"C">>, <<>>)), InFrench(Object(<<"B", "T", "N">>, <<>>)),
  InFrench(Object(C, <<Member("n", <<Text(<<"n">>)>>), Member("code", <<Text(<<"c">>)>>)>>)),
  InFrench(Object(C, <<Status(<<"gauche">>)>>)), InFrench(Object(C, <<Member("calc", <<Text(<<"n">>)>>)>>)),
  \* not on the top level: an abstract class, a structure, a view and an embedded association
  InFrench(Object(<<"B", "T", "P">>, <<>>)), InFrench(Object(<<"B", "T", "D">>, <<>>)),
  InFrench(Object(<<"B", "T", "V">>, <<>>)), InFrench(Object(<<"B", "T", "L">>, <<>>)),
  \* an unknown topic, models of two languages, no model that is known, one without translation
  Transfer(<<"F">>, "V23", Name(<<"B", "N">>, <<>>), Full),
  Transfer(<<"B", "F">>, "V23", Topic, Object(C, <<Status(<<"left">>)>>)),
  Transfer(<<"Elsewhere">>, "V23", Topic, Object(C, <<Member("code", <<Text(<<"c">>)>>)>>)),
  Transfer(<<"O">>, "V23", Topic, Full),
  \* the names of an XTF 2.4 document, those of the root with the model of the header
  Transfer(<<"F">>, "V24", Name(<<"F", "T">>, <<"nsB", "T">>),
           [tag |-> Name(<<"F", "T", "C">>, <<"nsB", "C">>), oid |-> "o1",
            attributes |-> <<[name |-> Name(<<"code">>, <<"nsB", "code">>), values |-> <<Text(<<"c">>)>>],
                             [name |-> Name(<<>>, <<"nsB", "detail">>),
                              values |-> <<Detail(<<"F", "Tf", "Df">>, "textf")>>]>>]) }

\* An inherited enumeration, in the language of the base.
Inheriting(models) ==
  Transfer(models, "V23", Name(<<"E", "W">>, <<>>),
           Object(<<"E", "W", "G">>, <<Member("extra", <<Text(<<"e">>)>>), Status(<<"left", "lower">>)>>))

\* In the language of three models, of which the header selects one.
InOneOfThree(model) == Transfer(<<model>>, "V23", Topic, Object(C, <<Status(<<"left">>)>>))

ModelCases ==
  {[index |-> Translated!Index, content |-> c] : c \in TranslatedTransfers}
    \cup {[index |-> Thrice!Index, content |-> InOneOfThree(model)] : model \in {"F", "G", "H", "B"}}
    \cup {[index |-> Extended!Index, content |-> Inheriting(<<"E", "B">>)]}
    \cup {[index |-> Shared!Index, content |-> Inheriting(models)] : models \in {<<"E", "B">>, <<"B", "E">>}}

ASSUME ModelCasesAssumption ==
  \A case \in ModelCases : IsIndex(case.index) /\ HasContent(Kinds, case.content)

Everything == {"topic", "class", "property"}
ModelOptions ==
  {[writer |-> FALSE, rejects |-> r, ordered |-> FALSE, version |-> "V23"] : r \in {{}, Everything}}
    \cup [writer : {TRUE}, rejects : {{"topic"}, Everything}, ordered : BOOLEAN,
          version : {"V23", "V24"}]
=============================================================================
