------------------------------ MODULE JsonEvents ------------------------------
(***************************************************************************)
(* An event as a JSON value (schema iox-event/2): what JsonEventWriter.cpp *)
(* makes of an event, and what JsonEventReader.cpp makes of the value.     *)
(*                                                                         *)
(* The records of events.h have the fields of the C++ structures under     *)
(* their JSON names; an optional field is a sequence of at most one        *)
(* element.  A JSON object is the sequence of its members, so that a key   *)
(* may come twice.  Of a number the code asks whether it fits in 32 bits:  *)
(* it is "small" or "large".  The writer takes a string up to its first    *)
(* NUL (c_str()); the strings here have none.                              *)
(*                                                                         *)
(* The attributes of an IomObject (source/core/IomObject.cpp) are a        *)
(* sequence of [name, values], found by a key.  A name has an INTERLIS     *)
(* name, empty if there is none, and at most one XML name:                 *)
(*                                                                         *)
(*   Name  [interlisName : STRING, xml : at most one QName]                *)
(*   QName [namespaceUri, localName, prefixHint : STRING]                  *)
(***************************************************************************)
EXTENDS Naturals, Sequences, SequencesExt

\* The expanded XML name stands in for a missing INTERLIS name.
NameKey(name) ==
  CASE name.interlisName # "" -> <<"", name.interlisName>>
    [] name.interlisName = "" /\ name.xml # <<>> ->
         <<name.xml[1].namespaceUri, name.xml[1].localName>>
    [] name.interlisName = "" /\ name.xml = <<>> -> <<"", "">>

\* The attributes with a key: never more than one.
Find(attributes, key) == {i \in DOMAIN attributes : NameKey(attributes[i].name) = key}

\* value() and valueCount(), which take an INTERLIS name for the key.
ValuesOf(attributes, interlisName) ==
  FlattenSeq([i \in DOMAIN attributes |->
    IF i \in Find(attributes, <<"", interlisName>>) THEN attributes[i].values ELSE <<>>])

\* insertValue, with an index from zero; it throws when there is no such place.
Insert(attributes, name, index, value) ==
  LET found == Find(attributes, NameKey(name))
      places == IF found = {} THEN 0 ELSE Len(attributes[CHOOSE i \in found : TRUE].values)
  IN  [throws |-> index > places,
       attributes |->
         CASE index > places -> attributes
           [] index <= places /\ found = {} ->
                Append(attributes, [name |-> name, values |-> <<value>>])
           [] index <= places /\ found # {} ->
                [i \in DOMAIN attributes |->
                   IF i \in found
                   THEN [attributes[i] EXCEPT !.values = InsertAt(@, index + 1, value)]
                   ELSE attributes[i]]]
-----------------------------------------------------------------------------
JString(s) == [type |-> "string", text |-> s]
JUint(n) == [type |-> "uint", number |-> n]
JNull == [type |-> "null"]
JArray(items) == [type |-> "array", items |-> items]
JObject(members) == [type |-> "object", members |-> members]
Absent == [type |-> "absent"]
-----------------------------------------------------------------------------
(* Writing *)

Member(key, value) == <<[key |-> key, value |-> value]>>
StringMember(key, s) == Member(key, JString(s))
OptionalString(key, s) == IF s = <<>> THEN <<>> ELSE StringMember(key, s[1])
Strings(r, keys) == FlattenSeq([i \in DOMAIN keys |-> StringMember(keys[i], r[keys[i]])])
Made(s, Make(_)) == JArray([i \in DOMAIN s |-> Make(s[i])])

QNameKeys == <<"namespaceUri", "localName", "prefixHint">>
MakeQName(qname) == JObject(Strings(qname, QNameKeys))

MakeName(name) ==
  JObject(StringMember("interlisName", name.interlisName)
            \o Member("xml", IF name.xml = <<>> THEN JNull ELSE MakeQName(name.xml[1])))

MakeLocation(location) ==
  JObject(StringMember("sourceName", location.sourceName)
            \o Member("byteOffset", JUint(location.byteOffset))
            \o Member("line", JUint(location.line)) \o Member("column", JUint(location.column)))

OperationName == [Insert |-> "insert", Update |-> "update", Delete |-> "delete", None |-> "none"]
ConsistencyName == [Complete |-> "complete", Incomplete |-> "incomplete", Adapted |-> "adapted",
                    Inconsistent |-> "inconsistent", Unspecified |-> "unspecified"]
BasketKindName == [Full |-> "full", Update |-> "update", Initial |-> "initial",
                   Unspecified |-> "unspecified"]
VersionName == [V23 |-> "2.3", V24 |-> "2.4"]

RECURSIVE MakeExtension(_)
MakeExtension(x) ==
  JObject(Member("name", MakeQName(x.name))
            \o Member("attributes", Made(x.attributes, LAMBDA a :
                 JObject(Member("name", MakeQName(a.name)) \o StringMember("value", a.value))))
            \o StringMember("text", x.text)
            \o Member("children", JArray([i \in DOMAIN x.children |-> MakeExtension(x.children[i])])))

MakeExtensions(s) == Member("extensions", Made(s, LAMBDA x : MakeExtension(x)))

\* isReference: one of the parts is given.
MakeReference(reference) ==
  IF \A part \in DOMAIN reference : reference[part] = <<>> THEN JNull
  ELSE JObject(OptionalString("targetOid", reference.targetOid)
                 \o OptionalString("targetBasketId", reference.targetBasketId)
                 \o IF reference.orderPosition = <<>> THEN <<>>
                    ELSE Member("orderPosition", JUint(reference.orderPosition[1])))

\* The values of an attribute are looked up by its INTERLIS name.
RECURSIVE MakeObject(_)
MakeValue(v) ==
  IF "primitive" \in DOMAIN v
  THEN JObject(StringMember("kind", "primitive") \o StringMember("value", v.primitive))
  ELSE JObject(StringMember("kind", "object") \o Member("value", MakeObject(v.object)))

MakeAttributes(attributes) ==
  Made(attributes, LAMBDA a :
    JObject(Member("name", MakeName(a.name))
              \o Member("values", Made(ValuesOf(attributes, a.name.interlisName), LAMBDA v : MakeValue(v)))))

\* Objects whose values the writer finds: no attribute, at any depth, without INTERLIS name.
RECURSIVE Named(_)
Named(o) ==
  \A i \in DOMAIN o.attributes :
    /\ o.attributes[i].name.interlisName # ""
    /\ \A j \in DOMAIN o.attributes[i].values :
         "object" \in DOMAIN o.attributes[i].values[j] => Named(o.attributes[i].values[j].object)

MakeObject(o) ==
  JObject(Member("tag", MakeName(o.tag)) \o OptionalString("oid", o.oid)
            \o StringMember("operation", OperationName[o.operation])
            \o StringMember("consistency", ConsistencyName[o.consistency])
            \o Member("reference", MakeReference(o.reference))
            \o Member("location", MakeLocation(o.location))
            \o Member("attributes", MakeAttributes(o.attributes)))

MakeModel(model) ==
  JObject(StringMember("name", model.name) \o OptionalString("version", model.version)
            \o OptionalString("uri", model.uri)
            \o Member("xmlNamespace", MakeQName(model.xmlNamespace)))

MakeHeader(header) ==
  JObject(StringMember("version", VersionName[header.version])
            \o StringMember("sender", header.sender) \o OptionalString("comment", header.comment)
            \o Member("models", Made(header.models, MakeModel))
            \o Member("oidSpaces", Made(header.oidSpaces, LAMBDA s :
                        JObject(StringMember("name", s.name) \o StringMember("domain", s.domain))))
            \o MakeExtensions(header.extensions))

MakeBasket(basket) ==
  JObject(Member("topic", MakeName(basket.topic)) \o StringMember("basketId", basket.basketId)
            \o StringMember("kind", BasketKindName[basket.kind])
            \o StringMember("consistency", ConsistencyName[basket.consistency])
            \o OptionalString("startState", basket.startState)
            \o OptionalString("endState", basket.endState)
            \o Member("domains", Made(basket.domains, JString))
            \o Member("topics", Made(basket.topics, JString))
            \o MakeExtensions(basket.extensions)
            \o Member("location", MakeLocation(basket.location)))

EventName == [StartTransfer |-> "startTransfer", StartBasket |-> "startBasket",
              Object |-> "object", EndBasket |-> "endBasket", EndTransfer |-> "endTransfer"]

SerializeEvent(e) ==
  JObject(StringMember("schema", "iox-event/2") \o StringMember("event", EventName[e.kind])
            \o CASE e.kind = "StartTransfer" -> Member("header", MakeHeader(e.header))
                 [] e.kind = "StartBasket"   -> Member("basket", MakeBasket(e.basket))
                 [] e.kind = "Object"        -> Member("object", MakeObject(e.object))
                 [] e.kind \in {"EndBasket", "EndTransfer"} -> <<>>)
-----------------------------------------------------------------------------
(* Reading: whether a value has the form, and what it stands for *)

KeysOf(v) == {v.members[i].key : i \in DOMAIN v.members}
OnlyKeys(v, keys) == v.type = "object" /\ KeysOf(v) \subseteq keys

Field(v, key) ==
  IF v.type # "object" \/ key \notin KeysOf(v) THEN Absent
  ELSE v.members[CHOOSE i \in DOMAIN v.members : v.members[i].key = key].value

HasString(v, key) == Field(v, key).type = "string"
TextOf(v, key) == Field(v, key).text
HasOptionalString(v, key) == Field(v, key).type \in {"absent", "null", "string"}
OptionalOf(v, key) == IF HasString(v, key) THEN <<TextOf(v, key)>> ELSE <<>>
HasArray(v, key, Is(_)) ==
  Field(v, key).type = "array" /\ \A i \in DOMAIN Field(v, key).items : Is(Field(v, key).items[i])
ItemsOf(v, key, Of(_)) == LET items == Field(v, key).items IN [i \in DOMAIN items |-> Of(items[i])]

HasOneOf(v, key, names) == HasString(v, key) /\ \E x \in DOMAIN names : names[x] = TextOf(v, key)
OneOf(v, key, names) == CHOOSE x \in DOMAIN names : names[x] = TextOf(v, key)

\* rejectDuplicateKeys
RECURSIVE NoDuplicateKeys(_)
NoDuplicateKeys(v) ==
  CASE v.type = "object" ->
         /\ \A i, j \in DOMAIN v.members : v.members[i].key = v.members[j].key => i = j
         /\ \A i \in DOMAIN v.members : NoDuplicateKeys(v.members[i].value)
    [] v.type = "array" -> \A i \in DOMAIN v.items : NoDuplicateKeys(v.items[i])
    [] v.type \in {"string", "uint", "null"} -> TRUE

IsQName(v) == OnlyKeys(v, ToSet(QNameKeys)) /\ \A key \in ToSet(QNameKeys) : HasString(v, key)
QNameOf(v) == [key \in ToSet(QNameKeys) |-> TextOf(v, key)]

IsName(v) ==
  /\ OnlyKeys(v, {"interlisName", "xml"}) /\ HasString(v, "interlisName")
  /\ Field(v, "xml").type = "null" \/ IsQName(Field(v, "xml"))
NameOf(v) ==
  [interlisName |-> TextOf(v, "interlisName"),
   xml |-> IF Field(v, "xml").type = "null" THEN <<>> ELSE <<QNameOf(Field(v, "xml"))>>]

IsLocation(v) ==
  /\ OnlyKeys(v, {"sourceName", "byteOffset", "line", "column"}) /\ HasString(v, "sourceName")
  /\ Field(v, "byteOffset").type = "uint"
  /\ Field(v, "line") = JUint("small") /\ Field(v, "column") = JUint("small")
LocationOf(v) ==
  [sourceName |-> TextOf(v, "sourceName"), byteOffset |-> Field(v, "byteOffset").number,
   line |-> "small", column |-> "small"]

RECURSIVE IsExtension(_), ExtensionOf(_)
IsExtensionAttribute(v) ==
  OnlyKeys(v, {"name", "value"}) /\ IsQName(Field(v, "name")) /\ HasString(v, "value")
IsExtension(v) ==
  /\ OnlyKeys(v, {"name", "attributes", "text", "children"})
  /\ IsQName(Field(v, "name")) /\ HasString(v, "text")
  /\ HasArray(v, "attributes", IsExtensionAttribute)
  /\ HasArray(v, "children", LAMBDA c : IsExtension(c))
ExtensionOf(v) ==
  [name |-> QNameOf(Field(v, "name")), text |-> TextOf(v, "text"),
   attributes |-> ItemsOf(v, "attributes", LAMBDA a : [name |-> QNameOf(Field(a, "name")),
                                                       value |-> TextOf(a, "value")]),
   children |-> ItemsOf(v, "children", LAMBDA c : ExtensionOf(c))]
HasExtensions(v) == HasArray(v, "extensions", LAMBDA x : IsExtension(x))
ExtensionsOf(v) == ItemsOf(v, "extensions", LAMBDA x : ExtensionOf(x))

\* A reference is null, or has some of its parts.
IsReference(v) ==
  \/ v.type = "null"
  \/ /\ OnlyKeys(v, {"targetOid", "targetBasketId", "orderPosition"})
     /\ HasOptionalString(v, "targetOid") /\ HasOptionalString(v, "targetBasketId")
     /\ Field(v, "orderPosition").type \in {"absent", "uint"}
ReferenceOf(v) ==
  [targetOid |-> OptionalOf(v, "targetOid"), targetBasketId |-> OptionalOf(v, "targetBasketId"),
   orderPosition |-> IF Field(v, "orderPosition").type = "uint"
                     THEN <<Field(v, "orderPosition").number>> ELSE <<>>]

RECURSIVE IsObject(_), ObjectOf(_)
IsValue(v) ==
  /\ OnlyKeys(v, {"kind", "value"})
  /\ \/ Field(v, "kind") = JString("primitive") /\ HasString(v, "value")
     \/ Field(v, "kind") = JString("object") /\ IsObject(Field(v, "value"))
ValueOf(v) ==
  IF TextOf(v, "kind") = "primitive" THEN [primitive |-> TextOf(v, "value")]
  ELSE [object |-> ObjectOf(Field(v, "value"))]

IsAttribute(v) ==
  /\ OnlyKeys(v, {"name", "values"}) /\ IsName(Field(v, "name"))
  /\ HasArray(v, "values", IsValue) /\ Field(v, "values").items # <<>>

\* One value after another is inserted behind those its name has already.
InsertLast(acc, name, value) ==
  LET inserted == Insert(acc.attributes, name,
                         Len(ValuesOf(acc.attributes, name.interlisName)), value)
  IN  [throws |-> acc.throws \/ inserted.throws, attributes |-> inserted.attributes]

Inserted(v) ==
  FoldLeft(LAMBDA acc, a :
             FoldLeft(LAMBDA inner, item : InsertLast(inner, NameOf(Field(a, "name")), ValueOf(item)),
                      acc, Field(a, "values").items),
           [throws |-> FALSE, attributes |-> <<>>], Field(v, "attributes").items)

IsObject(v) ==
  /\ OnlyKeys(v, {"tag", "oid", "operation", "consistency", "reference", "location", "attributes"})
  /\ IsName(Field(v, "tag")) /\ HasOptionalString(v, "oid")
  /\ HasOneOf(v, "operation", OperationName) /\ HasOneOf(v, "consistency", ConsistencyName)
  /\ IsReference(Field(v, "reference")) /\ IsLocation(Field(v, "location"))
  /\ HasArray(v, "attributes", IsAttribute) /\ ~Inserted(v).throws
ObjectOf(v) ==
  [tag |-> NameOf(Field(v, "tag")), oid |-> OptionalOf(v, "oid"),
   operation |-> OneOf(v, "operation", OperationName),
   consistency |-> OneOf(v, "consistency", ConsistencyName),
   reference |-> ReferenceOf(Field(v, "reference")), location |-> LocationOf(Field(v, "location")),
   attributes |-> Inserted(v).attributes]

IsModel(v) ==
  /\ OnlyKeys(v, {"name", "version", "uri", "xmlNamespace"}) /\ HasString(v, "name")
  /\ HasOptionalString(v, "version") /\ HasOptionalString(v, "uri")
  /\ IsQName(Field(v, "xmlNamespace"))
IsOidSpace(v) == OnlyKeys(v, {"name", "domain"}) /\ HasString(v, "name") /\ HasString(v, "domain")
IsHeader(v) ==
  /\ OnlyKeys(v, {"version", "sender", "comment", "models", "oidSpaces", "extensions"})
  /\ HasOneOf(v, "version", VersionName) /\ HasString(v, "sender")
  /\ HasOptionalString(v, "comment")
  /\ HasArray(v, "models", IsModel) /\ HasArray(v, "oidSpaces", IsOidSpace) /\ HasExtensions(v)
HeaderOf(v) ==
  [version |-> OneOf(v, "version", VersionName), sender |-> TextOf(v, "sender"),
   comment |-> OptionalOf(v, "comment"),
   models |-> ItemsOf(v, "models", LAMBDA m :
                [name |-> TextOf(m, "name"), version |-> OptionalOf(m, "version"),
                 uri |-> OptionalOf(m, "uri"), xmlNamespace |-> QNameOf(Field(m, "xmlNamespace"))]),
   oidSpaces |-> ItemsOf(v, "oidSpaces", LAMBDA s :
                   [name |-> TextOf(s, "name"), domain |-> TextOf(s, "domain")]),
   extensions |-> ExtensionsOf(v)]

IsString(v) == v.type = "string"
IsBasket(v) ==
  /\ OnlyKeys(v, {"topic", "basketId", "kind", "consistency", "startState", "endState", "domains",
                  "topics", "extensions", "location"})
  /\ IsName(Field(v, "topic")) /\ HasString(v, "basketId")
  /\ HasOneOf(v, "kind", BasketKindName) /\ HasOneOf(v, "consistency", ConsistencyName)
  /\ HasOptionalString(v, "startState") /\ HasOptionalString(v, "endState")
  /\ HasArray(v, "domains", IsString) /\ HasArray(v, "topics", IsString)
  /\ HasExtensions(v) /\ IsLocation(Field(v, "location"))
BasketOf(v) ==
  [topic |-> NameOf(Field(v, "topic")), basketId |-> TextOf(v, "basketId"),
   kind |-> OneOf(v, "kind", BasketKindName),
   consistency |-> OneOf(v, "consistency", ConsistencyName),
   startState |-> OptionalOf(v, "startState"), endState |-> OptionalOf(v, "endState"),
   domains |-> ItemsOf(v, "domains", LAMBDA s : s.text),
   topics |-> ItemsOf(v, "topics", LAMBDA s : s.text),
   extensions |-> ExtensionsOf(v), location |-> LocationOf(Field(v, "location"))]

Only(v, kind, keys) == TextOf(v, "event") = EventName[kind] /\ OnlyKeys(v, {"schema", "event"} \cup keys)

\* parseEvent: the event of a line, if the line has the form of one.
ParseEvent(v) ==
  IF ~(/\ v.type = "object" /\ NoDuplicateKeys(v)
       /\ Field(v, "schema") = JString("iox-event/2") /\ HasString(v, "event"))
  THEN <<>>
  ELSE CASE Only(v, "StartTransfer", {"header"}) /\ IsHeader(Field(v, "header")) ->
              <<[kind |-> "StartTransfer", header |-> HeaderOf(Field(v, "header"))]>>
         [] Only(v, "StartBasket", {"basket"}) /\ IsBasket(Field(v, "basket")) ->
              <<[kind |-> "StartBasket", basket |-> BasketOf(Field(v, "basket"))]>>
         [] Only(v, "Object", {"object"}) /\ IsObject(Field(v, "object")) ->
              <<[kind |-> "Object", object |-> ObjectOf(Field(v, "object"))]>>
         [] Only(v, "EndBasket", {}) -> <<[kind |-> "EndBasket"]>>
         [] Only(v, "EndTransfer", {}) -> <<[kind |-> "EndTransfer"]>>
         [] OTHER -> <<>>
=============================================================================
