------------------------------- MODULE MC_Json -------------------------------
(***************************************************************************)
(* Events and files for JsonTransfer.                                      *)
(***************************************************************************)
EXTENDS JsonTransfer, JsonEvents

Q(local) == [namespaceUri |-> "urn:m", localName |-> local, prefixHint |-> "m"]
Ili(name) == [interlisName |-> name, xml |-> <<>>]
Both(name) == [interlisName |-> name, xml |-> <<Q(name)>>]
XmlOnly(name) == [interlisName |-> "", xml |-> <<Q(name)>>]
At == [sourceName |-> "t.xtf", byteOffset |-> "large", line |-> "small", column |-> "small"]

X(name, children) ==
  [name |-> Q(name), attributes |-> <<[name |-> Q("a"), value |-> "v"]>>, text |-> "t",
   children |-> children]

NoReference == [targetOid |-> <<>>, targetBasketId |-> <<>>, orderPosition |-> <<>>]
Obj(name, attributes) ==
  [tag |-> Both(name), oid |-> <<>>, operation |-> "None", consistency |-> "Unspecified",
   reference |-> NoReference, location |-> At, attributes |-> attributes]
P(s) == [primitive |-> s]
A(name, values) == [name |-> name, values |-> values]

Transfer(header) == [kind |-> "StartTransfer", header |-> header]
Plain ==
  Transfer([version |-> "V23", sender |-> "", comment |-> <<>>, models |-> <<>>,
            oidSpaces |-> <<>>, extensions |-> <<>>])
Rich ==
  Transfer([version |-> "V24", sender |-> "s", comment |-> <<"c">>,
            models |-> <<[name |-> "M", version |-> <<"1">>, uri |-> <<>>, xmlNamespace |-> Q("M")],
                         [name |-> "N", version |-> <<>>, uri |-> <<"u">>, xmlNamespace |-> Q("N")]>>,
            oidSpaces |-> <<[name |-> "o", domain |-> "d"]>>,
            extensions |-> <<X("x", <<X("y", <<>>), X("z", <<>>)>>), X("w", <<>>)>>])
Basket ==
  [kind |-> "StartBasket",
   basket |-> [topic |-> Ili("M.T"), basketId |-> "b", kind |-> "Update", consistency |-> "Adapted",
               startState |-> <<"s0">>, endState |-> <<>>, domains |-> <<"d1", "d2">>, topics |-> <<>>,
               extensions |-> <<X("x", <<>>)>>, location |-> At]]
Object(o) == [kind |-> "Object", object |-> o]

\* A reference, values of one attribute in order, objects within objects.
Full ==
  Object([Obj("C", <<A(Both("a"), <<P("1"), P("2"), P("3")>>),
                     A(Ili("r"), <<[object |-> [Obj("R", <<>>) EXCEPT
                                      !.reference = [targetOid |-> <<"t">>, targetBasketId |-> <<>>,
                                                     orderPosition |-> <<"large">>]]]>>),
                     A(Ili("s"), <<[object |-> Obj("S", <<A(Ili("a"), <<P("x"), P("y")>>)>>)], P("4")>>)>>)
          EXCEPT !.oid = <<"o1">>, !.operation = "Delete", !.consistency = "Incomplete"])
Anonymous == Object(Obj("C", <<A(XmlOnly("a"), <<P("1"), P("2")>>)>>))
EndB == [kind |-> "EndBasket"]
EndT == [kind |-> "EndTransfer"]


\* As a file may hold it: without an OID, or with a second entry for an attribute.
WithoutOid == Object([Full.object EXCEPT !.oid = <<>>])
Merged ==
  Object([Full.object EXCEPT !.attributes =
            <<A(Both("a"), @[1].values \o @[2].values), @[3]>>])

\* A state holds the events and the JSON values by their number.
Data == <<Plain, Rich, Basket, Full, Anonymous, EndB, EndT, WithoutOid, Merged>>
Number(e) == CHOOSE n \in DOMAIN Data : Data[n] = e
ByNumber(e) == [kind |-> e.kind, number |-> IF e \in ToSet(Data) THEN Number(e) ELSE 0]

MCEvents == {ByNumber(e) : e \in {Plain, Rich, Basket, Full, Anonymous, EndB, EndT}}
MCFindable(e) == e.kind = "Object" => Named(Data[e.number].object)
-----------------------------------------------------------------------------
(* Lines *)

\* A value with what stands at a path replaced, or added; and without a member.
RECURSIVE Set(_, _, _)
Set(v, path, value) ==
  CASE path = <<>> -> value
    [] path # <<>> /\ v.type = "array" -> [v EXCEPT !.items[path[1]] = Set(@, Tail(path), value)]
    [] path # <<>> /\ v.type = "object" /\ path[1] \in KeysOf(v) ->
         [v EXCEPT !.members = [i \in DOMAIN @ |->
            IF @[i].key = path[1] THEN [@[i] EXCEPT !.value = Set(@, Tail(path), value)] ELSE @[i]]]
    [] path # <<>> /\ v.type = "object" /\ path[1] \notin KeysOf(v) ->
         [v EXCEPT !.members = @ \o Member(path[1], value)]
Without(v, key) == [v EXCEPT !.members = SelectSeq(@, LAMBDA m : m.key # key)]
Doubled(v) == [v EXCEPT !.members = @ \o <<@[1]>>]

Line1 == SerializeEvent(Full)
SoundLines ==
  << Set(Line1, <<"object", "oid">>, JNull),
     Set(Line1, <<"object", "attributes", 2, "name">>, MakeName(Ili("a"))) >>
FaultyLines ==
  << SerializeEvent(Basket), JString("text"),
     Set(Line1, <<"schema">>, JString("iox-event/1")), Without(Line1, "schema"),
     Set(Line1, <<"event">>, JString("comment")), Set(Line1, <<"event">>, JString("endTransfer")),
     Set(Line1, <<"more">>, JNull), Doubled(Line1), Without(Line1, "object"),
     Set(Line1, <<"object", "more">>, JNull),
     Set(Line1, <<"object", "tag">>, JNull),
     Set(Line1, <<"object", "operation">>, JString("Delete")),
     Set(Line1, <<"object", "reference">>, JString("t")),
     Set(Line1, <<"object", "location", "line">>, JUint("large")),
     Set(Line1, <<"object", "attributes", 1, "values">>, JArray(<<>>)),
     Set(Line1, <<"object", "attributes", 1, "values", 2, "kind">>, JString("object")),
     Set(Line1, <<"object", "attributes", 3, "values", 1, "value">>,
         Doubled(JObject(StringMember("a", "b")))) >>

Written == [n \in DOMAIN Data |-> SerializeEvent(Data[n])]
Values == Written \o SoundLines \o FaultyLines
Value(n) == [type |-> "value", number |-> n]
MCEventJson(e) == Value(e.number)

\* What the reader makes of each value.
Parsed == [n \in DOMAIN Values |-> ParseEvent(Values[n])]
MCLineEvent(json) ==
  IF json = Malformed THEN <<>>
  ELSE [i \in DOMAIN Parsed[json.number] |-> ByNumber(Parsed[json.number][i])]

\* A byte stands for a piece of a line; those that end a basket or a transfer are shorter.
MCSize(json) == IF json.number \in {Number(EndB), Number(EndT)} THEN 2 ELSE 3
-----------------------------------------------------------------------------
(* Files *)

LF(json) == Line(json, MCSize(json), "lf")
Of(e) == LF(Value(Number(e)))
Around(lines) == <<Of(Plain), Of(Basket)>> \o lines \o <<Of(EndB), Of(EndT)>>
File(lines, events) ==
  [text |-> lines, events |-> [i \in DOMAIN events |-> ByNumber(events[i])]]
Sound(line, e) == File(Around(<<line>>), <<Plain, Basket, e, EndB, EndT>>)
Faulty(line) == File(Around(<<line>>), <<>>)

Sound1 == Sound(Of(Full), Full)
Extra(n) == LF(Value(Len(Written) + n))

MCFiles ==
  { [Sound1 EXCEPT !.text = [i \in DOMAIN @ |-> [@[i] EXCEPT !.ending = "crlf"]]],
    [Sound1 EXCEPT !.text[5].ending = "none"],
    [Sound1 EXCEPT !.text[3].size = 5],
    Sound(Extra(1), WithoutOid), Sound(Extra(2), Merged),
    Faulty(Line(Malformed, 0, "lf")), Faulty(Line(Malformed, 2, "lf")),
    File(Around(<<>>) \o <<Of(EndT)>>, <<>>),
    File(<<Of(Plain), Of(Basket), Of(Full), Of(EndT)>>, <<>>) }
    \cup {Faulty(Extra(Len(SoundLines) + n)) : n \in DOMAIN FaultyLines}
=============================================================================
