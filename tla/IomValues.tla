------------------------------- MODULE IomValues -------------------------------
(***************************************************************************)
(* What IomObject promises a program (docs/architecture.md): each variable *)
(* has an object of its own, a tree of attributes and their values, and an *)
(* operation on one variable changes no other.                             *)
(***************************************************************************)
EXTENDS Naturals, Sequences, SequencesExt

CONSTANTS Variables, Keys, Texts, Fields, Paths

VARIABLE value   \* the tree of each variable

EmptyTree == [fields |-> 0, attributes |-> <<>>]
Text(t) == [isObject |-> FALSE, of |-> t]
Tree(o) == [isObject |-> TRUE, of |-> o]

Attributes(o, k) == {i \in DOMAIN o.attributes : o.attributes[i].key = k}
Has(o, k) == Attributes(o, k) # {}
TheOne(o, k) == CHOOSE i \in Attributes(o, k) : TRUE
Values(o, k) == IF Has(o, k) THEN o.attributes[TheOne(o, k)].values ELSE <<>>

\* o with other values for an attribute; without values there is no attribute.
With(o, k, values) ==
  CASE Has(o, k) /\ values # <<>> -> [o EXCEPT !.attributes[TheOne(o, k)].values = values]
    [] Has(o, k) /\ values = <<>> -> [o EXCEPT !.attributes = RemoveAt(@, TheOne(o, k))]
    [] ~Has(o, k) -> [o EXCEPT !.attributes = Append(@, [key |-> k, values |-> values])]

\* The value that a step without wildcard selects.
Place(step) == IF step.selector = "Index" THEN step.index ELSE 1
Selected(o, step) == Values(o, step.attribute)[Place(step)]

\* The objects that a path leads through from o, and that it leads to a text.
Way(o, path) ==
  LET way[n \in DOMAIN path] ==
        IF n = 1 THEN o ELSE Selected(way[n - 1], path[n - 1]).of
  IN  way

Leads(o, path) ==
  \A n \in DOMAIN path :
    /\ path[n].selector # "All"
    /\ Place(path[n]) \in DOMAIN Values(Way(o, path)[n], path[n].attribute)
    /\ Selected(Way(o, path)[n], path[n]).isObject = (n < Len(path))

\* o after a text was put where a path leads.
Put(o, step, x) ==
  With(o, step.attribute, [Values(o, step.attribute) EXCEPT ![Place(step)] = x])

Changed(o, path, t) ==
  LET changed[n \in DOMAIN path] ==
        Put(Way(o, path)[n], path[n], IF n = Len(path) THEN Text(t) ELSE Tree(changed[n + 1]))
  IN  changed[1]

\* What one operation may make of the values of an attribute, given these arguments.
Edits(values, arguments) ==
  {<<a>> : a \in arguments}
    \cup {InsertAt(values, i, a) : i \in 1 .. Len(values) + 1, a \in arguments}
    \cup {[values EXCEPT ![i] = a] : i \in DOMAIN values, a \in arguments}
    \cup {RemoveAt(values, i) : i \in DOMAIN values}
    \cup {<<>>}

\* One operation makes n of the object o.
Edited(o, n, arguments) ==
  \/ n \in {EmptyTree, [o EXCEPT !.attributes = <<>>]}
  \/ n \in {[o EXCEPT !.fields = f] : f \in Fields}
  \/ \E k \in Keys : Values(n, k) # Values(o, k) /\ Values(n, k) \in Edits(Values(o, k), arguments)
                      /\ n = With(o, k, Values(n, k))
  \/ \E path \in Paths, t \in Texts : Leads(o, path) /\ n = Changed(o, path, t)

Parts(o) == UNION {{x.of : x \in {x \in ToSet(Values(o, k)) : x.isObject}} : k \in Keys}

\* From old, an operation on one variable makes new: of its object, of another variable's, also
\* by a deep copy, or of a part of that.
Operation(old, new) ==
  \E v \in Variables :
    /\ \A w \in Variables \ {v} : new[w] = old[w]
    /\ \/ \E w \in Variables : new[v] \in {old[w]} \cup Parts(old[w])
       \/ Edited(old[v], new[v], {Text(t) : t \in Texts} \cup {Tree(old[w]) : w \in Variables})

Init == value = [v \in Variables |-> EmptyTree]

Next == Operation(value, value')

Spec == Init /\ [][Next]_value
=============================================================================
