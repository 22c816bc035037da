-------------------------------- MODULE IomPath --------------------------------
(***************************************************************************)
(* Paths through the attributes of an object (source/core/IomPath.cpp): a  *)
(* sequence of steps, each an attribute's key and which of its values.     *)
(***************************************************************************)
EXTENDS IomObject

CONSTANT Paths   \* the paths, as parse() makes them

Selector == {"First", "Index", "All"}
Step == [attribute : Keys, selector : Selector, index : Nat]

ASSUME PathsAssumption == \A path \in Paths : path # <<>> /\ path \in Seq(Step)

ContainsWildcard(path) == \E i \in DOMAIN path : path[i].selector = "All"

-----------------------------------------------------------------------------
(* selectedIndexes *)

\* It does not throw.
Selectable(impl, step) ==
  /\ LookupOf(impl)[step.attribute] # 0
  /\ step.selector = "Index" => step.index \in 1 .. Len(ValuesOf(impl, step.attribute))

\* The indexes, from zero.
SelectedIndexes(impl, step) ==
  CASE step.selector = "First" -> <<0>>
    [] step.selector = "Index" -> <<step.index - 1>>
    [] step.selector = "All" -> [i \in 1 .. Len(ValuesOf(impl, step.attribute)) |-> i - 1]

-----------------------------------------------------------------------------
(* primitiveMatches *)

\* The objects on the way and the indexes taken, from one object by one step.  At the last step
\* the values must be primitive, before it objects.
Visit(way, step, terminal) ==
  LET impl == heap[Last(way.cells)]
      values == ValuesOf(impl, step.attribute)
      indexes == SelectedIndexes(impl, step)
      fails == \/ ~Selectable(impl, step)
               \/ \E n \in DOMAIN indexes : values[indexes[n] + 1].isObject = terminal
  IN  [fails |-> fails,
       ways |-> IF fails THEN <<>>
                ELSE [n \in DOMAIN indexes |->
                  [cells |-> IF terminal THEN way.cells
                             ELSE Append(way.cells, values[indexes[n] + 1].of),
                   indexes |-> Append(way.indexes, indexes[n])]]]

\* All ways together, up to the first that fails, and the objects that were looked into.
VisitAll(t, step, terminal) ==
  FoldLeft(LAMBDA found, way :
             IF found.failed THEN found
             ELSE [failed |-> Visit(way, step, terminal).fails,
                   looked |-> found.looked \cup {Last(way.cells)},
                   ways |-> found.ways \o Visit(way, step, terminal).ways],
           [failed |-> t.failed, looked |-> t.looked, ways |-> <<>>],
           t.ways)

Traversal(v, path) ==
  LET after[n \in 0 .. Len(path)] ==
        IF n = 0
        THEN [failed |-> FALSE, looked |-> {},
              ways |-> <<[cells |-> <<handle[v]>>, indexes |-> <<>>]>>]
        ELSE VisitAll(after[n - 1], path[n], n = Len(path))
  IN  after[Len(path)]

\* The heap after the objects of a traversal were looked into.
LookedInto(t) == [c \in Cells |-> IF c \in t.looked THEN Looked(heap[c]) ELSE heap[c]]

\* Also a replacement that throws: of no match, or of a value other than the expected one.
PrimitiveMatches(v) ==
  \E path \in Paths : Settle(LookedInto(Traversal(v, path)), handle)

-----------------------------------------------------------------------------
(* replaceSinglePrimitive *)

\* The value a step without wildcard selects.
Selected(impl, step) ==
  ValuesOf(impl, step.attribute)[SelectedIndexes(impl, step)[1] + 1]

\* The path leads through these objects to a text.  First and Index select one value each.
Leads(path, way) ==
  \A n \in DOMAIN path :
    /\ Selectable(heap[way[n]], path[n])
    /\ IF n = Len(path) THEN ~Selected(heap[way[n]], path[n]).isObject
       ELSE Selected(heap[way[n]], path[n]) = Object(way[n + 1])

\* An object on the way with another value: of the objects below v, the parent's value and the
\* local variable hold each, so that it is always copied.
Replacement(impl, step, value) ==
  Replaced(impl, step.attribute, SelectedIndexes(impl, step)[1], value)

\* Mutant of ReplaceSinglePrimitive: the objects below v are written where they are.
ReplaceWhereItIs(v) ==
  \E path \in Paths, t \in Texts : \E way \in [DOMAIN path -> live] :
    /\ ~ContainsWildcard(path)
    /\ way[1] = handle[v]
    /\ Leads(path, way)
    /\ Settle([heap EXCEPT ![Last(way)] = Replacement(@, Last(path), Primitive(t))], handle)

ReplaceSinglePrimitive(v) ==
  \E path \in Paths, t \in Texts : \E way \in [DOMAIN path -> live] :
    LET h == [c \in Cells |-> IF c \in ToSet(way) THEN Looked(heap[c]) ELSE heap[c]]
        below == 2 .. Len(path)
        free == {c \in FreeCells : Shared(v, <<>>) => c # NewCell}
        copyOf == CHOOSE f \in Injection(below, free) : TRUE
        value(n) == IF n = Len(path) THEN Primitive(t) ELSE Object(copyOf[n + 1])
        copied == [c \in Cells |->
          IF \E n \in below : copyOf[n] = c
          THEN LET n == CHOOSE n \in below : copyOf[n] = c
               IN  Replacement(Invalidated(h[way[n]]), path[n], value(n))
          ELSE h[c]]
    IN  /\ ~ContainsWildcard(path)
        /\ way[1] = handle[v]
        /\ Leads(path, way)
        /\ Injection(below, free) # {}
        /\ Write(copied, v, <<>>, Replacement(Detached(h, v, <<>>), path[1], value(1)))

-----------------------------------------------------------------------------
Next == ObjectNext \/ \E v \in Variables : PrimitiveMatches(v) \/ ReplaceSinglePrimitive(v)

Spec == Init /\ [][Next]_vars

-----------------------------------------------------------------------------
(* What the objects stand for *)

ValueTree(value, tree) ==
  IF value.isObject THEN [isObject |-> TRUE, of |-> tree[value.of]] ELSE value
ValuesTree(values, tree) == [j \in DOMAIN values |-> ValueTree(values[j], tree)]
AttributeTree(attribute, tree) ==
  [key |-> attribute.key, values |-> ValuesTree(attribute.values, tree)]

\* An Impl with the trees of the objects it holds.
ObjectTree(impl, tree) ==
  [fields |-> impl.fields,
   attributes |-> [i \in DOMAIN impl.attributes |-> AttributeTree(impl.attributes[i], tree)]]

Trees(h) == LET tree[c \in Cells] == ObjectTree(h[c], tree) IN tree

\* Each variable has an object of its own: a write through one is not seen through another,
\* though both may have shared it, or shared what was in it, and it does to the object what the
\* operation says, wherever a lookup made before would point (IomObject::detach, Impl::find,
\* IomPath::replaceSinglePrimitive).
Values == INSTANCE IomValues WITH value <- [v \in Variables |-> Trees(heap)[handle[v]]]
ImplementsValues == Values!Spec
=============================================================================
