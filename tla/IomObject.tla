------------------------------- MODULE IomObject -------------------------------
(***************************************************************************)
(* Objects as copy-on-write handles (source/core/IomObject.cpp): a         *)
(* variable of the program, or a value in an attribute, holds an IomObject,*)
(* which is a shared_ptr to an Impl.  The Impls are the cells of a heap;   *)
(* one that nothing holds any longer is free again.                        *)
(*                                                                         *)
(* Of an attribute's name only its key is kept (nameKey).  The tag, oid,   *)
(* operation, consistency, reference and location of an object, which the  *)
(* setters treat alike, are one number.                                    *)
(***************************************************************************)
EXTENDS Naturals, Sequences, SequencesExt

CONSTANTS
  Variables,   \* the program's variables of type IomObject
  Cells,       \* where an Impl may be: a bound on the objects that exist
  Keys,        \* the keys of attribute names
  Texts,       \* primitive values
  Indexes,     \* the indexes, from zero, that the program gives
  Fields,      \* what the setters may set, 0 for the default
  MaxValues    \* with so many values and fields set none is added, with more no tree is copied

ASSUME FieldsAssumption == Fields \subseteq Nat /\ 0 \in Fields
ASSUME IndexesAssumption == Indexes \subseteq Nat

VARIABLES
  heap,     \* the Impl in each cell
  live,     \* the cells in use
  handle    \* the cell each variable points to

vars == <<heap, live, handle>>

\* An IomValue
Primitive(t) == [isObject |-> FALSE, of |-> t]
Object(c) == [isObject |-> TRUE, of |-> c]
Value == {Primitive(t) : t \in Texts} \cup {Object(c) : c \in Cells}

NoLookup == [k \in Keys |-> 0]
Attribute == [key : Keys, values : Seq(Value) \ {<<>>}]
Impl == [fields : Fields, attributes : Seq(Attribute),
         lookup : [Keys -> Nat], lookupValid : BOOLEAN]
EmptyImpl ==
  [fields |-> 0, attributes |-> <<>>, lookup |-> NoLookup, lookupValid |-> FALSE]

-----------------------------------------------------------------------------
(* Impl *)

Places(impl, k) == {i \in DOMAIN impl.attributes : impl.attributes[i].key = k}

\* The first attribute with a key, 0 for none: emplace keeps what is there.
IndexOf(impl, k) ==
  IF Places(impl, k) = {} THEN 0
  ELSE CHOOSE i \in Places(impl, k) : \A j \in Places(impl, k) : i <= j

\* What a valid lookup says, true or not, is believed.
LookupOf(impl) ==
  IF impl.lookupValid THEN impl.lookup ELSE [k \in Keys |-> IndexOf(impl, k)]

\* buildLookup, and so what find() leaves behind
Looked(impl) == [impl EXCEPT !.lookup = LookupOf(impl), !.lookupValid = TRUE]

\* invalidateLookup
Invalidated(impl) == [impl EXCEPT !.lookup = NoLookup, !.lookupValid = FALSE]

ValuesAt(impl, i) == IF i = 0 THEN <<>> ELSE impl.attributes[i].values
ValuesOf(impl, k) == ValuesAt(impl, LookupOf(impl)[k])

WithValues(impl, i, values) == [impl EXCEPT !.attributes[i].values = values]
WithAttribute(impl, k, v) ==
  [impl EXCEPT !.attributes = Append(@, [key |-> k, values |-> <<v>>])]
WithoutAttribute(impl, i) == [impl EXCEPT !.attributes = RemoveAt(@, i)]

\* setPrimitive, setObject after detach()
Assigned(impl, k, v) ==
  LET i == LookupOf(impl)[k]
  IN  Invalidated(IF i = 0 THEN WithAttribute(impl, k, v) ELSE WithValues(impl, i, <<v>>))

\* insertValue, replaceValue, eraseValue and eraseAttribute after detach(), with an index from
\* zero.  Where they throw, or find nothing to erase, they have looked.
Inserted(impl, k, at, v) ==
  LET i == LookupOf(impl)[k]
  IN  CASE i = 0 /\ at = 0 -> Invalidated(WithAttribute(impl, k, v))
        [] i # 0 /\ at <= Len(ValuesAt(impl, i)) ->
             WithValues(Looked(impl), i, InsertAt(ValuesAt(impl, i), at + 1, v))
        [] OTHER -> Looked(impl)

Replaced(impl, k, at, v) ==
  LET i == LookupOf(impl)[k]
  IN  IF at < Len(ValuesOf(impl, k))
      THEN WithValues(Looked(impl), i, [ValuesAt(impl, i) EXCEPT ![at + 1] = v])
      ELSE Looked(impl)

\* Mutant of ErasedValue: the lookup outlives the attribute.
ErasedValueOnly(impl, k, at) ==
  LET i == LookupOf(impl)[k]
      rest == RemoveAt(ValuesOf(impl, k), at + 1)
  IN  CASE at >= Len(ValuesOf(impl, k)) -> Looked(impl)
        [] at < Len(ValuesOf(impl, k)) /\ rest # <<>> -> WithValues(Looked(impl), i, rest)
        [] at < Len(ValuesOf(impl, k)) /\ rest = <<>> -> WithoutAttribute(Looked(impl), i)

ErasedValue(impl, k, at) ==
  LET i == LookupOf(impl)[k]
      rest == RemoveAt(ValuesOf(impl, k), at + 1)
  IN  CASE at >= Len(ValuesOf(impl, k)) -> Looked(impl)
        [] at < Len(ValuesOf(impl, k)) /\ rest # <<>> -> WithValues(Looked(impl), i, rest)
        [] at < Len(ValuesOf(impl, k)) /\ rest = <<>> -> Invalidated(WithoutAttribute(impl, i))

ErasedAttribute(impl, k) ==
  LET i == LookupOf(impl)[k]
  IN  IF i = 0 THEN Looked(impl) ELSE Invalidated(WithoutAttribute(impl, i))

-----------------------------------------------------------------------------
(* The heap *)

\* The cells that an Impl's values hold.
Held(values) == {v.of : v \in {v \in ToSet(values) : v.isObject}}
Targets(impl) ==
  UNION {Held(impl.attributes[i].values) : i \in DOMAIN impl.attributes}

\* What the variables hold.
Roots(hs) == {hs[v] : v \in Variables}

\* The step ends with h and hs: an Impl is kept exactly as long as it has an owner, a variable
\* or a value of one that is kept.
Settle(h, hs) ==
  \E kept \in {Roots(hs) \cup more : more \in SUBSET (Cells \ Roots(hs))} :
    /\ kept = Roots(hs) \cup UNION {Targets(h[c]) : c \in kept}
    /\ heap' = [c \in Cells |-> IF c \in kept THEN h[c] ELSE EmptyImpl]
    /\ live' = kept
    /\ handle' = hs

FreeCells == Cells \ live

\* make_shared
NewCell == CHOOSE c \in FreeCells : TRUE

\* impl_.use_count() # 1: another variable has the object of v, a value has it, or the call
\* itself, in a parameter.
Shared(v, parameters) ==
  \/ \E w \in Variables \ {v} : handle[w] = handle[v]
  \/ \E c \in live : handle[v] \in Targets(heap[c])
  \/ handle[v] \in Held(parameters)

\* The Impl a write through v changes: after detach(), in the heap h.
Detached(h, v, parameters) ==
  IF Shared(v, parameters) THEN Invalidated(h[handle[v]]) ELSE h[handle[v]]

\* The values and set fields there are, and whether the bound allows another.
Size ==
  FoldSet(LAMBDA c, n : FoldSeq(LAMBDA attribute, m : m + Len(attribute.values),
                                n + heap[c].fields, heap[c].attributes), 0, live)
Room == Size < MaxValues

\* Mutant of Write: the object is written where it is.
WriteInPlace(h, v, parameters, impl) ==
  Settle([h EXCEPT ![handle[v]] = impl], handle)

\* detach(), and the Impl of v becomes impl.
Write(h, v, parameters, impl) ==
  LET cell == IF Shared(v, parameters) THEN NewCell ELSE handle[v]
  IN  /\ Shared(v, parameters) => FreeCells # {}
      /\ Settle([h EXCEPT ![cell] = impl], [handle EXCEPT ![v] = cell])
-----------------------------------------------------------------------------
(* The operations *)

\* A value a program can make: of a text, or of one of its objects.
Arguments == {Primitive(t) : t \in Texts} \cup {Object(handle[v]) : v \in Variables}

\* IomObject()
Create(v) ==
  /\ FreeCells # {}
  /\ Settle([heap EXCEPT ![NewCell] = EmptyImpl], [handle EXCEPT ![v] = NewCell])

\* Construction and assignment from another IomObject
Copy(v, w) == Settle(heap, [handle EXCEPT ![w] = handle[v]])

\* setTag, setOid, setOperation, setConsistency, setReference, setSourceLocation
SetField(v) ==
  Room /\ \E f \in Fields : Write(heap, v, <<>>, [Detached(heap, v, <<>>) EXCEPT !.fields = f])

\* setPrimitive, setObject
SetValue(v) ==
  Room /\ \E k \in Keys, a \in Arguments :
    Write(heap, v, <<a>>, Assigned(Detached(heap, v, <<a>>), k, a))

\* The heap after attribute k of v was looked for.
Looking(v) == [heap EXCEPT ![handle[v]] = Looked(@)]

\* appendPrimitive, appendObject, whose valueCount() comes before the detach()
AppendValue(v) ==
  Room /\ \E k \in Keys, a \in Arguments :
    Write(Looking(v), v, <<a>>,
          Inserted(Detached(Looking(v), v, <<a>>), k, Len(ValuesOf(heap[handle[v]], k)), a))

InsertValue(v) ==
  Room /\ \E k \in Keys, at \in Indexes, a \in Arguments :
    Write(heap, v, <<a>>, Inserted(Detached(heap, v, <<a>>), k, at, a))

ReplaceValue(v) ==
  Room /\ \E k \in Keys, at \in Indexes, a \in Arguments :
    Write(heap, v, <<a>>, Replaced(Detached(heap, v, <<a>>), k, at, a))

EraseValue(v) ==
  \E k \in Keys, at \in Indexes :
    Write(heap, v, <<>>, ErasedValue(Detached(heap, v, <<>>), k, at))

EraseAttribute(v) ==
  \E k \in Keys : Write(heap, v, <<>>, ErasedAttribute(Detached(heap, v, <<>>), k))

ClearAttributes(v) ==
  Write(heap, v, <<>>, Invalidated([Detached(heap, v, <<>>) EXCEPT !.attributes = <<>>]))

\* hasAttribute, valueCount, value, primitive; and object, whose result goes to w.
Read(v) == Settle(Looking(v), handle)

TakeObject(v, w) ==
  \E k \in Keys : \E value \in ToSet(ValuesOf(heap[handle[v]], k)) :
    value.isObject /\ Settle(Looking(v), [handle EXCEPT ![w] = value.of])

-----------------------------------------------------------------------------
(* deepCopy *)

\* The places, by attribute and value, of the objects an Impl holds.
ObjectPlaces(impl) ==
  UNION {{<<i, j>> : j \in {j \in DOMAIN impl.attributes[i].values :
                              impl.attributes[i].values[j].isObject}} :
         i \in DOMAIN impl.attributes}

\* The copy of an Impl with the objects of to.  It is built with appendPrimitive and
\* appendObject, which leave the lookup valid if the last value was not its attribute's first.
CopyOf(impl, to) ==
  LET built == [impl EXCEPT !.attributes =
        [i \in DOMAIN impl.attributes |-> [impl.attributes[i] EXCEPT !.values =
          [j \in DOMAIN impl.attributes[i].values |->
             IF impl.attributes[i].values[j].isObject
             THEN Object(to[<<i, j>>]) ELSE impl.attributes[i].values[j]]]]]
  IN  IF impl.attributes # <<>> /\ Len(Last(impl.attributes).values) > 1
      THEN Looked(Invalidated(built)) ELSE Invalidated(built)

\* w := v.deepCopy().  Each cell made is the copy of one object, and each but the first is
\* held at one place, where the original holds its original.  The test for a cycle never fails:
\* Acyclic.
DeepCopy(v, w) ==
  /\ Size <= MaxValues
  /\ FreeCells # {}
  /\ \E made \in SUBSET FreeCells : \E from \in [made -> live] :
       LET places == UNION {{<<c, p>> : p \in ObjectPlaces(heap[from[c]])} : c \in made}
       IN  \E to \in Bijection(places, made \ {NewCell}) :
             /\ NewCell \in made
             /\ from[NewCell] = handle[v]
             /\ \A q \in places :
                  from[to[q]] = heap[from[q[1]]].attributes[q[2][1]].values[q[2][2]].of
             /\ Settle([c \in Cells |->
                          IF c \in made
                          THEN CopyOf(heap[from[c]],
                                      [p \in ObjectPlaces(heap[from[c]]) |-> to[<<c, p>>]])
                          ELSE heap[c]],
                       [handle EXCEPT ![w] = NewCell])
-----------------------------------------------------------------------------
Init ==
  /\ handle \in {f \in [Variables -> Cells] : IsInjective(f)}
  /\ live = {handle[v] : v \in Variables}
  /\ heap = [c \in Cells |-> EmptyImpl]

\* Every variable has its type, no attribute is without values, and what is held is in use.
TypeOK ==
  /\ heap \in [Cells -> Impl]
  /\ live \subseteq Cells
  /\ handle \in [Variables -> live]
  /\ \A c \in live : Targets(heap[c]) \subseteq live
  /\ \A c \in FreeCells : heap[c] = EmptyImpl

\* A valid lookup finds what a search through the attributes finds, and no key twice
\* (Impl::find, detach, and every change of the attributes).
LookupsAgree ==
  \A c \in live :
    /\ heap[c].lookupValid => heap[c].lookup = [k \in Keys |-> IndexOf(heap[c], k)]
    /\ \A k \in Keys : \A i, j \in Places(heap[c], k) : i = j

\* No object is its own value, or a value's value, and so on: among any objects there is one
\* that holds none of them (detach, IomValue::object; the cycle that deepCopy looks for).
Acyclic ==
  \A S \in SUBSET live : S # {} => \E c \in S : Targets(heap[c]) \cap S = {}

\* An object that a step changes belonged to one variable, and nothing else: what is shared is
\* copied before it is written, and the copy is what changes (IomObject::detach).
OnlyOwner(c) ==
  /\ \E v \in Variables : handle[v] = c /\ \A w \in Variables \ {v} : handle[w] # c
  /\ \A d \in live : c \notin Targets(heap[d])
Says(impl) == <<impl.fields, impl.attributes>>
SharedStaysStep == \A c \in live \cap live' : Says(heap'[c]) # Says(heap[c]) => OnlyOwner(c)
SharedStays == [][SharedStaysStep]_vars

ObjectNext ==
  \E v \in Variables :
    \/ Create(v) \/ SetField(v) \/ SetValue(v) \/ AppendValue(v) \/ InsertValue(v)
    \/ ReplaceValue(v) \/ EraseValue(v) \/ EraseAttribute(v) \/ ClearAttributes(v) \/ Read(v)
    \/ \E w \in Variables : Copy(v, w) \/ TakeObject(v, w) \/ DeepCopy(v, w)
=============================================================================
