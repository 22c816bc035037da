------------------------------- MODULE Iom_proofs -------------------------------
(***************************************************************************)
(* Proofs about IomPath, for any variables, cells, keys and paths: the     *)
(* objects are well-formed, their lookups are right, none is a part of     *)
(* itself, and together they are what IomValues promises: a tree for each  *)
(* variable.                                                               *)
(***************************************************************************)
EXTENDS IomPath, Induction

\* What holds of every Impl: its type, and LookupsAgree.
ImplOK(impl) ==
  /\ impl \in Impl
  /\ impl.lookupValid => impl.lookup = [k \in Keys |-> IndexOf(impl, k)]
  /\ \A k \in Keys : \A i, j \in Places(impl, k) : i = j

\* next is a good Impl, and holds nothing but what impl holds and these cells.
Follows(next, impl, cells) == ImplOK(next) /\ Targets(next) \subseteq Targets(impl) \cup cells

-----------------------------------------------------------------------------
(* One Impl *)

\* What the search through the attributes finds (Impl::buildLookup).
LEMMA IndexOfFinds ==
  ASSUME NEW impl, impl \in Impl, NEW k \in Keys,
         \A i, j \in Places(impl, k) : i = j
  PROVE  /\ IndexOf(impl, k) = 0 => Places(impl, k) = {}
         /\ IndexOf(impl, k) # 0 => IndexOf(impl, k) \in Places(impl, k)
         /\ IndexOf(impl, k) \in Nat
<1>1. Places(impl, k) \subseteq DOMAIN impl.attributes
  BY DEF Places
<1>2. impl.attributes \in Seq(Attribute)
  BY DEF Impl
<1>3. Places(impl, k) \subseteq Nat \ {0}
  BY <1>1, <1>2
<1>4. CASE Places(impl, k) = {}
  BY <1>4 DEF IndexOf
<1>5. CASE Places(impl, k) # {}
  <2>1. PICK i \in Places(impl, k) : TRUE
    BY <1>5
  <2>2. \A j \in Places(impl, k) : i <= j
    BY <2>1, <1>3
  <2>3. IndexOf(impl, k) \in Places(impl, k)
    BY <1>5, <2>1, <2>2 DEF IndexOf
  <2> QED BY <2>3, <1>3, <1>5
<1> QED BY <1>4, <1>5

\* Only the places of the keys matter to the search.
LEMMA SameIndex ==
  ASSUME NEW impl, impl \in Impl, NEW next, next \in Impl, NEW k \in Keys,
         \A i, j \in Places(impl, k) : i = j,
         Places(next, k) = Places(impl, k)
  PROVE  IndexOf(next, k) = IndexOf(impl, k)
<1>1. /\ IndexOf(impl, k) = 0 => Places(impl, k) = {}
      /\ IndexOf(impl, k) # 0 => IndexOf(impl, k) \in Places(impl, k)
  BY IndexOfFinds
<1>2. /\ IndexOf(next, k) = 0 => Places(next, k) = {}
      /\ IndexOf(next, k) # 0 => IndexOf(next, k) \in Places(next, k)
  BY IndexOfFinds
<1> QED BY <1>1, <1>2

\* A lookup, built before or now, says where the only attribute with the key is (Impl::find).
LEMMA LookupFinds ==
  ASSUME NEW impl, ImplOK(impl), NEW k \in Keys
  PROVE  /\ LookupOf(impl)[k] = 0 => Places(impl, k) = {}
         /\ LookupOf(impl)[k] # 0 => /\ LookupOf(impl)[k] \in DOMAIN impl.attributes
                                     /\ impl.attributes[LookupOf(impl)[k]] \in Attribute
<1>1. LookupOf(impl)[k] = IndexOf(impl, k)
  BY DEF LookupOf, ImplOK
<1>2. impl \in Impl /\ \A i, j \in Places(impl, k) : i = j
  BY DEF ImplOK
<1>3. /\ IndexOf(impl, k) = 0 => Places(impl, k) = {}
      /\ IndexOf(impl, k) # 0 => IndexOf(impl, k) \in Places(impl, k)
  BY <1>2, IndexOfFinds
<1>4. Places(impl, k) \subseteq DOMAIN impl.attributes
  BY DEF Places
<1>5. \A i \in DOMAIN impl.attributes : impl.attributes[i] \in Attribute
  BY <1>2 DEF Impl
<1> QED BY <1>1, <1>3, <1>4, <1>5

LEMMA LookupPlace ==
  ASSUME NEW impl, ImplOK(impl), NEW k \in Keys
  PROVE  /\ LookupOf(impl)[k] = 0 => Places(impl, k) = {}
         /\ LookupOf(impl)[k] # 0 => LookupOf(impl)[k] \in Places(impl, k)
<1>1. LookupOf(impl)[k] = IndexOf(impl, k)
  BY DEF LookupOf, ImplOK
<1>2. impl \in Impl /\ \A i, j \in Places(impl, k) : i = j
  BY DEF ImplOK
<1> QED BY <1>1, <1>2, IndexOfFinds

\* Looking and forgetting keep the attributes.
LEMMA LookedFollows ==
  ASSUME NEW impl, ImplOK(impl)
  PROVE  ImplOK(Looked(impl)) /\ Looked(impl).attributes = impl.attributes
<1>1. impl \in Impl
  BY DEF ImplOK
<1>2. \A k \in Keys : IndexOf(impl, k) \in Nat
  BY <1>1, IndexOfFinds DEF ImplOK
<1>3. LookupOf(impl) = [k \in Keys |-> IndexOf(impl, k)]
  BY DEF LookupOf, ImplOK
<1>4. LookupOf(impl) \in [Keys -> Nat]
  BY <1>2, <1>3
<1>5. Looked(impl) \in Impl /\ Looked(impl).attributes = impl.attributes
  BY <1>1, <1>4 DEF Looked, Impl
<1>6. Looked(impl).lookup = LookupOf(impl)
  BY <1>1 DEF Looked, Impl
<1>7. \A k \in Keys : Places(Looked(impl), k) = Places(impl, k)
  BY <1>5 DEF Places
<1>8. \A k \in Keys : IndexOf(Looked(impl), k) = IndexOf(impl, k)
  BY <1>1, <1>5, <1>7, SameIndex DEF ImplOK
<1> QED BY <1>3, <1>5, <1>6, <1>7, <1>8 DEF ImplOK

LEMMA InvalidatedFollows ==
  ASSUME NEW impl, impl \in Impl,
         \A k \in Keys : \A i, j \in Places(impl, k) : i = j
  PROVE  /\ ImplOK(Invalidated(impl))
         /\ Invalidated(impl).attributes = impl.attributes
<1>1. NoLookup \in [Keys -> Nat]
  BY DEF NoLookup
<1>2. Invalidated(impl) \in Impl /\ Invalidated(impl).attributes = impl.attributes
  BY <1>1 DEF Invalidated, Impl
<1>3. Invalidated(impl).lookupValid = FALSE
  BY DEF Invalidated, Impl
<1>4. \A k \in Keys : Places(Invalidated(impl), k) = Places(impl, k)
  BY <1>2 DEF Places
<1> QED BY <1>2, <1>3, <1>4 DEF ImplOK

LEMMA LookedSays ==
  ASSUME NEW impl \in Impl
  PROVE  Says(Looked(impl)) = Says(impl)
BY DEF Looked, Impl, Says

LEMMA InvalidatedSays ==
  ASSUME NEW impl \in Impl
  PROVE  Says(Invalidated(impl)) = Says(impl)
BY DEF Invalidated, Impl, Says

\* What an Impl holds depends on its attributes alone.
LEMMA SameTargets ==
  ASSUME NEW impl, NEW next, next.attributes = impl.attributes
  PROVE  Targets(next) = Targets(impl)
BY DEF Targets

LEMMA TargetsAreCells ==
  ASSUME NEW impl, ImplOK(impl)
  PROVE  Targets(impl) \subseteq Cells
<1>1. ASSUME NEW i \in DOMAIN impl.attributes
      PROVE  Held(impl.attributes[i].values) \subseteq Cells
  <2>1. impl.attributes \in Seq(Attribute)
    BY DEF ImplOK, Impl
  <2>2. impl.attributes[i] \in Attribute /\ impl.attributes[i].values \in Seq(Value)
    <3>1. impl.attributes[i] \in Attribute
      BY <2>1
    <3> QED BY <3>1 DEF Attribute
  <2>3. \A x \in ToSet(impl.attributes[i].values) : x \in Value
    BY <2>2 DEF ToSet
  <2>4. \A x \in Value : x.isObject => x.of \in Cells
    BY DEF Value, Primitive, Object
  <2> QED BY <2>3, <2>4 DEF Held
<1> QED BY <1>1 DEF Targets

\* What says the same has the same values.
LEMMA SameValues ==
  ASSUME NEW impl, ImplOK(impl), NEW next, ImplOK(next), Says(next) = Says(impl), NEW k \in Keys
  PROVE  ValuesOf(next, k) = ValuesOf(impl, k)
<1>1. next.attributes = impl.attributes
  BY DEF Says
<1>2. Places(next, k) = Places(impl, k)
  BY <1>1 DEF Places
<1>3. LookupOf(next)[k] = LookupOf(impl)[k]
  <2>1. \A i, j \in Places(impl, k) : i = j
    BY DEF ImplOK
  <2>2. \A i \in Places(impl, k) : i # 0
    <3>1. impl.attributes \in Seq(Attribute)
      BY DEF ImplOK, Impl
    <3> QED BY <3>1 DEF Places
  <2>3. /\ LookupOf(impl)[k] = 0 => Places(impl, k) = {}
        /\ LookupOf(impl)[k] # 0 => LookupOf(impl)[k] \in Places(impl, k)
        /\ LookupOf(next)[k] = 0 => Places(impl, k) = {}
        /\ LookupOf(next)[k] # 0 => LookupOf(next)[k] \in Places(impl, k)
    BY <1>2, LookupPlace
  <2> QED BY <2>1, <2>2, <2>3
<1> QED BY <1>1, <1>3 DEF ValuesOf, ValuesAt

\* Other values for an attribute (insertValue, replaceValue, eraseValue).
LEMMA WithValuesFollows ==
  ASSUME NEW impl, ImplOK(impl), NEW i \in DOMAIN impl.attributes,
         NEW values \in Seq(Value) \ {<<>>}
  PROVE  /\ ImplOK(WithValues(impl, i, values))
         /\ Targets(WithValues(impl, i, values)) \subseteq Targets(impl) \cup Held(values)
<1> DEFINE next == WithValues(impl, i, values)
<1>1. impl \in Impl /\ impl.attributes \in Seq(Attribute)
  BY DEF ImplOK, Impl
<1>2. /\ next.attributes = [impl.attributes EXCEPT ![i] = [impl.attributes[i] EXCEPT !.values = values]]
      /\ next.lookup = impl.lookup /\ next.lookupValid = impl.lookupValid
      /\ next.fields = impl.fields
  BY <1>1 DEF WithValues, Impl
<1>3. impl.attributes[i] \in Attribute
  BY <1>1
<1>4. [impl.attributes[i] EXCEPT !.values = values] \in Attribute
  BY <1>3 DEF Attribute
<1>5. next.attributes \in Seq(Attribute) /\ DOMAIN next.attributes = DOMAIN impl.attributes
  BY <1>1, <1>2, <1>4
<1>6. next \in Impl
  BY <1>1, <1>2, <1>5 DEF WithValues, Impl
<1>7. \A j \in DOMAIN impl.attributes : next.attributes[j].key = impl.attributes[j].key
  BY <1>1, <1>2, <1>3 DEF Attribute
<1>8. \A k \in Keys : Places(next, k) = Places(impl, k)
  BY <1>5, <1>7 DEF Places
<1>9. \A k \in Keys : IndexOf(next, k) = IndexOf(impl, k)
  BY <1>1, <1>6, <1>8, SameIndex DEF ImplOK
<1>10. ImplOK(next)
  BY <1>2, <1>6, <1>8, <1>9 DEF ImplOK
<1>11. \A j \in DOMAIN next.attributes :
          Held(next.attributes[j].values) \subseteq Targets(impl) \cup Held(values)
  <2> TAKE j \in DOMAIN next.attributes
  <2>1. CASE j = i
    <3>1. next.attributes[j].values = values
      BY <1>1, <1>2, <1>3, <2>1 DEF Attribute
    <3> QED BY <3>1
  <2>2. CASE j # i
    <3>1. next.attributes[j] = impl.attributes[j]
      BY <1>1, <1>2, <2>2
    <3> QED BY <1>5, <3>1 DEF Targets
  <2> QED BY <2>1, <2>2
<1>12. Targets(next) \subseteq Targets(impl) \cup Held(values)
  BY <1>11 DEF Targets
<1> QED BY <1>10, <1>12

\* A new attribute, of which there was none (setPrimitive, setObject, insertValue).
LEMMA WithAttributeFollows ==
  ASSUME NEW impl, ImplOK(impl), NEW k \in Keys, Places(impl, k) = {}, NEW v \in Value
  PROVE  Follows(Invalidated(WithAttribute(impl, k, v)), impl, Held(<<v>>))
<1> DEFINE next == WithAttribute(impl, k, v)
           new == [key |-> k, values |-> <<v>>]
<1>1. impl \in Impl /\ impl.attributes \in Seq(Attribute)
  BY DEF ImplOK, Impl
<1>2. next.attributes = Append(impl.attributes, new)
  BY <1>1 DEF WithAttribute, Impl
<1>3. new \in Attribute
  BY DEF Attribute
<1>4. next.attributes \in Seq(Attribute)
  BY <1>1, <1>2, <1>3
<1>5. next \in Impl
  BY <1>1, <1>4 DEF WithAttribute, Impl
<1>6. /\ DOMAIN next.attributes = DOMAIN impl.attributes \cup {Len(impl.attributes) + 1}
      /\ next.attributes[Len(impl.attributes) + 1] = new
      /\ \A j \in DOMAIN impl.attributes : next.attributes[j] = impl.attributes[j]
  BY <1>1, <1>2
<1>7. \A l \in Keys : \A i, j \in Places(next, l) : i = j
  <2> TAKE l \in Keys
  <2>1. CASE l = k
    BY <1>6, <2>1 DEF Places
  <2>2. CASE l # k
    <3>1. Places(next, l) \subseteq Places(impl, l)
      BY <1>6, <2>2 DEF Places
    <3> QED BY <3>1 DEF ImplOK
  <2> QED BY <2>1, <2>2
<1>8. ImplOK(Invalidated(next)) /\ Invalidated(next).attributes = next.attributes
  BY <1>5, <1>7, InvalidatedFollows
<1>9. Targets(Invalidated(next)) = Targets(next)
  BY <1>8, SameTargets
<1>10. Targets(next) \subseteq Targets(impl) \cup Held(<<v>>)
  BY <1>6 DEF Targets
<1> QED BY <1>8, <1>9, <1>10 DEF Follows

-----------------------------------------------------------------------------
(* Sequences with an element more or less *)

LEMMA RemoveAtIs ==
  ASSUME NEW S, NEW s \in Seq(S), NEW i \in DOMAIN s
  PROVE  /\ RemoveAt(s, i) \in Seq(S)
         /\ Len(RemoveAt(s, i)) = Len(s) - 1
         /\ \A j \in 1 .. Len(s) - 1 : RemoveAt(s, i)[j] = s[IF j < i THEN j ELSE j + 1]
<1> DEFINE before == SubSeq(s, 1, i - 1)
           after == SubSeq(s, i + 1, Len(s))
<1>1. /\ before \in Seq(S) /\ Len(before) = i - 1
      /\ \A j \in 1 .. i - 1 : before[j] = s[j]
  OBVIOUS
<1>2. /\ after \in Seq(S) /\ Len(after) = Len(s) - i
      /\ \A j \in 1 .. Len(s) - i : after[j] = s[i + j]
  OBVIOUS
<1>3. RemoveAt(s, i) = before \o after
  BY DEF RemoveAt
<1> HIDE DEF before, after
<1>4. RemoveAt(s, i) \in Seq(S) /\ Len(RemoveAt(s, i)) = Len(s) - 1
  BY <1>1, <1>2, <1>3
<1>5. \A j \in 1 .. Len(s) - 1 :
         RemoveAt(s, i)[j] = IF j < i THEN before[j] ELSE after[j - (i - 1)]
  <2>1. before \in Seq(S) /\ after \in Seq(S)
    BY <1>1, <1>2
  <2>2. \A j \in 1 .. Len(before) + Len(after) :
           (before \o after)[j] = IF j <= Len(before) THEN before[j] ELSE after[j - Len(before)]
    BY <2>1
  <2>3. \A j \in 1 .. Len(s) - 1 : j <= Len(before) <=> j < i
    BY <1>1
  <2>4. i \in Nat /\ Len(s) \in Nat /\ Len(before) + Len(after) = Len(s) - 1
    BY <1>1, <1>2
  <2>5. ASSUME NEW j \in 1 .. Len(s) - 1
        PROVE  RemoveAt(s, i)[j] = IF j < i THEN before[j] ELSE after[j - (i - 1)]
    <3>1. j \in 1 .. Len(before) + Len(after)
      BY <2>4
    <3>2. (before \o after)[j] = IF j <= Len(before) THEN before[j] ELSE after[j - Len(before)]
      BY <2>2, <3>1
    <3>3. Len(before) = i - 1
      BY <1>1
    <3> QED BY <1>3, <2>3, <3>2, <3>3
  <2> QED BY <2>5
<1>6. \A j \in 1 .. Len(s) - 1 : ~(j < i) => RemoveAt(s, i)[j] = s[j + 1]
  <2> TAKE j \in 1 .. Len(s) - 1
  <2> HAVE ~(j < i)
  <2>1. j - (i - 1) \in 1 .. Len(s) - i /\ i + (j - (i - 1)) = j + 1
    OBVIOUS
  <2> QED BY <2>1, <1>2, <1>5
<1>7. \A j \in 1 .. Len(s) - 1 : j < i => RemoveAt(s, i)[j] = s[j]
  BY <1>1, <1>5
<1> QED BY <1>4, <1>6, <1>7

LEMMA ReplaceIs ==
  ASSUME NEW S, NEW s \in Seq(S), NEW i \in DOMAIN s, NEW e \in S
  PROVE  [s EXCEPT ![i] = e] \in Seq(S) /\ Len([s EXCEPT ![i] = e]) = Len(s)
OBVIOUS

\* This sequence is s with e at place i.
HasInserted(inserted, s, i, e) ==
  /\ Len(inserted) = Len(s) + 1
  /\ \A j \in 1 .. Len(s) + 1 :
       inserted[j] = IF j < i THEN s[j] ELSE IF j = i THEN e ELSE s[j - 1]

LEMMA InsertAtElements ==
  ASSUME NEW S, NEW s \in Seq(S), NEW i \in 1 .. Len(s) + 1, NEW e \in S
  PROVE  InsertAt(s, i, e) \in Seq(S) /\ HasInserted(InsertAt(s, i, e), s, i, e)
<1> DEFINE before == SubSeq(s, 1, i - 1)
           after == SubSeq(s, i, Len(s))
<1>1. /\ before \in Seq(S) /\ Len(before) = i - 1
      /\ \A j \in 1 .. i - 1 : before[j] = s[j]
  OBVIOUS
<1>2. /\ after \in Seq(S) /\ Len(after) = Len(s) - i + 1
      /\ \A j \in 1 .. Len(s) - i + 1 : after[j] = s[i - 1 + j]
  OBVIOUS
<1>3. InsertAt(s, i, e) = before \o <<e>> \o after
  BY DEF InsertAt
<1> HIDE DEF before, after
<1>4. before \o <<e>> \in Seq(S) /\ Len(before \o <<e>>) = i
  BY <1>1
<1>5. InsertAt(s, i, e) \in Seq(S) /\ Len(InsertAt(s, i, e)) = Len(s) + 1
  <2>1. after \in Seq(S) /\ Len(after) = Len(s) - i + 1
    BY <1>2
  <2> QED BY <1>3, <1>4, <2>1
<1>6. \A j \in 1 .. Len(s) + 1 :
        InsertAt(s, i, e)[j] = IF j <= i THEN (before \o <<e>>)[j] ELSE after[j - i]
  <2> DEFINE first == before \o <<e>>
  <2>1. first \in Seq(S) /\ Len(first) = i /\ after \in Seq(S) /\ InsertAt(s, i, e) = first \o after
    BY <1>2, <1>3, <1>4
  <2> HIDE DEF first
  <2>2. \A j \in 1 .. Len(first) + Len(after) :
          (first \o after)[j] = IF j <= Len(first) THEN first[j] ELSE after[j - Len(first)]
    BY <2>1
  <2>3. Len(first) + Len(after) = Len(s) + 1
    BY <1>2, <2>1
  <2> QED BY <2>1, <2>2, <2>3 DEF first
<1>7. \A j \in 1 .. i : (before \o <<e>>)[j] = IF j < i THEN before[j] ELSE e
  BY <1>1
<1>8. ASSUME NEW j \in 1 .. Len(s) + 1
      PROVE  InsertAt(s, i, e)[j] = IF j < i THEN s[j] ELSE IF j = i THEN e ELSE s[j - 1]
  <2>1. CASE j <= i
    <3>1. j \in 1 .. i
      BY <2>1
    <3>2. InsertAt(s, i, e)[j] = IF j < i THEN before[j] ELSE e
      BY <3>1, <2>1, <1>6, <1>7
    <3>3. j < i => before[j] = s[j]
      BY <3>1, <1>1
    <3> QED BY <3>1, <3>2, <3>3
  <2>2. CASE j > i
    <3>1. j - i \in 1 .. Len(s) - i + 1 /\ i - 1 + (j - i) = j - 1
      BY <2>2
    <3>2. after[j - i] = s[j - 1]
      BY <1>2, <3>1
    <3> QED BY <2>2, <3>2, <1>6
  <2> QED BY <2>1, <2>2
<1> QED BY <1>5, <1>8 DEF HasInserted

LEMMA InsertAtIs ==
  ASSUME NEW S, NEW s \in Seq(S), NEW i \in 1 .. Len(s) + 1, NEW e \in S
  PROVE  /\ InsertAt(s, i, e) \in Seq(S) \ {<<>>}
         /\ \A j \in DOMAIN InsertAt(s, i, e) :
              InsertAt(s, i, e)[j] = e \/ \E m \in DOMAIN s : InsertAt(s, i, e)[j] = s[m]
<1>1. /\ InsertAt(s, i, e) \in Seq(S)
      /\ Len(InsertAt(s, i, e)) = Len(s) + 1
      /\ \A j \in 1 .. Len(s) + 1 :
           InsertAt(s, i, e)[j] = IF j < i THEN s[j] ELSE IF j = i THEN e ELSE s[j - 1]
  <2>1. InsertAt(s, i, e) \in Seq(S) /\ HasInserted(InsertAt(s, i, e), s, i, e)
    BY InsertAtElements, Zenon
  <2> QED BY <2>1 DEF HasInserted
<1>2. DOMAIN InsertAt(s, i, e) = 1 .. Len(s) + 1 /\ Len(s) \in Nat
  BY <1>1
<1>3. InsertAt(s, i, e) # <<>>
  BY <1>1, <1>2
<1>4. ASSUME NEW j \in 1 .. Len(s) + 1
      PROVE  InsertAt(s, i, e)[j] = e \/ \E m \in DOMAIN s : InsertAt(s, i, e)[j] = s[m]
  <2>1. /\ j < i => j \in DOMAIN s
        /\ ~(j < i) /\ j # i => j - 1 \in DOMAIN s
    BY <1>2
  <2> QED BY <1>1, <2>1
<1> QED BY <1>1, <1>2, <1>3, <1>4

\* Two sequences of the same length with the same elements
LEMMA SameSequence ==
  ASSUME NEW S, NEW s \in Seq(S), NEW t, NEW U, t \in Seq(U), Len(t) = Len(s),
         \A j \in 1 .. Len(s) : s[j] = t[j]
  PROVE  s = t
<1>1. DOMAIN s = 1 .. Len(s) /\ DOMAIN t = 1 .. Len(s)
  OBVIOUS
<1> QED BY <1>1

-----------------------------------------------------------------------------
(* What the operations make of an Impl *)

\* An attribute less (eraseValue, eraseAttribute): those after it move down.
LEMMA WithoutAttributeFollows ==
  ASSUME NEW impl, ImplOK(impl), NEW i \in DOMAIN impl.attributes
  PROVE  Follows(Invalidated(WithoutAttribute(impl, i)), impl, {})
<1> DEFINE next == WithoutAttribute(impl, i)
           from(j) == IF j < i THEN j ELSE j + 1
<1>1. impl \in Impl /\ impl.attributes \in Seq(Attribute)
  BY DEF ImplOK, Impl
<1>2. next.attributes = RemoveAt(impl.attributes, i)
  BY <1>1 DEF WithoutAttribute, Impl
<1>3. /\ next.attributes \in Seq(Attribute)
      /\ Len(next.attributes) = Len(impl.attributes) - 1
      /\ \A j \in 1 .. Len(impl.attributes) - 1 : next.attributes[j] = impl.attributes[from(j)]
  BY <1>1, <1>2, RemoveAtIs
<1>4. next \in Impl
  BY <1>1, <1>3 DEF WithoutAttribute, Impl
<1>5. DOMAIN next.attributes = 1 .. Len(impl.attributes) - 1
  BY <1>1, <1>3
<1>6. \A j \in DOMAIN next.attributes :
         from(j) \in DOMAIN impl.attributes /\ next.attributes[j] = impl.attributes[from(j)]
  BY <1>1, <1>3, <1>5
<1>7. \A j, l \in DOMAIN next.attributes : from(j) = from(l) => j = l
  BY <1>1, <1>5
<1> HIDE DEF next, from
<1>8. \A k \in Keys : \A j, l \in Places(next, k) : j = l
  <2> TAKE k \in Keys
  <2> TAKE j, l \in Places(next, k)
  <2>1. from(j) \in Places(impl, k) /\ from(l) \in Places(impl, k)
    BY <1>6 DEF Places
  <2>2. from(j) = from(l)
    BY <2>1 DEF ImplOK
  <2> QED BY <2>2, <1>7 DEF Places
<1>9. ImplOK(Invalidated(next)) /\ Invalidated(next).attributes = next.attributes
  BY <1>4, <1>8, InvalidatedFollows
<1>10. Targets(Invalidated(next)) = Targets(next)
  BY <1>9, SameTargets
<1>11. Targets(next) \subseteq Targets(impl)
  BY <1>6 DEF Targets
<1> QED BY <1>9, <1>10, <1>11 DEF Follows, next

\* What looks like impl has the same attributes and values.
LEMMA LookedSame ==
  ASSUME NEW impl, ImplOK(impl)
  PROVE  /\ Follows(Looked(impl), impl, {})
         /\ Follows(Invalidated(impl), impl, {})
         /\ \A i : ValuesAt(Looked(impl), i) = ValuesAt(impl, i)
         /\ DOMAIN Looked(impl).attributes = DOMAIN impl.attributes
<1>1. ImplOK(Looked(impl)) /\ Looked(impl).attributes = impl.attributes
  BY LookedFollows
<1>2. ImplOK(Invalidated(impl)) /\ Invalidated(impl).attributes = impl.attributes
  BY InvalidatedFollows DEF ImplOK
<1>3. Targets(Looked(impl)) = Targets(impl) /\ Targets(Invalidated(impl)) = Targets(impl)
  BY <1>1, <1>2, SameTargets
<1> QED BY <1>1, <1>2, <1>3 DEF Follows, ValuesAt

\* The values of an attribute that is there.
LEMMA ValuesThere ==
  ASSUME NEW impl, ImplOK(impl), NEW i \in DOMAIN impl.attributes
  PROVE  /\ ValuesAt(impl, i) \in Seq(Value) \ {<<>>}
         /\ Held(ValuesAt(impl, i)) \subseteq Targets(impl)
<1>1. impl.attributes \in Seq(Attribute)
  BY DEF ImplOK, Impl
<1>2. i # 0 /\ impl.attributes[i] \in Attribute
  BY <1>1
<1>3. ValuesAt(impl, i) = impl.attributes[i].values
  BY <1>2 DEF ValuesAt
<1> QED BY <1>2, <1>3 DEF Attribute, Targets

\* Other values, of those the attribute had and v, for an attribute found by looking.
LEMMA LookedWithValues ==
  ASSUME NEW impl, ImplOK(impl), NEW i \in DOMAIN impl.attributes, NEW cells,
         NEW values \in Seq(Value) \ {<<>>}, Held(values) \subseteq Targets(impl) \cup cells
  PROVE  /\ Follows(WithValues(Looked(impl), i, values), impl, cells)
         /\ Follows(Invalidated(WithValues(impl, i, values)), impl, cells)
<1>1. /\ ImplOK(Looked(impl)) /\ Looked(impl).attributes = impl.attributes
      /\ Targets(Looked(impl)) = Targets(impl)
  BY LookedFollows, SameTargets
<1>2. /\ ImplOK(WithValues(Looked(impl), i, values))
      /\ Targets(WithValues(Looked(impl), i, values)) \subseteq Targets(impl) \cup Held(values)
  <2>1. i \in DOMAIN Looked(impl).attributes
    BY <1>1
  <2> QED BY <1>1, <2>1, WithValuesFollows
<1>3. /\ ImplOK(WithValues(impl, i, values))
      /\ Targets(WithValues(impl, i, values)) \subseteq Targets(impl) \cup Held(values)
  BY WithValuesFollows
<1>4. /\ ImplOK(Invalidated(WithValues(impl, i, values)))
      /\ Targets(Invalidated(WithValues(impl, i, values)))
           = Targets(WithValues(impl, i, values))
  BY <1>3, InvalidatedFollows, SameTargets DEF ImplOK
<1> QED BY <1>2, <1>3, <1>4 DEF Follows

LEMMA FollowsFollows ==
  ASSUME NEW a, NEW b, NEW c, NEW S, Follows(b, a, {}), Follows(c, b, S)
  PROVE  Follows(c, a, S)
BY DEF Follows

LEMMA AssignedFollows ==
  ASSUME NEW impl, ImplOK(impl), NEW k \in Keys, NEW v \in Value
  PROVE  Follows(Assigned(impl, k, v), impl, Held(<<v>>))
<1> DEFINE i == LookupOf(impl)[k]
<1>1. /\ i = 0 => Places(impl, k) = {}
      /\ i # 0 => i \in DOMAIN impl.attributes
  BY LookupFinds
<1>2. CASE i = 0
  <2>1. Assigned(impl, k, v) = Invalidated(WithAttribute(impl, k, v))
    BY <1>2 DEF Assigned
  <2> QED BY <1>1, <1>2, <2>1, WithAttributeFollows
<1>3. CASE i # 0
  <2>1. Assigned(impl, k, v) = Invalidated(WithValues(impl, i, <<v>>))
    BY <1>3 DEF Assigned
  <2>2. <<v>> \in Seq(Value) \ {<<>>}
    OBVIOUS
  <2> QED BY <1>1, <1>3, <2>1, <2>2, LookedWithValues
<1> QED BY <1>2, <1>3

LEMMA InsertedFollows ==
  ASSUME NEW impl, ImplOK(impl), NEW k \in Keys, NEW v \in Value, NEW at \in Nat
  PROVE  Follows(Inserted(impl, k, at, v), impl, Held(<<v>>))
<1> DEFINE i == LookupOf(impl)[k]
           old == ValuesAt(impl, i)
           new == InsertAt(old, at + 1, v)
<1>1. /\ i = 0 => Places(impl, k) = {}
      /\ i # 0 => i \in DOMAIN impl.attributes
  BY LookupFinds
<1>2. CASE i = 0 /\ at = 0
  <2>1. Inserted(impl, k, at, v) = Invalidated(WithAttribute(impl, k, v))
    BY <1>2 DEF Inserted
  <2> QED BY <1>1, <1>2, <2>1, WithAttributeFollows
<1>3. CASE i # 0 /\ at <= Len(old)
  <2>1. Inserted(impl, k, at, v) = WithValues(Looked(impl), i, new)
    BY <1>3 DEF Inserted
  <2>2. old \in Seq(Value) /\ Held(old) \subseteq Targets(impl)
    BY <1>1, <1>3, ValuesThere
  <2>3. at + 1 \in 1 .. Len(old) + 1
    BY <1>3, <2>2
  <2>4. /\ new \in Seq(Value) \ {<<>>}
        /\ \A j \in DOMAIN new : new[j] = v \/ \E m \in DOMAIN old : new[j] = old[m]
    <3> DEFINE p == at + 1
    <3> HIDE DEF old, i, p
    <3>1. p \in 1 .. Len(old) + 1 /\ old \in Seq(Value)
      BY <2>2, <2>3 DEF p
    <3>2. /\ InsertAt(old, p, v) \in Seq(Value) \ {<<>>}
          /\ \A j \in DOMAIN InsertAt(old, p, v) :
               InsertAt(old, p, v)[j] = v \/ \E m \in DOMAIN old : InsertAt(old, p, v)[j] = old[m]
      BY <3>1, InsertAtIs
    <3> QED BY <3>2 DEF p
  <2>5. Held(new) \subseteq Held(old) \cup Held(<<v>>)
    BY <2>4 DEF Held, ToSet
  <2> QED BY <1>1, <1>3, <2>1, <2>2, <2>4, <2>5, LookedWithValues
<1>4. CASE ~(i = 0 /\ at = 0) /\ ~(i # 0 /\ at <= Len(old))
  <2>1. Inserted(impl, k, at, v) = Looked(impl)
    BY <1>4 DEF Inserted
  <2> QED BY <2>1, LookedSame DEF Follows
<1> QED BY <1>2, <1>3, <1>4

LEMMA ReplacedFollows ==
  ASSUME NEW impl, ImplOK(impl), NEW k \in Keys, NEW v \in Value, NEW at \in Nat
  PROVE  Follows(Replaced(impl, k, at, v), impl, Held(<<v>>))
<1> DEFINE i == LookupOf(impl)[k]
           old == ValuesAt(impl, i)
           new == [old EXCEPT ![at + 1] = v]
<1>1. i # 0 => i \in DOMAIN impl.attributes
  BY LookupFinds
<1>2. CASE at < Len(old)
  <2>1. Replaced(impl, k, at, v) = WithValues(Looked(impl), i, new)
    BY <1>2 DEF Replaced, ValuesOf
  <2>2. i # 0
    BY <1>2 DEF ValuesAt
  <2>3. old \in Seq(Value) \ {<<>>} /\ Held(old) \subseteq Targets(impl)
    BY <1>1, <2>2, ValuesThere
  <2>4. new \in Seq(Value) \ {<<>>} /\ DOMAIN new = DOMAIN old
    <3> HIDE DEF old, i
    <3>1. at + 1 \in DOMAIN old
      BY <1>2, <2>3
    <3>2. new \in Seq(Value) /\ Len(new) = Len(old)
      <4> DEFINE p == at + 1
      <4> HIDE DEF p
      <4>1. [old EXCEPT ![p] = v] \in Seq(Value) /\ Len([old EXCEPT ![p] = v]) = Len(old)
        BY <2>3, <3>1, ReplaceIs DEF p
      <4> QED BY <4>1 DEF p
    <3> QED BY <2>3, <3>1, <3>2
  <2>5. Held(new) \subseteq Held(old) \cup Held(<<v>>)
    BY <2>3, <2>4 DEF Held, ToSet
  <2> QED BY <1>1, <2>1, <2>2, <2>3, <2>4, <2>5, LookedWithValues, SMTT(30)
<1>3. CASE ~(at < Len(old))
  <2>1. Replaced(impl, k, at, v) = Looked(impl)
    BY <1>3 DEF Replaced, ValuesOf
  <2> QED BY <2>1, LookedSame DEF Follows
<1> QED BY <1>2, <1>3

LEMMA ErasedFollows ==
  ASSUME NEW impl, ImplOK(impl), NEW k \in Keys, NEW at \in Nat
  PROVE  /\ Follows(ErasedValue(impl, k, at), impl, {})
         /\ Follows(ErasedAttribute(impl, k), impl, {})
<1> DEFINE i == LookupOf(impl)[k]
           old == ValuesAt(impl, i)
           rest == RemoveAt(old, at + 1)
<1>1. i # 0 => i \in DOMAIN impl.attributes
  BY LookupFinds
<1>2. Follows(ErasedAttribute(impl, k), impl, {})
  <2>1. CASE i = 0
    BY <2>1, LookedSame DEF ErasedAttribute
  <2>2. CASE i # 0
    BY <1>1, <2>2, WithoutAttributeFollows DEF ErasedAttribute
  <2> QED BY <2>1, <2>2
<1>3. CASE at >= Len(old)
  <2>1. ErasedValue(impl, k, at) = Looked(impl)
    BY <1>3 DEF ErasedValue, ValuesOf
  <2> QED BY <1>2, <2>1, LookedSame
<1>4. CASE at < Len(old)
  <2>1. i # 0
    BY <1>4 DEF ValuesAt
  <2>2. old \in Seq(Value) \ {<<>>} /\ Held(old) \subseteq Targets(impl)
    BY <1>1, <2>1, ValuesThere
  <2>3. at + 1 \in DOMAIN old
    BY <1>4, <2>2
  <2>4. /\ rest \in Seq(Value)
        /\ Len(rest) = Len(old) - 1
        /\ \A j \in 1 .. Len(old) - 1 : rest[j] = old[IF j < at + 1 THEN j ELSE j + 1]
    BY <2>2, <2>3, RemoveAtIs
  <2>5. CASE rest # <<>>
    <3>1. ErasedValue(impl, k, at) = WithValues(Looked(impl), i, rest)
      BY <1>4, <2>2, <2>5 DEF ErasedValue, ValuesOf
    <3>2. \A j \in DOMAIN rest : \E m \in DOMAIN old : rest[j] = old[m]
      BY <2>2, <2>4
    <3>3. Held(rest) \subseteq Held(old)
      BY <3>2 DEF Held, ToSet
    <3> QED BY <1>1, <1>2, <2>1, <2>2, <2>4, <2>5, <3>1, <3>3, LookedWithValues
  <2>6. CASE rest = <<>>
    <3>1. ErasedValue(impl, k, at) = Invalidated(WithoutAttribute(impl, i))
      BY <1>4, <2>2, <2>6 DEF ErasedValue, ValuesOf
    <3> QED BY <1>1, <1>2, <2>1, <3>1, WithoutAttributeFollows
  <2> QED BY <2>5, <2>6
<1>5. at \in Nat /\ Len(old) \in Nat
  <2>1. CASE i = 0
    BY <2>1 DEF ValuesAt
  <2>2. CASE i # 0
    BY <1>1, <2>2, ValuesThere
  <2> QED BY <2>1, <2>2
<1> QED BY <1>3, <1>4, <1>5

-----------------------------------------------------------------------------
(* The tree of an Impl *)

\* The object of a value is held by the Impl that has the value.
LEMMA ValueHeld ==
  ASSUME NEW impl, NEW i \in DOMAIN impl.attributes, NEW j \in DOMAIN impl.attributes[i].values,
         impl.attributes[i].values[j].isObject
  PROVE  impl.attributes[i].values[j].of \in Targets(impl)
<1>1. impl.attributes[i].values[j].of \in Held(impl.attributes[i].values)
  BY DEF Held, ToSet
<1> QED BY <1>1 DEF Targets

\* The tree of an Impl depends on the trees of what it holds.
LEMMA TreeDepends ==
  ASSUME NEW impl, NEW f, NEW g, \A d \in Targets(impl) : f[d] = g[d]
  PROVE  ObjectTree(impl, f) = ObjectTree(impl, g)
<1>1. ASSUME NEW i \in DOMAIN impl.attributes
      PROVE  AttributeTree(impl.attributes[i], f) = AttributeTree(impl.attributes[i], g)
  <2>1. ASSUME NEW j \in DOMAIN impl.attributes[i].values
        PROVE  ValueTree(impl.attributes[i].values[j], f) = ValueTree(impl.attributes[i].values[j], g)
    BY ValueHeld DEF ValueTree
  <2>2. ValuesTree(impl.attributes[i].values, f) = ValuesTree(impl.attributes[i].values, g)
    BY <2>1 DEF ValuesTree
  <2> QED BY <2>2 DEF AttributeTree
<1> QED BY <1>1 DEF ObjectTree

\* What says the same, and holds the same, has the same trees.
LEMMA SameTree ==
  ASSUME NEW impl, NEW next, Says(next) = Says(impl), NEW f
  PROVE  ObjectTree(next, f) = ObjectTree(impl, f) /\ Targets(next) = Targets(impl)
<1>1. next.fields = impl.fields /\ next.attributes = impl.attributes
  BY DEF Says
<1> QED BY <1>1, SameTargets DEF ObjectTree

LEMMA EmptyTreeIs == \A tree : ObjectTree(EmptyImpl, tree) = Values!EmptyTree
BY DEF ObjectTree, EmptyImpl, Values!EmptyTree

LEMMA NoValuesTree == \A tree : ValuesTree(<<>>, tree) = <<>>
BY DEF ValuesTree

LEMMA TreeOfImpl ==
  ASSUME NEW impl, ImplOK(impl), NEW tree
  PROVE  /\ ObjectTree(impl, tree).fields = impl.fields
         /\ DOMAIN ObjectTree(impl, tree).attributes = DOMAIN impl.attributes
         /\ \A i \in DOMAIN impl.attributes :
              /\ ObjectTree(impl, tree).attributes[i] = AttributeTree(impl.attributes[i], tree)
              /\ ObjectTree(impl, tree).attributes[i].key = impl.attributes[i].key
              /\ ObjectTree(impl, tree).attributes[i].values
                   = ValuesTree(impl.attributes[i].values, tree)
BY DEF ObjectTree, AttributeTree

\* An attribute of the tree is one of the Impl.
LEMMA PlacesInTree ==
  ASSUME NEW impl, ImplOK(impl), NEW tree, NEW k \in Keys
  PROVE  /\ Places(impl, k) = {} => /\ ~Values!Has(ObjectTree(impl, tree), k)
                                    /\ Values!Values(ObjectTree(impl, tree), k) = <<>>
         /\ \A i \in Places(impl, k) :
              /\ Values!Has(ObjectTree(impl, tree), k)
              /\ Values!TheOne(ObjectTree(impl, tree), k) = i
              /\ Values!Values(ObjectTree(impl, tree), k)
                   = ValuesTree(impl.attributes[i].values, tree)
<1> DEFINE o == ObjectTree(impl, tree)
<1>1. Values!Attributes(o, k) = Places(impl, k)
  BY TreeOfImpl DEF Values!Attributes, Places
<1>2. \A i, j \in Places(impl, k) : i = j
  BY DEF ImplOK
<1>3. \A i \in Places(impl, k) : i \in DOMAIN impl.attributes
  BY DEF Places
<1>4. ASSUME NEW i \in Places(impl, k)
      PROVE  /\ Values!Has(o, k)
             /\ Values!TheOne(o, k) = i
             /\ Values!Values(o, k) = ValuesTree(impl.attributes[i].values, tree)
  <2>1. Values!Has(o, k) /\ Values!TheOne(o, k) = i
    BY <1>1, <1>2 DEF Values!Has, Values!TheOne
  <2>2. o.attributes[i].values = ValuesTree(impl.attributes[i].values, tree)
    BY <1>3, TreeOfImpl
  <2> HIDE DEF o
  <2> QED BY <2>1, <2>2 DEF Values!Values
<1> HIDE DEF o
<1>5. Places(impl, k) = {} => ~Values!Has(o, k) /\ Values!Values(o, k) = <<>>
  BY <1>1 DEF Values!Has, Values!Values
<1> QED BY <1>4, <1>5 DEF o

\* What a reader of the attribute sees is what the tree has (Impl::find).
LEMMA ValuesInTree ==
  ASSUME NEW impl, ImplOK(impl), NEW tree, NEW k \in Keys
  PROVE  Values!Values(ObjectTree(impl, tree), k) = ValuesTree(ValuesOf(impl, k), tree)
<1> DEFINE i == LookupOf(impl)[k]
<1>1. /\ i = 0 => Places(impl, k) = {}
      /\ i # 0 => i \in Places(impl, k)
  BY LookupPlace
<1>2. CASE i = 0
  <2>1. ValuesOf(impl, k) = <<>>
    BY <1>2 DEF ValuesOf, ValuesAt
  <2> QED BY <1>1, <1>2, <2>1, PlacesInTree, NoValuesTree
<1>3. CASE i # 0
  <2>1. ValuesOf(impl, k) = impl.attributes[i].values
    BY <1>3 DEF ValuesOf, ValuesAt
  <2> QED BY <1>1, <1>3, <2>1, PlacesInTree
<1> QED BY <1>2, <1>3

LEMMA ValuesTreeIs ==
  ASSUME NEW values \in Seq(Value), NEW tree
  PROVE  /\ DOMAIN ValuesTree(values, tree) = DOMAIN values
         /\ ValuesTree(values, tree) \in Seq({ValueTree(x, tree) : x \in Value})
         /\ Len(ValuesTree(values, tree)) = Len(values)
         /\ \A j \in 1 .. Len(values) : ValuesTree(values, tree)[j] = ValueTree(values[j], tree)
<1>1. DOMAIN values = 1 .. Len(values) /\ Len(values) \in Nat
  OBVIOUS
<1>2. \A j \in DOMAIN values : values[j] \in Value
  OBVIOUS
<1> QED BY <1>1, <1>2 DEF ValuesTree

LEMMA OneValueTree ==
  ASSUME NEW v, NEW tree
  PROVE  ValuesTree(<<v>>, tree) = <<ValueTree(v, tree)>>
BY DEF ValuesTree

LEMMA InsertedTree ==
  ASSUME NEW values \in Seq(Value), NEW p \in 1 .. Len(values) + 1, NEW v \in Value, NEW tree
  PROVE  ValuesTree(InsertAt(values, p, v), tree)
           = InsertAt(ValuesTree(values, tree), p, ValueTree(v, tree))
<1> DEFINE S == {ValueTree(x, tree) : x \in Value}
           new == InsertAt(values, p, v)
           old == ValuesTree(values, tree)
           e == ValueTree(v, tree)
<1>1. /\ old \in Seq(S) /\ Len(old) = Len(values)
      /\ \A j \in 1 .. Len(values) : old[j] = ValueTree(values[j], tree)
      /\ p \in 1 .. Len(old) + 1
  BY ValuesTreeIs
<1>2. /\ new \in Seq(Value) /\ Len(new) = Len(values) + 1
      /\ \A j \in 1 .. Len(values) + 1 :
           new[j] = IF j < p THEN values[j] ELSE IF j = p THEN v ELSE values[j - 1]
  <2>1. new \in Seq(Value) /\ HasInserted(new, values, p, v)
    BY InsertAtElements, Zenon
  <2> QED BY <2>1 DEF HasInserted
<1>3. e \in S
  OBVIOUS
<1> HIDE DEF new, old, e, S
<1>4. /\ InsertAt(old, p, e) \in Seq(S) /\ Len(InsertAt(old, p, e)) = Len(values) + 1
      /\ \A j \in 1 .. Len(values) + 1 :
           InsertAt(old, p, e)[j] = IF j < p THEN old[j] ELSE IF j = p THEN e ELSE old[j - 1]
  <2>1. InsertAt(old, p, e) \in Seq(S) /\ HasInserted(InsertAt(old, p, e), old, p, e)
    BY <1>1, <1>3, InsertAtElements, Zenon
  <2>2. Len(old) = Len(values)
    BY <1>1
  <2> QED BY <2>1, <2>2 DEF HasInserted
<1>5. /\ ValuesTree(new, tree) \in Seq(S) /\ Len(ValuesTree(new, tree)) = Len(values) + 1
      /\ \A j \in 1 .. Len(values) + 1 : ValuesTree(new, tree)[j] = ValueTree(new[j], tree)
  <2>1. new \in Seq(Value) /\ Len(new) = Len(values) + 1
    BY <1>2
  <2>2. /\ ValuesTree(new, tree) \in Seq(S) /\ Len(ValuesTree(new, tree)) = Len(new)
        /\ \A j \in 1 .. Len(new) : ValuesTree(new, tree)[j] = ValueTree(new[j], tree)
    BY <2>1, ValuesTreeIs DEF S
  <2> QED BY <2>1, <2>2
<1>6. ASSUME NEW j \in 1 .. Len(values) + 1
      PROVE  ValuesTree(new, tree)[j] = InsertAt(old, p, e)[j]
  <2>1. j < p => j \in 1 .. Len(values)
    OBVIOUS
  <2>2. ~(j < p) /\ j # p => j - 1 \in 1 .. Len(values)
    OBVIOUS
  <2>3. CASE j < p
    BY <1>1, <1>2, <1>4, <1>5, <2>1, <2>3
  <2>4. CASE j = p
    BY <1>2, <1>4, <1>5, <2>4 DEF e
  <2>5. CASE ~(j < p) /\ j # p
    BY <1>1, <1>2, <1>4, <1>5, <2>2, <2>5
  <2> QED BY <2>3, <2>4, <2>5
<1>7. Len(values) + 1 = Len(ValuesTree(new, tree))
  BY <1>5
<1>8. ValuesTree(new, tree) = InsertAt(old, p, e)
  BY <1>4, <1>5, <1>6, <1>7, SameSequence
<1> QED BY <1>8 DEF new, old, e

LEMMA RemovedTree ==
  ASSUME NEW values \in Seq(Value), NEW p \in DOMAIN values, NEW tree
  PROVE  ValuesTree(RemoveAt(values, p), tree) = RemoveAt(ValuesTree(values, tree), p)
<1> DEFINE S == {ValueTree(x, tree) : x \in Value}
           new == RemoveAt(values, p)
           old == ValuesTree(values, tree)
<1>1. /\ old \in Seq(S) /\ Len(old) = Len(values) /\ p \in DOMAIN old
      /\ \A j \in 1 .. Len(values) : old[j] = ValueTree(values[j], tree)
  <2>1. /\ old \in Seq(S) /\ Len(old) = Len(values) /\ DOMAIN old = DOMAIN values
        /\ \A j \in 1 .. Len(values) : old[j] = ValueTree(values[j], tree)
    BY ValuesTreeIs
  <2> QED BY <2>1
<1>2. /\ new \in Seq(Value) /\ Len(new) = Len(values) - 1
      /\ \A j \in 1 .. Len(values) - 1 : new[j] = values[IF j < p THEN j ELSE j + 1]
  BY RemoveAtIs
<1> HIDE DEF new, old, S
<1>3. /\ RemoveAt(old, p) \in Seq(S) /\ Len(RemoveAt(old, p)) = Len(values) - 1
      /\ \A j \in 1 .. Len(values) - 1 : RemoveAt(old, p)[j] = old[IF j < p THEN j ELSE j + 1]
  BY <1>1, RemoveAtIs
<1>4. /\ ValuesTree(new, tree) \in Seq(S) /\ Len(ValuesTree(new, tree)) = Len(values) - 1
      /\ \A j \in 1 .. Len(values) - 1 : ValuesTree(new, tree)[j] = ValueTree(new[j], tree)
  <2>1. new \in Seq(Value) /\ Len(new) = Len(values) - 1
    BY <1>2
  <2>2. /\ ValuesTree(new, tree) \in Seq(S) /\ Len(ValuesTree(new, tree)) = Len(new)
        /\ \A j \in 1 .. Len(new) : ValuesTree(new, tree)[j] = ValueTree(new[j], tree)
    BY <2>1, ValuesTreeIs DEF S
  <2> QED BY <2>1, <2>2
<1>5. ASSUME NEW j \in 1 .. Len(values) - 1
      PROVE  ValuesTree(new, tree)[j] = RemoveAt(old, p)[j]
  <2> DEFINE m == IF j < p THEN j ELSE j + 1
  <2>1. m \in 1 .. Len(values)
    OBVIOUS
  <2> HIDE DEF m
  <2>2. new[j] = values[m] /\ RemoveAt(old, p)[j] = old[m]
    BY <1>2, <1>3 DEF m
  <2> QED BY <1>1, <1>4, <2>1, <2>2
<1>6. Len(values) - 1 = Len(ValuesTree(new, tree))
  BY <1>4
<1>7. ValuesTree(new, tree) = RemoveAt(old, p)
  BY <1>3, <1>4, <1>5, <1>6, SameSequence
<1> QED BY <1>7 DEF new, old

LEMMA ReplacedTree ==
  ASSUME NEW values \in Seq(Value), NEW p \in DOMAIN values, NEW v \in Value, NEW tree
  PROVE  ValuesTree([values EXCEPT ![p] = v], tree)
           = [ValuesTree(values, tree) EXCEPT ![p] = ValueTree(v, tree)]
BY DEF ValuesTree

-----------------------------------------------------------------------------
(* What the operations make of a tree *)

\* n is o, or what one operation makes of it.
Becomes(o, n, arguments) == n = o \/ Values!Edited(o, n, arguments)

LEMMA BecomesWith ==
  ASSUME NEW o, NEW n, NEW k \in Keys, NEW values, NEW arguments,
         n = Values!With(o, k, values), Values!Values(n, k) = values,
         values \in Values!Edits(Values!Values(o, k), arguments),
         values = Values!Values(o, k) => n = o
  PROVE  Becomes(o, n, arguments)
<1>1. CASE values = Values!Values(o, k)
  BY <1>1 DEF Becomes
<1>2. CASE values # Values!Values(o, k)
  <2>1. /\ Values!Values(n, k) # Values!Values(o, k)
        /\ Values!Values(n, k) \in Values!Edits(Values!Values(o, k), arguments)
        /\ n = Values!With(o, k, Values!Values(n, k))
    BY <1>2
  <2> QED BY <2>1 DEF Becomes, Values!Edited
<1> QED BY <1>1, <1>2

\* What is put for the values of an attribute is put in the tree (insertValue, replaceValue).
LEMMA WithValuesTree ==
  ASSUME NEW impl, ImplOK(impl), NEW k \in Keys, NEW i \in Places(impl, k),
         NEW values \in Seq(Value) \ {<<>>}, NEW tree
  PROVE  /\ ObjectTree(WithValues(impl, i, values), tree)
              = Values!With(ObjectTree(impl, tree), k, ValuesTree(values, tree))
         /\ Values!Values(ObjectTree(WithValues(impl, i, values), tree), k)
              = ValuesTree(values, tree)
         /\ ValuesTree(values, tree) = ValuesTree(impl.attributes[i].values, tree)
              => ObjectTree(WithValues(impl, i, values), tree) = ObjectTree(impl, tree)
<1> DEFINE next == WithValues(impl, i, values)
           o == ObjectTree(impl, tree)
           n == ObjectTree(next, tree)
           its == ValuesTree(values, tree)
<1>1. impl \in Impl /\ impl.attributes \in Seq(Attribute) /\ i \in DOMAIN impl.attributes
  BY DEF ImplOK, Impl, Places
<1>2. impl.attributes[i] \in Attribute /\ impl.attributes[i].key = k
  BY <1>1 DEF Places
<1>3. /\ next.attributes = [impl.attributes EXCEPT ![i] = [impl.attributes[i] EXCEPT !.values = values]]
      /\ next.fields = impl.fields
  BY <1>1 DEF WithValues, Impl
<1>4. [impl.attributes[i] EXCEPT !.values = values] = [key |-> k, values |-> values]
  BY <1>2 DEF Attribute
<1>5. /\ DOMAIN next.attributes = DOMAIN impl.attributes
      /\ next.attributes[i] = [key |-> k, values |-> values]
      /\ \A j \in DOMAIN impl.attributes : j # i => next.attributes[j] = impl.attributes[j]
  BY <1>1, <1>3, <1>4
<1>6. ImplOK(next)
  BY <1>1, WithValuesFollows
<1> HIDE DEF next
<1>7. i \in Places(next, k)
  BY <1>1, <1>5 DEF Places
<1>8. Values!Values(n, k) = its
  BY <1>5, <1>6, <1>7, PlacesInTree
<1>9. Len(its) = Len(values) /\ Len(values) # 0
  <2>1. values \in Seq(Value) /\ Len(values) # 0
    OBVIOUS
  <2>2. Len(its) = Len(values)
    BY <2>1, ValuesTreeIs
  <2> QED BY <2>1, <2>2
<1>10. its # <<>>
  BY <1>9
<1>11. Values!Has(o, k) /\ Values!TheOne(o, k) = i
  BY PlacesInTree
<1>12. Values!With(o, k, its) = [o EXCEPT !.attributes[i].values = its]
  <2> HIDE DEF o, its
  <2> QED BY <1>10, <1>11 DEF Values!With
<1> DEFINE new == [j \in DOMAIN impl.attributes |->
                     IF j = i THEN [key |-> k, values |-> its]
                     ELSE AttributeTree(impl.attributes[j], tree)]
<1>13. n = [fields |-> impl.fields, attributes |-> new]
  <2>1. AttributeTree(next.attributes[i], tree) = [key |-> k, values |-> its]
    BY <1>5 DEF AttributeTree
  <2>2. [j \in DOMAIN next.attributes |-> AttributeTree(next.attributes[j], tree)] = new
    <3> HIDE DEF its
    <3> QED BY <1>5, <2>1
  <2> HIDE DEF new
  <2> QED BY <1>3, <2>2 DEF ObjectTree
<1>14. [o EXCEPT !.attributes[i].values = its] = [fields |-> impl.fields, attributes |-> new]
  <2> DEFINE old == [j \in DOMAIN impl.attributes |-> AttributeTree(impl.attributes[j], tree)]
  <2>1. o = [fields |-> impl.fields, attributes |-> old]
    BY DEF ObjectTree
  <2>2. old[i] = [key |-> k, values |-> ValuesTree(impl.attributes[i].values, tree)]
    BY <1>1, <1>2 DEF AttributeTree
  <2>3. [old[i] EXCEPT !.values = its] = [key |-> k, values |-> its]
    <3> HIDE DEF old, its
    <3> QED BY <2>2
  <2>4. [old EXCEPT ![i] = [old[i] EXCEPT !.values = its]] = new
    <3> HIDE DEF its
    <3> QED BY <1>1, <2>3
  <2> HIDE DEF old, new, its, o
  <2> QED BY <2>1, <2>4
<1>15. its = ValuesTree(impl.attributes[i].values, tree) => n = o
  <2> SUFFICES ASSUME its = ValuesTree(impl.attributes[i].values, tree) PROVE n = o
    OBVIOUS
  <2>1. AttributeTree(impl.attributes[i], tree) = [key |-> k, values |-> its]
    BY <1>2 DEF AttributeTree
  <2>2. new = [j \in DOMAIN impl.attributes |-> AttributeTree(impl.attributes[j], tree)]
    <3> HIDE DEF its
    <3> QED BY <2>1
  <2> HIDE DEF new
  <2> QED BY <1>13, <2>2 DEF ObjectTree
<1> HIDE DEF o, n, its, new
<1> QED BY <1>8, <1>12, <1>13, <1>14, <1>15 DEF o, n, its, next

LEMMA ValuesBecome ==
  ASSUME NEW impl, ImplOK(impl), NEW k \in Keys, NEW i \in Places(impl, k), NEW tree,
         NEW arguments, NEW values \in Seq(Value) \ {<<>>},
         ValuesTree(values, tree)
           \in Values!Edits(ValuesTree(impl.attributes[i].values, tree), arguments)
  PROVE  Becomes(ObjectTree(impl, tree), ObjectTree(WithValues(impl, i, values), tree), arguments)
<1>1. Values!Values(ObjectTree(impl, tree), k) = ValuesTree(impl.attributes[i].values, tree)
  BY PlacesInTree
<1> QED BY <1>1, WithValuesTree, BecomesWith

\* A new attribute is a new one in the tree.
LEMMA AttributeBecomes ==
  ASSUME NEW impl, ImplOK(impl), NEW k \in Keys, Places(impl, k) = {}, NEW tree,
         NEW v \in Value, NEW arguments, ValueTree(v, tree) \in arguments
  PROVE  Becomes(ObjectTree(impl, tree), ObjectTree(WithAttribute(impl, k, v), tree), arguments)
<1> DEFINE next == WithAttribute(impl, k, v)
           o == ObjectTree(impl, tree)
           n == ObjectTree(next, tree)
           its == <<ValueTree(v, tree)>>
           new == [key |-> k, values |-> <<v>>]
           last == Len(impl.attributes) + 1
<1>1. impl \in Impl /\ impl.attributes \in Seq(Attribute)
  BY DEF ImplOK, Impl
<1>2. next.attributes = Append(impl.attributes, new) /\ next.fields = impl.fields
  BY <1>1 DEF WithAttribute, Impl
<1>3. /\ DOMAIN next.attributes = DOMAIN impl.attributes \cup {last}
      /\ next.attributes[last] = new
      /\ \A j \in DOMAIN impl.attributes : next.attributes[j] = impl.attributes[j]
      /\ DOMAIN impl.attributes = 1 .. Len(impl.attributes) /\ Len(impl.attributes) \in Nat
  BY <1>1, <1>2
<1>4. ImplOK(Invalidated(next)) /\ Invalidated(next).attributes = next.attributes
  <2>1. Follows(Invalidated(next), impl, Held(<<v>>))
    BY WithAttributeFollows
  <2>2. next \in Impl
    <3>1. new \in Attribute
      BY DEF Attribute
    <3>2. next.attributes \in Seq(Attribute)
      BY <1>1, <1>2, <3>1
    <3> QED BY <1>1, <3>2 DEF WithAttribute, Impl
  <2> HIDE DEF next
  <2> QED BY <2>1, <2>2 DEF Follows, Invalidated, Impl
<1> HIDE DEF next
<1>5. n = ObjectTree(Invalidated(next), tree)
  BY <1>4 DEF ObjectTree, Invalidated
<1>6. last \in Places(Invalidated(next), k) /\ Invalidated(next).attributes[last].values = <<v>>
  BY <1>3, <1>4 DEF Places
<1>7. Values!Values(n, k) = its
  BY <1>4, <1>5, <1>6, OneValueTree, PlacesInTree
<1>8. ~Values!Has(o, k) /\ Values!Values(o, k) = <<>>
  BY PlacesInTree
<1>9. its # <<>>
  OBVIOUS
<1>10. Values!With(o, k, its) = [o EXCEPT !.attributes = Append(@, [key |-> k, values |-> its])]
  <2> HIDE DEF o, its
  <2> QED BY <1>8 DEF Values!With
<1> DEFINE old == [j \in DOMAIN impl.attributes |-> AttributeTree(impl.attributes[j], tree)]
           grown == [j \in DOMAIN next.attributes |-> AttributeTree(next.attributes[j], tree)]
           entry == [key |-> k, values |-> its]
           S == {AttributeTree(x, tree) : x \in Attribute} \cup {entry}
<1>11. old \in Seq(S) /\ Len(old) = Len(impl.attributes)
  BY <1>1, <1>3
<1>12. AttributeTree(new, tree) = entry
  BY OneValueTree DEF AttributeTree
<1>13. DOMAIN grown = 1 .. last /\ \A j \in 1 .. last : grown[j] = IF j = last THEN entry ELSE old[j]
  <2> HIDE DEF its, entry, new
  <2> QED BY <1>3, <1>12, SMTT(30)
<1> HIDE DEF S, entry
<1>14. entry \in S
  BY DEF S
<1>15. Append(old, entry) = grown
  <2> HIDE DEF old, grown
  <2>1. DOMAIN Append(old, entry) = 1 .. last
    BY <1>3, <1>11, <1>14
  <2>2. \A j \in 1 .. last : Append(old, entry)[j] = IF j = last THEN entry ELSE old[j]
    BY <1>3, <1>11, <1>14
  <2>3. Append(old, entry) \in Seq(S) /\ Len(Append(old, entry)) = last
    BY <1>11, <1>14
  <2>4. \A j \in 1 .. last : grown[j] \in S
    <3>1. \A j \in 1 .. last : j # last => j \in 1 .. Len(old)
      BY <1>3, <1>11
    <3>2. \A j \in 1 .. Len(old) : old[j] \in S
      BY <1>11
    <3> QED BY <1>13, <1>14, <3>1, <3>2
  <2>5. last \in Nat /\ grown = [j \in 1 .. last |-> grown[j]]
    BY <1>3, <1>13 DEF grown
  <2>6. grown \in Seq(S) /\ Len(grown) = last
    BY <2>4, <2>5
  <2> HIDE DEF last
  <2> QED BY <1>13, <2>2, <2>3, <2>6, SameSequence
<1>16. o = [fields |-> impl.fields, attributes |-> old]
  BY DEF ObjectTree
<1>17. n = [fields |-> impl.fields, attributes |-> grown]
  BY <1>2 DEF ObjectTree
<1>18. n = Values!With(o, k, its)
  <2> HIDE DEF o, n, its, old, grown
  <2> QED BY <1>10, <1>15, <1>16, <1>17 DEF entry
<1>19. its \in Values!Edits(Values!Values(o, k), arguments)
  <2> HIDE DEF o
  <2> QED BY DEF Values!Edits
<1> HIDE DEF o, n, its
<1> QED BY <1>7, <1>8, <1>9, <1>18, <1>19, BecomesWith DEF o, n, next

LEMMA SameRemoval == \A s, i : Values!RemoveAt(s, i) = RemoveAt(s, i)
BY DEF Values!RemoveAt, RemoveAt

LEMMA SameInsertion == \A s, i, e : Values!InsertAt(s, i, e) = InsertAt(s, i, e)
BY DEF Values!InsertAt, InsertAt

\* What is removed from an Impl is removed from the tree (eraseValue, eraseAttribute).
LEMMA AttributeGoes ==
  ASSUME NEW impl, ImplOK(impl), NEW k \in Keys, NEW i \in Places(impl, k), NEW tree,
         NEW arguments
  PROVE  Becomes(ObjectTree(impl, tree), ObjectTree(WithoutAttribute(impl, i), tree), arguments)
<1> DEFINE next == WithoutAttribute(impl, i)
           o == ObjectTree(impl, tree)
           n == ObjectTree(next, tree)
           old == [j \in DOMAIN impl.attributes |-> AttributeTree(impl.attributes[j], tree)]
           left == [j \in DOMAIN next.attributes |-> AttributeTree(next.attributes[j], tree)]
           S == {AttributeTree(x, tree) : x \in Attribute}
           N == Len(impl.attributes)
           from(j) == IF j < i THEN j ELSE j + 1
<1>1. impl \in Impl /\ impl.attributes \in Seq(Attribute) /\ i \in DOMAIN impl.attributes
  BY DEF ImplOK, Impl, Places
<1>2. next.attributes = RemoveAt(impl.attributes, i) /\ next.fields = impl.fields
  BY <1>1 DEF WithoutAttribute, Impl
<1>3. /\ RemoveAt(impl.attributes, i) \in Seq(Attribute)
      /\ Len(RemoveAt(impl.attributes, i)) = N - 1
      /\ \A j \in 1 .. N - 1 : RemoveAt(impl.attributes, i)[j] = impl.attributes[from(j)]
  BY <1>1, RemoveAtIs
<1>4. /\ next.attributes \in Seq(Attribute) /\ Len(next.attributes) = N - 1
      /\ \A j \in 1 .. N - 1 : next.attributes[j] = impl.attributes[from(j)]
  BY <1>2, <1>3
<1>5. ImplOK(Invalidated(next)) /\ Invalidated(next).attributes = next.attributes
  <2>1. Follows(Invalidated(next), impl, {})
    BY <1>1, WithoutAttributeFollows
  <2>2. next \in Impl
    BY <1>1, <1>4 DEF WithoutAttribute, Impl
  <2> HIDE DEF next
  <2> QED BY <2>1, <2>2 DEF Follows, Invalidated, Impl
<1> HIDE DEF next
<1>6. i \in 1 .. N /\ N \in Nat /\ N - 1 \in Nat /\ DOMAIN impl.attributes = 1 .. N
  BY <1>1
<1>7. DOMAIN next.attributes = 1 .. N - 1
  BY <1>4
<1>8. \A j \in 1 .. N - 1 : from(j) \in 1 .. N /\ from(j) # i
  BY <1>6
<1> HIDE DEF from, N
<1>9. Places(Invalidated(next), k) = {}
  <2>1. \A j \in Places(impl, k) : j = i
    BY DEF ImplOK
  <2>2. ASSUME NEW j \in 1 .. N - 1  PROVE next.attributes[j].key # k
    <3>1. from(j) \notin Places(impl, k)
      BY <1>8, <2>1
    <3> QED BY <1>4, <1>6, <1>8, <3>1 DEF Places
  <2> QED BY <1>5, <1>7, <2>2 DEF Places
<1>10. n = ObjectTree(Invalidated(next), tree)
  BY <1>5 DEF ObjectTree, Invalidated
<1>11. Values!Values(n, k) = <<>>
  BY <1>5, <1>9, <1>10, PlacesInTree
<1>12. /\ Values!Has(o, k) /\ Values!TheOne(o, k) = i
       /\ Values!Values(o, k) = ValuesTree(impl.attributes[i].values, tree)
  BY PlacesInTree
<1>13. Values!Values(o, k) # <<>>
  <2>1. impl.attributes[i] \in Attribute
    BY <1>1
  <2>2. impl.attributes[i].values \in Seq(Value) /\ Len(impl.attributes[i].values) # 0
    BY <2>1 DEF Attribute
  <2>3. Len(ValuesTree(impl.attributes[i].values, tree)) # 0
    BY <2>2, ValuesTreeIs
  <2> HIDE DEF o
  <2> QED BY <1>12, <2>3
<1>14. Values!With(o, k, <<>>) = [o EXCEPT !.attributes = RemoveAt(@, i)]
  <2> HIDE DEF o
  <2> QED BY <1>12, SameRemoval DEF Values!With
<1>15. old \in Seq(S) /\ Len(old) = N /\ \A j \in 1 .. N : old[j] = AttributeTree(impl.attributes[j], tree)
  <2>1. \A j \in 1 .. N : impl.attributes[j] \in Attribute
    BY <1>1, <1>6
  <2>2. old \in [1 .. N -> S]
    BY <1>6, <2>1
  <2> QED BY <1>6, <2>2
<1>16. left \in Seq(S) /\ Len(left) = N - 1
       /\ \A j \in 1 .. N - 1 : left[j] = AttributeTree(next.attributes[j], tree)
  <2>1. \A j \in 1 .. N - 1 : next.attributes[j] \in Attribute
    BY <1>4, <1>7
  <2>2. left \in [1 .. N - 1 -> S]
    BY <1>7, <2>1
  <2> QED BY <1>6, <1>7, <2>2
<1>17. o = [fields |-> impl.fields, attributes |-> old]
  BY DEF ObjectTree
<1>18. n = [fields |-> impl.fields, attributes |-> left]
  BY <1>2 DEF ObjectTree
<1> HIDE DEF old, left, S
<1>19. i \in DOMAIN old
  BY <1>6, <1>15
<1>20. /\ RemoveAt(old, i) \in Seq(S) /\ Len(RemoveAt(old, i)) = N - 1
       /\ \A j \in 1 .. N - 1 : RemoveAt(old, i)[j] = old[from(j)]
  <2>1. /\ RemoveAt(old, i) \in Seq(S) /\ Len(RemoveAt(old, i)) = Len(old) - 1
        /\ \A j \in 1 .. Len(old) - 1 : RemoveAt(old, i)[j] = old[from(j)]
    BY <1>15, <1>19, RemoveAtIs DEF from
  <2> QED BY <1>15, <2>1
<1>21. RemoveAt(old, i) = left
  <2>1. \A j \in 1 .. N - 1 : RemoveAt(old, i)[j] = left[j]
    BY <1>4, <1>8, <1>15, <1>16, <1>20
  <2>2. Len(RemoveAt(old, i)) = Len(left) /\ \A j \in 1 .. Len(left) : left[j] = RemoveAt(old, i)[j]
    BY <1>16, <1>20, <2>1
  <2> QED BY <1>16, <1>20, <2>2, SameSequence
<1>22. n = Values!With(o, k, <<>>)
  <2> HIDE DEF o, n
  <2> QED BY <1>14, <1>17, <1>18, <1>21
<1>23. <<>> \in Values!Edits(Values!Values(o, k), arguments)
  BY DEF Values!Edits
<1> HIDE DEF o, n
<1> QED BY <1>11, <1>13, <1>22, <1>23, BecomesWith DEF o, n, next

\* What looks the same becomes the same.
LEMMA SameBecomes ==
  ASSUME NEW impl, NEW old, Says(old) = Says(impl), NEW next, NEW new, Says(new) = Says(next),
         NEW tree, NEW arguments,
         Becomes(ObjectTree(old, tree), ObjectTree(next, tree), arguments)
  PROVE  Becomes(ObjectTree(impl, tree), ObjectTree(new, tree), arguments)
<1>1. ObjectTree(old, tree) = ObjectTree(impl, tree) /\ ObjectTree(new, tree) = ObjectTree(next, tree)
  BY SameTree
<1> QED BY <1>1

LEMMA AddedBecomes ==
  ASSUME NEW impl, ImplOK(impl), NEW k \in Keys, Places(impl, k) = {}, NEW tree,
         NEW v \in Value, NEW arguments, ValueTree(v, tree) \in arguments
  PROVE  Becomes(ObjectTree(impl, tree), ObjectTree(Invalidated(WithAttribute(impl, k, v)), tree),
                 arguments)
<1>1. Says(Invalidated(WithAttribute(impl, k, v))) = Says(WithAttribute(impl, k, v))
  BY DEF Invalidated, Says, WithAttribute, ImplOK, Impl
<1> QED BY <1>1, AttributeBecomes, SameBecomes

LEMMA GoneBecomes ==
  ASSUME NEW impl, ImplOK(impl), NEW k \in Keys, NEW i \in Places(impl, k), NEW tree,
         NEW arguments
  PROVE  Becomes(ObjectTree(impl, tree), ObjectTree(Invalidated(WithoutAttribute(impl, i)), tree),
                 arguments)
<1>1. Says(Invalidated(WithoutAttribute(impl, i))) = Says(WithoutAttribute(impl, i))
  BY DEF Invalidated, Says, WithoutAttribute, ImplOK, Impl
<1> QED BY <1>1, AttributeGoes, SameBecomes

LEMMA EditsAre ==
  ASSUME NEW values, NEW arguments
  PROVE  /\ <<>> \in Values!Edits(values, arguments)
         /\ \A p \in DOMAIN values : RemoveAt(values, p) \in Values!Edits(values, arguments)
         /\ \A a \in arguments :
              /\ <<a>> \in Values!Edits(values, arguments)
              /\ \A p \in 1 .. Len(values) + 1 :
                   InsertAt(values, p, a) \in Values!Edits(values, arguments)
              /\ \A p \in DOMAIN values :
                   [values EXCEPT ![p] = a] \in Values!Edits(values, arguments)
<1>1. ASSUME NEW a \in arguments, NEW p \in 1 .. Len(values) + 1
      PROVE  InsertAt(values, p, a) \in Values!Edits(values, arguments)
  <2>1. Values!InsertAt(values, p, a) \in Values!Edits(values, arguments)
    BY DEF Values!Edits
  <2> QED BY <2>1, SameInsertion
<1>2. ASSUME NEW p \in DOMAIN values
      PROVE  RemoveAt(values, p) \in Values!Edits(values, arguments)
  <2>1. Values!RemoveAt(values, p) \in Values!Edits(values, arguments)
    BY DEF Values!Edits
  <2> QED BY <2>1, SameRemoval
<1>3. <<>> \in Values!Edits(values, arguments)
  BY DEF Values!Edits
<1>4. ASSUME NEW a \in arguments
      PROVE  /\ <<a>> \in Values!Edits(values, arguments)
             /\ \A p \in DOMAIN values :
                  [values EXCEPT ![p] = a] \in Values!Edits(values, arguments)
  BY DEF Values!Edits
<1> QED BY <1>1, <1>2, <1>3, <1>4

\* Looking and forgetting come before and after what is put.
LEMMA PutSays ==
  ASSUME NEW impl, ImplOK(impl), NEW k \in Keys, NEW i \in Places(impl, k),
         NEW values \in Seq(Value) \ {<<>>}
  PROVE  /\ Says(WithValues(Looked(impl), i, values)) = Says(WithValues(impl, i, values))
         /\ Says(Invalidated(WithValues(impl, i, values))) = Says(WithValues(impl, i, values))
<1>1. impl \in Impl /\ i \in DOMAIN impl.attributes
  BY DEF ImplOK, Places
<1>2. ImplOK(WithValues(impl, i, values))
  BY <1>1, WithValuesFollows
<1>3. WithValues(impl, i, values) \in Impl
  BY <1>2 DEF ImplOK
<1>4. Says(Invalidated(WithValues(impl, i, values))) = Says(WithValues(impl, i, values))
  BY <1>3, InvalidatedSays
<1>5. Looked(impl).fields = impl.fields /\ Looked(impl).attributes = impl.attributes
      /\ "fields" \in DOMAIN Looked(impl) /\ "attributes" \in DOMAIN Looked(impl)
  BY <1>1 DEF Looked, Impl
<1>6. Says(WithValues(Looked(impl), i, values)) = Says(WithValues(impl, i, values))
  <2>1. /\ WithValues(impl, i, values).fields = impl.fields
        /\ WithValues(impl, i, values).attributes
             = [impl.attributes EXCEPT ![i] = [impl.attributes[i] EXCEPT !.values = values]]
    BY <1>1 DEF WithValues, Impl
  <2>2. /\ WithValues(Looked(impl), i, values).fields = impl.fields
        /\ WithValues(Looked(impl), i, values).attributes
             = [impl.attributes EXCEPT ![i] = [impl.attributes[i] EXCEPT !.values = values]]
    <3> DEFINE looked == Looked(impl)
    <3> HIDE DEF looked
    <3>1. looked.fields = impl.fields /\ looked.attributes = impl.attributes
          /\ "fields" \in DOMAIN looked /\ "attributes" \in DOMAIN looked
      BY <1>5 DEF looked
    <3> QED BY <3>1 DEF WithValues, looked
  <2> QED BY <2>1, <2>2 DEF Says
<1> QED BY <1>4, <1>6

LEMMA LookedBecomes ==
  ASSUME NEW impl, ImplOK(impl), NEW tree, NEW arguments
  PROVE  Becomes(ObjectTree(impl, tree), ObjectTree(Looked(impl), tree), arguments)
<1>1. Says(Looked(impl)) = Says(impl)
  BY LookedSays DEF ImplOK
<1>2. ObjectTree(Looked(impl), tree) = ObjectTree(impl, tree)
  BY <1>1, SameTree
<1> QED BY <1>2 DEF Becomes

\* The place that a lookup finds, and its values.
LEMMA FoundPlace ==
  ASSUME NEW impl, ImplOK(impl), NEW k \in Keys, NEW i, i = LookupOf(impl)[k], i # 0
  PROVE  /\ i \in Places(impl, k)
         /\ ValuesAt(impl, i) = impl.attributes[i].values
         /\ ValuesAt(impl, i) \in Seq(Value) \ {<<>>}
<1>1. i \in Places(impl, k)
  BY LookupPlace
<1>2. i \in DOMAIN impl.attributes
  BY <1>1 DEF Places
<1> QED BY <1>1, <1>2, ValuesThere DEF ValuesAt

LEMMA AssignedBecomes ==
  ASSUME NEW impl, ImplOK(impl), NEW k \in Keys, NEW v \in Value, NEW tree, NEW arguments,
         ValueTree(v, tree) \in arguments
  PROVE  Becomes(ObjectTree(impl, tree), ObjectTree(Assigned(impl, k, v), tree), arguments)
<1> DEFINE i == LookupOf(impl)[k]
<1>1. CASE i = 0
  <2>1. Assigned(impl, k, v) = Invalidated(WithAttribute(impl, k, v))
    BY <1>1 DEF Assigned
  <2>2. Places(impl, k) = {}
    BY <1>1, LookupPlace
  <2> QED BY <2>1, <2>2, AddedBecomes
<1>2. CASE i # 0
  <2>1. Assigned(impl, k, v) = Invalidated(WithValues(impl, i, <<v>>))
    BY <1>2 DEF Assigned
  <2>2. i \in Places(impl, k)
    BY <1>2, FoundPlace
  <2>3. <<v>> \in Seq(Value) \ {<<>>}
    OBVIOUS
  <2> DEFINE its == ValuesTree(impl.attributes[i].values, tree)
  <2>4. ValuesTree(<<v>>, tree) \in Values!Edits(its, arguments)
    BY EditsAre, OneValueTree
  <2> HIDE DEF i
  <2>5. Becomes(ObjectTree(impl, tree), ObjectTree(WithValues(impl, i, <<v>>), tree), arguments)
    BY <2>2, <2>3, <2>4, ValuesBecome
  <2>6. Says(Invalidated(WithValues(impl, i, <<v>>))) = Says(WithValues(impl, i, <<v>>))
    BY <2>2, <2>3, PutSays
  <2> QED BY <2>1, <2>5, <2>6, SameBecomes
<1> QED BY <1>1, <1>2

LEMMA InsertedBecomes ==
  ASSUME NEW impl, ImplOK(impl), NEW k \in Keys, NEW at \in Nat, NEW v \in Value, NEW tree,
         NEW arguments, ValueTree(v, tree) \in arguments
  PROVE  Becomes(ObjectTree(impl, tree), ObjectTree(Inserted(impl, k, at, v), tree), arguments)
<1> DEFINE i == LookupOf(impl)[k]
           old == ValuesAt(impl, i)
           p == at + 1
           new == InsertAt(old, p, v)
<1>1. CASE i = 0 /\ at = 0
  <2>1. Inserted(impl, k, at, v) = Invalidated(WithAttribute(impl, k, v))
    BY <1>1 DEF Inserted
  <2>2. Places(impl, k) = {}
    BY <1>1, LookupPlace
  <2> QED BY <2>1, <2>2, AddedBecomes
<1>2. CASE i # 0 /\ at <= Len(old)
  <2>1. Inserted(impl, k, at, v) = WithValues(Looked(impl), i, new)
    BY <1>2 DEF Inserted
  <2>2. i \in Places(impl, k) /\ old = impl.attributes[i].values /\ old \in Seq(Value)
    BY <1>2, FoundPlace
  <2>3. p \in 1 .. Len(old) + 1
    BY <1>2, <2>2
  <2> HIDE DEF i, old, p
  <2>4. new \in Seq(Value) \ {<<>>}
    BY <2>2, <2>3, InsertAtIs
  <2>5. ValuesTree(new, tree) = InsertAt(ValuesTree(old, tree), p, ValueTree(v, tree))
    BY <2>2, <2>3, InsertedTree
  <2>6. Len(ValuesTree(old, tree)) = Len(old)
    BY <2>2, ValuesTreeIs
  <2>7. ValuesTree(new, tree) \in Values!Edits(ValuesTree(old, tree), arguments)
    <3>1. p \in 1 .. Len(ValuesTree(old, tree)) + 1
      BY <2>3, <2>6
    <3> QED BY <2>5, <3>1, EditsAre
  <2> HIDE DEF new
  <2>8. Becomes(ObjectTree(impl, tree), ObjectTree(WithValues(impl, i, new), tree), arguments)
    BY <2>2, <2>4, <2>7, ValuesBecome
  <2>9. Says(WithValues(Looked(impl), i, new)) = Says(WithValues(impl, i, new))
    BY <2>2, <2>4, PutSays
  <2> QED BY <2>1, <2>8, <2>9, SameBecomes
<1>3. CASE ~(i = 0 /\ at = 0) /\ ~(i # 0 /\ at <= Len(old))
  <2>1. Inserted(impl, k, at, v) = Looked(impl)
    BY <1>3 DEF Inserted
  <2> QED BY <2>1, LookedBecomes
<1> QED BY <1>1, <1>2, <1>3

\* n is o with x at a place that attribute k has.
PutAt(o, n, k, p, x) ==
  /\ p \in DOMAIN Values!Values(o, k)
  /\ n = Values!With(o, k, [Values!Values(o, k) EXCEPT ![p] = x])
  /\ Values!Values(n, k) = [Values!Values(o, k) EXCEPT ![p] = x]
  /\ [Values!Values(o, k) EXCEPT ![p] = x] = Values!Values(o, k) => n = o

\* A value for another, as a change of the tree: also for IomPath::replaceSinglePrimitive.
LEMMA ReplacedIs ==
  ASSUME NEW impl, ImplOK(impl), NEW k \in Keys, NEW at \in Nat, at < Len(ValuesOf(impl, k)),
         NEW v \in Value, NEW tree
  PROVE  PutAt(ObjectTree(impl, tree), ObjectTree(Replaced(impl, k, at, v), tree), k, at + 1,
               ValueTree(v, tree))
<1> DEFINE i == LookupOf(impl)[k]
           old == ValuesAt(impl, i)
           p == at + 1
           new == [old EXCEPT ![p] = v]
<1>1. Replaced(impl, k, at, v) = WithValues(Looked(impl), i, new)
  BY DEF Replaced
<1>2. i # 0
  BY DEF ValuesOf, ValuesAt
<1>3. i \in Places(impl, k) /\ old = impl.attributes[i].values /\ old \in Seq(Value) \ {<<>>}
  BY <1>2, FoundPlace
<1>4. p \in DOMAIN old
  BY <1>3 DEF ValuesOf
<1>5. ValuesOf(impl, k) = old
  BY DEF ValuesOf
<1> HIDE DEF i, old, p
<1>6. new \in Seq(Value) \ {<<>>}
  <2>1. old \in Seq(Value) /\ Len(old) # 0
    BY <1>3
  <2>2. new \in Seq(Value) /\ Len(new) = Len(old)
    BY <1>4, <2>1, ReplaceIs
  <2> QED BY <2>1, <2>2
<1>7. ValuesTree(new, tree) = [ValuesTree(old, tree) EXCEPT ![p] = ValueTree(v, tree)]
  BY <1>3, <1>4, ReplacedTree
<1>8. Values!Values(ObjectTree(impl, tree), k) = ValuesTree(old, tree)
  BY <1>5, ValuesInTree
<1>9. DOMAIN ValuesTree(old, tree) = DOMAIN old
  BY <1>3, ValuesTreeIs
<1> HIDE DEF new
<1>10. ObjectTree(WithValues(Looked(impl), i, new), tree) = ObjectTree(WithValues(impl, i, new), tree)
  BY <1>3, <1>6, PutSays, SameTree
<1>11. /\ ObjectTree(WithValues(impl, i, new), tree)
            = Values!With(ObjectTree(impl, tree), k, ValuesTree(new, tree))
       /\ Values!Values(ObjectTree(WithValues(impl, i, new), tree), k) = ValuesTree(new, tree)
       /\ ValuesTree(new, tree) = ValuesTree(impl.attributes[i].values, tree)
            => ObjectTree(WithValues(impl, i, new), tree) = ObjectTree(impl, tree)
  BY <1>3, <1>6, WithValuesTree
<1> QED BY <1>1, <1>3, <1>4, <1>7, <1>8, <1>9, <1>10, <1>11 DEF p, PutAt

LEMMA ReplacedBecomes ==
  ASSUME NEW impl, ImplOK(impl), NEW k \in Keys, NEW at \in Nat, NEW v \in Value, NEW tree,
         NEW arguments, ValueTree(v, tree) \in arguments
  PROVE  Becomes(ObjectTree(impl, tree), ObjectTree(Replaced(impl, k, at, v), tree), arguments)
<1>1. CASE at < Len(ValuesOf(impl, k))
  <2> DEFINE p == at + 1
             o == ObjectTree(impl, tree)
             n == ObjectTree(Replaced(impl, k, at, v), tree)
             its == Values!Values(o, k)
             new == [its EXCEPT ![p] = ValueTree(v, tree)]
  <2>1. PutAt(o, n, k, p, ValueTree(v, tree))
    BY <1>1, ReplacedIs
  <2> HIDE DEF p, o, n
  <2>2. /\ p \in DOMAIN its
        /\ n = Values!With(o, k, new)
        /\ Values!Values(n, k) = new
        /\ new = its => n = o
    BY <2>1 DEF PutAt
  <2> HIDE DEF its
  <2>3. new \in Values!Edits(its, arguments)
    BY <2>2, EditsAre
  <2> HIDE DEF new
  <2>4. Becomes(o, n, arguments)
    BY <2>2, <2>3, BecomesWith DEF its
  <2> QED BY <2>4 DEF o, n
<1>2. CASE ~(at < Len(ValuesOf(impl, k)))
  <2>1. Replaced(impl, k, at, v) = Looked(impl)
    BY <1>2 DEF Replaced
  <2> QED BY <2>1, LookedBecomes
<1> QED BY <1>1, <1>2

LEMMA ErasedBecomes ==
  ASSUME NEW impl, ImplOK(impl), NEW k \in Keys, NEW at \in Nat, NEW tree, NEW arguments
  PROVE  /\ Becomes(ObjectTree(impl, tree), ObjectTree(ErasedValue(impl, k, at), tree), arguments)
         /\ Becomes(ObjectTree(impl, tree), ObjectTree(ErasedAttribute(impl, k), tree), arguments)
<1> DEFINE i == LookupOf(impl)[k]
           old == ValuesAt(impl, i)
           p == at + 1
           rest == RemoveAt(old, p)
<1>1. i # 0 => i \in Places(impl, k) /\ old = impl.attributes[i].values /\ old \in Seq(Value) \ {<<>>}
  BY FoundPlace
<1>2. ValuesOf(impl, k) = old
  BY DEF ValuesOf
<1>3. i = 0 => Len(old) = 0
  BY DEF ValuesAt
<1>4. Becomes(ObjectTree(impl, tree), ObjectTree(ErasedAttribute(impl, k), tree), arguments)
  <2>1. CASE i = 0
    BY <2>1, LookedBecomes DEF ErasedAttribute
  <2>2. CASE i # 0
    <3>1. ErasedAttribute(impl, k) = Invalidated(WithoutAttribute(impl, i))
      BY <2>2 DEF ErasedAttribute
    <3> QED BY <1>1, <2>2, <3>1, GoneBecomes
  <2> QED BY <2>1, <2>2
<1>5. CASE at >= Len(old)
  <2>1. ErasedValue(impl, k, at) = Looked(impl)
    BY <1>2, <1>5 DEF ErasedValue
  <2> QED BY <1>4, <2>1, LookedBecomes
<1>6. CASE at < Len(old)
  <2>1. i # 0 /\ i \in Places(impl, k) /\ old = impl.attributes[i].values /\ old \in Seq(Value) \ {<<>>}
    BY <1>1, <1>3, <1>6
  <2>2. p \in DOMAIN old
    <3> HIDE DEF old
    <3> QED BY <1>6, <2>1
  <2>3. CASE rest # <<>>
    <3>1. ErasedValue(impl, k, at) = WithValues(Looked(impl), i, rest)
      BY <1>2, <1>6, <2>1, <2>3 DEF ErasedValue
    <3> HIDE DEF i, old, p
    <3>2. rest \in Seq(Value) \ {<<>>}
      BY <2>1, <2>2, <2>3, RemoveAtIs
    <3>3. ValuesTree(rest, tree) = RemoveAt(ValuesTree(old, tree), p)
      BY <2>1, <2>2, RemovedTree
    <3>4. DOMAIN ValuesTree(old, tree) = DOMAIN old
      BY <2>1, ValuesTreeIs
    <3>5. ValuesTree(rest, tree) \in Values!Edits(ValuesTree(old, tree), arguments)
      BY <2>2, <3>3, <3>4, EditsAre
    <3> HIDE DEF rest
    <3>6. Becomes(ObjectTree(impl, tree), ObjectTree(WithValues(impl, i, rest), tree), arguments)
      BY <2>1, <3>2, <3>5, ValuesBecome
    <3>7. Says(WithValues(Looked(impl), i, rest)) = Says(WithValues(impl, i, rest))
      BY <2>1, <3>2, PutSays
    <3> QED BY <1>4, <3>1, <3>6, <3>7, SameBecomes
  <2>4. CASE rest = <<>>
    <3>1. ErasedValue(impl, k, at) = Invalidated(WithoutAttribute(impl, i))
      BY <1>2, <1>6, <2>1, <2>4 DEF ErasedValue
    <3> QED BY <1>4, <2>1, <3>1, GoneBecomes
  <2> QED BY <2>3, <2>4
<1>7. at \in Nat /\ Len(old) \in Nat
  <2>1. CASE i = 0
    BY <1>3, <2>1
  <2>2. CASE i # 0
    <3> HIDE DEF old, i
    <3> QED BY <1>1, <2>2
  <2> QED BY <2>1, <2>2
<1> HIDE DEF old, i
<1> QED BY <1>5, <1>6, <1>7

-----------------------------------------------------------------------------
(* The heap *)

\* Among any cells there is one that holds none of them.
NoCycle(h) == \A S \in SUBSET Cells : S # {} => \E c \in S : Targets(h[c]) \cap S = {}

HeapOK(h) ==
  /\ h \in [Cells -> Impl]
  /\ \A c \in Cells : ImplOK(h[c])
  /\ NoCycle(h)

\* The inductive invariant
IInv == TypeOK /\ HeapOK(heap)

LEMMA EmptyImplOK == ImplOK(EmptyImpl) /\ Targets(EmptyImpl) = {}
<1>1. EmptyImpl \in Impl
  BY FieldsAssumption DEF EmptyImpl, Impl, NoLookup
<1>2. \A k : Places(EmptyImpl, k) = {}
  BY DEF EmptyImpl, Places
<1>3. Targets(EmptyImpl) = {}
  BY DEF EmptyImpl, Targets
<1> QED BY <1>1, <1>2, <1>3 DEF ImplOK, EmptyImpl

\* What holds less makes no new cycle.
LEMMA LessHasNoCycle ==
  ASSUME NEW h, NoCycle(h), NEW g, \A c \in Cells : Targets(g[c]) \subseteq Targets(h[c])
  PROVE  NoCycle(g)
<1> SUFFICES ASSUME NEW S \in SUBSET Cells, S # {}
             PROVE  \E c \in S : Targets(g[c]) \cap S = {}
  BY DEF NoCycle
<1>1. PICK c \in S : Targets(h[c]) \cap S = {}
  BY DEF NoCycle
<1>2. Targets(g[c]) \cap S = {}
  BY <1>1
<1> QED BY <1>2

\* At the end of a step what nobody holds is free again.
LEMMA SettleKeeps ==
  ASSUME NEW h, HeapOK(h), NEW hs \in [Variables -> Cells], Settle(h, hs)
  PROVE  IInv'
<1>1. PICK kept \in {Roots(hs) \cup more : more \in SUBSET (Cells \ Roots(hs))} :
        /\ kept = Roots(hs) \cup UNION {Targets(h[c]) : c \in kept}
        /\ heap' = [c \in Cells |-> IF c \in kept THEN h[c] ELSE EmptyImpl]
        /\ live' = kept
        /\ handle' = hs
  BY DEF Settle
<1>2. Roots(hs) \subseteq Cells /\ kept \subseteq Cells
  BY DEF Roots
<1>3. \A c \in Cells : ImplOK(heap'[c])
  BY <1>1, EmptyImplOK DEF HeapOK
<1>4. \A c \in Cells : Targets(heap'[c]) \subseteq Targets(h[c])
  BY <1>1, EmptyImplOK
<1>5. heap' \in [Cells -> Impl]
  BY <1>1, <1>3 DEF ImplOK
<1>6. NoCycle(heap')
  BY <1>4, LessHasNoCycle DEF HeapOK
<1>7. HeapOK(heap)'
  <2>1. HeapOK(heap')
    BY <1>3, <1>5, <1>6 DEF HeapOK
  <2> QED BY <2>1 DEF HeapOK, NoCycle
<1>8. TypeOK'
  <2>1. handle' \in [Variables -> live']
    BY <1>1 DEF Roots
  <2>2. \A c \in live' : Targets(heap'[c]) \subseteq live'
    BY <1>1, <1>2
  <2>3. \A c \in Cells \ live' : heap'[c] = EmptyImpl
    BY <1>1
  <2> QED BY <1>1, <1>2, <1>5, <2>1, <2>2, <2>3 DEF TypeOK, FreeCells
<1> QED BY <1>7, <1>8 DEF IInv

\* What is in use holds only what is in use.
LEMMA TargetsInUse ==
  ASSUME IInv
  PROVE  \A c \in Cells : Targets(heap[c]) \subseteq live
<1>1. \A c \in Cells : c \in live \/ heap[c] = EmptyImpl
  BY DEF IInv, TypeOK, FreeCells
<1> QED BY <1>1, EmptyImplOK DEF IInv, TypeOK

LEMMA NewCellIsFree ==
  ASSUME FreeCells # {}
  PROVE  NewCell \in Cells \ live
BY DEF FreeCells, NewCell

\* A cell that nothing holds, and that will not hold itself, can be given an Impl.
LEMMA PutKeeps ==
  ASSUME NEW h, HeapOK(h), NEW cell \in Cells, NEW impl, ImplOK(impl),
         cell \notin Targets(impl),
         \A c \in Cells : cell \notin Targets(h[c])
  PROVE  HeapOK([h EXCEPT ![cell] = impl])
<1> DEFINE g == [h EXCEPT ![cell] = impl]
<1>1. h \in [Cells -> Impl] /\ impl \in Impl
  BY DEF HeapOK, ImplOK
<1>2. /\ g \in [Cells -> Impl] /\ g[cell] = impl
      /\ \A c \in Cells : c # cell => g[c] = h[c]
  BY <1>1
<1>3. \A c \in Cells : ImplOK(g[c])
  BY <1>2 DEF HeapOK
<1> HIDE DEF g
<1>4. ASSUME NEW S \in SUBSET Cells, S # {}
      PROVE  \E c \in S : Targets(g[c]) \cap S = {}
  <2>1. CASE S = {cell}
    BY <1>2, <2>1
  <2>2. CASE S # {cell}
    <3>1. S \ {cell} \in SUBSET Cells /\ S \ {cell} # {}
      BY <1>4, <2>2
    <3>2. PICK c \in S \ {cell} : Targets(h[c]) \cap (S \ {cell}) = {}
      BY <3>1 DEF HeapOK, NoCycle
    <3>3. g[c] = h[c] /\ cell \notin Targets(h[c])
      BY <1>2, <3>2
    <3> QED BY <3>2, <3>3
  <2> QED BY <2>1, <2>2
<1> QED BY <1>2, <1>3, <1>4 DEF HeapOK, NoCycle, g

\* Nothing holds the cell that is written: it is new, or only v has it.
LEMMA WrittenCell ==
  ASSUME IInv, NEW v \in Variables, NEW parameters, Held(parameters) \subseteq live,
         NEW cell, cell = IF Shared(v, parameters) THEN NewCell ELSE handle[v],
         Shared(v, parameters) => FreeCells # {}
  PROVE  /\ cell \in Cells
         /\ \A c \in Cells : cell \notin Targets(heap[c])
         /\ cell \notin Held(parameters)
<1>1. CASE Shared(v, parameters)
  <2>1. cell \in Cells \ live
    BY <1>1, NewCellIsFree
  <2> QED BY <2>1, TargetsInUse
<1>2. CASE ~Shared(v, parameters)
  <2>1. cell = handle[v] /\ cell \in live /\ cell \in Cells
    BY <1>2 DEF IInv, TypeOK
  <2>2. cell \notin Held(parameters) /\ \A c \in live : cell \notin Targets(heap[c])
    BY <1>2, <2>1 DEF Shared
  <2>3. \A c \in Cells \ live : Targets(heap[c]) = {}
    BY EmptyImplOK DEF IInv, TypeOK, FreeCells
  <2> QED BY <2>1, <2>2, <2>3
<1> QED BY <1>1, <1>2

\* What is written through v into the heap h, which holds no more than the heap before.
LEMMA WriteKeeps ==
  ASSUME IInv, NEW v \in Variables, NEW parameters, Held(parameters) \subseteq live,
         NEW h, HeapOK(h), \A c \in Cells : Targets(h[c]) \subseteq Targets(heap[c]),
         NEW impl, Follows(impl, heap[handle[v]], Held(parameters)),
         Write(h, v, parameters, impl)
  PROVE  IInv'
<1> DEFINE cell == IF Shared(v, parameters) THEN NewCell ELSE handle[v]
<1>1. /\ Shared(v, parameters) => FreeCells # {}
      /\ Settle([h EXCEPT ![cell] = impl], [handle EXCEPT ![v] = cell])
  BY DEF Write
<1> HIDE DEF cell
<1>2. /\ cell \in Cells
      /\ \A c \in Cells : cell \notin Targets(heap[c])
      /\ cell \notin Held(parameters)
  BY <1>1, WrittenCell DEF cell
<1>3. handle \in [Variables -> Cells]
  BY DEF IInv, TypeOK
<1>4. cell \notin Targets(impl) /\ ImplOK(impl)
  BY <1>2, <1>3 DEF Follows
<1>5. HeapOK([h EXCEPT ![cell] = impl])
  BY <1>2, <1>4, PutKeeps
<1>6. [handle EXCEPT ![v] = cell] \in [Variables -> Cells]
  BY <1>2, <1>3
<1> QED BY <1>1, <1>5, <1>6, SettleKeeps

\* detach() gives a good Impl that holds what the one before held.
LEMMA DetachedFollows ==
  ASSUME NEW v, NEW parameters, NEW h, ImplOK(h[handle[v]])
  PROVE  Follows(Detached(h, v, parameters), h[handle[v]], {})
<1>1. Follows(Invalidated(h[handle[v]]), h[handle[v]], {})
  BY LookedSame
<1> QED BY <1>1 DEF Detached, Follows

LEMMA ArgumentsAreValues ==
  ASSUME IInv, NEW a \in Arguments
  PROVE  a \in Value /\ Held(<<a>>) \subseteq live
<1>1. ToSet(<<a>>) = {a}
  BY DEF ToSet
<1>2. Held(<<a>>) = {x.of : x \in {x \in {a} : x.isObject}}
  BY <1>1 DEF Held
<1>3. ASSUME NEW t \in Texts, a = Primitive(t)
      PROVE  a \in Value /\ Held(<<a>>) \subseteq live
  <2>1. a \in Value
    BY <1>3 DEF Value
  <2>2. ~a.isObject
    BY <1>3 DEF Primitive
  <2>3. Held(<<a>>) = {}
    BY <1>2, <2>2
  <2> QED BY <2>1, <2>3
<1>4. ASSUME NEW w \in Variables, a = Object(handle[w])
      PROVE  a \in Value /\ Held(<<a>>) \subseteq live
  <2>1. handle[w] \in live /\ handle[w] \in Cells
    BY DEF IInv, TypeOK
  <2>2. a \in Value
    BY <1>4, <2>1 DEF Value
  <2>3. a.of = handle[w]
    BY <1>4 DEF Object
  <2>4. Held(<<a>>) \subseteq {a.of}
    BY <1>2
  <2> QED BY <2>1, <2>2, <2>3, <2>4
<1> QED BY <1>3, <1>4 DEF Arguments

LEMMA NothingHeld == Held(<<>>) = {}
BY DEF Held, ToSet

\* Looking changes no object.
LEMMA LookingKeeps ==
  ASSUME NEW h, HeapOK(h), NEW looked
  PROVE  LET g == [c \in Cells |-> IF c \in looked THEN Looked(h[c]) ELSE h[c]]
         IN  HeapOK(g) /\ \A c \in Cells : Follows(g[c], h[c], {}) /\ Targets(g[c]) = Targets(h[c])
<1> DEFINE g == [c \in Cells |-> IF c \in looked THEN Looked(h[c]) ELSE h[c]]
<1>1. \A c \in Cells : ImplOK(g[c]) /\ Targets(g[c]) = Targets(h[c])
  <2> TAKE c \in Cells
  <2>1. ImplOK(h[c])
    BY DEF HeapOK
  <2>2. ImplOK(Looked(h[c])) /\ Targets(Looked(h[c])) = Targets(h[c])
    BY <2>1, LookedFollows, SameTargets
  <2> QED BY <2>1, <2>2
<1>2. g \in [Cells -> Impl]
  BY <1>1 DEF ImplOK
<1>3. NoCycle(g)
  BY <1>1, LessHasNoCycle DEF HeapOK
<1>4. HeapOK(g)
  BY <1>1, <1>2, <1>3 DEF HeapOK
<1> QED BY <1>1, <1>4 DEF Follows

LEMMA LookingIs ==
  ASSUME IInv, NEW v \in Variables
  PROVE  /\ HeapOK(Looking(v))
         /\ \A c \in Cells : Targets(Looking(v)[c]) = Targets(heap[c])
         /\ Follows(Looking(v)[handle[v]], heap[handle[v]], {})
<1>1. heap \in [Cells -> Impl] /\ handle[v] \in Cells /\ HeapOK(heap)
  BY DEF IInv, TypeOK
<1>2. Looking(v) = [c \in Cells |-> IF c \in {handle[v]} THEN Looked(heap[c]) ELSE heap[c]]
  BY <1>1 DEF Looking
<1>3. LET g == [c \in Cells |-> IF c \in {handle[v]} THEN Looked(heap[c]) ELSE heap[c]]
      IN  HeapOK(g) /\ \A c \in Cells : Follows(g[c], heap[c], {}) /\ Targets(g[c]) = Targets(heap[c])
  BY <1>1, LookingKeeps
<1> QED BY <1>1, <1>2, <1>3

\* The Impl that a write through v begins with.
LEMMA DetachedIs ==
  ASSUME IInv, NEW v \in Variables, NEW parameters
  PROVE  /\ Follows(Detached(heap, v, parameters), heap[handle[v]], {})
         /\ Follows(Detached(Looking(v), v, parameters), heap[handle[v]], {})
         /\ ImplOK(Detached(heap, v, parameters))
         /\ ImplOK(Detached(Looking(v), v, parameters))
<1>1. ImplOK(heap[handle[v]])
  BY DEF IInv, TypeOK, HeapOK
<1>2. Follows(Looking(v)[handle[v]], heap[handle[v]], {})
  BY LookingIs
<1>3. ImplOK(Looking(v)[handle[v]])
  BY <1>2 DEF Follows
<1>4. Follows(Detached(Looking(v), v, parameters), Looking(v)[handle[v]], {})
  BY <1>3, DetachedFollows
<1>5. Follows(Detached(Looking(v), v, parameters), heap[handle[v]], {})
  BY <1>2, <1>4, FollowsFollows
<1>6. Follows(Detached(heap, v, parameters), heap[handle[v]], {})
  BY <1>1, DetachedFollows
<1> QED BY <1>5, <1>6 DEF Follows

\* What detach() gives says what the Impl before says.
LEMMA DetachedSays ==
  ASSUME IInv, NEW v \in Variables, NEW parameters, NEW h, HeapOK(h),
         \A c \in Cells : Says(h[c]) = Says(heap[c])
  PROVE  Says(Detached(h, v, parameters)) = Says(heap[handle[v]])
<1>1. handle[v] \in Cells /\ h[handle[v]] \in Impl
  BY DEF IInv, TypeOK, HeapOK
<1>2. Says(Invalidated(h[handle[v]])) = Says(h[handle[v]])
  BY <1>1, InvalidatedSays
<1> QED BY <1>1, <1>2 DEF Detached

LEMMA LookingSays ==
  ASSUME IInv, NEW looked
  PROVE  LET g == [c \in Cells |-> IF c \in looked THEN Looked(heap[c]) ELSE heap[c]]
         IN  \A c \in Cells : Says(g[c]) = Says(heap[c])
<1>1. heap \in [Cells -> Impl]
  BY DEF IInv, TypeOK
<1> QED BY <1>1, LookedSays

LEMMA LookingAtSays ==
  ASSUME IInv, NEW v \in Variables
  PROVE  \A c \in Cells : Says(Looking(v)[c]) = Says(heap[c])
<1>1. heap \in [Cells -> Impl] /\ handle[v] \in Cells
  BY DEF IInv, TypeOK
<1> QED BY <1>1, LookedSays DEF Looking

-----------------------------------------------------------------------------
(* The trees of a heap *)

\* A set of cells that holds nothing else.
Closed(h, A) == A \subseteq Cells /\ \A c \in A : Targets(h[c]) \subseteq A

\* What agrees on a cell if it agrees on what the cell holds agrees.
LEMMA AgreeUpwards ==
  ASSUME NEW h, NoCycle(h), NEW A, Closed(h, A), NEW f, NEW g,
         \A c \in A : (\A d \in Targets(h[c]) : f[d] = g[d]) => f[c] = g[c]
  PROVE  \A c \in A : f[c] = g[c]
<1> DEFINE S == {c \in A : f[c] # g[c]}
<1>1. SUFFICES ASSUME S # {}  PROVE FALSE
  OBVIOUS
<1>2. S \in SUBSET Cells
  BY DEF Closed
<1>3. PICK c \in S : Targets(h[c]) \cap S = {}
  BY <1>1, <1>2 DEF NoCycle
<1>4. \A d \in Targets(h[c]) : f[d] = g[d]
  BY <1>3 DEF Closed
<1> QED BY <1>3, <1>4

\* f has the trees of these cells.
HasTrees(h, A, f) == \A c \in A : f[c] = ObjectTree(h[c], f)

LEMMA OneTreeEach ==
  ASSUME NEW h, NoCycle(h), NEW A, Closed(h, A), NEW f, HasTrees(h, A, f), NEW g, HasTrees(h, A, g)
  PROVE  \A c \in A : f[c] = g[c]
<1>1. ASSUME NEW c \in A, \A d \in Targets(h[c]) : f[d] = g[d]
      PROVE  f[c] = g[c]
  <2>1. ObjectTree(h[c], f) = ObjectTree(h[c], g)
    BY <1>1, TreeDepends
  <2> QED BY <2>1 DEF HasTrees
<1> QED BY <1>1, AgreeUpwards

\* Every cell of a good heap has a tree.
Rooted(h, c) == \E A, f : c \in A /\ Closed(h, A) /\ HasTrees(h, A, f)

LEMMA AllRooted ==
  ASSUME NEW h, HeapOK(h)
  PROVE  \E f : HasTrees(h, Cells, f)
<1> DEFINE Good == {c \in Cells : Rooted(h, c)}
           its(c) == CHOOSE p : c \in p[1] /\ Closed(h, p[1]) /\ HasTrees(h, p[1], p[2])
           all == [c \in Good |-> its(c)[2][c]]
<1>1. ASSUME NEW c \in Good
      PROVE  c \in its(c)[1] /\ Closed(h, its(c)[1]) /\ HasTrees(h, its(c)[1], its(c)[2])
  <2>1. PICK A, f : c \in A /\ Closed(h, A) /\ HasTrees(h, A, f)
    BY DEF Rooted
  <2> DEFINE p == <<A, f>>
  <2>2. c \in p[1] /\ Closed(h, p[1]) /\ HasTrees(h, p[1], p[2])
    BY <2>1
  <2> HIDE DEF p
  <2> QED BY <2>2
<1> HIDE DEF its
<1>2. ASSUME NEW A, Closed(h, A), NEW f, HasTrees(h, A, f)
      PROVE  A \subseteq Good /\ \A c \in A : f[c] = all[c]
  <2>1. A \subseteq Good
    BY <1>2 DEF Rooted, Closed
  <2>2. ASSUME NEW c \in A  PROVE f[c] = all[c]
    <3> DEFINE B == its(c)[1]
               g == its(c)[2]
               both == A \cap B
    <3>1. c \in B /\ Closed(h, B) /\ HasTrees(h, B, g)
      BY <1>1, <2>1
    <3> HIDE DEF B, g
    <3>2. Closed(h, both)
      BY <1>2, <3>1 DEF Closed
    <3>3. HasTrees(h, both, f) /\ HasTrees(h, both, g)
      BY <1>2, <3>1 DEF HasTrees
    <3>4. NoCycle(h)
      BY DEF HeapOK
    <3> HIDE DEF both
    <3>5. \A d \in both : f[d] = g[d]
      BY <3>2, <3>3, <3>4, OneTreeEach
    <3>6. f[c] = g[c]
      BY <3>1, <3>5 DEF both
    <3> QED BY <2>1, <3>6 DEF g
  <2> QED BY <2>1, <2>2
<1>3. Closed(h, Good) /\ HasTrees(h, Good, all)
  <2>1. ASSUME NEW c \in Good
        PROVE  Targets(h[c]) \subseteq Good /\ all[c] = ObjectTree(h[c], all)
    <3> DEFINE A == its(c)[1]
               f == its(c)[2]
    <3>1. c \in A /\ Closed(h, A) /\ HasTrees(h, A, f)
      BY <1>1
    <3> HIDE DEF A, f, all, Good
    <3>2. A \subseteq Good /\ \A d \in A : f[d] = all[d]
      BY <1>2, <3>1
    <3>3. Targets(h[c]) \subseteq A
      BY <3>1 DEF Closed
    <3>4. ObjectTree(h[c], f) = ObjectTree(h[c], all)
      BY <3>2, <3>3, TreeDepends
    <3> QED BY <3>1, <3>2, <3>3, <3>4 DEF HasTrees
  <2> HIDE DEF all
  <2> QED BY <2>1 DEF Closed, HasTrees
<1>4. Good = Cells
  <2>1. SUFFICES ASSUME Cells \ Good # {}  PROVE FALSE
    OBVIOUS
  <2>2. PICK c \in Cells \ Good : Targets(h[c]) \cap (Cells \ Good) = {}
    BY <2>1 DEF HeapOK, NoCycle
  <2>3. Targets(h[c]) \subseteq Good
    BY <2>2, TargetsAreCells DEF HeapOK
  <2> DEFINE A == Good \cup {c}
             f == [d \in A |-> IF d = c THEN ObjectTree(h[c], all) ELSE all[d]]
  <2> HIDE DEF all, Good
  <2>4. Closed(h, A)
    BY <1>3, <2>2, <2>3 DEF Closed
  <2>5. \A d \in Good : f[d] = all[d]
    BY <2>2
  <2>6. f[c] = ObjectTree(h[c], all)
    OBVIOUS
  <2> HIDE DEF f
  <2>7. ASSUME NEW d \in A  PROVE f[d] = ObjectTree(h[d], f)
    <3>1. \A e \in Targets(h[d]) : all[e] = f[e]
      BY <1>3, <2>3, <2>5 DEF Closed
    <3>2. ObjectTree(h[d], all) = ObjectTree(h[d], f)
      BY <3>1, TreeDepends
    <3>3. f[d] = ObjectTree(h[d], all)
      BY <1>3, <2>5, <2>6 DEF HasTrees
    <3> QED BY <3>2, <3>3
  <2>8. HasTrees(h, A, f)
    BY <2>7 DEF HasTrees
  <2>9. Rooted(h, c)
    BY <2>4, <2>8 DEF Rooted
  <2> QED BY <2>2, <2>9 DEF Good
<1> HIDE DEF all, Good
<1> QED BY <1>3, <1>4

LEMMA TreesAre ==
  ASSUME NEW h, HeapOK(h)
  PROVE  HasTrees(h, Cells, Trees(h))
<1>1. PICK f : HasTrees(h, Cells, f)
  BY AllRooted
<1> DEFINE g == [c \in Cells |-> f[c]]
<1>2. ASSUME NEW c \in Cells  PROVE g[c] = ObjectTree(h[c], g)
  <2>1. Targets(h[c]) \subseteq Cells
    BY TargetsAreCells DEF HeapOK
  <2>2. \A d \in Targets(h[c]) : f[d] = g[d]
    BY <2>1
  <2> HIDE DEF g
  <2>3. ObjectTree(h[c], f) = ObjectTree(h[c], g)
    BY <2>2, TreeDepends
  <2> QED BY <1>1, <2>3 DEF g, HasTrees
<1>3. g = [c \in Cells |-> ObjectTree(h[c], g)]
  BY <1>2
<1> HIDE DEF g
<1>4. Trees(h) = [c \in Cells |-> ObjectTree(h[c], Trees(h))]
  BY <1>3 DEF Trees
<1> HIDE DEF Trees
<1> QED BY <1>4 DEF HasTrees

LEMMA Unwritten ==
  ASSUME NEW h, HeapOK(h), NEW g, HeapOK(g), NEW A, Closed(h, A),
         \A c \in A : Says(g[c]) = Says(h[c])
  PROVE  \A c \in A : Trees(g)[c] = Trees(h)[c]
<1>1. HasTrees(h, Cells, Trees(h)) /\ HasTrees(g, Cells, Trees(g)) /\ A \subseteq Cells
  BY TreesAre DEF Closed
<1>2. HasTrees(h, A, Trees(h))
  BY <1>1 DEF HasTrees
<1>3. ASSUME NEW c \in A  PROVE Trees(g)[c] = ObjectTree(h[c], Trees(g))
  <2>1. Trees(g)[c] = ObjectTree(g[c], Trees(g))
    BY <1>1 DEF HasTrees
  <2>2. ObjectTree(g[c], Trees(g)) = ObjectTree(h[c], Trees(g))
    BY SameTree
  <2> QED BY <2>1, <2>2
<1>4. HasTrees(h, A, Trees(g))
  BY <1>3 DEF HasTrees
<1>5. NoCycle(h)
  BY DEF HeapOK
<1> QED BY <1>2, <1>4, <1>5, OneTreeEach

\* The tree of a variable's object
ItsTree(v) == Trees(heap)[handle[v]]

\* At the end of a step the objects in use stand for what they do in h.
LEMMA SettledTrees ==
  ASSUME NEW h, HeapOK(h), NEW hs \in [Variables -> Cells], Settle(h, hs)
  PROVE  \A v \in Variables : ItsTree(v)' = Trees(h)[hs[v]]
<1>1. PICK kept \in {Roots(hs) \cup more : more \in SUBSET (Cells \ Roots(hs))} :
        /\ kept = Roots(hs) \cup UNION {Targets(h[c]) : c \in kept}
        /\ heap' = [c \in Cells |-> IF c \in kept THEN h[c] ELSE EmptyImpl]
        /\ live' = kept
        /\ handle' = hs
  BY DEF Settle
<1>2. kept \subseteq Cells /\ Roots(hs) \subseteq kept
  BY DEF Roots
<1>3. \A c \in kept : heap'[c] = h[c] /\ Targets(h[c]) \subseteq kept
  BY <1>1, <1>2
<1>4. Closed(h, kept)
  BY <1>2, <1>3 DEF Closed
<1>5. HeapOK(heap')
  <2>1. HeapOK(heap)'
    BY SettleKeeps DEF IInv
  <2> QED BY <2>1 DEF HeapOK, NoCycle
<1>6. \A c \in kept : Says(heap'[c]) = Says(h[c])
  BY <1>3
<1>7. \A c \in kept : Trees(heap')[c] = Trees(h)[c]
  BY <1>4, <1>5, <1>6, Unwritten
<1>8. ASSUME NEW v \in Variables  PROVE ItsTree(v)' = Trees(h)[hs[v]]
  <2>1. hs[v] \in kept
    BY <1>2 DEF Roots
  <2>2. ItsTree(v)' = Trees(heap')[handle'[v]]
    BY DEF ItsTree, Trees, ObjectTree, AttributeTree, ValuesTree, ValueTree
  <2> QED BY <1>1, <1>7, <2>1, <2>2
<1> QED BY <1>8

\* What is in use, without a cell that nothing holds.
LEMMA UseIsClosed ==
  ASSUME IInv, NEW cell, \A c \in Cells : cell \notin Targets(heap[c])
  PROVE  Closed(heap, live) /\ Closed(heap, live \ {cell})
<1>1. live \subseteq Cells /\ \A c \in Cells : Targets(heap[c]) \subseteq live
  BY TargetsInUse DEF IInv, TypeOK
<1> QED BY <1>1 DEF Closed

\* A write changes the object of v alone.
LEMMA WriteTrees ==
  ASSUME IInv, NEW v \in Variables, NEW parameters, Held(parameters) \subseteq live,
         NEW h, HeapOK(h), \A c \in Cells : Says(h[c]) = Says(heap[c]),
         NEW impl, Follows(impl, heap[handle[v]], Held(parameters)),
         Write(h, v, parameters, impl)
  PROVE  /\ \A w \in Variables \ {v} : ItsTree(w)' = ItsTree(w)
         /\ ItsTree(v)' = ObjectTree(impl, Trees(heap))
<1> DEFINE cell == IF Shared(v, parameters) THEN NewCell ELSE handle[v]
           g == [h EXCEPT ![cell] = impl]
           hs == [handle EXCEPT ![v] = cell]
<1>1. /\ Shared(v, parameters) => FreeCells # {}
      /\ Settle(g, hs)
  BY DEF Write
<1>2. \A w \in Variables \ {v} : handle[w] # cell
  <2>1. CASE Shared(v, parameters)
    <3>1. cell \notin live
      BY <1>1, <2>1, NewCellIsFree
    <3> QED BY <3>1 DEF IInv, TypeOK
  <2>2. CASE ~Shared(v, parameters)
    BY <2>2 DEF Shared
  <2> QED BY <2>1, <2>2
<1>3. /\ cell \in Cells
      /\ \A c \in Cells : cell \notin Targets(heap[c])
      /\ cell \notin Held(parameters)
  BY <1>1, WrittenCell
<1> HIDE DEF cell
<1>4. handle \in [Variables -> live] /\ live \subseteq Cells /\ heap \in [Cells -> Impl]
  BY DEF IInv, TypeOK
<1>5. \A c \in Cells : Targets(h[c]) = Targets(heap[c])
  BY SameTree
<1>6. cell \notin Targets(impl) /\ ImplOK(impl) /\ Targets(impl) \subseteq live \ {cell}
  <2>1. Targets(heap[handle[v]]) \subseteq live /\ cell \notin Targets(heap[handle[v]])
    BY <1>3, <1>4, TargetsInUse
  <2> QED BY <1>3, <2>1 DEF Follows
<1>7. HeapOK(g)
  BY <1>3, <1>5, <1>6, PutKeeps
<1>8. hs \in [Variables -> Cells]
  BY <1>3, <1>4
<1>9. DOMAIN h = Cells
  BY DEF HeapOK
<1>10. /\ g[cell] = impl
       /\ \A c \in live \ {cell} : Says(g[c]) = Says(heap[c])
       /\ hs[v] = cell
       /\ \A w \in Variables \ {v} : hs[w] = handle[w]
  BY <1>3, <1>4, <1>9
<1> HIDE DEF g, hs
<1>11. HeapOK(heap) /\ Closed(heap, live \ {cell})
  BY <1>3, UseIsClosed DEF IInv
<1>12. \A c \in live \ {cell} : Trees(g)[c] = Trees(heap)[c]
  BY <1>7, <1>10, <1>11, Unwritten
<1>13. \A w \in Variables : ItsTree(w)' = Trees(g)[hs[w]]
  BY <1>1, <1>7, <1>8, SettledTrees
<1>14. ASSUME NEW w \in Variables \ {v}  PROVE ItsTree(w)' = ItsTree(w)
  <2>1. hs[w] = handle[w] /\ handle[w] \in live \ {cell}
    BY <1>2, <1>4, <1>10
  <2> QED BY <1>12, <1>13, <2>1 DEF ItsTree
<1>15. Trees(g)[cell] = ObjectTree(impl, Trees(g))
  BY <1>3, <1>7, <1>10, TreesAre DEF HasTrees
<1>16. ObjectTree(impl, Trees(g)) = ObjectTree(impl, Trees(heap))
  BY <1>6, <1>12, TreeDepends
<1> QED BY <1>10, <1>13, <1>14, <1>15, <1>16

-----------------------------------------------------------------------------
(* The operations that write *)

\* A write through v of what follows from the detached Impl, into the heap as it was or as it is
\* after looking.
LEMMA WriteOfDetached ==
  ASSUME IInv, NEW v \in Variables, NEW parameters, Held(parameters) \subseteq live,
         NEW h \in {heap, Looking(v)}, NEW impl,
         Follows(impl, Detached(h, v, parameters), Held(parameters)),
         Write(h, v, parameters, impl)
  PROVE  IInv'
<1>1. HeapOK(h) /\ \A c \in Cells : Targets(h[c]) = Targets(heap[c])
  BY LookingIs DEF IInv
<1>2. Follows(Detached(h, v, parameters), heap[handle[v]], {})
  BY DetachedIs
<1>3. Follows(impl, heap[handle[v]], Held(parameters))
  BY <1>2, FollowsFollows
<1> QED BY <1>1, <1>3, WriteKeeps

\* The values a program can make, as the trees they stand for.
TreeArguments == {Values!Text(t) : t \in Texts} \cup {Values!Tree(ItsTree(w)) : w \in Variables}

\* A write through v of what follows from the detached Impl, into the heap as it was or as it is
\* after looking, that changes the tree as one operation may.
Writing(v) ==
  \E parameters, h, impl :
    /\ Held(parameters) \subseteq live
    /\ h \in {heap, Looking(v)}
    /\ Follows(impl, Detached(h, v, parameters), Held(parameters))
    /\ Becomes(ObjectTree(Detached(h, v, parameters), Trees(heap)),
               ObjectTree(impl, Trees(heap)), TreeArguments)
    /\ Write(h, v, parameters, impl)

LEMMA WritingIs ==
  ASSUME NEW v, NEW parameters, NEW h \in {heap, Looking(v)}, NEW impl,
         Held(parameters) \subseteq live,
         Follows(impl, Detached(h, v, parameters), Held(parameters)),
         Becomes(ObjectTree(Detached(h, v, parameters), Trees(heap)),
                 ObjectTree(impl, Trees(heap)), TreeArguments),
         Write(h, v, parameters, impl)
  PROVE  Writing(v)
BY DEF Writing

LEMMA ArgumentTrees ==
  ASSUME NEW a \in Arguments
  PROVE  ValueTree(a, Trees(heap)) \in TreeArguments
<1>1. ASSUME NEW t \in Texts, a = Primitive(t)
      PROVE  ValueTree(a, Trees(heap)) \in TreeArguments
  <2>1. ValueTree(a, Trees(heap)) = Values!Text(t)
    BY <1>1 DEF ValueTree, Primitive, Values!Text
  <2> QED BY <2>1 DEF TreeArguments
<1>2. ASSUME NEW w \in Variables, a = Object(handle[w])
      PROVE  ValueTree(a, Trees(heap)) \in TreeArguments
  <2> DEFINE T == Trees(heap)
  <2> HIDE DEF T
  <2>1. ValueTree(a, T) = Values!Tree(T[handle[w]])
    BY <1>2 DEF ValueTree, Object, Values!Tree
  <2>2. T[handle[w]] = ItsTree(w)
    BY DEF ItsTree, T
  <2> QED BY <2>1, <2>2 DEF TreeArguments, T
<1> QED BY <1>1, <1>2 DEF Arguments

LEMMA SetFieldWrites == ASSUME IInv, NEW v \in Variables, SetField(v) PROVE Writing(v)
<1> DEFINE old == Detached(heap, v, <<>>)
<1>1. PICK f \in Fields : Write(heap, v, <<>>, [old EXCEPT !.fields = f])
  BY DEF SetField
<1> DEFINE new == [old EXCEPT !.fields = f]
<1>2. ImplOK(old)
  BY DetachedIs
<1> HIDE DEF old
<1>3. old \in Impl
  BY <1>2 DEF ImplOK
<1>4. /\ new \in Impl /\ new.attributes = old.attributes /\ new.fields = f
      /\ new.lookup = old.lookup /\ new.lookupValid = old.lookupValid
  BY <1>3 DEF Impl
<1> HIDE DEF new
<1>5. \A k \in Keys : Places(new, k) = Places(old, k)
  BY <1>4 DEF Places
<1>6. \A k \in Keys : IndexOf(new, k) = IndexOf(old, k)
  BY <1>2, <1>3, <1>4, <1>5, SameIndex DEF ImplOK
<1>7. ImplOK(new) /\ Targets(new) = Targets(old)
  BY <1>2, <1>4, <1>5, <1>6, SameTargets DEF ImplOK
<1>8. Follows(new, old, Held(<<>>))
  BY <1>7, NothingHeld DEF Follows
<1>9. \A T : Becomes(ObjectTree(old, T), ObjectTree(new, T), TreeArguments)
  <2> TAKE T
  <2> DEFINE its == [i \in DOMAIN old.attributes |-> AttributeTree(old.attributes[i], T)]
  <2>1. ObjectTree(old, T) = [fields |-> old.fields, attributes |-> its]
    BY DEF ObjectTree
  <2>2. ObjectTree(new, T) = [fields |-> f, attributes |-> its]
    BY <1>4 DEF ObjectTree
  <2> HIDE DEF its
  <2>3. ObjectTree(new, T) = [ObjectTree(old, T) EXCEPT !.fields = f]
    BY <2>1, <2>2
  <2> QED BY <2>3 DEF Becomes, Values!Edited
<1> QED BY <1>1, <1>8, <1>9, NothingHeld, WritingIs DEF old, new

LEMMA ClearAttributesWrites == ASSUME IInv, NEW v \in Variables, ClearAttributes(v) PROVE Writing(v)
<1> DEFINE old == Detached(heap, v, <<>>)
           cleared == [old EXCEPT !.attributes = <<>>]
<1>1. ImplOK(old)
  BY DetachedIs
<1>2. Write(heap, v, <<>>, Invalidated(cleared))
  BY DEF ClearAttributes
<1> HIDE DEF old
<1>3. old \in Impl
  BY <1>1 DEF ImplOK
<1>4. cleared.attributes = <<>> /\ cleared.fields = old.fields
  BY <1>3 DEF Impl
<1>5. <<>> \in Seq(Attribute)
  OBVIOUS
<1>6. cleared \in Impl
  BY <1>3, <1>5 DEF Impl
<1> HIDE DEF cleared
<1>7. \A k \in Keys : Places(cleared, k) = {}
  BY <1>4 DEF Places
<1>8. ImplOK(Invalidated(cleared)) /\ Invalidated(cleared).attributes = <<>>
  BY <1>4, <1>6, <1>7, InvalidatedFollows
<1>9. Targets(Invalidated(cleared)) = {}
  BY <1>8 DEF Targets
<1>10. Follows(Invalidated(cleared), old, Held(<<>>))
  BY <1>8, <1>9 DEF Follows
<1>11. \A T : Becomes(ObjectTree(old, T), ObjectTree(Invalidated(cleared), T), TreeArguments)
  <2> TAKE T
  <2>1. Says(Invalidated(cleared)) = Says(cleared)
    BY <1>6, InvalidatedSays
  <2> DEFINE its == [i \in DOMAIN old.attributes |-> AttributeTree(old.attributes[i], T)]
  <2>2. ObjectTree(old, T) = [fields |-> old.fields, attributes |-> its]
    BY DEF ObjectTree
  <2>3. ObjectTree(cleared, T) = [fields |-> old.fields, attributes |-> <<>>]
    BY <1>4 DEF ObjectTree
  <2> HIDE DEF its
  <2>4. ObjectTree(Invalidated(cleared), T) = [ObjectTree(old, T) EXCEPT !.attributes = <<>>]
    BY <2>1, <2>2, <2>3, SameTree
  <2> QED BY <2>4 DEF Becomes, Values!Edited
<1> QED BY <1>2, <1>10, <1>11, NothingHeld, WritingIs DEF old

LEMMA SetValueWrites == ASSUME IInv, NEW v \in Variables, SetValue(v) PROVE Writing(v)
<1>1. PICK k \in Keys, a \in Arguments :
        Write(heap, v, <<a>>, Assigned(Detached(heap, v, <<a>>), k, a))
  BY DEF SetValue
<1> DEFINE old == Detached(heap, v, <<a>>)
<1>2. ImplOK(old)
  BY DetachedIs
<1>3. a \in Value /\ Held(<<a>>) \subseteq live /\ ValueTree(a, Trees(heap)) \in TreeArguments
  BY ArgumentsAreValues, ArgumentTrees
<1> HIDE DEF old
<1>4. Follows(Assigned(old, k, a), old, Held(<<a>>))
  BY <1>2, <1>3, AssignedFollows
<1>5. Becomes(ObjectTree(old, Trees(heap)), ObjectTree(Assigned(old, k, a), Trees(heap)), TreeArguments)
  BY <1>2, <1>3, AssignedBecomes
<1> QED BY <1>1, <1>3, <1>4, <1>5, WritingIs DEF old

LEMMA AppendValueWrites == ASSUME IInv, NEW v \in Variables, AppendValue(v) PROVE Writing(v)
<1>1. PICK k \in Keys, a \in Arguments :
        Write(Looking(v), v, <<a>>,
              Inserted(Detached(Looking(v), v, <<a>>), k, Len(ValuesOf(heap[handle[v]], k)), a))
  BY DEF AppendValue
<1> DEFINE old == Detached(Looking(v), v, <<a>>)
           at == Len(ValuesOf(heap[handle[v]], k))
<1>2. ImplOK(old) /\ ImplOK(heap[handle[v]])
  BY DetachedIs DEF IInv, TypeOK, HeapOK
<1>3. a \in Value /\ Held(<<a>>) \subseteq live /\ ValueTree(a, Trees(heap)) \in TreeArguments
  BY ArgumentsAreValues, ArgumentTrees
<1>4. at \in Nat
  <2> DEFINE i == LookupOf(heap[handle[v]])[k]
  <2>1. CASE i = 0
    BY <2>1 DEF ValuesOf, ValuesAt
  <2>2. CASE i # 0
    <3>1. i \in DOMAIN heap[handle[v]].attributes
      BY <1>2, <2>2, LookupFinds
    <3>2. ValuesAt(heap[handle[v]], i) \in Seq(Value)
      BY <1>2, <3>1, ValuesThere
    <3> QED BY <3>2 DEF ValuesOf
  <2> QED BY <2>1, <2>2
<1> HIDE DEF at, old
<1>5. Follows(Inserted(old, k, at, a), old, Held(<<a>>))
  BY <1>2, <1>3, <1>4, InsertedFollows
<1>6. Becomes(ObjectTree(old, Trees(heap)), ObjectTree(Inserted(old, k, at, a), Trees(heap)),
              TreeArguments)
  BY <1>2, <1>3, <1>4, InsertedBecomes
<1> QED BY <1>1, <1>3, <1>5, <1>6, WritingIs DEF at, old

LEMMA InsertValueWrites == ASSUME IInv, NEW v \in Variables, InsertValue(v) PROVE Writing(v)
<1>1. PICK k \in Keys, at \in Indexes, a \in Arguments :
        Write(heap, v, <<a>>, Inserted(Detached(heap, v, <<a>>), k, at, a))
  BY DEF InsertValue
<1> DEFINE old == Detached(heap, v, <<a>>)
<1>2. ImplOK(old) /\ at \in Nat
  BY DetachedIs, IndexesAssumption
<1>3. a \in Value /\ Held(<<a>>) \subseteq live /\ ValueTree(a, Trees(heap)) \in TreeArguments
  BY ArgumentsAreValues, ArgumentTrees
<1> HIDE DEF old
<1>4. Follows(Inserted(old, k, at, a), old, Held(<<a>>))
  BY <1>2, <1>3, InsertedFollows
<1>5. Becomes(ObjectTree(old, Trees(heap)), ObjectTree(Inserted(old, k, at, a), Trees(heap)),
              TreeArguments)
  BY <1>2, <1>3, InsertedBecomes
<1> QED BY <1>1, <1>3, <1>4, <1>5, WritingIs DEF old

LEMMA ReplaceValueWrites == ASSUME IInv, NEW v \in Variables, ReplaceValue(v) PROVE Writing(v)
<1>1. PICK k \in Keys, at \in Indexes, a \in Arguments :
        Write(heap, v, <<a>>, Replaced(Detached(heap, v, <<a>>), k, at, a))
  BY DEF ReplaceValue
<1> DEFINE old == Detached(heap, v, <<a>>)
<1>2. ImplOK(old) /\ at \in Nat
  BY DetachedIs, IndexesAssumption
<1>3. a \in Value /\ Held(<<a>>) \subseteq live /\ ValueTree(a, Trees(heap)) \in TreeArguments
  BY ArgumentsAreValues, ArgumentTrees
<1> HIDE DEF old
<1>4. Follows(Replaced(old, k, at, a), old, Held(<<a>>))
  BY <1>2, <1>3, ReplacedFollows
<1>5. Becomes(ObjectTree(old, Trees(heap)), ObjectTree(Replaced(old, k, at, a), Trees(heap)),
              TreeArguments)
  BY <1>2, <1>3, ReplacedBecomes
<1> QED BY <1>1, <1>3, <1>4, <1>5, WritingIs DEF old

LEMMA EraseValueWrites == ASSUME IInv, NEW v \in Variables, EraseValue(v) PROVE Writing(v)
<1>1. PICK k \in Keys, at \in Indexes :
        Write(heap, v, <<>>, ErasedValue(Detached(heap, v, <<>>), k, at))
  BY DEF EraseValue
<1> DEFINE old == Detached(heap, v, <<>>)
<1>2. ImplOK(old) /\ at \in Nat
  BY DetachedIs, IndexesAssumption
<1> HIDE DEF old
<1>3. Follows(ErasedValue(old, k, at), old, Held(<<>>))
  BY <1>2, ErasedFollows, NothingHeld
<1>4. Becomes(ObjectTree(old, Trees(heap)), ObjectTree(ErasedValue(old, k, at), Trees(heap)),
              TreeArguments)
  BY <1>2, ErasedBecomes
<1> QED BY <1>1, <1>3, <1>4, NothingHeld, WritingIs DEF old

LEMMA EraseAttributeWrites == ASSUME IInv, NEW v \in Variables, EraseAttribute(v) PROVE Writing(v)
<1>1. PICK k \in Keys :
        Write(heap, v, <<>>, ErasedAttribute(Detached(heap, v, <<>>), k))
  BY DEF EraseAttribute
<1> DEFINE old == Detached(heap, v, <<>>)
<1>2. ImplOK(old) /\ 0 \in Nat
  BY DetachedIs
<1> HIDE DEF old
<1>3. Follows(ErasedAttribute(old, k), old, Held(<<>>))
  BY <1>2, ErasedFollows, NothingHeld
<1>4. Becomes(ObjectTree(old, Trees(heap)), ObjectTree(ErasedAttribute(old, k), Trees(heap)),
              TreeArguments)
  BY <1>2, ErasedBecomes
<1> QED BY <1>1, <1>3, <1>4, NothingHeld, WritingIs DEF old

LEMMA WritesAre ==
  ASSUME IInv, NEW v \in Variables,
         \/ SetField(v) \/ SetValue(v) \/ AppendValue(v) \/ InsertValue(v)
         \/ ReplaceValue(v) \/ EraseValue(v) \/ EraseAttribute(v) \/ ClearAttributes(v)
  PROVE  Writing(v)
BY SetFieldWrites, SetValueWrites, AppendValueWrites, InsertValueWrites, ReplaceValueWrites,
   EraseValueWrites, EraseAttributeWrites, ClearAttributesWrites

LEMMA WritingKeeps ==
  ASSUME IInv, NEW v \in Variables, Writing(v) PROVE IInv'
<1>1. PICK parameters, h, impl :
        /\ Held(parameters) \subseteq live
        /\ h \in {heap, Looking(v)}
        /\ Follows(impl, Detached(h, v, parameters), Held(parameters))
        /\ Write(h, v, parameters, impl)
  BY DEF Writing
<1> QED BY <1>1, WriteOfDetached

-----------------------------------------------------------------------------
(* The other operations *)

LEMMA CreateKeeps == ASSUME IInv, NEW v \in Variables, Create(v) PROVE IInv'
<1>1. NewCell \in Cells \ live
  BY NewCellIsFree DEF Create
<1>2. \A c \in Cells : NewCell \notin Targets(heap[c])
  BY <1>1, TargetsInUse
<1>3. HeapOK([heap EXCEPT ![NewCell] = EmptyImpl])
  BY <1>1, <1>2, EmptyImplOK, PutKeeps DEF IInv
<1>4. [handle EXCEPT ![v] = NewCell] \in [Variables -> Cells]
  BY <1>1 DEF IInv, TypeOK
<1> QED BY <1>3, <1>4, SettleKeeps DEF Create

LEMMA CopyKeeps == ASSUME IInv, NEW v \in Variables, NEW w \in Variables, Copy(v, w) PROVE IInv'
<1>1. [handle EXCEPT ![w] = handle[v]] \in [Variables -> Cells]
  BY DEF IInv, TypeOK
<1> QED BY <1>1, SettleKeeps DEF Copy, IInv

LEMMA ReadKeeps == ASSUME IInv, NEW v \in Variables, Read(v) PROVE IInv'
<1>1. handle \in [Variables -> Cells]
  BY DEF IInv, TypeOK
<1> QED BY <1>1, LookingIs, SettleKeeps DEF Read

LEMMA TakeObjectKeeps ==
  ASSUME IInv, NEW v \in Variables, NEW w \in Variables, TakeObject(v, w) PROVE IInv'
<1>0. PICK k \in Keys : \E value \in ToSet(ValuesOf(heap[handle[v]], k)) :
        value.isObject /\ Settle(Looking(v), [handle EXCEPT ![w] = value.of])
  BY DEF TakeObject
<1>1. PICK value \in ToSet(ValuesOf(heap[handle[v]], k)) :
        value.isObject /\ Settle(Looking(v), [handle EXCEPT ![w] = value.of])
  BY <1>0
<1> DEFINE impl == heap[handle[v]]
           i == LookupOf(impl)[k]
<1>2. ImplOK(impl)
  BY DEF IInv, TypeOK, HeapOK
<1>3. i # 0
  BY <1>1 DEF ValuesOf, ValuesAt, ToSet
<1>4. i \in DOMAIN impl.attributes
  BY <1>2, <1>3, LookupFinds
<1>5. ValuesAt(impl, i) \in Seq(Value) \ {<<>>}
  BY <1>2, <1>4, ValuesThere
<1>6. value \in Value
  BY <1>1, <1>5 DEF ValuesOf, ToSet
<1>7. value.of \in Cells
  BY <1>1, <1>6 DEF Value, Primitive, Object
<1>8. [handle EXCEPT ![w] = value.of] \in [Variables -> Cells]
  BY <1>7 DEF IInv, TypeOK
<1> QED BY <1>1, <1>8, LookingIs, SettleKeeps

LEMMA PrimitiveMatchesKeeps ==
  ASSUME IInv, NEW v \in Variables, PrimitiveMatches(v) PROVE IInv'
<1>1. PICK path \in Paths : Settle(LookedInto(Traversal(v, path)), handle)
  BY DEF PrimitiveMatches
<1>2. HeapOK(LookedInto(Traversal(v, path)))
  BY LookingKeeps DEF LookedInto, IInv
<1>3. handle \in [Variables -> Cells]
  BY DEF IInv, TypeOK
<1> QED BY <1>1, <1>2, <1>3, SettleKeeps

-----------------------------------------------------------------------------
(* deepCopy *)

LEMMA ObjectPlacesAre ==
  ASSUME NEW impl, NEW i \in DOMAIN impl.attributes, NEW j \in DOMAIN impl.attributes[i].values,
         impl.attributes[i].values[j].isObject
  PROVE  <<i, j>> \in ObjectPlaces(impl)
BY DEF ObjectPlaces

\* The copy has the keys of the original, and holds only the objects it is given.
LEMMA CopyOfIs ==
  ASSUME NEW impl, ImplOK(impl), NEW to \in [ObjectPlaces(impl) -> Cells]
  PROVE  /\ ImplOK(CopyOf(impl, to))
         /\ Targets(CopyOf(impl, to)) \subseteq {to[p] : p \in ObjectPlaces(impl)}
<1> DEFINE value(i, j) == IF impl.attributes[i].values[j].isObject
                          THEN Object(to[<<i, j>>]) ELSE impl.attributes[i].values[j]
           values(i) == [j \in DOMAIN impl.attributes[i].values |-> value(i, j)]
           entry(i) == [impl.attributes[i] EXCEPT !.values = values(i)]
           built == [impl EXCEPT !.attributes = [i \in DOMAIN impl.attributes |-> entry(i)]]
<1>1. impl \in Impl /\ impl.attributes \in Seq(Attribute)
  BY DEF ImplOK, Impl
<1>2. ASSUME NEW i \in DOMAIN impl.attributes
      PROVE  /\ impl.attributes[i] \in Attribute
             /\ impl.attributes[i].values \in Seq(Value) \ {<<>>}
             /\ DOMAIN impl.attributes[i].values = 1 .. Len(impl.attributes[i].values)
  <2>1. impl.attributes[i] \in Attribute
    BY <1>1
  <2>2. impl.attributes[i].values \in Seq(Value) \ {<<>>}
    BY <2>1 DEF Attribute
  <2> QED BY <2>1, <2>2
<1>3. ASSUME NEW i \in DOMAIN impl.attributes, NEW j \in DOMAIN impl.attributes[i].values
      PROVE  /\ value(i, j) \in Value
             /\ value(i, j).isObject => value(i, j).of \in {to[p] : p \in ObjectPlaces(impl)}
  <2>1. CASE impl.attributes[i].values[j].isObject
    <3>1. <<i, j>> \in ObjectPlaces(impl)
      BY <2>1, ObjectPlacesAre
    <3>2. to[<<i, j>>] \in Cells
      BY <3>1
    <3>3. value(i, j) = Object(to[<<i, j>>])
      BY <2>1
    <3>4. Object(to[<<i, j>>]) \in Value
      BY <3>2 DEF Value
    <3>5. Object(to[<<i, j>>]).of = to[<<i, j>>]
      BY DEF Object
    <3> QED BY <3>1, <3>3, <3>4, <3>5
  <2>2. CASE ~impl.attributes[i].values[j].isObject
    <3>1. value(i, j) = impl.attributes[i].values[j]
      BY <2>2
    <3>2. impl.attributes[i].values[j] \in Value
      BY <1>2
    <3> QED BY <2>2, <3>1, <3>2
  <2> QED BY <2>1, <2>2
<1> HIDE DEF value
<1>4. ASSUME NEW i \in DOMAIN impl.attributes
      PROVE  /\ values(i) \in Seq(Value) \ {<<>>}
             /\ Held(values(i)) \subseteq {to[p] : p \in ObjectPlaces(impl)}
  <2>1. values(i) \in [1 .. Len(impl.attributes[i].values) -> Value]
    BY <1>2, <1>3
  <2>2. Len(impl.attributes[i].values) \in Nat /\ Len(impl.attributes[i].values) # 0
    BY <1>2
  <2>3. values(i) \in Seq(Value) /\ Len(values(i)) = Len(impl.attributes[i].values)
    BY <2>1, <2>2
  <2>4. \A x \in ToSet(values(i)) :
           x.isObject => x.of \in {to[p] : p \in ObjectPlaces(impl)}
    BY <1>3 DEF ToSet
  <2>5. Held(values(i)) \subseteq {to[p] : p \in ObjectPlaces(impl)}
    BY <2>4 DEF Held
  <2> QED BY <2>2, <2>3, <2>5
<1> HIDE DEF values
<1>5. ASSUME NEW i \in DOMAIN impl.attributes
      PROVE  /\ entry(i) \in Attribute
             /\ entry(i).key = impl.attributes[i].key
             /\ entry(i).values = values(i)
  BY <1>2, <1>4 DEF Attribute
<1> HIDE DEF entry
<1>6. built.attributes = [i \in DOMAIN impl.attributes |-> entry(i)]
  BY <1>1 DEF Impl
<1>7. DOMAIN impl.attributes = 1 .. Len(impl.attributes) /\ Len(impl.attributes) \in Nat
  BY <1>1
<1>8. built.attributes \in Seq(Attribute)
  BY <1>5, <1>6, <1>7
<1>9. built \in Impl
  BY <1>1, <1>8 DEF Impl
<1>10. CopyOf(impl, to) = IF impl.attributes # <<>> /\ Len(Last(impl.attributes).values) > 1
                          THEN Looked(Invalidated(built)) ELSE Invalidated(built)
  BY DEF CopyOf, entry, values, value
<1> HIDE DEF built
<1>11. \A k \in Keys : Places(built, k) = Places(impl, k)
  BY <1>5, <1>6 DEF Places
<1>12. ImplOK(Invalidated(built)) /\ Targets(Invalidated(built)) = Targets(built)
  BY <1>9, <1>11, InvalidatedFollows, SameTargets DEF ImplOK
<1>13. ImplOK(Looked(Invalidated(built))) /\ Targets(Looked(Invalidated(built))) = Targets(built)
  BY <1>12, LookedFollows, SameTargets
<1>14. Targets(built) \subseteq {to[p] : p \in ObjectPlaces(impl)}
  BY <1>4, <1>5, <1>6 DEF Targets
<1> QED BY <1>10, <1>12, <1>13, <1>14

\* What is at the place of an object is held.
LEMMA ObjectPlaceHeld ==
  ASSUME NEW impl, NEW p \in ObjectPlaces(impl)
  PROVE  impl.attributes[p[1]].values[p[2]].of \in Targets(impl)
<1>1. PICK i \in DOMAIN impl.attributes :
        \E j \in DOMAIN impl.attributes[i].values :
          impl.attributes[i].values[j].isObject /\ p = <<i, j>>
  BY DEF ObjectPlaces
<1>2. PICK j \in DOMAIN impl.attributes[i].values :
        impl.attributes[i].values[j].isObject /\ p = <<i, j>>
  BY <1>1
<1>3. impl.attributes[i].values[j].of \in Held(impl.attributes[i].values)
  BY <1>2 DEF Held, ToSet
<1> QED BY <1>2, <1>3 DEF Targets

\* What a copy says: what the original says, with the objects of to.
CopiedValues(impl, i, to) ==
  [j \in DOMAIN impl.attributes[i].values |->
     IF impl.attributes[i].values[j].isObject
     THEN Object(to[<<i, j>>]) ELSE impl.attributes[i].values[j]]

LEMMA CopyOfSays ==
  ASSUME NEW impl, ImplOK(impl), NEW to
  PROVE  /\ CopyOf(impl, to).fields = impl.fields
         /\ DOMAIN CopyOf(impl, to).attributes = DOMAIN impl.attributes
         /\ \A i \in DOMAIN impl.attributes :
              /\ CopyOf(impl, to).attributes[i].key = impl.attributes[i].key
              /\ CopyOf(impl, to).attributes[i].values = CopiedValues(impl, i, to)
<1> DEFINE its == [i \in DOMAIN impl.attributes |->
                     [impl.attributes[i] EXCEPT !.values = CopiedValues(impl, i, to)]]
           built == [impl EXCEPT !.attributes = its]
<1>1. impl \in Impl /\ impl.attributes \in Seq(Attribute)
  BY DEF ImplOK, Impl
<1>2. ASSUME NEW i \in DOMAIN impl.attributes
      PROVE  its[i].key = impl.attributes[i].key /\ its[i].values = CopiedValues(impl, i, to)
  <2>1. impl.attributes[i] \in Attribute
    BY <1>1
  <2>2. its[i] = [impl.attributes[i] EXCEPT !.values = CopiedValues(impl, i, to)]
    OBVIOUS
  <2> HIDE DEF its
  <2> QED BY <2>1, <2>2 DEF Attribute
<1>3. DOMAIN its = DOMAIN impl.attributes
  OBVIOUS
<1>4. CopyOf(impl, to) \in {Looked(Invalidated(built)), Invalidated(built)}
  BY DEF CopyOf, CopiedValues
<1> HIDE DEF its
<1>5. Invalidated(built).fields = impl.fields /\ Invalidated(built).attributes = its
      /\ Looked(Invalidated(built)).fields = impl.fields
      /\ Looked(Invalidated(built)).attributes = its
  BY <1>1 DEF Invalidated, Looked, Impl
<1> HIDE DEF built
<1> QED BY <1>2, <1>3, <1>4, <1>5

\* A copy holds what to gives, and stands for what the original stands for if what to gives
\* stands for what the original holds.
LEMMA CopyTree ==
  ASSUME NEW impl, ImplOK(impl), NEW to
  PROVE  /\ \A p \in ObjectPlaces(impl) : to[p] \in Targets(CopyOf(impl, to))
         /\ \A f, g :
              (\A p \in ObjectPlaces(impl) : g[to[p]] = f[impl.attributes[p[1]].values[p[2]].of])
                => ObjectTree(CopyOf(impl, to), g) = ObjectTree(impl, f)
<1> DEFINE copy == CopyOf(impl, to)
<1>1. /\ copy.fields = impl.fields
      /\ DOMAIN copy.attributes = DOMAIN impl.attributes
      /\ \A i \in DOMAIN impl.attributes :
           /\ copy.attributes[i].key = impl.attributes[i].key
           /\ copy.attributes[i].values = CopiedValues(impl, i, to)
  BY CopyOfSays
<1> HIDE DEF copy
<1>2. ASSUME NEW p \in ObjectPlaces(impl)  PROVE to[p] \in Targets(copy)
  <2>1. PICK i \in DOMAIN impl.attributes :
          \E j \in DOMAIN impl.attributes[i].values :
            impl.attributes[i].values[j].isObject /\ p = <<i, j>>
    BY DEF ObjectPlaces
  <2>2. PICK j \in DOMAIN impl.attributes[i].values :
          impl.attributes[i].values[j].isObject /\ p = <<i, j>>
    BY <2>1
  <2>3. /\ i \in DOMAIN copy.attributes
        /\ copy.attributes[i].values = CopiedValues(impl, i, to)
    BY <1>1
  <2>4. j \in DOMAIN CopiedValues(impl, i, to) /\ CopiedValues(impl, i, to)[j] = Object(to[p])
    BY <2>2 DEF CopiedValues
  <2>5. Object(to[p]).isObject /\ Object(to[p]).of = to[p]
    BY DEF Object
  <2> QED BY <2>3, <2>4, <2>5, ValueHeld
<1>3. ASSUME NEW f, NEW g,
             \A p \in ObjectPlaces(impl) : g[to[p]] = f[impl.attributes[p[1]].values[p[2]].of]
      PROVE  ObjectTree(copy, g) = ObjectTree(impl, f)
  <2>1. ASSUME NEW i \in DOMAIN impl.attributes, NEW j \in DOMAIN impl.attributes[i].values
        PROVE  ValueTree(CopiedValues(impl, i, to)[j], g) = ValueTree(impl.attributes[i].values[j], f)
    <3> DEFINE x == impl.attributes[i].values[j]
    <3>1. CopiedValues(impl, i, to)[j] = IF x.isObject THEN Object(to[<<i, j>>]) ELSE x
      BY DEF CopiedValues
    <3>2. CASE x.isObject
      <4>1. <<i, j>> \in ObjectPlaces(impl)
        BY <3>2, ObjectPlacesAre
      <4>2. g[to[<<i, j>>]] = f[x.of]
        BY <1>3, <4>1
      <4> HIDE DEF x
      <4>3. CopiedValues(impl, i, to)[j] = Object(to[<<i, j>>])
        BY <3>1, <3>2
      <4>4. ValueTree(x, f) = [isObject |-> TRUE, of |-> f[x.of]]
        BY <3>2 DEF ValueTree
      <4>5. ValueTree(Object(to[<<i, j>>]), g) = [isObject |-> TRUE, of |-> g[to[<<i, j>>]]]
        BY DEF ValueTree, Object
      <4> QED BY <4>2, <4>3, <4>4, <4>5 DEF x
    <3>3. CASE ~x.isObject
      BY <3>1, <3>3 DEF ValueTree
    <3> QED BY <3>2, <3>3
  <2>2. ASSUME NEW i \in DOMAIN impl.attributes
        PROVE  AttributeTree(copy.attributes[i], g) = AttributeTree(impl.attributes[i], f)
    <3>1. DOMAIN CopiedValues(impl, i, to) = DOMAIN impl.attributes[i].values
      BY DEF CopiedValues
    <3>2. ValuesTree(CopiedValues(impl, i, to), g) = ValuesTree(impl.attributes[i].values, f)
      BY <2>1, <3>1 DEF ValuesTree
    <3> QED BY <1>1, <3>2 DEF AttributeTree
  <2> QED BY <1>1, <2>2 DEF ObjectTree
<1> QED BY <1>2, <1>3 DEF copy

\* A copy holds copies only, and where it holds one the original holds the original: a cycle of
\* copies would be one of originals.
LEMMA CopiesKeep ==
  ASSUME IInv, NEW made \in SUBSET FreeCells, NEW from \in [made -> live],
         NEW copy, \A c \in made : ImplOK(copy[c]),
         \A c \in made : \A d \in Targets(copy[c]) :
           d \in live \/ (d \in made /\ from[d] \in Targets(heap[from[c]])),
         NEW h, HeapOK(h), \A c \in Cells : Targets(h[c]) = Targets(heap[c])
  PROVE  HeapOK([c \in Cells |-> IF c \in made THEN copy[c] ELSE h[c]])
<1> DEFINE g == [c \in Cells |-> IF c \in made THEN copy[c] ELSE h[c]]
<1>1. made \subseteq Cells /\ made \cap live = {} /\ live \subseteq Cells
  BY DEF FreeCells, IInv, TypeOK
<1>2. \A c \in Cells : ImplOK(g[c])
  BY DEF HeapOK
<1>3. g \in [Cells -> Impl]
  BY <1>2 DEF ImplOK
<1>4. /\ \A c \in made : g[c] = copy[c]
      /\ \A c \in Cells : c \notin made => g[c] = h[c]
  BY <1>1
<1> HIDE DEF g
<1>5. ASSUME NEW S \in SUBSET Cells, S # {}
      PROVE  \E c \in S : Targets(g[c]) \cap S = {}
  <2>1. CASE S \ made # {}
    <3>1. PICK c \in S \ made : Targets(heap[c]) \cap (S \ made) = {}
      BY <2>1 DEF IInv, HeapOK, NoCycle
    <3>2. Targets(heap[c]) \subseteq live
      BY <3>1, TargetsInUse
    <3> QED BY <1>1, <1>4, <3>1, <3>2
  <2>2. CASE S \subseteq made
    <3> DEFINE originals == {from[c] : c \in S}
    <3>1. originals \in SUBSET Cells /\ originals # {}
      BY <1>1, <1>5, <2>2
    <3>2. PICK o \in originals : Targets(heap[o]) \cap originals = {}
      BY <3>1 DEF IInv, HeapOK, NoCycle
    <3>3. PICK c \in S : from[c] = o
      BY <3>2
    <3>4. Targets(g[c]) \cap S = {}
      BY <1>1, <1>4, <2>2, <3>2, <3>3
    <3> QED BY <3>4
  <2> QED BY <2>1, <2>2
<1> QED BY <1>2, <1>3, <1>5 DEF HeapOK, NoCycle, g

\* A deep copy: from says of what each cell made has the copy, and g is the heap.
Copying(v, w, made, from, g) ==
  /\ made \subseteq FreeCells /\ from \in [made -> live]
  /\ NewCell \in made /\ from[NewCell] = handle[v]
  /\ HeapOK(g)
  /\ \A c \in live : g[c] = heap[c]
  /\ \A c \in made :
       /\ \A d \in Targets(g[c]) : d \in made /\ from[d] \in Targets(heap[from[c]])
       /\ \A f, tree : (\A d \in Targets(g[c]) : tree[d] = f[from[d]])
                         => ObjectTree(g[c], tree) = ObjectTree(heap[from[c]], f)
  /\ Settle(g, [handle EXCEPT ![w] = NewCell])

LEMMA DeepCopyIs ==
  ASSUME IInv, NEW v \in Variables, NEW w \in Variables, DeepCopy(v, w)
  PROVE  \E made, from, g : Copying(v, w, made, from, g)
<1> DEFINE places(made, from) ==
             UNION {{<<c, p>> : p \in ObjectPlaces(heap[from[c]])} : c \in made}
           copied(c, from, to) ==
             CopyOf(heap[from[c]], [p \in ObjectPlaces(heap[from[c]]) |-> to[<<c, p>>]])
           next(made, from, to) ==
             [c \in Cells |-> IF c \in made THEN copied(c, from, to) ELSE heap[c]]
<1>0. PICK made \in SUBSET FreeCells : \E from \in [made -> live] :
        \E to \in Bijection(places(made, from), made \ {NewCell}) :
          /\ NewCell \in made
          /\ from[NewCell] = handle[v]
          /\ \A q \in places(made, from) :
               from[to[q]] = heap[from[q[1]]].attributes[q[2][1]].values[q[2][2]].of
          /\ Settle(next(made, from, to), [handle EXCEPT ![w] = NewCell])
  BY ZenonT(60) DEF DeepCopy
<1>1. PICK from \in [made -> live] :
        \E to \in Bijection(places(made, from), made \ {NewCell}) :
          /\ NewCell \in made
          /\ from[NewCell] = handle[v]
          /\ \A q \in places(made, from) :
               from[to[q]] = heap[from[q[1]]].attributes[q[2][1]].values[q[2][2]].of
          /\ Settle(next(made, from, to), [handle EXCEPT ![w] = NewCell])
  BY <1>0, ZenonT(60)
<1>2. PICK to \in Bijection(places(made, from), made \ {NewCell}) :
          /\ NewCell \in made
          /\ from[NewCell] = handle[v]
          /\ \A q \in places(made, from) :
               from[to[q]] = heap[from[q[1]]].attributes[q[2][1]].values[q[2][2]].of
          /\ Settle(next(made, from, to), [handle EXCEPT ![w] = NewCell])
  BY <1>1, ZenonT(60)
<1>3. to \in [places(made, from) -> made]
  BY <1>2, ZenonT(60) DEF Bijection, Injection, Surjection
<1> DEFINE copy == [c \in made |-> copied(c, from, to)]
<1>4. ASSUME NEW c \in made
      PROVE  /\ ImplOK(copy[c])
             /\ \A d \in Targets(copy[c]) : d \in made /\ from[d] \in Targets(heap[from[c]])
             /\ \A f, g : (\A d \in Targets(copy[c]) : g[d] = f[from[d]])
                            => ObjectTree(copy[c], g) = ObjectTree(heap[from[c]], f)
  <2> DEFINE impl == heap[from[c]]
             its == [p \in ObjectPlaces(impl) |-> to[<<c, p>>]]
  <2>1. ImplOK(impl)
    BY DEF IInv, TypeOK, HeapOK
  <2>2. \A p \in ObjectPlaces(impl) : <<c, p>> \in places(made, from)
    OBVIOUS
  <2>3. made \subseteq Cells
    BY DEF FreeCells
  <2>4. its \in [ObjectPlaces(impl) -> Cells]
    BY <1>3, <2>2, <2>3
  <2>5. copy[c] = CopyOf(impl, its)
    OBVIOUS
  <2> HIDE DEF copy
  <2>6. /\ ImplOK(CopyOf(impl, its))
        /\ Targets(CopyOf(impl, its)) \subseteq {its[p] : p \in ObjectPlaces(impl)}
    <3> HIDE DEF its, impl
    <3> QED BY <2>1, <2>4, CopyOfIs, SMTT(30)
  <2>7. /\ \A p \in ObjectPlaces(impl) : its[p] \in Targets(CopyOf(impl, its))
        /\ \A f, g :
             (\A p \in ObjectPlaces(impl) : g[its[p]] = f[impl.attributes[p[1]].values[p[2]].of])
               => ObjectTree(CopyOf(impl, its), g) = ObjectTree(impl, f)
    <3> HIDE DEF its, impl
    <3> QED BY <2>1, CopyTree, SMTT(30)
  <2>8. ASSUME NEW p \in ObjectPlaces(impl)
        PROVE  /\ its[p] \in made /\ from[its[p]] \in Targets(impl)
               /\ from[its[p]] = impl.attributes[p[1]].values[p[2]].of
    <3>1. <<c, p>> \in places(made, from)
      BY <2>2, SMTT(30)
    <3>2. from[to[<<c, p>>]] = impl.attributes[p[1]].values[p[2]].of
      BY <1>2, <3>1, ZenonT(60)
    <3> QED BY <1>3, <3>1, <3>2, ObjectPlaceHeld, ZenonT(60)
  <2> HIDE DEF its, impl
  <2>9. \A d \in Targets(copy[c]) : d \in made /\ from[d] \in Targets(impl)
    BY <2>5, <2>6, <2>8
  <2>10. ASSUME NEW f, NEW g, \A d \in Targets(copy[c]) : g[d] = f[from[d]]
         PROVE  ObjectTree(copy[c], g) = ObjectTree(impl, f)
    <3>1. \A p \in ObjectPlaces(impl) : g[its[p]] = f[impl.attributes[p[1]].values[p[2]].of]
      BY <2>5, <2>7, <2>8, <2>10
    <3>2. ObjectTree(CopyOf(impl, its), g) = ObjectTree(impl, f)
      BY <2>7, <3>1, Zenon
    <3> QED BY <2>5, <3>2
  <2> QED BY <2>5, <2>6, <2>9, <2>10 DEF impl
<1>5. next(made, from, to) = [c \in Cells |-> IF c \in made THEN copy[c] ELSE heap[c]]
  OBVIOUS
<1> HIDE DEF next, copy
<1>6. Settle([c \in Cells |-> IF c \in made THEN copy[c] ELSE heap[c]],
             [handle EXCEPT ![w] = NewCell])
  BY <1>2, <1>5, Zenon
<1> DEFINE g == [c \in Cells |-> IF c \in made THEN copy[c] ELSE heap[c]]
<1>7. HeapOK(g)
  <2>1. HeapOK(heap)
    BY DEF IInv
  <2>2. /\ \A c \in made : ImplOK(copy[c])
        /\ \A c \in made : \A d \in Targets(copy[c]) :
             d \in live \/ (d \in made /\ from[d] \in Targets(heap[from[c]]))
    BY <1>4
  <2> QED BY <2>1, <2>2, CopiesKeep
<1>8. /\ \A c \in live : g[c] = heap[c]
      /\ \A c \in made : g[c] = copy[c]
  BY DEF FreeCells, IInv, TypeOK
<1> HIDE DEF g
<1>9. Settle(g, [handle EXCEPT ![w] = NewCell])
  BY <1>6 DEF g
<1>10. ASSUME NEW c \in made
       PROVE  /\ \A d \in Targets(g[c]) : d \in made /\ from[d] \in Targets(heap[from[c]])
              /\ \A f, tree : (\A d \in Targets(g[c]) : tree[d] = f[from[d]])
                                => ObjectTree(g[c], tree) = ObjectTree(heap[from[c]], f)
  <2>1. g[c] = copy[c]
    BY <1>8, SMTT(30)
  <2> QED BY <1>4, <2>1
<1>11. Copying(v, w, made, from, g)
  BY <1>2, <1>7, <1>8, <1>9, <1>10, ZenonT(60) DEF Copying
<1> QED BY <1>11, SMTT(30)

LEMMA DeepCopyKeeps ==
  ASSUME IInv, NEW v \in Variables, NEW w \in Variables, DeepCopy(v, w) PROVE IInv'
<1>1. PICK made, from, g : Copying(v, w, made, from, g)
  BY DeepCopyIs
<1>2. NewCell \in Cells /\ HeapOK(g) /\ Settle(g, [handle EXCEPT ![w] = NewCell])
  BY <1>1 DEF Copying, FreeCells
<1>3. [handle EXCEPT ![w] = NewCell] \in [Variables -> Cells]
  BY <1>2 DEF IInv, TypeOK
<1> QED BY <1>2, <1>3, SettleKeeps

-----------------------------------------------------------------------------
(* replaceSinglePrimitive *)

\* A step without wildcard selects one value, which is there.
LEMMA SelectedIsThere ==
  ASSUME NEW impl, ImplOK(impl), NEW step \in Step, step.selector # "All", Selectable(impl, step)
  PROVE  /\ SelectedIndexes(impl, step)[1] \in Nat
         /\ Selected(impl, step).isObject => Selected(impl, step).of \in Targets(impl)
<1> DEFINE i == LookupOf(impl)[step.attribute]
           values == ValuesAt(impl, i)
           at == SelectedIndexes(impl, step)[1]
<1>1. step.attribute \in Keys /\ step.index \in Nat /\ step.selector \in {"First", "Index"}
  BY DEF Step, Selector
<1>2. i \in DOMAIN impl.attributes
  BY <1>1, LookupFinds DEF Selectable
<1>3. values \in Seq(Value) \ {<<>>} /\ Held(values) \subseteq Targets(impl)
  BY <1>2, ValuesThere
<1>4. step.selector = "Index" => step.index \in 1 .. Len(values)
  BY DEF Selectable, ValuesOf
<1>5. at = IF step.selector = "First" THEN 0 ELSE step.index - 1
  BY <1>1 DEF SelectedIndexes
<1>6. Selected(impl, step) = values[at + 1]
  BY DEF Selected, ValuesOf
<1> HIDE DEF values, at, i
<1>7. at \in Nat /\ at + 1 \in DOMAIN values
  BY <1>1, <1>3, <1>4, <1>5
<1>8. Selected(impl, step).isObject => Selected(impl, step).of \in Held(values)
  BY <1>6, <1>7 DEF Held, ToSet
<1> QED BY <1>3, <1>7, <1>8 DEF at

\* The index of a step without wildcard does not depend on the Impl.
LEMMA SelectedAnywhere ==
  ASSUME NEW impl, NEW other, NEW step \in Step, step.selector # "All"
  PROVE  SelectedIndexes(other, step)[1] = SelectedIndexes(impl, step)[1]
BY DEF SelectedIndexes, Step, Selector

LEMMA ReplacementFollows ==
  ASSUME NEW impl, ImplOK(impl), NEW step \in Step, NEW value \in Value,
         SelectedIndexes(impl, step)[1] \in Nat
  PROVE  Follows(Replacement(impl, step, value), impl, Held(<<value>>))
<1>1. step.attribute \in Keys
  BY DEF Step
<1> QED BY <1>1, ReplacedFollows DEF Replacement

LEMMA HeldByOne ==
  /\ \A t : Held(<<Primitive(t)>>) = {}
  /\ \A c : Held(<<Object(c)>>) = {c}
<1>1. \A x : ToSet(<<x>>) = {x}
  BY DEF ToSet
<1>2. ASSUME NEW t PROVE Held(<<Primitive(t)>>) = {}
  <2>1. ~Primitive(t).isObject
    BY DEF Primitive
  <2> QED BY <1>1, <2>1 DEF Held
<1>3. ASSUME NEW c PROVE Held(<<Object(c)>>) = {c}
  <2>1. Object(c).isObject /\ Object(c).of = c
    BY DEF Object
  <2> QED BY <1>1, <2>1 DEF Held
<1> QED BY <1>2, <1>3

\* The objects that a replacement makes: cells has the cell of each on the way, the first that
\* of v, and g the heap.
Replacing(v, path, t, way, cells, g) ==
  /\ path \in Seq(Step) /\ path # <<>> /\ \A n \in DOMAIN path : path[n].selector # "All"
  /\ way \in [DOMAIN path -> live] /\ way[1] = handle[v] /\ Leads(path, way)
  /\ HeapOK(g)
  /\ \A n \in DOMAIN path :
       /\ cells[n] \in Cells
       /\ \E old :
            /\ ImplOK(old) /\ Says(old) = Says(heap[way[n]])
            /\ g[cells[n]] = Replacement(old, path[n], IF n = Len(path) THEN Primitive(t)
                                                       ELSE Object(cells[n + 1]))
  /\ \A c \in live \ {cells[1]} : Says(g[c]) = Says(heap[c])
  /\ \A c \in Cells : cells[1] \notin Targets(heap[c])
  /\ \A w \in Variables \ {v} : handle[w] # cells[1]
  /\ cells[1] \in live => cells[1] = handle[v]
  /\ Settle(g, [handle EXCEPT ![v] = cells[1]])

LEMMA ReplaceSinglePrimitiveIs ==
  ASSUME IInv, NEW v \in Variables, ReplaceSinglePrimitive(v)
  PROVE  \E path \in Paths, t \in Texts : \E way, cells, g : Replacing(v, path, t, way, cells, g)
<1> DEFINE h(way) == [c \in Cells |-> IF c \in ToSet(way) THEN Looked(heap[c]) ELSE heap[c]]
           free == {c \in FreeCells : Shared(v, <<>>) => c # NewCell}
           below(path) == 2 .. Len(path)
           copyOf(path) == CHOOSE f \in Injection(below(path), free) : TRUE
           value(path, t, n) == IF n = Len(path) THEN Primitive(t) ELSE Object(copyOf(path)[n + 1])
           copy(path, t, way, n) ==
             Replacement(Invalidated(h(way)[way[n]]), path[n], value(path, t, n))
           copied(path, t, way) == [c \in Cells |->
             IF \E n \in below(path) : copyOf(path)[n] = c
             THEN copy(path, t, way, CHOOSE n \in below(path) : copyOf(path)[n] = c)
             ELSE h(way)[c]]
           top(path, t, way) == Replacement(Detached(h(way), v, <<>>), path[1], value(path, t, 1))
<1>1. PICK path \in Paths, t \in Texts : \E way \in [DOMAIN path -> live] :
        /\ ~ContainsWildcard(path)
        /\ way[1] = handle[v]
        /\ Leads(path, way)
        /\ Injection(below(path), free) # {}
        /\ Write(copied(path, t, way), v, <<>>, top(path, t, way))
  BY DEF ReplaceSinglePrimitive
<1>2. PICK way \in [DOMAIN path -> live] :
        /\ ~ContainsWildcard(path)
        /\ way[1] = handle[v]
        /\ Leads(path, way)
        /\ Injection(below(path), free) # {}
        /\ Write(copied(path, t, way), v, <<>>, top(path, t, way))
  BY <1>1
<1> DEFINE its == copyOf(path)
           made == {its[n] : n \in below(path)}
           place(c) == CHOOSE n \in below(path) : its[n] = c
<1> HIDE DEF h, free, copyOf, value, copy, copied, top, its, place
\* The path and the objects it leads through
<1>3. path \in Seq(Step) /\ path # <<>>
  BY PathsAssumption
<1>4. /\ DOMAIN path = 1 .. Len(path) /\ Len(path) \in Nat /\ Len(path) >= 1
      /\ \A n \in DOMAIN path : path[n] \in Step /\ path[n].selector # "All"
  BY <1>2, <1>3 DEF ContainsWildcard
<1>5. live \subseteq Cells /\ heap \in [Cells -> Impl] /\ \A c \in Cells : ImplOK(heap[c])
  BY DEF IInv, TypeOK, HeapOK
<1>6. HeapOK(h(way)) /\ \A c \in Cells : Follows(h(way)[c], heap[c], {}) /\ Targets(h(way)[c]) = Targets(heap[c])
  BY LookingKeeps DEF h, IInv
<1>7. ASSUME NEW n \in DOMAIN path
      PROVE  /\ way[n] \in Cells
             /\ SelectedIndexes(heap[way[n]], path[n])[1] \in Nat
             /\ n # Len(path) => way[n + 1] \in Targets(heap[way[n]])
  <2>1. way[n] \in Cells /\ ImplOK(heap[way[n]]) /\ path[n] \in Step /\ path[n].selector # "All"
    BY <1>4, <1>5
  <2>2. Selectable(heap[way[n]], path[n])
    BY <1>2 DEF Leads
  <2>3. /\ SelectedIndexes(heap[way[n]], path[n])[1] \in Nat
        /\ Selected(heap[way[n]], path[n]).isObject
             => Selected(heap[way[n]], path[n]).of \in Targets(heap[way[n]])
    BY <2>1, <2>2, SelectedIsThere
  <2>4. n # Len(path) => Selected(heap[way[n]], path[n]) = Object(way[n + 1])
    BY <1>2 DEF Leads
  <2> QED BY <2>1, <2>3, <2>4 DEF Object
\* The cells for the copies
<1>8. its \in [below(path) -> free] /\ IsInjective(its)
  <2>1. its \in Injection(below(path), free)
    BY <1>2 DEF its, copyOf
  <2> QED BY <2>1 DEF Injection
<1>9. made \in SUBSET FreeCells /\ made \subseteq Cells /\ made \cap live = {}
  BY <1>8 DEF free, FreeCells
<1>10. \A n \in below(path) : place(its[n]) = n
  BY <1>8 DEF place, IsInjective
<1>11. \A c \in made : place(c) \in below(path) /\ its[place(c)] = c
  BY <1>10
<1>12. ASSUME NEW n \in DOMAIN path
       PROVE  /\ value(path, t, n) \in Value
              /\ Held(<<value(path, t, n)>>) =
                   IF n = Len(path) THEN {} ELSE {its[n + 1]}
              /\ n # Len(path) => n + 1 \in below(path) /\ its[n + 1] \in made
  <2>1. CASE n = Len(path)
    <3>1. value(path, t, n) = Primitive(t)
      BY <2>1 DEF value
    <3> QED BY <2>1, <3>1, HeldByOne DEF Value
  <2>2. CASE n # Len(path)
    <3>1. n + 1 \in below(path)
      BY <1>4, <2>2
    <3>2. its[n + 1] \in Cells /\ its[n + 1] \in made
      BY <1>9, <3>1
    <3>3. value(path, t, n) = Object(its[n + 1])
      BY <2>2 DEF value, its
    <3>4. Object(its[n + 1]) \in Value
      BY <3>2 DEF Value
    <3> QED BY <2>2, <3>1, <3>2, <3>3, <3>4, HeldByOne
  <2> QED BY <2>1, <2>2
\* The copies
<1>13. ASSUME NEW n \in below(path)
       PROVE  /\ n \in DOMAIN path
              /\ Follows(copy(path, t, way, n), heap[way[n]], Held(<<value(path, t, n)>>))
  <2> DEFINE old == Invalidated(h(way)[way[n]])
  <2>1. n \in DOMAIN path
    BY <1>4
  <2>2. way[n] \in Cells /\ path[n] \in Step /\ path[n].selector # "All"
    BY <1>4, <1>7, <2>1
  <2>3. Follows(h(way)[way[n]], heap[way[n]], {}) /\ ImplOK(h(way)[way[n]])
    BY <1>6, <2>2 DEF HeapOK
  <2>4. Follows(old, h(way)[way[n]], {})
    BY <2>3, LookedSame
  <2>5. Follows(old, heap[way[n]], {}) /\ ImplOK(old)
    BY <2>3, <2>4, FollowsFollows DEF Follows
  <2> HIDE DEF old
  <2>6. SelectedIndexes(old, path[n])[1] \in Nat
    BY <1>7, <2>1, <2>2, SelectedAnywhere
  <2>7. Follows(Replacement(old, path[n], value(path, t, n)), old, Held(<<value(path, t, n)>>))
    BY <1>12, <2>1, <2>2, <2>5, <2>6, ReplacementFollows
  <2>8. Follows(Replacement(old, path[n], value(path, t, n)), heap[way[n]], Held(<<value(path, t, n)>>))
    BY <2>5, <2>7, FollowsFollows
  <2> QED BY <2>1, <2>8 DEF copy, old
<1> DEFINE copies == [c \in made |-> copy(path, t, way, place(c))]
           from == [c \in made |-> way[place(c)]]
<1>14. from \in [made -> live]
  <2>1. \A c \in made : place(c) \in DOMAIN path
    BY <1>11, <1>13
  <2> QED BY <2>1
<1>15. ASSUME NEW c \in made
       PROVE  /\ ImplOK(copies[c])
              /\ \A d \in Targets(copies[c]) :
                   d \in live \/ (d \in made /\ from[d] \in Targets(heap[from[c]]))
              /\ Targets(copies[c]) \subseteq live \cup made
  <2> DEFINE n == place(c)
  <2>1. n \in below(path) /\ n \in DOMAIN path
    BY <1>11, <1>13
  <2>2. copies[c] = copy(path, t, way, n) /\ from[c] = way[n]
    OBVIOUS
  <2>3. Follows(copies[c], heap[from[c]], Held(<<value(path, t, n)>>))
    BY <1>13, <2>1, <2>2
  <2>4. Targets(heap[from[c]]) \subseteq live
    <3>1. from[c] \in Cells
      BY <1>5, <1>14
    <3> QED BY <3>1, TargetsInUse
  <2>5. \A d \in Held(<<value(path, t, n)>>) : d \in made /\ from[d] \in Targets(heap[from[c]])
    <3>1. CASE n = Len(path)
      BY <1>12, <2>1, <3>1
    <3>2. CASE n # Len(path)
      <4>1. Held(<<value(path, t, n)>>) = {its[n + 1]} /\ its[n + 1] \in made /\ n + 1 \in below(path)
        BY <1>12, <2>1, <3>2
      <4>2. from[its[n + 1]] = way[n + 1]
        BY <1>10, <4>1
      <4>3. way[n + 1] \in Targets(heap[way[n]])
        BY <1>7, <2>1, <3>2
      <4> QED BY <2>2, <4>1, <4>2, <4>3
    <3> QED BY <3>1, <3>2
  <2> HIDE DEF copies, from, n
  <2>6. ImplOK(copies[c]) /\ Targets(copies[c]) \subseteq live \cup Held(<<value(path, t, n)>>)
    BY <2>3, <2>4 DEF Follows
  <2> QED BY <2>5, <2>6
<1>16. copied(path, t, way) = [c \in Cells |-> IF c \in made THEN copies[c] ELSE h(way)[c]]
  BY DEF copied, its, place
<1>17. HeapOK(copied(path, t, way))
  <2> HIDE DEF copies, from, made
  <2> QED BY <1>6, <1>9, <1>14, <1>15, <1>16, CopiesKeep
\* The object of v
<1> DEFINE cell == IF Shared(v, <<>>) THEN NewCell ELSE handle[v]
<1>18. /\ Shared(v, <<>>) => FreeCells # {}
       /\ Settle([copied(path, t, way) EXCEPT ![cell] = top(path, t, way)],
                 [handle EXCEPT ![v] = cell])
  BY <1>2 DEF Write
<1>19. cell \in Cells /\ \A c \in Cells : cell \notin Targets(heap[c])
  BY <1>18, NothingHeld, WrittenCell
<1>20. cell \notin made
  <2>1. CASE Shared(v, <<>>)
    BY <1>8, <2>1 DEF free
  <2>2. CASE ~Shared(v, <<>>)
    <3>1. cell \in live
      BY <2>2 DEF IInv, TypeOK
    <3> QED BY <1>9, <3>1
  <2> QED BY <2>1, <2>2
<1> HIDE DEF cell, made
<1>21. \A c \in Cells : cell \notin Targets(copied(path, t, way)[c])
  <2> TAKE c \in Cells
  <2>1. CASE c \notin made
    BY <1>6, <1>16, <1>19, <2>1
  <2>2. CASE c \in made
    <3>1. \A d \in Targets(copies[c]) : d \in made \/ d \in Targets(heap[from[c]])
      <4> DEFINE n == place(c)
      <4>1. n \in below(path) /\ n \in DOMAIN path
        BY <1>11, <1>13, <2>2 DEF made
      <4>2. Follows(copies[c], heap[from[c]], Held(<<value(path, t, n)>>))
        BY <1>13, <2>2, <4>1
      <4>3. Held(<<value(path, t, n)>>) \subseteq made
        BY <1>12, <4>1
      <4> QED BY <4>2, <4>3 DEF Follows
    <3>2. from[c] \in Cells
      BY <1>5, <1>14, <2>2
    <3>3. copied(path, t, way)[c] = copies[c]
      BY <1>16, <2>2
    <3> HIDE DEF copies, from
    <3> QED BY <1>19, <1>20, <3>1, <3>2, <3>3
  <2> QED BY <2>1, <2>2
<1>22. 1 \in DOMAIN path /\ handle[v] \in Cells /\ way[1] = handle[v]
  BY <1>2, <1>4, <1>5 DEF IInv, TypeOK
<1>23. Follows(top(path, t, way), heap[handle[v]], Held(<<value(path, t, 1)>>))
  <2> DEFINE old == Detached(h(way), v, <<>>)
  <2>1. ImplOK(h(way)[handle[v]]) /\ Follows(h(way)[handle[v]], heap[handle[v]], {})
    BY <1>6, <1>22 DEF HeapOK
  <2>2. Follows(old, h(way)[handle[v]], {})
    BY <2>1, DetachedFollows
  <2>3. Follows(old, heap[handle[v]], {}) /\ ImplOK(old)
    BY <2>1, <2>2, FollowsFollows DEF Follows
  <2> HIDE DEF old
  <2>4. SelectedIndexes(old, path[1])[1] \in Nat /\ path[1] \in Step
    BY <1>4, <1>7, <1>22, SelectedAnywhere
  <2>5. Follows(Replacement(old, path[1], value(path, t, 1)), old, Held(<<value(path, t, 1)>>))
    BY <1>12, <1>22, <2>3, <2>4, ReplacementFollows
  <2>6. Follows(Replacement(old, path[1], value(path, t, 1)), heap[handle[v]], Held(<<value(path, t, 1)>>))
    BY <2>3, <2>5, FollowsFollows
  <2> QED BY <2>6 DEF top, old
<1>24. cell \notin Targets(top(path, t, way)) /\ ImplOK(top(path, t, way))
  <2>1. Held(<<value(path, t, 1)>>) \subseteq made
    BY <1>12, <1>22
  <2> QED BY <1>19, <1>20, <1>22, <1>23, <2>1 DEF Follows
<1>25. HeapOK([copied(path, t, way) EXCEPT ![cell] = top(path, t, way)])
  BY <1>17, <1>19, <1>21, <1>24, PutKeeps
<1>26. /\ \A w \in Variables \ {v} : handle[w] # cell
       /\ cell \in live => cell = handle[v]
  <2>1. CASE Shared(v, <<>>)
    <3>1. cell \notin live
      BY <1>18, <2>1, NewCellIsFree DEF cell
    <3> QED BY <3>1 DEF IInv, TypeOK
  <2>2. CASE ~Shared(v, <<>>)
    BY <2>2 DEF Shared, cell
  <2> QED BY <2>1, <2>2
<1> DEFINE g == [copied(path, t, way) EXCEPT ![cell] = top(path, t, way)]
           cells == [n \in DOMAIN path |-> IF n = 1 THEN cell ELSE its[n]]
<1>27. \A c \in Cells : Says(h(way)[c]) = Says(heap[c])
  BY LookingSays DEF h
<1>28. DOMAIN copied(path, t, way) = Cells
  BY <1>16
<1>29. ASSUME NEW c \in live \ {cell}  PROVE Says(g[c]) = Says(heap[c])
  <2>1. c \in Cells /\ c \notin made
    BY <1>5, <1>9 DEF made
  <2>2. g[c] = h(way)[c]
    BY <1>16, <2>1
  <2> QED BY <1>27, <2>1, <2>2
<1>30. \A n \in DOMAIN path : value(path, t, n) = IF n = Len(path) THEN Primitive(t)
                                                  ELSE Object(cells[n + 1])
  <2> TAKE n \in DOMAIN path
  <2>1. CASE n = Len(path)
    BY <2>1 DEF value
  <2>2. CASE n # Len(path)
    <3>1. n + 1 \in DOMAIN path /\ n + 1 # 1
      BY <1>4, <2>2
    <3>2. cells[n + 1] = its[n + 1]
      BY <3>1
    <3> QED BY <2>2, <3>2 DEF value, its
  <2> QED BY <2>1, <2>2
<1>31. ASSUME NEW n \in DOMAIN path
       PROVE  /\ cells[n] \in Cells
              /\ \E old : /\ ImplOK(old) /\ Says(old) = Says(heap[way[n]])
                         /\ g[cells[n]] = Replacement(old, path[n], value(path, t, n))
  <2>1. way[n] \in Cells /\ ImplOK(h(way)[way[n]]) /\ Says(h(way)[way[n]]) = Says(heap[way[n]])
    BY <1>6, <1>7, <1>27 DEF HeapOK
  <2>2. CASE n = 1
    <3> DEFINE old == Detached(h(way), v, <<>>)
    <3>1. cells[n] = cell /\ g[cell] = top(path, t, way)
      BY <1>19, <1>28, <2>2
    <3>2. ImplOK(old)
      BY <1>22, <2>1, <2>2, DetachedFollows DEF Follows
    <3>3. Says(old) = Says(heap[way[n]])
      BY <1>6, <1>22, <1>27, <2>2, DetachedSays
    <3>4. top(path, t, way) = Replacement(old, path[n], value(path, t, n))
      BY <2>2 DEF top
    <3> HIDE DEF old
    <3> QED BY <1>19, <3>1, <3>2, <3>3, <3>4
  <2>3. CASE n # 1
    <3> DEFINE old == Invalidated(h(way)[way[n]])
    <3>1. n \in below(path)
      BY <1>4, <2>3
    <3>2. its[n] \in made /\ its[n] \in Cells
      BY <1>9, <3>1 DEF made
    <3>3. cells[n] = its[n] /\ g[its[n]] = copies[its[n]]
      BY <1>16, <1>20, <1>28, <2>3, <3>2
    <3>4. copies[its[n]] = copy(path, t, way, n)
      BY <1>10, <3>1, <3>2
    <3>5. ImplOK(old) /\ Says(old) = Says(heap[way[n]])
      BY <2>1, InvalidatedFollows, InvalidatedSays DEF ImplOK
    <3>6. copy(path, t, way, n) = Replacement(old, path[n], value(path, t, n))
      BY DEF copy
    <3> HIDE DEF old
    <3> QED BY <3>2, <3>3, <3>4, <3>5, <3>6
  <2> QED BY <2>2, <2>3
<1>32. cells[1] = cell
  BY <1>22
<1> HIDE DEF g, cells
<1>33. Replacing(v, path, t, way, cells, g)
  <2>1. Settle(g, [handle EXCEPT ![v] = cells[1]])
    BY <1>18, <1>32 DEF g, cell
  <2>2. HeapOK(g)
    BY <1>25 DEF g
  <2>3. \A n \in DOMAIN path :
          /\ cells[n] \in Cells
          /\ \E old :
               /\ ImplOK(old) /\ Says(old) = Says(heap[way[n]])
               /\ g[cells[n]] = Replacement(old, path[n], IF n = Len(path) THEN Primitive(t)
                                                          ELSE Object(cells[n + 1]))
    BY <1>30, <1>31
  <2> QED BY <1>2, <1>3, <1>4, <1>19, <1>26, <1>29, <1>32, <2>1, <2>2, <2>3 DEF Replacing
<1> QED BY <1>33, SMTT(30)

LEMMA ReplaceSinglePrimitiveKeeps ==
  ASSUME IInv, NEW v \in Variables, ReplaceSinglePrimitive(v) PROVE IInv'
<1>1. PICK path \in Paths, t \in Texts : \E way, cells, g : Replacing(v, path, t, way, cells, g)
  BY ReplaceSinglePrimitiveIs
<1>2. PICK way, cells, g : Replacing(v, path, t, way, cells, g)
  BY <1>1
<1>3. 1 \in DOMAIN path
  BY <1>2 DEF Replacing
<1>4. HeapOK(g) /\ cells[1] \in Cells /\ Settle(g, [handle EXCEPT ![v] = cells[1]])
  BY <1>2, <1>3 DEF Replacing
<1>5. [handle EXCEPT ![v] = cells[1]] \in [Variables -> Cells]
  BY <1>4 DEF IInv, TypeOK
<1> QED BY <1>4, <1>5, SettleKeeps

-----------------------------------------------------------------------------
(* The invariants *)

LEMMA InitHolds == Init => IInv
<1> SUFFICES ASSUME Init PROVE IInv
  OBVIOUS
<1>1. /\ handle \in [Variables -> Cells] /\ live = {handle[v] : v \in Variables}
      /\ heap = [c \in Cells |-> EmptyImpl]
  BY DEF Init
<1>2. \A c \in Cells : ImplOK(heap[c]) /\ Targets(heap[c]) = {}
  BY <1>1, EmptyImplOK
<1>3. heap \in [Cells -> Impl]
  BY <1>1, <1>2 DEF ImplOK
<1>4. NoCycle(heap)
  BY <1>2 DEF NoCycle
<1>5. live \subseteq Cells /\ handle \in [Variables -> live]
  BY <1>1
<1> QED BY <1>1, <1>2, <1>3, <1>4, <1>5 DEF IInv, TypeOK, HeapOK, FreeCells

LEMMA NextKeeps == IInv /\ [Next]_vars => IInv'
<1> SUFFICES ASSUME IInv, [Next]_vars PROVE IInv'
  OBVIOUS
<1>1. CASE ObjectNext
  <2>1. PICK v \in Variables :
          \/ Create(v) \/ SetField(v) \/ SetValue(v) \/ AppendValue(v)
          \/ InsertValue(v) \/ ReplaceValue(v) \/ EraseValue(v)
          \/ EraseAttribute(v) \/ ClearAttributes(v) \/ Read(v)
          \/ \E w \in Variables : Copy(v, w) \/ TakeObject(v, w) \/ DeepCopy(v, w)
    BY <1>1 DEF ObjectNext
  <2>2. CASE \/ SetField(v) \/ SetValue(v) \/ AppendValue(v) \/ InsertValue(v)
             \/ ReplaceValue(v) \/ EraseValue(v) \/ EraseAttribute(v) \/ ClearAttributes(v)
    <3>1. Writing(v)
      BY <2>2, WritesAre
    <3> QED BY <3>1, WritingKeeps
  <2>3. CASE Create(v) \/ Read(v)
    BY <2>3, CreateKeeps, ReadKeeps
  <2>4. CASE \E w \in Variables : Copy(v, w) \/ TakeObject(v, w) \/ DeepCopy(v, w)
    BY <2>4, CopyKeeps, TakeObjectKeeps, DeepCopyKeeps
  <2> QED BY <2>1, <2>2, <2>3, <2>4
<1>2. CASE \E v \in Variables : PrimitiveMatches(v) \/ ReplaceSinglePrimitive(v)
  BY <1>2, PrimitiveMatchesKeeps, ReplaceSinglePrimitiveKeeps
<1>3. CASE UNCHANGED vars
  BY <1>3 DEF vars, IInv, TypeOK, HeapOK, NoCycle, FreeCells
<1> QED BY <1>1, <1>2, <1>3 DEF Next

THEOREM InvariantHolds == Spec => []IInv
BY InitHolds, NextKeeps, PTL DEF Spec

\* Variables and values refer to objects that are there, however often one was shared, copied
\* or dropped, and no attribute is ever left without values (IomObject::detach, eraseValue).
THEOREM TypeCorrect == Spec => []TypeOK
<1>1. IInv => TypeOK
  BY DEF IInv
<1> QED BY <1>1, InvariantHolds, PTL

\* A lookup kept over writes, detaches and copies finds what a search would
\* (Impl::invalidateLookup).
THEOREM LookupsAreRight == Spec => []LookupsAgree
<1>1. IInv => LookupsAgree
  <2> SUFFICES ASSUME IInv, NEW c \in live PROVE ImplOK(heap[c])
    BY DEF LookupsAgree, ImplOK
  <2> QED BY DEF IInv, TypeOK, HeapOK
<1> QED BY <1>1, InvariantHolds, PTL

\* No object comes to be a part of itself, also when it is made its own attribute: what is
\* shared is copied before it is written (IomObject::detach).  deepCopy, whose recursion and
\* test for a cycle rest on this, ends.
THEOREM NoObjectHoldsItself == Spec => []Acyclic
<1>1. IInv => Acyclic
  <2> SUFFICES ASSUME IInv, NEW S \in SUBSET live, S # {}
               PROVE  \E c \in S : Targets(heap[c]) \cap S = {}
    BY DEF Acyclic
  <2>1. S \in SUBSET Cells
    BY DEF IInv, TypeOK
  <2> QED BY <2>1 DEF IInv, HeapOK, NoCycle
<1> QED BY <1>1, InvariantHolds, PTL

-----------------------------------------------------------------------------
(* What is shared stays *)

\* In the heap h every object in use says what it said, but for one that only a variable had.
Keeps(h) == \A c \in live : Says(h[c]) = Says(heap[c]) \/ OnlyOwner(c)

LEMMA SettleStays ==
  ASSUME NEW h, Keeps(h), live \subseteq Cells, NEW hs, Settle(h, hs)
  PROVE  SharedStaysStep
<1>1. PICK kept : heap' = [c \in Cells |-> IF c \in kept THEN h[c] ELSE EmptyImpl] /\ live' = kept
  BY DEF Settle
<1>2. \A c \in live \cap live' : heap'[c] = h[c]
  BY <1>1
<1> QED BY <1>2 DEF Keeps, SharedStaysStep

\* A write goes to a new cell, or to that of the only owner.
LEMMA WriteStays ==
  ASSUME IInv, NEW v \in Variables, NEW parameters, NEW h, DOMAIN h = Cells,
         \A c \in live : Says(h[c]) = Says(heap[c]),
         NEW impl, Write(h, v, parameters, impl)
  PROVE  SharedStaysStep
<1> DEFINE cell == IF Shared(v, parameters) THEN NewCell ELSE handle[v]
           g == [h EXCEPT ![cell] = impl]
<1>1. /\ Shared(v, parameters) => FreeCells # {}
      /\ Settle(g, [handle EXCEPT ![v] = cell])
  BY DEF Write
<1>2. live \subseteq Cells
  BY DEF IInv, TypeOK
<1>3. ASSUME NEW c \in live
      PROVE  Says(g[c]) = Says(heap[c]) \/ OnlyOwner(c)
  <2>1. CASE c # cell
    BY <1>2, <2>1
  <2>2. CASE c = cell
    <3>1. ~Shared(v, parameters)
      BY <1>1, <2>2, NewCellIsFree
    <3> QED BY <2>2, <3>1 DEF Shared, OnlyOwner
  <2> QED BY <2>1, <2>2
<1> QED BY <1>1, <1>2, <1>3, SettleStays DEF Keeps

LEMMA WritingStays ==
  ASSUME IInv, NEW v \in Variables, Writing(v) PROVE SharedStaysStep
<1>1. PICK parameters, h, impl : h \in {heap, Looking(v)} /\ Write(h, v, parameters, impl)
  BY DEF Writing
<1>2. live \subseteq Cells /\ HeapOK(heap)
  BY DEF IInv, TypeOK
<1>3. DOMAIN h = Cells
  BY <1>1, <1>2, LookingIs DEF HeapOK
<1>4. \A c \in live : Says(h[c]) = Says(heap[c])
  BY <1>1, <1>2, LookingAtSays
<1> QED BY <1>1, <1>3, <1>4, WriteStays

LEMMA ObjectStepStays ==
  ASSUME IInv, ObjectNext
  PROVE  SharedStaysStep
<1>1. PICK v \in Variables :
        \/ Create(v) \/ SetField(v) \/ SetValue(v) \/ AppendValue(v) \/ InsertValue(v)
        \/ ReplaceValue(v) \/ EraseValue(v) \/ EraseAttribute(v) \/ ClearAttributes(v) \/ Read(v)
        \/ \E w \in Variables : Copy(v, w) \/ TakeObject(v, w) \/ DeepCopy(v, w)
  BY DEF ObjectNext
<1>2. live \subseteq Cells /\ DOMAIN heap = Cells
  BY DEF IInv, TypeOK
<1>3. CASE \/ SetField(v) \/ SetValue(v) \/ AppendValue(v) \/ InsertValue(v)
           \/ ReplaceValue(v) \/ EraseValue(v) \/ EraseAttribute(v) \/ ClearAttributes(v)
  <2>1. Writing(v)
    BY <1>3, WritesAre
  <2> QED BY <2>1, WritingStays
<1>4. CASE Create(v)
  <2>1. NewCell \notin live /\ Settle([heap EXCEPT ![NewCell] = EmptyImpl], [handle EXCEPT ![v] = NewCell])
    BY <1>4, NewCellIsFree DEF Create
  <2>2. Keeps([heap EXCEPT ![NewCell] = EmptyImpl])
    BY <1>2, <2>1 DEF Keeps
  <2> QED BY <1>2, <2>1, <2>2, SettleStays
<1>5. CASE Read(v) \/ \E w \in Variables : TakeObject(v, w)
  <2>1. PICK hs : Settle(Looking(v), hs)
    BY <1>5 DEF Read, TakeObject
  <2>2. Keeps(Looking(v))
    BY <1>2, LookingAtSays DEF Keeps
  <2> QED BY <1>2, <2>1, <2>2, SettleStays
<1>6. CASE \E w \in Variables : Copy(v, w)
  <2>1. PICK hs : Settle(heap, hs)
    BY <1>6 DEF Copy
  <2> QED BY <1>2, <2>1, SettleStays DEF Keeps
<1>7. CASE \E w \in Variables : DeepCopy(v, w)
  <2>1. PICK w \in Variables : DeepCopy(v, w)
    BY <1>7
  <2>2. PICK made, from, g : Copying(v, w, made, from, g)
    BY <2>1, DeepCopyIs
  <2>3. Settle(g, [handle EXCEPT ![w] = NewCell]) /\ Keeps(g)
    BY <2>2 DEF Copying, Keeps
  <2> QED BY <1>2, <2>3, SettleStays
<1> QED BY <1>1, <1>3, <1>4, <1>5, <1>6, <1>7

LEMMA PathStepStays ==
  ASSUME IInv, NEW v \in Variables, PrimitiveMatches(v) \/ ReplaceSinglePrimitive(v)
  PROVE  SharedStaysStep
<1>1. live \subseteq Cells
  BY DEF IInv, TypeOK
<1>2. CASE PrimitiveMatches(v)
  <2>1. PICK path \in Paths : Settle(LookedInto(Traversal(v, path)), handle)
    BY <1>2 DEF PrimitiveMatches
  <2>2. \A c \in Cells : Says(LookedInto(Traversal(v, path))[c]) = Says(heap[c])
    BY LookingSays DEF LookedInto
  <2> QED BY <1>1, <2>1, <2>2, SettleStays DEF Keeps
<1>3. CASE ReplaceSinglePrimitive(v)
  <2>1. PICK path \in Paths, t \in Texts : \E way, cells, g : Replacing(v, path, t, way, cells, g)
    BY <1>3, ReplaceSinglePrimitiveIs
  <2>2. PICK way, cells, g : Replacing(v, path, t, way, cells, g)
    BY <2>1
  <2>3. /\ Settle(g, [handle EXCEPT ![v] = cells[1]])
        /\ \A c \in live \ {cells[1]} : Says(g[c]) = Says(heap[c])
        /\ \A c \in Cells : cells[1] \notin Targets(heap[c])
        /\ \A w \in Variables \ {v} : handle[w] # cells[1]
        /\ cells[1] \in live => cells[1] = handle[v]
    BY <2>2 DEF Replacing
  <2>4. cells[1] \in live => OnlyOwner(cells[1])
    BY <1>1, <2>3 DEF OnlyOwner
  <2>5. Keeps(g)
    BY <2>3, <2>4 DEF Keeps
  <2> QED BY <1>1, <2>3, <2>5, SettleStays
<1> QED BY <1>2, <1>3

\* An object that a step changes belonged to one variable and nothing else, so that no other
\* variable's object changes with it (IomObject::detach, IomPath::replaceSinglePrimitive).
THEOREM WhatIsSharedStays == Spec => SharedStays
<1>1. IInv /\ [Next]_vars => [SharedStaysStep]_vars
  <2> SUFFICES ASSUME IInv, Next PROVE SharedStaysStep
    OBVIOUS
  <2> QED BY ObjectStepStays, PathStepStays DEF Next
<1> QED BY <1>1, InvariantHolds, PTL DEF Spec, SharedStays

-----------------------------------------------------------------------------
(* An operation changes one tree *)

\* An operation on the trees, from the trees of the variables before and after.
AllTrees == [v \in Variables |-> ItsTree(v)]

LEMMA OperationIs ==
  ASSUME NEW v \in Variables, \A w \in Variables \ {v} : ItsTree(w)' = ItsTree(w),
         \/ \E w \in Variables : ItsTree(v)' = ItsTree(w) \/ ItsTree(v)' \in Values!Parts(ItsTree(w))
         \/ Becomes(ItsTree(v), ItsTree(v)', TreeArguments)
  PROVE  Values!Operation(AllTrees, AllTrees')
<1> PICK old : old = AllTrees
  OBVIOUS
<1> PICK new : new = AllTrees'
  OBVIOUS
<1>1. \A w \in Variables : old[w] = ItsTree(w) /\ new[w] = ItsTree(w)'
  BY DEF AllTrees
<1>2. {Values!Text(t) : t \in Texts} \cup {Values!Tree(old[w]) : w \in Variables} = TreeArguments
  BY <1>1 DEF TreeArguments
<1>3. \A w \in Variables \ {v} : new[w] = old[w]
  BY <1>1
<1>4. \/ \E w \in Variables : new[v] \in {old[w]} \cup Values!Parts(old[w])
      \/ Values!Edited(old[v], new[v], TreeArguments)
  BY <1>1 DEF Becomes
<1>5. Values!Operation(old, new)
  BY <1>2, <1>3, <1>4 DEF Values!Operation
<1> QED BY <1>5

LEMMA WritingOperates ==
  ASSUME IInv, NEW v \in Variables, Writing(v)
  PROVE  Values!Operation(AllTrees, AllTrees')
<1>1. PICK parameters, h, impl :
    /\ Held(parameters) \subseteq live
    /\ h \in {heap, Looking(v)}
    /\ Follows(impl, Detached(h, v, parameters), Held(parameters))
    /\ Becomes(ObjectTree(Detached(h, v, parameters), Trees(heap)),
               ObjectTree(impl, Trees(heap)), TreeArguments)
    /\ Write(h, v, parameters, impl)
  BY DEF Writing
<1>2. HeapOK(h) /\ \A c \in Cells : Says(h[c]) = Says(heap[c])
  BY <1>1, LookingIs, LookingAtSays DEF IInv
<1>3. Follows(impl, heap[handle[v]], Held(parameters))
  BY <1>1, DetachedIs, FollowsFollows
<1>4. /\ \A w \in Variables \ {v} : ItsTree(w)' = ItsTree(w)
      /\ ItsTree(v)' = ObjectTree(impl, Trees(heap))
  BY <1>1, <1>2, <1>3, WriteTrees
<1>5. Says(Detached(h, v, parameters)) = Says(heap[handle[v]])
  BY <1>2, DetachedSays
<1>6. ItsTree(v) = ObjectTree(heap[handle[v]], Trees(heap))
  <2>1. handle[v] \in Cells /\ HeapOK(heap)
    BY DEF IInv, TypeOK
  <2> QED BY <2>1, TreesAre DEF HasTrees, ItsTree
<1>7. ObjectTree(Detached(h, v, parameters), Trees(heap)) = ItsTree(v)
  BY <1>5, <1>6, SameTree
<1>8. Becomes(ItsTree(v), ItsTree(v)', TreeArguments)
  BY <1>1, <1>4, <1>7
<1> QED BY <1>4, <1>8, OperationIs

\* A step that changes no object, and gives w the object of a cell in use, or leaves all.
LEMMA LookedTrees ==
  ASSUME IInv, NEW h, HeapOK(h), \A c \in Cells : Says(h[c]) = Says(heap[c]),
         NEW hs \in [Variables -> live], Settle(h, hs)
  PROVE  \A v \in Variables : ItsTree(v)' = Trees(heap)[hs[v]]
<1>1. live \subseteq Cells /\ \A c \in live : Targets(heap[c]) \subseteq live
  BY DEF IInv, TypeOK
<1>2. HeapOK(heap) /\ Closed(heap, live) /\ hs \in [Variables -> Cells]
  BY <1>1 DEF IInv, Closed
<1>3. \A c \in live : Trees(h)[c] = Trees(heap)[c]
  BY <1>1, <1>2, Unwritten
<1>4. \A v \in Variables : ItsTree(v)' = Trees(h)[hs[v]]
  BY <1>2, SettledTrees
<1> QED BY <1>3, <1>4

LEMMA SettleOperates ==
  ASSUME IInv, NEW v \in Variables, NEW h, HeapOK(h), \A c \in Cells : Says(h[c]) = Says(heap[c]),
         Settle(h, handle)
  PROVE  Values!Operation(AllTrees, AllTrees')
<1>1. handle \in [Variables -> live]
  BY DEF IInv, TypeOK
<1>2. \A w \in Variables : ItsTree(w)' = ItsTree(w)
  BY <1>1, LookedTrees DEF ItsTree
<1> QED BY <1>2, OperationIs

LEMMA ReadOperates ==
  ASSUME IInv, NEW v \in Variables, Read(v) PROVE Values!Operation(AllTrees, AllTrees')
BY LookingIs, LookingAtSays, SettleOperates DEF Read

LEMMA PrimitiveMatchesOperates ==
  ASSUME IInv, NEW v \in Variables, PrimitiveMatches(v)
  PROVE  Values!Operation(AllTrees, AllTrees')
<1>1. PICK path \in Paths : Settle(LookedInto(Traversal(v, path)), handle)
  BY DEF PrimitiveMatches
<1>2. /\ HeapOK(LookedInto(Traversal(v, path)))
      /\ \A c \in Cells : Says(LookedInto(Traversal(v, path))[c]) = Says(heap[c])
  BY LookingKeeps, LookingSays DEF LookedInto, IInv
<1> QED BY <1>1, <1>2, SettleOperates

LEMMA CopyOperates ==
  ASSUME IInv, NEW v \in Variables, NEW w \in Variables, Copy(v, w)
  PROVE  Values!Operation(AllTrees, AllTrees')
<1> DEFINE hs == [handle EXCEPT ![w] = handle[v]]
<1>1. hs \in [Variables -> live] /\ hs[w] = handle[v] /\ \A u \in Variables \ {w} : hs[u] = handle[u]
  BY DEF IInv, TypeOK
<1>2. Settle(heap, hs) /\ HeapOK(heap)
  BY DEF Copy, IInv
<1> HIDE DEF hs
<1>3. \A u \in Variables : ItsTree(u)' = Trees(heap)[hs[u]]
  BY <1>1, <1>2, LookedTrees
<1>4. ItsTree(w)' = ItsTree(v) /\ \A u \in Variables \ {w} : ItsTree(u)' = ItsTree(u)
  BY <1>1, <1>3 DEF ItsTree
<1> QED BY <1>4, OperationIs

\* The object that a value is becomes that of w: a part of the object of v.
LEMMA TakeObjectOperates ==
  ASSUME IInv, NEW v \in Variables, NEW w \in Variables, TakeObject(v, w)
  PROVE  Values!Operation(AllTrees, AllTrees')
<1>0. PICK k \in Keys : \E value \in ToSet(ValuesOf(heap[handle[v]], k)) :
        value.isObject /\ Settle(Looking(v), [handle EXCEPT ![w] = value.of])
  BY DEF TakeObject
<1>1. PICK value \in ToSet(ValuesOf(heap[handle[v]], k)) :
        value.isObject /\ Settle(Looking(v), [handle EXCEPT ![w] = value.of])
  BY <1>0
<1> DEFINE impl == heap[handle[v]]
           i == LookupOf(impl)[k]
           old == ValuesAt(impl, i)
           hs == [handle EXCEPT ![w] = value.of]
           T == Trees(heap)
<1>2. ImplOK(impl) /\ handle \in [Variables -> live] /\ handle[v] \in Cells
  BY DEF IInv, TypeOK, HeapOK
<1>3. i # 0
  BY <1>1 DEF ValuesOf, ValuesAt, ToSet
<1>4. i \in DOMAIN impl.attributes /\ old \in Seq(Value) /\ Held(old) \subseteq Targets(impl)
  BY <1>2, <1>3, LookupFinds, ValuesThere
<1>5. PICK j \in DOMAIN old : value = old[j]
  BY <1>1 DEF ValuesOf, ToSet
<1>6. value.of \in live
  <2>1. value.of \in Held(old)
    BY <1>1 DEF Held, ValuesOf
  <2>2. Targets(impl) \subseteq live
    BY <1>2 DEF IInv, TypeOK
  <2> QED BY <1>4, <2>1, <2>2
<1>7. hs \in [Variables -> live] /\ hs[w] = value.of /\ \A u \in Variables \ {w} : hs[u] = handle[u]
  BY <1>2, <1>6
<1>8. \A u \in Variables : ItsTree(u)' = T[hs[u]]
  <2> HIDE DEF hs
  <2>1. Settle(Looking(v), hs)
    BY <1>1 DEF hs
  <2> QED BY <1>7, <2>1, LookingIs, LookingAtSays, LookedTrees
<1>9. ItsTree(v) = ObjectTree(impl, T)
  BY <1>2, TreesAre DEF HasTrees, ItsTree, IInv
<1> HIDE DEF hs, T
<1>10. Values!Values(ItsTree(v), k) = ValuesTree(old, T)
  <2>1. ValuesOf(impl, k) = old
    BY DEF ValuesOf
  <2> QED BY <1>2, <1>9, <2>1, ValuesInTree
<1>11. /\ DOMAIN ValuesTree(old, T) = DOMAIN old
       /\ ValuesTree(old, T)[j] = ValueTree(value, T)
  BY <1>5 DEF ValuesTree
<1>12. ValueTree(value, T).isObject /\ ValueTree(value, T).of = T[value.of]
  BY <1>1 DEF ValueTree
<1>13. T[value.of] \in Values!Parts(ItsTree(v))
  <2>1. ValueTree(value, T) \in Values!ToSet(Values!Values(ItsTree(v), k))
    BY <1>10, <1>11 DEF Values!ToSet
  <2> QED BY <1>12, <2>1 DEF Values!Parts
<1>14. ItsTree(w)' \in Values!Parts(ItsTree(v)) /\ \A u \in Variables \ {w} : ItsTree(u)' = ItsTree(u)
  BY <1>7, <1>8, <1>13 DEF ItsTree, T
<1> QED BY <1>14, OperationIs

LEMMA CreateOperates ==
  ASSUME IInv, NEW v \in Variables, Create(v) PROVE Values!Operation(AllTrees, AllTrees')
<1> DEFINE g == [heap EXCEPT ![NewCell] = EmptyImpl]
           hs == [handle EXCEPT ![v] = NewCell]
<1>1. NewCell \in Cells \ live /\ Settle(g, hs)
  BY NewCellIsFree DEF Create
<1>2. \A c \in Cells : NewCell \notin Targets(heap[c])
  BY <1>1, TargetsInUse
<1>3. HeapOK(g)
  BY <1>1, <1>2, EmptyImplOK, PutKeeps DEF IInv
<1>4. /\ heap \in [Cells -> Impl] /\ live \subseteq Cells /\ handle \in [Variables -> live]
      /\ HeapOK(heap) /\ Closed(heap, live)
  BY <1>2, UseIsClosed DEF IInv, TypeOK
<1>5. /\ hs \in [Variables -> Cells] /\ hs[v] = NewCell
      /\ \A w \in Variables \ {v} : hs[w] = handle[w]
      /\ g[NewCell] = EmptyImpl /\ \A c \in live : Says(g[c]) = Says(heap[c])
  BY <1>1, <1>4
<1> HIDE DEF g, hs
<1>6. \A w \in Variables : ItsTree(w)' = Trees(g)[hs[w]]
  BY <1>1, <1>3, <1>5, SettledTrees
<1>7. \A c \in live : Trees(g)[c] = Trees(heap)[c]
  BY <1>3, <1>4, <1>5, Unwritten
<1>8. \A w \in Variables \ {v} : ItsTree(w)' = ItsTree(w)
  BY <1>4, <1>5, <1>6, <1>7 DEF ItsTree
<1>9. ItsTree(v)' = Values!EmptyTree
  <2>1. Trees(g)[NewCell] = ObjectTree(EmptyImpl, Trees(g))
    BY <1>1, <1>3, <1>5, TreesAre DEF HasTrees
  <2> QED BY <1>5, <1>6, <2>1, EmptyTreeIs
<1>10. Becomes(ItsTree(v), ItsTree(v)', TreeArguments)
  BY <1>9 DEF Becomes, Values!Edited
<1> QED BY <1>8, <1>10, OperationIs

\* A deep copy stands for what the original stands for.
LEMMA DeepCopyOperates ==
  ASSUME IInv, NEW v \in Variables, NEW w \in Variables, DeepCopy(v, w)
  PROVE  Values!Operation(AllTrees, AllTrees')
<1>1. PICK made, from, g : Copying(v, w, made, from, g)
  BY DeepCopyIs
<1>2. /\ made \subseteq FreeCells /\ from \in [made -> live]
      /\ NewCell \in made /\ from[NewCell] = handle[v]
      /\ HeapOK(g)
      /\ \A c \in live : g[c] = heap[c]
      /\ \A c \in made :
           /\ \A d \in Targets(g[c]) : d \in made /\ from[d] \in Targets(heap[from[c]])
           /\ \A f, tree : (\A d \in Targets(g[c]) : tree[d] = f[from[d]])
                             => ObjectTree(g[c], tree) = ObjectTree(heap[from[c]], f)
      /\ Settle(g, [handle EXCEPT ![w] = NewCell])
  BY <1>1 DEF Copying
<1> DEFINE hs == [handle EXCEPT ![w] = NewCell]
<1>3. HeapOK(g)
  BY <1>2
<1>4. /\ made \subseteq Cells /\ made \cap live = {} /\ live \subseteq Cells
      /\ heap \in [Cells -> Impl] /\ handle \in [Variables -> live]
      /\ \A c \in live : Targets(heap[c]) \subseteq live
      /\ HeapOK(heap)
  BY <1>2 DEF FreeCells, IInv, TypeOK
<1>5. /\ \A c \in live : Says(g[c]) = Says(heap[c])
      /\ hs \in [Variables -> Cells] /\ hs[w] = NewCell
      /\ \A u \in Variables \ {w} : hs[u] = handle[u]
      /\ Settle(g, hs)
  BY <1>2, <1>4
<1> HIDE DEF hs
<1>6. \A u \in Variables : ItsTree(u)' = Trees(g)[hs[u]]
  BY <1>3, <1>5, SettledTrees
<1>7. \A c \in live : Trees(g)[c] = Trees(heap)[c]
  BY <1>3, <1>4, <1>5, Unwritten DEF Closed
<1>8. \A c \in made : Trees(g)[c] = Trees(heap)[from[c]]
  <2> DEFINE its == [c \in made |-> Trees(heap)[from[c]]]
  <2>1. Closed(g, made)
    BY <1>2, <1>4 DEF Closed
  <2>2. ASSUME NEW c \in made, \A d \in Targets(g[c]) : Trees(g)[d] = its[d]
        PROVE  Trees(g)[c] = its[c]
    <3>1. \A d \in Targets(g[c]) : d \in made /\ Trees(g)[d] = Trees(heap)[from[d]]
      BY <1>2, <2>2
    <3>2. \A f, t : (\A d \in Targets(g[c]) : t[d] = f[from[d]])
                       => ObjectTree(g[c], t) = ObjectTree(heap[from[c]], f)
      BY <1>2
    <3>3. ObjectTree(g[c], Trees(g)) = ObjectTree(heap[from[c]], Trees(heap))
      BY <3>1, <3>2
    <3>4. Trees(g)[c] = ObjectTree(g[c], Trees(g))
      BY <1>3, <1>4, TreesAre DEF HasTrees
    <3>5. Trees(heap)[from[c]] = ObjectTree(heap[from[c]], Trees(heap))
      BY <1>2, <1>4, TreesAre DEF HasTrees
    <3> QED BY <3>3, <3>4, <3>5
  <2>3. NoCycle(g)
    BY <1>3 DEF HeapOK
  <2>4. \A c \in made : Trees(g)[c] = its[c]
    <3> HIDE DEF its
    <3> QED BY <2>1, <2>2, <2>3, AgreeUpwards
  <2> QED BY <2>4
<1>9. ItsTree(w)' = ItsTree(v)
  BY <1>2, <1>5, <1>6, <1>8 DEF ItsTree
<1>10. \A u \in Variables \ {w} : ItsTree(u)' = ItsTree(u)
  BY <1>4, <1>5, <1>6, <1>7 DEF ItsTree
<1> QED BY <1>9, <1>10, OperationIs

-----------------------------------------------------------------------------
(* A path through the trees *)

\* The trees that a path leads through are those reached one after the other.
Reached(o, path, N, tree) ==
  /\ tree[1] = o
  /\ \A n \in 2 .. N : tree[n] = Values!Selected(tree[n - 1], path[n - 1]).of

LEMMA WayIs ==
  ASSUME NEW o, NEW path, NEW N \in Nat, DOMAIN path = 1 .. N, NEW tree, Reached(o, path, N, tree)
  PROVE  \A n \in 1 .. N : Values!Way(o, path)[n] = tree[n]
<1>0. tree[1] = o /\ \A n \in 2 .. N : tree[n] = Values!Selected(tree[n - 1], path[n - 1]).of
  BY DEF Reached
<1> DEFINE Leading(f) == f = [n \in 1 .. N |-> IF n = 1 THEN o
                                             ELSE Values!Selected(f[n - 1], path[n - 1]).of]
           way == CHOOSE f : Leading(f)
           trees == [n \in 1 .. N |-> tree[n]]
<1>1. ASSUME NEW n \in 1 .. N
      PROVE  trees[n] = IF n = 1 THEN o ELSE Values!Selected(trees[n - 1], path[n - 1]).of
  <2>1. CASE n = 1
    BY <1>0, <2>1
  <2>2. CASE n # 1
    <3>1. n \in 2 .. N /\ n - 1 \in 1 .. N
      BY <2>2
    <3>2. trees[n] = tree[n] /\ trees[n - 1] = tree[n - 1]
      BY <3>1
    <3> HIDE DEF trees
    <3> QED BY <1>0, <2>2, <3>1, <3>2
  <2> QED BY <2>1, <2>2
<1>2. Leading(trees)
  BY <1>1
<1>3. Leading(way)
  <2> HIDE DEF Leading, trees
  <2> QED BY <1>2
<1>4. Values!Way(o, path) = way
  BY DEF Values!Way
<1> HIDE DEF way
<1>5. \A n \in 1 .. N : way[n] = IF n = 1 THEN o ELSE Values!Selected(way[n - 1], path[n - 1]).of
  BY <1>3
<1> DEFINE S == {n \in 0 .. N : n = 0 \/ way[n] = tree[n]}
<1>6. 0 \in S
  OBVIOUS
<1>7. ASSUME NEW n \in 1 .. N, n - 1 \in S  PROVE n \in S
  <2>1. CASE n = 1
    BY <1>0, <1>5, <2>1
  <2>2. CASE n # 1
    <3>1. n \in 2 .. N /\ n - 1 # 0
      BY <2>2
    <3>2. way[n - 1] = tree[n - 1]
      BY <1>7, <3>1
    <3> QED BY <1>0, <1>5, <2>2, <3>1, <3>2
  <2> QED BY <2>1, <2>2
<1>8. \A n \in 0 .. N : n \in S
  <2> HIDE DEF S
  <2> QED BY <1>6, <1>7, RangeInduction
<1> QED BY <1>4, <1>8

\* The trees of a path, each with the one after it put where the path leads.
Rebuilt(o, path, t, N, tree) ==
  \A n \in 1 .. N :
    tree[n] = Values!Put(Values!Way(o, path)[n], path[n],
                         IF n = N THEN Values!Text(t) ELSE Values!Tree(tree[n + 1]))

LEMMA ChangedIs ==
  ASSUME NEW o, NEW path, NEW t, NEW N \in Nat, N >= 1, DOMAIN path = 1 .. N, Len(path) = N,
         NEW tree, Rebuilt(o, path, t, N, tree)
  PROVE  Values!Changed(o, path, t) = tree[1]
<1> DEFINE at(n, next) == Values!Put(Values!Way(o, path)[n], path[n],
                                     IF n = N THEN Values!Text(t) ELSE Values!Tree(next))
           Changing(f) == f = [n \in 1 .. N |-> at(n, f[n + 1])]
           changed == CHOOSE f : Changing(f)
           trees == [n \in 1 .. N |-> tree[n]]
<1>1. Values!Changed(o, path, t) = changed[1]
  BY DEF Values!Changed
<1>2. \A next, other : at(N, next) = at(N, other)
  OBVIOUS
<1>3. \A n \in 1 .. N : tree[n] = at(n, tree[n + 1])
  BY DEF Rebuilt
<1> HIDE DEF at
<1>4. ASSUME NEW n \in 1 .. N  PROVE trees[n] = at(n, trees[n + 1])
  <2>1. trees[n] = at(n, tree[n + 1])
    BY <1>3
  <2>2. CASE n = N
    BY <1>2, <2>1, <2>2
  <2>3. CASE n # N
    <3>1. n + 1 \in 1 .. N
      BY <2>3
    <3>2. trees[n + 1] = tree[n + 1]
      BY <3>1
    <3> QED BY <2>1, <3>2
  <2> QED BY <2>2, <2>3
<1>5. Changing(trees)
  BY <1>4
<1>6. Changing(changed)
  <2> HIDE DEF Changing, trees
  <2> QED BY <1>5
<1> HIDE DEF changed
<1>7. \A n \in 1 .. N : changed[n] = at(n, changed[n + 1])
  BY <1>6
<1> DEFINE S == {n \in 0 .. N : n = 0 \/ changed[N + 1 - n] = tree[N + 1 - n]}
<1>8. ASSUME NEW n \in 1 .. N, n - 1 \in S  PROVE n \in S
  <2> DEFINE m == N + 1 - n
  <2>1. m \in 1 .. N /\ changed[m] = at(m, changed[m + 1]) /\ tree[m] = at(m, tree[m + 1])
    <3>1. m \in 1 .. N
      OBVIOUS
    <3> HIDE DEF m
    <3> QED BY <1>3, <1>7, <3>1
  <2>2. CASE n = 1
    <3>1. m = N
      BY <2>2
    <3> HIDE DEF m
    <3>2. changed[m] = tree[m]
      BY <1>2, <2>1, <3>1
    <3> QED BY <3>2 DEF m
  <2>3. CASE n # 1
    <3>1. n - 1 # 0 /\ N + 1 - (n - 1) = m + 1
      BY <2>3
    <3>2. changed[m + 1] = tree[m + 1]
      BY <1>8, <3>1
    <3>3. changed[m] = tree[m]
      <4> HIDE DEF m
      <4> QED BY <2>1, <3>2
    <3> QED BY <3>3
  <2> QED BY <2>2, <2>3
<1>9. 0 \in S
  OBVIOUS
<1>10. \A n \in 0 .. N : n \in S
  <2> HIDE DEF S
  <2> QED BY <1>8, <1>9, RangeInduction
<1>11. N \in S /\ N # 0 /\ N + 1 - N = 1
  <2> HIDE DEF S
  <2> QED BY <1>10
<1>12. changed[1] = tree[1]
  BY <1>11
<1> QED BY <1>1, <1>12

\* A step without wildcard selects in the tree what it selects in the Impl (selectedIndexes).
LEMMA SelectedInTree ==
  ASSUME NEW impl, ImplOK(impl), NEW step \in Step, step.selector # "All",
         Selectable(impl, step), NEW tree
  PROVE  LET o == ObjectTree(impl, tree)
         IN  /\ SelectedIndexes(impl, step)[1] \in Nat
             /\ SelectedIndexes(impl, step)[1] + 1 = Values!Place(step)
             /\ SelectedIndexes(impl, step)[1] < Len(ValuesOf(impl, step.attribute))
             /\ Values!Place(step) \in DOMAIN Values!Values(o, step.attribute)
             /\ Values!Selected(o, step) = ValueTree(Selected(impl, step), tree)
<1> DEFINE i == LookupOf(impl)[step.attribute]
           values == ValuesAt(impl, i)
           at == SelectedIndexes(impl, step)[1]
           o == ObjectTree(impl, tree)
<1>1. step.attribute \in Keys /\ step.index \in Nat /\ step.selector \in {"First", "Index"}
  BY DEF Step, Selector
<1>2. values \in Seq(Value) \ {<<>>}
  <2>1. i \in DOMAIN impl.attributes
    BY <1>1, LookupFinds DEF Selectable
  <2> QED BY <2>1, ValuesThere
<1>3. step.selector = "Index" => step.index \in 1 .. Len(values)
  BY DEF Selectable, ValuesOf
<1>4. at = IF step.selector = "First" THEN 0 ELSE step.index - 1
  BY <1>1 DEF SelectedIndexes
<1>5. Values!Place(step) = IF step.selector = "Index" THEN step.index ELSE 1
  BY DEF Values!Place
<1>6. ValuesOf(impl, step.attribute) = values
  BY DEF ValuesOf
<1> HIDE DEF values, at, i
<1>7. at \in Nat /\ at + 1 = Values!Place(step) /\ at < Len(values) /\ at + 1 \in DOMAIN values
  BY <1>1, <1>2, <1>3, <1>4, <1>5
<1>8. Values!Values(o, step.attribute) = ValuesTree(values, tree)
  BY <1>1, <1>6, ValuesInTree
<1>9. Values!Place(step) \in DOMAIN values
  BY <1>7
<1>10. ValuesTree(values, tree)[Values!Place(step)] = ValueTree(values[Values!Place(step)], tree)
  BY <1>9 DEF ValuesTree
<1>11. Selected(impl, step) = values[Values!Place(step)]
  BY <1>6, <1>7 DEF Selected, at
<1>12. Values!Selected(o, step) = ValuesTree(values, tree)[Values!Place(step)]
  BY <1>8 DEF Values!Selected
<1>13. Values!Place(step) \in DOMAIN Values!Values(o, step.attribute)
  BY <1>8, <1>9 DEF ValuesTree
<1> HIDE DEF o
<1> QED BY <1>6, <1>7, <1>10, <1>11, <1>12, <1>13 DEF at, o

\* An object with the other value, of an Impl that says the same (replaceAt).
LEMMA ReplacementInTree ==
  ASSUME NEW impl, ImplOK(impl), NEW step \in Step, step.selector # "All",
         Selectable(impl, step), NEW old, ImplOK(old), Says(old) = Says(impl),
         NEW v \in Value, NEW tree
  PROVE  ObjectTree(Replacement(old, step, v), tree)
           = Values!Put(ObjectTree(impl, tree), step, ValueTree(v, tree))
<1> DEFINE k == step.attribute
           at == SelectedIndexes(impl, step)[1]
<1>1. /\ at \in Nat /\ at + 1 = Values!Place(step) /\ at < Len(ValuesOf(impl, k))
      /\ SelectedIndexes(old, step)[1] = at
  BY SelectedInTree, SelectedAnywhere
<1>2. k \in Keys
  BY DEF Step
<1>3. ValuesOf(old, k) = ValuesOf(impl, k)
  BY <1>2, SameValues
<1>4. Replacement(old, step, v) = Replaced(old, k, at, v)
  BY <1>1 DEF Replacement
<1>5. ObjectTree(old, tree) = ObjectTree(impl, tree)
  BY SameTree
<1> HIDE DEF at, k
<1>6. PutAt(ObjectTree(old, tree), ObjectTree(Replaced(old, k, at, v), tree), k, at + 1,
            ValueTree(v, tree))
  BY <1>1, <1>2, <1>3, ReplacedIs
<1> QED BY <1>1, <1>4, <1>5, <1>6 DEF PutAt, Values!Put, k

LEMMA SelectedValue ==
  ASSUME NEW impl, ImplOK(impl), NEW step \in Step, step.selector # "All", Selectable(impl, step)
  PROVE  Selected(impl, step) \in Value
<1> DEFINE i == LookupOf(impl)[step.attribute]
           values == ValuesAt(impl, i)
           at == SelectedIndexes(impl, step)[1]
<1>1. i \in DOMAIN impl.attributes
  BY LookupFinds DEF Selectable, Step
<1>2. values \in Seq(Value)
  BY <1>1, ValuesThere
<1>3. at \in Nat /\ at < Len(ValuesOf(impl, step.attribute))
  BY SelectedInTree
<1>4. ValuesOf(impl, step.attribute) = values
  BY DEF ValuesOf
<1> HIDE DEF values, at
<1>5. at + 1 \in DOMAIN values
  BY <1>2, <1>3, <1>4
<1> QED BY <1>2, <1>4, <1>5 DEF Selected, at

\* The objects on the way stand for the trees on the way, and those made for the changed ones.
LEMMA ReplaceSinglePrimitiveOperates ==
  ASSUME IInv, NEW v \in Variables, ReplaceSinglePrimitive(v)
  PROVE  Values!Operation(AllTrees, AllTrees')
<1>1. PICK path \in Paths, t \in Texts : \E way, cells, g : Replacing(v, path, t, way, cells, g)
  BY ReplaceSinglePrimitiveIs
<1>2. PICK way, cells, g : Replacing(v, path, t, way, cells, g)
  BY <1>1
<1> DEFINE N == Len(path)
           T == Trees(heap)
           TG == Trees(g)
           before == [n \in 1 .. N |-> T[way[n]]]
           after == [n \in 1 .. N |-> TG[cells[n]]]
           text(n) == IF n = N THEN Primitive(t) ELSE Object(cells[n + 1])
<1>3. /\ N \in Nat /\ N >= 1 /\ DOMAIN path = 1 .. N /\ 1 \in 1 .. N
      /\ \A n \in 1 .. N : path[n] \in Step /\ path[n].selector # "All"
  <2>1. path \in Seq(Step) /\ path # <<>> /\ \A n \in DOMAIN path : path[n].selector # "All"
    BY <1>2 DEF Replacing
  <2> QED BY <2>1
<1>4. /\ live \subseteq Cells /\ heap \in [Cells -> Impl] /\ handle \in [Variables -> live]
      /\ HeapOK(heap) /\ \A c \in Cells : ImplOK(heap[c]) /\ Targets(heap[c]) \subseteq live
  BY TargetsInUse, SMTT(30) DEF IInv, TypeOK, HeapOK
<1>5. /\ way \in [1 .. N -> live] /\ way[1] = handle[v] /\ Leads(path, way)
      /\ HeapOK(g) /\ cells[1] \in Cells
      /\ \A n \in 1 .. N :
           /\ cells[n] \in Cells
           /\ \E old : /\ ImplOK(old) /\ Says(old) = Says(heap[way[n]])
                       /\ g[cells[n]] = Replacement(old, path[n], text(n))
      /\ \A c \in live \ {cells[1]} : Says(g[c]) = Says(heap[c])
      /\ \A c \in Cells : cells[1] \notin Targets(heap[c])
      /\ \A w \in Variables \ {v} : handle[w] # cells[1]
      /\ Settle(g, [handle EXCEPT ![v] = cells[1]])
  BY <1>2, <1>3 DEF Replacing
<1> HIDE DEF N, text, T, TG
\* What no copy is made of stands for what it did.
<1>6. \A c \in live \ {cells[1]} : TG[c] = T[c]
  <2>1. Closed(heap, live \ {cells[1]})
    BY <1>5, UseIsClosed
  <2> QED BY <1>4, <1>5, <2>1, Unwritten DEF T, TG
<1>7. \A c \in Cells : T[c] = ObjectTree(heap[c], T) /\ TG[c] = ObjectTree(g[c], TG)
  BY <1>4, <1>5, TreesAre DEF HasTrees, T, TG
<1>8. \A c \in Cells : ObjectTree(heap[c], TG) = T[c]
  <2> TAKE c \in Cells
  <2>1. \A d \in Targets(heap[c]) : TG[d] = T[d]
    BY <1>4, <1>5, <1>6
  <2>2. ObjectTree(heap[c], TG) = ObjectTree(heap[c], T)
    BY <2>1, TreeDepends
  <2> QED BY <1>7, <2>2
\* The way
<1>9. ASSUME NEW n \in 1 .. N
      PROVE  /\ way[n] \in Cells /\ ImplOK(heap[way[n]]) /\ Selectable(heap[way[n]], path[n])
             /\ IF n = N THEN ~Selected(heap[way[n]], path[n]).isObject
                ELSE Selected(heap[way[n]], path[n]) = Object(way[n + 1])
  <2>1. n \in DOMAIN path
    BY <1>3
  <2>2. way[n] \in Cells
    BY <1>4, <1>5
  <2> QED BY <1>4, <1>5, <2>1, <2>2 DEF Leads, N
<1>10. ASSUME NEW n \in 1 .. N
       PROVE  /\ Values!Place(path[n]) \in DOMAIN Values!Values(T[way[n]], path[n].attribute)
              /\ Values!Selected(T[way[n]], path[n]) = ValueTree(Selected(heap[way[n]], path[n]), T)
  <2>1. T[way[n]] = ObjectTree(heap[way[n]], T)
    BY <1>7, <1>9
  <2> QED BY <1>3, <1>9, <2>1, SelectedInTree
<1>11. ASSUME NEW n \in 1 .. N
       PROVE  /\ Values!Selected(T[way[n]], path[n]).isObject = (n < N)
              /\ n < N => Values!Selected(T[way[n]], path[n]).of = T[way[n + 1]]
  <2>1. CASE n = N
    <3>1. ~Selected(heap[way[n]], path[n]).isObject
      BY <1>9, <2>1
    <3>2. ValueTree(Selected(heap[way[n]], path[n]), T) = Selected(heap[way[n]], path[n])
      BY <3>1 DEF ValueTree
    <3>3. Selected(heap[way[n]], path[n]) \in Value
      BY <1>3, <1>9, SelectedValue
    <3>4. Selected(heap[way[n]], path[n]).isObject = FALSE
      BY <3>1, <3>3 DEF Value, Primitive, Object
    <3>5. (n < N) = FALSE
      BY <1>3, <2>1
    <3>6. Values!Selected(T[way[n]], path[n]).isObject = FALSE
      BY <1>10, <3>2, <3>4
    <3> QED BY <3>5, <3>6
  <2>2. CASE n # N
    <3>1. ValueTree(Object(way[n + 1]), T) = [isObject |-> TRUE, of |-> T[way[n + 1]]]
      BY DEF ValueTree, Object
    <3>2. (n < N) = TRUE
      BY <1>3, <2>2
    <3>3. Values!Selected(T[way[n]], path[n]) = [isObject |-> TRUE, of |-> T[way[n + 1]]]
      BY <1>9, <1>10, <2>2, <3>1
    <3>4. Values!Selected(T[way[n]], path[n]).isObject = TRUE
      BY <3>3
    <3>5. Values!Selected(T[way[n]], path[n]).of = T[way[n + 1]]
      BY <3>3
    <3> QED BY <3>2, <3>4, <3>5
  <2> QED BY <2>1, <2>2
<1>12. \A n \in 1 .. N : Values!Way(T[handle[v]], path)[n] = before[n]
  <2>1. before[1] = T[handle[v]]
    BY <1>3, <1>5
  <2>2. ASSUME NEW n \in 2 .. N
        PROVE  before[n] = Values!Selected(before[n - 1], path[n - 1]).of
    <3>1. n - 1 \in 1 .. N /\ n \in 1 .. N /\ n - 1 < N /\ (n - 1) + 1 = n
      BY <1>3
    <3>2. before[n] = T[way[n]] /\ before[n - 1] = T[way[n - 1]]
      BY <3>1
    <3>3. Values!Selected(T[way[n - 1]], path[n - 1]).of = T[way[n]]
      BY <1>11, <3>1
    <3> QED BY <3>2, <3>3
  <2> HIDE DEF before
  <2>3. Reached(T[handle[v]], path, N, before)
    BY <2>1, <2>2 DEF Reached
  <2> QED BY <1>3, <2>3, WayIs
<1>13. Values!Leads(T[handle[v]], path)
  <2>1. ASSUME NEW n \in DOMAIN path
        PROVE  LET o == Values!Way(T[handle[v]], path)[n]
               IN  /\ path[n].selector # "All"
                   /\ Values!Place(path[n]) \in DOMAIN Values!Values(o, path[n].attribute)
                   /\ Values!Selected(o, path[n]).isObject = (n < Len(path))
    <3>1. n \in 1 .. N /\ Values!Way(T[handle[v]], path)[n] = T[way[n]]
      BY <1>3, <1>12
    <3> QED BY <1>3, <1>10, <1>11, <3>1 DEF N
  <2> QED BY <2>1 DEF Values!Leads
\* The copies
<1>14. ASSUME NEW n \in 1 .. N
       PROVE  after[n] = Values!Put(Values!Way(T[handle[v]], path)[n], path[n],
                                    IF n = N THEN Values!Text(t) ELSE Values!Tree(after[n + 1]))
  <2>1. PICK old : /\ ImplOK(old) /\ Says(old) = Says(heap[way[n]])
                   /\ g[cells[n]] = Replacement(old, path[n], text(n))
    BY <1>5
  <2>2. text(n) \in Value
    <3>1. CASE n = N
      BY <3>1 DEF text, Value
    <3>2. CASE n # N
      <4>1. n + 1 \in 1 .. N
        BY <1>3, <3>2
      <4>2. cells[n + 1] \in Cells
        BY <1>5, <4>1
      <4> QED BY <3>2, <4>2 DEF text, Value
    <3> QED BY <3>1, <3>2
  <2>3. ObjectTree(Replacement(old, path[n], text(n)), TG)
          = Values!Put(ObjectTree(heap[way[n]], TG), path[n], ValueTree(text(n), TG))
    BY <1>3, <1>9, <2>1, <2>2, ReplacementInTree
  <2>4. TG[cells[n]] = ObjectTree(g[cells[n]], TG) /\ ObjectTree(heap[way[n]], TG) = T[way[n]]
    BY <1>5, <1>7, <1>8, <1>9
  <2>5. Values!Way(T[handle[v]], path)[n] = T[way[n]]
    BY <1>12
  <2>6. ValueTree(text(n), TG)
          = IF n = N THEN Values!Text(t) ELSE Values!Tree(after[n + 1])
    <3>1. CASE n = N
      <4>1. text(n) = Primitive(t)
        BY <3>1 DEF text
      <4> QED BY <3>1, <4>1 DEF ValueTree, Primitive, Values!Text
    <3>2. CASE n # N
      <4>1. n + 1 \in 1 .. N
        BY <1>3, <3>2
      <4>2. after[n + 1] = TG[cells[n + 1]]
        BY <4>1
      <4>3. text(n) = Object(cells[n + 1])
        BY <3>2 DEF text
      <4>4. ValueTree(Object(cells[n + 1]), TG) = Values!Tree(TG[cells[n + 1]])
        BY DEF ValueTree, Object, Values!Tree
      <4> HIDE DEF after
      <4> QED BY <3>2, <4>2, <4>3, <4>4
    <3> QED BY <3>1, <3>2
  <2>7. after[n] = TG[cells[n]]
    OBVIOUS
  <2> HIDE DEF after
  <2> QED BY <2>1, <2>3, <2>4, <2>5, <2>6, <2>7
<1>15. Values!Changed(T[handle[v]], path, t) = after[1]
  <2> HIDE DEF after
  <2>1. Len(path) = N
    BY DEF N
  <2>2. Rebuilt(T[handle[v]], path, t, N, after)
    BY <1>14 DEF Rebuilt
  <2> QED BY <1>3, <2>1, <2>2, ChangedIs
\* The variables
<1>16. ItsTree(v) = T[handle[v]]
  BY DEF ItsTree, T
<1> DEFINE hs == [handle EXCEPT ![v] = cells[1]]
<1>17. /\ hs \in [Variables -> Cells] /\ hs[v] = cells[1]
       /\ \A w \in Variables \ {v} : hs[w] = handle[w]
  BY <1>4, <1>5
<1>18. Settle(g, hs)
  BY <1>5
<1> HIDE DEF hs
<1>19. \A w \in Variables : ItsTree(w)' = TG[hs[w]]
  BY <1>5, <1>17, <1>18, SettledTrees DEF TG
<1>20. \A w \in Variables \ {v} : ItsTree(w)' = ItsTree(w)
  <2> TAKE w \in Variables \ {v}
  <2>1. handle[w] \in live \ {cells[1]} /\ hs[w] = handle[w]
    BY <1>4, <1>5, <1>17
  <2> QED BY <1>6, <1>19, <2>1 DEF ItsTree, T
<1>21. ItsTree(v)' = after[1]
  BY <1>3, <1>17, <1>19
<1> HIDE DEF after
<1>22. ItsTree(v)' = Values!Changed(ItsTree(v), path, t) /\ Values!Leads(ItsTree(v), path)
  BY <1>13, <1>15, <1>16, <1>21
<1>23. Becomes(ItsTree(v), ItsTree(v)', TreeArguments)
  BY <1>22 DEF Becomes, Values!Edited
<1> QED BY <1>20, <1>23, OperationIs

-----------------------------------------------------------------------------
(* The refinement *)

LEMMA StartsEmpty == Init => AllTrees = [v \in Variables |-> Values!EmptyTree]
<1> SUFFICES ASSUME Init, NEW v \in Variables  PROVE ItsTree(v) = Values!EmptyTree
  BY DEF AllTrees
<1>1. HeapOK(heap) /\ handle[v] \in Cells
  BY InitHolds DEF IInv, TypeOK
<1>2. heap[handle[v]] = EmptyImpl
  BY <1>1 DEF Init
<1>3. Trees(heap)[handle[v]] = ObjectTree(heap[handle[v]], Trees(heap))
  BY <1>1, TreesAre DEF HasTrees
<1> QED BY <1>2, <1>3, EmptyTreeIs DEF ItsTree

LEMMA NextOperates ==
  ASSUME IInv, Next
  PROVE  Values!Operation(AllTrees, AllTrees')
<1>1. PICK v \in Variables :
        \/ Create(v) \/ SetField(v) \/ SetValue(v) \/ AppendValue(v) \/ InsertValue(v)
        \/ ReplaceValue(v) \/ EraseValue(v) \/ EraseAttribute(v) \/ ClearAttributes(v) \/ Read(v)
        \/ (\E w \in Variables : Copy(v, w) \/ TakeObject(v, w) \/ DeepCopy(v, w))
        \/ PrimitiveMatches(v) \/ ReplaceSinglePrimitive(v)
  BY DEF Next, ObjectNext
<1>2. CASE \/ SetField(v) \/ SetValue(v) \/ AppendValue(v) \/ InsertValue(v)
           \/ ReplaceValue(v) \/ EraseValue(v) \/ EraseAttribute(v) \/ ClearAttributes(v)
  <2>1. Writing(v)
    BY <1>2, WritesAre
  <2> QED BY <2>1, WritingOperates
<1>3. CASE \/ Create(v) \/ Read(v) \/ PrimitiveMatches(v) \/ ReplaceSinglePrimitive(v)
  BY <1>3, CreateOperates, ReadOperates, PrimitiveMatchesOperates,
     ReplaceSinglePrimitiveOperates
<1>4. CASE \E w \in Variables : Copy(v, w) \/ TakeObject(v, w) \/ DeepCopy(v, w)
  BY <1>4, CopyOperates, TakeObjectOperates, DeepCopyOperates
<1> QED BY <1>1, <1>2, <1>3, <1>4

\* Each variable has an object of its own: of the heap with its shared objects, their lookups and
\* the copies made of them, a program sees one tree for each variable, which no operation on
\* another variable changes (IomObject::detach, Impl::find, IomPath::replaceSinglePrimitive).
THEOREM HandlesAreValues == Spec => ImplementsValues
<1>1. Init => Values!Init
  BY StartsEmpty DEF Values!Init, AllTrees, ItsTree
<1>2. IInv /\ [Next]_vars => [Values!Next]_AllTrees
  <2> SUFFICES ASSUME IInv, [Next]_vars  PROVE [Values!Next]_AllTrees
    OBVIOUS
  <2>1. CASE Next
    <3>1. Values!Operation(AllTrees, AllTrees')
      BY <2>1, NextOperates
    <3> QED BY <3>1 DEF Values!Next, AllTrees, ItsTree
  <2>2. CASE UNCHANGED vars
    BY <2>2 DEF vars, AllTrees, ItsTree, Trees, ObjectTree, AttributeTree, ValuesTree, ValueTree
  <2> QED BY <2>1, <2>2
<1>3. [Values!Next]_AllTrees => [Values!Next]_[v \in Variables |-> Trees(heap)[handle[v]]]
  BY DEF AllTrees, ItsTree
<1> QED BY <1>1, <1>2, <1>3, InvariantHolds, PTL DEF Spec, ImplementsValues, Values!Spec
=============================================================================
