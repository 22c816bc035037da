--------------------------------- MODULE Reader ---------------------------------
(***************************************************************************)
(* What code that is given an iox::Reader (include/iox/Reader.h) sees of   *)
(* it: feed(), finish() and next() as source/xtf/common/XtfReader.cpp has  *)
(* them, over an input that is known only by what it amounts to.  How far  *)
(* a call gets with the input depends on the chunks and on the limit of    *)
(* the queue, which XtfReader.tla models; here a call may get any distance.*)
(***************************************************************************)
EXTENDS Naturals, Sequences, SequencesExt, Selection

VARIABLE script     \* the items that the input amounts to

EventKind == {"StartTransfer", "StartBasket", "Object", "EndBasket", "EndTransfer"}

\* A diagnostic that is recorded, and an error that is thrown.
ItemKind == EventKind \cup {"warning", "error", "fault"}

\* The events of an input are those of one transfer: none follows its end.
IsInput(items) ==
  /\ items \in Seq(ItemKind)
  /\ \A i, j \in DOMAIN items : items[i] = "EndTransfer" /\ i < j => items[j] \notin EventKind

\* Events and diagnostics are named by the item they come from.
ItemsOf(kinds, from, to) ==
  Only([n \in 1 .. to - from |-> from + n], {i \in DOMAIN script : script[i] \in kinds})
EventsIn(from, to) == ItemsOf(EventKind, from, to)
DiagnosesIn(from, to) == ItemsOf({"warning", "error"}, from, to)

\* Every event and every diagnostic up to `parsed' is known; those up to `taken' have been returned
\* by next(), and the diagnostics up to `told' by takeDiagnostics().
ReaderState ==
  [parsed : Nat, taken : Nat, told : Nat, finishCalled : BOOLEAN, failed : BOOLEAN]

FreshReader ==
  [parsed |-> 0, taken |-> 0, told |-> 0, finishCalled |-> FALSE, failed |-> FALSE]

\* The event queue, and its front.
Waiting(r) == {i \in r.taken + 1 .. r.parsed : script[i] \in EventKind}
Foremost(r) == {i \in Waiting(r) : \A j \in Waiting(r) : i <= j}
Popped(r, i) == [r EXCEPT !.taken = i]

\* The parser has got as far as `to'.
ParsedTo(r, to) == [r EXCEPT !.parsed = to, !.failed = to > r.parsed /\ script[to] = "fault"]

\* pump(): nothing is parsed behind a fault, and once finish() was called, the parser stops
\* before the end only for a queue that is full.
Pumped(r) ==
  IF r.failed THEN {r}
  ELSE {p \in {ParsedTo(r, to) : to \in r.parsed .. Len(script)} :
          /\ \A i \in r.parsed + 1 .. p.parsed - 1 : script[i] # "fault"
          /\ r.finishCalled => p.failed \/ Waiting(p) # {} \/ p.parsed = Len(script)}

Fed(r) == Pumped(r)
Finished(r) == Pumped([r EXCEPT !.finishCalled = TRUE])

ParseComplete(r) == r.finishCalled /\ ~r.failed /\ r.parsed = Len(script)

Outcome(r, progress, event) == [reader |-> r, progress |-> progress, event |-> event]
Threw(r) == Outcome(r, "Threw", 0)

\* What next() returns where the queue was empty before it pumped.
Pulled(p) ==
  IF p.failed THEN {Threw(p)}
  ELSE IF Waiting(p) # {} THEN {Outcome(Popped(p, i), "Event", i) : i \in Foremost(p)}
  ELSE {Outcome(p, IF ParseComplete(p) THEN "End" ELSE "NeedInput", 0)}

\* next(): an event that is ready is popped before pump(), and lost if that throws.
NextOf(r) ==
  IF r.failed THEN {Threw(r)}
  ELSE IF Waiting(r) = {} THEN UNION {Pulled(p) : p \in Pumped(r)}
  ELSE {IF p.failed THEN Threw(p) ELSE Outcome(p, "Event", p.taken)
          : p \in UNION {Pumped(Popped(r, i)) : i \in Foremost(r)}}

\* takeDiagnostics()
Recorded(r) == DiagnosesIn(r.told, r.parsed)
Taken(r) == [r EXCEPT !.told = r.parsed]
=============================================================================
