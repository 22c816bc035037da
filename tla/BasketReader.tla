------------------------------ MODULE BasketReader ------------------------------
(***************************************************************************)
(* The BasketReader of source/core/Basket.cpp over the reader it owns,     *)
(* whose input may have been finished before, or not, and from which       *)
(* events may have been read before.  Every call of the reader is a step.  *)
(***************************************************************************)
EXTENDS Reader, FiniteSets

CONSTANTS
  MaxObjects    \* maxObjectsPerBasket, 0 for no limit

ASSUME MaxObjectsAssumption == MaxObjects \in Nat

VARIABLES
  source,          \* the reader
  begun,           \* the item up to which it was read before
  step,            \* what the current call does next, or "idle"
  header,          \* transferHeader, 0 for none
  headerResolved,
  failed,
  fatal,           \* the number of diagnostics of the BasketReader itself
  collected,       \* the basket that is being read, or <<>>
  baskets,         \* the baskets that were returned
  last             \* how the last call ended

basketVars ==
  <<source, begun, step, header, headerResolved, failed, fatal, collected, baskets, last>>

\* The input is finished or not, and some of the events were taken.
BasketInit ==
  /\ \E finishCalled \in BOOLEAN :
       \E r \in Pumped([FreshReader EXCEPT !.finishCalled = finishCalled]) :
         \E n \in {0} \cup Waiting(r) :
           ~r.failed /\ source = Popped(r, n) /\ begun = n
  /\ step = "idle" /\ header = 0 /\ headerResolved = FALSE /\ failed = FALSE
  /\ fatal = 0 /\ collected = <<>> /\ baskets = <<>> /\ last = "none"

CallEnds(how) == step' = "idle" /\ collected' = <<>> /\ last' = how

\* Mutant of AddFatal: the reader is asked again by the next call.
AddFatalAndGoOn(n) == fatal' = fatal + n /\ UNCHANGED failed /\ CallEnds("failed")

\* addFatal(), and the call returns nothing.
AddFatal(n) == fatal' = fatal + n /\ failed' = TRUE /\ CallEnds("failed")

\* The exception of the reader passes through.
Throws == CallEnds("threw") /\ UNCHANGED <<fatal, failed>>

-----------------------------------------------------------------------------
\* header() and readBasket() begin with resolveHeader().
ReadBasket ==
  /\ step = "idle"
  /\ \/ ~headerResolved /\ ~failed /\ headerResolved' = TRUE /\ step' = "header" /\ UNCHANGED last
     \/ headerResolved /\ ~failed /\ step' = "first" /\ UNCHANGED <<headerResolved, last>>
     \/ failed /\ last' = "failed" /\ UNCHANGED <<headerResolved, step>>
  /\ UNCHANGED <<source, begun, header, failed, fatal, collected, baskets>>

\* resolveHeader(): the first event is the header, and any other one is lost.  That the
\* input is not finished is reported twice, by nextEvent() and as a header that is missing.
ResolveHeader ==
  /\ step = "header"
  /\ \E o \in NextOf(source) :
       /\ source' = o.reader
       /\ \/ o.progress = "Threw" /\ Throws /\ UNCHANGED header
          \/ /\ o.progress = "Event" /\ script[o.event] = "StartTransfer"
             /\ header' = o.event /\ step' = "first"
             /\ UNCHANGED <<fatal, failed, collected, last>>
          \/ o.progress = "NeedInput" /\ AddFatal(2) /\ UNCHANGED header
          \/ o.progress = "End" /\ AddFatal(1) /\ UNCHANGED header
          \/ /\ o.progress = "Event" /\ script[o.event] # "StartTransfer"
             /\ AddFatal(1) /\ UNCHANGED header
  /\ UNCHANGED <<begun, headerResolved, baskets>>

\* The event that starts the basket, or the end of the transfer.
FirstEvent ==
  /\ step = "first"
  /\ \E o \in NextOf(source) :
       /\ source' = o.reader
       /\ \/ o.progress = "Threw" /\ Throws
          \/ o.progress = "NeedInput" /\ AddFatal(1)
          \/ o.progress = "End" /\ CallEnds("no more") /\ UNCHANGED <<fatal, failed>>
          \/ /\ o.progress = "Event" /\ script[o.event] = "EndTransfer"
             /\ CallEnds("no more") /\ UNCHANGED <<fatal, failed>>
          \/ /\ o.progress = "Event" /\ script[o.event] = "StartBasket"
             /\ collected' = <<o.event>> /\ step' = "collect"
             /\ UNCHANGED <<fatal, failed, last>>
          \/ /\ o.progress = "Event" /\ script[o.event] \notin {"EndTransfer", "StartBasket"}
             /\ AddFatal(1)
  /\ UNCHANGED <<begun, header, headerResolved, baskets>>

\* The basket is at its limit; its first item is the metadata.
TooMany == MaxObjects # 0 /\ Len(collected) - 1 >= MaxObjects

\* What ends the basket without a result: the input, one object too many, or an event of another kind.
CutsOff(o) ==
  \/ o.progress \in {"NeedInput", "End"}
  \/ o.progress = "Event" /\ script[o.event] = "Object" /\ TooMany
  \/ o.progress = "Event" /\ script[o.event] \notin {"Object", "EndBasket"}

\* The next event of the basket.
Collect ==
  /\ step = "collect"
  /\ \E o \in NextOf(source) :
       /\ source' = o.reader
       /\ \/ o.progress = "Threw" /\ Throws /\ UNCHANGED baskets
          \/ CutsOff(o) /\ AddFatal(1) /\ UNCHANGED baskets
          \/ /\ o.progress = "Event" /\ script[o.event] = "Object" /\ ~TooMany
             /\ collected' = Append(collected, o.event)
             /\ UNCHANGED <<fatal, failed, step, last, baskets>>
          \/ /\ o.progress = "Event" /\ script[o.event] = "EndBasket"
             /\ baskets' = Append(baskets, collected) /\ CallEnds("basket")
             /\ UNCHANGED <<fatal, failed>>
  /\ UNCHANGED <<begun, header, headerResolved>>

BasketNext == ReadBasket \/ ResolveHeader \/ FirstEvent \/ Collect

BasketSpec ==
  IsInput(script) /\ BasketInit /\ [][BasketNext /\ UNCHANGED script]_<<script, basketVars>>
-----------------------------------------------------------------------------
\* The basket that item i of the input starts: whole, if an end follows its objects.
BasketAt(i) ==
  LET follow == EventsIn(i, Len(script))
      n == Cardinality({m \in DOMAIN follow : \A k \in 1 .. m : script[follow[k]] = "Object"})
  IN  [whole |-> n < Len(follow) /\ script[follow[n + 1]] = "EndBasket",
       items |-> <<i>> \o SubSeq(follow, 1, n)]

\* The baskets returned are those of the input, whole and without a gap, from its beginning, none
\* over the limit; "no more" is said only behind the last of them.  Whatever was collected of another
\* one when the input, the limit or an error cut it off, is never returned, by no later call either.
BasketsWhole ==
  LET starts == ItemsOf({"StartBasket"}, begun, Len(script))
  IN  /\ Len(baskets) <= Len(starts)
      /\ \A n \in DOMAIN baskets :
           /\ BasketAt(starts[n]) = [whole |-> TRUE, items |-> baskets[n]]
           /\ MaxObjects = 0 \/ Len(baskets[n]) - 1 <= MaxObjects
      /\ last = "no more" => Len(baskets) = Len(starts) /\ header # 0
      /\ failed => fatal > 0
=============================================================================
