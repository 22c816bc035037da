------------------------------ MODULE JsonWriter ------------------------------
(***************************************************************************)
(* JsonEventWriter (source/json/JsonEventWriter.cpp): events in the order  *)
(* of a transfer, each written as one line to an output that may fail      *)
(* after any byte.                                                         *)
(***************************************************************************)
EXTENDS JsonText

CONSTANTS
  Events,         \* the events the caller may write
  EventJson(_),   \* serializeEvent
  SizeOf(_),      \* the bytes of a JSON value
  MaxEvents       \* a bound on the events of the transfer

\* No event is written as an empty line.
ASSUME SizeAssumption == \A e \in Events : SizeOf(EventJson(e)) \in Nat \ {0}

VARIABLES
  writerState,    \* Impl::state
  answer,         \* how the last call ended
  written         \* the events write() accepted

writerVars == <<text, writerState, answer, written>>

WriterInit == writerState = "BeforeTransfer" /\ answer = "Ok" /\ written = <<>>

\* validate and advance: the events a state allows, and the state each leads to.
Advance ==
  [BeforeTransfer |-> [StartTransfer |-> "InTransfer"],
   InTransfer     |-> [StartBasket |-> "InBasket", EndTransfer |-> "AfterTransfer"],
   InBasket       |-> [Object |-> "InBasket", EndBasket |-> "InTransfer"],
   AfterTransfer  |-> <<>>]

MayWrite == writerState \notin {"Closed", "Failed"}
Allowed(e) == e.kind \in DOMAIN Advance[writerState]

Answer(state, a) == writerState' = state /\ answer' = a

\* write() on a closed or failed writer.
WriteRefused ==
  /\ ~MayWrite
  /\ Answer(writerState, "Error") /\ UNCHANGED <<text, written>>

WriteOutOfOrder ==
  /\ MayWrite
  /\ \E e \in Events : ~Allowed(e)
  /\ Answer("Failed", "Error") /\ UNCHANGED <<text, written>>

Write ==
  /\ MayWrite /\ Len(written) < MaxEvents
  /\ \E e \in Events :
       /\ Allowed(e)
       /\ text' = Append(text, Line(EventJson(e), SizeOf(EventJson(e)), "lf"))
       /\ written' = Append(written, e)
       /\ Answer(Advance[writerState][e.kind], "Ok")

\* The output takes `taken' bytes of a line.
Cut(json, taken) ==
  CASE taken = 0 -> <<>>
    [] taken \in 1 .. SizeOf(json) - 1 -> <<Line(Malformed, taken, "none")>>
    [] taken = SizeOf(json) -> <<Line(json, taken, "none")>>
    [] taken = SizeOf(json) + 1 -> <<Line(json, taken - 1, "lf")>>

\* Mutant of WriteFails: the caller may write the event again.
WriteFailsRetryably ==
  /\ MayWrite /\ Len(written) < MaxEvents
  /\ \E e \in Events : \E taken \in 0 .. SizeOf(EventJson(e)) + 1 :
       /\ Allowed(e)
       /\ text' = text \o Cut(EventJson(e), taken)
  /\ Answer(writerState, "Error") /\ UNCHANGED written

\* Serialising fails, or the output throws or takes nothing after a part of the line.
WriteFails ==
  /\ MayWrite /\ Len(written) < MaxEvents
  /\ \E e \in Events : \E taken \in 0 .. SizeOf(EventJson(e)) + 1 :
       /\ Allowed(e)
       /\ text' = text \o Cut(EventJson(e), taken)
  /\ Answer("Failed", "Error") /\ UNCHANGED written

\* A closed writer still passes flush() on; a flush that fails leaves the state as it is.
FlushRefused ==
  /\ writerState = "Failed"
  /\ Answer(writerState, "Error") /\ UNCHANGED <<text, written>>

Flush ==
  /\ writerState # "Failed"
  /\ \E a \in {"Ok", "Error"} : Answer(writerState, a)
  /\ UNCHANGED <<text, written>>

CloseAgain ==
  /\ writerState = "Closed"
  /\ Answer(writerState, "Ok") /\ UNCHANGED <<text, written>>

CloseTooEarly ==
  /\ writerState \notin {"Closed", "AfterTransfer"}
  /\ Answer("Failed", "Error") /\ UNCHANGED <<text, written>>

\* The output's flush() or close() may fail; close() may then be called again.
Close ==
  /\ writerState = "AfterTransfer"
  /\ Answer("Closed", "Ok") \/ Answer(writerState, "Error")
  /\ UNCHANGED <<text, written>>

WriterNext ==
  \/ WriteRefused \/ WriteOutOfOrder \/ Write \/ WriteFails
  \/ FlushRefused \/ Flush
  \/ CloseAgain \/ CloseTooEarly \/ Close
=============================================================================
