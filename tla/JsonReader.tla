------------------------------ MODULE JsonReader ------------------------------
(***************************************************************************)
(* JsonEventReader (source/json/JsonEventReader.cpp): the text comes in    *)
(* chunks, whole lines are parsed at once and their events queued; next()  *)
(* hands them out one at a time.                                           *)
(***************************************************************************)
EXTENDS JsonText

CONSTANTS
  LineEvent(_),   \* parseEvent: the event of a line, or none
  MaxLineBytes,   \* JsonReaderOptions::maxLineBytes
  ChunkSizes      \* how many bytes a caller feeds at a time

ASSUME LimitAssumption == MaxLineBytes \in Nat \ {0}
ASSUME ChunkAssumption == ChunkSizes \subseteq Nat

VARIABLES
  readerState,    \* Impl::state
  fed,            \* how many bytes of the text were fed
  buffered,       \* Impl::buffered, its size
  parsed,         \* how many lines were parsed
  queue,          \* Impl::events
  inputFinished,  \* Impl::inputFinished
  pc,             \* "Lines" while feed() goes through the lines it completed
  reply,          \* how the last call ended
  delivered       \* the events next() handed out

readerVars ==
  <<readerState, fed, buffered, parsed, queue, inputFinished, pc, reply, delivered>>

ReaderInit ==
  /\ readerState = "BeforeTransfer" /\ fed = 0 /\ buffered = 0 /\ parsed = 0
  /\ queue = <<>> /\ inputFinished = FALSE /\ pc = "Idle" /\ reply = "Ok" /\ delivered = <<>>

Refused == inputFinished \/ readerState = "Failed"
-----------------------------------------------------------------------------
(* validate, parseLine *)

\* Mutant of After: EndTransfer is taken inside a basket too.
AfterUnclosed ==
  [BeforeTransfer |-> [StartTransfer |-> "InTransfer"],
   InTransfer     |-> [StartBasket |-> "InBasket", EndTransfer |-> "AfterTransfer"],
   InBasket       |-> [Object |-> "InBasket", EndBasket |-> "InTransfer", EndTransfer |-> "AfterTransfer"],
   AfterTransfer  |-> <<>>]

\* The events a state allows, and the state each leads to.
After ==
  [BeforeTransfer |-> [StartTransfer |-> "InTransfer"],
   InTransfer     |-> [StartBasket |-> "InBasket", EndTransfer |-> "AfterTransfer"],
   InBasket       |-> [Object |-> "InBasket", EndBasket |-> "InTransfer"],
   AfterTransfer  |-> <<>>]

\* A line with an event that is in order.
Accepts(json) ==
  \E i \in DOMAIN LineEvent(json) : LineEvent(json)[i].kind \in DOMAIN After[readerState]
StateAfter(json) == After[readerState][LineEvent(json)[1].kind]

\* Mutant of Accept: the event overtakes those in the queue.
AcceptInFront(json) ==
  /\ Accepts(json)
  /\ queue' = LineEvent(json) \o queue /\ parsed' = parsed + 1

Accept(json) ==
  /\ Accepts(json)
  /\ queue' = Append(queue, LineEvent(json)[1]) /\ parsed' = parsed + 1

Reject(json) ==
  /\ ~Accepts(json)
  /\ readerState' = "Failed" /\ reply' = "Error"
  /\ UNCHANGED <<queue, parsed>>
-----------------------------------------------------------------------------
(* feed, consumeCompleteLines *)

FeedOrFinishRefused ==
  /\ pc = "Idle" /\ Refused
  /\ reply' = "Error"
  /\ UNCHANGED <<readerState, fed, buffered, parsed, queue, inputFinished, pc, delivered>>

\* A caller feeds a chunk, or all there is.
Feed ==
  /\ pc = "Idle" /\ ~Refused
  /\ \E n \in ChunkSizes \cup {BytesOf(text) - fed} :
       /\ fed + n <= BytesOf(text)
       /\ fed' = fed + n /\ buffered' = buffered + n
       /\ IF n = 0 THEN pc' = "Idle" /\ reply' = "Ok" ELSE pc' = "Lines" /\ reply' = reply
  /\ UNCHANGED <<readerState, parsed, queue, inputFinished, delivered>>

\* The buffer holds a line with its newline.
HasLine ==
  /\ parsed < Len(text) /\ text[parsed + 1].ending # "none"
  /\ buffered >= LineBytes(text[parsed + 1])

ConsumeLine ==
  /\ pc = "Lines" /\ HasLine
  /\ buffered' = buffered - LineBytes(text[parsed + 1])
  /\ LET json == text[parsed + 1].json
     IN  \/ /\ Accept(json) /\ readerState' = StateAfter(json)
            /\ UNCHANGED <<reply, pc>>
         \/ Reject(json) /\ pc' = "Idle"
  /\ UNCHANGED <<fed, inputFinished, delivered>>

\* Mutant of TooLong: a line as long as the limit is too long.
TooLongAtLimit(bytes) == bytes >= MaxLineBytes

TooLong(bytes) == bytes > MaxLineBytes

\* Only what is left without a newline is measured.
LineTooLong ==
  /\ pc = "Lines" /\ ~HasLine /\ TooLong(buffered)
  /\ pc' = "Idle" /\ readerState' = "Failed" /\ reply' = "Error"
  /\ UNCHANGED <<fed, buffered, parsed, queue, inputFinished, delivered>>

LinesDone ==
  /\ pc = "Lines" /\ ~HasLine /\ ~TooLong(buffered)
  /\ pc' = "Idle" /\ reply' = "Ok"
  /\ UNCHANGED <<readerState, fed, buffered, parsed, queue, inputFinished, delivered>>
-----------------------------------------------------------------------------
(* finish, next *)

\* The input is complete in the state the last line leaves, or finish() fails.
Complete(state) ==
  IF state = "AfterTransfer"
  THEN readerState' = state /\ inputFinished' = TRUE /\ reply' = "Ok"
  ELSE readerState' = "Failed" /\ inputFinished' = FALSE /\ reply' = "Error"

Finish ==
  /\ pc = "Idle" /\ ~Refused /\ buffered = 0
  /\ Complete(readerState)
  /\ UNCHANGED <<fed, buffered, parsed, queue, pc, delivered>>

\* A line without its newline is parsed if all of it is there.
Rest ==
  IF buffered >= text[parsed + 1].size THEN text[parsed + 1].json ELSE Malformed

FinishTail ==
  /\ pc = "Idle" /\ ~Refused /\ buffered > 0
  /\ buffered' = 0
  /\ \/ Accept(Rest) /\ Complete(StateAfter(Rest))
     \/ Reject(Rest) /\ UNCHANGED inputFinished
  /\ UNCHANGED <<fed, pc, delivered>>

NextEvent ==
  /\ pc = "Idle" /\ queue # <<>>
  /\ delivered' = Append(delivered, Head(queue)) /\ queue' = Tail(queue)
  /\ reply' = "Event"
  /\ UNCHANGED <<readerState, fed, buffered, parsed, inputFinished, pc>>

\* Mutant of NextNoEvent: the end of the transfer is taken for the end of the input.
NextNoEventAfterTransfer ==
  /\ pc = "Idle" /\ queue = <<>>
  /\ reply' = IF inputFinished \/ readerState = "AfterTransfer" THEN "End" ELSE "NeedInput"
  /\ UNCHANGED <<readerState, fed, buffered, parsed, queue, inputFinished, pc, delivered>>

\* A failed reader without events asks for input it will not take.
NextNoEvent ==
  /\ pc = "Idle" /\ queue = <<>>
  /\ reply' = IF inputFinished THEN "End" ELSE "NeedInput"
  /\ UNCHANGED <<readerState, fed, buffered, parsed, queue, inputFinished, pc, delivered>>

IsFinished == inputFinished /\ queue = <<>>

ReaderNext ==
  \/ Feed \/ FeedOrFinishRefused \/ ConsumeLine \/ LineTooLong \/ LinesDone
  \/ Finish \/ FinishTail
  \/ NextEvent \/ NextNoEvent
=============================================================================
