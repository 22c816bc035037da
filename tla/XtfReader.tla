------------------------------- MODULE XtfReader -------------------------------
(***************************************************************************)
(* The streaming XTF reader: the coordinator                               *)
(* source/xtf/common/XtfReader.cpp over ExpatParser and the dialects,      *)
(* together with the caller that feeds chunks, finishes and asks for the   *)
(* next event in any order.                                                *)
(*                                                                         *)
(* A call into the reader runs to its end before the next one, but what    *)
(* happens inside it (resume, parse of a chunk, one callback after the     *)
(* other, the reply) are steps of their own: `pc' is the place in the call.*)
(***************************************************************************)
EXTENDS ExpatParser, XtfDocument, SequencesExt

CONSTANTS
  Documents,                  \* the documents a caller may feed
  ChunkSizes,                 \* the chunk sizes the caller uses
  MaxQueuedEvents,            \* options.xmlLimits.maxQueuedEvents
  MaxTotalInputBytes,         \* options.xmlLimits.maxTotalInputBytes, 0 for none
  QueuedInputChunkSize        \* queuedInputChunkSize: a queued chunk is no longer

ASSUME MaxQueuedEventsAssumption == MaxQueuedEvents \in Nat \ {0}
ASSUME LimitsAssumption == /\ MaxTotalInputBytes \in Nat
                           /\ QueuedInputChunkSize \in Nat \ {0}
ASSUME ChunkSizesAssumption == ChunkSizes \subseteq Nat
ASSUME DocumentsAssumption ==
  Documents \subseteq [tokens : Seq(Token), events : Seq(Event), valid : BOOLEAN,
                       diagnoses : Seq(Report)]

\* A document comes with the events it stands for, whether it is valid, and what is to be
\* reported of it.
ASSUME MeaningAssumption ==
  \A d \in Documents : StandsFor(d.tokens, d.events, d.valid, d.diagnoses)

VARIABLES
  state,          \* CoordinatorState
  eventState,     \* EventState
  eventQueue,     \* events not yet handed out
  inputQueue,     \* sizes of the chunks not yet given to the parser
  depth,          \* open elements, as the coordinator counts them
  totalFed,       \* bytes accepted by feed
  finishCalled, parseComplete,
  diagnostics,    \* what is reported and not yet taken
  detected,       \* detected version, or "None"
  dialect,        \* state of the dialect object
  pc,             \* place inside the running call
  call,           \* the running call
  held,           \* the event next() has taken off the queue before it pumps
  reply,          \* what the last call answered
  delivered,      \* history: the events the caller has received
  taken,          \* history: the reports the caller has taken
  emitted         \* history: the events the coordinator has queued

queueVars == <<eventState, eventQueue, emitted>>
coordinatorVars == <<state, depth, diagnostics, taken, detected, dialect>>
callerVars == <<pc, call, held, reply, delivered>>
readerVars == <<inputQueue, totalFed, finishCalled, parseComplete>>

vars == <<queueVars, coordinatorVars, callerVars, readerVars, parserVars, expatVars>>

CoordinatorState == {"BeforeRoot", "InRoot", "AfterRoot", "Failed"}
EventState == {"BeforeTransfer", "InTransfer", "InBasket", "AfterTransfer"}
Call == {"None", "Feed", "Finish", "Next"}
Reply == {"None", "Ok", "Event", "NeedInput", "End", "InvalidState", "Failure"}

Init ==
  /\ doc \in Documents
  /\ ExpatInit
  /\ ParserInit
  /\ state = "BeforeRoot" /\ eventState = "BeforeTransfer"
  /\ eventQueue = <<>> /\ inputQueue = <<>>
  /\ depth = 0 /\ totalFed = 0
  /\ finishCalled = FALSE /\ parseComplete = FALSE
  /\ diagnostics = <<>> /\ taken = <<>> /\ detected = "None" /\ dialect = NewDialect
  /\ pc = "Idle" /\ call = "None" /\ held = <<>> /\ reply = "None"
  /\ delivered = <<>> /\ emitted = <<>>

-----------------------------------------------------------------------------
(* The caller's calls, up to pump() *)

\* feed cuts its bytes into pieces of at most QueuedInputChunkSize; no bytes are one
\* empty piece.
Pieces(size) ==
  LET count == IF size = 0 THEN 1
               ELSE (size + QueuedInputChunkSize - 1) \div QueuedInputChunkSize
  IN  [i \in 1 .. count |-> IF i * QueuedInputChunkSize <= size THEN QueuedInputChunkSize
                            ELSE size % QueuedInputChunkSize]

OverLimit(size) == MaxTotalInputBytes # 0 /\ size + totalFed > MaxTotalInputBytes

\* The caller reads its document front to back, into a buffer of one of the ChunkSizes or up
\* to the document's end.
Chunks ==
  LET rest == DocBytes - totalFed
  IN  {size \in 0 .. rest :
         size \in ChunkSizes \/ (size = rest /\ size > 0 /\ \E n \in ChunkSizes : n > rest)}

\* A bound: an empty chunk is fed only when no piece waits, since each one lengthens the
\* input queue of a suspended parser.
Feedable(size) == size = 0 => inputQueue = <<>>

Refuse ==
  /\ reply' = "InvalidState"
  /\ UNCHANGED <<pc, call, held, delivered, queueVars, coordinatorVars, readerVars,
                 parserVars, expatVars>>

FeedAccepted(size) ==
  /\ pc = "Idle" /\ Feedable(size)
  /\ ~finishCalled /\ state # "Failed" /\ ~OverLimit(size)
  /\ totalFed' = totalFed + size
  /\ inputQueue' = inputQueue \o Pieces(size)
  /\ call' = "Feed" /\ pc' = "Pump"
  /\ UNCHANGED <<held, reply, delivered, finishCalled, parseComplete, queueVars,
                 coordinatorVars, parserVars, expatVars>>

FeedOverLimit(size) ==
  /\ pc = "Idle" /\ Feedable(size)
  /\ ~finishCalled /\ state # "Failed" /\ OverLimit(size)
  /\ state' = "Failed" /\ reply' = "Failure"
  /\ UNCHANGED <<depth, diagnostics, taken, detected, dialect, pc, call, held, delivered,
                 readerVars, queueVars, parserVars, expatVars>>

\* feed() and finish() refuse under the same condition.
FeedOrFinishRejected ==
  /\ pc = "Idle" /\ (finishCalled \/ state = "Failed")
  /\ Refuse

FinishAccepted ==
  /\ pc = "Idle" /\ ~finishCalled /\ state # "Failed"
  /\ finishCalled' = TRUE
  /\ call' = "Finish" /\ pc' = "Pump"
  /\ UNCHANGED <<held, reply, delivered, inputQueue, totalFed, parseComplete, queueVars,
                 coordinatorVars, parserVars, expatVars>>

\* Mutant of NextAccepted: the front is copied but not popped.
NextAcceptedCopiesFront ==
  /\ pc = "Idle" /\ state # "Failed"
  /\ held' = IF eventQueue = <<>> THEN <<>> ELSE <<Head(eventQueue)>>
  /\ call' = "Next" /\ pc' = "Pump"
  /\ UNCHANGED <<eventQueue, reply, delivered, eventState, emitted, readerVars,
                 coordinatorVars, parserVars, expatVars>>

NextAccepted ==
  /\ pc = "Idle" /\ state # "Failed"
  /\ held' = IF eventQueue = <<>> THEN <<>> ELSE <<Head(eventQueue)>>
  /\ eventQueue' = IF eventQueue = <<>> THEN <<>> ELSE Tail(eventQueue)
  /\ call' = "Next" /\ pc' = "Pump"
  /\ UNCHANGED <<reply, delivered, eventState, emitted, readerVars, coordinatorVars,
                 parserVars, expatVars>>

\* Mutant of NextRejected: a failed reader still hands out what is in its queue.
NextServesQueue ==
  /\ pc = "Idle" /\ state = "Failed" /\ eventQueue # <<>>
  /\ reply' = "Event"
  /\ delivered' = Append(delivered, Head(eventQueue))
  /\ eventQueue' = Tail(eventQueue)
  /\ UNCHANGED <<pc, call, held, eventState, emitted, coordinatorVars, readerVars,
                 parserVars, expatVars>>

NextRejected ==
  /\ pc = "Idle" /\ state = "Failed"
  /\ Refuse

TakeDiagnostics ==
  /\ pc = "Idle" /\ diagnostics # <<>>
  /\ taken' = taken \o diagnostics
  /\ diagnostics' = <<>>
  /\ UNCHANGED <<state, depth, detected, dialect, callerVars, readerVars, queueVars,
                 parserVars, expatVars>>

-----------------------------------------------------------------------------
(* pump() *)

\* Mutant of PumpFails: what is reported and not yet taken goes with the event.
PumpFailsSilently ==
  /\ state' = "Failed"
  /\ reply' = "Failure"
  /\ held' = <<>> /\ call' = "None" /\ pc' = "Idle"
  /\ diagnostics' = <<>>
  /\ UNCHANGED <<depth, taken, detected, dialect, delivered, queueVars, readerVars>>

\* pump throws: the reader has failed, and an event that next() held is gone.
PumpFails ==
  /\ state' = "Failed"
  /\ reply' = "Failure"
  /\ held' = <<>> /\ call' = "None" /\ pc' = "Idle"
  /\ UNCHANGED <<depth, diagnostics, taken, detected, dialect, delivered, queueVars, readerVars>>

\* Mutant of Resumes: off by one.
ResumesBelowLimit == suspended /\ Len(eventQueue) + 1 < MaxQueuedEvents

Resumes == suspended /\ Len(eventQueue) < MaxQueuedEvents

\* Mutant of PumpResumes: the parser starts again with nothing to report.
PumpResumesAfresh ==
  /\ pc = "Pump" /\ Resumes
  /\ BeginResume
  /\ pc' = "Parse"
  /\ diagnostics' = <<>>
  /\ UNCHANGED <<call, held, reply, delivered, queueVars, state, depth, taken, detected,
                 dialect, readerVars>>

PumpResumes ==
  /\ pc = "Pump" /\ Resumes
  /\ BeginResume
  /\ pc' = "Parse"
  /\ UNCHANGED <<call, held, reply, delivered, queueVars, coordinatorVars, readerVars>>

PumpResumeFails ==
  /\ pc = "Pump" /\ Resumes /\ ResumeRefused
  /\ PumpFails
  /\ UNCHANGED <<parserVars, expatVars>>

PumpSkipsResume ==
  /\ pc = "Pump" /\ ~Resumes
  /\ pc' = "Drain"
  /\ UNCHANGED <<call, held, reply, delivered, queueVars, coordinatorVars, readerVars,
                 parserVars, expatVars>>

PumpFeedsChunk ==
  /\ pc = "Drain" /\ ~suspended /\ inputQueue # <<>>
  /\ inputQueue' = Tail(inputQueue)
  /\ \/ /\ Head(inputQueue) = 0
        /\ UNCHANGED <<pc, parserVars, expatVars>>
     \/ /\ Head(inputQueue) > 0
        /\ BeginFeed(Head(inputQueue))
        /\ pc' = "Parse"
  /\ UNCHANGED <<call, held, reply, delivered, totalFed, finishCalled, parseComplete,
                 queueVars, coordinatorVars>>

MayFinish == finishCalled /\ ~parseComplete /\ ~suspended /\ inputQueue = <<>>

PumpFinishes ==
  /\ pc = "Drain" /\ MayFinish
  /\ BeginFinish
  /\ pc' = "Parse"
  /\ UNCHANGED <<call, held, reply, delivered, readerVars, queueVars, coordinatorVars>>

\* Mutant of PumpDone: pump gives the parser one piece, not all of them.
PumpDoneAfterOnePiece ==
  /\ pc = "Drain"
  /\ ~MayFinish
  /\ pc' = "Reply"
  /\ UNCHANGED <<call, held, reply, delivered, queueVars, coordinatorVars, readerVars,
                 parserVars, expatVars>>

PumpDone ==
  /\ pc = "Drain"
  /\ suspended \/ inputQueue = <<>>
  /\ ~MayFinish
  /\ pc' = "Reply"
  /\ UNCHANGED <<call, held, reply, delivered, queueVars, coordinatorVars, readerVars,
                 parserVars, expatVars>>

-----------------------------------------------------------------------------
(* validateAndQueue, and how a callback ends *)

ValidOrder(kind) ==
  \/ eventState = "BeforeTransfer" /\ kind = "StartTransfer"
  \/ eventState = "InTransfer" /\ kind \in {"StartBasket", "EndTransfer"}
  \/ eventState = "InBasket" /\ kind \in {"Object", "EndBasket"}

\* Mutant of EventStateAfter: EndBasket does not leave the basket.
EventStateAfterInBasket(kind) ==
  CASE kind = "StartTransfer" -> "InTransfer"
    [] kind \in {"StartBasket", "Object", "EndBasket"} -> "InBasket"
    [] kind = "EndTransfer" -> "AfterTransfer"

EventStateAfter(kind) ==
  CASE kind = "StartTransfer" -> "InTransfer"
    [] kind = "StartBasket"   -> "InBasket"
    [] kind = "EndBasket"     -> "InTransfer"
    [] kind = "EndTransfer"   -> "AfterTransfer"
    [] kind = "Object"        -> "InBasket"

\* Mutant of Enqueue: a full queue drops the event.
EnqueueOrDrop(event) ==
  /\ eventState' = EventStateAfter(event.kind)
  /\ IF Len(eventQueue) >= MaxQueuedEvents
     THEN UNCHANGED <<eventQueue, emitted>>
     ELSE eventQueue' = Append(eventQueue, event) /\ emitted' = Append(emitted, event)

Enqueue(event) ==
  /\ eventState' = EventStateAfter(event.kind)
  /\ eventQueue' = Append(eventQueue, event)
  /\ emitted' = Append(emitted, event)

\* Mutant of AsksToSuspend: a queue that has already passed the limit is not noticed.
AsksToSuspendAtLimit == Len(eventQueue) + 1 = MaxQueuedEvents /\ ~suspended

\* After the event is queued, the coordinator asks for a suspension.
AsksToSuspend == Len(eventQueue) + 1 >= MaxQueuedEvents /\ ~suspended

Suspend ==
  /\ ~SuspendRefused /\ ~StopRejected
  /\ parsing' = "Suspended"

Add(reports) == diagnostics' = diagnostics \o reports /\ UNCHANGED taken

\* What a callback that throws may have reported before.
PartsOf(reports) ==
  LET parts(report) == {[report EXCEPT !.severities = some] :
                          some \in (SUBSET report.severities) \ {{}}}
  IN  {<<>>} \cup {<<part>> : part \in UNION {parts(report) : report \in Range(reports)}}

\* A callback with dialect result r returns; the coordinator is in state s at depth k.
CallbackReturns(r, s, k) ==
  /\ ~r.thrown
  /\ \/ /\ r.emit = <<>>
        /\ UNCHANGED queueVars /\ parsing' = parsing
     \/ /\ r.emit # <<>>
        /\ ValidOrder(Head(r.emit).kind)
        /\ Enqueue(Head(r.emit))
        /\ \/ AsksToSuspend /\ Suspend
           \/ ~AsksToSuspend /\ parsing' = parsing
  /\ state' = s /\ depth' = k
  /\ dialect' = r.dialect
  /\ Add(r.diagnostics)
  /\ UNCHANGED detected
  /\ UNCHANGED parserVars

\* A callback throws: the dialect fails, its event is out of order, or the suspension
\* is refused once the event is in the queue.  The reader has failed from then on; what
\* the throw leaves in the depth and the dialect is not kept.
CallbackThrows(r) ==
  /\ \/ /\ r.thrown
        /\ \E reports \in PartsOf(r.diagnostics) : Add(reports)
        /\ UNCHANGED queueVars
     \/ /\ ~r.thrown /\ r.emit # <<>>
        /\ ~ValidOrder(Head(r.emit).kind)
        /\ Add(r.diagnostics)
        /\ UNCHANGED queueVars
     \/ /\ ~r.thrown /\ r.emit # <<>>
        /\ ValidOrder(Head(r.emit).kind)
        /\ AsksToSuspend /\ (SuspendRefused \/ StopRejected)
        /\ Add(r.diagnostics)
        /\ Enqueue(Head(r.emit))
  /\ CallbackFails
  /\ UNCHANGED <<state, depth, detected, dialect>>

Callback(r, s, k) == CallbackReturns(r, s, k) \/ CallbackThrows(r)

CallbackFailsAtOnce ==
  /\ CallbackFails
  /\ UNCHANGED <<coordinatorVars, queueVars>>

DialectStart(e) == OnStart(detected, dialect, e)
DialectEnd(e) == OnEnd(detected, dialect, e)
DialectText == OnText(detected, dialect)
DialectRootClosed(e) == OnRootClosed(detected, dialect, e)

-----------------------------------------------------------------------------
(* The callbacks *)

InCallback == pc = "Parse" /\ CallbackRuns
unchangedInCallback == <<callerVars, readerVars>>

\* detectRoot
RootElement(e) ==
  /\ state = "BeforeRoot"
  /\ \/ /\ RootAccepted(e)
        /\ detected' = RootVersion(e)
        /\ dialect' = NewDialect
        /\ depth' = 1 /\ state' = "InRoot"
        /\ parsing' = parsing
        /\ UNCHANGED <<diagnostics, taken, queueVars, parserVars>>
     \/ ~RootAccepted(e) /\ CallbackFailsAtOnce

StartElement ==
  LET e == NextToken.element
  IN  /\ InCallback /\ Ready /\ ~endPending
      /\ NextToken.tag \in {"start", "empty"} /\ ~IllFormed
      /\ \/ Len(tags) >= MaxDepth /\ CallbackFailsAtOnce
         \/ Len(tags) < MaxDepth /\ RootElement(e)
         \/ /\ Len(tags) < MaxDepth /\ state = "InRoot"
            /\ Callback(DialectStart(e), state, depth + 1)
      /\ StartTagCallback
      /\ UNCHANGED unchangedInCallback

EndElement ==
  LET e == Head(tags)
  IN  /\ InCallback
      /\ endPending \/ (Ready /\ NextToken.tag = "end" /\ ~IllFormed)
      /\ state = "InRoot"
      /\ \/ depth = 1 /\ Callback(DialectRootClosed(e), "AfterRoot", 0)
         \/ depth > 1 /\ Callback(DialectEnd(e), state, depth - 1)
      /\ EndTagCallback
      /\ UNCHANGED unchangedInCallback

\* The end callback of an empty-element tag whose start callback failed.
SkippedEndElement ==
  /\ pc = "Parse" /\ ~CallbackRuns /\ endPending
  /\ parsing' = parsing
  /\ EndTagCallback
  /\ UNCHANGED <<unchangedInCallback, coordinatorVars, queueVars, parserVars>>

\* Non-whitespace text inside the root.
CharacterData ==
  /\ InCallback /\ Ready /\ ~endPending
  /\ NextToken.tag = "text" /\ ~IllFormed /\ state = "InRoot"
  /\ Callback(DialectText, state, depth)
  /\ OtherCallback
  /\ UNCHANGED unchangedInCallback

\* startDoctype, externalEntity and an xmlDeclaration of another encoding always fail.
Doctype ==
  /\ InCallback /\ Ready /\ ~endPending
  /\ NextToken.tag = "doctype" /\ ~IllFormed
  /\ CallbackFailsAtOnce
  /\ OtherCallback
  /\ UNCHANGED unchangedInCallback

\* Expat finds the document ill-formed and makes no further callback.
Malformed ==
  /\ InCallback /\ Ready /\ ~endPending /\ IllFormed
  /\ parsing' = "Finished"
  /\ UNCHANGED <<doc, received, cursor, endPending, tags, finalBuffer, partialBefore, deferring>>
  /\ UNCHANGED <<unchangedInCallback, coordinatorVars, queueVars, parserVars>>

-----------------------------------------------------------------------------
(* Return from the parser, and the reply to the caller *)

\* Mutant of TransferComplete: the events must have been taken, too.
TransferCompleteAndTaken ==
  state = "AfterRoot" /\ eventState = "AfterTransfer" /\ eventQueue = <<>>

TransferComplete == state = "AfterRoot" /\ eventState = "AfterTransfer"

ParserReturns ==
  /\ pc = "Parse"
  /\ ParseSucceeds
  /\ ~finalBuffer \/ TransferComplete
  /\ parseComplete' = (parseComplete \/ finalBuffer)
  /\ pc' = "Drain"
  /\ UNCHANGED <<call, held, reply, delivered, inputQueue, totalFed, finishCalled,
                 queueVars, coordinatorVars>>

\* finish() has returned, but the transfer is not complete.
ParserReturnsEarly ==
  /\ pc = "Parse"
  /\ ParseSucceeds
  /\ finalBuffer /\ ~TransferComplete
  /\ PumpFails

ParserThrows ==
  /\ pc = "Parse"
  /\ ParseFails
  /\ PumpFails

Answer(r) ==
  /\ reply' = r
  /\ held' = <<>> /\ call' = "None" /\ pc' = "Idle"
  /\ UNCHANGED <<eventState, emitted, coordinatorVars, readerVars, parserVars, expatVars>>

ReturnOk ==
  /\ pc = "Reply" /\ call \in {"Feed", "Finish"}
  /\ Answer("Ok")
  /\ UNCHANGED <<eventQueue, delivered>>

\* next() returns the event it held, or else the one pump() has queued meanwhile.
ReturnEvent ==
  /\ pc = "Reply" /\ call = "Next" /\ held \o eventQueue # <<>>
  /\ Answer("Event")
  /\ delivered' = Append(delivered, Head(held \o eventQueue))
  /\ eventQueue' = IF held = <<>> THEN Tail(eventQueue) ELSE eventQueue

ReturnNoEvent ==
  /\ pc = "Reply" /\ call = "Next" /\ held = <<>> /\ eventQueue = <<>>
  /\ Answer(IF parseComplete THEN "End" ELSE "NeedInput")
  /\ UNCHANGED <<eventQueue, delivered>>

-----------------------------------------------------------------------------
Feed == \E size \in Chunks : FeedAccepted(size)

Pump == PumpResumes \/ PumpResumeFails \/ PumpSkipsResume \/ PumpFeedsChunk
          \/ PumpFinishes \/ PumpDone
Parse == StartElement \/ EndElement \/ SkippedEndElement \/ CharacterData \/ Doctype
           \/ Malformed \/ ParserReturns \/ ParserReturnsEarly \/ ParserThrows
Return == ReturnOk \/ ReturnEvent \/ ReturnNoEvent

Next ==
  \/ Feed \/ FeedOrFinishRejected \/ (\E size \in Chunks : FeedOverLimit(size))
  \/ FinishAccepted
  \/ NextAccepted \/ NextRejected \/ TakeDiagnostics
  \/ Pump \/ Parse \/ Return

Spec == Init /\ [][Next]_vars
-----------------------------------------------------------------------------
(* The reader implements the event stream it promises its caller. *)

\* isFinished(), of a reader that is not inside next() with an event in its hands.
IsFinished == parseComplete /\ eventQueue = <<>> /\ held = <<>>

Phase == IF state = "Failed" THEN "Failed" ELSE IF IsFinished THEN "Ended" ELSE "Open"

Stream == INSTANCE EventStream WITH events <- delivered, phase <- Phase

\* What the caller receives is a transfer in the order of the grammar; it ends, for good, only
\* after its EndTransfer event; a failure is final and hands out nothing.
ImplementsEventStream == Stream!Spec
-----------------------------------------------------------------------------
(* Properties *)

QueueTypeOK ==
  /\ eventState \in EventState
  /\ eventQueue \in Seq(Event)
  /\ emitted \in Seq(Event)

CoordinatorTypeOK ==
  /\ state \in CoordinatorState
  /\ depth \in Nat
  /\ diagnostics \in Seq(Report)
  /\ taken \in Seq(Report)
  /\ detected \in {"None", "V23", "V24"}
  /\ dialect \in Dialect

CallerTypeOK ==
  /\ pc \in {"Idle", "Pump", "Drain", "Parse", "Reply"}
  /\ call \in Call
  /\ held \in Seq(Event) /\ Len(held) <= 1
  /\ reply \in Reply
  /\ delivered \in Seq(Event)

ReaderTypeOK ==
  /\ inputQueue \in Seq(Nat)
  /\ totalFed \in Nat
  /\ finishCalled \in BOOLEAN
  /\ parseComplete \in BOOLEAN

\* Every variable of the reader, the wrapper and the parser has its type.
TypeOK ==
  /\ doc \in Documents
  /\ QueueTypeOK /\ CoordinatorTypeOK /\ CallerTypeOK /\ ReaderTypeOK
  /\ ParserTypeOK /\ ExpatTypeOK

\* Until pump() throws, the events handed out, the one next() holds and those in the
\* queue are, in this order, the events the coordinator accepted: none is lost, repeated
\* or overtaken by the pops before and after pump().  A failed reader has handed out a
\* prefix of them.
DeliveredInOrder ==
  /\ IsPrefix(delivered, emitted)
  /\ pc # "Idle" \/ state # "Failed" => delivered \o held \o eventQueue = emitted

\* However the document is cut into chunks, queued pieces and suspended parses, the events are
\* a prefix of the document's own events; and next() reports the end only when all of them are
\* handed out, and never of an invalid document that was fed whole.
ReadsDocument ==
  /\ IsPrefix(emitted, doc.events)
  /\ reply = "End" => delivered = doc.events /\ (doc.valid \/ totalFed < DocBytes)

\* What the caller has taken of the diagnostics, and what it could take now.
Diagnosed == taken \o diagnostics

\* The report of a callback that throws may be a part of one, and is the last.
CertainReports ==
  IF state = "Failed" \/ callbackError THEN SubSeq(Diagnosed, 1, Len(Diagnosed) - 1)
                                       ELSE Diagnosed

\* Every diagnostic reaches the caller once, in the order of the document, however the document
\* was cut, wherever the parser was suspended, whenever the caller took some, and whatever
\* failed later; at the end of the document it has them all.
NothingPassesSilently ==
  /\ IsPrefix(CertainReports, doc.diagnoses)
  /\ reply = "End" => Diagnosed = doc.diagnoses

\* What is reported stays until the caller takes it, also when the parser is suspended, when the
\* reader fails on what follows, and when the caller goes on calling a failed reader.
ReportsAreKept == [][IsPrefix(Diagnosed, Diagnosed')]_vars

\* The place in the transfer that a state of the dialect stands for.
Position(s) ==
  IF s \in {"ExpectHeader", "CapturingHeader"} THEN "BeforeTransfer"
  ELSE IF s \in {"InBasket", "InObject"} THEN "InBasket"
  ELSE IF s = "Done" THEN "AfterTransfer"
  ELSE "InTransfer"

\* The order check of validateAndQueue never fires: the dialect's state and the
\* coordinator's, two records of the same place kept apart, agree.
DialectAgreement ==
  state # "Failed" /\ ~callbackError =>
    dialect.state # "Failed" /\ eventState = Position(dialect.state)

\* Between calls the wrapper's flag agrees with Expat, and a suspended parser has an event
\* in the queue: the caller's next next() takes it and resumes.
SuspendedHasEvents ==
  pc = "Idle" /\ state # "Failed" =>
    /\ suspended <=> parsing = "Suspended"
    /\ suspended => eventQueue # <<>>

\* next() asks for input only if everything fed so far is parsed and handed out (but for
\* what Expat defers) and finish() was not called.
NeedInputMeansDrained ==
  [][reply' = "NeedInput" /\ pc = "Reply" =>
       /\ ~finishCalled /\ inputQueue = <<>> /\ delivered = emitted
       /\ ~ReparseDeferral => ~CompleteToken(totalFed)]_vars

\* An empty-element tag can be a basket of its own: both its callbacks queue an event.
HasEmptyBasket ==
  \E n \in 1 .. Len(doc.tokens) :
    LET before == ReadInOnePiece(doc.tokens)[n - 1]
    IN  /\ doc.tokens[n].tag = "empty"
        /\ ~before.stopped /\ ~Misplaced(before, doc.tokens[n])
        /\ Opened(before, doc.tokens[n].element).events # before.events

QueueLimit(eventsPerToken) ==
  MaxQueuedEvents - 1
    + eventsPerToken * ((QueuedInputChunkSize + TokenBytes - 1) \div TokenBytes)

\* How far the queue may exceed its limit.  A resumed parse never suspends again (the flag of
\* the wrapper is stale) and runs through the rest of its piece, whose first token has been
\* parsed; the token after it adds its events, too, before the parser suspends.
QueueBound ==
  ~ReparseDeferral =>
    \/ Len(eventQueue) <= QueueLimit(1)
    \/ HasEmptyBasket /\ Len(eventQueue) <= QueueLimit(2)

\* A reader fed a whole valid document within the limits, and then finished, never fails.
ValidNeverFails ==
  state = "Failed" /\ doc.valid => finishCalled /\ totalFed < DocBytes

\* A caller that feeds its whole document, finishes, and keeps asking, gets to the end or
\* to a failure.
CallerFairness ==
  /\ SF_vars(\E size \in Chunks \ {0} : FeedAccepted(size))
  /\ SF_vars(NextAccepted)
  /\ SF_vars(FinishAccepted)
  /\ WF_vars(Pump \/ Parse \/ Return)

FairSpec == Spec /\ CallerFairness

Terminates == <>(state = "Failed" \/ (reply = "End" /\ delivered = doc.events))
=============================================================================
