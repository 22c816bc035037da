--------------------------- MODULE XtfStream_proofs ---------------------------
(***************************************************************************)
(* What the XTF reader does with the bytes it is fed, for every document,  *)
(* chunking and limit.  In this order:                                     *)
(*   - the bookkeeping of pump() (Pumped), and that the reader implements  *)
(*     the event stream of EventStream;                                    *)
(*   - reading in one piece, as XtfDocument defines it;                    *)
(*   - that the reader follows it (Following), loses no byte (Buffered),   *)
(*     and ends where the document ends (Complete);                        *)
(*   - that nothing that can be read is left lying (Drained);              *)
(*   - how long the queue gets (Bounded);                                  *)
(*   - that a valid document is read (Sound).                              *)
(***************************************************************************)
EXTENDS XtfReader_proofs, Induction

-----------------------------------------------------------------------------
(* The accepted events follow the grammar. *)

Accepted ==
  /\ \A i \in 1 .. Len(emitted) :
       IF i = 1 THEN emitted[i].kind = "StartTransfer"
                ELSE <<emitted[i - 1].kind, emitted[i].kind>> \in Stream!Follows
  /\ emitted = <<>> => eventState = "BeforeTransfer"
  /\ emitted # <<>> => eventState = EventStateAfter(emitted[Len(emitted)].kind)

\* What an event that validateAndQueue accepts does to the grammar's place.
LEMMA AcceptedPair ==
  ASSUME NEW e \in Event, NEW f \in Event, eventState = EventStateAfter(e.kind),
         ValidOrder(f.kind)
  PROVE  <<e.kind, f.kind>> \in Stream!Follows
  BY DEF EventStateAfter, ValidOrder, Stream!Follows, Event, EventKind

LEMMA AcceptedEnqueue ==
  ASSUME Typed, Accepted, NEW event \in Event, ValidOrder(event.kind), Enqueue(event)
  PROVE  Accepted'
<1>1. /\ emitted \in Seq(Event) /\ emitted' = Append(emitted, event)
      /\ eventState' = EventStateAfter(event.kind)
  BY DEF Typed, TypeOK, QueueTypeOK, Enqueue
<1>2. /\ Len(emitted') = Len(emitted) + 1 /\ Len(emitted) \in Nat
      /\ emitted'[Len(emitted')] = event
      /\ \A i \in 1 .. Len(emitted) : emitted'[i] = emitted[i] /\ emitted[i] \in Event
  BY <1>1
<1>3. ASSUME NEW i \in 1 .. Len(emitted')
      PROVE  IF i = 1 THEN emitted'[i].kind = "StartTransfer"
                      ELSE <<emitted'[i - 1].kind, emitted'[i].kind>> \in Stream!Follows
  <2>1. CASE i <= Len(emitted)
    <3>1. i \in 1 .. Len(emitted) /\ (i # 1 => i - 1 \in 1 .. Len(emitted))
      BY <1>2, <2>1
    <3>. QED  BY <1>2, <3>1 DEF Accepted
  <2>2. CASE i = Len(emitted) + 1 /\ emitted = <<>>
    <3>1. i = 1 /\ emitted'[i] = event
      BY <1>2, <2>2
    <3>2. event.kind = "StartTransfer"
      BY <2>2 DEF Accepted, ValidOrder
    <3>. QED  BY <3>1, <3>2
  <2>3. CASE i = Len(emitted) + 1 /\ emitted # <<>>
    <3>1. Len(emitted) \in 1 .. Len(emitted)
      BY <1>1, <1>2, <2>3
    <3>2. i # 1 /\ i - 1 = Len(emitted) /\ emitted'[i] = event /\ emitted'[i - 1] = emitted[Len(emitted)]
      BY <1>2, <2>3, <3>1
    <3>3. <<emitted[Len(emitted)].kind, event.kind>> \in Stream!Follows
      BY <1>2, <2>3, <3>1, AcceptedPair DEF Accepted
    <3>. QED  BY <3>2, <3>3
  <2>. QED  BY <1>2, <2>1, <2>2, <2>3
<1>4. emitted' # <<>>
  BY <1>1, <1>2
<1>. QED  BY <1>1, <1>2, <1>3, <1>4 DEF Accepted

LEMMA AcceptedStep ==
  ASSUME Typed, Accepted, [Next]_vars
  PROVE  Accepted'
<1>1. CASE UNCHANGED <<emitted, eventState>>
  BY <1>1 DEF Accepted
<1>2. CASE InParser
  <2>1. UNCHANGED queueVars \/ \E event \in Event : ValidOrder(event.kind) /\ Enqueue(event)
    BY <1>2, InParserStep DEF ParserStep, QueueStep
  <2>. QED  BY <1>1, <2>1, AcceptedEnqueue DEF queueVars
<1>3. CASE (\E size \in Chunks : FeedAccepted(size) \/ FeedOverLimit(size))
             \/ FeedOrFinishRejected \/ FinishAccepted \/ NextAccepted \/ NextRejected
             \/ TakeDiagnostics
  BY <1>1, <1>3 DEF FeedAccepted, FeedOverLimit, FeedOrFinishRejected, FinishAccepted,
     NextAccepted, NextRejected, TakeDiagnostics, Refuse, queueVars
<1>4. CASE Pump
  BY <1>1, <1>4 DEF Pump, PumpResumes, PumpResumeFails, PumpSkipsResume, PumpFeedsChunk,
     PumpFinishes, PumpDone, PumpFails, queueVars
<1>5. CASE ParserReturns \/ ParserReturnsEarly \/ ParserThrows
  BY <1>1, <1>5 DEF ParserReturns, ParserReturnsEarly, ParserThrows, PumpFails, queueVars
<1>6. CASE Return
  BY <1>1, <1>6 DEF Return, ReturnOk, ReturnEvent, ReturnNoEvent, Answer
<1>7. CASE UNCHANGED vars
  BY <1>1, <1>7 DEF vars, queueVars
<1>. QED  BY <1>2, <1>3, <1>4, <1>5, <1>6, <1>7 DEF Next, Feed, Parse, InParser

-----------------------------------------------------------------------------
(* The bookkeeping of pump() *)

Settled == inputQueue = <<>> /\ (finishCalled => parseComplete)

Pumped ==
  /\ pc = "Idle" <=> call = "None"
  /\ pc \in {"Idle", "Reply"} /\ state # "Failed" /\ ~suspended => Settled
  /\ pc \in {"Idle", "Drain", "Reply"} /\ state # "Failed" /\ suspended => eventQueue # <<>>
  /\ pc = "Parse" /\ parsing = "Suspended" => eventQueue # <<>>
  /\ pc # "Parse" /\ state # "Failed" => (suspended <=> parsing = "Suspended")
  /\ call = "Next" /\ held = <<>> => pc # "Parse" /\ eventQueue = <<>> /\ ~suspended /\ Settled
  /\ parseComplete => /\ finishCalled /\ finished /\ inputQueue = <<>>
                      /\ eventState = "AfterTransfer" /\ pc # "Parse"
  /\ pc = "Pump" /\ call # "Next" => ~parseComplete
  /\ finalBuffer => finishCalled /\ inputQueue = <<>>
  /\ pc = "Idle" => held = <<>>

LEMMA PumpedInParser ==
  ASSUME Typed, Pumped, InParser
  PROVE  Pumped'
<1>1. /\ pc = "Parse" /\ state # "Failed"
      /\ UNCHANGED <<pc, call, held, inputQueue, finishCalled, parseComplete, finished,
                     suspended, finalBuffer>>
      /\ \/ parsing' \in {parsing, "Finished"}
         \/ parsing' = "Suspended" /\ eventQueue' # <<>>
  BY InParserStep DEF ParserStep, QueueStep, callerVars, readerVars
<1>2. eventQueue # <<>> => eventQueue' # <<>>
  <2>1. UNCHANGED queueVars \/ \E event \in Event : Enqueue(event)
    BY InParserStep DEF ParserStep, QueueStep
  <2>2. ASSUME NEW event \in Event, Enqueue(event)
        PROVE  eventQueue' # <<>>
    BY <2>2 DEF Enqueue, Typed, TypeOK, QueueTypeOK
  <2>. QED  BY <2>1, <2>2 DEF queueVars
<1>. QED  BY <1>1, <1>2 DEF Pumped, Settled

LEMMA PumpedCalls ==
  ASSUME Typed, Pumped,
         \/ \E size \in Chunks : FeedAccepted(size) \/ FeedOverLimit(size)
         \/ FeedOrFinishRejected \/ FinishAccepted \/ NextAccepted \/ NextRejected
         \/ TakeDiagnostics
  PROVE  Pumped'
<1>1. ASSUME NEW size \in Chunks, FeedAccepted(size)
      PROVE  Pumped'
  BY <1>1 DEF FeedAccepted, Pumped, Settled, queueVars, coordinatorVars, parserVars, expatVars
<1>2. ASSUME NEW size \in Chunks, FeedOverLimit(size)
      PROVE  Pumped'
  BY <1>2 DEF FeedOverLimit, Pumped, Settled, queueVars, readerVars, parserVars, expatVars
<1>3. CASE FeedOrFinishRejected \/ NextRejected
  BY <1>3 DEF FeedOrFinishRejected, NextRejected, Refuse, Pumped, Settled, queueVars,
     coordinatorVars, readerVars, parserVars, expatVars
<1>4. CASE FinishAccepted
  BY <1>4 DEF FinishAccepted, Pumped, Settled, queueVars, coordinatorVars, parserVars, expatVars
<1>5. CASE NextAccepted
  <2>1. /\ held' = <<>> => eventQueue = <<>> /\ eventQueue' = <<>>
    BY <1>5 DEF NextAccepted
  <2>. QED
    BY <1>5, <2>1 DEF NextAccepted, Pumped, Settled, coordinatorVars, readerVars, parserVars,
       expatVars
<1>6. CASE TakeDiagnostics
  BY <1>6 DEF TakeDiagnostics, Pumped, Settled, queueVars, callerVars, readerVars, parserVars,
     expatVars
<1>. QED  BY <1>1, <1>2, <1>3, <1>4, <1>5, <1>6

LEMMA PumpedPump ==
  ASSUME Typed, Pumped, Pump
  PROVE  Pumped'
<1>0. state # "Failed" \/ pc = "Idle"
  BY DEF Typed
<1>1. CASE PumpResumes
  BY <1>0, <1>1 DEF PumpResumes, Resumes, BeginResume, ResumeRefused, XML_ResumeParser, Pumped,
     Settled, queueVars, coordinatorVars, readerVars
<1>2. CASE PumpResumeFails
  BY <1>0, <1>2 DEF PumpResumeFails, PumpFails, Pumped, Settled, queueVars, readerVars,
     parserVars, expatVars
<1>3. CASE PumpSkipsResume
  <2>1. suspended => eventQueue # <<>>
    BY <1>3, MaxQueuedEventsAssumption DEF PumpSkipsResume, Resumes, Typed, TypeOK, QueueTypeOK
  <2>. QED
    BY <1>0, <1>3, <2>1 DEF PumpSkipsResume, Pumped, Settled, queueVars, coordinatorVars,
       readerVars, parserVars, expatVars
<1>4. CASE PumpFeedsChunk
  <2>1. /\ pc = "Drain" /\ inputQueue # <<>> /\ ~suspended
        /\ UNCHANGED <<call, held, finishCalled, parseComplete, eventQueue, eventState, state>>
    BY <1>4 DEF PumpFeedsChunk, queueVars, coordinatorVars
  <2>2. ~parseComplete /\ ~finalBuffer /\ ~(call = "Next" /\ held = <<>>)
    BY <2>1 DEF Pumped, Settled
  <2>3. CASE UNCHANGED <<pc, parserVars, expatVars>>
    BY <1>0, <2>1, <2>2, <2>3 DEF Pumped, Settled, parserVars, expatVars
  <2>4. CASE BeginFeed(Head(inputQueue)) /\ pc' = "Parse"
    <3>1. parsing' = "Parsing" /\ finalBuffer' = FALSE /\ UNCHANGED <<finished, suspended>>
      BY <2>4 DEF BeginFeed, XML_ParseBuffer
    <3>. QED  BY <1>0, <2>1, <2>2, <2>4, <3>1 DEF Pumped, Settled
  <2>. QED  BY <1>4, <2>3, <2>4 DEF PumpFeedsChunk
<1>5. CASE PumpFinishes
  BY <1>0, <1>5 DEF PumpFinishes, MayFinish, BeginFinish, XML_ParseBuffer, Pumped, Settled,
     queueVars, coordinatorVars, readerVars
<1>6. CASE PumpDone
  BY <1>0, <1>6 DEF PumpDone, MayFinish, Pumped, Settled, queueVars, coordinatorVars,
     readerVars, parserVars, expatVars
<1>. QED  BY <1>1, <1>2, <1>3, <1>4, <1>5, <1>6 DEF Pump

LEMMA PumpedReturns ==
  ASSUME Typed, Pumped, ParserReturns \/ ParserReturnsEarly \/ ParserThrows \/ Return
  PROVE  Pumped'
<1>0. state # "Failed" \/ pc = "Idle"
  BY DEF Typed
<1>1. CASE ParserReturns
  BY <1>0, <1>1 DEF ParserReturns, ParseSucceeds, TransferComplete, Pumped, Settled, queueVars,
     coordinatorVars
<1>2. CASE ParserReturnsEarly
  BY <1>0, <1>2 DEF ParserReturnsEarly, ParseSucceeds, PumpFails, Pumped, Settled, queueVars,
     readerVars
<1>3. CASE ParserThrows
  BY <1>0, <1>3 DEF ParserThrows, ParseFails, PumpFails, Pumped, Settled, queueVars,
     readerVars, expatVars
<1>4. CASE ReturnOk \/ ReturnNoEvent
  BY <1>0, <1>4 DEF ReturnOk, ReturnNoEvent, Answer, Pumped, Settled, coordinatorVars,
     readerVars, parserVars, expatVars
<1>5. CASE ReturnEvent
  <2>1. held # <<>> /\ eventQueue' = eventQueue
    <3>1. held = <<>> => held \o eventQueue = <<>>
      <4>1. held = <<>> => held \o eventQueue = <<>> \o <<>>
        BY <1>5 DEF ReturnEvent, Pumped
      <4>. QED  BY <4>1, EmptySeq, ConcatEmptySeq
    <3>. QED  BY <1>5, <3>1 DEF ReturnEvent
  <2>. QED
    BY <1>0, <1>5, <2>1 DEF ReturnEvent, Answer, Pumped, Settled, coordinatorVars, readerVars,
       parserVars, expatVars
<1>. QED  BY <1>1, <1>2, <1>3, <1>4, <1>5 DEF Return

LEMMA PumpedStep ==
  ASSUME Typed, Pumped, [Next]_vars
  PROVE  Pumped'
<1>1. CASE Next
  BY <1>1, PumpedInParser, PumpedCalls, PumpedPump, PumpedReturns
     DEF Next, Feed, Parse, InParser
<1>2. CASE UNCHANGED vars
  BY <1>2 DEF vars, queueVars, coordinatorVars, callerVars, readerVars, parserVars, expatVars,
     Pumped, Settled
<1>. QED  BY <1>1, <1>2

LEMMA PumpedInit ==
  ASSUME Init
  PROVE  Accepted /\ Pumped
<1>1. Accepted
  BY DEF Init, Accepted
<1>2. Pumped
  BY DEF Init, ParserInit, ExpatInit, Pumped, Settled
<1>. QED  BY <1>1, <1>2

-----------------------------------------------------------------------------
(* Theorems *)

\* What holds at every state, and all the theorems below rest on.
Inductive == Typed /\ History /\ Accepted /\ Pumped

LEMMA InductiveInvariant == Spec => []Inductive
<1>1. Init => Inductive
  BY InitTyped, InitHistory, PumpedInit DEF Inductive
<1>2. Inductive /\ [Next]_vars => Inductive'
  BY TypedStep, HistoryStep, AcceptedStep, PumpedStep DEF Inductive
<1>. QED  BY <1>1, <1>2, PTL DEF Spec

\* Between calls the wrapper's flag agrees with Expat, and a suspended reader has an event in
\* its queue: whoever calls next() until it asks for input also resumes the parser.
THEOREM SuspensionHasEvents == Spec => []SuspendedHasEvents
<1>1. Inductive => SuspendedHasEvents
  BY DEF Inductive, Pumped, SuspendedHasEvents
<1>. QED  BY <1>1, InductiveInvariant, PTL

LEMMA FailedStays ==
  ASSUME Inductive, Next, state = "Failed"
  PROVE  state' = "Failed" /\ delivered' = delivered /\ reply' \in {reply, "InvalidState"}
<1>1. pc = "Idle"
  BY DEF Inductive, Typed
<1>2. FeedOrFinishRejected \/ NextRejected \/ TakeDiagnostics
  BY <1>1 DEF Next, Feed, FeedAccepted, FeedOverLimit, FinishAccepted, NextAccepted, Pump,
       PumpResumes, PumpResumeFails, PumpSkipsResume, PumpFeedsChunk, PumpFinishes, PumpDone,
     Parse, StartElement, EndElement, SkippedEndElement, CharacterData, Doctype, Malformed,
       InCallback, ParserReturns, ParserReturnsEarly, ParserThrows, Return, ReturnOk,
       ReturnEvent, ReturnNoEvent
<1>. QED
  BY <1>2 DEF FeedOrFinishRejected, NextRejected, TakeDiagnostics, Refuse, coordinatorVars,
       callerVars

-----------------------------------------------------------------------------
(* The refinement *)

LEMMA OnlyReturnEventDelivers ==
  ASSUME [Next]_vars, ~ReturnEvent
  PROVE  delivered' = delivered
<1>1. CASE Feed \/ (\E size \in Chunks : FeedOverLimit(size)) \/ FeedOrFinishRejected
             \/ FinishAccepted \/ NextAccepted \/ NextRejected \/ TakeDiagnostics
  BY <1>1 DEF Feed, FeedAccepted, FeedOverLimit, FeedOrFinishRejected, FinishAccepted,
     NextAccepted, NextRejected, TakeDiagnostics, Refuse, callerVars
<1>2. CASE Pump
  BY <1>2 DEF Pump, PumpResumes, PumpResumeFails, PumpSkipsResume, PumpFeedsChunk,
     PumpFinishes, PumpDone, PumpFails
<1>3. CASE Parse
  BY <1>3 DEF Parse, StartElement, EndElement, SkippedEndElement, CharacterData, Doctype,
     Malformed, ParserReturns, ParserReturnsEarly, ParserThrows, PumpFails,
     unchangedInCallback, callerVars
<1>4. CASE ReturnOk \/ ReturnNoEvent
  BY <1>4 DEF ReturnOk, ReturnNoEvent
<1>5. CASE UNCHANGED vars
  BY <1>5 DEF vars, callerVars
<1>. QED  BY <1>1, <1>2, <1>3, <1>4, <1>5 DEF Next, Return

\* A finished reader has handed out all it accepted, and that is a complete transfer.
LEMMA FinishedIsComplete ==
  ASSUME Inductive, IsFinished, state # "Failed"
  PROVE  Stream!Complete(delivered)
<1>1. /\ delivered \in Seq(Event) /\ emitted \in Seq(Event)
      /\ held = <<>> /\ eventQueue = <<>> /\ parseComplete
  BY DEF Inductive, Typed, TypeOK, QueueTypeOK, CallerTypeOK, IsFinished
<1>2. (delivered \o held) \o eventQueue = emitted
  BY DEF Inductive, History, DeliveredInOrder
<1>3. delivered = emitted
  BY <1>1, <1>2, ConcatEmptySeq
<1>4. eventState = "AfterTransfer"
  BY <1>1 DEF Inductive, Pumped
<1>5. emitted # <<>> /\ EventStateAfter(emitted[Len(emitted)].kind) = "AfterTransfer"
  BY <1>4 DEF Inductive, Accepted
<1>6. emitted[Len(emitted)] \in Event
  BY <1>1, <1>5
<1>7. emitted[Len(emitted)].kind = "EndTransfer"
  BY <1>5, <1>6 DEF EventStateAfter, Event, EventKind
<1>. QED  BY <1>3, <1>5, <1>7 DEF Stream!Complete

\* A finished reader can only refuse calls and answer End.
LEMMA FinishedStays ==
  ASSUME Inductive, IsFinished, state # "Failed", [Next]_vars
  PROVE  UNCHANGED <<delivered, Phase>>
<1>1. /\ parseComplete /\ finishCalled /\ inputQueue = <<>> /\ pc # "Parse"
      /\ eventQueue = <<>> /\ held = <<>>
  BY DEF Inductive, Pumped, IsFinished
<1>2. pc \in {"Pump", "Drain"} => ~suspended
  BY <1>1 DEF Inductive, Pumped, Typed, TypeOK, CallerTypeOK, Call
<1>3. UNCHANGED <<delivered, parseComplete, eventQueue, held>> /\ state' = state
  <2>1. CASE NextAccepted
    BY <1>1, <2>1 DEF NextAccepted, readerVars, coordinatorVars
  <2>2. CASE FeedOrFinishRejected \/ NextRejected \/ TakeDiagnostics
    BY <2>2 DEF FeedOrFinishRejected, NextRejected, TakeDiagnostics, Refuse, queueVars,
       coordinatorVars, callerVars, readerVars
  <2>3. CASE PumpSkipsResume \/ PumpDone
    BY <2>3 DEF PumpSkipsResume, PumpDone, queueVars, coordinatorVars, readerVars
  <2>4. CASE ReturnOk \/ ReturnNoEvent
    BY <1>1, <2>4 DEF ReturnOk, ReturnNoEvent, Answer, coordinatorVars, readerVars
  <2>5. CASE UNCHANGED vars
    BY <2>5 DEF vars, queueVars, coordinatorVars, callerVars, readerVars
  <2>6. ~ReturnEvent
    <3>1. held \o eventQueue = <<>> \o <<>>
      BY <1>1
    <3>. QED  BY <3>1, EmptySeq, ConcatEmptySeq DEF ReturnEvent
  <2>7. ~(Feed \/ (\E size \in Chunks : FeedOverLimit(size)) \/ FinishAccepted)
    BY <1>1 DEF Feed, FeedAccepted, FeedOverLimit, FinishAccepted
  <2>8. ~(PumpResumes \/ PumpResumeFails \/ PumpFeedsChunk \/ PumpFinishes)
    BY <1>1, <1>2 DEF PumpResumes, PumpResumeFails, Resumes, PumpFeedsChunk, PumpFinishes, MayFinish
  <2>9. ~Parse
    BY <1>1 DEF Parse, StartElement, EndElement, SkippedEndElement, CharacterData, Doctype,
       Malformed, InCallback, ParserReturns, ParserReturnsEarly, ParserThrows
  <2>. QED
    BY <2>1, <2>2, <2>3, <2>4, <2>5, <2>6, <2>7, <2>8, <2>9 DEF Next, Pump, Return
<1>. QED  BY <1>1, <1>3 DEF Phase, IsFinished

\* The event handed out may follow the ones before it.
LEMMA ReturnEventDelivers ==
  ASSUME Inductive, ReturnEvent
  PROVE  /\ Len(delivered') = Len(delivered) + 1
         /\ delivered' = Append(delivered, delivered'[Len(delivered')])
         /\ Stream!MayFollow(delivered, delivered'[Len(delivered')].kind)
<1>. DEFINE rest == held \o eventQueue
            e == Head(rest)
            n == Len(delivered)
<1>1. /\ delivered \in Seq(Event) /\ emitted \in Seq(Event)
      /\ held \in Seq(Event) /\ eventQueue \in Seq(Event)
  BY DEF Inductive, Typed, TypeOK, QueueTypeOK, CallerTypeOK
<1>2. rest # <<>> /\ delivered' = Append(delivered, e)
  BY DEF ReturnEvent
<1>3. rest \in Seq(Event) /\ (delivered \o held) \o eventQueue = delivered \o rest
  BY <1>1, Associative
<1>4. delivered \o rest = emitted
  <2>1. (delivered \o held) \o eventQueue = emitted
    BY DEF ReturnEvent, Inductive, History, DeliveredInOrder
  <2>. QED  BY <1>3, <2>1
<1>. HIDE DEF rest
<1>5. /\ Len(emitted) = n + Len(rest) /\ Len(rest) > 0 /\ n \in Nat /\ Len(rest) \in Nat
      /\ e = rest[1] /\ e \in Event
  <2>1. Len(delivered \o rest) = n + Len(rest)
    BY <1>1, <1>3, ConcatProperties
  <2>2. Len(rest) > 0 /\ Len(rest) \in Nat /\ n \in Nat
    BY <1>1, <1>2, <1>3
  <2>3. e = rest[1] /\ e \in Event
    BY <1>2, <1>3, <2>2
  <2>. QED  BY <1>4, <2>1, <2>2, <2>3
<1>6. \A i \in 1 .. n + Len(rest) : emitted[i] = IF i <= n THEN delivered[i] ELSE rest[i - n]
  BY <1>1, <1>3, <1>4, ConcatProperties
<1>7. emitted[n + 1] = e /\ (n > 0 => emitted[n] = delivered[n])
  BY <1>5, <1>6
<1>. HIDE DEF e
<1>8. Len(delivered') = n + 1 /\ delivered'[n + 1] = e
  BY <1>1, <1>2, <1>5
<1>9. Stream!MayFollow(delivered, e.kind)
  <2>1. n + 1 \in 1 .. Len(emitted)
    BY <1>5
  <2>2. IF n + 1 = 1 THEN emitted[n + 1].kind = "StartTransfer"
        ELSE <<emitted[(n + 1) - 1].kind, emitted[n + 1].kind>> \in Stream!Follows
    BY <2>1 DEF Inductive, Accepted
  <2>3. CASE n = 0
    BY <1>1, <1>7, <2>2, <2>3 DEF Stream!MayFollow
  <2>4. CASE n > 0
    <3>1. (n + 1) - 1 = n /\ n + 1 # 1 /\ delivered # <<>>
      BY <1>5, <2>4
    <3>2. <<delivered[n].kind, e.kind>> \in Stream!Follows
      BY <1>7, <2>2, <2>4, <3>1
    <3>. QED  BY <3>1, <3>2 DEF Stream!MayFollow
  <2>. QED  BY <1>5, <2>3, <2>4
<1>. QED  BY <1>2, <1>8, <1>9

\* The reader implements the event stream: the caller receives one transfer in the order of the
\* grammar; the end, once reported, is final and follows EndTransfer; a failure is final.
THEOREM Refinement == Spec => ImplementsEventStream
<1>1. Init => Stream!StreamInit
  BY DEF Init, Stream!StreamInit, Phase, IsFinished
<1>2. Inductive => (IsFinished /\ state # "Failed" => Stream!Complete(delivered))
  BY FinishedIsComplete
<1>3. Inductive' => (IsFinished /\ state # "Failed" => Stream!Complete(delivered))'
  BY <1>2, PTL
<1>4. Inductive /\ Inductive' /\ [Next]_vars => [Stream!Next]_Stream!streamVars
  <2>. SUFFICES ASSUME Inductive, Inductive', [Next]_vars
                PROVE  [Stream!Next]_<<delivered, Phase>>
    BY DEF Stream!streamVars
  <2>1. CASE state = "Failed"
    <3>1. state' = "Failed" /\ delivered' = delivered
      BY <2>1, FailedStays DEF vars, coordinatorVars, callerVars
    <3>. QED  BY <2>1, <3>1 DEF Phase
  <2>2. CASE state # "Failed" /\ IsFinished
    BY <2>2, FinishedStays
  <2>3. CASE state # "Failed" /\ ~IsFinished /\ ReturnEvent
    <3>1. Phase = "Open" /\ state' # "Failed"
      BY <2>3 DEF Phase, ReturnEvent, Answer, coordinatorVars
    <3>2. Phase' = "Open" \/ (Phase' = "Ended" /\ Stream!Complete(delivered)')
      BY <1>3, <3>1 DEF Phase
    <3>. QED
      BY <2>3, <3>1, <3>2, ReturnEventDelivers DEF Stream!Next, Stream!Deliver, Stream!Complete
  <2>4. CASE state # "Failed" /\ ~IsFinished /\ ~ReturnEvent
    <3>1. delivered' = delivered /\ Phase = "Open"
      BY <2>4, OnlyReturnEventDelivers DEF Phase
    <3>2. Phase' \in {"Open", "Failed"} \/ (Phase' = "Ended" /\ Stream!Complete(delivered)')
      BY <1>3 DEF Phase
    <3>3. Phase' = "Ended" => Stream!Complete(delivered)
      BY <3>1, <3>2 DEF Stream!Complete
    <3>. QED  BY <3>1, <3>2, <3>3 DEF Stream!Next, Stream!End, Stream!Fail
  <2>. QED  BY <2>1, <2>2, <2>3, <2>4
<1>. QED  BY <1>1, <1>4, InductiveInvariant, PTL DEF Spec, ImplementsEventStream, Stream!Spec

-----------------------------------------------------------------------------
(* Reading in one piece *)

\* What may be known after some tokens.
Knowledge == [open : Seq(Element), begun : BOOLEAN, version : {"None", "V23", "V24"},
              dialect : Dialect, events : Seq(Event), told : Seq(Report),
              stopped : BOOLEAN]

Knows(w) == w \in Knowledge /\ DialectOK(w.dialect)

\* The function that ReadInOnePiece is defined with exists and does what its definition says.
LEMMA OnePieceUnfolds ==
  ASSUME NEW tokens \in Seq(Token)
  PROVE  /\ ReadInOnePiece(tokens)[0] = NothingRead
         /\ \A n \in 1 .. Len(tokens) :
              ReadInOnePiece(tokens)[n] = Read(ReadInOnePiece(tokens)[n - 1], tokens[n])
<1>. DEFINE N == Len(tokens)
            Reads(f, k) == /\ DOMAIN f = 0 .. k /\ f = [n \in DOMAIN f |-> f[n]]
                           /\ f[0] = NothingRead
                           /\ \A n \in 1 .. k : f[n] = Read(f[n - 1], tokens[n])
            Def(f) == f = [n \in 0 .. N |->
                             IF n = 0 THEN NothingRead ELSE Read(f[n - 1], tokens[n])]
            Good == {k \in Nat : \E f : Reads(f, k)}
<1>1. N \in Nat
  OBVIOUS
<1>2. 0 \in Good
  <2>1. Reads([n \in 0 .. 0 |-> NothingRead], 0)
    OBVIOUS
  <2>. HIDE DEF Reads
  <2>. QED  BY <2>1
<1>3. ASSUME NEW k \in Good  PROVE k + 1 \in Good
  <2>1. PICK f : Reads(f, k)
    OBVIOUS
  <2>. DEFINE g == [n \in 0 .. k + 1 |-> IF n <= k THEN f[n] ELSE Read(f[k], tokens[k + 1])]
  <2>2. k \in Nat /\ DOMAIN g = 0 .. k + 1 /\ g = [n \in DOMAIN g |-> g[n]]
    OBVIOUS
  <2>3. g[0] = NothingRead
    BY <2>1, <2>2
  <2>4. ASSUME NEW n \in 1 .. k + 1  PROVE g[n] = Read(g[n - 1], tokens[n])
    <3>1. CASE n <= k
      <4>1. n \in 1 .. k /\ n \in 0 .. k + 1 /\ n - 1 \in 0 .. k + 1 /\ n - 1 <= k
        BY <2>2, <3>1
      <4>2. f[n] = Read(f[n - 1], tokens[n])
        BY <2>1, <4>1
      <4>3. g[n] = f[n] /\ g[n - 1] = f[n - 1]
        BY <3>1, <4>1
      <4>. QED  BY <4>2, <4>3
    <3>2. CASE ~ n <= k
      <4>1. n = k + 1 /\ n - 1 = k /\ n - 1 \in 0 .. k + 1 /\ n - 1 <= k
        BY <2>2, <3>2
      <4>2. g[n] = Read(f[k], tokens[k + 1]) /\ g[n - 1] = f[k]
        BY <3>2, <4>1
      <4>. QED  BY <4>1, <4>2
    <3>. QED  BY <3>1, <3>2
  <2>5. Reads(g, k + 1)
    <3>. HIDE DEF g
    <3>. QED  BY <2>2, <2>3, <2>4
  <2>. HIDE DEF Reads
  <2>. QED  BY <2>2, <2>5
<1>4. PICK g : Reads(g, N)
  <2>. HIDE DEF Reads
  <2>1. Good \in SUBSET Nat
    OBVIOUS
  <2>2. Good = Nat
    <3>. HIDE DEF Good
    <3>. QED  BY <1>2, <1>3, <2>1, NatSetInduction
  <2>. QED  BY <1>1, <2>2
<1>5. Def(g)
  BY <1>1, <1>4
<1>. DEFINE f == CHOOSE h : Def(h)
<1>6. Def(f)
  <2>. HIDE DEF Def
  <2>. QED  BY <1>5
<1>7. f[0] = NothingRead /\ \A n \in 1 .. N : f[n] = Read(f[n - 1], tokens[n])
  <2>. HIDE DEF f
  <2>. QED  BY <1>1, <1>6
<1>8. ReadInOnePiece(tokens) = f
  BY Zenon DEF ReadInOnePiece
<1>. HIDE DEF f
<1>. QED  BY <1>7, <1>8

\* The callbacks of either dialect.
LEMMA VersionResults ==
  ASSUME NEW v, NEW d, DialectOK(d)
  PROVE  /\ ResultOK(d, OnText(v, d))
         /\ \A e \in Element : /\ ResultOK(d, OnStart(v, d, e))
                               /\ ResultOK(d, OnEnd(v, d, e))
                               /\ ResultOK(d, OnRootClosed(v, d, e))
  BY OnStartElement23, OnEndElement23, OnText23, OnRootClosed23,
     OnStartElement24, OnEndElement24, OnText24, OnRootClosed24
     DEF OnStart, OnEnd, OnText, OnRootClosed

LEMMA PrefixReflexive ==
  ASSUME NEW S, NEW s \in Seq(S)
  PROVE  IsPrefix(s, s)
<1>1. Len(s) \in Nat /\ Len(s) <= Len(s) /\ SubSeq(s, 1, Len(s)) = SubSeq(s, 1, Len(s))
  OBVIOUS
<1>. QED  BY <1>1, Zenon DEF IsPrefix

LEMMA PrefixAppend ==
  ASSUME NEW S, NEW s \in Seq(S), NEW e \in S
  PROVE  IsPrefix(s, Append(s, e))
<1>1. <<e>> \in Seq(S) /\ Append(s, e) = s \o <<e>>
  BY AppendIsConcat
<1>. QED  BY <1>1, PrefixOfConcat, Zenon

LEMMA PrefixTransitive ==
  ASSUME NEW S, NEW s \in Seq(S), NEW t \in Seq(S), NEW u \in Seq(S),
         IsPrefix(s, t), IsPrefix(t, u)
  PROVE  IsPrefix(s, u)
<1>1. /\ Len(s) <= Len(t) /\ SubSeq(s, 1, Len(s)) = SubSeq(t, 1, Len(s))
      /\ Len(t) <= Len(u) /\ SubSeq(t, 1, Len(t)) = SubSeq(u, 1, Len(t))
  BY DEF IsPrefix
<1>2. Len(s) \in Nat /\ Len(t) \in Nat /\ Len(u) \in Nat
  OBVIOUS
<1>3. \A i \in 1 .. Len(t) : t[i] = u[i]
  <2>1. \A i \in 1 .. Len(t) : SubSeq(t, 1, Len(t))[i] = t[i]
    BY <1>2
  <2>2. \A i \in 1 .. Len(t) : SubSeq(u, 1, Len(t))[i] = u[i]
    BY <1>1, <1>2
  <2>. QED  BY <1>1, <2>1, <2>2
<1>4. SubSeq(t, 1, Len(s)) = SubSeq(u, 1, Len(s))
  <2>1. \A i \in 1 .. Len(s) : t[i] = u[i]
    BY <1>1, <1>2, <1>3
  <2>2. /\ SubSeq(t, 1, Len(s)) \in Seq(S) /\ Len(SubSeq(t, 1, Len(s))) = Len(s)
        /\ SubSeq(u, 1, Len(s)) \in Seq(S) /\ Len(SubSeq(u, 1, Len(s))) = Len(s)
    BY <1>1, <1>2
  <2>3. \A i \in 1 .. Len(s) : SubSeq(t, 1, Len(s))[i] = SubSeq(u, 1, Len(s))[i]
    BY <1>1, <1>2, <2>1
  <2>. QED  BY <2>2, <2>3, SeqEqual
<1>. QED  BY <1>1, <1>2, <1>4 DEF IsPrefix

\* A sequence without its last element.
LEMMA FrontPrefix ==
  ASSUME NEW S, NEW s \in Seq(S)
  PROVE  /\ SubSeq(s, 1, Len(s) - 1) \in Seq(S)
         /\ IsPrefix(SubSeq(s, 1, Len(s) - 1), s)
<1>. DEFINE f == SubSeq(s, 1, Len(s) - 1)
<1>1. CASE s = <<>>
  <2>1. f = <<>> /\ <<>> \in Seq(S)
    BY <1>1
  <2>. QED  BY <1>1, <2>1, PrefixReflexive
<1>2. CASE s # <<>>
  <2>0. Len(s) \in Nat /\ Len(s) >= 1
    BY <1>2
  <2>1. /\ f \in Seq(S) /\ Len(f) = Len(s) - 1 /\ Len(s) \in Nat
        /\ \A i \in 1 .. Len(f) : f[i] = s[i]
    <3>. DEFINE m == Len(s) - 1
    <3>1. m \in Nat /\ m <= Len(s)
      BY <2>0
    <3>. HIDE DEF m
    <3>2. SubSeq(s, 1, m) \in Seq(S) /\ Len(SubSeq(s, 1, m)) = m
          /\ \A i \in 1 .. m : SubSeq(s, 1, m)[i] = s[i]
      BY <3>1
    <3>. QED  BY <2>0, <3>2 DEF m
  <2>2. SubSeq(f, 1, Len(f)) = f
    BY <2>1
  <2>3. SubSeq(s, 1, Len(f)) = f
    BY <2>1
  <2>. HIDE DEF f
  <2>4. IsPrefix(f, s)
    BY <2>1, <2>2, <2>3 DEF IsPrefix
  <2>. QED  BY <2>1, <2>4 DEF f
<1>. QED  BY <1>1, <1>2

\* What v knows of events and diagnostics begins with what w knows.
Extends(v, w) == IsPrefix(w.events, v.events) /\ IsPrefix(w.told, v.told)

LEMMA ExtendsItself ==
  ASSUME NEW w, Knows(w), NEW v, v.events = w.events, v.told = w.told
  PROVE  Extends(v, w)
  BY PrefixReflexive DEF Extends, Knows, Knowledge

LEMMA ExtendsTransitive ==
  ASSUME NEW u, NEW v, NEW w, Knows(u), Knows(v), Knows(w), Extends(v, w), Extends(u, v)
  PROVE  Extends(u, w)
<1>1. /\ u.events \in Seq(Event) /\ v.events \in Seq(Event) /\ w.events \in Seq(Event)
      /\ u.told \in Seq(Report) /\ v.told \in Seq(Report) /\ w.told \in Seq(Report)
  BY DEF Knows, Knowledge
<1>2. IsPrefix(w.events, u.events)
  BY <1>1, PrefixTransitive DEF Extends
<1>3. IsPrefix(w.told, u.told)
  BY <1>1, PrefixTransitive DEF Extends
<1>. QED  BY <1>2, <1>3 DEF Extends

LEMMA StopKnows ==
  ASSUME NEW w, Knows(w)
  PROVE  /\ Knows(Stop(w)) /\ Stop(w).stopped
         /\ Stop(w).events = w.events /\ Stop(w).told = w.told
         /\ Extends(Stop(w), w)
<1>1. /\ Knows(Stop(w)) /\ Stop(w).stopped
      /\ Stop(w).events = w.events /\ Stop(w).told = w.told
  BY DEF Knows, Knowledge, Stop
<1>. QED  BY <1>1, ExtendsItself

LEMMA TookKnows ==
  ASSUME NEW w, Knows(w), NEW r, ResultOK(w.dialect, r), NEW open \in Seq(Element)
  PROVE  Knows(Took(w, r, open)) /\ Extends(Took(w, r, open), w)
<1>1. CASE r.thrown
  BY <1>1, StopKnows DEF Took
<1>2. CASE ~r.thrown
  <2>. DEFINE events == IF r.emit = <<>> THEN w.events ELSE Append(w.events, Head(r.emit))
              told == w.told \o r.diagnostics
              v == [w EXCEPT !.open = open, !.dialect = r.dialect, !.events = events,
                             !.told = told]
  <2>1. /\ w.events \in Seq(Event) /\ r.emit \in Seq(Event) /\ DialectOK(r.dialect)
        /\ w.told \in Seq(Report) /\ r.diagnostics \in Seq(Report) /\ r.dialect \in Dialect
    BY <1>2 DEF Knows, Knowledge, ResultOK, Result
  <2>2. events \in Seq(Event) /\ IsPrefix(w.events, events)
    <3>1. CASE r.emit = <<>>
      BY <2>1, <3>1, PrefixReflexive
    <3>2. CASE r.emit # <<>>
      <4>1. Head(r.emit) \in Event
        BY <2>1, <3>2
      <4>. QED  BY <2>1, <3>2, <4>1, PrefixAppend
    <3>. QED  BY <3>1, <3>2
  <2>3. told \in Seq(Report) /\ IsPrefix(w.told, told)
    <3>1. told \in Seq(Report)
      BY <2>1
    <3>2. IsPrefix(w.told, told)
      BY <2>1, PrefixOfConcat, Zenon
    <3>. QED  BY <3>1, <3>2
  <2>4. Took(w, r, open) = v
    BY <1>2 DEF Took
  <2>5. Knows(v) /\ v.events = events /\ v.told = told
    <3>. HIDE DEF events, told
    <3>. QED  BY <2>1, <2>2, <2>3 DEF Knows, Knowledge
  <2>. HIDE DEF events, told, v
  <2>. QED  BY <2>2, <2>3, <2>4, <2>5 DEF Extends
<1>. QED  BY <1>1, <1>2

LEMMA OpenedKnows ==
  ASSUME NEW w, Knows(w), NEW e \in Element
  PROVE  /\ Knows(Opened(w, e)) /\ Extends(Opened(w, e), w)
         /\ Opened(w, e).stopped \/ Opened(w, e).open = <<e>> \o w.open
                                 \/ Opened(w, e).open = <<e>>
<1>1. CASE Len(w.open) >= MaxDepth
  BY <1>1, StopKnows DEF Opened
<1>2. CASE ~(Len(w.open) >= MaxDepth) /\ ~w.begun
  <2>1. CASE RootAccepted(e)
    <3>. DEFINE v == [w EXCEPT !.open = <<e>>, !.begun = TRUE, !.version = RootVersion(e)]
    <3>1. Opened(w, e) = v
      BY <1>2, <2>1 DEF Opened, TookRoot
    <3>2. RootVersion(e) \in {"None", "V23", "V24"} /\ <<e>> \in Seq(Element)
      BY DEF RootVersion
    <3>3. Knows(v) /\ v.events = w.events /\ v.told = w.told /\ v.open = <<e>>
      BY <3>2 DEF Knows, Knowledge
    <3>. QED  BY <3>1, <3>3, ExtendsItself
  <2>2. CASE ~RootAccepted(e)
    BY <1>2, <2>2, StopKnows DEF Opened, TookRoot
  <2>. QED  BY <2>1, <2>2
<1>3. CASE ~(Len(w.open) >= MaxDepth) /\ w.begun
  <2>. DEFINE r == OnStart(w.version, w.dialect, e)
              open == <<e>> \o w.open
  <2>1. ResultOK(w.dialect, r)
    BY VersionResults DEF Knows
  <2>2. open \in Seq(Element)
    BY DEF Knows, Knowledge
  <2>3. Opened(w, e) = Took(w, r, open)
    BY <1>3 DEF Opened
  <2>4. Took(w, r, open).stopped \/ Took(w, r, open).open = open
    <3>. HIDE DEF r, open
    <3>. QED  BY StopKnows DEF Took, Knows, Knowledge
  <2>. HIDE DEF r
  <2>5. Knows(Took(w, r, open)) /\ Extends(Took(w, r, open), w)
    <3>. HIDE DEF open
    <3>. QED  BY <2>1, <2>2, TookKnows
  <2>. QED  BY <2>3, <2>4, <2>5
<1>. QED  BY <1>1, <1>2, <1>3

LEMMA ClosedKnows ==
  ASSUME NEW w, Knows(w), w.open # <<>>
  PROVE  Knows(Closed(w)) /\ Extends(Closed(w), w)
<1>. DEFINE e == Head(w.open)
            r == IF Len(w.open) = 1 THEN OnRootClosed(w.version, w.dialect, e)
                                    ELSE OnEnd(w.version, w.dialect, e)
            open == Tail(w.open)
<1>1. e \in Element /\ open \in Seq(Element)
  BY DEF Knows, Knowledge
<1>2. ResultOK(w.dialect, r)
  BY <1>1, VersionResults DEF Knows
<1>3. Closed(w) = Took(w, r, open)
  BY DEF Closed
<1>. HIDE DEF e, r, open
<1>. QED  BY <1>1, <1>2, <1>3, TookKnows

LEMMA ReadKnows ==
  ASSUME NEW w, Knows(w), NEW t \in Token
  PROVE  Knows(Read(w, t)) /\ Extends(Read(w, t), w)
<1>. DEFINE e == t.element
<1>1. e \in Element /\ t.tag \in Tag
  BY DEF Token
<1>2. CASE w.stopped \/ Misplaced(w, t)
  BY <1>2, StopKnows DEF Read
<1>. DEFINE Taken == ~(w.stopped \/ Misplaced(w, t))
<1>3. CASE Taken /\ t.tag = "start"
  <2>1. Read(w, t) = Opened(w, e)
    BY <1>3 DEF Read
  <2>. HIDE DEF e
  <2>. QED  BY <1>1, <2>1, OpenedKnows
<1>4. CASE Taken /\ t.tag = "empty"
  <2>1. Read(w, t) = IF Opened(w, e).stopped THEN Opened(w, e) ELSE Closed(Opened(w, e))
    BY <1>4 DEF Read
  <2>. HIDE DEF e
  <2>. DEFINE v == Opened(w, e)
  <2>2. /\ Knows(v) /\ Extends(v, w)
        /\ v.stopped \/ v.open = <<e>> \o w.open \/ v.open = <<e>>
    BY <1>1, OpenedKnows
  <2>3. Read(w, t) = IF v.stopped THEN v ELSE Closed(v)
    BY <2>1
  <2>. HIDE DEF v
  <2>4. CASE v.stopped
    BY <2>2, <2>3, <2>4
  <2>5. CASE ~v.stopped
    <3>1. w.open \in Seq(Element) /\ <<e>> # <<>>
      BY DEF Knows, Knowledge
    <3>2. <<e>> \o w.open # <<>>
      BY <1>1, <3>1
    <3>3. v.open # <<>>
      BY <2>2, <2>5, <3>1, <3>2
    <3>4. Knows(Closed(v)) /\ Extends(Closed(v), v)
      BY <2>2, <3>3, ClosedKnows
    <3>5. Extends(Closed(v), w)
      BY <2>2, <3>4, ExtendsTransitive
    <3>. QED  BY <2>3, <2>5, <3>4, <3>5
  <2>. QED  BY <2>4, <2>5
<1>5. CASE Taken /\ t.tag = "end"
  <2>1. Read(w, t) = Closed(w) /\ w.open # <<>>
    BY <1>5 DEF Read, Misplaced
  <2>. QED  BY <2>1, ClosedKnows
<1>6. CASE Taken /\ t.tag = "text"
  <2>. DEFINE r == OnText(w.version, w.dialect)
  <2>1. Read(w, t) = Took(w, r, w.open)
    BY <1>6 DEF Read
  <2>2. ResultOK(w.dialect, r) /\ w.open \in Seq(Element)
    BY VersionResults DEF Knows, Knowledge
  <2>. HIDE DEF r
  <2>. QED  BY <2>1, <2>2, TookKnows
<1>7. Taken => t.tag \in {"start", "empty", "end", "text"}
  BY <1>1 DEF Misplaced, Tag
<1>. HIDE DEF Taken
<1>. QED  BY <1>2, <1>3, <1>4, <1>5, <1>6, <1>7 DEF Taken

LEMMA NothingReadKnows == Knows(NothingRead)
<1>1. NewDialect \in Dialect
  BY DEF NewDialect, Dialect, DialectState, CaptureKind
<1>2. DialectOK(NewDialect)
  BY <1>1 DEF DialectOK, NewDialect
<1>3. <<>> \in Seq(Element) /\ <<>> \in Seq(Event) /\ <<>> \in Seq(Report)
  BY EmptySeq
<1>. QED  BY <1>1, <1>2, <1>3 DEF Knows, Knowledge, NothingRead

\* What is known grows from token to token.
LEMMA OnePieceGrows ==
  ASSUME NEW tokens \in Seq(Token)
  PROVE  LET read == ReadInOnePiece(tokens)
         IN  /\ \A n \in 0 .. Len(tokens) : Knows(read[n])
             /\ \A n \in 0 .. Len(tokens) : \A m \in 0 .. n : Extends(read[n], read[m])
<1>. DEFINE read == ReadInOnePiece(tokens)
            N == Len(tokens)
            Typed1 == {n \in Nat : Knows(read[n])}
            Grown == {n \in Nat : \A m \in 0 .. n : Extends(read[n], read[m])}
<1>1. /\ N \in Nat /\ read[0] = NothingRead
      /\ \A n \in 1 .. N : read[n] = Read(read[n - 1], tokens[n]) /\ tokens[n] \in Token
  BY OnePieceUnfolds
<1>. HIDE DEF read, N
<1>2. \A n \in 0 .. N : n \in Typed1
  <2>1. 0 \in Typed1
    BY <1>1, NothingReadKnows
  <2>2. ASSUME NEW n \in 1 .. N, n - 1 \in Typed1  PROVE n \in Typed1
    <3>1. n \in Nat /\ Knows(read[n - 1]) /\ tokens[n] \in Token
      BY <1>1, <2>2
    <3>2. Knows(read[n])
      BY <1>1, <3>1, ReadKnows
    <3>. QED  BY <3>1, <3>2
  <2>. HIDE DEF Typed1
  <2>. QED  BY <1>1, <2>1, <2>2, RangeInduction
<1>3. \A n \in 0 .. N : Knows(read[n])
  BY <1>2
<1>4. \A n \in 0 .. N : n \in Grown
  <2>1. 0 \in Grown
    <3>1. Extends(read[0], read[0])
      BY <1>1, <1>3, ExtendsItself
    <3>. QED  BY <3>1
  <2>2. ASSUME NEW n \in 1 .. N, n - 1 \in Grown  PROVE n \in Grown
    <3>1. n \in Nat /\ n - 1 \in 0 .. N /\ n \in 0 .. N
      BY <1>1, <2>2
    <3>2. Knows(read[n - 1]) /\ Extends(read[n], read[n - 1])
      BY <1>1, <1>3, <3>1, ReadKnows
    <3>3. ASSUME NEW m \in 0 .. n  PROVE Extends(read[n], read[m])
      <4>1. CASE m = n
        BY <1>3, <3>1, <4>1, ExtendsItself
      <4>2. CASE m # n
        <5>1. m \in 0 .. n - 1 /\ m \in 0 .. N
          BY <3>1, <4>2, <1>1
        <5>2. Extends(read[n - 1], read[m])
          BY <2>2, <5>1
        <5>3. Knows(read[m]) /\ Knows(read[n - 1]) /\ Knows(read[n])
          BY <1>3, <3>1, <5>1
        <5>. QED  BY <3>2, <5>2, <5>3, ExtendsTransitive
      <4>. QED  BY <4>1, <4>2
    <3>. QED  BY <3>1, <3>3
  <2>. HIDE DEF Grown
  <2>. QED  BY <1>1, <2>1, <2>2, RangeInduction
<1>. QED  BY <1>3, <1>4 DEF read, N

\* Nothing more comes of a document once its reading has stopped or its root is closed.
Over(w) == w.stopped \/ (w.begun /\ w.open = <<>>)

LEMMA OverReads ==
  ASSUME NEW w, Knows(w), Over(w), NEW t \in Token
  PROVE  Over(Read(w, t)) /\ Read(w, t).events = w.events /\ Read(w, t).told = w.told
<1>1. w.stopped \/ Misplaced(w, t)
  BY DEF Over, Misplaced, Token, Tag
<1>2. Read(w, t) = Stop(w)
  BY <1>1 DEF Read
<1>. QED  BY <1>2, StopKnows DEF Over

LEMMA OnePieceOver ==
  ASSUME NEW tokens \in Seq(Token), NEW m \in 0 .. Len(tokens),
         Over(ReadInOnePiece(tokens)[m])
  PROVE  LET read == ReadInOnePiece(tokens)
         IN  /\ read[Len(tokens)].events = read[m].events
             /\ read[Len(tokens)].told = read[m].told
<1>. DEFINE read == ReadInOnePiece(tokens)
            N == Len(tokens)
            Same == {n \in Nat : n >= m => /\ Over(read[n]) /\ read[n].events = read[m].events
                                           /\ read[n].told = read[m].told}
<1>1. /\ N \in Nat /\ m \in 0 .. N /\ Over(read[m])
      /\ \A n \in 1 .. N : read[n] = Read(read[n - 1], tokens[n]) /\ tokens[n] \in Token
      /\ \A n \in 0 .. N : Knows(read[n])
  BY OnePieceUnfolds, OnePieceGrows
<1>. HIDE DEF read, N
<1>2. 0 \in Same
  BY <1>1
<1>3. ASSUME NEW n \in 1 .. N, n - 1 \in Same  PROVE n \in Same
  <2>1. n \in Nat /\ n - 1 \in 0 .. N /\ n - 1 \in Nat
    BY <1>1, <1>3
  <2>2. CASE n > m
    <3>1. n - 1 >= m
      BY <1>1, <2>1, <2>2
    <3>2. /\ Over(read[n - 1]) /\ read[n - 1].events = read[m].events
          /\ read[n - 1].told = read[m].told
      BY <1>3, <3>1
    <3>3. /\ Over(read[n]) /\ read[n].events = read[n - 1].events
          /\ read[n].told = read[n - 1].told
      BY <1>1, <2>1, <3>2, OverReads
    <3>. QED  BY <2>1, <3>2, <3>3
  <2>3. CASE ~ n > m
    BY <1>1, <2>1, <2>3
  <2>. QED  BY <2>2, <2>3
<1>4. \A n \in 0 .. N : n \in Same
  <2>. HIDE DEF Same
  <2>. QED  BY <1>1, <1>2, <1>3, RangeInduction
<1>5. N \in Same /\ N >= m
  BY <1>1, <1>4
<1>. QED  BY <1>5 DEF read, N

-----------------------------------------------------------------------------
(* The reader follows the reading in one piece. *)

Run(n) == ReadInOnePiece(doc.tokens)[n]

\* What the reader knows, in the terms of XtfDocument ...
Known == [open |-> tags, begun |-> state # "BeforeRoot", version |-> detected,
          dialect |-> dialect, events |-> emitted, told |-> Diagnosed, stopped |-> FALSE]

\* ... and what it should know: between the two callbacks of an empty-element tag its element
\* is open.
Expected == IF endPending THEN Opened(Run(cursor - 1), doc.tokens[cursor].element)
                          ELSE Run(cursor)

HalfRead ==
  /\ cursor > 0 /\ doc.tokens[cursor].tag = "empty"
  /\ ~Run(cursor - 1).stopped /\ ~Misplaced(Run(cursor - 1), doc.tokens[cursor])

\* As long as nothing has failed, the reader knows what it should, and its own records of the
\* place in the document agree with Expat's.
Following ==
  /\ state # "Failed" /\ ~callbackError =>
       /\ Known = Expected
       /\ endPending => HalfRead
       /\ depth = Len(tags)
       /\ state = "InRoot" <=> tags # <<>>
  /\ failed => state = "Failed"
  /\ IsPrefix(emitted, doc.events)
  /\ IsPrefix(CertainReports, doc.diagnoses)

\* What the assumptions on the documents say of this one.
LEMMA DocumentRead ==
  ASSUME Typed
  PROVE  /\ doc.tokens \in Seq(Token) /\ cursor \in Nat
         /\ doc.events \in Seq(Event) /\ doc.diagnoses \in Seq(Report)
         /\ cursor <= Len(doc.tokens) /\ Len(doc.tokens) \in Nat
         /\ Run(0) = NothingRead
         /\ \A n \in 1 .. Len(doc.tokens) : /\ Run(n) = Read(Run(n - 1), doc.tokens[n])
                                            /\ doc.tokens[n] \in Token
         /\ \A n \in 0 .. Len(doc.tokens) : /\ Knows(Run(n))
                                            /\ IsPrefix(Run(n).events, doc.events)
                                            /\ IsPrefix(Run(n).told, doc.diagnoses)
         /\ StandsFor(doc.tokens, doc.events, doc.valid, doc.diagnoses)
<1>1. /\ doc.tokens \in Seq(Token) /\ cursor \in Nat
      /\ doc.events \in Seq(Event) /\ doc.diagnoses \in Seq(Report)
      /\ cursor <= Len(doc.tokens) /\ Len(doc.tokens) \in Nat
      /\ StandsFor(doc.tokens, doc.events, doc.valid, doc.diagnoses)
  BY DocumentsAssumption, MeaningAssumption DEF Typed, TypeOK, ExpatTypeOK
<1>2. doc.events = Run(Len(doc.tokens)).events /\ doc.diagnoses = Run(Len(doc.tokens)).told
  BY <1>1 DEF StandsFor, Run
<1>3. /\ Run(0) = NothingRead
      /\ \A n \in 1 .. Len(doc.tokens) : Run(n) = Read(Run(n - 1), doc.tokens[n])
  BY <1>1, OnePieceUnfolds DEF Run
<1>4. \A n \in 0 .. Len(doc.tokens) : /\ Knows(Run(n))
                                      /\ Extends(Run(Len(doc.tokens)), Run(n))
  BY <1>1, OnePieceGrows DEF Run
<1>5. \A n \in 1 .. Len(doc.tokens) : doc.tokens[n] \in Token
  BY <1>1
<1>. QED  BY <1>1, <1>2, <1>3, <1>4, <1>5 DEF Extends

\* Half an empty-element tag adds a part of the document's events and diagnostics.
LEMMA OpenedPrefix ==
  ASSUME Typed, NEW n \in 1 .. Len(doc.tokens), NEW t, t = doc.tokens[n],
         NEW w, w = Run(n - 1), ~w.stopped, ~Misplaced(w, t), t.tag \in {"start", "empty"}
  PROVE  /\ IsPrefix(Opened(w, t.element).events, doc.events)
         /\ IsPrefix(Opened(w, t.element).told, doc.diagnoses)
         /\ t.tag = "start" => Run(n) = Opened(w, t.element)
         /\ t.tag = "empty" /\ ~Opened(w, t.element).stopped =>
              Run(n) = Closed(Opened(w, t.element))
<1>. DEFINE v == Opened(w, t.element)
<1>1. /\ Knows(w) /\ t.element \in Element /\ Run(n) = Read(w, t)
      /\ Knows(Run(n)) /\ IsPrefix(Run(n).events, doc.events) /\ doc.events \in Seq(Event)
      /\ IsPrefix(Run(n).told, doc.diagnoses) /\ doc.diagnoses \in Seq(Report)
  BY DocumentRead, SMTT(30) DEF Token
<1>2. /\ t.tag = "start" => Run(n) = v
      /\ t.tag = "empty" => Run(n) = IF v.stopped THEN v ELSE Closed(v)
  BY <1>1 DEF Read
<1>3. Knows(v) /\ (~v.stopped => v.open # <<>>)
  <2>1. /\ Knows(v)
        /\ v.stopped \/ v.open = <<t.element>> \o w.open \/ v.open = <<t.element>>
    BY <1>1, OpenedKnows
  <2>2. w.open \in Seq(Element)
    BY <1>1 DEF Knows, Knowledge
  <2>3. <<t.element>> # <<>> /\ <<t.element>> \o w.open # <<>>
    BY <1>1, <2>2
  <2>. HIDE DEF v
  <2>. QED  BY <2>1, <2>3
<1>. HIDE DEF v
<1>4. CASE t.tag = "start" \/ v.stopped
  BY <1>1, <1>2, <1>4 DEF v
<1>5. CASE t.tag = "empty" /\ ~v.stopped
  <2>1. Run(n) = Closed(v) /\ Extends(Closed(v), v)
    BY <1>2, <1>3, <1>5, ClosedKnows
  <2>2. /\ v.events \in Seq(Event) /\ Run(n).events \in Seq(Event)
        /\ v.told \in Seq(Report) /\ Run(n).told \in Seq(Report)
    BY <1>1, <1>3 DEF Knows, Knowledge
  <2>3. IsPrefix(v.events, doc.events)
    BY <1>1, <2>1, <2>2, PrefixTransitive DEF Extends
  <2>4. IsPrefix(v.told, doc.diagnoses)
    BY <1>1, <2>1, <2>2, PrefixTransitive DEF Extends
  <2>. QED  BY <1>5, <2>1, <2>3, <2>4 DEF v
<1>. QED  BY <1>4, <1>5

\* A callback that fails has reported a part of what it would have.
Leaves(told) ==
  \E s \in {Diagnosed, told}, left \in Seq(Report) : Len(left) <= 1 /\ Diagnosed' = s \o left

\* What is added comes behind all that there was, handed out or not.
LEMMA AddDiagnosed ==
  ASSUME taken \in Seq(Report), diagnostics \in Seq(Report), NEW reports \in Seq(Report),
         Add(reports)
  PROVE  Diagnosed' = Diagnosed \o reports
<1>1. (taken \o diagnostics) \o reports = taken \o (diagnostics \o reports)
  BY ConcatAssociative
<1>. QED  BY <1>1 DEF Add, Diagnosed

\* A callback that a dialect has answered with r either fails or takes what the reading in one
\* piece takes.
LEMMA CallbackTakes ==
  ASSUME Typed, NEW r, NEW s \in {"InRoot", "AfterRoot"}, NEW k, NEW open, NEW v,
         state = "InRoot", ~callbackError, Callback(r, s, k), tags' = open,
         v = Took(Known, r, open), ResultOK(dialect, r)
  PROVE  \/ callbackError' /\ emitted' \in {emitted, v.events} /\ Leaves(v.told)
         \/ ~callbackError' /\ Known' = v /\ state' = s /\ depth' = k
<1>0. taken \in Seq(Report) /\ diagnostics \in Seq(Report) /\ r.diagnostics \in Seq(Report)
  BY DEF Typed, TypeOK, CoordinatorTypeOK, ResultOK, Result
<1>1. CASE CallbackReturns(r, s, k)
  <2>1. /\ ~r.thrown /\ state' = s /\ depth' = k /\ dialect' = r.dialect
        /\ detected' = detected /\ ~callbackError' /\ Add(r.diagnostics)
    BY <1>1 DEF CallbackReturns, parserVars
  <2>5. Diagnosed' = Diagnosed \o r.diagnostics
    BY <1>0, <2>1, AddDiagnosed
  <2>2. emitted' = IF r.emit = <<>> THEN emitted ELSE Append(emitted, Head(r.emit))
    BY <1>1 DEF CallbackReturns, Enqueue, queueVars
  <2>3. Known' = [open |-> open, begun |-> TRUE, version |-> detected, dialect |-> r.dialect,
                  events |-> emitted', told |-> Diagnosed \o r.diagnostics, stopped |-> FALSE]
    BY <2>1, <2>5 DEF Known
  <2>4. v = [open |-> open, begun |-> TRUE, version |-> detected, dialect |-> r.dialect,
             events |-> emitted', told |-> Diagnosed \o r.diagnostics, stopped |-> FALSE]
    BY <2>1, <2>2 DEF Took, Known
  <2>. QED  BY <2>1, <2>3, <2>4
<1>2. CASE CallbackThrows(r)
  <2>1. callbackError'
    BY <1>2 DEF CallbackThrows, CallbackFails
  <2>3. CASE r.thrown
    <3>1. PICK left \in PartsOf(r.diagnostics) : Add(left) /\ UNCHANGED queueVars
      BY <1>2, <2>3, Zenon DEF CallbackThrows
    <3>2. left \in Seq(Report) /\ Len(left) <= 1
      BY <1>0, <3>1, PartsType
    <3>3. Leaves(v.told)
      BY <1>0, <3>1, <3>2, AddDiagnosed DEF Leaves
    <3>. QED  BY <2>1, <3>1, <3>3 DEF queueVars
  <2>4. CASE ~r.thrown
    <3>1. Add(r.diagnostics)
      BY <1>2, <2>4 DEF CallbackThrows
    <3>2. v.told = Diagnosed \o r.diagnostics
      BY <2>4 DEF Took, Known
    <3>3. Leaves(v.told)
      <4>1. Diagnosed' = v.told /\ v.told \in Seq(Report) /\ <<>> \in Seq(Report) /\ Len(<<>>) <= 1
        <5>1. Diagnosed' = v.told
          BY <1>0, <3>1, <3>2, AddDiagnosed
        <5>2. v.told \in Seq(Report)
          BY <1>0, <3>2 DEF Diagnosed
        <5>. QED  BY <5>1, <5>2
      <4>2. Diagnosed' = v.told \o <<>>
        BY <4>1, ConcatEmptySeq
      <4>. QED  BY <4>1, <4>2 DEF Leaves
    <3>4. CASE UNCHANGED queueVars
      BY <2>1, <3>3, <3>4 DEF queueVars
    <3>5. CASE r.emit # <<>> /\ Enqueue(Head(r.emit))
      <4>1. v.events = Append(emitted, Head(r.emit)) /\ emitted' = Append(emitted, Head(r.emit))
        BY <2>4, <3>5 DEF Took, Known, Enqueue
      <4>. QED  BY <2>1, <3>3, <4>1
    <3>. QED  BY <1>2, <2>4, <3>4, <3>5 DEF CallbackThrows
  <2>. QED  BY <2>3, <2>4
<1>. QED  BY <1>1, <1>2 DEF Callback

\* What it leaves of the diagnostics is a part of the document's, but for the last.
LEMMA LeavesPrefix ==
  ASSUME Typed, callbackError', NEW told \in Seq(Report), Leaves(told),
         IsPrefix(Diagnosed, doc.diagnoses), IsPrefix(told, doc.diagnoses), doc' = doc
  PROVE  IsPrefix(CertainReports', doc'.diagnoses)
<1>1. Diagnosed \in Seq(Report) /\ doc.diagnoses \in Seq(Report)
  BY DocumentRead DEF Typed, TypeOK, CoordinatorTypeOK, Diagnosed
<1>2. PICK s \in {Diagnosed, told}, left \in Seq(Report) :
        Len(left) <= 1 /\ Diagnosed' = s \o left
  BY DEF Leaves
<1>3. s \in Seq(Report) /\ IsPrefix(s, doc.diagnoses)
  BY <1>1, <1>2
<1>4. CertainReports' = SubSeq(s \o left, 1, Len(s \o left) - 1)
  BY <1>2 DEF CertainReports
<1>5. CASE left = <<>>
  <2>1. s \o left = s
    BY <1>3, <1>5, ConcatEmptySeq
  <2>. QED  BY <1>1, <1>3, <1>4, <2>1, FrontPrefix, PrefixTransitive
<1>6. CASE left # <<>>
  <2>1. Len(s \o left) = Len(s) + 1 /\ Len(s) \in Nat /\ s \o left \in Seq(Report)
        /\ \A i \in 1 .. Len(s) : (s \o left)[i] = s[i]
    BY <1>2, <1>3, <1>6
  <2>2. SubSeq(s \o left, 1, Len(s)) = s
    BY <1>3, <2>1
  <2>3. Len(s \o left) - 1 = Len(s)
    BY <2>1
  <2>4. CertainReports' = s
    BY <1>4, <2>2, <2>3
  <2>. QED  BY <1>3, <2>4
<1>. QED  BY <1>5, <1>6

\* A callback that fails leaves no more than the document's events and diagnostics.
LEMMA FailedFollows ==
  ASSUME callbackError', failed' => state' = "Failed", IsPrefix(emitted', doc'.events),
         IsPrefix(CertainReports', doc'.diagnoses)
  PROVE  Following'
  BY DEF Following

\* A callback that fails before it reports.
LEMMA FailedSilently ==
  ASSUME Typed, callbackError', IsPrefix(CertainReports, doc.diagnoses),
         UNCHANGED <<doc, taken, diagnostics>>
  PROVE  IsPrefix(CertainReports', doc'.diagnoses)
<1>1. Diagnosed' = Diagnosed /\ Diagnosed \in Seq(Report) /\ doc.diagnoses \in Seq(Report)
  BY DocumentRead DEF Typed, TypeOK, CoordinatorTypeOK, Diagnosed
<1>2. CertainReports' = SubSeq(Diagnosed, 1, Len(Diagnosed) - 1)
  BY <1>1 DEF CertainReports
<1>. QED  BY <1>1, <1>2, FrontPrefix, PrefixTransitive DEF CertainReports

\* The token after those that are read.
LEMMA NextTokenRead ==
  ASSUME Typed, Ready
  PROVE  /\ cursor + 1 \in 1 .. Len(doc.tokens) /\ NextToken = doc.tokens[cursor + 1]
         /\ NextToken \in Token /\ (cursor + 1) - 1 = cursor
<1>1. /\ doc.tokens \in Seq(Token) /\ cursor \in Nat /\ Len(doc.tokens) \in Nat
      /\ \A n \in 1 .. Len(doc.tokens) : doc.tokens[n] \in Token
  BY DocumentRead
<1>2. cursor + 1 \in 1 .. Len(doc.tokens)
  BY <1>1 DEF Ready, CompleteToken
<1>. QED  BY <1>1, <1>2 DEF NextToken

LEMMA StartFollows ==
  ASSUME Typed, Following, StartElement
  PROVE  Following'
<1>. DEFINE e == NextToken.element
            w == Run(cursor)
            v == Opened(w, e)
<1>1. /\ pc = "Parse" /\ ~callbackError /\ ~failed /\ Ready /\ ~endPending
      /\ NextToken.tag \in {"start", "empty"} /\ ~IllFormed
      /\ cursor' = cursor + 1 /\ endPending' = (NextToken.tag = "empty")
      /\ tags' = <<e>> \o tags /\ doc' = doc
  BY DEF StartElement, InCallback, CallbackRuns, StartTagCallback
<1>2. /\ cursor + 1 \in 1 .. Len(doc.tokens) /\ NextToken = doc.tokens[cursor + 1]
      /\ e \in Element /\ (cursor + 1) - 1 = cursor
  BY <1>1, NextTokenRead DEF Token
<1>3. /\ state # "Failed" /\ Known = w /\ depth = Len(tags) /\ tags \in Seq(Element)
      /\ state = "InRoot" <=> tags # <<>>
      /\ emitted \in Seq(Event) /\ IsPrefix(emitted, doc.events)
      /\ CertainReports = Diagnosed /\ IsPrefix(CertainReports, doc.diagnoses)
  BY <1>1 DEF Following, Expected, Typed, TypeOK, ExpatTypeOK, QueueTypeOK, CertainReports
<1>4. CASE CallbackFailsAtOnce
  <2>1. callbackError' /\ failed' = failed /\ UNCHANGED <<emitted, taken, diagnostics>>
    BY <1>4 DEF CallbackFailsAtOnce, CallbackFails, queueVars, coordinatorVars
  <2>2. IsPrefix(CertainReports', doc'.diagnoses)
    BY <1>1, <1>3, <2>1, FailedSilently
  <2>. QED  BY <1>1, <1>3, <2>1, <2>2, FailedFollows
<1>5. CASE ~CallbackFailsAtOnce
  <2>1. /\ Len(tags) < MaxDepth
        /\ \/ state = "BeforeRoot" /\ RootAccepted(e) /\ RootElement(e)
           \/ state = "InRoot" /\ Callback(DialectStart(e), state, depth + 1)
    BY <1>5 DEF StartElement, RootElement
  <2>2. /\ ~w.stopped /\ w.open = tags /\ w.begun = (state # "BeforeRoot")
        /\ w.version = detected /\ w.dialect = dialect /\ ~(Len(w.open) >= MaxDepth)
    <3>1. Len(tags) \in Nat /\ ~(Len(tags) >= MaxDepth)
      BY <1>3, <2>1, OptionsAssumption
    <3>2. w = Known
      BY <1>3
    <3>. HIDE DEF w
    <3>. QED  BY <3>1, <3>2 DEF Known
  <2>3. ~Misplaced(w, NextToken)
    BY <1>1, <1>3, <2>1, <2>2 DEF Misplaced
  <2>4. /\ IsPrefix(v.events, doc.events) /\ IsPrefix(v.told, doc.diagnoses)
        /\ NextToken.tag = "start" => Run(cursor + 1) = v
    BY <1>1, <1>2, <2>2, <2>3, OpenedPrefix
  <2>5. Expected' = v /\ (endPending' => HalfRead')
    <3>1. /\ doc'.tokens = doc.tokens /\ Run(cursor)' = ReadInOnePiece(doc.tokens)[cursor + 1]
          /\ \A n : Run(n)' = Run(n)
      BY <1>1 DEF Run
    <3>2. cursor' - 1 = cursor /\ doc'.tokens[cursor'] = NextToken /\ cursor' > 0
      BY <1>1, <1>2
    <3>3. CASE NextToken.tag = "start"
      <4>1. Expected' = Run(cursor + 1) /\ ~endPending'
        BY <1>1, <3>1, <3>3 DEF Expected, Run
      <4>. QED  BY <2>4, <3>3, <4>1
    <3>4. CASE NextToken.tag = "empty"
      <4>1. ReadInOnePiece(doc'.tokens)[cursor' - 1] = w
        BY <3>1, <3>2 DEF Run
      <4>2. Expected' = v
        BY <1>1, <3>2, <3>4, <4>1 DEF Expected, Run
      <4>3. HalfRead'
        BY <2>2, <2>3, <3>2, <3>4, <4>1 DEF HalfRead, Run
      <4>. QED  BY <4>2, <4>3
    <3>. QED  BY <1>1, <3>3, <3>4
  <2>6. CASE state = "BeforeRoot" /\ RootAccepted(e) /\ RootElement(e)
    <3>1. /\ detected' = RootVersion(e) /\ dialect' = dialect /\ depth' = 1
          /\ state' = "InRoot" /\ UNCHANGED <<Diagnosed, emitted, failed, callbackError>>
      BY <2>6, <1>5 DEF RootElement, Typed, queueVars, parserVars, Diagnosed
    <3>2. tags = <<>> /\ tags' = <<e>>
      <4>1. tags = <<>>
        BY <1>3, <2>6
      <4>2. <<e>> \in Seq(Element) /\ <<e>> \o <<>> = <<e>>
        BY <1>2, ConcatEmptySeq
      <4>. QED  BY <1>1, <4>1, <4>2
    <3>3. v = [w EXCEPT !.open = <<e>>, !.begun = TRUE, !.version = RootVersion(e)]
      <4>1. ~(Len(w.open) >= MaxDepth) /\ ~w.begun
        BY <2>2, <2>6
      <4>. QED  BY <2>6, <4>1 DEF Opened, TookRoot
    <3>4. Known' = v
      <4>. HIDE DEF v, w
      <4>1. Known' = [open |-> <<e>>, begun |-> TRUE, version |-> RootVersion(e),
                      dialect |-> dialect, events |-> emitted, told |-> Diagnosed, stopped |-> FALSE]
        BY <3>1, <3>2 DEF Known
      <4>2. v = [Known EXCEPT !.open = <<e>>, !.begun = TRUE, !.version = RootVersion(e)]
        BY <1>3, <3>3
      <4>3. v = [open |-> <<e>>, begun |-> TRUE, version |-> RootVersion(e),
                 dialect |-> dialect, events |-> emitted, told |-> Diagnosed, stopped |-> FALSE]
        BY <4>2 DEF Known
      <4>. QED  BY <4>1, <4>3
    <3>5. Len(tags') = 1 /\ tags' # <<>>
      BY <3>2
    <3>6. /\ IsPrefix(emitted', doc'.events) /\ failed' = failed
          /\ IsPrefix(CertainReports', doc'.diagnoses)
      BY <1>1, <1>3, <3>1 DEF CertainReports
    <3>. QED  BY <1>1, <2>5, <3>1, <3>4, <3>5, <3>6 DEF Following
  <2>7. CASE state = "InRoot" /\ Callback(DialectStart(e), state, depth + 1)
    <3>. DEFINE r == DialectStart(e)
                open == <<e>> \o tags
    <3>1. v = Took(Known, r, open)
      <4>1. ~(Len(w.open) >= MaxDepth) /\ w.begun
        BY <2>2, <2>7
      <4>2. v = Took(w, OnStart(w.version, w.dialect, e), <<e>> \o w.open)
        BY <4>1 DEF Opened
      <4>. QED  BY <1>3, <2>2, <4>2 DEF DialectStart
    <3>2. /\ failed' = failed
          /\ \/ callbackError' /\ emitted' \in {emitted, v.events} /\ Leaves(v.told)
             \/ ~callbackError' /\ Known' = v /\ state' = state /\ depth' = depth + 1
      <4>. HIDE DEF v, r
      <4>1. failed' = failed
        BY <2>7 DEF Callback, CallbackReturns, CallbackThrows, CallbackFails, parserVars
      <4>2. /\ tags' = open /\ state \in {"InRoot", "AfterRoot"} /\ Callback(r, state, depth + 1)
            /\ ResultOK(dialect, r)
        BY <1>1, <1>2, <2>7, DialectResults DEF r, Typed
      <4>. QED  BY <1>1, <2>7, <3>1, <4>1, <4>2, CallbackTakes
    <3>3. CASE callbackError'
      <4>1. IsPrefix(emitted', doc'.events)
        <5>. HIDE DEF v
        <5>1. ~callbackError' \/ emitted' \in {emitted, v.events}
          BY <3>2
        <5>. QED  BY <1>1, <1>3, <2>4, <3>3, <5>1
      <4>2. Knows(v) /\ Leaves(v.told)
        <5>1. Knows(w)
          BY <1>2, DocumentRead
        <5>. HIDE DEF w
        <5>2. Knows(v)
          BY <1>2, <5>1, OpenedKnows
        <5>. HIDE DEF v
        <5>. QED  BY <3>2, <3>3, <5>2
      <4>3. IsPrefix(CertainReports', doc'.diagnoses)
        <5>. HIDE DEF v
        <5>1. v.told \in Seq(Report)
          BY <4>2 DEF Knows, Knowledge
        <5>. QED  BY <1>1, <1>3, <2>4, <3>3, <4>2, <5>1, LeavesPrefix
      <4>. QED  BY <1>1, <3>2, <3>3, <4>1, <4>3, FailedFollows
    <3>4. CASE ~callbackError'
      <4>1. Known' = v /\ state' = state /\ depth' = depth + 1
        <5>. HIDE DEF v
        <5>. QED  BY <3>2, <3>4
      <4>2. emitted' = v.events /\ Diagnosed' = v.told
        <5>. HIDE DEF v
        <5>. QED  BY <4>1 DEF Known
      <4>3. IsPrefix(emitted', doc'.events) /\ IsPrefix(CertainReports', doc'.diagnoses)
        BY <1>1, <1>3, <2>4, <3>4, <4>1, <4>2 DEF CertainReports
      <4>4. Len(tags') = depth' /\ tags' # <<>>
        BY <1>1, <1>2, <1>3, <4>1
      <4>. QED  BY <1>1, <2>5, <2>7, <3>2, <4>1, <4>3, <4>4 DEF Following
    <3>. QED  BY <3>3, <3>4
  <2>. QED  BY <2>1, <2>6, <2>7
<1>. QED  BY <1>4, <1>5

\* The end callback, whether of an end tag or of an empty-element tag, takes what closing the
\* innermost element takes.
LEMMA EndReads ==
  ASSUME Typed, Following, EndElement
  PROVE  /\ Run(cursor)' = Closed(Known) /\ Known.open # <<>>
         /\ doc' = doc /\ ~endPending' /\ tags' = Tail(tags)
         /\ cursor' \in 0 .. Len(doc.tokens)
<1>1. /\ pc = "Parse" /\ ~callbackError /\ state = "InRoot"
      /\ endPending \/ (Ready /\ NextToken.tag = "end" /\ ~IllFormed)
      /\ cursor' = IF endPending THEN cursor ELSE cursor + 1
      /\ ~endPending' /\ tags' = Tail(tags) /\ doc' = doc
  BY DEF EndElement, InCallback, CallbackRuns, EndTagCallback
<1>2. Known = Expected /\ (endPending => HalfRead) /\ tags # <<>> /\ Known.open = tags
  BY <1>1 DEF Following, Known
<1>3. Run(cursor)' = ReadInOnePiece(doc.tokens)[cursor']
  BY <1>1 DEF Run
<1>4. CASE endPending
  <2>. DEFINE t == doc.tokens[cursor]
              w == Run(cursor - 1)
  <2>1. /\ cursor \in 1 .. Len(doc.tokens) /\ t.tag = "empty" /\ ~w.stopped
        /\ ~Misplaced(w, t) /\ cursor' = cursor
    BY <1>1, <1>2, <1>4, DocumentRead DEF HalfRead
  <2>2. Known = Opened(w, t.element)
    BY <1>2, <1>4 DEF Expected
  <2>3. ~Known.stopped
    BY DEF Known
  <2>4. Run(cursor) = Closed(Known)
    <3>. HIDE DEF t, w
    <3>1. Run(cursor) = Closed(Opened(w, t.element))
      BY <2>1, <2>2, <2>3, OpenedPrefix DEF t, w
    <3>. QED  BY <2>2, <3>1
  <2>. QED  BY <1>1, <1>2, <1>3, <2>1, <2>4 DEF Run
<1>5. CASE ~endPending
  <2>1. /\ cursor + 1 \in 1 .. Len(doc.tokens) /\ NextToken = doc.tokens[cursor + 1]
        /\ (cursor + 1) - 1 = cursor
    BY <1>1, <1>5, NextTokenRead
  <2>2. Run(cursor + 1) = Read(Known, NextToken)
    <3>1. Run(cursor) = Known
      BY <1>2, <1>5 DEF Expected
    <3>. QED  BY <2>1, <3>1, DocumentRead
  <2>3. ~Known.stopped /\ ~Misplaced(Known, NextToken) /\ NextToken.tag = "end"
    BY <1>1, <1>2, <1>5 DEF Misplaced, IllFormed, Known
  <2>4. Run(cursor + 1) = Closed(Known)
    BY <2>2, <2>3 DEF Read
  <2>. QED  BY <1>1, <1>2, <1>3, <1>5, <2>1, <2>4 DEF Run
<1>. QED  BY <1>4, <1>5

LEMMA EndFollows ==
  ASSUME Typed, Following, EndElement
  PROVE  Following'
<1>. DEFINE v == Closed(Known)
            e == Head(tags)
<1>1. /\ pc = "Parse" /\ ~callbackError /\ ~failed /\ state = "InRoot"
      /\ \/ depth = 1 /\ Callback(DialectRootClosed(e), "AfterRoot", 0)
         \/ depth > 1 /\ Callback(DialectEnd(e), state, depth - 1)
  BY DEF EndElement, InCallback, CallbackRuns
<1>2. /\ Run(cursor)' = v /\ doc' = doc /\ ~endPending' /\ tags' = Tail(tags)
      /\ cursor' \in 0 .. Len(doc.tokens)
  BY EndReads
<1>3. /\ depth = Len(tags) /\ tags # <<>> /\ tags \in Seq(Element)
      /\ IsPrefix(emitted, doc.events)
      /\ CertainReports = Diagnosed /\ IsPrefix(CertainReports, doc.diagnoses)
  BY <1>1 DEF Following, Typed, TypeOK, ExpatTypeOK, CertainReports
<1>4. IsPrefix(v.events, doc.events) /\ IsPrefix(v.told, doc.diagnoses) /\ v.told \in Seq(Report)
  <2>1. ReadInOnePiece(doc.tokens)[cursor'] = v
    BY <1>2 DEF Run
  <2>2. Run(cursor') = v
    BY <2>1 DEF Run
  <2>. HIDE DEF v
  <2>. QED  BY <1>2, <2>2, DocumentRead DEF Knows, Knowledge
<1>5. PICK r, s, k :
        /\ s \in {"InRoot", "AfterRoot"} /\ Callback(r, s, k) /\ ResultOK(dialect, r)
        /\ v = Took(Known, r, tags') /\ k = Len(tags')
        /\ s = "InRoot" <=> tags' # <<>>
  <2>1. /\ Known.open = tags /\ Known.version = detected /\ Known.dialect = dialect
    BY DEF Known
  <2>2. v = Took(Known, IF depth = 1 THEN DialectRootClosed(e) ELSE DialectEnd(e), tags')
    BY <1>2, <1>3, <2>1 DEF Closed, DialectRootClosed, DialectEnd
  <2>3. /\ Len(tags') = depth - 1 /\ depth \in Nat /\ tags' \in Seq(Element)
        /\ tags' = <<>> <=> depth = 1
    <3>1. Tail(tags) \in Seq(Element) /\ Len(Tail(tags)) = Len(tags) - 1 /\ Len(tags) \in Nat
      BY <1>3, HeadTailProperties
    <3>2. Tail(tags) = <<>> <=> Len(Tail(tags)) = 0
      BY <3>1, EmptySeq
    <3>3. tags' = Tail(tags) /\ depth = Len(tags)
      BY <1>2, <1>3
    <3>. HIDE DEF v
    <3>. QED  BY <3>1, <3>2, <3>3
  <2>. DEFINE closed == DialectRootClosed(e)
              ended == DialectEnd(e)
  <2>4. ResultOK(dialect, closed) /\ ResultOK(dialect, ended)
    BY <1>3, DialectResults DEF Typed
  <2>. HIDE DEF v
  <2>5. CASE depth = 1
    <3>1. /\ Callback(closed, "AfterRoot", 0) /\ v = Took(Known, closed, tags')
          /\ 0 = Len(tags') /\ tags' = <<>>
      BY <1>1, <2>2, <2>3, <2>5
    <3>. HIDE DEF closed
    <3>. QED  BY <2>4, <3>1
  <2>6. CASE depth > 1
    <3>1. /\ Callback(ended, "InRoot", depth - 1) /\ v = Took(Known, ended, tags')
          /\ depth - 1 = Len(tags') /\ tags' # <<>>
      BY <1>1, <2>2, <2>3, <2>6
    <3>. HIDE DEF ended
    <3>. QED  BY <2>4, <3>1
  <2>. QED  BY <1>1, <2>5, <2>6
<1>. HIDE DEF v
<1>6. failed' = failed
  BY <1>5 DEF Callback, CallbackReturns, CallbackThrows, CallbackFails, parserVars
<1>7. \/ callbackError' /\ emitted' \in {emitted, v.events} /\ Leaves(v.told)
      \/ ~callbackError' /\ Known' = v /\ state' = s /\ depth' = k
  BY <1>1, <1>5, CallbackTakes
<1>8. CASE callbackError'
  <2>1. IsPrefix(emitted', doc'.events)
    BY <1>2, <1>3, <1>4, <1>7, <1>8
  <2>2. IsPrefix(CertainReports', doc'.diagnoses)
    BY <1>2, <1>3, <1>4, <1>7, <1>8, LeavesPrefix
  <2>. QED  BY <1>1, <1>6, <1>8, <2>1, <2>2, FailedFollows
<1>9. CASE ~callbackError'
  <2>1. Known' = v /\ state' = s /\ depth' = k
    BY <1>7, <1>9
  <2>2. emitted' = v.events /\ Diagnosed' = v.told
    BY <2>1 DEF Known
  <2>3. Expected' = v
    BY <1>2 DEF Expected
  <2>4. IsPrefix(emitted', doc'.events) /\ IsPrefix(CertainReports', doc'.diagnoses)
    BY <1>2, <1>4, <1>5, <1>9, <2>1, <2>2 DEF CertainReports
  <2>. QED  BY <1>1, <1>2, <1>5, <1>6, <2>1, <2>3, <2>4 DEF Following
<1>. QED  BY <1>8, <1>9

LEMMA TextFollows ==
  ASSUME Typed, Following, CharacterData
  PROVE  Following'
<1>. DEFINE v == Took(Known, DialectText, tags)
<1>1. /\ pc = "Parse" /\ ~callbackError /\ ~failed /\ Ready /\ ~endPending
      /\ NextToken.tag = "text" /\ ~IllFormed /\ state = "InRoot"
      /\ Callback(DialectText, state, depth)
      /\ cursor' = cursor + 1 /\ UNCHANGED <<doc, endPending, tags>>
  BY DEF CharacterData, InCallback, CallbackRuns, OtherCallback
<1>2. /\ cursor + 1 \in 1 .. Len(doc.tokens) /\ NextToken = doc.tokens[cursor + 1]
      /\ (cursor + 1) - 1 = cursor
  BY <1>1, NextTokenRead
<1>3. /\ Known = Run(cursor) /\ depth = Len(tags) /\ tags # <<>>
      /\ IsPrefix(emitted, doc.events)
      /\ CertainReports = Diagnosed /\ IsPrefix(CertainReports, doc.diagnoses)
  BY <1>1 DEF Following, Expected, CertainReports
<1>4. Run(cursor + 1) = v
  <2>1. Run(cursor + 1) = Read(Known, NextToken)
    BY <1>2, <1>3, DocumentRead
  <2>2. /\ ~Known.stopped /\ ~Misplaced(Known, NextToken) /\ Known.open = tags
        /\ OnText(Known.version, Known.dialect) = DialectText
    BY <1>1, <1>3 DEF Misplaced, Known, DialectText
  <2>. QED  BY <1>1, <2>1, <2>2 DEF Read
<1>5. IsPrefix(v.events, doc.events) /\ IsPrefix(v.told, doc.diagnoses) /\ v.told \in Seq(Report)
  <2>1. cursor + 1 \in 0 .. Len(doc.tokens)
    BY <1>2
  <2>. HIDE DEF v
  <2>. QED  BY <1>4, <2>1, DocumentRead DEF Knows, Knowledge
<1>6. Expected' = v
  <2>1. Expected' = Run(cursor + 1)
    BY <1>1 DEF Expected, Run
  <2>. QED  BY <1>4, <2>1
<1>7. failed' = failed
  BY <1>1 DEF Callback, CallbackReturns, CallbackThrows, CallbackFails, parserVars
<1>8. \/ callbackError' /\ emitted' \in {emitted, v.events} /\ Leaves(v.told)
      \/ ~callbackError' /\ Known' = v /\ state' = state /\ depth' = depth
  <2>. DEFINE r == DialectText
  <2>1. state \in {"InRoot", "AfterRoot"} /\ Callback(r, state, depth) /\ tags' = tags
        /\ v = Took(Known, r, tags) /\ ResultOK(dialect, r)
    BY <1>1, DialectResults DEF Typed
  <2>. HIDE DEF r, v
  <2>. QED  BY <1>1, <2>1, CallbackTakes
<1>. HIDE DEF v
<1>9. CASE callbackError'
  <2>1. IsPrefix(emitted', doc'.events)
    BY <1>1, <1>3, <1>5, <1>8, <1>9
  <2>2. IsPrefix(CertainReports', doc'.diagnoses)
    BY <1>1, <1>3, <1>5, <1>8, <1>9, LeavesPrefix
  <2>. QED  BY <1>1, <1>7, <1>9, <2>1, <2>2, FailedFollows
<1>10. CASE ~callbackError'
  <2>1. Known' = v /\ state' = state /\ depth' = depth
    BY <1>8, <1>10
  <2>2. emitted' = v.events /\ Diagnosed' = v.told
    BY <2>1 DEF Known
  <2>3. IsPrefix(emitted', doc'.events) /\ IsPrefix(CertainReports', doc'.diagnoses)
    BY <1>1, <1>5, <1>10, <2>1, <2>2 DEF CertainReports
  <2>. QED  BY <1>1, <1>3, <1>6, <1>7, <2>1, <2>3 DEF Following
<1>. QED  BY <1>9, <1>10

\* Steps that read nothing: they leave what is followed alone, or the reader fails.
LEMMA UnreadFollows ==
  ASSUME Typed, Following, UNCHANGED <<doc, emitted, taken, diagnostics>>,
         \/ state' = "Failed"
         \/ UNCHANGED <<cursor, endPending, tags, state, depth, detected, dialect, failed,
                        callbackError>>
  PROVE  Following'
<1>1. Diagnosed' = Diagnosed /\ Diagnosed \in Seq(Report) /\ doc.diagnoses \in Seq(Report)
  BY DocumentRead DEF Typed, TypeOK, CoordinatorTypeOK, Diagnosed
<1>2. CASE state' = "Failed"
  <2>1. CertainReports' = SubSeq(Diagnosed, 1, Len(Diagnosed) - 1)
    BY <1>1, <1>2 DEF CertainReports
  <2>2. IsPrefix(CertainReports', doc.diagnoses)
    BY <1>1, <2>1, FrontPrefix, PrefixTransitive DEF Following, CertainReports
  <2>. QED  BY <1>2, <2>2 DEF Following
<1>3. CASE UNCHANGED <<cursor, endPending, tags, state, depth, detected, dialect, failed,
                       callbackError>>
  <2>1. Known' = Known /\ Expected' = Expected /\ HalfRead' = HalfRead
        /\ CertainReports' = CertainReports
    BY <1>1, <1>3 DEF Known, Expected, HalfRead, Run, CertainReports
  <2>. QED  BY <1>3, <2>1 DEF Following
<1>. QED  BY <1>2, <1>3

\* The caller takes what is reported.
LEMMA TakeFollows ==
  ASSUME Typed, Following, TakeDiagnostics
  PROVE  Following'
<1>1. /\ taken \in Seq(Report) /\ diagnostics \in Seq(Report)
      /\ taken' = taken \o diagnostics /\ diagnostics' = <<>>
      /\ UNCHANGED <<doc, emitted, cursor, endPending, tags, state, depth, detected, dialect,
                     failed, callbackError>>
  BY DEF TakeDiagnostics, Typed, TypeOK, CoordinatorTypeOK, queueVars, parserVars, expatVars
<1>2. Diagnosed' = Diagnosed
  BY <1>1 DEF Diagnosed
<1>3. Known' = Known /\ Expected' = Expected /\ HalfRead' = HalfRead
      /\ CertainReports' = CertainReports
  BY <1>1, <1>2 DEF Known, Expected, HalfRead, Run, CertainReports
<1>. QED  BY <1>1, <1>3 DEF Following

LEMMA FollowingStep ==
  ASSUME Typed, Following, [Next]_vars
  PROVE  Following'
<1>1. CASE StartElement \/ EndElement \/ CharacterData
  BY <1>1, StartFollows, EndFollows, TextFollows
<1>2. CASE Doctype
  <2>1. /\ callbackError' /\ UNCHANGED <<doc, taken, diagnostics, emitted, failed, state>>
        /\ failed => state = "Failed"
    BY <1>2 DEF Doctype, CallbackFailsAtOnce, CallbackFails, OtherCallback, Following, queueVars,
       coordinatorVars
  <2>. QED  BY <2>1, FailedSilently, FailedFollows DEF Following
<1>3. CASE SkippedEndElement
  <2>1. callbackError
    BY <1>3 DEF SkippedEndElement, CallbackRuns, Following, Typed
  <2>2. /\ callbackError' /\ UNCHANGED <<doc, taken, diagnostics, emitted, failed, state>>
        /\ failed => state = "Failed"
    BY <1>3, <2>1 DEF SkippedEndElement, EndTagCallback, Following, queueVars, coordinatorVars,
       parserVars
  <2>. QED  BY <2>2, FailedSilently, FailedFollows DEF Following
<1>4. CASE Malformed
  BY <1>4, UnreadFollows DEF Malformed, queueVars, coordinatorVars, parserVars
<1>5. CASE (\E size \in Chunks : FeedAccepted(size) \/ FeedOverLimit(size))
             \/ FeedOrFinishRejected \/ FinishAccepted \/ NextAccepted \/ NextRejected
  BY <1>5, UnreadFollows DEF FeedAccepted, FeedOverLimit, FeedOrFinishRejected, FinishAccepted,
     NextAccepted, NextRejected, Refuse, queueVars, coordinatorVars, parserVars, expatVars
<1>11. CASE TakeDiagnostics
  BY <1>11, TakeFollows
<1>6. CASE Pump
  <2>1. CASE PumpResumes \/ PumpFinishes
    BY <2>1, UnreadFollows DEF PumpResumes, PumpFinishes, BeginResume, BeginFinish,
       XML_ParseBuffer, XML_ResumeParser, queueVars, coordinatorVars
  <2>2. CASE PumpFeedsChunk
    BY <2>2, UnreadFollows DEF PumpFeedsChunk, BeginFeed, XML_ParseBuffer, queueVars,
       coordinatorVars, parserVars, expatVars
  <2>3. CASE PumpSkipsResume \/ PumpDone
    BY <2>3, UnreadFollows DEF PumpSkipsResume, PumpDone, queueVars, coordinatorVars,
       parserVars, expatVars
  <2>4. CASE PumpResumeFails
    BY <2>4, UnreadFollows DEF PumpResumeFails, PumpFails, queueVars, expatVars
  <2>. QED  BY <1>6, <2>1, <2>2, <2>3, <2>4 DEF Pump
<1>7. CASE ParserReturns
  BY <1>7, UnreadFollows DEF ParserReturns, ParseSucceeds, queueVars, coordinatorVars
<1>8. CASE ParserReturnsEarly \/ ParserThrows
  BY <1>8, UnreadFollows DEF ParserReturnsEarly, ParserThrows, ParseSucceeds, ParseFails,
     PumpFails, queueVars, expatVars
<1>9. CASE Return
  BY <1>9, UnreadFollows DEF Return, ReturnOk, ReturnEvent, ReturnNoEvent, Answer,
     coordinatorVars, parserVars, expatVars
<1>10. CASE UNCHANGED vars
  BY <1>10, UnreadFollows DEF vars, queueVars, coordinatorVars, parserVars, expatVars
<1>. QED
  BY <1>1, <1>2, <1>3, <1>4, <1>5, <1>6, <1>7, <1>8, <1>9, <1>10, <1>11 DEF Next, Feed, Parse

LEMMA FollowingInit ==
  ASSUME Init
  PROVE  Following
<1>1. /\ doc \in Documents /\ endPending = FALSE /\ cursor = 0 /\ tags = <<>>
      /\ state = "BeforeRoot" /\ depth = 0 /\ detected = "None" /\ dialect = NewDialect
      /\ emitted = <<>> /\ Diagnosed = <<>> /\ CertainReports = <<>> /\ failed = FALSE
  BY DEF Init, ExpatInit, ParserInit, Diagnosed, CertainReports
<1>2. Run(0) = NothingRead /\ IsPrefix(Run(0).events, doc.events)
      /\ IsPrefix(Run(0).told, doc.diagnoses)
  BY InitTyped, DocumentRead
<1>3. Known = NothingRead
  BY <1>1 DEF Known, NothingRead
<1>4. Expected = NothingRead /\ NothingRead.events = <<>> /\ NothingRead.told = <<>>
  BY <1>1, <1>2 DEF Expected, NothingRead
<1>5. Len(tags) = 0
  BY <1>1
<1>. QED  BY <1>1, <1>2, <1>3, <1>4, <1>5 DEF Following

-----------------------------------------------------------------------------
(* Every byte fed is in the parser or waits in a piece. *)

LEMMA ProductOrder ==
  ASSUME NEW a \in Nat, NEW b \in Nat, NEW c \in Nat, a <= b
  PROVE  a * c <= b * c
<1>1. PICK d \in Nat : b = a + d
  <2>1. b - a \in Nat /\ b = a + (b - a)
    OBVIOUS
  <2>. QED  BY <2>1
<1>2. (a + d) * c = a * c + d * c /\ a * c \in Nat /\ d * c \in Nat
  OBVIOUS
<1>. QED  BY <1>1, <1>2

LEMMA DivMod ==
  ASSUME NEW a \in Nat, NEW b \in Nat \ {0}
  PROVE  /\ a \div b \in Nat /\ a % b \in Nat /\ a % b < b
         /\ a = (a \div b) * b + (a % b)
<1>1. a \div b \in Nat /\ a % b \in Nat /\ a % b < b
  OBVIOUS
<1>2. a = b * (a \div b) + (a % b)
  OBVIOUS
<1>3. b * (a \div b) = (a \div b) * b
  BY <1>1
<1>. QED  BY <1>1, <1>2, <1>3

\* The quotient is the only multiple that leaves less than the divisor.
LEMMA Quotient ==
  ASSUME NEW a \in Nat, NEW b \in Nat \ {0}, NEW j \in Nat, j * b <= a, a < j * b + b
  PROVE  a \div b = j
<1>. DEFINE q == a \div b
            m == a % b
<1>1. q \in Nat /\ m \in Nat /\ m < b /\ a = q * b + m
  BY DivMod
<1>2. q * b \in Nat /\ j * b \in Nat
  BY <1>1
<1>. HIDE DEF q, m
<1>3. ~(q < j)
  <2>1. SUFFICES ASSUME q + 1 <= j  PROVE FALSE
    BY <1>1
  <2>2. (q + 1) * b <= j * b /\ (q + 1) * b = q * b + b
    BY <1>1, <2>1, ProductOrder
  <2>. QED  BY <1>1, <1>2, <2>2
<1>4. ~(j < q)
  <2>1. SUFFICES ASSUME j + 1 <= q  PROVE FALSE
    BY <1>1
  <2>2. (j + 1) * b <= q * b /\ (j + 1) * b = j * b + b
    BY <1>1, <2>1, ProductOrder
  <2>. QED  BY <1>1, <1>2, <2>2
<1>5. q = j
  BY <1>1, <1>3, <1>4
<1>. QED  BY <1>5, Zenon DEF q

LEMMA Remainder ==
  ASSUME NEW a \in Nat, NEW b \in Nat \ {0}, NEW j \in Nat, j * b <= a, a < j * b + b
  PROVE  a = j * b + (a % b)
<1>1. a \div b = j /\ a = (a \div b) * b + (a % b)
  BY Quotient, DivMod
<1>. QED  BY <1>1, Zenon

\* The pieces of a chunk add up to it.
LEMMA PiecesAddUp ==
  ASSUME NEW size \in Nat
  PROVE  \E g \in [0 .. Len(Pieces(size)) -> Nat] :
           /\ g[0] = 0 /\ g[Len(Pieces(size))] = size
           /\ \A i \in 1 .. Len(Pieces(size)) : g[i] = g[i - 1] + Pieces(size)[i]
<1>. DEFINE Q == QueuedInputChunkSize
            count == IF size = 0 THEN 1 ELSE (size + Q - 1) \div Q
            piece(i) == IF i * Q <= size THEN Q ELSE size % Q
            g == [i \in 0 .. count |-> IF i * Q <= size THEN i * Q ELSE size]
<1>1. Q \in Nat \ {0}
  BY LimitsAssumption
<1>2. count \in Nat /\ count * Q <= size + Q /\ size <= count * Q
  <2>1. CASE size = 0
    <3>1. count = 1 /\ 1 * Q = Q
      BY <1>1, <2>1
    <3>. HIDE DEF count
    <3>2. count \in Nat
      BY <3>1
    <3>3. count * Q = Q
      BY <3>1
    <3>. QED  BY <1>1, <2>1, <3>2, <3>3
  <2>2. CASE size # 0
    <3>. DEFINE a == size + Q - 1
                q == a \div Q
    <3>1. a \in Nat /\ a = size + Q - 1
      BY <1>1
    <3>2. count = q
      BY <2>2
    <3>. HIDE DEF a, count
    <3>3. q \in Nat /\ a % Q \in Nat /\ a % Q < Q /\ a = q * Q + (a % Q)
      BY <1>1, <3>1, DivMod
    <3>. HIDE DEF q
    <3>4. q * Q \in Nat
      BY <1>1, <3>3
    <3>5. q * Q <= size + Q /\ size <= q * Q
      <4>. DEFINE p == q * Q
                  m == a % Q
      <4>1. p \in Nat /\ m \in Nat /\ m < Q /\ a = p + m
        BY <3>3, <3>4
      <4>. HIDE DEF p, m
      <4>2. p <= size + Q /\ size <= p
        BY <1>1, <3>1, <4>1
      <4>. QED  BY <4>2 DEF p
    <3>. QED  BY <3>2, <3>3, <3>5
  <2>. QED  BY <2>1, <2>2
<1>3. Pieces(size) = [i \in 1 .. count |-> piece(i)]
  BY DEF Pieces
<1>. HIDE DEF count
<1>4. Len(Pieces(size)) = count /\ \A i \in 1 .. count : Pieces(size)[i] = piece(i)
  <2>1. \A i \in 1 .. count : piece(i) \in Nat
    BY <1>1
  <2>. HIDE DEF piece
  <2>2. [i \in 1 .. count |-> piece(i)] \in Seq(Nat)
    BY <1>2, <2>1
  <2>. QED  BY <1>2, <1>3, <2>2
<1>5. g \in [0 .. count -> Nat] /\ g[0] = 0 /\ g[count] = size
  <2>1. \A i \in 0 .. count : (IF i * Q <= size THEN i * Q ELSE size) \in Nat
    BY <1>1, <1>2
  <2>2. 0 * Q = 0 /\ 0 * Q <= size
    BY <1>1
  <2>3. (IF count * Q <= size THEN count * Q ELSE size) = size
    <3>1. count * Q \in Nat
      BY <1>1, <1>2
    <3>. QED  BY <1>2, <3>1
  <2>. QED  BY <1>2, <2>1, <2>2, <2>3
<1>6. ASSUME NEW i \in 1 .. count  PROVE g[i] = g[i - 1] + piece(i)
  <2>1. i \in Nat /\ i - 1 \in Nat /\ i - 1 \in 0 .. count /\ i \in 0 .. count
    BY <1>2
  <2>2. (i - 1) * Q + Q = i * Q /\ (i - 1) * Q \in Nat /\ i * Q \in Nat
    BY <1>1, <2>1
  <2>3. i * Q <= count * Q
    BY <1>1, <1>2, <2>1, ProductOrder
  <2>4. (i - 1) * Q <= size
    BY <1>1, <1>2, <2>1, <2>2, <2>3
  <2>5. g[i - 1] = (i - 1) * Q
    BY <2>1, <2>4
  <2>6. CASE i * Q <= size
    BY <1>1, <2>1, <2>2, <2>5, <2>6
  <2>7. CASE ~(i * Q <= size)
    <3>1. g[i] = size /\ piece(i) = size % Q
      BY <2>1, <2>7
    <3>2. size = (i - 1) * Q + (size % Q)
      <4>1. (i - 1) * Q <= size /\ size < (i - 1) * Q + Q
        BY <1>1, <2>1, <2>2, <2>4, <2>7
      <4>. QED  BY <1>1, <2>1, <4>1, Remainder
    <3>. HIDE DEF g, piece
    <3>3. (i - 1) * Q \in Nat /\ size % Q \in Nat
      BY <1>1, <2>1
    <3>. QED  BY <2>5, <3>1, <3>2, Zenon
  <2>. QED  BY <2>6, <2>7
<1>. HIDE DEF g, piece
<1>. QED  BY <1>4, <1>5, <1>6

\* Place i of f counts the bytes passed to Expat and those in the first i pieces.
Offsets(f) ==
  /\ f \in [0 .. Len(inputQueue) -> Nat]
  /\ f[0] = received /\ f[Len(inputQueue)] = totalFed
  /\ \A i \in 1 .. Len(inputQueue) : f[i] = f[i - 1] + inputQueue[i]

Buffered == \E f : Offsets(f)

LEMMA BufferedFeed ==
  ASSUME Typed, Buffered, NEW size \in Chunks, FeedAccepted(size)
  PROVE  Buffered'
<1>. DEFINE n == Len(inputQueue)
            new == Pieces(size)
            k == Len(new)
<1>1. /\ inputQueue' = inputQueue \o new /\ totalFed' = totalFed + size /\ received' = received
      /\ inputQueue \in Seq(Nat) /\ totalFed \in Nat
  BY DEF FeedAccepted, expatVars, Typed, TypeOK, ReaderTypeOK
<1>2. size \in Nat /\ new \in Seq(Nat)
  <2>1. DocBytes \in Nat
    BY DocumentsAssumption, TokenBytesAssumption DEF Typed, TypeOK, DocBytes
  <2>2. size \in Nat
    BY <2>1 DEF Chunks, Typed, TypeOK, ReaderTypeOK
  <2>. QED  BY <2>2, PiecesType
<1>3. PICK g \in [0 .. k -> Nat] :
        g[0] = 0 /\ g[k] = size /\ \A i \in 1 .. k : g[i] = g[i - 1] + new[i]
  BY <1>2, PiecesAddUp
<1>4. PICK f : Offsets(f)
  BY DEF Buffered
<1>. HIDE DEF new
<1>. DEFINE h == [i \in 0 .. n + k |-> IF i <= n THEN f[i] ELSE totalFed + g[i - n]]
<1>5. /\ n \in Nat /\ k \in Nat /\ Len(inputQueue') = n + k
      /\ \A i \in 1 .. n + k : inputQueue'[i] = IF i <= n THEN inputQueue[i] ELSE new[i - n]
  BY <1>1, <1>2
<1>6. /\ f \in [0 .. n -> Nat] /\ f[0] = received /\ f[n] = totalFed
      /\ \A i \in 1 .. n : f[i] = f[i - 1] + inputQueue[i]
  BY <1>4 DEF Offsets
<1>. HIDE DEF n, k
<1>7. h \in [0 .. n + k -> Nat]
  <2>1. ASSUME NEW i \in 0 .. n + k
        PROVE  (IF i <= n THEN f[i] ELSE totalFed + g[i - n]) \in Nat
    <3>1. CASE i <= n
      BY <1>5, <1>6, <3>1
    <3>2. CASE ~ i <= n
      <4>1. i - n \in 0 .. k
        BY <1>5, <3>2
      <4>. QED  BY <1>1, <1>3, <3>2, <4>1
    <3>. QED  BY <3>1, <3>2
  <2>. QED  BY <2>1
<1>8. h[0] = received /\ h[n + k] = totalFed + size
  <2>1. h[0] = f[0]
    BY <1>5
  <2>2. CASE k = 0
    BY <1>1, <1>2, <1>3, <1>5, <1>6, <2>1, <2>2
  <2>3. CASE k # 0
    <3>1. n + k \in 0 .. n + k /\ ~(n + k <= n) /\ (n + k) - n = k
      BY <1>5, <2>3
    <3>. QED  BY <1>3, <1>6, <2>1, <3>1
  <2>. QED  BY <2>2, <2>3
<1>9. ASSUME NEW i \in 1 .. n + k  PROVE h[i] = h[i - 1] + inputQueue'[i]
  <2>1. i \in 0 .. n + k /\ i - 1 \in 0 .. n + k
    BY <1>5
  <2>2. CASE i <= n
    <3>1. i \in 1 .. n /\ i - 1 <= n
      BY <1>5, <2>2
    <3>. QED  BY <1>5, <1>6, <2>1, <2>2, <3>1
  <2>3. CASE ~ i <= n
    <3>1. i - n \in 1 .. k /\ (i - n) - 1 = (i - 1) - n /\ (i - n) - 1 \in 0 .. k
      BY <1>5, <2>3
    <3>2. h[i] = totalFed + (g[(i - n) - 1] + new[i - n])
      BY <1>3, <2>1, <2>3, <3>1
    <3>3. inputQueue'[i] = new[i - n]
      BY <1>5, <2>3
    <3>4. h[i - 1] = totalFed + g[(i - n) - 1]
      <4>1. CASE i - 1 <= n
        <5>1. i - 1 = n /\ (i - n) - 1 = 0
          BY <1>5, <2>3, <4>1
        <5>. QED  BY <1>1, <1>3, <1>6, <2>1, <4>1, <5>1
      <4>2. CASE ~ i - 1 <= n
        BY <2>1, <3>1, <4>2
      <4>. QED  BY <4>1, <4>2
    <3>5. totalFed \in Nat /\ g[(i - n) - 1] \in Nat /\ new[i - n] \in Nat
      BY <1>1, <1>2, <1>3, <3>1, SMTT(30) DEF k
    <3>. HIDE DEF h
    <3>. QED  BY <3>2, <3>3, <3>4, <3>5
  <2>. QED  BY <2>2, <2>3
<1>. HIDE DEF h
<1>10. /\ h \in [0 .. Len(inputQueue') -> Nat] /\ h[0] = received'
       /\ h[Len(inputQueue')] = totalFed'
       /\ \A i \in 1 .. Len(inputQueue') : h[i] = h[i - 1] + inputQueue'[i]
  BY <1>1, <1>5, <1>7, <1>8, <1>9
<1>. QED  BY <1>10 DEF Buffered, Offsets

LEMMA BufferedPop ==
  ASSUME Typed, Buffered, PumpFeedsChunk
  PROVE  Buffered'
<1>. DEFINE n == Len(inputQueue)
<1>1. /\ inputQueue # <<>> /\ inputQueue \in Seq(Nat) /\ inputQueue' = Tail(inputQueue)
      /\ totalFed' = totalFed /\ received \in Nat
      /\ received' = received + Head(inputQueue)
  <2>1. inputQueue # <<>> /\ inputQueue \in Seq(Nat) /\ received \in Nat
    BY DEF PumpFeedsChunk, Typed, TypeOK, ReaderTypeOK, ExpatTypeOK
  <2>2. CASE Head(inputQueue) = 0 /\ UNCHANGED expatVars
    <3>1. received' = received
      BY <2>2 DEF expatVars
    <3>. QED  BY <2>1, <2>2, <3>1 DEF PumpFeedsChunk
  <2>3. CASE BeginFeed(Head(inputQueue))
    BY <2>1, <2>3 DEF PumpFeedsChunk, BeginFeed, XML_ParseBuffer
  <2>. QED  BY <2>2, <2>3 DEF PumpFeedsChunk
<1>2. PICK f : Offsets(f)
  BY DEF Buffered
<1>3. /\ n \in Nat /\ n > 0 /\ Len(inputQueue') = n - 1 /\ Head(inputQueue) = inputQueue[1]
      /\ \A i \in 1 .. n - 1 : inputQueue'[i] = inputQueue[i + 1]
  BY <1>1, HeadTailProperties
<1>4. /\ f \in [0 .. n -> Nat] /\ f[0] = received /\ f[n] = totalFed
      /\ \A i \in 1 .. n : f[i] = f[i - 1] + inputQueue[i]
  BY <1>2 DEF Offsets
<1>. HIDE DEF n
<1>. DEFINE h == [i \in 0 .. n - 1 |-> f[i + 1]]
<1>5. h \in [0 .. n - 1 -> Nat]
  BY <1>3, <1>4
<1>6. h[0] = received' /\ h[n - 1] = totalFed
  <2>1. 1 \in 1 .. n /\ 0 \in 0 .. n - 1 /\ n - 1 \in 0 .. n - 1 /\ (n - 1) + 1 = n /\ 0 + 1 = 1 /\ 1 - 1 = 0
    BY <1>3
  <2>2. f[1] = f[0] + inputQueue[1]
    BY <1>4, <2>1
  <2>. QED  BY <1>1, <1>3, <1>4, <2>1, <2>2
<1>7. ASSUME NEW i \in 1 .. n - 1  PROVE h[i] = h[i - 1] + inputQueue'[i]
  <2>1. i + 1 \in 1 .. n /\ i \in 0 .. n - 1 /\ i - 1 \in 0 .. n - 1 /\ (i + 1) - 1 = i /\ (i - 1) + 1 = i
    BY <1>3
  <2>2. f[i + 1] = f[i] + inputQueue[i + 1]
    BY <1>4, <2>1
  <2>. QED  BY <1>3, <2>1, <2>2
<1>. HIDE DEF h
<1>8. /\ h \in [0 .. Len(inputQueue') -> Nat] /\ h[0] = received'
      /\ h[Len(inputQueue')] = totalFed'
      /\ \A i \in 1 .. Len(inputQueue') : h[i] = h[i - 1] + inputQueue'[i]
  BY <1>1, <1>3, <1>5, <1>6, <1>7
<1>. QED  BY <1>8 DEF Buffered, Offsets

LEMMA BufferedStep ==
  ASSUME Typed, Buffered, [Next]_vars
  PROVE  Buffered'
<1>1. CASE UNCHANGED <<inputQueue, totalFed, received>>
  BY <1>1 DEF Buffered, Offsets
<1>2. CASE PumpFeedsChunk \/ \E size \in Chunks : FeedAccepted(size)
  BY <1>2, BufferedFeed, BufferedPop
<1>3. CASE (\E size \in Chunks : FeedOverLimit(size)) \/ FeedOrFinishRejected \/ FinishAccepted
             \/ NextAccepted \/ NextRejected \/ TakeDiagnostics
  BY <1>1, <1>3 DEF FeedOverLimit, FeedOrFinishRejected, FinishAccepted, NextAccepted,
     NextRejected, TakeDiagnostics, Refuse, readerVars, expatVars
<1>4. CASE PumpResumes \/ PumpResumeFails \/ PumpSkipsResume \/ PumpDone
  BY <1>1, <1>4 DEF PumpResumes, PumpResumeFails, PumpSkipsResume, PumpDone, PumpFails,
     BeginResume, XML_ResumeParser, readerVars, expatVars
<1>5. CASE PumpFinishes
  <2>1. received' = received + 0 /\ received \in Nat /\ UNCHANGED <<inputQueue, totalFed>>
    BY <1>5 DEF PumpFinishes, BeginFinish, XML_ParseBuffer, readerVars, Typed, TypeOK, ExpatTypeOK
  <2>2. received' = received
    BY <2>1
  <2>. QED  BY <1>1, <2>1, <2>2
<1>6. CASE InParser
  BY <1>1, <1>6 DEF InParser, StartElement, EndElement, SkippedEndElement, CharacterData,
     Doctype, Malformed, StartTagCallback, EndTagCallback, OtherCallback, unchangedInCallback,
     readerVars
<1>7. CASE ParserReturns \/ ParserReturnsEarly \/ ParserThrows
  BY <1>1, <1>7 DEF ParserReturns, ParserReturnsEarly, ParserThrows, ParseSucceeds, ParseFails,
     PumpFails, readerVars, expatVars
<1>8. CASE Return
  BY <1>1, <1>8 DEF Return, ReturnOk, ReturnEvent, ReturnNoEvent, Answer, readerVars, expatVars
<1>9. CASE UNCHANGED vars
  BY <1>1, <1>9 DEF vars, readerVars, expatVars
<1>. QED
  BY <1>2, <1>3, <1>4, <1>5, <1>6, <1>7, <1>8, <1>9 DEF Next, Feed, Pump, Parse, InParser

LEMMA BufferedInit ==
  ASSUME Init
  PROVE  Buffered
<1>. DEFINE f == [i \in 0 .. 0 |-> 0]
<1>1. Len(inputQueue) = 0 /\ received = 0 /\ totalFed = 0
  BY DEF Init, ExpatInit
<1>2. f \in [0 .. 0 -> Nat] /\ f[0] = 0
  OBVIOUS
<1>. HIDE DEF f
<1>3. Offsets(f)
  BY <1>1, <1>2 DEF Offsets
<1>. QED  BY <1>3 DEF Buffered

-----------------------------------------------------------------------------
(* The end *)

\* Once the final parse has succeeded, and unless Expat was suspended in it, every byte that
\* reached the parser is read; and next() answers End only then.
Complete ==
  /\ parseComplete => /\ ~endPending /\ ~callbackError /\ state \in {"AfterRoot", "Failed"}
                      /\ ~suspended => received = Consumed
  /\ reply = "End" => IsFinished /\ state # "Failed"

LEMMA ParseCompleteStep ==
  ASSUME Inductive, Complete, Inductive', [Next]_vars, parseComplete'
  PROVE  /\ ~endPending' /\ ~callbackError' /\ state' \in {"AfterRoot", "Failed"}
         /\ ~suspended' => received' = Consumed'
<1>1. parseComplete => pc # "Parse" /\ finished
  BY DEF Inductive, Pumped
<1>2. CASE UNCHANGED <<parseComplete, endPending, callbackError, suspended, received, cursor>>
             /\ state' \in {state, "Failed"}
  BY <1>2 DEF Complete, Consumed
<1>3. CASE (\E size \in Chunks : FeedAccepted(size) \/ FeedOverLimit(size))
             \/ FeedOrFinishRejected \/ FinishAccepted \/ NextAccepted \/ NextRejected
             \/ TakeDiagnostics
  BY <1>2, <1>3 DEF FeedAccepted, FeedOverLimit, FeedOrFinishRejected, FinishAccepted,
     NextAccepted, NextRejected, TakeDiagnostics, Refuse, coordinatorVars, readerVars,
     parserVars, expatVars
<1>4. CASE Pump
  <2>1. ~PumpResumes /\ ~PumpFinishes
    BY <1>1 DEF PumpResumes, BeginResume, ResumeRefused, readerVars, PumpFinishes, MayFinish
  <2>2. CASE PumpFeedsChunk
    <3>1. UNCHANGED <<parserVars, expatVars>> /\ parseComplete' = parseComplete
      BY <1>1, <2>2 DEF PumpFeedsChunk, BeginFeed, FeedRefused
    <3>. QED  BY <1>2, <2>2, <3>1 DEF PumpFeedsChunk, parserVars, expatVars, coordinatorVars
  <2>3. CASE PumpSkipsResume \/ PumpDone
    BY <1>2, <2>3 DEF PumpSkipsResume, PumpDone, coordinatorVars, readerVars, parserVars, expatVars
  <2>4. CASE PumpResumeFails
    BY <1>2, <2>4 DEF PumpResumeFails, PumpFails, readerVars, parserVars, expatVars
  <2>. QED  BY <1>4, <2>1, <2>2, <2>3, <2>4 DEF Pump
<1>5. CASE ParserReturns
  <2>1. /\ finalBuffer /\ TransferComplete /\ ParseSucceeds /\ UNCHANGED coordinatorVars
    BY <1>1, <1>5 DEF ParserReturns
  <2>2. /\ ~endPending' /\ ~callbackError' /\ state' = "AfterRoot"
        /\ UNCHANGED <<received, cursor>>
    BY <2>1 DEF TransferComplete, ParseSucceeds, ParseReturns, coordinatorVars
  <2>3. ASSUME ~suspended'  PROVE received' = Consumed'
    BY <2>1, <2>2, <2>3 DEF ParseSucceeds, Truncated, Consumed
  <2>. QED  BY <2>2, <2>3
<1>6. ~ParserReturnsEarly /\ ~ParserThrows
  BY <1>1 DEF ParserReturnsEarly, ParserThrows, PumpFails, readerVars
<1>7. ~InParser
  BY <1>1 DEF InParser, StartElement, EndElement, SkippedEndElement, CharacterData, Doctype,
     Malformed, InCallback, unchangedInCallback, readerVars
<1>8. CASE Return
  BY <1>2, <1>8 DEF Return, ReturnOk, ReturnEvent, ReturnNoEvent, Answer, coordinatorVars,
     readerVars, parserVars, expatVars
<1>9. CASE UNCHANGED vars
  BY <1>2, <1>9 DEF vars, coordinatorVars, readerVars, parserVars, expatVars
<1>. QED
  BY <1>3, <1>4, <1>5, <1>6, <1>7, <1>8, <1>9 DEF Next, Feed, Parse, InParser

LEMMA EndStep ==
  ASSUME Inductive, Complete, Inductive', [Next]_vars, reply' = "End"
  PROVE  IsFinished' /\ state' # "Failed"
<1>1. CASE reply = "End"
  <2>1. IsFinished /\ state # "Failed"
    BY <1>1 DEF Complete
  <2>2. Phase = "Ended" /\ Phase' = Phase
    BY <2>1, FinishedStays DEF Phase
  <2>. QED  BY <2>2 DEF Phase
<1>2. CASE reply # "End"
  <2>1. ReturnNoEvent
    <3>1. ~((\E size \in Chunks : FeedAccepted(size) \/ FeedOverLimit(size))
              \/ FeedOrFinishRejected \/ FinishAccepted \/ NextAccepted \/ NextRejected
              \/ TakeDiagnostics)
      BY <1>2 DEF FeedAccepted, FeedOverLimit, FeedOrFinishRejected, FinishAccepted,
         NextAccepted, NextRejected, TakeDiagnostics, Refuse, callerVars
    <3>2. ~Pump
      BY <1>2 DEF Pump, PumpResumes, PumpResumeFails, PumpSkipsResume, PumpFeedsChunk,
         PumpFinishes, PumpDone, PumpFails
    <3>3. ~Parse
      BY <1>2 DEF Parse, StartElement, EndElement, SkippedEndElement, CharacterData, Doctype,
         Malformed, ParserReturns, ParserReturnsEarly, ParserThrows, PumpFails,
         unchangedInCallback, callerVars
    <3>4. ~ReturnOk /\ ~ReturnEvent /\ ~UNCHANGED vars
      BY <1>2 DEF ReturnOk, ReturnEvent, Answer, vars, callerVars
    <3>. QED  BY <3>1, <3>2, <3>3, <3>4 DEF Next, Feed, Return
  <2>2. /\ pc = "Reply" /\ parseComplete /\ held' = <<>> /\ eventQueue = <<>>
        /\ UNCHANGED <<eventQueue, parseComplete, state>>
    BY <2>1 DEF ReturnNoEvent, Answer, readerVars, coordinatorVars
  <2>3. state # "Failed"
    BY <2>2 DEF Inductive, Typed
  <2>. QED  BY <2>2, <2>3 DEF IsFinished
<1>. QED  BY <1>1, <1>2

\* What holds at every state of a reader: it follows the reading in one piece, loses no byte,
\* and ends where the document ends.
Reading == Inductive /\ Following /\ Buffered /\ Complete

LEMMA ReadingInit ==
  ASSUME Init
  PROVE  Reading
<1>1. Inductive
  BY InitTyped, InitHistory, PumpedInit DEF Inductive
<1>2. Complete
  BY DEF Init, Complete
<1>. QED  BY <1>1, <1>2, FollowingInit, BufferedInit DEF Reading

LEMMA ReadingStep ==
  ASSUME Reading, [Next]_vars
  PROVE  Reading'
<1>1. Inductive'
  BY TypedStep, HistoryStep, AcceptedStep, PumpedStep DEF Reading, Inductive
<1>2. Following' /\ Buffered'
  BY FollowingStep, BufferedStep DEF Reading, Inductive
<1>3. Complete'
  BY <1>1, ParseCompleteStep, EndStep DEF Reading, Complete
<1>. QED  BY <1>1, <1>2, <1>3 DEF Reading

LEMMA ReadingInvariant == Spec => []Reading
<1>1. Reading /\ [Next]_vars => Reading'
  BY ReadingStep
<1>. QED  BY <1>1, ReadingInit, PTL DEF Spec

\* At the end, everything the document stands for is read and reported.
LEMMA EndReadsAll ==
  ASSUME Reading, reply = "End"
  PROVE  /\ delivered = doc.events /\ Diagnosed = doc.diagnoses
         /\ doc.valid \/ totalFed < DocBytes
<1>1. /\ IsFinished /\ state # "Failed" /\ Typed
      /\ parseComplete /\ eventQueue = <<>> /\ held = <<>>
  BY DEF Reading, Complete, IsFinished, Inductive
<1>2. /\ ~endPending /\ ~callbackError /\ state = "AfterRoot"
      /\ ~suspended => received = Consumed
  BY <1>1 DEF Reading, Complete
<1>3. delivered = emitted
  <2>1. (delivered \o held) \o eventQueue = emitted /\ delivered \in Seq(Event)
    BY <1>1 DEF Reading, Inductive, History, DeliveredInOrder, Typed, TypeOK, CallerTypeOK
  <2>. QED  BY <1>1, <2>1, ConcatEmptySeq
<1>4. ~suspended
  <2>1. pc # "Parse" /\ (pc = "Pump" /\ call # "Next" => ~parseComplete)
    BY <1>1 DEF Reading, Inductive, Pumped
  <2>. QED  BY <1>1, <2>1 DEF Reading, Inductive, Pumped, Typed, TypeOK, CallerTypeOK
<1>5. Run(cursor) = Known /\ tags = <<>>
  BY <1>1, <1>2 DEF Reading, Following, Expected
<1>6. Over(Known) /\ Known.events = emitted /\ Known.told = Diagnosed /\ ~Known.stopped
        /\ Known.begun /\ Known.open = <<>>
  BY <1>2, <1>5 DEF Over, Known
<1>7. /\ doc.tokens \in Seq(Token) /\ cursor \in 0 .. Len(doc.tokens)
      /\ StandsFor(doc.tokens, doc.events, doc.valid, doc.diagnoses)
  BY <1>1, DocumentRead
<1>8. /\ ReadInOnePiece(doc.tokens)[Len(doc.tokens)].events = emitted
      /\ ReadInOnePiece(doc.tokens)[Len(doc.tokens)].told = Diagnosed
  BY <1>5, <1>6, <1>7, OnePieceOver DEF Run
<1>9. delivered = doc.events /\ Diagnosed = doc.diagnoses
  BY <1>3, <1>7, <1>8 DEF StandsFor
<1>10. ASSUME ~(totalFed < DocBytes)  PROVE doc.valid
  <2>1. received = totalFed
    <3>1. PICK f : Offsets(f)
      BY DEF Reading, Buffered
    <3>2. inputQueue = <<>>
      BY <1>1 DEF Reading, Inductive, Pumped
    <3>. QED  BY <3>1, <3>2 DEF Offsets
  <2>2. Consumed = totalFed /\ ~(totalFed < DocBytes) /\ totalFed \in Nat
    BY <1>1, <1>2, <1>4, <1>10, <2>1 DEF Typed, TypeOK, ReaderTypeOK
  <2>3. cursor = Len(doc.tokens)
    <3>. DEFINE n == Len(doc.tokens)
    <3>1. cursor \in Nat /\ n \in Nat /\ cursor <= n
      BY <1>1, DocumentRead
    <3>2. ~(cursor * TokenBytes < n * TokenBytes)
      BY <2>2 DEF Consumed, DocBytes
    <3>. HIDE DEF n
    <3>3. ~(cursor + 1 <= n)
      <4>1. SUFFICES ASSUME cursor + 1 <= n  PROVE FALSE
        OBVIOUS
      <4>2. /\ (cursor + 1) * TokenBytes <= n * TokenBytes
            /\ (cursor + 1) * TokenBytes = cursor * TokenBytes + TokenBytes
            /\ cursor * TokenBytes \in Nat /\ n * TokenBytes \in Nat
        BY <3>1, <4>1, ProductOrder, TokenBytesAssumption
      <4>. QED  BY <3>2, <4>2, TokenBytesAssumption
    <3>4. cursor = n
      BY <3>1, <3>3
    <3>. QED  BY <3>4 DEF n
  <2>. QED  BY <1>5, <1>6, <1>7, <2>3 DEF StandsFor, Run
<1>. QED  BY <1>9, <1>10

\* However the document is cut into chunks, pieces and suspended parses, and whatever fails, the
\* events accepted are a prefix of the document's own; and next() reports the end only when all
\* of them are handed out, and never of an invalid document that was fed whole.
THEOREM ReadsTheDocument == Spec => []ReadsDocument
<1>1. Reading => ReadsDocument
  BY EndReadsAll DEF ReadsDocument, Reading, Following
<1>. QED  BY <1>1, ReadingInvariant, PTL

\* The diagnostics the caller has taken from the reader and those it could take now are, in
\* this order, those of the document so far: none is lost, repeated or overtaken, whatever the
\* cuts, the suspensions, the calls that took some, and a later failure; and whoever is told of
\* the end of the document has, or can take, all of them.
THEOREM AllReported == Spec => []NothingPassesSilently
<1>1. Reading => NothingPassesSilently
  BY EndReadsAll DEF NothingPassesSilently, Reading, Following
<1>. QED  BY <1>1, ReadingInvariant, PTL

\* A callback adds to what is diagnosed what its dialect reports, or a part of it.
LEMMA CallbackKeeps ==
  ASSUME Typed, NEW r, ResultOK(dialect, r), NEW s, NEW k, Callback(r, s, k)
  PROVE  IsPrefix(Diagnosed, Diagnosed')
<1>1. /\ taken \in Seq(Report) /\ diagnostics \in Seq(Report)
      /\ r.diagnostics \in Seq(Report) /\ Diagnosed \in Seq(Report)
  BY DEF Typed, TypeOK, CoordinatorTypeOK, ResultOK, Result, Diagnosed
<1>2. PICK reports \in Seq(Report) : Add(reports)
  <2>1. CASE Add(r.diagnostics)
    BY <1>1, <2>1
  <2>2. CASE \E reports \in PartsOf(r.diagnostics) : Add(reports)
    BY <1>1, <2>2, PartsType
  <2>. QED  BY <2>1, <2>2 DEF Callback, CallbackReturns, CallbackThrows
<1>3. Diagnosed' = Diagnosed \o reports
  BY <1>1, <1>2, AddDiagnosed
<1>. QED  BY <1>1, <1>3, PrefixOfConcat

\* What is diagnosed only grows: by what the callbacks report; what the caller takes stays in
\* its place, and so does everything when the reader fails.
LEMMA KeepStep ==
  ASSUME Typed, [Next]_vars
  PROVE  IsPrefix(Diagnosed, Diagnosed')
<1>1. /\ taken \in Seq(Report) /\ diagnostics \in Seq(Report) /\ Diagnosed \in Seq(Report)
  BY DEF Typed, TypeOK, CoordinatorTypeOK, Diagnosed
<1>2. ASSUME UNCHANGED <<taken, diagnostics>>
      PROVE  IsPrefix(Diagnosed, Diagnosed')
  BY <1>1, <1>2, PrefixReflexive DEF Diagnosed
<1>3. CASE StartElement
  <2>1. \/ UNCHANGED <<taken, diagnostics>>
        \/ /\ NextToken.element \in Element
           /\ Callback(DialectStart(NextToken.element), state, depth + 1)
    BY <1>3, NextTokenType DEF StartElement, RootElement, CallbackFailsAtOnce, coordinatorVars
  <2>2. NextToken.element \in Element => ResultOK(dialect, DialectStart(NextToken.element))
    BY DialectResults DEF Typed
  <2>. QED  BY <1>2, <2>1, <2>2, CallbackKeeps
<1>4. CASE EndElement
  <2>1. \/ Callback(DialectRootClosed(Head(tags)), "AfterRoot", 0)
        \/ Callback(DialectEnd(Head(tags)), state, depth - 1)
    BY <1>4 DEF EndElement
  <2>2. Head(tags) \in Element
    <3>1. tags # <<>> /\ tags \in Seq(Element)
      BY <1>4 DEF EndElement, IllFormed, Typed, TypeOK, ExpatTypeOK
    <3>. QED  BY <3>1
  <2>3. /\ ResultOK(dialect, DialectRootClosed(Head(tags)))
        /\ ResultOK(dialect, DialectEnd(Head(tags)))
    BY <2>2, DialectResults DEF Typed
  <2>. QED  BY <2>1, <2>3, CallbackKeeps
<1>5. CASE CharacterData
  <2>1. Callback(DialectText, state, depth)
    BY <1>5 DEF CharacterData
  <2>2. ResultOK(dialect, DialectText)
    BY DialectResults DEF Typed
  <2>. QED  BY <2>1, <2>2, CallbackKeeps
<1>6. CASE TakeDiagnostics
  <2>1. Diagnosed' = Diagnosed \o <<>>
    BY <1>6 DEF TakeDiagnostics, Diagnosed
  <2>2. Diagnosed \o <<>> = Diagnosed
    BY <1>1, ConcatEmptySeq
  <2>. QED  BY <1>1, <2>1, <2>2, PrefixReflexive
<1>7. CASE ~(StartElement \/ EndElement \/ CharacterData \/ TakeDiagnostics)
  <2>1. UNCHANGED <<taken, diagnostics>>
    BY <1>7
       DEF vars, coordinatorVars, Next, Feed, FeedAccepted, FeedOrFinishRejected, Refuse,
           FeedOverLimit, FinishAccepted, NextAccepted, NextRejected, Pump, PumpResumes,
           PumpResumeFails, PumpFails, PumpSkipsResume, PumpFeedsChunk, PumpFinishes,
           PumpDone, Parse, SkippedEndElement, Doctype, CallbackFailsAtOnce, Malformed,
           ParserReturns, ParserReturnsEarly, ParserThrows, Return, ReturnOk, ReturnEvent,
           ReturnNoEvent, Answer
  <2>. QED  BY <1>2, <2>1
<1>. QED  BY <1>3, <1>4, <1>5, <1>6, <1>7

\* No step of a reader, nor its failure, loses a report that the caller has not yet taken.
THEOREM ReportsStay == Spec => ReportsAreKept
<1>1. Typed /\ [Next]_vars => [IsPrefix(Diagnosed, Diagnosed')]_vars
  BY KeepStep
<1>2. Reading => Typed
  BY DEF Reading, Inductive
<1>. QED  BY <1>1, <1>2, ReadingInvariant, PTL DEF Spec, ReportsAreKept

-----------------------------------------------------------------------------
(* Nothing that can be read is left lying. *)

\* Bytes that Expat has and has not read.
Rest == received - Consumed

\* What neither a failure nor a callback that throws has disturbed.
Running == state # "Failed" /\ ~callbackError

\* Where the caller, the pieces, the parser and the coordinator are in the document.
Placed ==
  /\ totalFed <= DocBytes
  /\ Rest >= 0
  /\ \A i \in DOMAIN inputQueue : inputQueue[i] <= QueuedInputChunkSize
  /\ pc = "Parse" => inParse

\* Whoever waits for input has read all there is; and the final parse, if nothing is deferred,
\* finds nothing left to read, so that nothing can suspend it.
Drained ==
  ~ReparseDeferral =>
    /\ ~deferring
    /\ finished => finalBuffer
    /\ state # "Failed" =>
         /\ pc # "Parse" => ~endPending
         /\ pc # "Parse" /\ ~suspended => ~CompleteToken(received)
         /\ finalBuffer => parsing # "Suspended" /\ ~endPending /\ ~CompleteToken(received)

LEMMA DocStays ==
  ASSUME [Next]_vars
  PROVE  doc' = doc
<1>1. CASE (\E size \in Chunks : FeedAccepted(size) \/ FeedOverLimit(size))
             \/ FeedOrFinishRejected \/ FinishAccepted \/ NextAccepted \/ NextRejected
             \/ TakeDiagnostics
  BY <1>1 DEF FeedAccepted, FeedOverLimit, FeedOrFinishRejected, FinishAccepted,
     NextAccepted, NextRejected, TakeDiagnostics, Refuse, expatVars
<1>2. CASE Pump
  BY <1>2 DEF Pump, PumpResumes, PumpResumeFails, PumpSkipsResume, PumpFeedsChunk, PumpFinishes,
     PumpDone, BeginResume, BeginFeed, BeginFinish, XML_ParseBuffer, XML_ResumeParser, expatVars
<1>3. CASE Parse
  BY <1>3 DEF Parse, StartElement, EndElement, SkippedEndElement, CharacterData, Doctype,
     Malformed, StartTagCallback, EndTagCallback, OtherCallback, ParserReturns,
     ParserReturnsEarly, ParserThrows, ParseSucceeds, ParseFails, expatVars
<1>4. CASE Return
  BY <1>4 DEF Return, ReturnOk, ReturnEvent, ReturnNoEvent, Answer, expatVars
<1>5. CASE UNCHANGED vars
  BY <1>5 DEF vars, expatVars
<1>. QED  BY <1>1, <1>2, <1>3, <1>4, <1>5 DEF Next, Feed

LEMMA RestType ==
  ASSUME Typed
  PROVE  /\ Rest \in Int /\ Consumed \in Nat /\ received \in Nat /\ DocBytes \in Nat
         /\ cursor \in Nat /\ cursor <= Len(doc.tokens) /\ Len(doc.tokens) \in Nat
         /\ Rest = received - Consumed
<1>1. received \in Nat /\ cursor \in Nat /\ cursor <= Len(doc.tokens) /\ Len(doc.tokens) \in Nat
  BY DocumentRead DEF Typed, TypeOK, ExpatTypeOK
<1>2. cursor * TokenBytes \in Nat /\ Len(doc.tokens) * TokenBytes \in Nat
  BY <1>1, TokenBytesAssumption
<1>. QED  BY <1>1, <1>2 DEF Rest, Consumed, DocBytes

\* A token takes its bytes.
LEMMA RestStep ==
  ASSUME Typed, UNCHANGED <<received, doc>>, cursor' = cursor + 1
  PROVE  Rest' = Rest - TokenBytes
<1>1. cursor \in Nat /\ TokenBytes \in Nat /\ received \in Nat
  BY RestType, TokenBytesAssumption
<1>2. (cursor + 1) * TokenBytes = cursor * TokenBytes + TokenBytes /\ cursor * TokenBytes \in Nat
  BY <1>1
<1>3. Rest' = received - (cursor + 1) * TokenBytes
  BY DEF Rest, Consumed
<1>4. Rest = received - cursor * TokenBytes
  BY DEF Rest, Consumed
<1>. QED  BY <1>1, <1>2, <1>3, <1>4

LEMMA ReceivedIsFed ==
  ASSUME Typed, Buffered
  PROVE  received <= totalFed /\ (inputQueue = <<>> => received = totalFed)
<1>1. PICK f : Offsets(f)
  BY DEF Buffered
<1>. DEFINE n == Len(inputQueue)
            Below == {i \in Nat : i <= n => f[0] <= f[i]}
<1>2. /\ n \in Nat /\ f \in [0 .. n -> Nat] /\ f[0] = received /\ f[n] = totalFed
      /\ \A i \in 1 .. n : f[i] = f[i - 1] + inputQueue[i] /\ inputQueue[i] \in Nat
  BY <1>1 DEF Offsets, Typed, TypeOK, ReaderTypeOK
<1>. HIDE DEF n
<1>3. 0 \in Below
  BY <1>2
<1>4. ASSUME NEW i \in 1 .. n, i - 1 \in Below  PROVE i \in Below
  <2>1. i - 1 \in 0 .. n /\ i \in 0 .. n /\ 0 \in 0 .. n
    BY <1>2
  <2>2. f[i - 1] \in Nat /\ f[0] \in Nat /\ f[i] \in Nat /\ f[0] <= f[i - 1]
    BY <1>2, <1>4, <2>1
  <2>3. f[i] = f[i - 1] + inputQueue[i] /\ inputQueue[i] \in Nat
    BY <1>2
  <2>4. f[0] <= f[i] /\ i \in Nat
    BY <1>2, <2>2, <2>3
  <2>. QED  BY <2>4
<1>5. \A i \in 0 .. n : i \in Below
  <2>. HIDE DEF Below
  <2>. QED  BY <1>2, <1>3, <1>4, RangeInduction
<1>6. received <= totalFed
  BY <1>2, <1>5
<1>. QED  BY <1>2, <1>6 DEF n

\* Without a complete token, less than one is left.
LEMMA RestIsPartial ==
  ASSUME Typed, Buffered, Placed, ~CompleteToken(received)
  PROVE  Rest < TokenBytes
<1>1. /\ received \in Nat /\ Consumed \in Nat /\ received <= totalFed /\ totalFed <= DocBytes
      /\ cursor \in Nat /\ cursor <= Len(doc.tokens) /\ Len(doc.tokens) \in Nat
      /\ totalFed \in Nat /\ TokenBytes \in Nat \ {0}
  BY RestType, ReceivedIsFed, TokenBytesAssumption DEF Placed, Typed, TypeOK, ReaderTypeOK
<1>2. CASE cursor < Len(doc.tokens)
  BY <1>1, <1>2 DEF CompleteToken, Rest
<1>3. CASE cursor = Len(doc.tokens)
  <2>1. Consumed = DocBytes
    BY <1>3 DEF Consumed, DocBytes
  <2>. QED  BY <1>1, <2>1 DEF Rest
<1>. QED  BY <1>1, <1>2, <1>3

-----------------------------------------------------------------------------
(* What a callback does to the queue *)

\* A callback returns with or without an event, or throws, and then at most the event whose
\* suspension was refused is in the queue.
QueueMove ==
  \/ ~callbackError' /\ eventQueue' = eventQueue /\ parsing' = parsing
  \/ /\ ~callbackError' /\ Len(eventQueue') = Len(eventQueue) + 1
     /\ \/ AsksToSuspend /\ parsing' = "Suspended"
        \/ ~AsksToSuspend /\ parsing' = parsing
  \/ /\ callbackError' /\ parsing' = "Finished"
     /\ \/ eventQueue' = eventQueue
        \/ AsksToSuspend /\ Len(eventQueue') = Len(eventQueue) + 1

LEMMA CallbackMoves ==
  ASSUME Typed, ~callbackError, NEW r, NEW s, NEW k, Callback(r, s, k)
  PROVE  QueueMove
<1>1. \A event : Len(Append(eventQueue, event)) = Len(eventQueue) + 1
  <2>1. \A event : Append(eventQueue, event) = eventQueue \o <<event>>
    BY DEF Append, Typed, TypeOK, QueueTypeOK
  <2>. QED  BY <2>1 DEF Typed, TypeOK, QueueTypeOK
<1>2. CASE CallbackReturns(r, s, k)
  <2>1. ~callbackError'
    BY <1>2 DEF CallbackReturns, parserVars
  <2>2. CASE UNCHANGED queueVars /\ parsing' = parsing
    BY <2>1, <2>2 DEF QueueMove, queueVars
  <2>3. CASE Enqueue(Head(r.emit)) /\ AsksToSuspend /\ Suspend
    <3>1. eventQueue' = Append(eventQueue, Head(r.emit)) /\ parsing' = "Suspended"
      BY <2>3 DEF Enqueue, Suspend
    <3>. QED  BY <1>1, <2>1, <2>3, <3>1 DEF QueueMove
  <2>4. CASE Enqueue(Head(r.emit)) /\ ~AsksToSuspend /\ parsing' = parsing
    <3>1. eventQueue' = Append(eventQueue, Head(r.emit))
      BY <2>4 DEF Enqueue
    <3>. QED  BY <1>1, <2>1, <2>4, <3>1 DEF QueueMove
  <2>. QED  BY <1>2, <2>2, <2>3, <2>4 DEF CallbackReturns
<1>3. CASE CallbackThrows(r)
  <2>1. callbackError' /\ parsing' = "Finished"
    BY <1>3 DEF CallbackThrows, CallbackFails
  <2>2. CASE UNCHANGED queueVars
    BY <2>1, <2>2 DEF QueueMove, queueVars
  <2>3. CASE AsksToSuspend /\ Enqueue(Head(r.emit))
    <3>1. eventQueue' = Append(eventQueue, Head(r.emit))
      BY <2>3 DEF Enqueue
    <3>. QED  BY <1>1, <2>1, <2>3, <3>1 DEF QueueMove
  <2>. QED  BY <1>3, <2>2, <2>3 DEF CallbackThrows
<1>. QED  BY <1>2, <1>3 DEF Callback

LEMMA FailsAtOnceMoves ==
  ASSUME CallbackFailsAtOnce
  PROVE  QueueMove
  BY DEF CallbackFailsAtOnce, CallbackFails, QueueMove, queueVars

\* The steps inside a call into Expat, as long as no callback has failed: a token begins, or
\* the second half of an empty-element tag follows, or the document is ill-formed.
TokenStep ==
  /\ Ready /\ ~endPending /\ cursor' = cursor + 1 /\ QueueMove
  /\ endPending' => StartElement /\ NextToken.tag = "empty"
HalfStep == endPending /\ ~endPending' /\ cursor' = cursor /\ QueueMove /\ EndElement

LEMMA ParserMoves ==
  ASSUME Typed, Following, InParser, Running
  PROVE  /\ pc = "Parse" /\ state' # "Failed"
         /\ UNCHANGED <<callerVars, readerVars, doc, received, finalBuffer, deferring,
                        finished, failed, suspended, inParse>>
         /\ Malformed \/ TokenStep \/ HalfStep
<1>1. /\ pc = "Parse" /\ state' # "Failed" /\ ~callbackError
      /\ UNCHANGED <<callerVars, readerVars, doc, finished, suspended, inParse, finalBuffer>>
  BY InParserStep DEF ParserStep, Running
<1>2. UNCHANGED <<received, deferring>>
  BY DEF InParser, StartElement, EndElement, SkippedEndElement, CharacterData, Doctype,
     Malformed, StartTagCallback, EndTagCallback, OtherCallback
<1>3. failed' = failed
  <2>1. CASE StartElement
    BY <2>1 DEF StartElement, RootElement, CallbackFailsAtOnce, Callback, CallbackReturns,
       CallbackThrows, CallbackFails, parserVars
  <2>2. CASE EndElement \/ CharacterData
    BY <2>2 DEF EndElement, CharacterData, Callback, CallbackReturns, CallbackThrows,
       CallbackFails, parserVars
  <2>3. CASE SkippedEndElement \/ Malformed \/ Doctype
    BY <2>3 DEF SkippedEndElement, Malformed, Doctype, CallbackFailsAtOnce, CallbackFails,
       parserVars
  <2>. QED  BY <2>1, <2>2, <2>3 DEF InParser
<1>4. Malformed \/ TokenStep \/ HalfStep
  <2>1. CASE StartElement
    <3>1. Ready /\ ~endPending /\ cursor' = cursor + 1 /\ endPending' = (NextToken.tag = "empty")
      BY <2>1 DEF StartElement, StartTagCallback
    <3>2. QueueMove
      <4>1. CASE CallbackFailsAtOnce
        BY <4>1, FailsAtOnceMoves
      <4>2. CASE RootElement(NextToken.element)
        BY <1>1, <4>2, FailsAtOnceMoves DEF RootElement, QueueMove, queueVars, parserVars
      <4>3. CASE Callback(DialectStart(NextToken.element), state, depth + 1)
        BY <1>1, <4>3, CallbackMoves
      <4>. QED  BY <2>1, <4>1, <4>2, <4>3 DEF StartElement
    <3>. QED  BY <2>1, <3>1, <3>2 DEF TokenStep
  <2>2. CASE EndElement
    <3>1. /\ endPending \/ Ready
          /\ cursor' = (IF endPending THEN cursor ELSE cursor + 1) /\ ~endPending'
      BY <2>2 DEF EndElement, EndTagCallback
    <3>2. QueueMove
      <4>1. CASE Callback(DialectRootClosed(Head(tags)), "AfterRoot", 0)
        BY <1>1, <4>1, CallbackMoves
      <4>2. CASE Callback(DialectEnd(Head(tags)), state, depth - 1)
        BY <1>1, <4>2, CallbackMoves
      <4>. QED  BY <2>2, <4>1, <4>2 DEF EndElement
    <3>. QED  BY <2>2, <3>1, <3>2 DEF TokenStep, HalfStep
  <2>3. CASE CharacterData
    <3>1. Callback(DialectText, state, depth)
      BY <2>3 DEF CharacterData
    <3>2. QueueMove
      BY <1>1, <3>1, CallbackMoves
    <3>. QED  BY <2>3, <3>2 DEF CharacterData, OtherCallback, TokenStep
  <2>4. CASE Doctype
    BY <2>4, FailsAtOnceMoves DEF Doctype, OtherCallback, TokenStep
  <2>5. ~SkippedEndElement
    BY <1>1 DEF SkippedEndElement, CallbackRuns, Following, Running
  <2>. QED  BY <2>1, <2>2, <2>3, <2>4, <2>5 DEF InParser
<1>. QED  BY <1>1, <1>2, <1>3, <1>4

\* After a callback has failed, only callbacks that do nothing follow.
LEMMA BrokenMoves ==
  ASSUME Typed, Following, InParser, ~Running
  PROVE  /\ pc = "Parse" /\ state' = state /\ callbackError' /\ ~endPending'
         /\ UNCHANGED <<callerVars, readerVars, queueVars, doc, received, cursor, deferring,
                        finalBuffer, finished, suspended, inParse, parsing>>
<1>1. pc = "Parse" /\ state # "Failed" /\ callbackError
  BY InParserStep DEF ParserStep, Running
<1>2. SkippedEndElement
  BY <1>1 DEF InParser, StartElement, EndElement, CharacterData, Doctype, Malformed,
     InCallback, CallbackRuns
<1>. QED
  BY <1>1, <1>2 DEF SkippedEndElement, EndTagCallback, unchangedInCallback, coordinatorVars,
     parserVars

-----------------------------------------------------------------------------
(* Places *)

\* The end of the root element ends the transfer, or the callback throws.
LEMMA RootClosedEnds ==
  ASSUME NEW e, ~DialectRootClosed(e).thrown
  PROVE  /\ DialectRootClosed(e).emit # <<>>
         /\ Head(DialectRootClosed(e).emit).kind = "EndTransfer"
<1>1. \A d, id : /\ Thrown(d).thrown /\ Emits(d, "EndTransfer", id).emit # <<>>
                 /\ Head(Emits(d, "EndTransfer", id).emit).kind = "EndTransfer"
  BY DEF Thrown, Emits
<1>2. CASE detected = "V23"
  <2>1. DialectRootClosed(e) = V23!OnRootClosed(dialect, e)
    BY <1>2 DEF DialectRootClosed, OnRootClosed
  <2>. QED  BY <1>1, <2>1, SameVocabulary DEF V23!OnRootClosed
<1>3. CASE detected # "V23"
  <2>1. DialectRootClosed(e) = V24!OnRootClosed(dialect, e)
    BY <1>3 DEF DialectRootClosed, OnRootClosed
  <2>. QED  BY <1>1, <2>1, SameVocabulary DEF V24!OnRootClosed
<1>. QED  BY <1>2, <1>3

Rooted ==
  Running => /\ RootSeen <=> state # "BeforeRoot"
             /\ state = "AfterRoot" => eventState = "AfterTransfer"

LEMMA RootedInParser ==
  ASSUME Typed, Following, Rooted, InParser
  PROVE  Rooted'
<1>1. CASE ~Running
  BY <1>1, BrokenMoves DEF Rooted, Running
<1>2. CASE Running /\ ~Running'
  BY <1>2 DEF Rooted
<1>3. CASE Running /\ Running'
  <2>1. cursor \in Nat /\ doc' = doc /\ state # "Failed" /\ ~callbackError /\ ~callbackError'
    BY <1>3, RestType, ParserMoves DEF Running
  <2>2. ASSUME cursor' \in {cursor, cursor + 1}, state # "BeforeRoot", state' # "BeforeRoot"
        PROVE  RootSeen' <=> state' # "BeforeRoot"
    <3>1. PICK i \in 1 .. cursor : doc.tokens[i].tag \in {"start", "empty"}
      BY <1>3, <2>2 DEF Rooted, RootSeen
    <3>2. i \in 1 .. cursor'
      BY <2>1, <2>2
    <3>. QED  BY <2>1, <2>2, <3>1, <3>2 DEF RootSeen
  <2>3. CASE StartElement
    <3>1. /\ cursor' = cursor + 1 /\ NextToken.tag \in {"start", "empty"} /\ ~CallbackFailsAtOnce
      BY <2>1, <2>3 DEF StartElement, StartTagCallback, CallbackFailsAtOnce, CallbackFails
    <3>2. RootSeen'
      <4>1. cursor + 1 \in 1 .. cursor' /\ doc'.tokens[cursor + 1] = NextToken
        BY <2>1, <3>1 DEF NextToken
      <4>. QED  BY <3>1, <4>1 DEF RootSeen
    <3>3. state' = "InRoot"
      <4>1. CASE RootElement(NextToken.element)
        BY <3>1, <4>1 DEF RootElement
      <4>2. CASE state = "InRoot" /\ Callback(DialectStart(NextToken.element), state, depth + 1)
        BY <2>1, <4>2 DEF Callback, CallbackReturns, CallbackThrows, CallbackFails
      <4>. QED  BY <2>3, <3>1, <4>1, <4>2 DEF StartElement
    <3>. QED  BY <3>2, <3>3 DEF Rooted
  <2>4. CASE EndElement
    <3>1. cursor' \in {cursor, cursor + 1} /\ state = "InRoot"
      BY <2>4 DEF EndElement, EndTagCallback
    <3>2. state' \in {"InRoot", "AfterRoot"} /\ (state' = "AfterRoot" => eventState' = "AfterTransfer")
      <4>1. CASE CallbackReturns(DialectRootClosed(Head(tags)), "AfterRoot", 0)
        <5>. DEFINE r == DialectRootClosed(Head(tags))
        <5>1. ~r.thrown /\ state' = "AfterRoot"
          BY <4>1 DEF CallbackReturns
        <5>2. r.emit # <<>> /\ Head(r.emit).kind = "EndTransfer"
          BY <5>1, RootClosedEnds
        <5>3. Enqueue(Head(r.emit))
          <6>. HIDE DEF r
          <6>. QED  BY <4>1, <5>2 DEF CallbackReturns, r
        <5>4. eventState' = EventStateAfter(Head(r.emit).kind)
          BY <5>3 DEF Enqueue
        <5>5. eventState' = "AfterTransfer"
          <6>. HIDE DEF r
          <6>. QED  BY <5>2, <5>4 DEF EventStateAfter
        <5>. QED  BY <5>1, <5>5
      <4>2. CASE CallbackReturns(DialectEnd(Head(tags)), state, depth - 1)
        <5>1. state' = state
          BY <4>2 DEF CallbackReturns
        <5>. QED  BY <3>1, <5>1
      <4>. QED  BY <2>1, <2>4, <4>1, <4>2 DEF EndElement, Callback, CallbackThrows, CallbackFails
    <3>. QED  BY <2>2, <3>1, <3>2 DEF Rooted
  <2>5. CASE CharacterData
    <3>1. cursor' = cursor + 1 /\ state = "InRoot" /\ Callback(DialectText, state, depth)
      BY <2>5 DEF CharacterData, OtherCallback
    <3>2. state' = "InRoot"
      BY <2>1, <3>1 DEF Callback, CallbackReturns, CallbackThrows, CallbackFails
    <3>. QED  BY <2>2, <3>1, <3>2 DEF Rooted
  <2>6. CASE Malformed
    BY <1>3, <2>6 DEF Malformed, Rooted, RootSeen, coordinatorVars, queueVars
  <2>7. ~Doctype /\ ~SkippedEndElement
    BY <1>3, <2>1 DEF Doctype, CallbackFailsAtOnce, CallbackFails, SkippedEndElement, CallbackRuns,
       Following, Running
  <2>. QED  BY <2>3, <2>4, <2>5, <2>6, <2>7 DEF InParser
<1>. QED  BY <1>1, <1>2, <1>3

LEMMA RootedStep ==
  ASSUME Typed, Following, Rooted, [Next]_vars
  PROVE  Rooted'
<1>1. CASE UNCHANGED <<doc, cursor, state, callbackError, eventState>> \/ state' = "Failed"
  BY <1>1 DEF Rooted, Running, RootSeen
<1>2. CASE InParser
  BY <1>2, RootedInParser
<1>3. CASE (\E size \in Chunks : FeedAccepted(size) \/ FeedOverLimit(size))
             \/ FeedOrFinishRejected \/ FinishAccepted \/ NextAccepted \/ NextRejected
             \/ TakeDiagnostics
  BY <1>1, <1>3 DEF FeedAccepted, FeedOverLimit, FeedOrFinishRejected, FinishAccepted,
     NextAccepted, NextRejected, TakeDiagnostics, Refuse, queueVars, coordinatorVars, parserVars,
     expatVars
<1>4. CASE Pump
  <2>1. CASE PumpResumes \/ PumpFinishes \/ PumpFeedsChunk
    BY <1>1, <2>1 DEF PumpResumes, PumpFinishes, PumpFeedsChunk, BeginResume, BeginFinish,
       BeginFeed, XML_ParseBuffer, XML_ResumeParser, queueVars, coordinatorVars, parserVars,
       expatVars
  <2>2. CASE PumpSkipsResume \/ PumpDone
    BY <1>1, <2>2 DEF PumpSkipsResume, PumpDone, queueVars, coordinatorVars, parserVars, expatVars
  <2>3. CASE PumpResumeFails
    BY <1>1, <2>3 DEF PumpResumeFails, PumpFails
  <2>. QED  BY <1>4, <2>1, <2>2, <2>3 DEF Pump
<1>5. CASE ParserReturns
  <2>1. UNCHANGED <<doc, cursor, state, eventState>> /\ ~callbackError /\ callbackError' = callbackError
    BY <1>5 DEF ParserReturns, ParseSucceeds, queueVars, coordinatorVars
  <2>. QED  BY <1>1, <2>1
<1>6. CASE ParserReturnsEarly \/ ParserThrows
  BY <1>1, <1>6 DEF ParserReturnsEarly, ParserThrows, PumpFails
<1>7. CASE Return
  BY <1>1, <1>7 DEF Return, ReturnOk, ReturnEvent, ReturnNoEvent, Answer, coordinatorVars,
     parserVars, expatVars
<1>8. CASE UNCHANGED vars
  BY <1>1, <1>8 DEF vars, queueVars, coordinatorVars, parserVars, expatVars
<1>. QED  BY <1>2, <1>3, <1>4, <1>5, <1>6, <1>7, <1>8 DEF Next, Feed, Parse, InParser

LEMMA PiecesAreShort ==
  ASSUME NEW size \in Nat
  PROVE  \A i \in 1 .. Len(Pieces(size)) : Pieces(size)[i] <= QueuedInputChunkSize
<1>. DEFINE Q == QueuedInputChunkSize
            count == IF size = 0 THEN 1 ELSE (size + Q - 1) \div Q
            piece(i) == IF i * Q <= size THEN Q ELSE size % Q
<1>1. Q \in Nat \ {0} /\ count \in Nat
  BY LimitsAssumption
<1>2. size % Q \in Nat /\ size % Q < Q
  BY <1>1
<1>3. \A i : piece(i) <= Q
  BY <1>1, <1>2
<1>4. Pieces(size) = [i \in 1 .. count |-> piece(i)]
  BY DEF Pieces
<1>. HIDE DEF count, piece
<1>5. Len(Pieces(size)) = count
  BY <1>1, <1>4
<1>. QED  BY <1>3, <1>4, <1>5

LEMMA PlacedStep ==
  ASSUME Typed, Following, Placed, [Next]_vars
  PROVE  Placed'
<1>. DEFINE Short == \A i \in DOMAIN inputQueue : inputQueue[i] <= QueuedInputChunkSize
<1>1. /\ doc' = doc /\ DocBytes' = DocBytes
  BY DocStays DEF DocBytes
<1>2. CASE UNCHANGED <<totalFed, cursor, received, inputQueue>> /\ (pc' = "Parse" => inParse')
  BY <1>1, <1>2 DEF Placed, Rest, Consumed
<1>3. ASSUME NEW size \in Chunks, FeedAccepted(size)
      PROVE  Placed'
  <2>1. /\ size \in Nat /\ size <= DocBytes - totalFed
        /\ totalFed \in Nat /\ DocBytes \in Nat /\ inputQueue \in Seq(Nat)
    BY RestType DEF Chunks, Typed, TypeOK, ReaderTypeOK
  <2>2. /\ totalFed' = totalFed + size /\ inputQueue' = inputQueue \o Pieces(size)
        /\ UNCHANGED <<cursor, received>> /\ pc' = "Pump"
    BY <1>3 DEF FeedAccepted, expatVars
  <2>3. Pieces(size) \in Seq(Nat)
    BY <2>1, PiecesType
  <2>4. ASSUME NEW i \in DOMAIN inputQueue'
        PROVE  inputQueue'[i] <= QueuedInputChunkSize
    <3>. DEFINE n == Len(inputQueue)
                new == Pieces(size)
    <3>1. /\ n \in Nat /\ Len(new) \in Nat /\ DOMAIN inputQueue = 1 .. n
          /\ i \in 1 .. n + Len(new)
          /\ inputQueue'[i] = IF i <= n THEN inputQueue[i] ELSE new[i - n]
      BY <2>1, <2>2, <2>3
    <3>2. \A j \in 1 .. Len(new) : new[j] <= QueuedInputChunkSize
      BY <2>1, PiecesAreShort
    <3>. HIDE DEF n, new
    <3>3. CASE i <= n
      BY <3>1, <3>3 DEF Placed
    <3>4. CASE ~(i <= n)
      <4>1. i - n \in 1 .. Len(new)
        BY <3>1, <3>4
      <4>. QED  BY <3>1, <3>2, <3>4, <4>1
    <3>. QED  BY <3>3, <3>4
  <2>. QED  BY <1>1, <2>1, <2>2, <2>4 DEF Placed, Rest, Consumed
<1>4. CASE (\E size \in Chunks : FeedOverLimit(size)) \/ FeedOrFinishRejected \/ FinishAccepted
             \/ NextAccepted \/ NextRejected \/ TakeDiagnostics
  BY <1>2, <1>4 DEF FeedOverLimit, FeedOrFinishRejected, FinishAccepted, NextAccepted,
     NextRejected, TakeDiagnostics, Refuse, callerVars, readerVars, expatVars
<1>5. CASE PumpFeedsChunk
  <2>1. /\ inputQueue # <<>> /\ inputQueue \in Seq(Nat) /\ inputQueue' = Tail(inputQueue)
        /\ totalFed' = totalFed /\ received \in Nat /\ Head(inputQueue) \in Nat
    BY <1>5 DEF PumpFeedsChunk, Typed, TypeOK, ReaderTypeOK, ExpatTypeOK
  <2>2. ASSUME NEW i \in DOMAIN inputQueue'
        PROVE  inputQueue'[i] <= QueuedInputChunkSize
    <3>1. i + 1 \in DOMAIN inputQueue /\ inputQueue'[i] = inputQueue[i + 1]
      BY <2>1
    <3>. QED  BY <3>1 DEF Placed
  <2>3. /\ received' >= received /\ received' \in Nat /\ cursor' = cursor
        /\ pc' = "Parse" => inParse'
    <3>1. CASE UNCHANGED <<pc, parserVars, expatVars>>
      BY <1>5, <2>1, <3>1 DEF PumpFeedsChunk, expatVars
    <3>2. CASE BeginFeed(Head(inputQueue))
      BY <2>1, <3>2 DEF BeginFeed, XML_ParseBuffer
    <3>. QED  BY <1>5, <3>1, <3>2 DEF PumpFeedsChunk
  <2>4. Rest' >= 0
    <3>1. Rest' = received' - Consumed /\ Rest = received - Consumed
      BY <1>1, <2>3 DEF Rest, Consumed
    <3>2. Consumed \in Nat /\ Rest >= 0
      BY RestType DEF Placed
    <3>3. received - Consumed >= 0
      BY <3>1, <3>2
    <3>4. received \in Nat /\ received' \in Nat /\ received' >= received
      BY <2>1, <2>3
    <3>5. \A a, b, c \in Nat : a - c >= 0 /\ b >= a => b - c >= 0
      OBVIOUS
    <3>. QED  BY <3>1, <3>2, <3>3, <3>4, <3>5
  <2>. QED  BY <1>1, <2>1, <2>2, <2>3, <2>4 DEF Placed
<1>6. CASE PumpFinishes
  <2>1. received' = received + 0 /\ received \in Nat /\ inParse' /\ cursor' = cursor
        /\ UNCHANGED <<inputQueue, totalFed>>
    BY <1>6, RestType DEF PumpFinishes, BeginFinish, XML_ParseBuffer, readerVars
  <2>2. received' = received
    BY <2>1
  <2>. QED  BY <1>2, <2>1, <2>2
<1>7. CASE PumpResumes \/ PumpResumeFails \/ PumpSkipsResume \/ PumpDone
  BY <1>2, <1>7 DEF PumpResumes, PumpResumeFails, PumpSkipsResume, PumpDone, PumpFails,
     BeginResume, XML_ResumeParser, readerVars, expatVars
<1>8. CASE InParser /\ ~Running
  BY <1>2, <1>8, BrokenMoves DEF Placed, readerVars, callerVars
<1>9. CASE InParser /\ Running
  <2>1. UNCHANGED <<totalFed, inputQueue, received, pc, inParse>>
    BY <1>9, ParserMoves DEF readerVars, callerVars
  <2>2. CASE cursor' = cursor
    BY <1>2, <2>1, <2>2 DEF Placed
  <2>3. CASE cursor' = cursor + 1 /\ Ready
    <3>1. Rest' = Rest - TokenBytes /\ Rest \in Int /\ TokenBytes \in Nat /\ Rest >= TokenBytes
      BY <1>1, <2>1, <2>3, RestStep, RestType, TokenBytesAssumption DEF Ready, CompleteToken, Rest
    <3>2. Rest' >= 0
      BY <3>1
    <3>. QED  BY <1>1, <2>1, <3>2 DEF Placed
  <2>. QED  BY <1>9, <2>2, <2>3, ParserMoves DEF TokenStep, HalfStep, Malformed
<1>10. CASE ParserReturns \/ ParserReturnsEarly \/ ParserThrows
  BY <1>2, <1>10 DEF ParserReturns, ParserReturnsEarly, ParserThrows, ParseSucceeds, ParseFails,
     PumpFails, readerVars, expatVars
<1>11. CASE Return
  BY <1>2, <1>11 DEF Return, ReturnOk, ReturnEvent, ReturnNoEvent, Answer, readerVars, expatVars
<1>12. CASE UNCHANGED vars
  BY <1>2, <1>12 DEF vars, callerVars, readerVars, parserVars, expatVars, Placed
<1>. QED
  BY <1>3, <1>4, <1>5, <1>6, <1>7, <1>8, <1>9, <1>10, <1>11, <1>12
     DEF Next, Feed, Pump, Parse, InParser

LEMMA NothingDeferred ==
  ASSUME ~ReparseDeferral, NEW bytes, NEW final, CallProcessor(bytes, final)
  PROVE  ~deferring'
  BY DEF CallProcessor

LEMMA DrainedStep ==
  ASSUME Typed, Following, Drained, [Next]_vars
  PROVE  Drained'
<1>. SUFFICES ASSUME ~ReparseDeferral  PROVE Drained'
  BY DEF Drained
<1>1. CASE /\ UNCHANGED <<parserVars, expatVars>> /\ state' \in {state, "Failed"}
           /\ pc = "Parse" => pc' = "Parse"
  BY <1>1 DEF Drained, CompleteToken, Consumed, parserVars, expatVars
<1>2. CASE (\E size \in Chunks : FeedAccepted(size) \/ FeedOverLimit(size))
             \/ FeedOrFinishRejected \/ FinishAccepted \/ NextAccepted \/ NextRejected
             \/ TakeDiagnostics
  BY <1>1, <1>2 DEF FeedAccepted, FeedOverLimit, FeedOrFinishRejected, FinishAccepted,
     NextAccepted, NextRejected, TakeDiagnostics, Refuse, coordinatorVars, callerVars
<1>3. CASE PumpSkipsResume \/ PumpDone \/ PumpResumeFails
  BY <1>1, <1>3 DEF PumpSkipsResume, PumpDone, PumpResumeFails, PumpFails, coordinatorVars
<1>4. CASE PumpResumes
  <2>1. /\ pc' = "Parse" /\ state' = state /\ state # "Failed" /\ parsing' = "Parsing"
        /\ UNCHANGED <<doc, received, cursor, endPending, finalBuffer, finished>>
    BY <1>4 DEF PumpResumes, BeginResume, XML_ResumeParser, coordinatorVars, Typed
  <2>2. ~deferring'
    BY <1>4, NothingDeferred DEF PumpResumes, BeginResume, XML_ResumeParser
  <2>. QED  BY <2>1, <2>2 DEF Drained, CompleteToken, Consumed
<1>5. CASE PumpFeedsChunk
  <2>1. CASE BeginFeed(Head(inputQueue)) /\ pc' = "Parse"
    <3>1. ~finished /\ finished' = finished /\ ~finalBuffer'
      BY <2>1 DEF BeginFeed, FeedRefused, XML_ParseBuffer
    <3>2. ~deferring'
      BY <2>1, NothingDeferred DEF BeginFeed, XML_ParseBuffer
    <3>. QED  BY <2>1, <3>1, <3>2 DEF Drained
  <2>2. CASE UNCHANGED <<pc, parserVars, expatVars>>
    BY <1>1, <1>5, <2>2 DEF PumpFeedsChunk, coordinatorVars
  <2>. QED  BY <1>5, <2>1, <2>2 DEF PumpFeedsChunk
<1>6. CASE PumpFinishes
  <2>1. /\ pc = "Drain" /\ ~suspended /\ pc' = "Parse" /\ parsing' = "Parsing"
        /\ received' = received + 0 /\ finalBuffer' /\ state # "Failed"
        /\ UNCHANGED <<doc, cursor, endPending, state>>
    BY <1>6 DEF PumpFinishes, MayFinish, BeginFinish, XML_ParseBuffer, coordinatorVars, Typed
  <2>2. ~deferring'
    BY <1>6, NothingDeferred DEF PumpFinishes, BeginFinish, XML_ParseBuffer
  <2>3. ~endPending' /\ ~CompleteToken(received)
    BY <2>1 DEF Drained
  <2>4. received' = received /\ Consumed' = Consumed
    BY <2>1, RestType DEF Consumed
  <2>5. ~(cursor' < Len(doc'.tokens) /\ received' - Consumed' >= TokenBytes)
    BY <2>1, <2>3, <2>4 DEF CompleteToken
  <2>. QED  BY <2>1, <2>2, <2>3, <2>5 DEF Drained, CompleteToken
<1>7. CASE InParser /\ Running
  <2>1. /\ pc = "Parse" /\ pc' = "Parse" /\ state # "Failed"
        /\ UNCHANGED <<deferring, finished, finalBuffer>>
    BY <1>7, ParserMoves DEF Running, callerVars
  <2>2. Ready \/ endPending
    BY <1>7, ParserMoves DEF Malformed, TokenStep, HalfStep
  <2>3. ~finalBuffer
    BY <2>1, <2>2 DEF Drained, Ready
  <2>. QED  BY <2>1, <2>3 DEF Drained
<1>8. CASE InParser /\ ~Running
  <2>1. /\ pc = "Parse" /\ pc' = "Parse" /\ state' = state /\ ~endPending'
        /\ UNCHANGED <<doc, received, cursor, deferring, finalBuffer, finished, parsing>>
    BY <1>8, BrokenMoves DEF callerVars
  <2>. QED  BY <2>1 DEF Drained, CompleteToken, Consumed
<1>9. CASE ParserReturns
  <2>1. /\ ~endPending /\ ~Ready /\ parsing \in {"Parsing", "Suspended"} /\ state # "Failed"
        /\ suspended' = (parsing = "Suspended") /\ finished' = (finished \/ finalBuffer)
        /\ parsing' = IF parsing = "Parsing" /\ finalBuffer THEN "Finished" ELSE parsing
        /\ UNCHANGED <<doc, received, cursor, endPending, deferring, finalBuffer>>
    BY <1>9 DEF ParserReturns, ParseSucceeds, ParseReturns, Typed
  <2>2. parsing = "Parsing" => ~CompleteToken(received)
    BY <2>1 DEF Drained, Ready
  <2>. QED  BY <2>1, <2>2 DEF Drained, CompleteToken, Consumed
<1>10. CASE ParserReturnsEarly \/ ParserThrows
  <2>1. /\ state' = "Failed" /\ UNCHANGED <<deferring, finalBuffer>>
        /\ finished' \in {finished, finished \/ finalBuffer}
    BY <1>10 DEF ParserReturnsEarly, ParserThrows, ParseSucceeds, ParseFails, PumpFails, expatVars
  <2>. QED  BY <2>1 DEF Drained
<1>11. CASE Return
  BY <1>1, <1>11 DEF Return, ReturnOk, ReturnEvent, ReturnNoEvent, Answer, coordinatorVars
<1>12. CASE UNCHANGED vars
  BY <1>1, <1>12 DEF vars, coordinatorVars, callerVars
<1>. QED
  BY <1>2, <1>3, <1>4, <1>5, <1>6, <1>7, <1>8, <1>9, <1>10, <1>11, <1>12
     DEF Next, Feed, Pump, Parse, InParser

\* What holds at every state beside Reading.
Flowing == Reading /\ Rooted /\ Placed /\ Drained

LEMMA FlowingInvariant == Spec => []Flowing
<1>1. Init => Flowing
  <2>. SUFFICES ASSUME Init  PROVE Flowing
    OBVIOUS
  <2>1. Reading
    BY ReadingInit
  <2>2. /\ cursor = 0 /\ received = 0 /\ inputQueue = <<>> /\ totalFed = 0 /\ pc = "Idle"
        /\ state = "BeforeRoot" /\ endPending = FALSE /\ finalBuffer = FALSE /\ deferring = FALSE
        /\ finished = FALSE
    BY DEF Init, ExpatInit, ParserInit
  <2>3. /\ Consumed = 0 /\ DocBytes \in Nat /\ TokenBytes \in Nat \ {0}
    BY <2>1, <2>2, RestType, TokenBytesAssumption DEF Consumed, Reading, Inductive
  <2>4. Rooted
    BY <2>2 DEF Rooted, RootSeen
  <2>5. Placed
    BY <2>2, <2>3 DEF Placed, Rest
  <2>6. ~CompleteToken(received)
    BY <2>2, <2>3 DEF CompleteToken
  <2>7. Drained
    BY <2>2, <2>6 DEF Drained
  <2>. QED  BY <2>1, <2>4, <2>5, <2>7 DEF Flowing
<1>2. Flowing /\ [Next]_vars => Flowing'
  <2>. SUFFICES ASSUME Flowing, [Next]_vars  PROVE Flowing'
    OBVIOUS
  <2>1. Reading'
    BY ReadingStep DEF Flowing
  <2>2. Rooted' /\ Placed' /\ Drained'
    BY RootedStep, PlacedStep, DrainedStep DEF Flowing, Reading, Inductive
  <2>. QED  BY <2>1, <2>2 DEF Flowing
<1>. QED  BY <1>1, <1>2, PTL DEF Spec

\* next() asks for input only if everything fed so far is parsed and handed out (but for
\* what Expat defers) and finish() was not called.
THEOREM InputIsUsedUp == Spec => NeedInputMeansDrained
<1>. DEFINE A == reply' = "NeedInput" /\ pc = "Reply" =>
                   /\ ~finishCalled /\ inputQueue = <<>> /\ delivered = emitted
                   /\ ~ReparseDeferral => ~CompleteToken(totalFed)
<1>1. ASSUME Flowing, [Next]_vars  PROVE [A]_vars
  <2>. SUFFICES ASSUME Next, reply' = "NeedInput", pc = "Reply"
                PROVE  /\ ~finishCalled /\ inputQueue = <<>> /\ delivered = emitted
                       /\ ~ReparseDeferral => ~CompleteToken(totalFed)
    BY <1>1
  <2>1. ReturnNoEvent
    <3>1. ~((\E size \in Chunks : FeedAccepted(size) \/ FeedOverLimit(size))
              \/ FeedOrFinishRejected \/ FinishAccepted \/ NextAccepted \/ NextRejected
              \/ TakeDiagnostics)
      BY DEF FeedAccepted, FeedOverLimit, FeedOrFinishRejected, FinishAccepted, NextAccepted,
         NextRejected, TakeDiagnostics, Flowing, Reading, Inductive, Typed, callerVars
    <3>2. ~Pump
      BY DEF Pump, PumpResumes, PumpResumeFails, PumpSkipsResume, PumpFeedsChunk, PumpFinishes,
         PumpDone
    <3>3. ~Parse
      BY DEF Parse, StartElement, EndElement, SkippedEndElement, CharacterData, Doctype,
         Malformed, ParserReturns, ParserReturnsEarly, ParserThrows, InCallback
    <3>4. ~ReturnOk /\ ~ReturnEvent
      BY DEF ReturnOk, ReturnEvent, Answer
    <3>. QED  BY <3>1, <3>2, <3>3, <3>4 DEF Next, Feed, Return
  <2>2. /\ call = "Next" /\ held = <<>> /\ eventQueue = <<>> /\ ~parseComplete
        /\ state # "Failed" /\ ~suspended /\ Settled
    BY <1>1, <2>1 DEF ReturnNoEvent, Answer, Flowing, Reading, Inductive, Pumped, Typed
  <2>3. ~finishCalled /\ inputQueue = <<>>
    BY <2>2 DEF Settled
  <2>4. delivered = emitted
    <3>1. (delivered \o held) \o eventQueue = emitted /\ delivered \in Seq(Event)
      BY <1>1 DEF Flowing, Reading, Inductive, History, DeliveredInOrder, Typed, TypeOK,
         CallerTypeOK
    <3>. QED  BY <2>2, <3>1, ConcatEmptySeq
  <2>5. ~ReparseDeferral => ~CompleteToken(totalFed)
    <3>1. received = totalFed
      BY <1>1, <2>3, ReceivedIsFed DEF Flowing, Reading, Inductive
    <3>. QED  BY <1>1, <2>2, <3>1 DEF Flowing, Drained
  <2>. QED  BY <2>3, <2>4, <2>5
<1>2. Flowing /\ [Next]_vars => [A]_vars
  BY <1>1
<1>. HIDE DEF A
<1>3. Spec => [][A]_vars
  BY <1>2, FlowingInvariant, PTL DEF Spec
<1>. QED  BY <1>3 DEF NeedInputMeansDrained, A

-----------------------------------------------------------------------------
(* How long the queue gets *)

\* Events that a token may stand for, the limit that follows, the callback still to come of an
\* empty-element tag, and the whole tokens that Expat has and has not read.
Per == IF HasEmptyBasket THEN 2 ELSE 1
Limit == QueueLimit(Per)
Pending == IF endPending THEN 1 ELSE 0
Left == Rest \div TokenBytes

\* A parser that may suspend leaves room for one token's events; a resumed one leaves room for
\* those of all that it has; and once a token of a piece is read, less than a piece is left.
Bounded ==
  ~ReparseDeferral =>
    /\ Len(eventQueue) <= Limit
    /\ Running =>
         /\ suspended \/ parsing = "Suspended" \/ endPending => Rest < QueuedInputChunkSize
         /\ ~suspended /\ parsing # "Suspended" => Len(eventQueue) <= Limit - Per
         /\ pc = "Parse" /\ ~suspended /\ parsing # "Suspended" =>
              Rest < QueuedInputChunkSize + TokenBytes
         /\ ~suspended /\ parsing = "Suspended" => Len(eventQueue) + Pending <= Limit
         /\ pc = "Parse" /\ suspended =>
              parsing # "Suspended" /\ Len(eventQueue) + Per * Left + Pending <= Limit - Per

LEMMA Wholes ==
  ASSUME NEW r \in Nat, NEW q \in Nat \ {0}, NEW b \in Nat \ {0}, r < q
  PROVE  /\ r \div b \in Nat /\ (q + b - 1) \div b \in Nat
         /\ r \div b + 1 <= (q + b - 1) \div b
<1>. DEFINE a == q + b - 1
            j == r \div b
            k == a \div b
            m == r % b
            n == a % b
<1>1. /\ a \in Nat /\ j \in Nat /\ k \in Nat /\ m \in Nat /\ n \in Nat /\ n < b
      /\ r = j * b + m /\ a = k * b + n
  BY DivMod
<1>2. j * b \in Nat /\ k * b \in Nat /\ r + b <= a
  BY <1>1
<1>. HIDE DEF a, j, k, m, n
<1>3. ~(k < j + 1)
  <2>1. SUFFICES ASSUME k + 1 <= j + 1  PROVE FALSE
    BY <1>1
  <2>2. /\ (k + 1) * b <= (j + 1) * b
        /\ (k + 1) * b = k * b + b /\ (j + 1) * b = j * b + b
    BY <1>1, <2>1, ProductOrder
  <2>. QED  BY <1>1, <1>2, <2>2
<1>4. j + 1 <= k
  BY <1>1, <1>3
<1>. QED  BY <1>1, <1>4, Zenon DEF a, j, k

\* One token read is one token less to read.
LEMMA OneLess ==
  ASSUME NEW a \in Nat, NEW b \in Nat \ {0}, a >= b
  PROVE  (a - b) \div b = (a \div b) - 1 /\ a \div b >= 1
<1>. DEFINE q == a \div b
            m == a % b
<1>1. q \in Nat /\ m \in Nat /\ m < b /\ a = q * b + m
  BY DivMod
<1>. HIDE DEF q, m
<1>2. q >= 1
  <2>1. SUFFICES ASSUME q = 0  PROVE FALSE
    BY <1>1
  <2>. QED  BY <1>1, <2>1
<1>3. q - 1 \in Nat /\ a - b \in Nat /\ (q - 1) * b = q * b - b /\ q * b \in Nat
  BY <1>1, <1>2
<1>4. (q - 1) * b <= a - b /\ a - b < (q - 1) * b + b
  BY <1>1, <1>3
<1>5. (a - b) \div b = q - 1
  BY <1>3, <1>4, Quotient
<1>. QED  BY <1>2, <1>5 DEF q

LEMMA LimitFacts ==
  ASSUME Typed
  PROVE  /\ Per \in {1, 2} /\ Limit \in Nat /\ Len(eventQueue) \in Nat
         /\ MaxQueuedEvents \in Nat \ {0} /\ MaxQueuedEvents - 1 <= Limit - Per
         /\ Rest >= 0 => Left \in Nat
         /\ Rest >= 0 /\ Rest < QueuedInputChunkSize =>
              MaxQueuedEvents - 1 + Per * Left <= Limit - Per
<1>. DEFINE k == (QueuedInputChunkSize + TokenBytes - 1) \div TokenBytes
<1>1. /\ Per \in {1, 2} /\ MaxQueuedEvents \in Nat \ {0}
      /\ QueuedInputChunkSize \in Nat \ {0} /\ TokenBytes \in Nat \ {0}
  BY MaxQueuedEventsAssumption, LimitsAssumption, TokenBytesAssumption DEF Per
<1>2. Len(eventQueue) \in Nat
  BY DEF Typed, TypeOK, QueueTypeOK
<1>3. /\ \A r \in Nat : r < QueuedInputChunkSize => r \div TokenBytes + 1 <= k
      /\ \A r \in Nat : r \div TokenBytes \in Nat
      /\ k \in Nat /\ k >= 1
  <2>1. \A r \in Nat : r < QueuedInputChunkSize =>
          r \div TokenBytes \in Nat /\ k \in Nat /\ r \div TokenBytes + 1 <= k
    BY <1>1, Wholes
  <2>2. 0 \in Nat /\ 0 < QueuedInputChunkSize
    BY <1>1
  <2>3. k \in Nat /\ k >= 1
    <3>. HIDE DEF k
    <3>1. 0 \div TokenBytes \in Nat /\ k \in Nat /\ 0 \div TokenBytes + 1 <= k
      BY <2>1, <2>2
    <3>. QED  BY <3>1
  <2>4. \A r \in Nat : r \div TokenBytes \in Nat
    BY <1>1, DivMod
  <2>. QED  BY <2>1, <2>3, <2>4
<1>4. Limit = MaxQueuedEvents - 1 + Per * k
  BY DEF Limit, QueueLimit
<1>. HIDE DEF k
<1>5. Rest \in Int
  BY RestType
<1>6. Rest >= 0 => Left \in Nat
  BY <1>3, <1>5 DEF Left
<1>7. Rest >= 0 /\ Rest < QueuedInputChunkSize => Left + 1 <= k
  BY <1>3, <1>5 DEF Left
<1>8. \A l \in Nat : /\ l + 1 <= k => Per * l + Per <= Per * k
                     /\ Per * l \in Nat
  <2>1. CASE Per = 1
    BY <1>3, <2>1
  <2>2. CASE Per = 2
    BY <1>3, <2>2
  <2>. QED  BY <1>1, <2>1, <2>2
<1>9. Per * k \in Nat /\ Per <= Per * k
  BY <1>1, <1>3
<1>10. /\ Limit \in Nat /\ MaxQueuedEvents - 1 <= Limit - Per
       /\ \A x \in Nat : x + Per <= Per * k => MaxQueuedEvents - 1 + x <= Limit - Per
  BY <1>1, <1>4, <1>9
<1>11. ASSUME Rest >= 0, Rest < QueuedInputChunkSize
       PROVE  MaxQueuedEvents - 1 + Per * Left <= Limit - Per
  BY <1>6, <1>7, <1>8, <1>10, <1>11
<1>. QED  BY <1>1, <1>2, <1>6, <1>10, <1>11

\* Without empty baskets, the start callback of an empty-element tag queues nothing.
LEMMA QuietStart ==
  ASSUME Typed, Following, Running, ~HasEmptyBasket, StartElement, NextToken.tag = "empty"
  PROVE  callbackError' \/ (eventQueue' = eventQueue /\ parsing' = parsing)
<1>. DEFINE e == NextToken.element
            w == Run(cursor)
            r == DialectStart(e)
<1>1. /\ Ready /\ ~endPending
      /\ \/ CallbackFailsAtOnce
         \/ RootElement(e)
         \/ /\ Len(tags) < MaxDepth /\ state = "InRoot"
            /\ Callback(r, state, depth + 1)
  BY DEF StartElement
<1>. HIDE DEF r
<1>2. CASE CallbackFailsAtOnce
  <2>1. callbackError'
    BY <1>2 DEF CallbackFailsAtOnce, CallbackFails
  <2>. QED  BY <2>1
<1>3. CASE RootElement(e)
  <2>1. CallbackFailsAtOnce \/ (UNCHANGED queueVars /\ parsing' = parsing)
    BY <1>3 DEF RootElement
  <2>. QED  BY <1>2, <2>1 DEF queueVars
<1>4. CASE CallbackThrows(r)
  <2>1. callbackError'
    BY <1>4 DEF CallbackThrows, CallbackFails
  <2>. QED  BY <2>1
<1>5. CASE CallbackReturns(r, state, depth + 1) /\ state = "InRoot" /\ Len(tags) < MaxDepth
  <2>1. /\ cursor + 1 \in 1 .. Len(doc.tokens) /\ NextToken = doc.tokens[cursor + 1]
        /\ (cursor + 1) - 1 = cursor
    BY <1>1, NextTokenRead
  <2>2. w = Known /\ tags # <<>> /\ tags \in Seq(Element) /\ emitted \in Seq(Event)
    BY <1>1, <1>5 DEF Following, Expected, Running, Typed, TypeOK, ExpatTypeOK, QueueTypeOK
  <2>3. /\ ~Known.stopped /\ Known.open = tags /\ Known.begun /\ Known.events = emitted
        /\ Known.version = detected /\ Known.dialect = dialect
    BY <1>5 DEF Known
  <2>4. ~Misplaced(Known, NextToken)
    BY <2>2, <2>3 DEF Misplaced
  <2>5. Opened(Known, e) = Took(Known, r, <<e>> \o tags)
    <3>1. ~(Len(Known.open) >= MaxDepth)
      <4>1. Len(tags) \in Nat /\ MaxDepth \in Nat
        BY <2>2, OptionsAssumption
      <4>. QED  BY <1>5, <2>3, <4>1
    <3>. QED  BY <2>3, <3>1 DEF Opened, DialectStart, r
  <2>6. Opened(Known, e).events = emitted
    <3>1. /\ NextToken.tag = "empty" /\ ~w.stopped /\ ~Misplaced(w, NextToken)
      BY <2>2, <2>3, <2>4
    <3>2. Opened(w, e).events = w.events
      <4>1. w = ReadInOnePiece(doc.tokens)[(cursor + 1) - 1]
        BY <2>1 DEF Run
      <4>. HIDE DEF w
      <4>. QED  BY <2>1, <3>1, <4>1 DEF HasEmptyBasket
    <3>. QED  BY <2>2, <2>3, <3>2
  <2>7. ~r.thrown
    BY <1>5 DEF CallbackReturns
  <2>8. r.emit = <<>>
    <3>1. SUFFICES ASSUME r.emit # <<>>  PROVE FALSE
      OBVIOUS
    <3>2. Took(Known, r, <<e>> \o tags).events = Append(emitted, Head(r.emit))
      <4>. HIDE DEF e
      <4>. QED  BY <2>7, <3>1 DEF Took, Known
    <3>3. Append(emitted, Head(r.emit)) # emitted
      <4>1. Len(Append(emitted, Head(r.emit))) = Len(emitted) + 1 /\ Len(emitted) \in Nat
        <5>1. Append(emitted, Head(r.emit)) = emitted \o <<Head(r.emit)>>
          BY <2>2 DEF Append
        <5>. QED  BY <2>2, <5>1
      <4>. QED  BY <4>1
    <3>. QED  BY <2>5, <2>6, <3>2, <3>3
  <2>9. UNCHANGED queueVars /\ parsing' = parsing
    BY <1>5, <2>8 DEF CallbackReturns
  <2>. QED  BY <2>9 DEF queueVars
<1>. QED  BY <1>1, <1>2, <1>3, <1>4, <1>5 DEF Callback

LEMMA BoundedInParser ==
  ASSUME Typed, Following, Placed, Bounded, InParser
  PROVE  Bounded'
<1>. SUFFICES ASSUME ~ReparseDeferral  PROVE Bounded'
  BY DEF Bounded
<1>. DEFINE T == TokenBytes
            Q == QueuedInputChunkSize
            L == Len(eventQueue)
<1>1. /\ doc' = doc /\ Per' = Per /\ Limit' = Limit
  <2>1. doc' = doc
    BY ParserMoves, BrokenMoves
  <2>. QED  BY <2>1 DEF Per, Limit, HasEmptyBasket, QueueLimit
<1>2. /\ Per \in {1, 2} /\ Limit \in Nat /\ L \in Nat /\ Left \in Nat /\ Rest \in Int /\ Rest >= 0
      /\ MaxQueuedEvents \in Nat \ {0} /\ MaxQueuedEvents - 1 <= Limit - Per
      /\ T \in Nat \ {0} /\ Q \in Nat /\ L <= Limit
  BY LimitFacts, RestType, TokenBytesAssumption, LimitsAssumption DEF Placed, Bounded
<1>3. CASE ~Running
  <2>1. eventQueue' = eventQueue /\ ~Running'
    BY <1>3, BrokenMoves DEF queueVars, Running
  <2>. QED  BY <1>1, <1>2, <2>1 DEF Bounded
<1>4. CASE Running
  <2>1. /\ pc = "Parse" /\ pc' = "Parse" /\ suspended' = suspended /\ received' = received
        /\ endPending \in BOOLEAN
    BY <1>4, ParserMoves DEF callerVars, Typed, TypeOK, ExpatTypeOK
  <2>2. /\ suspended \/ parsing = "Suspended" \/ endPending => Rest < Q
        /\ ~suspended /\ parsing # "Suspended" => L <= Limit - Per /\ Rest < Q + T
        /\ ~suspended /\ parsing = "Suspended" => L + Pending <= Limit
        /\ suspended => parsing # "Suspended" /\ L + Per * Left + Pending <= Limit - Per
    BY <1>4, <2>1 DEF Bounded
  <2>3. QueueMove => \/ Len(eventQueue') = L
                     \/ AsksToSuspend /\ Len(eventQueue') = L + 1
                     \/ ~callbackError' /\ Len(eventQueue') = L + 1
    BY DEF QueueMove
  <2>4. CASE Malformed
    <3>1. /\ UNCHANGED <<eventQueue, cursor, endPending, callbackError>> /\ parsing' = "Finished"
          /\ parsing = "Parsing" /\ ~endPending
      BY <2>4 DEF Malformed, Ready, queueVars, parserVars
    <3>2. Rest' = Rest /\ Left' = Left /\ Pending' = Pending
      BY <1>1, <2>1, <3>1 DEF Rest, Left, Consumed, Pending
    <3>. QED  BY <1>1, <1>2, <2>1, <2>2, <3>1, <3>2 DEF Bounded
  <2>5. CASE TokenStep
    <3>1. /\ parsing = "Parsing" /\ ~endPending /\ Pending = 0 /\ QueueMove
          /\ Rest' = Rest - T /\ Rest >= T /\ Rest' >= 0
      <4>1. Rest' = Rest - T /\ Rest >= T
        BY <1>1, <2>1, <2>5, RestStep DEF TokenStep, Ready, CompleteToken, Rest
      <4>. QED  BY <1>2, <2>5, <4>1 DEF TokenStep, Ready, Pending
    <3>2. Left' = Left - 1 /\ Per * Left' = Per * Left - Per /\ Per * Left \in Nat
      <4>1. Left' = Left - 1
        <5>1. Left' = Rest' \div TokenBytes /\ Left = Rest \div TokenBytes
          BY DEF Left
        <5>2. (Rest - T) \div T = (Rest \div T) - 1
          <6>1. Rest \in Nat
            BY <1>2
          <6>. QED  BY <1>2, <3>1, <6>1, OneLess
        <5>. QED  BY <3>1, <5>1, <5>2
      <4>2. CASE Per = 1
        BY <1>2, <4>1, <4>2
      <4>3. CASE Per = 2
        BY <1>2, <4>1, <4>3
      <4>. QED  BY <1>2, <4>1, <4>2, <4>3
    <3>3. Rest' < Q
      BY <1>2, <2>2, <3>1
    <3>4. Pending' \in {0, 1} /\ (Pending' = 1 <=> endPending')
      BY DEF Pending
    <3>5. CASE callbackError'
      <4>1. Len(eventQueue') <= Limit
        BY <1>2, <2>2, <2>3, <3>1, <3>5 DEF AsksToSuspend
      <4>. QED  BY <1>1, <3>5, <4>1 DEF Bounded, Running
    <3>6. CASE ~callbackError'
      <4>1. \/ Len(eventQueue') = L /\ parsing' = parsing
            \/ Len(eventQueue') = L + 1 /\ parsing' = "Suspended" /\ AsksToSuspend
            \/ Len(eventQueue') = L + 1 /\ parsing' = parsing /\ ~AsksToSuspend
        BY <3>1, <3>6 DEF QueueMove
      <4>2. endPending' /\ Per = 1 => Len(eventQueue') = L /\ parsing' = parsing
        BY <1>4, <2>5, <3>6, QuietStart DEF TokenStep, Per
      <4>3. CASE suspended
        <5>1. parsing' = parsing /\ Len(eventQueue') + Pending' <= L + Per
          BY <1>2, <3>4, <4>1, <4>2, <4>3 DEF AsksToSuspend
        <5>2. Len(eventQueue') + Per * Left' + Pending' <= Limit - Per
          BY <1>2, <2>2, <3>1, <3>2, <3>4, <4>1, <4>3, <5>1
        <5>. QED
          BY <1>1, <1>2, <2>1, <3>1, <3>2, <3>3, <3>4, <4>1, <4>3, <5>1, <5>2 DEF Bounded
      <4>4. CASE ~suspended /\ parsing' = "Suspended"
        <5>1. Len(eventQueue') + Pending' <= Limit
          BY <1>2, <2>2, <3>1, <3>4, <4>1, <4>2, <4>4
        <5>. QED  BY <1>1, <1>2, <2>1, <3>3, <3>4, <4>4, <5>1 DEF Bounded
      <4>5. CASE ~suspended /\ parsing' # "Suspended"
        <5>1. Len(eventQueue') <= Limit - Per
          BY <1>2, <2>2, <3>1, <4>1, <4>5 DEF AsksToSuspend
        <5>. QED  BY <1>1, <1>2, <2>1, <3>1, <3>3, <4>5, <5>1 DEF Bounded
      <4>. QED  BY <4>3, <4>4, <4>5
    <3>. QED  BY <3>5, <3>6
  <2>6. CASE HalfStep
    <3>1. /\ endPending /\ ~endPending' /\ Pending = 1 /\ Pending' = 0 /\ QueueMove
          /\ Rest' = Rest /\ Left' = Left
      BY <1>1, <2>1, <2>6 DEF HalfStep, Pending, Left, Rest, Consumed
    <3>2. Rest < Q /\ Per * Left \in Nat
      <4>1. Rest < Q
        BY <2>2, <3>1
      <4>. QED  BY <1>2, <4>1
    <3>3. CASE callbackError'
      <4>1. Len(eventQueue') <= Limit
        BY <1>2, <2>2, <2>3, <3>1, <3>3 DEF AsksToSuspend
      <4>. QED  BY <1>1, <3>3, <4>1 DEF Bounded, Running
    <3>4. CASE ~callbackError'
      <4>1. \/ Len(eventQueue') = L /\ parsing' = parsing
            \/ Len(eventQueue') = L + 1 /\ parsing' = "Suspended" /\ AsksToSuspend
            \/ Len(eventQueue') = L + 1 /\ parsing' = parsing /\ ~AsksToSuspend
        BY <3>1, <3>4 DEF QueueMove
      <4>2. CASE suspended
        <5>1. parsing' = parsing /\ Len(eventQueue') + Pending' <= L + Pending
          BY <1>2, <3>1, <4>1, <4>2 DEF AsksToSuspend
        <5>2. Len(eventQueue') + Per * Left' + Pending' <= Limit - Per
          BY <1>2, <2>2, <3>1, <3>2, <4>1, <4>2, <5>1
        <5>. QED  BY <1>1, <1>2, <2>1, <2>2, <3>1, <3>2, <4>1, <4>2, <5>1, <5>2 DEF Bounded
      <4>3. CASE ~suspended /\ parsing' = "Suspended"
        <5>1. Len(eventQueue') + Pending' <= Limit
          BY <1>2, <2>2, <3>1, <4>1, <4>3
        <5>. QED  BY <1>1, <1>2, <2>1, <3>1, <3>2, <4>3, <5>1 DEF Bounded
      <4>4. CASE ~suspended /\ parsing' # "Suspended"
        <5>1. Len(eventQueue') <= Limit - Per
          BY <1>2, <2>2, <3>1, <4>1, <4>4 DEF AsksToSuspend
        <5>. QED  BY <1>1, <1>2, <2>1, <3>1, <3>2, <4>4, <5>1 DEF Bounded
      <4>. QED  BY <4>2, <4>3, <4>4
    <3>. QED  BY <3>3, <3>4
  <2>. QED  BY <1>4, <2>4, <2>5, <2>6, ParserMoves
<1>. QED  BY <1>3, <1>4

LEMMA BoundedStep ==
  ASSUME Flowing, Bounded, [Next]_vars
  PROVE  Bounded'
<1>. SUFFICES ASSUME ~ReparseDeferral  PROVE Bounded'
  BY DEF Bounded
<1>. DEFINE T == TokenBytes
            Q == QueuedInputChunkSize
            L == Len(eventQueue)
<1>1. /\ Typed /\ Following /\ Placed /\ Pumped /\ Buffered /\ Drained
      /\ doc' = doc /\ Per' = Per /\ Limit' = Limit
  <2>1. doc' = doc
    BY DocStays
  <2>. QED  BY <2>1 DEF Per, Limit, HasEmptyBasket, QueueLimit, Flowing, Reading, Inductive
<1>2. /\ Per \in {1, 2} /\ Limit \in Nat /\ L \in Nat /\ Rest \in Int /\ Rest >= 0
      /\ MaxQueuedEvents \in Nat \ {0} /\ MaxQueuedEvents - 1 <= Limit - Per
      /\ T \in Nat \ {0} /\ Q \in Nat \ {0} /\ L <= Limit /\ Left \in Nat
      /\ Rest < Q => MaxQueuedEvents - 1 + Per * Left <= Limit - Per
  BY <1>1, LimitFacts, RestType, TokenBytesAssumption, LimitsAssumption DEF Placed, Bounded
<1>3. /\ pc # "Parse" /\ state # "Failed" => ~endPending /\ (suspended <=> parsing = "Suspended")
      /\ pc # "Parse" /\ state # "Failed" /\ ~suspended => Rest < T
  BY <1>1, RestIsPartial DEF Drained, Pumped
<1>4. ASSUME Len(eventQueue') \in Nat, Len(eventQueue') <= L, state' = "Failed"
      PROVE  Bounded'
  <2>1. Len(eventQueue') <= Limit /\ ~Running'
    BY <1>2, <1>4 DEF Running
  <2>. QED  BY <1>1, <2>1 DEF Bounded
\* Between two calls into Expat, and at the end of one.
<1>5. ASSUME UNCHANGED <<received, cursor, endPending, suspended, parsing, callbackError, state>>,
             Len(eventQueue') \in Nat, Len(eventQueue') <= L, pc # "Parse", pc' # "Parse"
      PROVE  Bounded'
  <2>1. Rest' = Rest /\ (Running' <=> Running)
    BY <1>1, <1>5 DEF Rest, Consumed, Running
  <2>2. Len(eventQueue') <= Limit
    BY <1>2, <1>5
  <2>3. Running => ~(~suspended /\ parsing = "Suspended")
    BY <1>3, <1>5 DEF Running
  <2>4. Running /\ ~suspended /\ parsing # "Suspended" => Len(eventQueue') <= Limit - Per
    BY <1>2, <1>5 DEF Bounded
  <2>5. Running /\ (suspended \/ parsing = "Suspended" \/ endPending) => Rest < Q
    BY DEF Bounded
  <2>. QED  BY <1>1, <1>5, <2>1, <2>2, <2>3, <2>4, <2>5 DEF Bounded
<1>6. CASE UNCHANGED <<eventQueue, pc, received, cursor, endPending, suspended, parsing,
                       callbackError, state>>
  <2>1. /\ Rest' = Rest /\ Left' = Left /\ Pending' = Pending /\ Running' = Running
    BY <1>1, <1>6 DEF Rest, Left, Pending, Consumed, Running
  <2>. QED  BY <1>1, <1>6, <2>1 DEF Bounded
<1>7. CASE (\E size \in Chunks : FeedAccepted(size) \/ FeedOverLimit(size))
             \/ FeedOrFinishRejected \/ FinishAccepted \/ NextRejected \/ TakeDiagnostics
  <2>1. /\ pc = "Idle" /\ eventQueue' = eventQueue
        /\ UNCHANGED <<received, cursor, endPending, suspended, parsing, callbackError>>
        /\ state' \in {state, "Failed"} /\ pc' # "Parse"
    BY <1>7 DEF FeedAccepted, FeedOverLimit, FeedOrFinishRejected, FinishAccepted,
       NextRejected, TakeDiagnostics, Refuse, queueVars, coordinatorVars, callerVars,
       parserVars, expatVars
  <2>2. Len(eventQueue') \in Nat /\ Len(eventQueue') <= L
    BY <1>2, <2>1
  <2>. QED  BY <1>4, <1>5, <2>1, <2>2
<1>8. CASE NextAccepted
  <2>1. /\ pc = "Idle" /\ pc' = "Pump"
        /\ UNCHANGED <<received, cursor, endPending, suspended, parsing, callbackError, state>>
        /\ eventQueue' = IF eventQueue = <<>> THEN <<>> ELSE Tail(eventQueue)
        /\ eventQueue \in Seq(Event)
    BY <1>1, <1>8 DEF NextAccepted, coordinatorVars, parserVars, expatVars, Typed, TypeOK,
       QueueTypeOK
  <2>2. Len(eventQueue') \in Nat /\ Len(eventQueue') <= L
    BY <2>1
  <2>. QED  BY <1>5, <2>1, <2>2
<1>9. CASE PumpSkipsResume \/ PumpDone \/ PumpResumeFails
  <2>1. /\ pc # "Parse" /\ pc' # "Parse" /\ eventQueue' = eventQueue
        /\ UNCHANGED <<received, cursor, endPending, suspended, parsing, callbackError>>
        /\ state' \in {state, "Failed"}
    BY <1>9 DEF PumpSkipsResume, PumpDone, PumpResumeFails, PumpFails, queueVars,
       coordinatorVars, parserVars, expatVars
  <2>2. Len(eventQueue') \in Nat /\ Len(eventQueue') <= L
    BY <1>2, <2>1
  <2>. QED  BY <1>4, <1>5, <2>1, <2>2
<1>10. CASE PumpResumes
  <2>1. /\ pc = "Pump" /\ suspended /\ L < MaxQueuedEvents /\ parsing' = "Parsing"
        /\ UNCHANGED <<received, cursor, endPending, suspended, callbackError, state, eventQueue>>
        /\ state # "Failed"
    BY <1>1, <1>10 DEF PumpResumes, Resumes, BeginResume, XML_ResumeParser, queueVars,
       coordinatorVars, Typed
  <2>2. Rest' = Rest /\ Left' = Left /\ Pending' = 0 /\ (Running' <=> Running)
    BY <1>1, <1>3, <2>1 DEF Rest, Left, Pending, Consumed, Running
  <2>3. Running => Rest < Q
    BY <2>1 DEF Bounded
  <2>4. Rest < Q => L + Per * Left <= Limit - Per
    <3>1. Per * Left \in Nat
      BY <1>2
    <3>. QED  BY <1>2, <2>1, <3>1
  <2>5. Running => L + Per * Left + 0 <= Limit - Per
    <3>1. Per * Left \in Nat
      BY <1>2
    <3>. QED  BY <1>2, <2>3, <2>4, <3>1
  <2>. QED  BY <1>1, <1>2, <2>1, <2>2, <2>3, <2>5 DEF Bounded
<1>11. CASE PumpFeedsChunk \/ PumpFinishes
  <2>1. CASE UNCHANGED <<pc, parserVars, expatVars>> /\ PumpFeedsChunk
    BY <1>6, <2>1 DEF PumpFeedsChunk, parserVars, expatVars, queueVars, coordinatorVars
  <2>2. CASE \E size \in 0 .. Q :
               /\ received' = received + size /\ parsing' = "Parsing"
               /\ pc = "Drain" /\ ~suspended
               /\ UNCHANGED <<cursor, endPending, suspended, callbackError, state, eventQueue>>
    <3>1. PICK size \in 0 .. Q : received' = received + size
      BY <2>2
    <3>2. Rest' = (received + size) - Consumed /\ Rest = received - Consumed
      <4>1. Consumed' = Consumed
        BY <2>2 DEF Consumed
      <4>2. Rest' = received' - Consumed' /\ Rest = received - Consumed
        BY DEF Rest
      <4>. QED  BY <3>1, <4>1, <4>2
    <3>3. Rest' = Rest + size
      <4>1. received \in Nat /\ Consumed \in Nat
        BY <1>1, RestType
      <4>. QED  BY <1>2, <3>2, <4>1
    <3>4. state # "Failed"
      BY <1>1, <2>2 DEF Typed
    <3>5. Rest' < Q + T
      BY <1>2, <1>3, <2>2, <3>3, <3>4
    <3>6. Running => L <= Limit - Per
      BY <1>3, <2>2, <3>4 DEF Bounded
    <3>7. ~endPending'
      BY <1>3, <2>2, <3>4
    <3>. QED  BY <1>1, <1>2, <2>2, <3>5, <3>6, <3>7 DEF Bounded, Running
  <2>3. CASE PumpFeedsChunk /\ BeginFeed(Head(inputQueue))
    <3>1. Head(inputQueue) \in 0 .. Q
      <4>1. inputQueue \in Seq(Nat) /\ inputQueue # <<>>
        BY <1>1, <2>3 DEF PumpFeedsChunk, Typed, TypeOK, ReaderTypeOK
      <4>2. 1 \in DOMAIN inputQueue /\ Head(inputQueue) = inputQueue[1] /\ Head(inputQueue) \in Nat
        BY <4>1
      <4>. QED  BY <1>1, <1>2, <4>2 DEF Placed
    <3>. QED
      BY <2>2, <2>3, <3>1 DEF PumpFeedsChunk, BeginFeed, XML_ParseBuffer, queueVars,
         coordinatorVars
  <2>4. CASE PumpFinishes
    <3>1. 0 \in 0 .. Q
      BY <1>2
    <3>. QED
      BY <2>2, <2>4, <3>1 DEF PumpFinishes, MayFinish, BeginFinish, XML_ParseBuffer, queueVars,
         coordinatorVars
  <2>. QED  BY <1>11, <2>1, <2>3, <2>4 DEF PumpFeedsChunk
<1>12. CASE InParser
  BY <1>1, <1>12, BoundedInParser
<1>13. CASE ParserReturns
  <2>1. /\ pc = "Parse" /\ pc' = "Drain" /\ ~endPending /\ ~callbackError /\ state # "Failed"
        /\ parsing \in {"Parsing", "Suspended"} /\ suspended' = (parsing = "Suspended")
        /\ parsing' \in {parsing, "Finished"} /\ (parsing = "Suspended" => parsing' = parsing)
        /\ UNCHANGED <<received, cursor, endPending, callbackError, state, eventQueue>>
    BY <1>1, <1>13 DEF ParserReturns, ParseSucceeds, ParseReturns, queueVars, coordinatorVars,
       Typed
  <2>2. Running /\ Rest' = Rest
    BY <1>1, <2>1 DEF Running, Rest, Consumed
  <2>3. CASE parsing = "Suspended"
    <3>1. Rest < Q
      BY <2>2, <2>3 DEF Bounded
    <3>. QED  BY <1>1, <1>2, <2>1, <2>2, <2>3, <3>1 DEF Bounded
  <2>4. CASE parsing = "Parsing"
    <3>1. L <= Limit - Per
      <4>1. CASE suspended
        <5>1. L + Per * Left + Pending <= Limit - Per
          BY <2>1, <2>2, <4>1 DEF Bounded
        <5>2. Per * Left \in Nat /\ Pending \in Nat
          BY <1>2 DEF Pending
        <5>. QED  BY <1>2, <5>1, <5>2
      <4>2. CASE ~suspended
        BY <2>2, <2>4, <4>2 DEF Bounded
      <4>. QED  BY <4>1, <4>2
    <3>. QED  BY <1>1, <1>2, <2>1, <2>2, <2>4, <3>1 DEF Bounded
  <2>. QED  BY <2>1, <2>3, <2>4
<1>14. CASE ParserReturnsEarly \/ ParserThrows
  <2>1. state' = "Failed" /\ eventQueue' = eventQueue
    BY <1>14 DEF ParserReturnsEarly, ParserThrows, PumpFails, queueVars
  <2>. QED  BY <1>2, <1>4, <2>1
<1>15. CASE Return
  <2>1. /\ pc = "Reply" /\ pc' = "Idle"
        /\ UNCHANGED <<received, cursor, endPending, suspended, parsing, callbackError, state>>
        /\ \/ eventQueue' = eventQueue
           \/ eventQueue' = Tail(eventQueue) /\ eventQueue # <<>>
        /\ eventQueue \in Seq(Event)
    BY <1>1, <1>15 DEF Return, ReturnOk, ReturnEvent, ReturnNoEvent, Answer, coordinatorVars,
       parserVars, expatVars, Typed, TypeOK, QueueTypeOK
  <2>2. Len(eventQueue') \in Nat /\ Len(eventQueue') <= L
    BY <2>1
  <2>. QED  BY <1>5, <2>1, <2>2
<1>16. CASE UNCHANGED vars
  BY <1>6, <1>16 DEF vars, queueVars, callerVars, coordinatorVars, parserVars, expatVars
<1>. QED
  BY <1>7, <1>8, <1>9, <1>10, <1>11, <1>12, <1>13, <1>14, <1>15, <1>16
     DEF Next, Feed, Pump, Parse, InParser

LEMMA BoundedInit ==
  ASSUME Init
  PROVE  Bounded
<1>1. /\ eventQueue = <<>> /\ pc = "Idle" /\ suspended = FALSE /\ parsing = "Initialized"
      /\ endPending = FALSE
  BY DEF Init, ParserInit, ExpatInit
<1>2. Len(eventQueue) = 0
  BY <1>1
<1>3. /\ Per \in {1, 2} /\ Limit \in Nat
      /\ MaxQueuedEvents \in Nat \ {0} /\ MaxQueuedEvents - 1 <= Limit - Per
  BY ReadingInit, LimitFacts DEF Reading, Inductive
<1>. QED  BY <1>1, <1>2, <1>3 DEF Bounded

LEMMA BoundedInvariant == Spec => []Bounded
<1>1. Flowing /\ Bounded /\ [Next]_vars => Bounded'
  BY BoundedStep
<1>. QED  BY <1>1, BoundedInit, FlowingInvariant, PTL DEF Spec

\* Without deferred reparses, the queue exceeds its limit by no more than the events of the
\* tokens of one piece.
THEOREM QueueIsBounded == Spec => []QueueBound
<1>1. Flowing /\ Bounded => QueueBound
  <2>. SUFFICES ASSUME Bounded, ~ReparseDeferral  PROVE QueueBound
    BY DEF QueueBound
  <2>1. Len(eventQueue) <= Limit
    BY DEF Bounded
  <2>. QED  BY <2>1 DEF QueueBound, Limit, Per
<1>. QED  BY <1>1, FlowingInvariant, BoundedInvariant, PTL

-----------------------------------------------------------------------------
(* A valid document is read. *)

\* What a valid document needs not to fail: the document is within the caller's limit, Expat
\* defers nothing, and no empty-element tag is a basket, which the reader would suspend twice.
WithinLimit == MaxTotalInputBytes = 0 \/ DocBytes <= MaxTotalInputBytes
Granted == ~ReparseDeferral /\ ~HasEmptyBasket /\ WithinLimit

\* No callback throws, Expat finds no error, and no callback is left to a suspended parser; the
\* final parse fails only if the caller has not fed the whole document.
Sound ==
  Granted /\ doc.valid =>
    /\ state = "Failed" => finishCalled /\ totalFed < DocBytes
    /\ ~callbackError
    /\ pc = "Parse" => parsing # "Finished"
    /\ state # "Failed" /\ endPending => parsing = "Parsing"

LEMMA ValidNeverStops ==
  ASSUME Typed, doc.valid
  PROVE  /\ \A n \in 0 .. Len(doc.tokens) : ~Run(n).stopped
         /\ Run(Len(doc.tokens)).begun /\ Run(Len(doc.tokens)).open = <<>>
<1>. DEFINE N == Len(doc.tokens)
<1>1. /\ N \in Nat /\ ~Run(N).stopped /\ Run(N).begun /\ Run(N).open = <<>>
      /\ \A n \in 1 .. N : Run(n) = Read(Run(n - 1), doc.tokens[n])
  BY DocumentRead DEF StandsFor, Run
<1>. HIDE DEF N
<1>2. ASSUME NEW m \in 0 .. N, Run(m).stopped  PROVE FALSE
  <2>. DEFINE Stopped == {n \in Nat : n >= m => Run(n).stopped}
  <2>1. 0 \in Stopped
    BY <1>1, <1>2
  <2>2. ASSUME NEW n \in 1 .. N, n - 1 \in Stopped  PROVE n \in Stopped
    <3>1. CASE n - 1 >= m
      <4>1. Run(n - 1).stopped /\ Run(n) = Read(Run(n - 1), doc.tokens[n]) /\ n \in Nat
        BY <1>1, <2>2, <3>1
      <4>2. \A w : Stop(w) = [w EXCEPT !.stopped = TRUE]
        BY DEF Stop
      <4>3. Run(n) = Stop(Run(n - 1))
        BY <4>1 DEF Read
      <4>4. n - 1 \in 0 .. N
        BY <1>1, <2>2
      <4>5. Run(n - 1) \in Knowledge
        BY <4>4, DocumentRead DEF N, Knows
      <4>6. Run(n).stopped
        BY <4>3, <4>5 DEF Stop, Knowledge
      <4>. QED  BY <4>1, <4>6
    <3>2. CASE ~(n - 1 >= m)
      BY <1>1, <1>2, <2>2, <3>2
    <3>. QED  BY <3>1, <3>2
  <2>3. \A n \in 0 .. N : n \in Stopped
    <3>. HIDE DEF Stopped
    <3>. QED  BY <1>1, <2>1, <2>2, RangeInduction
  <2>4. N \in Stopped /\ N >= m
    BY <1>1, <2>3
  <2>. QED  BY <1>1, <2>4
<1>. QED  BY <1>1, <1>2 DEF N

\* A callback with a result that is not a failure returns, if a suspension is not refused.
LEMMA CallbackWorks ==
  ASSUME Running, DialectAgreement, NEW r, ResultOK(dialect, r), ~r.thrown,
         ~SuspendRefused, parsing = "Parsing", NEW s, NEW k, Callback(r, s, k)
  PROVE  CallbackReturns(r, s, k) /\ ~callbackError' /\ parsing' \in {"Parsing", "Suspended"}
<1>1. r.emit # <<>> => ValidOrder(Head(r.emit).kind)
  BY DEF ResultOK, Moves, ValidOrder, DialectAgreement, Running
<1>2. ~StopRejected
  BY DEF StopRejected
<1>3. CallbackReturns(r, s, k)
  BY <1>1, <1>2 DEF Callback, CallbackThrows
<1>. QED  BY <1>3 DEF CallbackReturns, Suspend, Running, parserVars

LEMMA SoundInParser ==
  ASSUME Typed, DialectAgreement, Following, Rooted, Placed, Drained, Sound, Granted, doc.valid,
         InParser
  PROVE  /\ ~callbackError' /\ parsing' # "Finished"
         /\ endPending' => parsing' = "Parsing"
<1>1. pc = "Parse" /\ Running /\ ~callbackError /\ state # "Failed"
  BY InParserStep DEF Sound, ParserStep, Running
<1>2. /\ Known = Expected /\ ~failed /\ inParse
      /\ endPending => HalfRead
      /\ RootSeen <=> state # "BeforeRoot"
      /\ state = "InRoot" <=> tags # <<>>
      /\ emitted \in Seq(Event) /\ tags \in Seq(Element)
  BY <1>1 DEF Following, Rooted, Placed, Typed, TypeOK, QueueTypeOK, ExpatTypeOK
<1>3. Ready \/ endPending => parsing = "Parsing" /\ ~SuspendRefused
  <2>1. Ready \/ endPending => ~finalBuffer /\ ~finished
    BY <1>1 DEF Drained, Granted, Ready
  <2>2. Ready \/ endPending => parsing = "Parsing"
    BY <1>1 DEF Sound, Ready
  <2>. QED  BY <1>2, <2>1, <2>2 DEF SuspendRefused
<1>4. /\ \A n \in 0 .. Len(doc.tokens) : ~Run(n).stopped
      /\ doc' = doc
  BY ValidNeverStops, ParserMoves, <1>1
\* The token to read has its place.
<1>5. ASSUME Ready, ~endPending
      PROVE  /\ ~Misplaced(Known, NextToken) /\ NextToken \in Token
             /\ Read(Known, NextToken) = Run(cursor + 1) /\ ~Run(cursor + 1).stopped
  <2>1. /\ cursor + 1 \in 1 .. Len(doc.tokens) /\ NextToken = doc.tokens[cursor + 1]
        /\ NextToken \in Token /\ (cursor + 1) - 1 = cursor
    BY <1>5, NextTokenRead
  <2>2. Run(cursor) = Known
    BY <1>2, <1>5 DEF Expected
  <2>3. Read(Known, NextToken) = Run(cursor + 1)
    BY <2>1, <2>2, DocumentRead
  <2>4. ~Run(cursor + 1).stopped
    <3>1. cursor + 1 \in 0 .. Len(doc.tokens)
      BY <2>1
    <3>. QED  BY <1>4, <3>1
  <2>5. ~Misplaced(Known, NextToken)
    <3>1. SUFFICES ASSUME Misplaced(Known, NextToken)  PROVE FALSE
      OBVIOUS
    <3>2. Run(cursor + 1) = Stop(Known)
      BY <2>3, <3>1 DEF Read
    <3>3. Stop(Known).stopped
      BY DEF Stop, Known
    <3>. QED  BY <2>4, <3>2, <3>3
  <2>. QED  BY <2>1, <2>3, <2>4, <2>5
<1>6. /\ ~Known.stopped /\ Known.open = tags /\ Known.version = detected
      /\ Known.dialect = dialect /\ (Known.begun <=> state # "BeforeRoot")
  BY DEF Known
\* What stops nothing has not thrown.
<1>7. \A r, open : ~Took(Known, r, open).stopped => ~r.thrown
  BY DEF Took, Stop, Known
<1>8. ~Malformed /\ ~Doctype
  <2>1. IllFormed => Misplaced(Known, NextToken)
    <3>1. Known.open = <<>> /\ RootSeen => Known.begun
      BY <1>2, <1>6
    <3>. QED  BY <1>6, <3>1, <1>2 DEF IllFormed, Misplaced
  <2>2. NextToken.tag = "doctype" => Misplaced(Known, NextToken)
    BY DEF Misplaced
  <2>. QED  BY <1>5, <2>1, <2>2 DEF Malformed, Doctype
<1>9. ~SkippedEndElement
  BY <1>1, <1>2 DEF SkippedEndElement, CallbackRuns
<1>10. CASE StartElement
  <2>. DEFINE e == NextToken.element
              v == Opened(Known, e)
              r == DialectStart(e)
  <2>1. /\ Ready /\ ~endPending /\ NextToken.tag \in {"start", "empty"} /\ ~IllFormed
        /\ endPending' = (NextToken.tag = "empty") /\ parsing = "Parsing" /\ ~SuspendRefused
        /\ \/ Len(tags) >= MaxDepth
           \/ RootElement(e)
           \/ state = "InRoot" /\ Callback(r, state, depth + 1)
    BY <1>3, <1>10 DEF StartElement, StartTagCallback
  <2>2. ~v.stopped
    <3>1. /\ NextToken.tag = "start" => Run(cursor + 1) = v
          /\ NextToken.tag = "empty" /\ v.stopped => Run(cursor + 1) = v
      BY <1>5, <1>6, <2>1 DEF Read
    <3>. QED  BY <1>5, <2>1, <3>1
  <2>3. ~(Len(tags) >= MaxDepth)
    <3>1. SUFFICES ASSUME Len(tags) >= MaxDepth  PROVE FALSE
      OBVIOUS
    <3>2. v = Stop(Known)
      BY <1>6, <3>1 DEF Opened
    <3>3. Stop(Known).stopped
      BY DEF Stop, Known
    <3>. QED  BY <2>2, <3>2, <3>3
  <2>4. CASE RootElement(e)
    <3>1. RootAccepted(e)
      <4>1. SUFFICES ASSUME ~RootAccepted(e)  PROVE FALSE
        OBVIOUS
      <4>2. v = Stop(Known)
        BY <1>6, <2>3, <2>4, <4>1 DEF Opened, TookRoot, RootElement
      <4>3. Stop(Known).stopped
        BY DEF Stop, Known
      <4>. QED  BY <2>2, <4>2, <4>3
    <3>2. parsing' = parsing /\ callbackError' = callbackError
      BY <2>4, <3>1 DEF RootElement, parserVars
    <3>. QED  BY <1>1, <2>1, <3>2
  <2>5. CASE state = "InRoot" /\ Callback(r, state, depth + 1)
    <3>1. v = Took(Known, r, <<e>> \o tags)
      BY <1>6, <2>3, <2>5 DEF Opened, DialectStart
    <3>2. ~r.thrown
      <4>. HIDE DEF r, v
      <4>. QED  BY <1>7, <2>2, <3>1
    <3>3. ResultOK(dialect, r)
      <4>1. e \in Element /\ DialectOK(dialect)
        BY <1>5, <2>1 DEF Token, Typed
      <4>. QED  BY <4>1, DialectResults
    <3>4. ~callbackError' /\ parsing' \in {"Parsing", "Suspended"}
      <4>. HIDE DEF r
      <4>. QED  BY <1>1, <2>1, <2>5, <3>2, <3>3, CallbackWorks
    <3>5. NextToken.tag = "empty" => parsing' = parsing
      <4>1. ~HasEmptyBasket
        BY DEF Granted
      <4>. QED  BY <1>1, <1>10, <3>4, <4>1, QuietStart
    <3>. QED  BY <2>1, <3>4, <3>5
  <2>. QED  BY <2>1, <2>3, <2>4, <2>5
<1>11. CASE EndElement
  <2>. DEFINE e == Head(tags)
              v == Closed(Known)
              r == IF depth = 1 THEN DialectRootClosed(e) ELSE DialectEnd(e)
  <2>1. /\ state = "InRoot" /\ parsing = "Parsing" /\ ~SuspendRefused
        /\ \E s, k : Callback(r, s, k)
    <3>1. /\ state = "InRoot" /\ parsing = "Parsing" /\ ~SuspendRefused
          /\ \/ depth = 1 /\ Callback(DialectRootClosed(e), "AfterRoot", 0)
             \/ depth > 1 /\ Callback(DialectEnd(e), state, depth - 1)
          /\ depth \in Nat
      BY <1>3, <1>11 DEF EndElement, Typed, TypeOK, CoordinatorTypeOK
    <3>2. CASE depth = 1
      <4>1. Callback(DialectRootClosed(e), "AfterRoot", 0)
        BY <3>1, <3>2
      <4>. QED  BY <3>1, <3>2, <4>1
    <3>3. CASE depth > 1
      <4>1. Callback(DialectEnd(e), state, depth - 1) /\ depth # 1
        BY <3>1, <3>3
      <4>. QED  BY <3>1, <3>3, <4>1
    <3>. QED  BY <3>1, <3>2, <3>3
  <2>2. /\ Run(cursor)' = v /\ ~endPending' /\ cursor' \in 0 .. Len(doc.tokens)
    BY <1>11, EndReads
  <2>3. ~v.stopped
    <3>1. Run(cursor') = v
      BY <1>4, <2>2 DEF Run
    <3>. HIDE DEF v
    <3>. QED  BY <1>4, <2>2, <3>1
  <2>4. v = Took(Known, r, Tail(tags))
    <3>1. depth = Len(tags)
      BY <1>1 DEF Following, Running
    <3>. QED  BY <1>6, <3>1 DEF Closed, DialectRootClosed, DialectEnd
  <2>5. ~r.thrown
    <3>. HIDE DEF r, v
    <3>. QED  BY <1>7, <2>3, <2>4
  <2>6. ResultOK(dialect, r)
    <3>1. e \in Element /\ DialectOK(dialect)
      BY <1>2, <2>1 DEF Typed
    <3>2. ResultOK(dialect, DialectRootClosed(e)) /\ ResultOK(dialect, DialectEnd(e))
      BY <3>1, DialectResults
    <3>. QED  BY <3>2
  <2>. HIDE DEF r
  <2>7. ~callbackError' /\ parsing' \in {"Parsing", "Suspended"}
    BY <1>1, <2>1, <2>5, <2>6, CallbackWorks
  <2>. QED  BY <2>2, <2>7
<1>12. CASE CharacterData
  <2>. DEFINE r == DialectText
              v == Took(Known, r, tags)
  <2>1. /\ Ready /\ ~endPending /\ NextToken.tag = "text" /\ endPending' = endPending
        /\ Callback(r, state, depth) /\ parsing = "Parsing" /\ ~SuspendRefused
    BY <1>3, <1>12 DEF CharacterData, OtherCallback
  <2>2. Run(cursor + 1) = v
    <3>1. OnText(Known.version, Known.dialect) = r
      BY <1>6 DEF DialectText
    <3>. QED  BY <1>5, <1>6, <2>1, <3>1 DEF Read
  <2>3. ~r.thrown
    <3>1. ~v.stopped
      <4>. HIDE DEF v
      <4>. QED  BY <1>5, <2>1, <2>2
    <3>. HIDE DEF r
    <3>. QED  BY <1>7, <3>1
  <2>4. ResultOK(dialect, r)
    BY DialectResults DEF Typed
  <2>. HIDE DEF r
  <2>. QED  BY <1>1, <2>1, <2>3, <2>4, CallbackWorks
<1>. QED  BY <1>8, <1>9, <1>10, <1>11, <1>12 DEF InParser

\* A final parse that fails has not seen the whole document.
LEMMA WholeIsNotTruncated ==
  ASSUME Typed, Following, Rooted, Placed, Drained, Pumped, Buffered, Granted, doc.valid, Running,
         finalBuffer, ~endPending, ~(totalFed < DocBytes)
  PROVE  ~Truncated
<1>1. received = totalFed /\ totalFed \in Nat /\ totalFed = DocBytes
  <2>1. inputQueue = <<>>
    BY DEF Pumped
  <2>. QED  BY <2>1, ReceivedIsFed, RestType DEF Placed, Typed, TypeOK, ReaderTypeOK
<1>2. cursor = Len(doc.tokens)
  <2>. DEFINE n == Len(doc.tokens)
  <2>1. /\ cursor \in Nat /\ n \in Nat /\ cursor <= n /\ TokenBytes \in Nat \ {0}
        /\ ~CompleteToken(received)
    BY RestType, TokenBytesAssumption DEF Drained, Granted, Running
  <2>2. SUFFICES ASSUME cursor < n  PROVE FALSE
    BY <2>1
  <2>3. ~(n * TokenBytes - cursor * TokenBytes >= TokenBytes)
    BY <1>1, <2>1, <2>2 DEF CompleteToken, Consumed, DocBytes
  <2>. HIDE DEF n
  <2>4. (cursor + 1) * TokenBytes <= n * TokenBytes
    BY <2>1, <2>2, ProductOrder
  <2>5. /\ (cursor + 1) * TokenBytes = cursor * TokenBytes + TokenBytes
        /\ cursor * TokenBytes \in Nat /\ n * TokenBytes \in Nat
    BY <2>1
  <2>. QED  BY <2>1, <2>3, <2>4, <2>5
<1>3. Known = Run(Len(doc.tokens)) /\ (RootSeen <=> state # "BeforeRoot")
  BY <1>2 DEF Following, Expected, Rooted, Running
<1>4. Known.begun /\ Known.open = <<>>
  BY <1>3, ValidNeverStops
<1>5. RootSeen /\ tags = <<>> /\ received = Consumed
  BY <1>1, <1>2, <1>3, <1>4 DEF Known, Consumed, DocBytes
<1>. QED  BY <1>5 DEF Truncated

LEMMA SoundStep ==
  ASSUME Flowing, DialectAgreement, Sound, [Next]_vars
  PROVE  Sound'
<1>1. /\ Typed /\ Following /\ Rooted /\ Placed /\ Drained /\ Pumped /\ Buffered
      /\ doc' = doc /\ DocBytes' = DocBytes /\ (Granted' <=> Granted)
  <2>1. doc' = doc
    BY DocStays
  <2>. QED
    BY <2>1 DEF Flowing, Reading, Inductive, DocBytes, Granted, HasEmptyBasket, WithinLimit
<1>. SUFFICES ASSUME Granted, doc.valid
              PROVE  /\ state' = "Failed" => finishCalled' /\ totalFed' < DocBytes
                     /\ ~callbackError'
                     /\ pc' = "Parse" => parsing' # "Finished"
                     /\ state' # "Failed" /\ endPending' => parsing' = "Parsing"
  BY <1>1 DEF Sound
<1>2. /\ state = "Failed" => finishCalled /\ totalFed < DocBytes
      /\ ~callbackError
      /\ pc = "Parse" => parsing # "Finished"
      /\ state # "Failed" /\ endPending => parsing = "Parsing"
      /\ state = "Failed" => pc = "Idle"
  BY <1>1 DEF Sound, Typed
<1>3. CASE /\ UNCHANGED <<callbackError, endPending, parsing, state>>
           /\ state = "Failed" => UNCHANGED <<totalFed, finishCalled>>
           /\ pc' = "Parse" => pc = "Parse"
  BY <1>2, <1>3
<1>4. CASE \E size \in Chunks : FeedAccepted(size)
  BY <1>3, <1>4 DEF FeedAccepted, coordinatorVars, parserVars, expatVars
<1>5. ~ \E size \in Chunks : FeedOverLimit(size)
  <2>1. SUFFICES ASSUME NEW size \in Chunks, OverLimit(size)  PROVE FALSE
    BY DEF FeedOverLimit
  <2>2. size \in Nat /\ size <= DocBytes - totalFed /\ totalFed \in Nat /\ DocBytes \in Nat
    BY <1>1, RestType DEF Chunks, Typed, TypeOK, ReaderTypeOK
  <2>3. MaxTotalInputBytes \in Nat
    BY LimitsAssumption
  <2>. QED  BY <2>1, <2>2, <2>3 DEF OverLimit, Granted, WithinLimit
<1>6. CASE FeedOrFinishRejected \/ FinishAccepted \/ NextAccepted \/ NextRejected
             \/ TakeDiagnostics
  BY <1>3, <1>6 DEF FeedOrFinishRejected, FinishAccepted, NextAccepted, NextRejected,
     TakeDiagnostics, Refuse, coordinatorVars, readerVars, callerVars, parserVars, expatVars
<1>7. CASE PumpSkipsResume \/ PumpDone
  BY <1>3, <1>7 DEF PumpSkipsResume, PumpDone, coordinatorVars, readerVars, parserVars, expatVars
<1>8. ~PumpResumeFails
  <2>1. SUFFICES ASSUME pc = "Pump", suspended, finished \/ failed  PROVE FALSE
    BY DEF PumpResumeFails, Resumes, ResumeRefused
  <2>2. state # "Failed" /\ parsing = "Suspended"
    BY <1>1, <1>2, <2>1 DEF Pumped
  <2>. QED  BY <1>1, <2>1, <2>2 DEF Drained, Following, Granted
<1>9. CASE PumpResumes \/ PumpFinishes \/ PumpFeedsChunk
  <2>1. CASE PumpFeedsChunk /\ UNCHANGED <<pc, parserVars, expatVars>>
    BY <1>2, <1>3, <2>1 DEF PumpFeedsChunk, coordinatorVars, parserVars, expatVars
  <2>2. CASE /\ pc \in {"Pump", "Drain"} /\ parsing' = "Parsing"
             /\ UNCHANGED <<callbackError, endPending, state>>
    BY <1>2, <2>2
  <2>. QED
    BY <1>9, <2>1, <2>2 DEF PumpResumes, PumpFinishes, PumpFeedsChunk, BeginResume, BeginFinish,
       BeginFeed, XML_ResumeParser, XML_ParseBuffer, coordinatorVars
<1>10. CASE InParser
  <2>1. /\ ~callbackError' /\ parsing' # "Finished"
        /\ endPending' => parsing' = "Parsing"
    BY <1>1, <1>10, SoundInParser
  <2>2. state' # "Failed"
    BY <1>10, InParserStep, <1>1 DEF ParserStep
  <2>. QED  BY <2>1, <2>2
<1>11. CASE ParserReturns
  BY <1>1, <1>2, <1>11 DEF ParserReturns, ParseSucceeds, ParseReturns, coordinatorVars
<1>12. ~ParserReturnsEarly
  <2>1. SUFFICES ASSUME pc = "Parse", ParseSucceeds, finalBuffer, ~TransferComplete
                 PROVE  FALSE
    BY DEF ParserReturnsEarly
  <2>2. state # "Failed" /\ Running
    BY <1>1, <1>2, <2>1 DEF Running
  <2>3. parsing # "Suspended"
    BY <1>1, <2>1, <2>2 DEF Drained, Granted
  <2>4. ~Truncated
    BY <2>1, <2>3 DEF ParseSucceeds
  <2>5. tags = <<>> /\ RootSeen
    BY <2>4 DEF Truncated
  <2>6. state = "AfterRoot"
    <3>1. state # "BeforeRoot" /\ state # "InRoot"
      BY <1>1, <2>2, <2>5 DEF Rooted, Following, Running
    <3>. QED  BY <1>1, <2>2, <3>1 DEF Typed, TypeOK, CoordinatorTypeOK, CoordinatorState
  <2>. QED  BY <1>1, <2>1, <2>2, <2>6 DEF Rooted, TransferComplete
<1>13. CASE ParserThrows
  <2>1. /\ pc = "Parse" /\ ParseFails /\ callbackError' = FALSE /\ state' = "Failed"
        /\ UNCHANGED <<finishCalled, totalFed>> /\ pc' = "Idle"
    BY <1>13 DEF ParserThrows, ParseFails, PumpFails, readerVars
  <2>2. /\ ~endPending /\ finalBuffer /\ Truncated /\ Running
    BY <1>2, <2>1 DEF ParseFails, ParseReturns, Running
  <2>3. totalFed < DocBytes /\ finishCalled
    BY <1>1, <2>2, WholeIsNotTruncated DEF Pumped
  <2>. QED  BY <2>1, <2>3
<1>14. CASE Return
  BY <1>3, <1>14 DEF Return, ReturnOk, ReturnEvent, ReturnNoEvent, Answer, coordinatorVars,
     readerVars, parserVars, expatVars
<1>15. CASE UNCHANGED vars
  BY <1>3, <1>15 DEF vars, coordinatorVars, readerVars, callerVars, parserVars, expatVars
<1>. QED
  BY <1>4, <1>5, <1>6, <1>7, <1>8, <1>9, <1>10, <1>11, <1>12, <1>13, <1>14, <1>15
     DEF Next, Feed, Pump, Parse, InParser

\* A reader whose Expat defers nothing never fails on a valid document within its limit that has
\* no empty-element basket, unless the caller finishes before it has fed the whole.
THEOREM ValidIsRead == Spec => [](Granted => ValidNeverFails)
<1>1. Init => Sound
  BY DEF Init, ParserInit, ExpatInit, Sound
<1>2. Flowing /\ DialectAgreement /\ Sound /\ [Next]_vars => Sound'
  BY SoundStep
<1>3. Sound => (Granted => ValidNeverFails)
  BY DEF Sound, ValidNeverFails
<1>. QED  BY <1>1, <1>2, <1>3, FlowingInvariant, Agreement, PTL DEF Spec
=============================================================================
