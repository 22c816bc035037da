--------------------------------- MODULE WasmApi ---------------------------------
(***************************************************************************)
(* The classes of packages/iox-wasm/index.js over the C ABI, in a program  *)
(* that converts: it reads with an IncrementalXtfReader, or with the eager *)
(* XtfReader, and writes what it gets with an XtfWriter.                   *)
(* Every call of the C ABI is a step.  A call that throws leaves the rest  *)
(* to the program, which may go on with the object or close it.            *)
(***************************************************************************)
EXTENDS CAbi

CONSTANTS
  MaxFailures,  \* a bound on the allocations that fail
  MaxErrors     \* a bound on the calls of the writer that throw before the program gives up

ASSUME MaxFailuresAssumption == MaxFailures \in Nat
ASSUME MaxErrorsAssumption == MaxErrors \in Nat

VARIABLES
  eager,        \* the reader is an XtfReader, whose constructor reads everything
  trouble,      \* the event that the writer does not just write, and its reaction
  failures,     \* the number of allocations that have failed
  pc,           \* what the JavaScript does next, or "idle"
  reader,       \* the handle of the C ABI,
  reading,      \* "open", "finished" or "closed": _finished and _closed,
  drained,      \* the events that drainReader() has so far,
  received,     \* the events returned to the program, or in _events of the eager reader,
  readerNotes,  \* and _diagnostics
  readerThrew,  \* a call of the reader has thrown
  writer,       \* the same for the writer
  writing,
  chunks,       \* _chunks
  document,     \* the output handed to the program
  writerNotes,
  writerErrors, \* the number of its calls that have thrown
  sent          \* the number of received events that the program has passed on

readerVars == <<reader, reading, drained, received, readerNotes, readerThrew>>
writerVars == <<writer, writing, chunks, document, writerNotes, writerErrors, sent>>
wasmVars == <<script, eager, trouble, failures, pc, readerVars, writerVars>>

WasmInit ==
  /\ IsInput(script) /\ eager \in BOOLEAN /\ trouble.reaction \in Reaction
  /\ pc = "idle" /\ failures = 0
  /\ reader = iox_reader_create /\ reading = "open"
  /\ drained = <<>> /\ received = <<>> /\ readerNotes = <<>> /\ readerThrew = FALSE
  /\ writer = iox_writer_create /\ writing = "open"
  /\ chunks = <<>> /\ document = <<>> /\ writerNotes = <<>> /\ writerErrors = 0
  /\ sent = 0

\* Some allocation fails, or none.
Memory == {"enough", "no result", "no bytes"}
Allocate(memory) ==
  \/ memory = "enough" /\ UNCHANGED failures
  \/ memory # "enough" /\ failures < MaxFailures /\ failures' = failures + 1

\* The exception leaves the call.  What was drained in it is forgotten, and the constructor of the
\* eager reader closes it.
ReaderThrows ==
  /\ readerThrew' = TRUE /\ pc' = "idle" /\ drained' = <<>>
  /\ reading' = IF eager THEN "closed" ELSE reading
  /\ UNCHANGED received

\* callResult(), or null where it throws, and addDiagnostics().
AskReader(memory, answer) ==
  /\ Allocate(memory)
  /\ reader' = answer.handle
  /\ readerNotes' = readerNotes \o answer.result.diagnostics

\* The program has control, and not the constructor of the eager reader.
Free == pc = "idle" /\ (eager => reading # "open")
-----------------------------------------------------------------------------
\* As in docs/wasm.md, the program passes on what it got before it reads more.
MayRead ==
  /\ pc = "idle" /\ reading = "open"
  /\ eager \/ sent = Len(received) \/ writing # "open"

\* After iox_reader_feed or iox_reader_finish: an error is fetched before it is thrown, another
\* status is thrown at once.
InputTaken(answer, state) ==
  /\ reader' = answer.handle
  /\ \/ /\ answer.status = "OK" /\ pc' = "drain" /\ reading' = state
        /\ UNCHANGED <<drained, received, readerThrew>>
     \/ /\ answer.status = "ERROR" /\ pc' = "ask"
        /\ UNCHANGED <<reading, drained, received, readerThrew>>
     \/ answer.status = "INVALID_STATE" /\ ReaderThrows
  /\ UNCHANGED readerNotes

\* feed(), up to the drain.
Feed ==
  /\ MayRead
  /\ \E answer \in iox_reader_feed(reader) : InputTaken(answer, "open")
  /\ UNCHANGED <<script, eager, trouble, failures, writerVars>>

\* finish(), up to the drain.
Finish ==
  /\ MayRead
  /\ \E answer \in iox_reader_finish(reader) : InputTaken(answer, "finished")
  /\ UNCHANGED <<script, eager, trouble, failures, writerVars>>

\* throwReaderStatus()
Ask ==
  /\ pc = "ask"
  /\ \E memory \in {"enough", "no result"} :
       \E answer \in iox_reader_next(memory, reader) : AskReader(memory, answer)
  /\ ReaderThrows
  /\ UNCHANGED <<script, eager, trouble, writerVars>>

\* One round of drainReader().
Drained(answer) ==
  \/ /\ answer.result.status = "EVENT"
     /\ drained' = Append(drained, answer.result.event)
     /\ UNCHANGED <<pc, reading, received, readerThrew>>
  \/ /\ answer.result.status \in {"NEED_INPUT", "END"}
     /\ received' = received \o drained /\ drained' = <<>> /\ pc' = "idle"
     /\ UNCHANGED <<reading, readerThrew>>
  \/ answer.result.status \in {"ERROR", "INVALID_STATE", "none"} /\ ReaderThrows

Drain ==
  /\ pc = "drain"
  /\ \E memory \in {"enough", "no result"} :
       \E answer \in iox_reader_next(memory, reader) :
         AskReader(memory, answer) /\ Drained(answer)
  /\ UNCHANGED <<script, eager, trouble, writerVars>>

\* There is no memory for the chunk, or for the pointer to a result: the call is not made.
ReaderCallFails ==
  /\ MayRead \/ pc \in {"ask", "drain"}
  /\ Allocate("no bytes") /\ ReaderThrows
  /\ UNCHANGED <<script, eager, trouble, reader, readerNotes, writerVars>>

\* close() of the reader, which destroys the handle.
CloseReader ==
  /\ Free /\ reading # "closed"
  /\ reading' = "closed"
  /\ UNCHANGED <<script, eager, trouble, failures, pc, reader, drained, received, readerNotes,
                 readerThrew, writerVars>>
-----------------------------------------------------------------------------
WriterThrows == writerErrors' = writerErrors + 1 /\ pc' = "idle"

ReactionTo(e) == IF trouble.event = e THEN trouble.reaction ELSE "fine"

\* A writer that has thrown may be tried again.
MayWrite == Free /\ writing = "open" /\ writerErrors < MaxErrors

\* What follows the call that writes: the program may pass an event on again that it could not.
Written(answer) ==
  /\ writer' = answer.handle
  /\ writerNotes' = writerNotes \o answer.result.diagnostics
  /\ \/ /\ answer.result.status = "OK" /\ pc' = "take"
        /\ sent' = sent + 1
        /\ UNCHANGED writerErrors
     \/ answer.result.status # "OK" /\ WriterThrows /\ sent' \in {sent, sent + 1}

\* An eager reader whose constructor has thrown is none, and gives the program no events.
Given == ~(eager /\ readerThrew)

\* write(), up to the request for the output.
Write ==
  /\ MayWrite /\ Given /\ sent < Len(received)
  /\ LET e == received[sent + 1]
     IN  \E memory \in {"enough", "no result"} :
           /\ Allocate(memory)
           /\ Written(iox_writer_write_event_json(memory, writer, e, ReactionTo(e)))
  /\ UNCHANGED <<script, eager, trouble, readerVars, writing, chunks, document>>

\* writerTakeOutput(), the rest of write().
TakeChunk ==
  /\ pc = "take"
  /\ \E memory \in Memory :
       /\ Allocate(memory)
       /\ LET answer == iox_writer_take_output(memory, writer)
          IN  /\ writer' = answer.handle
              /\ writerNotes' = writerNotes \o answer.result.diagnostics
              /\ \/ /\ answer.result.status = "OK" /\ pc' = "idle"
                    /\ chunks' = chunks \o answer.result.bytes
                    /\ UNCHANGED <<writerErrors, sent>>
                 \/ /\ answer.result.status # "OK" /\ WriterThrows
                    /\ sent' \in {sent, sent - 1} /\ UNCHANGED chunks
  /\ UNCHANGED <<script, eager, trouble, readerVars, writing, document>>

\* _takeChunks()
TakeChunks(more) ==
  /\ document' = document \o chunks \o more
  /\ chunks' = <<>>

TakeOutput ==
  /\ Free /\ writing = "open" /\ chunks # <<>>
  /\ TakeChunks(<<>>)
  /\ UNCHANGED <<script, eager, trouble, failures, pc, readerVars, writer, writing, writerNotes,
                 writerErrors, sent>>

\* finish() of the writer.
FinishWriter ==
  /\ MayWrite
  /\ \E memory \in Memory :
       /\ Allocate(memory)
       /\ LET answer == iox_writer_finish(memory, writer)
          IN  /\ writer' = answer.handle
              /\ writerNotes' = writerNotes \o answer.result.diagnostics
              /\ \/ /\ answer.result.status = "OK" /\ writing' = "finished"
                    /\ TakeChunks(answer.result.bytes)
                    /\ UNCHANGED <<pc, writerErrors>>
                 \/ /\ answer.result.status # "OK" /\ WriterThrows
                    /\ UNCHANGED <<writing, chunks, document>>
  /\ UNCHANGED <<script, eager, trouble, readerVars, sent>>

\* There is no memory for the text of an event, or for the pointer to a result: the call is not
\* made.  Where the output is asked for, the event has been written.
WriterCallFails ==
  /\ \/ MayWrite /\ UNCHANGED sent
     \/ pc = "take" /\ sent' \in {sent, sent - 1}
  /\ Allocate("no bytes") /\ WriterThrows
  /\ UNCHANGED <<script, eager, trouble, readerVars, writer, writing, chunks, document,
                 writerNotes>>

CloseWriter ==
  /\ Free /\ writing # "closed"
  /\ writing' = "closed" /\ chunks' = <<>>
  /\ UNCHANGED <<script, eager, trouble, failures, pc, readerVars, writer, document, writerNotes,
                 writerErrors, sent>>

WasmNext ==
  \/ Feed \/ Finish \/ Ask \/ Drain \/ ReaderCallFails \/ CloseReader
  \/ Write \/ TakeChunk \/ TakeOutput \/ FinishWriter \/ WriterCallFails \/ CloseWriter

WasmSpec == WasmInit /\ [][WasmNext]_wasmVars
-----------------------------------------------------------------------------
\* Every variable has its type, the diagnostics apart.
TypeOK ==
  /\ script \in Seq(ItemKind)
  /\ pc \in {"idle", "ask", "drain", "take"}
  /\ reading \in {"open", "finished", "closed"} /\ writing \in {"open", "finished", "closed"}
  /\ reader.impl \in ReaderState
  /\ reader.terminal \in BOOLEAN /\ reader.finished \in BOOLEAN /\ reader.ended \in BOOLEAN
  /\ drained \in Seq(Nat) /\ received \in Seq(Nat) /\ sent \in 0 .. Len(received)
  /\ writer.written \in Seq(Nat) /\ writer.sink \in Seq(Nat)
  /\ writer.terminal \in BOOLEAN /\ writer.finished \in BOOLEAN
  /\ chunks \in Seq(Nat) /\ document \in Seq(Nat)

Increasing(s) == \A m, n \in DOMAIN s : m < n => s[m] < s[n]
Damaged(from, to) == ItemsOf({"error", "fault"}, from, to) # <<>>

\* The program gets every event and every diagnostic once and in order, up to what a call that
\* throws takes with it.  Until one does, all is there that was read, and at the end it is the
\* whole input, free of errors.  A gap in the events is always the work of a failed allocation;
\* one in the diagnostics also of an input that throws (see ErrorsTellAll).
ReadsEverything ==
  /\ Increasing(received \o drained) /\ Increasing(readerNotes)
  /\ ~readerThrew /\ pc \notin {"ask", "drain"} =>
       /\ received = EventsIn(0, reader.impl.parsed)
       /\ readerNotes = DiagnosesIn(0, reader.impl.parsed)
       /\ reading = "finished" => reader.impl.parsed = Len(script) /\ ~Damaged(0, Len(script))
  /\ failures = 0 => /\ IsPrefix(received, EventsIn(0, Len(script)))
                     /\ readerThrew => Damaged(0, reader.impl.parsed)

\* As docs/c-abi.md has it, an error result contains all diagnostics: with those of the results
\* before it, all that the reader recorded up to the error.
ErrorsTellAll ==
  readerThrew /\ failures = 0 =>
    ToSet(DiagnosesIn(0, reader.impl.parsed)) \subseteq ToSet(readerNotes)

\* Output is neither lost nor doubled on its way from the sink through the results and the chunks
\* to the program, while the writer has not failed; and a document that finish() completes is the
\* whole of what was written.
OutputKept ==
  /\ ~writer.terminal /\ writing # "closed" =>
       document \o chunks \o writer.sink =
         writer.written \o (IF writer.finished THEN <<Closing>> ELSE <<>>)
  /\ writing = "finished" => document = writer.written \o <<Closing>>

\* What the program passes on is written, and what the writer reports of it reaches the program
\* once.  If no allocation fails, a document that is completed has all events of the input.
WritesEverything ==
  /\ writerErrors = 0 =>
       /\ writer.written = SubSeq(received, 1, sent)
       /\ writerNotes = Only(writer.written, {e \in DOMAIN script : ReactionTo(e) = "warns"})
  /\ failures = 0 /\ writing = "finished" =>
       document = EventsIn(0, Len(script)) \o <<Closing>>

\* A handle that has failed is not used again: the program gets no more events from a reader, and
\* no document from a writer.
ErrorsAreFinal ==
  [][/\ reader.terminal => reader'.impl = reader.impl /\ UNCHANGED received
     /\ writer.terminal => /\ writer'.written = writer.written
                           /\ writing' = "finished" => writing = "finished"]_wasmVars
=============================================================================
