------------------------------ MODULE Callers_proofs ------------------------------
(***************************************************************************)
(* What the callers of a reader and of a writer get: that the WASM package *)
(* hands out all that is read and writes all that it is given, that no     *)
(* output is lost or doubled on its way, that a failure is final, that the *)
(* baskets of a BasketReader are those of the input, and that the model    *)
(* layer writes the transfer, well made for the model of its header.       *)
(***************************************************************************)
EXTENDS WasmApi, BasketReader, IlicXtf, SequenceTheorems, FiniteSetTheorems, Induction, TLAPS

\* A handle has all of its fields.
IsReader(r) ==
  r \in [impl : ReaderState, diagnostics : {r.diagnostics},
         finished : BOOLEAN, ended : BOOLEAN, terminal : BOOLEAN]

IsWriter(w) ==
  w \in [written : Seq(Nat), sink : Seq(Nat), diagnostics : {w.diagnostics},
         finished : BOOLEAN, terminal : BOOLEAN]

-----------------------------------------------------------------------------
(* The reader under the handle *)
LEMMA PumpedType ==
  ASSUME script \in Seq(ItemKind), NEW r \in ReaderState, NEW p \in Pumped(r)
  PROVE  p \in ReaderState
<1>1. CASE r.failed
  BY <1>1 DEF Pumped
<1>2. CASE ~r.failed
  <2>1. PICK to \in r.parsed .. Len(script) : p = ParsedTo(r, to)
    BY <1>2 DEF Pumped
  <2>2. to \in Nat /\ (to > r.parsed /\ script[to] = "fault") \in BOOLEAN
    BY <2>1 DEF ReaderState
  <2> QED BY <2>1, <2>2 DEF ParsedTo, ReaderState
<1> QED BY <1>1, <1>2

LEMMA PoppedType ==
  ASSUME NEW r \in ReaderState, NEW i \in Waiting(r)
  PROVE  Popped(r, i) \in ReaderState /\ i \in Nat
BY DEF Popped, Waiting, ReaderState

LEMMA NextType ==
  ASSUME script \in Seq(ItemKind), NEW r \in ReaderState, NEW o \in NextOf(r)
  PROVE  /\ o.reader \in ReaderState /\ o.event \in Nat
         /\ o.progress \in {"Threw", "Event", "NeedInput", "End"}
<1>1. CASE r.failed
  BY <1>1 DEF NextOf, Threw, Outcome
<1>2. CASE ~r.failed /\ Waiting(r) = {}
  <2>1. PICK p \in Pumped(r) : o \in Pulled(p)
    BY <1>2 DEF NextOf
  <2>2. p \in ReaderState
    BY <2>1, PumpedType
  <2>3. CASE p.failed
    BY <2>1, <2>2, <2>3 DEF Pulled, Threw, Outcome
  <2>4. CASE ~p.failed /\ Waiting(p) # {}
    <3>1. PICK i \in Foremost(p) : o = Outcome(Popped(p, i), "Event", i)
      BY <2>1, <2>4 DEF Pulled
    <3>2. i \in Waiting(p)
      BY <3>1 DEF Foremost
    <3> QED BY <2>2, <3>1, <3>2, PoppedType DEF Outcome
  <2>5. CASE ~p.failed /\ Waiting(p) = {}
    BY <2>1, <2>2, <2>5 DEF Pulled, Outcome
  <2> QED BY <2>3, <2>4, <2>5
<1>3. CASE ~r.failed /\ Waiting(r) # {}
  <2>1. PICK p \in UNION {Pumped(Popped(r, i)) : i \in Foremost(r)} :
          o = IF p.failed THEN Threw(p) ELSE Outcome(p, "Event", p.taken)
    BY <1>3 DEF NextOf
  <2>2. PICK i \in Foremost(r) : p \in Pumped(Popped(r, i))
    BY <2>1
  <2>3. Popped(r, i) \in ReaderState
    BY <2>2, PoppedType DEF Foremost
  <2>4. p \in ReaderState
    BY <2>2, <2>3, PumpedType
  <2>5. p.taken \in Nat
    BY <2>4 DEF ReaderState
  <2> QED BY <2>1, <2>4, <2>5 DEF Threw, Outcome
<1> QED BY <1>1, <1>2, <1>3

-----------------------------------------------------------------------------
(* The reader's handle *)
LEMMA TakeType ==
  ASSUME NEW r, IsReader(r), NEW impl \in ReaderState
  PROVE  IsReader(TakeReaderDiagnostics(r, impl))
<1>1. Taken(impl) \in ReaderState
  BY DEF Taken, ReaderState
<1>2. HasError(r.diagnostics \o Recorded(impl)) \in BOOLEAN
  BY DEF HasError
<1> QED BY <1>1, <1>2 DEF TakeReaderDiagnostics, IsReader

LEMMA RememberReader ==
  ASSUME NEW r, IsReader(r), NEW impl \in ReaderState, NEW d
  PROVE  IsReader(Remember([r EXCEPT !.impl = impl], d))
BY DEF Remember, IsReader

LEMMA AfterInputType ==
  ASSUME NEW r, IsReader(r), NEW impl \in ReaderState
  PROVE  IsReader(AfterInput(r, impl).handle)
BY TakeType, RememberReader DEF AfterInput, Return

\* A handle that has failed is left alone by every call.
LEMMA FeedType ==
  ASSUME script \in Seq(ItemKind), IsReader(reader), NEW a \in iox_reader_feed(reader)
  PROVE  /\ IsReader(a.handle)
         /\ reader.terminal => a.handle = reader /\ a.status = "INVALID_STATE"
<1>1. CASE Refused(reader)
  BY <1>1 DEF iox_reader_feed, Return
<1>2. CASE ~Refused(reader)
  <2>1. PICK impl \in Pumped(reader.impl) : a = AfterInput(reader, impl)
    BY <1>2 DEF iox_reader_feed, Fed
  <2>2. impl \in ReaderState
    BY <2>1, PumpedType DEF IsReader
  <2> QED BY <1>2, <2>1, <2>2, AfterInputType DEF Refused
<1> QED BY <1>1, <1>2

LEMMA FinishType ==
  ASSUME script \in Seq(ItemKind), IsReader(reader), NEW a \in iox_reader_finish(reader)
  PROVE  /\ IsReader(a.handle)
         /\ reader.terminal => a.handle = reader /\ a.status = "INVALID_STATE"
<1>1. CASE Refused(reader)
  BY <1>1 DEF iox_reader_finish, Return
<1>2. CASE ~Refused(reader)
  <2>1. PICK impl \in Finished(reader.impl) :
          a = AfterInput([reader EXCEPT !.finished = ~impl.failed], impl)
    BY <1>2 DEF iox_reader_finish
  <2>2. [reader.impl EXCEPT !.finishCalled = TRUE] \in ReaderState
    BY DEF IsReader, ReaderState
  <2>3. impl \in ReaderState
    BY <2>1, <2>2, PumpedType DEF Finished
  <2>4. IsReader([reader EXCEPT !.finished = ~impl.failed])
    BY <2>3 DEF IsReader, ReaderState
  <2> QED BY <1>2, <2>1, <2>3, <2>4, AfterInputType DEF Refused
<1> QED BY <1>1, <1>2

LEMMA AskType ==
  ASSUME script \in Seq(ItemKind), IsReader(reader), NEW memory,
         NEW a \in iox_reader_next(memory, reader)
  PROVE  /\ IsReader(a.handle)
         /\ a.result.event \in Nat
         /\ reader.terminal => a.handle = reader /\ a.result.status \in {"ERROR", "none"}
<1>1. ASSUME NEW r
      PROVE  /\ ErrorResult(memory, r).handle = r
             /\ ErrorResult(memory, r).result.event = 0
             /\ ErrorResult(memory, r).result.status \in {"ERROR", "none"}
  BY DEF ErrorResult, Return, Result, NoResult
<1>2. CASE reader.terminal \/ HasError(reader.diagnostics)
  BY <1>1, <1>2 DEF iox_reader_next
<1>3. CASE ~(reader.terminal \/ HasError(reader.diagnostics)) /\ reader.ended
  <2>1. a = Return(reader, "INVALID_STATE",
                   Result(memory, "INVALID_STATE", <<OwnDiagnostic>>))
    BY <1>3 DEF iox_reader_next
  <2>2. Result(memory, "INVALID_STATE", <<OwnDiagnostic>>).event = 0
    BY DEF Result, NoResult
  <2> QED BY <1>3, <2>1, <2>2 DEF Return
<1>4. CASE ~(reader.terminal \/ HasError(reader.diagnostics)) /\ ~reader.ended
  <2>1. PICK o \in NextOf(reader.impl) : a = AfterNext(memory, reader, o)
    BY <1>4 DEF iox_reader_next
  <2>2. o.reader \in ReaderState /\ o.event \in Nat
    BY <2>1, NextType DEF IsReader
  <2> DEFINE given == Remember([reader EXCEPT !.impl = o.reader], o.reader.parsed)
             after == TakeReaderDiagnostics(reader, o.reader)
             ended == [after EXCEPT !.ended = (o.progress = "End")]
  <2>3. IsReader(given) /\ IsReader(after)
    BY <2>2, RememberReader, TakeType
  <2>4. IsReader(ended)
    BY <2>3 DEF IsReader
  <2>5. CASE o.progress = "Threw"
    <3>1. a = ErrorResult(memory, given)
      BY <2>1, <2>5 DEF AfterNext
    <3> HIDE DEF given
    <3> QED BY <1>1, <1>4, <2>3, <3>1
  <2>6. CASE o.progress # "Threw" /\ after.terminal
    <3>1. a = ErrorResult(memory, after)
      BY <2>1, <2>6 DEF AfterNext
    <3> HIDE DEF after
    <3> QED BY <1>1, <1>4, <2>3, <3>1
  <2>7. CASE o.progress # "Threw" /\ ~after.terminal
    <3>1. a = Reported(memory, ended, o)
      BY <2>1, <2>7 DEF AfterNext
    <3> HIDE DEF ended
    <3>2. IsReader(Reported(memory, ended, o).handle)
      BY <2>4 DEF Reported, Return, IsReader
    <3>3. Reported(memory, ended, o).result.event \in Nat
      BY <2>2 DEF Reported, Return, Result, NoResult
    <3> QED BY <1>4, <3>1, <3>2, <3>3
  <2> HIDE DEF given, after, ended
  <2> QED BY <1>4, <2>5, <2>6, <2>7
<1> QED BY <1>2, <1>3, <1>4
-----------------------------------------------------------------------------
(* The writer's handle *)
\* A writer that is terminal or finished takes nothing; an event that is taken is in the sink.
WriteOutcome(a, e) ==
  /\ IsWriter(a.handle)
  /\ writer.terminal \/ writer.finished =>
       /\ a.handle.written = writer.written /\ a.handle.sink = writer.sink
       /\ a.handle.terminal = writer.terminal /\ a.handle.finished = writer.finished
  /\ ~a.handle.terminal /\ ~writer.finished =>
       /\ a.handle.written = Append(writer.written, e)
       /\ a.handle.sink = Append(writer.sink, e)
       /\ ~a.handle.finished /\ ~writer.terminal

LEMMA WriteType ==
  ASSUME IsWriter(writer), NEW memory, NEW e \in Nat, NEW reaction,
         NEW a, a = iox_writer_write_event_json(memory, writer, e, reaction)
  PROVE  WriteOutcome(a, e)
<1> USE DEF WriteOutcome
<1>1. ASSUME NEW w, NEW status
      PROVE  /\ ErrorResult(memory, w).handle = w /\ Return(w, status, NoResult).handle = w
             /\ Result(memory, status, w).status \in {status, "none"}
  BY DEF ErrorResult, Return, Result, NoResult
<1>2. CASE writer.finished \/ writer.terminal
  <2> DEFINE kept == IF writer.terminal THEN writer
                     ELSE [writer EXCEPT !.diagnostics = Append(@, OwnDiagnostic)]
             status == IF writer.terminal THEN "ERROR" ELSE "INVALID_STATE"
  <2>1. a = Return(kept, status, Result(memory, status, kept.diagnostics))
    BY <1>2 DEF iox_writer_write_event_json, WriterRefused
  <2>2. /\ IsWriter(kept) /\ kept.written = writer.written /\ kept.sink = writer.sink
        /\ kept.terminal = writer.terminal /\ kept.finished = writer.finished
    BY DEF IsWriter
  <2>3. status # "OK"
    OBVIOUS
  <2> HIDE DEF kept, status
  <2>4. Result(memory, status, kept.diagnostics).status \in {status, "none"}
    BY DEF Result, NoResult
  <2>5. a.handle = kept /\ a.result.status # "OK"
    BY <2>1, <2>3, <2>4 DEF Return
  <2> QED BY <1>2, <2>2, <2>5
<1>3. CASE ~(writer.finished \/ writer.terminal) /\ ~InOrder(LastWritten(writer), script[e])
  <2>1. a.handle = Remember(writer, OwnDiagnostic)
    BY <1>3, <1>1 DEF iox_writer_write_event_json
  <2>2. IsWriter(Remember(writer, OwnDiagnostic)) /\ Remember(writer, OwnDiagnostic).terminal
    BY DEF Remember, IsWriter
  <2> QED BY <1>3, <2>1, <2>2
<1>4. CASE /\ ~(writer.finished \/ writer.terminal) /\ InOrder(LastWritten(writer), script[e])
           /\ reaction = "throws"
  <2> DEFINE cut == [writer EXCEPT !.sink = Append(@, Cut)]
  <2>1. a.handle = Remember(cut, OwnDiagnostic)
    BY <1>4, <1>1 DEF iox_writer_write_event_json
  <2>2. Append(writer.sink, Cut) \in Seq(Nat)
    BY AppendProperties DEF Cut, IsWriter
  <2>3. IsWriter(cut)
    BY <2>2 DEF IsWriter
  <2>4. IsWriter(Remember(cut, OwnDiagnostic)) /\ Remember(cut, OwnDiagnostic).terminal
    <3> HIDE DEF cut
    <3> QED BY <2>3 DEF Remember, IsWriter
  <2> QED BY <1>4, <2>1, <2>4
<1>5. CASE /\ ~(writer.finished \/ writer.terminal) /\ InOrder(LastWritten(writer), script[e])
           /\ reaction # "throws"
  <2>1. a = EventWritten(memory, writer, e, reaction)
    BY <1>5 DEF iox_writer_write_event_json
  <2>2. /\ Append(writer.written, e) \in Seq(Nat) /\ Append(writer.sink, e) \in Seq(Nat)
        /\ (reaction = "errs") \in BOOLEAN
    BY AppendProperties DEF IsWriter
  <2>3. a.handle = [writer EXCEPT !.written = Append(@, e), !.sink = Append(@, e),
                                  !.diagnostics = <<>>, !.terminal = (reaction = "errs")]
    BY <2>1 DEF EventWritten, Return
  <2> QED BY <1>5, <2>2, <2>3 DEF IsWriter
<1> QED BY <1>2, <1>3, <1>4, <1>5

\* Where the bytes of the sink go.
LEMMA OutputType ==
  ASSUME NEW w, IsWriter(w), NEW memory \in Memory, NEW status \in {"OK", "ERROR"},
         NEW a, a = WithOutput(memory, w, status)
  PROVE  /\ IsWriter(a.handle)
         /\ a.handle.written = w.written /\ a.handle.finished = w.finished
         /\ \/ a.handle = w /\ a.result.status = "none"
            \/ a.handle.terminal /\ a.result.status = "ERROR"
            \/ /\ a.handle.sink = <<>> /\ a.handle.terminal = w.terminal
               /\ a.result.bytes = w.sink /\ a.result.status = status
<1> DEFINE emptied == [w EXCEPT !.sink = <<>>]
<1>1. <<>> \in Seq(Nat)
  OBVIOUS
<1>2. /\ IsWriter(emptied) /\ emptied.written = w.written /\ emptied.finished = w.finished
      /\ emptied.sink = <<>> /\ emptied.terminal = w.terminal
  BY <1>1 DEF IsWriter
<1>3. CASE memory = "no result"
  BY <1>3 DEF WithOutput, Return, NoResult
<1>4. CASE memory = "no bytes"
  <2>1. a = ErrorResult(memory, Remember(emptied, OwnDiagnostic))
    BY <1>4 DEF WithOutput
  <2> HIDE DEF emptied
  <2>2. /\ IsWriter(Remember(emptied, OwnDiagnostic))
        /\ Remember(emptied, OwnDiagnostic).terminal
        /\ Remember(emptied, OwnDiagnostic).written = w.written
        /\ Remember(emptied, OwnDiagnostic).finished = w.finished
    BY <1>2 DEF Remember, IsWriter
  <2>3. a.handle = Remember(emptied, OwnDiagnostic) /\ a.result.status = "ERROR"
    <3> DEFINE handle == Remember(emptied, OwnDiagnostic)
    <3>1. a = Return(handle, "ERROR", Result(memory, "ERROR", handle.diagnostics))
      BY <2>1 DEF ErrorResult
    <3> HIDE DEF handle
    <3>2. Result(memory, "ERROR", handle.diagnostics).status = "ERROR"
      BY <1>4 DEF Result
    <3>3. a.handle = handle /\ a.result.status = "ERROR"
      BY <3>1, <3>2 DEF Return
    <3> QED BY <3>3 DEF handle
  <2> QED BY <2>2, <2>3
<1>5. CASE memory = "enough"
  <2> DEFINE result == [Result(memory, status, w.diagnostics) EXCEPT !.bytes = w.sink]
  <2>1. a = Return(emptied, status, result)
    BY <1>5 DEF WithOutput
  <2>2. result.bytes = w.sink /\ result.status = status
    BY <1>5 DEF Result
  <2> HIDE DEF emptied, result
  <2> QED BY <1>2, <2>1, <2>2 DEF Return
<1> QED BY <1>3, <1>4, <1>5 DEF Memory

\* The output stays where it is, or is in the result, unless the writer has failed.
TakeOutcome(a) ==
  /\ IsWriter(a.handle)
  /\ a.handle.written = writer.written /\ a.handle.finished = writer.finished
  /\ writer.terminal => a.handle.terminal
  /\ \/ a.handle = writer /\ a.result.status # "OK"
     \/ a.handle.terminal /\ a.result.status # "OK"
     \/ /\ ~writer.terminal /\ ~a.handle.terminal /\ a.result.status = "OK"
        /\ a.handle.sink = <<>> /\ a.result.bytes = writer.sink

LEMMA TakeOutputType ==
  ASSUME IsWriter(writer), NEW memory \in Memory,
         NEW a, a = iox_writer_take_output(memory, writer)
  PROVE  TakeOutcome(a)
<1> USE DEF TakeOutcome
<1>1. CASE writer.finished
  <2>1. a = Return(writer, "INVALID_STATE",
                   Result(memory, "INVALID_STATE", <<OwnDiagnostic>>))
    BY <1>1 DEF iox_writer_take_output
  <2>2. Result(memory, "INVALID_STATE", <<OwnDiagnostic>>).status # "OK"
    BY DEF Result, NoResult
  <2>3. a.handle = writer /\ a.result.status # "OK"
    BY <2>1, <2>2 DEF Return
  <2> QED BY <2>3
<1>2. CASE ~writer.finished
  <2> DEFINE status == IF writer.terminal THEN "ERROR" ELSE "OK"
  <2>1. a = WithOutput(memory, writer, status) /\ status \in {"OK", "ERROR"}
    BY <1>2 DEF iox_writer_take_output
  <2>2. status = IF writer.terminal THEN "ERROR" ELSE "OK"
    OBVIOUS
  <2> HIDE DEF status
  <2>3. writer.terminal \in BOOLEAN
    BY DEF IsWriter
  <2> QED BY <2>1, <2>2, <2>3, OutputType, SMTT(30)
<1> QED BY <1>1, <1>2

\* The same, with the end of the document.
FinishOutcome(a) ==
  /\ IsWriter(a.handle)
  /\ a.handle.written = writer.written
  /\ writer.terminal => a.handle.terminal /\ a.result.status # "OK"
  /\ \/ /\ a.handle.sink = writer.sink /\ a.handle.terminal = writer.terminal
        /\ a.handle.finished = writer.finished /\ a.result.status # "OK"
     \/ a.handle.terminal /\ a.result.status # "OK"
     \/ /\ ~writer.finished /\ a.handle.finished /\ a.result.status # "OK"
        /\ a.handle.sink = Append(writer.sink, Closing)
     \/ /\ ~writer.finished /\ a.handle.finished
        /\ ~a.handle.terminal /\ a.result.status = "OK"
        /\ a.handle.sink = <<>> /\ a.result.bytes = Append(writer.sink, Closing)

LEMMA FinishWriterType ==
  ASSUME script \in Seq(ItemKind), IsWriter(writer), NEW memory \in Memory,
         NEW a, a = iox_writer_finish(memory, writer)
  PROVE  FinishOutcome(a)
<1> USE DEF FinishOutcome
<1>1. ASSUME NEW w
      PROVE  ErrorResult(memory, w).handle = w /\ ErrorResult(memory, w).result.status # "OK"
  BY DEF ErrorResult, Return, Result, NoResult
<1>2. CASE writer.finished \/ writer.terminal
  <2> DEFINE kept == IF writer.terminal THEN writer
                     ELSE [writer EXCEPT !.diagnostics = Append(@, OwnDiagnostic)]
             status == IF writer.terminal THEN "ERROR" ELSE "INVALID_STATE"
  <2>1. a = Return(kept, status, Result(memory, status, kept.diagnostics))
    BY <1>2 DEF iox_writer_finish, WriterRefused
  <2>2. /\ IsWriter(kept) /\ kept.written = writer.written /\ kept.sink = writer.sink
        /\ kept.terminal = writer.terminal /\ kept.finished = writer.finished
    BY DEF IsWriter
  <2>3. status # "OK"
    OBVIOUS
  <2> HIDE DEF kept, status
  <2>4. Result(memory, status, kept.diagnostics).status \in {status, "none"}
    BY DEF Result, NoResult
  <2>5. a.handle = kept /\ a.result.status # "OK"
    BY <2>1, <2>3, <2>4 DEF Return
  <2> QED BY <2>2, <2>5
<1>3. CASE ~(writer.finished \/ writer.terminal) /\ LastWritten(writer) # "EndTransfer"
  <2>1. a = ErrorResult(memory, Remember(writer, OwnDiagnostic))
    BY <1>3 DEF iox_writer_finish
  <2>2. /\ IsWriter(Remember(writer, OwnDiagnostic)) /\ Remember(writer, OwnDiagnostic).terminal
        /\ Remember(writer, OwnDiagnostic).written = writer.written
    BY DEF Remember, IsWriter
  <2> QED BY <1>1, <1>3, <2>1, <2>2
<1>4. CASE ~(writer.finished \/ writer.terminal) /\ LastWritten(writer) = "EndTransfer"
  <2>1. PICK w : w = [writer EXCEPT !.sink = Append(@, Closing), !.finished = TRUE]
    OBVIOUS
  <2>2. PICK status : status = "OK"
    OBVIOUS
  <2>3. a = WithOutput(memory, w, status) /\ status \in {"OK", "ERROR"}
    BY <1>4, <2>1, <2>2 DEF iox_writer_finish
  <2>4. Append(writer.sink, Closing) \in Seq(Nat)
    BY AppendProperties DEF Closing, IsWriter
  <2>5. /\ w.written = writer.written /\ w.finished /\ ~w.terminal
        /\ w.sink = Append(writer.sink, Closing)
    BY <1>4, <2>1, <2>4 DEF IsWriter
  <2>6. IsWriter(w)
    BY <1>4, <2>1, <2>4 DEF IsWriter
  <2>7. /\ IsWriter(a.handle)
        /\ a.handle.written = w.written /\ a.handle.finished = w.finished
        /\ \/ a.handle = w /\ a.result.status = "none"
           \/ a.handle.terminal /\ a.result.status = "ERROR"
           \/ /\ a.handle.sink = <<>> /\ a.handle.terminal = w.terminal
              /\ a.result.bytes = w.sink /\ a.result.status = status
    BY <2>3, <2>6, OutputType, SMTT(30)
  <2> QED BY <1>4, <2>2, <2>5, <2>7
<1> QED BY <1>1, <1>2, <1>3, <1>4

-----------------------------------------------------------------------------
(* The output on its way *)
LEMMA OneMore ==
  ASSUME NEW d \in Seq(Nat), NEW c \in Seq(Nat), NEW s \in Seq(Nat), NEW e \in Nat
  PROVE  d \o c \o Append(s, e) = Append(d \o c \o s, e)
<1>1. d \o c \in Seq(Nat) /\ <<e>> \in Seq(Nat)
  BY ConcatProperties
<1>2. (d \o c) \o (s \o <<e>>) = ((d \o c) \o s) \o <<e>>
  BY <1>1, ConcatAssociative, SMTT(30)
<1>3. Append(s, e) = s \o <<e>>
  BY AppendIsConcat
<1>4. d \o c \o s \in Seq(Nat)
  BY <1>1, ConcatProperties
<1>5. Append(d \o c \o s, e) = (d \o c \o s) \o <<e>>
  BY <1>4, AppendIsConcat
<1> QED BY <1>2, <1>3, <1>5

LEMMA MovedOn ==
  ASSUME NEW d \in Seq(Nat), NEW c \in Seq(Nat), NEW s \in Seq(Nat)
  PROVE  /\ c \o s \in Seq(Nat) /\ d \o c \o s \in Seq(Nat)
         /\ d \o (c \o s) \o <<>> = d \o c \o s
         /\ (d \o c \o <<>>) \o <<>> \o s = d \o c \o s
<1>1. <<>> \in Seq(Nat)
  OBVIOUS
<1>2. c \o s \in Seq(Nat) /\ d \o c \in Seq(Nat)
  BY ConcatProperties
<1>3. d \o c \o s \in Seq(Nat)
  BY <1>2, ConcatProperties
<1>4. (d \o c) \o s = d \o (c \o s)
  BY ConcatAssociative, SMTT(30)
<1>5. d \o (c \o s) \o <<>> = d \o (c \o s)
  BY <1>3, <1>4, ConcatEmptySeq
<1>6. (d \o c) \o <<>> = d \o c
  BY <1>2, ConcatEmptySeq
<1> QED BY <1>2, <1>3, <1>4, <1>5, <1>6

-----------------------------------------------------------------------------
(* The program *)
IInv ==
  /\ TypeOK /\ IsReader(reader) /\ IsWriter(writer)
  /\ pc = "take" => writing = "open" /\ sent # 0
  /\ OutputKept

\* What a step of the program keeps to.
Final ==
  /\ reader.terminal => reader'.impl = reader.impl /\ UNCHANGED received
  /\ writer.terminal => /\ writer'.written = writer.written
                        /\ writing' = "finished" => writing = "finished"

LEMMA InitOK == WasmInit => IInv
<1> SUFFICES ASSUME WasmInit PROVE IInv
  OBVIOUS
<1>1. <<>> \in Seq(Nat) /\ <<>> \o <<>> \o <<>> = <<>> \o <<>>
  BY ConcatEmptySeq
<1>2. reader.impl \in ReaderState /\ IsReader(reader)
  BY DEF WasmInit, iox_reader_create, FreshReader, ReaderState, IsReader
<1>3. IsWriter(writer)
  BY <1>1 DEF WasmInit, iox_writer_create, IsWriter
<1>4. OutputKept
  BY <1>1 DEF WasmInit, iox_writer_create, OutputKept
<1>5. TypeOK
  BY <1>1, <1>2, <1>3 DEF WasmInit, TypeOK, IsReader, IsWriter, IsInput
<1> QED BY <1>2, <1>3, <1>4, <1>5 DEF IInv, WasmInit

\* A step of the reader.
ReaderStep ==
  /\ pc' \in {"idle", "ask", "drain"}
  /\ reading' \in {"open", "finished", "closed"}
  /\ IsReader(reader')
  /\ drained' \in Seq(Nat)
  /\ received' \in Seq(Nat) /\ Len(received) <= Len(received')
  /\ reader.terminal => reader'.impl = reader.impl /\ received' = received
  /\ UNCHANGED <<script, writerVars>>

LEMMA ReaderStepOK ==
  ASSUME IInv, ReaderStep
  PROVE  IInv' /\ Final
<1>1. TypeOK'
  BY DEF IInv, TypeOK, ReaderStep, IsReader, writerVars
<1>2. OutputKept'
  BY DEF IInv, OutputKept, ReaderStep, writerVars, Closing
<1>3. IsReader(reader)' /\ IsWriter(writer)'
  BY DEF IInv, ReaderStep, writerVars, IsReader, IsWriter
<1>4. Final
  BY DEF ReaderStep, writerVars, Final
<1> QED BY <1>1, <1>2, <1>3, <1>4 DEF IInv, ReaderStep

LEMMA ReaderThrew ==
  ASSUME IInv, ReaderThrows, IsReader(reader'), UNCHANGED <<script, writerVars>>,
         reader.terminal => reader'.impl = reader.impl
  PROVE  ReaderStep
<1>1. <<>> \in Seq(Nat)
  OBVIOUS
<1>2. Len(received) \in Nat
  BY LenProperties DEF IInv, TypeOK
<1> QED BY <1>1, <1>2 DEF IInv, TypeOK, ReaderThrows, ReaderStep

LEMMA NotShorter ==
  ASSUME NEW s \in Seq(Nat), NEW t \in Seq(Nat)
  PROVE  Len(s) <= Len(s) /\ Len(s) <= Len(s \o t)
<1>1. Len(s) \in Nat /\ Len(t) \in Nat
  BY LenProperties
<1>2. Len(s \o t) = Len(s) + Len(t)
  BY ConcatProperties
<1> QED BY <1>1, <1>2

LEMMA InputStep ==
  ASSUME IInv, UNCHANGED <<script, writerVars>>,
         NEW a, NEW state \in {"open", "finished"}, InputTaken(a, state),
         IsReader(a.handle),
         reader.terminal => a.handle = reader /\ a.status = "INVALID_STATE"
  PROVE  ReaderStep
<1>1. Len(received) \in Nat
  BY LenProperties DEF IInv, TypeOK
<1>2. IsReader(reader') /\ (reader.terminal => reader'.impl = reader.impl)
  BY DEF InputTaken
<1>3. CASE ReaderThrows
  BY <1>2, <1>3, ReaderThrew
<1>4. CASE a.status \in {"OK", "ERROR"} /\ ~ReaderThrows
  BY <1>1, <1>2, <1>4 DEF IInv, TypeOK, InputTaken, ReaderStep
<1> QED BY <1>3, <1>4 DEF InputTaken

LEMMA ReaderActions ==
  ASSUME IInv, Feed \/ ReaderCallFails \/ Finish \/ Ask \/ Drain \/ CloseReader
  PROVE  ReaderStep
<1>1. script \in Seq(ItemKind) /\ IsReader(reader) /\ Len(received) \in Nat
  BY LenProperties DEF IInv, TypeOK
<1>2. CASE Feed
  BY <1>1, <1>2, FeedType, InputStep DEF Feed
<1>3. CASE ReaderCallFails
  BY <1>1, <1>3, ReaderThrew DEF ReaderCallFails
<1>4. CASE Finish
  BY <1>1, <1>4, FinishType, InputStep DEF Finish
<1>5. CASE Ask
  <2>1. PICK memory \in {"enough", "no result"} :
          \E a \in iox_reader_next(memory, reader) : AskReader(memory, a)
    BY <1>5 DEF Ask
  <2>2. PICK a \in iox_reader_next(memory, reader) : AskReader(memory, a)
    BY <2>1
  <2>3. reader' = a.handle
    BY <2>2 DEF AskReader
  <2>4. IsReader(reader') /\ (reader.terminal => reader' = reader)
    BY <1>1, <2>2, <2>3, AskType
  <2> QED BY <1>5, <2>4, ReaderThrew DEF Ask
<1>6. CASE Drain
  <2> SUFFICES ASSUME pc = "drain", UNCHANGED <<script, writerVars>>
               PROVE  ReaderStep
    BY <1>6 DEF Drain
  <2>0. /\ reading \in {"open", "finished", "closed"}
        /\ received \in Seq(Nat) /\ drained \in Seq(Nat) /\ <<>> \in Seq(Nat)
    BY DEF IInv, TypeOK
  <2>1. PICK memory \in {"enough", "no result"} :
          \E a \in iox_reader_next(memory, reader) : AskReader(memory, a) /\ Drained(a)
    BY <1>6 DEF Drain
  <2>2. PICK a \in iox_reader_next(memory, reader) : AskReader(memory, a) /\ Drained(a)
    BY <2>1
  <2>3. reader' = a.handle
    BY <2>2 DEF AskReader
  <2>4. /\ IsReader(reader') /\ a.result.event \in Nat
        /\ reader.terminal => reader' = reader /\ a.result.status \in {"ERROR", "none"}
    BY <1>1, <2>2, <2>3, AskType
  <2>5. CASE ReaderThrows
    BY <2>4, <2>5, ReaderThrew
  <2>6. CASE /\ a.result.status = "EVENT"
             /\ drained' = Append(drained, a.result.event)
             /\ UNCHANGED <<pc, reading, received, readerThrew>>
    <3>1. drained' \in Seq(Nat)
      BY <2>0, <2>4, <2>6, AppendProperties
    <3>2. /\ pc' = "drain" /\ reading' = reading /\ received' = received
          /\ reader.terminal => reader'.impl = reader.impl
      BY <2>4, <2>6
    <3>3. Len(received) <= Len(received')
      BY <2>0, <3>2, NotShorter, Zenon
    <3>4. IsReader(reader')
      BY <2>4
    <3>5. received' \in Seq(Nat) /\ reading' \in {"open", "finished", "closed"}
      BY <2>0, <3>2
    <3>6. reader.terminal => reader'.impl = reader.impl /\ received' = received
      BY <3>2
    <3> QED BY <3>1, <3>2, <3>3, <3>4, <3>5, <3>6 DEF ReaderStep
  <2>7. CASE /\ a.result.status \in {"NEED_INPUT", "END"}
             /\ received' = received \o drained /\ drained' = <<>> /\ pc' = "idle"
             /\ UNCHANGED <<reading, readerThrew>>
    <3>1. received \o drained \in Seq(Nat)
      BY <2>0, ConcatProperties
    <3>2. ~reader.terminal
      BY <2>4, <2>7
    <3>3. /\ pc' = "idle" /\ reading' = reading /\ received' = received \o drained
          /\ drained' = <<>> /\ IsReader(reader')
      BY <2>4, <2>7
    <3>4. Len(received) <= Len(received')
      BY <2>0, <3>3, NotShorter, Zenon
    <3>5. received' \in Seq(Nat) /\ drained' \in Seq(Nat)
      BY <2>0, <3>1, <3>3
    <3> QED BY <2>0, <3>2, <3>3, <3>4, <3>5 DEF ReaderStep
  <2> QED BY <2>2, <2>5, <2>6, <2>7 DEF Drained
<1>7. CASE CloseReader
  BY <1>1, <1>7 DEF CloseReader, Free, IInv, TypeOK, ReaderStep
<1> QED BY <1>2, <1>3, <1>4, <1>5, <1>6, <1>7

-----------------------------------------------------------------------------
(* What is written, and what it amounts to. *)
Output(w) == IF w.finished THEN Append(w.written, Closing) ELSE w.written

LEMMA OutputIs ==
  ASSUME NEW w, IsWriter(w), script \in Seq(ItemKind)
  PROVE  w.written \o (IF w.finished THEN <<Closing>> ELSE <<>>) = Output(w)
<1>1. w.written \in Seq(Nat) /\ Closing \in Nat
  BY DEF IsWriter, Closing
<1>2. w.written \o <<Closing>> = Append(w.written, Closing)
  BY <1>1, AppendIsConcat
<1>3. w.written \o <<>> = w.written
  BY <1>1, ConcatEmptySeq
<1> QED BY <1>2, <1>3 DEF Output

LEMMA KeptIs ==
  ASSUME IsWriter(writer), script \in Seq(ItemKind)
  PROVE  OutputKept <=>
           /\ ~writer.terminal /\ writing # "closed" =>
                document \o chunks \o writer.sink = Output(writer)
           /\ writing = "finished" => document = Append(writer.written, Closing)
<1>1. writer.written \in Seq(Nat) /\ Closing \in Nat
  BY DEF IsWriter, Closing
<1>2. writer.written \o <<Closing>> = Append(writer.written, Closing)
  BY <1>1, AppendIsConcat
<1> QED BY <1>2, OutputIs DEF OutputKept

\* A step of the writer while it is open.
WriterStep ==
  /\ writing = "open" /\ writing' \in {"open", "finished"}
  /\ pc' \in {"idle", "take"} /\ (pc' = "take" => writing' = "open" /\ sent' # 0)
  /\ sent' \in 0 .. Len(received)
  /\ IsWriter(writer')
  /\ chunks' \in Seq(Nat) /\ document' \in Seq(Nat)
  /\ writer.terminal => writer'.written = writer.written /\ writing' = "open"
  /\ ~writer'.terminal => document' \o chunks' \o writer'.sink = Output(writer')
  /\ writing' = "finished" => document' = Append(writer'.written, Closing)
  /\ UNCHANGED <<script, readerVars>>

LEMMA WriterStepOK ==
  ASSUME IInv, WriterStep
  PROVE  IInv' /\ Final
<1>1. /\ IsWriter(writer)' /\ IsReader(reader)' /\ (script \in Seq(ItemKind))'
  BY DEF IInv, TypeOK, WriterStep, readerVars, IsWriter, IsReader
<1>2. /\ Closing' = Closing
  BY DEF WriterStep, Closing
<1>3. Output(writer)' = Output(writer')
  BY <1>2 DEF Output
<1>4. OutputKept'
  <2>1. /\ ~writer'.terminal /\ writing' # "closed" =>
             document' \o chunks' \o writer'.sink = Output(writer')
        /\ writing' = "finished" => document' = Append(writer'.written, Closing)
    BY DEF WriterStep
  <2>2. (/\ ~writer.terminal /\ writing # "closed" =>
              document \o chunks \o writer.sink = Output(writer)
         /\ writing = "finished" => document = Append(writer.written, Closing))'
    BY <1>2, <1>3, <2>1
  <2>3. (IsWriter(writer) /\ script \in Seq(ItemKind))'
    BY <1>1
  <2> QED BY <2>2, <2>3, KeptIs, PTL
<1>5. TypeOK'
  BY <1>1 DEF IInv, TypeOK, WriterStep, IsWriter, readerVars
<1>6. Final
  BY DEF WriterStep, readerVars, Final
<1> QED BY <1>1, <1>4, <1>5, <1>6 DEF IInv, WriterStep

\* What the invariant says of the writer while it is open.
LEMMA WhileOpen ==
  ASSUME IInv, writing = "open"
  PROVE  /\ script \in Seq(ItemKind) /\ IsWriter(writer)
         /\ received \in Seq(Nat) /\ Len(received) \in Nat /\ sent \in 0 .. Len(received)
         /\ chunks \in Seq(Nat) /\ document \in Seq(Nat)
         /\ writer.sink \in Seq(Nat) /\ writer.written \in Seq(Nat)
         /\ ~writer.terminal => document \o chunks \o writer.sink = Output(writer)
<1>1. /\ script \in Seq(ItemKind) /\ IsWriter(writer) /\ OutputKept
      /\ received \in Seq(Nat) /\ sent \in 0 .. Len(received)
      /\ chunks \in Seq(Nat) /\ document \in Seq(Nat)
      /\ writer.sink \in Seq(Nat) /\ writer.written \in Seq(Nat)
  BY DEF IInv, TypeOK
<1>2. Len(received) \in Nat
  BY <1>1, LenProperties
<1> QED BY <1>1, <1>2, KeptIs

LEMMA NextToPass ==
  ASSUME NEW r \in Seq(Nat), NEW n \in 0 .. Len(r), n < Len(r)
  PROVE  /\ r[n + 1] \in Nat /\ n + 1 # 0
         /\ n \in 0 .. Len(r) /\ n + 1 \in 0 .. Len(r)
<1>1. Len(r) \in Nat /\ n \in Nat
  BY LenProperties
<1>2. n + 1 \in 1 .. Len(r)
  BY <1>1
<1>3. r[n + 1] \in Nat
  BY <1>2, ElementOfSeq
<1> QED BY <1>1, <1>2, <1>3

LEMMA WriteStep == ASSUME IInv, Write PROVE WriterStep
<1>1. writing = "open" /\ sent < Len(received)
  BY DEF Write, MayWrite, Free
<1>2. /\ script \in Seq(ItemKind) /\ IsWriter(writer)
      /\ received \in Seq(Nat) /\ sent \in 0 .. Len(received)
      /\ chunks \in Seq(Nat) /\ document \in Seq(Nat)
      /\ writer.sink \in Seq(Nat) /\ writer.written \in Seq(Nat)
      /\ ~writer.terminal => document \o chunks \o writer.sink = Output(writer)
  BY <1>1, WhileOpen
<1>3. PICK memory \in {"enough", "no result"} :
        Written(iox_writer_write_event_json(memory, writer, received[sent + 1],
                                            ReactionTo(received[sent + 1])))
  BY DEF Write
<1>4. PICK e : e = received[sent + 1]
  OBVIOUS
<1>5. /\ e \in Nat /\ sent + 1 # 0
      /\ sent \in 0 .. Len(received) /\ sent + 1 \in 0 .. Len(received)
  BY <1>1, <1>2, <1>4, NextToPass
<1>6. PICK r, a : r = ReactionTo(e) /\ a = iox_writer_write_event_json(memory, writer, e, r)
  OBVIOUS
<1>7. Written(a)
  BY <1>3, <1>4, <1>6
<1>8. writer' = a.handle
  BY <1>7 DEF Written
<1>9. /\ pc' \in {"idle", "take"} /\ (pc' = "take" => sent' # 0)
      /\ sent' \in 0 .. Len(received)
  <2>1. CASE pc' = "take" /\ sent' = sent + 1
    BY <1>5, <2>1, Zenon
  <2>2. CASE pc' = "idle" /\ sent' \in {sent, sent + 1}
    BY <1>5, <2>2
  <2> QED BY <1>7, <2>1, <2>2 DEF Written, WriterThrows
<1>10. /\ UNCHANGED <<script, readerVars>> /\ writing' = "open"
       /\ chunks' = chunks /\ document' = document
  BY <1>1 DEF Write
<1>11. WriteOutcome(a, e)
  BY <1>2, <1>5, <1>6, WriteType
<1>12. ASSUME ~writer'.terminal
       PROVE  document' \o chunks' \o writer'.sink = Output(writer')
  <2>1. CASE writer.finished
    <3>1. /\ writer'.written = writer.written /\ writer'.sink = writer.sink
          /\ writer'.finished /\ ~writer.terminal
      BY <1>8, <1>11, <1>12, <2>1 DEF WriteOutcome
    <3>2. Output(writer') = Output(writer)
      BY <2>1, <3>1 DEF Output
    <3> QED BY <1>2, <1>10, <3>1, <3>2
  <2>2. CASE ~writer.finished
    <3>1. /\ writer'.written = Append(writer.written, e)
          /\ writer'.sink = Append(writer.sink, e)
          /\ ~writer'.finished /\ ~writer.terminal
      BY <1>8, <1>11, <1>12, <2>2 DEF WriteOutcome
    <3>2. document \o chunks \o writer.sink = writer.written
      BY <1>2, <2>2, <3>1 DEF Output
    <3>3. document \o chunks \o Append(writer.sink, e)
            = Append(document \o chunks \o writer.sink, e)
      <4>1. /\ document \in Seq(Nat) /\ chunks \in Seq(Nat)
            /\ writer.sink \in Seq(Nat) /\ e \in Nat
        BY <1>2, <1>5
      <4> QED BY ONLY <4>1, OneMore
    <3>4. Output(writer') = Append(writer.written, e)
      BY <3>1 DEF Output
    <3> QED BY <1>10, <3>1, <3>2, <3>3, <3>4
  <2> QED BY <2>1, <2>2
<1>13. IsWriter(writer') /\ (writer.terminal => writer'.written = writer.written)
  BY <1>8, <1>11 DEF WriteOutcome
<1>14. chunks' \in Seq(Nat) /\ document' \in Seq(Nat)
  BY <1>2, <1>10
<1> QED BY <1>1, <1>9, <1>10, <1>12, <1>13, <1>14 DEF WriterStep

\* What a step leaves of the output where the writer says nothing new.
LEMMA SameWriter ==
  ASSUME IInv, writing = "open", UNCHANGED <<script, readerVars, writer>>,
         writing' = "open", pc' = "idle", sent' \in 0 .. Len(received),
         chunks' \in Seq(Nat), document' \in Seq(Nat),
         document' \o chunks' \o writer.sink = document \o chunks \o writer.sink
  PROVE  WriterStep
<1>1. /\ IsWriter(writer)
      /\ ~writer.terminal => document \o chunks \o writer.sink = Output(writer)
  BY WhileOpen
<1> QED BY <1>1 DEF WriterStep

LEMMA TakeChunkStep == ASSUME IInv, TakeChunk PROVE WriterStep
<1>1. writing = "open" /\ sent # 0
  BY DEF TakeChunk, IInv
<1>2. /\ script \in Seq(ItemKind) /\ IsWriter(writer)
      /\ Len(received) \in Nat /\ sent \in 0 .. Len(received)
      /\ chunks \in Seq(Nat) /\ document \in Seq(Nat) /\ writer.sink \in Seq(Nat)
      /\ ~writer.terminal => document \o chunks \o writer.sink = Output(writer)
  BY <1>1, WhileOpen
<1>3. PICK memory \in Memory :
        LET answer == iox_writer_take_output(memory, writer)
        IN  /\ writer' = answer.handle
            /\ \/ /\ answer.result.status = "OK" /\ pc' = "idle"
                  /\ chunks' = chunks \o answer.result.bytes
                  /\ UNCHANGED <<writerErrors, sent>>
               \/ /\ answer.result.status # "OK" /\ WriterThrows
                  /\ sent' \in {sent, sent - 1} /\ UNCHANGED chunks
  BY DEF TakeChunk
<1>4. PICK a : a = iox_writer_take_output(memory, writer)
  OBVIOUS
<1>5. TakeOutcome(a)
  BY <1>2, <1>4, TakeOutputType
<1>6. /\ writer' = a.handle
      /\ \/ /\ a.result.status = "OK" /\ pc' = "idle"
            /\ chunks' = chunks \o a.result.bytes /\ sent' = sent
         \/ /\ a.result.status # "OK" /\ pc' = "idle"
            /\ sent' \in {sent, sent - 1} /\ chunks' = chunks
  BY <1>3, <1>4 DEF WriterThrows
<1>7. pc' = "idle" /\ sent' \in 0 .. Len(received)
  <2>1. sent - 1 \in 0 .. Len(received)
    BY <1>1, <1>2
  <2> QED BY <1>2, <1>6, <2>1
<1>8. UNCHANGED <<script, readerVars>> /\ writing' = "open" /\ document' = document
  BY <1>1 DEF TakeChunk
<1>9. IsWriter(writer') /\ (writer.terminal => writer'.written = writer.written)
  BY <1>5, <1>6 DEF TakeOutcome
<1>10. /\ chunks' \in Seq(Nat)
       /\ ~writer'.terminal => document' \o chunks' \o writer'.sink = Output(writer')
  <2>1. CASE a.result.status # "OK"
    <3>1. chunks' = chunks
      BY <1>6, <2>1
    <3>2. CASE a.handle = writer
      BY <1>2, <1>6, <1>8, <3>1, <3>2
    <3>3. CASE a.handle.terminal
      BY <1>2, <1>6, <3>1, <3>3
    <3> QED BY <1>5, <2>1, <3>2, <3>3 DEF TakeOutcome
  <2>2. CASE a.result.status = "OK"
    <3>1. /\ ~writer.terminal /\ writer'.sink = <<>> /\ chunks' = chunks \o writer.sink
          /\ writer'.written = writer.written /\ writer'.finished = writer.finished
      BY <1>5, <1>6, <2>2 DEF TakeOutcome
    <3>2. /\ chunks \o writer.sink \in Seq(Nat)
          /\ document \o (chunks \o writer.sink) \o <<>> = document \o chunks \o writer.sink
      BY <1>2, MovedOn
    <3>3. Output(writer') = Output(writer)
      BY <3>1 DEF Output
    <3> QED BY <1>2, <1>8, <3>1, <3>2, <3>3
  <2> QED BY <2>1, <2>2
<1>11. document' \in Seq(Nat)
  BY <1>2, <1>8
<1> QED BY <1>1, <1>7, <1>8, <1>9, <1>10, <1>11 DEF WriterStep

LEMMA TakeOutputStep == ASSUME IInv, TakeOutput PROVE WriterStep
<1>1. writing = "open" /\ pc = "idle"
  BY DEF TakeOutput, Free
<1>2. /\ chunks \in Seq(Nat) /\ document \in Seq(Nat) /\ writer.sink \in Seq(Nat)
      /\ sent \in 0 .. Len(received)
  BY <1>1, WhileOpen
<1>3. document' = document \o chunks \o <<>> /\ chunks' = <<>>
  BY DEF TakeOutput, TakeChunks
<1>4. /\ document \o chunks \o <<>> \in Seq(Nat) /\ <<>> \in Seq(Nat)
      /\ (document \o chunks \o <<>>) \o <<>> \o writer.sink
           = document \o chunks \o writer.sink
  <2>1. <<>> \in Seq(Nat)
    OBVIOUS
  <2>2. document \o chunks \o <<>> \in Seq(Nat)
    BY <1>2, <2>1, MovedOn
  <2> QED BY <1>2, <2>1, <2>2, MovedOn
<1>5. UNCHANGED <<script, readerVars, writer>> /\ writing' = "open" /\ pc' = "idle" /\ sent' = sent
  BY <1>1 DEF TakeOutput
<1> QED BY <1>1, <1>2, <1>3, <1>4, <1>5, SameWriter

LEMMA FinishStep == ASSUME IInv, FinishWriter PROVE WriterStep
<1>1. writing = "open" /\ pc = "idle"
  BY DEF FinishWriter, MayWrite, Free
<1>2. /\ script \in Seq(ItemKind) /\ IsWriter(writer) /\ sent \in 0 .. Len(received)
      /\ chunks \in Seq(Nat) /\ document \in Seq(Nat) /\ writer.sink \in Seq(Nat)
      /\ ~writer.terminal => document \o chunks \o writer.sink = Output(writer)
  BY <1>1, WhileOpen
<1>3. PICK memory \in Memory :
        LET answer == iox_writer_finish(memory, writer)
        IN  /\ writer' = answer.handle
            /\ \/ /\ answer.result.status = "OK" /\ writing' = "finished"
                  /\ TakeChunks(answer.result.bytes)
                  /\ UNCHANGED <<pc, writerErrors>>
               \/ /\ answer.result.status # "OK" /\ WriterThrows
                  /\ UNCHANGED <<writing, chunks, document>>
  BY DEF FinishWriter
<1>4. PICK a : a = iox_writer_finish(memory, writer)
  OBVIOUS
<1>5. FinishOutcome(a)
  BY <1>2, <1>4, FinishWriterType
<1>6. writer' = a.handle /\ pc' = "idle" /\ UNCHANGED <<script, readerVars, sent>>
  BY <1>1, <1>3, <1>4 DEF WriterThrows, FinishWriter
<1>7. \/ /\ a.result.status = "OK" /\ writing' = "finished"
         /\ document' = document \o chunks \o a.result.bytes /\ chunks' = <<>>
      \/ /\ a.result.status # "OK" /\ writing' = "open"
         /\ document' = document /\ chunks' = chunks
  BY <1>1, <1>3, <1>4 DEF TakeChunks
<1>8. Closing \in Nat /\ <<>> \in Seq(Nat) /\ IsWriter(writer')
  BY <1>2, <1>5, <1>6 DEF Closing, FinishOutcome
<1>9. Append(writer.sink, Closing) \in Seq(Nat)
  BY <1>2, <1>8, AppendProperties
<1>10. ~writer.terminal =>
         document \o chunks \o Append(writer.sink, Closing) = Append(Output(writer), Closing)
  <2>1. document \o chunks \o Append(writer.sink, Closing)
          = Append(document \o chunks \o writer.sink, Closing)
    BY <1>2, <1>8, OneMore, ZenonT(60)
  <2> QED BY <1>2, <2>1
<1>11. writer'.written = writer.written
  BY <1>5, <1>6 DEF FinishOutcome
<1>12. CASE a.result.status = "OK"
  <2>1. /\ ~writer.terminal /\ ~writer.finished /\ writer'.finished /\ writer'.sink = <<>>
        /\ a.result.bytes = Append(writer.sink, Closing)
    BY <1>5, <1>6, <1>12 DEF FinishOutcome
  <2>2. Output(writer) = writer.written /\ Output(writer') = Append(writer.written, Closing)
    BY <1>11, <2>1 DEF Output
  <2>3. document' = Append(writer.written, Closing) /\ chunks' = <<>> /\ writing' = "finished"
    BY <1>7, <1>10, <1>12, <2>1, <2>2
  <2>4. document' \in Seq(Nat) /\ document' \o <<>> \o <<>> = document'
    <3>1. document \o chunks \o Append(writer.sink, Closing) \in Seq(Nat)
      BY <1>2, <1>9, MovedOn
    <3>2. document' \in Seq(Nat)
      BY <1>7, <1>12, <2>1, <3>1
    <3>3. document' \o <<>> = document'
      BY <3>2, ConcatEmptySeq
    <3> QED BY <3>2, <3>3
  <2> QED BY <1>1, <1>2, <1>6, <1>8, <1>11, <2>1, <2>2, <2>3, <2>4 DEF WriterStep
<1>13. CASE a.result.status # "OK"
  <2>1. document' = document /\ chunks' = chunks /\ writing' = "open"
    BY <1>7, <1>13
  <2>2. ASSUME ~writer'.terminal
        PROVE  document' \o chunks' \o writer'.sink = Output(writer')
    <3>1. ~writer.terminal
      BY <1>5, <1>6, <2>2 DEF FinishOutcome
    <3>2. CASE /\ writer'.sink = writer.sink /\ writer'.finished = writer.finished
      <4>1. Output(writer') = Output(writer)
        BY <1>11, <3>2 DEF Output
      <4> QED BY <1>2, <2>1, <3>1, <3>2, <4>1
    <3>3. CASE /\ ~writer.finished /\ writer'.finished
               /\ writer'.sink = Append(writer.sink, Closing)
      <4>1. /\ Output(writer) = writer.written
            /\ Output(writer') = Append(writer.written, Closing)
        BY <1>11, <3>3 DEF Output
      <4> QED BY <1>10, <2>1, <3>1, <3>3, <4>1
    <3> QED BY <1>5, <1>6, <1>13, <2>2, <3>2, <3>3 DEF FinishOutcome
  <2> QED BY <1>1, <1>2, <1>6, <1>8, <1>11, <2>1, <2>2 DEF WriterStep
<1> QED BY <1>12, <1>13

LEMMA WriterActions ==
  ASSUME IInv, Write \/ WriterCallFails \/ TakeChunk \/ TakeOutput \/ FinishWriter
  PROVE  WriterStep
<1>1. CASE WriterCallFails
  <2>1. writing = "open" /\ (pc = "take" => sent # 0)
    BY <1>1 DEF WriterCallFails, MayWrite, Free, IInv
  <2>2. /\ UNCHANGED <<script, readerVars, writer>> /\ writing' = "open" /\ pc' = "idle"
        /\ sent' = sent \/ (pc = "take" /\ sent' = sent - 1)
        /\ chunks' = chunks /\ document' = document
    BY <1>1, <2>1 DEF WriterCallFails, WriterThrows
  <2>3. sent' \in 0 .. Len(received) /\ chunks \in Seq(Nat) /\ document \in Seq(Nat)
    <3>1. sent \in 0 .. Len(received) /\ chunks \in Seq(Nat) /\ document \in Seq(Nat)
          /\ received \in Seq(Nat)
      BY <2>1, WhileOpen DEF IInv, TypeOK
    <3>2. Len(received) \in Nat
      BY <3>1, LenProperties
    <3> QED BY <2>1, <2>2, <3>1, <3>2
  <2> QED BY <2>1, <2>2, <2>3, SameWriter
<1> QED BY <1>1, WriteStep, TakeChunkStep, TakeOutputStep, FinishStep

LEMMA CloseWriterOK == ASSUME IInv, CloseWriter PROVE IInv' /\ Final
<1>1. /\ pc = "idle" /\ <<>> \in Seq(Nat)
      /\ writing' = "closed" /\ chunks' = <<>>
      /\ UNCHANGED <<script, pc, readerVars, writer, document, sent>>
  BY DEF CloseWriter, Free
<1>2. TypeOK' /\ IsReader(reader)' /\ IsWriter(writer)'
  BY <1>1 DEF IInv, TypeOK, readerVars, IsReader, IsWriter
<1>3. OutputKept'
  BY <1>1 DEF OutputKept
<1>4. Final
  BY <1>1 DEF Final, readerVars
<1> QED BY <1>1, <1>2, <1>3, <1>4 DEF IInv

LEMMA StepOK == ASSUME IInv, [WasmNext]_wasmVars PROVE IInv' /\ [Final]_wasmVars
<1>1. CASE Feed \/ ReaderCallFails \/ Finish \/ Ask \/ Drain \/ CloseReader
  BY <1>1, ReaderActions, ReaderStepOK
<1>2. CASE Write \/ WriterCallFails \/ TakeChunk \/ TakeOutput \/ FinishWriter
  BY <1>2, WriterActions, WriterStepOK
<1>3. CASE CloseWriter
  BY <1>3, CloseWriterOK
<1>4. CASE UNCHANGED wasmVars
  <2>1. UNCHANGED <<script, pc, readerVars, writerVars>>
    BY <1>4 DEF wasmVars
  <2>2. TypeOK' /\ IsReader(reader)' /\ IsWriter(writer)'
    BY <2>1 DEF IInv, TypeOK, readerVars, writerVars, IsReader, IsWriter
  <2>3. OutputKept'
    BY <2>1 DEF IInv, OutputKept, writerVars, Closing
  <2> QED BY <1>4, <2>1, <2>2, <2>3 DEF IInv, writerVars
<1> QED BY <1>1, <1>2, <1>3, <1>4 DEF WasmNext

LEMMA InvariantHolds == WasmSpec => []IInv
<1>1. IInv /\ [WasmNext]_wasmVars => IInv'
  BY StepOK
<1> QED BY <1>1, InitOK, PTL DEF WasmSpec

\* The handles and what index.js keeps beside them have their types.
THEOREM TypeCorrect == WasmSpec => []TypeOK
<1>1. IInv => TypeOK
  BY DEF IInv
<1> QED BY <1>1, InvariantHolds, PTL

\* For every input and however many calls and allocations fail: what the C ABI's writer has written
\* is in its sink, in index.js's chunks or with the program, once and in order, unless the writer has
\* failed; and what finish() completes is the whole document.
THEOREM OutputIsKept == WasmSpec => []OutputKept
<1>1. IInv => OutputKept
  BY DEF IInv
<1> QED BY <1>1, InvariantHolds, PTL

\* A handle of the C ABI that has failed is not used again, whatever the program goes on to call.
THEOREM FailureIsFinal == WasmSpec => ErrorsAreFinal
<1>1. IInv /\ [WasmNext]_wasmVars => [Final]_wasmVars
  BY StepOK
<1>2. [Final]_wasmVars =>
        [/\ reader.terminal => reader'.impl = reader.impl /\ UNCHANGED received
         /\ writer.terminal => /\ writer'.written = writer.written
                               /\ writing' = "finished" => writing = "finished"]_wasmVars
  BY DEF Final
<1> QED BY <1>1, <1>2, InvariantHolds, PTL DEF WasmSpec, ErrorsAreFinal
-----------------------------------------------------------------------------
(* The items of the input, and how they follow each other *)
\* The sequences that Only is defined with.
OnlyRunOf(f, s, S) ==
  /\ f[0] = <<>> /\ Only(s, S) = f[Len(s)]
  /\ \A n \in 1 .. Len(s) : f[n] = IF s[n] \in S THEN Append(f[n - 1], s[n]) ELSE f[n - 1]

LEMMA OnlyRun ==
  ASSUME NEW T, NEW s \in Seq(T), NEW S
  PROVE  \E f \in [0 .. Len(s) -> Seq(T)] : OnlyRunOf(f, s, S)
<1> DEFINE More(n, t) == IF s[n] \in S THEN Append(t, s[n]) ELSE t
           more == [p \in (1 .. Len(s)) \X Seq(T) |-> More(p[1], p[2])]
           Def(f) == f = [n \in 0 .. Len(s) |->
                            IF n = 0 THEN <<>>
                            ELSE IF s[n] \in S THEN Append(f[n - 1], s[n]) ELSE f[n - 1]]
<1>1. Len(s) \in Nat /\ <<>> \in Seq(T)
  OBVIOUS
<1>2. ASSUME NEW n \in 1 .. Len(s), NEW t \in Seq(T)  PROVE More(n, t) \in Seq(T)
  <2>1. s[n] \in T
    BY ElementOfSeq
  <2> QED BY <2>1, AppendProperties
<1>3. more \in [(1 .. Len(s)) \X Seq(T) -> Seq(T)]
  <2> HIDE DEF More
  <2> QED BY <1>2
<1>4. PICK g : RunOf(g, <<>>, more, Len(s), Seq(T))
  <2>1. StepOn(more, Len(s), Seq(T))
    BY <1>3 DEF StepOn
  <2> HIDE DEF more
  <2> QED BY <1>1, <2>1, Recursion
<1>5. g \in [0 .. Len(s) -> Seq(T)] /\ g[0] = <<>>
  BY <1>4 DEF RunOf
<1>6. ASSUME NEW n \in 1 .. Len(s)  PROVE g[n] = More(n, g[n - 1])
  <2> HIDE DEF More, more
  <2>0. n - 1 \in 0 .. Len(s)
    BY <1>1
  <2>1. g[n - 1] \in Seq(T)
    BY <1>5, <2>0
  <2> USE DEF more
  <2>2. more[<<n, g[n - 1]>>] = More(n, g[n - 1])
    BY <2>1
  <2> HIDE DEF more
  <2> QED BY <1>4, <2>2 DEF RunOf
<1>7. Def(g)
  <2>1. ASSUME NEW n \in 0 .. Len(s)
        PROVE  g[n] = IF n = 0 THEN <<>>
                      ELSE IF s[n] \in S THEN Append(g[n - 1], s[n]) ELSE g[n - 1]
    <3> HIDE DEF more
    <3>1. CASE n = 0
      BY <1>5, <3>1
    <3>2. CASE n # 0
      <4>1. n \in 1 .. Len(s)
        BY <1>1, <3>2
      <4> QED BY <1>6, <3>2, <4>1
    <3> QED BY <3>1, <3>2
  <2> HIDE DEF more
  <2> QED BY <1>5, <2>1
<1> DEFINE f == CHOOSE h : Def(h)
<1>8. Def(f)
  <2> HIDE DEF Def
  <2> QED BY <1>7
<1> HIDE DEF f
<1>9. /\ f[0] = <<>> /\ \A n \in 1 .. Len(s) : f[n] = More(n, f[n - 1])
      /\ DOMAIN f = 0 .. Len(s) /\ f = [n \in DOMAIN f |-> f[n]]
  <2> HIDE DEF more, More
  <2>1. DOMAIN f = 0 .. Len(s) /\ f = [n \in DOMAIN f |-> f[n]] /\ f[0] = <<>>
    BY <1>1, <1>8
  <2>2. ASSUME NEW n \in 1 .. Len(s)  PROVE f[n] = More(n, f[n - 1])
    <3>1. n \in 0 .. Len(s) /\ n # 0
      BY <1>1
    <3>2. f[n] = IF n = 0 THEN <<>>
                 ELSE IF s[n] \in S THEN Append(f[n - 1], s[n]) ELSE f[n - 1]
      BY <1>8, <3>1
    <3> QED BY <3>1, <3>2 DEF More
  <2> QED BY <2>1, <2>2
<1> DEFINE R == {k \in Nat : f[k] \in Seq(T)}
<1>10. \A n \in 0 .. Len(s) : n \in R
  <2>1. 0 \in R
    BY <1>1, <1>9
  <2>2. ASSUME NEW n \in 1 .. Len(s), n - 1 \in R  PROVE n \in R
    <3>1. n \in Nat /\ f[n - 1] \in Seq(T)
      BY <2>2
    <3> HIDE DEF More
    <3> QED BY <1>2, <1>9, <2>2, <3>1
  <2> HIDE DEF R
  <2> QED BY <1>1, <2>1, <2>2, RangeInduction
<1>11. f \in [0 .. Len(s) -> Seq(T)]
  BY <1>9, <1>10
<1>12. Only(s, S) = f[Len(s)]
  BY DEF Only, f
<1>13. OnlyRunOf(f, s, S)
  BY <1>9, <1>12 DEF OnlyRunOf
<1> QED BY <1>11, <1>13

LEMMA OnlyEmpty == ASSUME NEW S PROVE Only(<<>>, S) = <<>>
<1>1. <<>> \in Seq({})
  OBVIOUS
<1>2. PICK f : OnlyRunOf(f, <<>>, S)
  BY <1>1, OnlyRun
<1> QED BY <1>2 DEF OnlyRunOf

LEMMA OnlyAppend ==
  ASSUME NEW T, NEW s \in Seq(T), NEW e \in T, NEW S
  PROVE  /\ Only(s, S) \in Seq(T)
         /\ e \in S => Only(Append(s, e), S) = Append(Only(s, S), e)
         /\ e \notin S => Only(Append(s, e), S) = Only(s, S)
<1> DEFINE t == Append(s, e)
<1>1. t \in Seq(T) /\ Len(t) = Len(s) + 1 /\ t[Len(s) + 1] = e /\ Len(s) \in Nat
      /\ \A n \in 1 .. Len(s) : t[n] = s[n]
  BY AppendProperties
<1>2. PICK f \in [0 .. Len(s) -> Seq(T)] : OnlyRunOf(f, s, S)
  BY OnlyRun
<1> HIDE DEF t
<1>3. PICK g \in [0 .. Len(t) -> Seq(T)] : OnlyRunOf(g, t, S)
  <2>1. t \in Seq(T)
    BY <1>1
  <2> QED BY ONLY <2>1, OnlyRun
<1> DEFINE R == {k \in Nat : g[k] = f[k]}
<1>4. \A n \in 0 .. Len(s) : n \in R
  <2>1. 0 \in R
    BY <1>2, <1>3 DEF OnlyRunOf
  <2>2. ASSUME NEW n \in 1 .. Len(s), n - 1 \in R  PROVE n \in R
    <3>1. n \in 1 .. Len(t) /\ t[n] = s[n] /\ g[n - 1] = f[n - 1] /\ n \in Nat
      BY <1>1, <2>2
    <3> QED BY <1>2, <1>3, <3>1 DEF OnlyRunOf
  <2> HIDE DEF R
  <2> QED BY <1>1, <2>1, <2>2, RangeInduction
<1>5. g[Len(s)] = f[Len(s)] /\ Len(s) + 1 \in 1 .. Len(t) /\ (Len(s) + 1) - 1 = Len(s)
  BY <1>1, <1>4
<1>6. Only(t, S) = IF e \in S THEN Append(f[Len(s)], e) ELSE f[Len(s)]
  BY <1>1, <1>3, <1>5 DEF OnlyRunOf
<1>7. Only(s, S) \in Seq(T) /\ Only(s, S) = f[Len(s)]
  BY <1>1, <1>2 DEF OnlyRunOf
<1> QED BY <1>6, <1>7 DEF t

LEMMA OnlyType == ASSUME NEW T, NEW s \in Seq(T), NEW S PROVE Only(s, S) \in Seq(T)
BY OnlyRun DEF OnlyRunOf

LEMMA OnlyTakes ==
  ASSUME NEW T, NEW s \in Seq(T), NEW e \in T, NEW S, e \in S
  PROVE  Only(Append(s, e), S) = Append(Only(s, S), e)
BY OnlyAppend

LEMMA OnlySkips ==
  ASSUME NEW T, NEW s \in Seq(T), NEW e \in T, NEW S, e \notin S
  PROVE  Only(Append(s, e), S) = Only(s, S)
BY OnlyAppend

LEMMA Regroup ==
  ASSUME NEW T, NEW p \in Seq(T), NEW q \in Seq(T), NEW s \in Seq(T)
  PROVE  /\ (p \o q) \o s = p \o (q \o s)
         /\ p \o q \in Seq(T) /\ q \o s \in Seq(T) /\ p \o (q \o s) \in Seq(T)
<1>1. p \o q \in Seq(T) /\ q \o s \in Seq(T)
  BY ConcatProperties
<1>2. p \o (q \o s) \in Seq(T)
  BY <1>1, ConcatProperties
<1>3. (p \o q) \o s = p \o (q \o s)
  BY ConcatAssociative
<1> QED BY <1>1, <1>2, <1>3

LEMMA AppendBehind ==
  ASSUME NEW p \in Seq(Nat), NEW q \in Seq(Nat), NEW x \in Nat
  PROVE  Append(p \o q, x) = p \o Append(q, x)
<1>1. p \o q \in Seq(Nat) /\ <<x>> \in Seq(Nat)
  BY ConcatProperties
<1>2. Append(p \o q, x) = (p \o q) \o <<x>> /\ Append(q, x) = q \o <<x>>
  BY <1>1, AppendIsConcat
<1>3. (p \o q) \o <<x>> = p \o (q \o <<x>>)
  BY <1>1, ConcatAssociative
<1> QED BY <1>2, <1>3

LEMMA NoItems == ASSUME NEW k, NEW a \in Nat PROVE ItemsOf(k, a, a) = <<>>
<1>1. [n \in 1 .. a - a |-> a + n] = <<>>
  OBVIOUS
<1> QED BY <1>1, OnlyEmpty DEF ItemsOf

\* One item more.
LEMMA NextItem ==
  ASSUME script \in Seq(ItemKind), NEW k, NEW a \in Nat, NEW b \in Nat, a <= b, b < Len(script)
  PROVE  /\ ItemsOf(k, a, b) \in Seq(Nat)
         /\ script[b + 1] \in k => ItemsOf(k, a, b + 1) = Append(ItemsOf(k, a, b), b + 1)
         /\ script[b + 1] \notin k => ItemsOf(k, a, b + 1) = ItemsOf(k, a, b)
<1>1. PICK s : s = [n \in 1 .. b - a |-> a + n]
  OBVIOUS
<1>2. PICK S : S = {i \in DOMAIN script : script[i] \in k}
  OBVIOUS
<1>3. s \in Seq(Nat) /\ Len(s) = b - a /\ b + 1 \in Nat
  BY <1>1, SMT
<1>4. [n \in 1 .. (b + 1) - a |-> a + n] = Append(s, b + 1)
  BY <1>1, SMT
<1>5. b + 1 \in S <=> script[b + 1] \in k
  BY <1>2
<1>6. ItemsOf(k, a, b) = Only(s, S) /\ ItemsOf(k, a, b + 1) = Only(Append(s, b + 1), S)
  BY <1>1, <1>2, <1>4 DEF ItemsOf
<1>7. Only(s, S) \in Seq(Nat)
  BY <1>3, OnlyType
<1>8. script[b + 1] \in k => ItemsOf(k, a, b + 1) = Append(ItemsOf(k, a, b), b + 1)
  <2>1. SUFFICES ASSUME script[b + 1] \in k
                 PROVE  ItemsOf(k, a, b + 1) = Append(ItemsOf(k, a, b), b + 1)
    OBVIOUS
  <2>2. ASSUME NEW c \in Nat, c \in S  PROVE Only(Append(s, c), S) = Append(Only(s, S), c)
    BY <1>3, <2>2, OnlyTakes
  <2>3. Only(Append(s, b + 1), S) = Append(Only(s, S), b + 1)
    BY <1>3, <1>5, <2>1, <2>2
  <2> QED BY <1>6, <2>3
<1>9. script[b + 1] \notin k => ItemsOf(k, a, b + 1) = ItemsOf(k, a, b)
  BY <1>3, <1>5, <1>6, OnlySkips
<1> QED BY <1>6, <1>7, <1>8, <1>9

LEMMA IncreasingAppend ==
  ASSUME NEW s \in Seq(Nat), Increasing(s), NEW e \in Nat, \A n \in DOMAIN s : s[n] < e
  PROVE  Increasing(Append(s, e))
<1> DEFINE t == Append(s, e)
<1>1. DOMAIN s = 1 .. Len(s) /\ DOMAIN t = 1 .. Len(s) + 1 /\ Len(s) \in Nat
      /\ t[Len(s) + 1] = e /\ \A n \in 1 .. Len(s) : t[n] = s[n] /\ s[n] \in Nat
  BY AppendProperties, ElementOfSeq
<1> HIDE DEF t
<1>2. ASSUME NEW m \in DOMAIN t, NEW n \in DOMAIN t, m < n  PROVE t[m] < t[n]
  <2>1. m \in 1 .. Len(s) /\ n \in 1 .. Len(s) + 1
    BY <1>1, <1>2
  <2>2. CASE n = Len(s) + 1
    BY <1>1, <2>1, <2>2
  <2>3. CASE n # Len(s) + 1
    <3>1. n \in 1 .. Len(s)
      BY <1>1, <2>1, <2>3
    <3> QED BY <1>1, <1>2, <2>1, <3>1 DEF Increasing
  <2> QED BY <2>2, <2>3
<1>3. Increasing(t)
  BY <1>2 DEF Increasing
<1> QED BY <1>3 DEF t

\* The items in a range, in their order, and no others.
Listed(s, k, a, b) ==
  /\ s \in Seq(Nat) /\ Increasing(s)
  /\ \A n \in DOMAIN s : s[n] \in a + 1 .. b /\ script[s[n]] \in k
  /\ \A j \in a + 1 .. b : script[j] \in k => \E n \in DOMAIN s : s[n] = j

LEMMA ListedAppend ==
  ASSUME NEW k, NEW a \in Nat, NEW b \in Nat, a <= b, NEW s, Listed(s, k, a, b)
  PROVE  /\ script[b + 1] \in k => Listed(Append(s, b + 1), k, a, b + 1)
         /\ script[b + 1] \notin k => Listed(s, k, a, b + 1)
<1>1. /\ s \in Seq(Nat) /\ Increasing(s)
      /\ \A n \in DOMAIN s : s[n] \in a + 1 .. b /\ script[s[n]] \in k
      /\ \A j \in a + 1 .. b : script[j] \in k => \E n \in DOMAIN s : s[n] = j
  BY DEF Listed
<1>2. b + 1 \in Nat /\ \A j \in a + 1 .. b + 1 : j \in a + 1 .. b \/ j = b + 1
  OBVIOUS
<1>3. ASSUME script[b + 1] \in k  PROVE Listed(Append(s, b + 1), k, a, b + 1)
  <2> DEFINE t == Append(s, b + 1)
  <2>1. t \in Seq(Nat) /\ DOMAIN s = 1 .. Len(s) /\ DOMAIN t = 1 .. Len(s) + 1 /\ Len(s) \in Nat
        /\ t[Len(s) + 1] = b + 1 /\ \A n \in 1 .. Len(s) : t[n] = s[n]
    BY <1>1, <1>2, AppendProperties
  <2>2. \A n \in DOMAIN s : s[n] < b + 1
    BY <1>1
  <2>3. Increasing(t)
    BY <1>1, <1>2, <2>2, IncreasingAppend
  <2> HIDE DEF t
  <2>4. ASSUME NEW n \in DOMAIN t  PROVE t[n] \in a + 1 .. b + 1 /\ script[t[n]] \in k
    <3>1. CASE n = Len(s) + 1
      BY <1>3, <2>1, <3>1
    <3>2. CASE n # Len(s) + 1
      <4>1. n \in DOMAIN s /\ t[n] = s[n]
        BY <2>1, <3>2
      <4> QED BY <1>1, <4>1
    <3> QED BY <3>1, <3>2
  <2>5. ASSUME NEW j \in a + 1 .. b + 1, script[j] \in k  PROVE \E n \in DOMAIN t : t[n] = j
    <3>1. CASE j = b + 1
      <4>1. Len(s) + 1 \in DOMAIN t
        BY <2>1
      <4> QED BY <2>1, <3>1, <4>1
    <3>2. CASE j \in a + 1 .. b
      <4>1. PICK n \in DOMAIN s : s[n] = j
        BY <1>1, <2>5, <3>2
      <4>2. n \in DOMAIN t /\ t[n] = j
        BY <2>1, <4>1
      <4> QED BY <4>2
    <3> QED BY <1>2, <3>1, <3>2
  <2>6. Listed(t, k, a, b + 1)
    BY <2>1, <2>3, <2>4, <2>5 DEF Listed
  <2> QED BY <2>6 DEF t
<1>4. ASSUME script[b + 1] \notin k  PROVE Listed(s, k, a, b + 1)
  <2>1. ASSUME NEW n \in DOMAIN s  PROVE s[n] \in a + 1 .. b + 1 /\ script[s[n]] \in k
    BY <1>1
  <2>2. ASSUME NEW j \in a + 1 .. b + 1, script[j] \in k  PROVE j \in a + 1 .. b
    BY <1>2, <1>4, <2>2
  <2> QED BY <1>1, <2>1, <2>2 DEF Listed
<1> QED BY <1>3, <1>4

LEMMA ItemsListed ==
  ASSUME script \in Seq(ItemKind), NEW k, NEW a \in Nat, NEW b \in Nat, a <= b, b <= Len(script)
  PROVE  Listed(ItemsOf(k, a, b), k, a, b)
<1> DEFINE S == {d \in Nat : Listed(ItemsOf(k, a, a + d), k, a, a + d)}
<1>1. Len(script) \in Nat /\ b - a \in Nat /\ a + (b - a) = b
  OBVIOUS
<1>2. 0 \in S
  <2>1. ItemsOf(k, a, a) = <<>> /\ a + 0 = a
    BY NoItems
  <2>2. <<>> \in Seq(Nat) /\ DOMAIN <<>> = {} /\ a + 1 .. a = {}
    OBVIOUS
  <2> QED BY <2>1, <2>2 DEF Listed, Increasing
<1>3. ASSUME NEW d \in 1 .. b - a, d - 1 \in S  PROVE d \in S
  <2>1. PICK c \in Nat : c = a + (d - 1)
    BY <1>1, <1>3
  <2>2. a <= c /\ c < Len(script) /\ c + 1 = a + d /\ d \in Nat
    BY <1>1, <1>3, <2>1
  <2>3. Listed(ItemsOf(k, a, c), k, a, c)
    BY <1>3, <2>1
  <2>4. Listed(ItemsOf(k, a, c + 1), k, a, c + 1)
    <3>1. PICK s : s = ItemsOf(k, a, c)
      OBVIOUS
    <3>2. /\ script[c + 1] \in k => Listed(Append(s, c + 1), k, a, c + 1)
          /\ script[c + 1] \notin k => Listed(s, k, a, c + 1)
      BY <2>2, <2>3, <3>1, ListedAppend
    <3>3. /\ script[c + 1] \in k => ItemsOf(k, a, c + 1) = Append(s, c + 1)
          /\ script[c + 1] \notin k => ItemsOf(k, a, c + 1) = s
      BY <2>2, <3>1, NextItem
    <3> QED BY <3>2, <3>3
  <2> QED BY <2>2, <2>4
<1>4. \A d \in 0 .. b - a : d \in S
  <2> HIDE DEF S
  <2> QED BY <1>1, <1>2, <1>3, RangeInduction
<1>5. b - a \in S
  BY <1>1, <1>4
<1> QED BY <1>1, <1>5

LEMMA ItemsType ==
  ASSUME script \in Seq(ItemKind), NEW k, NEW a \in Nat, NEW b \in Nat, a <= b, b <= Len(script)
  PROVE  ItemsOf(k, a, b) \in Seq(Nat)
BY ItemsListed DEF Listed

LEMMA ItemsJoin ==
  ASSUME script \in Seq(ItemKind), NEW k, NEW a \in Nat, NEW b \in Nat, NEW c \in Nat,
         a <= b, b <= c, c <= Len(script)
  PROVE  ItemsOf(k, a, c) = ItemsOf(k, a, b) \o ItemsOf(k, b, c)
<1> DEFINE S == {d \in Nat : ItemsOf(k, a, b + d) = ItemsOf(k, a, b) \o ItemsOf(k, b, b + d)}
<1>1. Len(script) \in Nat /\ c - b \in Nat /\ b + (c - b) = c
  OBVIOUS
<1>2. 0 \in S
  <2>1. ItemsOf(k, b, b) = <<>> /\ b + 0 = b /\ ItemsOf(k, a, b) \in Seq(Nat)
    <3>1. b <= Len(script)
      BY <1>1
    <3> QED BY <3>1, NoItems, ItemsType
  <2> QED BY <2>1, ConcatEmptySeq
<1>3. ASSUME NEW d \in 1 .. c - b, d - 1 \in S  PROVE d \in S
  <2>1. PICK e \in Nat : e = b + (d - 1)
    BY <1>1, <1>3
  <2>2. a <= e /\ b <= e /\ e < Len(script) /\ e + 1 = b + d /\ d \in Nat /\ e + 1 \in Nat
    BY <1>1, <1>3, <2>1
  <2>3. ItemsOf(k, a, e) = ItemsOf(k, a, b) \o ItemsOf(k, b, e)
    BY <1>3, <2>1
  <2>4. ItemsOf(k, a, b) \in Seq(Nat) /\ ItemsOf(k, b, e) \in Seq(Nat)
    <3>1. b <= Len(script) /\ e <= Len(script)
      BY <1>1, <2>2
    <3> QED BY <2>2, <3>1, ItemsType
  <2>5. ItemsOf(k, a, e + 1) = ItemsOf(k, a, b) \o ItemsOf(k, b, e + 1)
    <3>1. CASE script[e + 1] \in k
      <4>1. ItemsOf(k, a, e + 1) = Append(ItemsOf(k, a, e), e + 1)
            /\ ItemsOf(k, b, e + 1) = Append(ItemsOf(k, b, e), e + 1)
        BY <2>2, <3>1, NextItem, ZenonT(60)
      <4>2. ASSUME NEW p \in Seq(Nat), NEW q \in Seq(Nat), NEW x \in Nat
            PROVE  Append(p \o q, x) = p \o Append(q, x)
        BY AppendBehind, ZenonT(60)
      <4>3. PICK p \in Seq(Nat), q \in Seq(Nat) : p = ItemsOf(k, a, b) /\ q = ItemsOf(k, b, e)
        BY <2>4
      <4>4. Append(p \o q, e + 1) = p \o Append(q, e + 1)
        BY <2>2, <4>2, ZenonT(60)
      <4> QED BY <2>3, <4>1, <4>3, <4>4
    <3>2. CASE script[e + 1] \notin k
      BY <2>2, <2>3, <3>2, NextItem, ZenonT(60)
    <3> QED BY <3>1, <3>2
  <2> QED BY <2>2, <2>5
<1>4. \A d \in 0 .. c - b : d \in S
  <2> HIDE DEF S
  <2> QED BY <1>1, <1>2, <1>3, RangeInduction
<1>5. c - b \in S
  <2> HIDE DEF S
  <2> QED BY <1>1, <1>4
<1> QED BY <1>1, <1>5
-----------------------------------------------------------------------------
(* How far a call of the reader gets *)
LEMMA WaitingItems ==
  ASSUME script \in Seq(ItemKind), NEW r \in ReaderState, r.taken <= r.parsed, r.parsed <= Len(script)
  PROVE  Waiting(r) = {} <=> EventsIn(r.taken, r.parsed) = <<>>
<1>1. r.taken \in Nat /\ r.parsed \in Nat
  BY DEF ReaderState
<1>2. PICK s : s = EventsIn(r.taken, r.parsed)
  OBVIOUS
<1>3. Listed(s, EventKind, r.taken, r.parsed)
  BY <1>1, <1>2, ItemsListed DEF EventsIn
<1>4. CASE s = <<>>
  <2>1. DOMAIN s = {}
    BY <1>4
  <2> QED BY <1>2, <1>3, <1>4, <2>1 DEF Listed, Waiting
<1>5. CASE s # <<>>
  <2>1. 1 \in DOMAIN s
    BY <1>3, <1>5 DEF Listed
  <2>2. s[1] \in Waiting(r)
    BY <1>3, <2>1 DEF Listed, Waiting
  <2> QED BY <1>2, <1>5, <2>2
<1> QED BY <1>4, <1>5

LEMMA ForemostItem ==
  ASSUME script \in Seq(ItemKind), NEW r \in ReaderState, r.taken <= r.parsed, r.parsed <= Len(script),
         NEW i \in Foremost(r)
  PROVE  /\ i \in r.taken + 1 .. r.parsed /\ script[i] \in EventKind
         /\ EventsIn(r.taken, i) = <<i>>
<1>1. /\ i \in r.taken + 1 .. r.parsed /\ script[i] \in EventKind
      /\ \A j \in r.taken + 1 .. r.parsed : script[j] \in EventKind => i <= j
  BY DEF Foremost, Waiting
<1>2. r.taken \in Nat /\ r.parsed \in Nat /\ Len(script) \in Nat
  BY DEF ReaderState
<1>3. PICK h \in Nat : h = i - 1
  BY <1>1, <1>2
<1>4. r.taken <= h /\ h < Len(script) /\ h + 1 = i /\ h <= Len(script)
  BY <1>1, <1>2, <1>3
<1>5. PICK s : s = ItemsOf(EventKind, r.taken, h)
  OBVIOUS
<1>6. Listed(s, EventKind, r.taken, h)
  BY <1>2, <1>4, <1>5, ItemsListed
<1>7. s = <<>>
  <2>1. SUFFICES ASSUME s # <<>>  PROVE FALSE
    OBVIOUS
  <2>2. 1 \in DOMAIN s
    BY <1>6, <2>1 DEF Listed
  <2>3. s[1] \in r.taken + 1 .. h /\ script[s[1]] \in EventKind
    BY <1>6, <2>2 DEF Listed
  <2> QED BY <1>1, <1>2, <1>4, <2>3
<1>8. ItemsOf(EventKind, r.taken, h + 1) = Append(<<>>, h + 1)
  <2>1. PICK a \in Nat : a = r.taken
    BY <1>2
  <2>2. script[h + 1] \in EventKind /\ a <= h
    BY <1>1, <1>4, <2>1
  <2>3. ItemsOf(EventKind, a, h + 1) = Append(ItemsOf(EventKind, a, h), h + 1)
    BY <1>4, <2>2, NextItem
  <2> QED BY <1>5, <1>7, <2>1, <2>3
<1> QED BY <1>1, <1>4, <1>8 DEF EventsIn

\* No fault was met, or it is the last item.
NoFaultTo(x, p) ==
  /\ p.parsed \in x.parsed .. Len(script)
  /\ p.failed => p.parsed > x.parsed /\ script[p.parsed] = "fault"
  /\ ~p.failed => \A i \in x.parsed + 1 .. p.parsed : script[i] # "fault"

PumpOutcome(x, p) ==
  /\ p \in ReaderState /\ NoFaultTo(x, p)
  /\ p.told = x.told /\ p.taken = x.taken /\ p.finishCalled = x.finishCalled
  /\ x.finishCalled /\ ~p.failed => Waiting(p) # {} \/ p.parsed = Len(script)

LEMMA PumpGets ==
  ASSUME script \in Seq(ItemKind), NEW x \in ReaderState, ~x.failed, NEW p \in Pumped(x)
  PROVE  PumpOutcome(x, p)
<1>1. PICK to \in x.parsed .. Len(script) :
        /\ p = ParsedTo(x, to)
        /\ \A i \in x.parsed + 1 .. p.parsed - 1 : script[i] # "fault"
        /\ x.finishCalled => p.failed \/ Waiting(p) # {} \/ p.parsed = Len(script)
  BY DEF Pumped
<1>2. p \in ReaderState
  BY PumpedType
<1>3. /\ p.parsed = to /\ p.told = x.told /\ p.taken = x.taken /\ p.finishCalled = x.finishCalled
      /\ p.failed => to > x.parsed /\ script[to] = "fault"
      /\ to > x.parsed /\ script[to] = "fault" => p.failed
  BY <1>1 DEF ParsedTo, ReaderState
<1>4. x.parsed \in Nat /\ to \in Nat /\ Len(script) \in Nat
  BY <1>1 DEF ReaderState
<1>5. ASSUME ~p.failed, NEW i \in x.parsed + 1 .. p.parsed  PROVE script[i] # "fault"
  <2>1. CASE i = to
    BY <1>3, <1>4, <1>5, <2>1
  <2>2. CASE i # to
    <3>1. i \in x.parsed + 1 .. p.parsed - 1
      BY <1>3, <1>4, <2>2
    <3> QED BY <1>1, <3>1
  <2> QED BY <2>1, <2>2
<1> QED BY <1>1, <1>2, <1>3, <1>5 DEF PumpOutcome, NoFaultTo

\* What next() makes of a reader x.
NextOutcome(x, o) ==
  LET q == o.reader
  IN  /\ q \in ReaderState /\ NoFaultTo(x, q)
      /\ q.told = x.told /\ q.finishCalled = x.finishCalled
      /\ q.taken \in x.taken .. q.parsed
      /\ o.event \in Nat /\ o.progress \in {"Threw", "Event", "NeedInput", "End"}
      /\ o.progress = "Threw" <=> q.failed
      /\ o.progress = "Event" =>
           /\ o.event = q.taken /\ q.taken > x.taken /\ script[o.event] \in EventKind
           /\ EventsIn(x.taken, q.taken) = <<o.event>>
      /\ o.progress \in {"NeedInput", "End"} => q.taken = x.taken /\ Waiting(q) = {}
      /\ o.progress = "NeedInput" => ~x.finishCalled
      /\ o.progress = "End" => x.finishCalled /\ q.parsed = Len(script)

LEMMA NextGets ==
  ASSUME script \in Seq(ItemKind), NEW x \in ReaderState, ~x.failed, NEW o \in NextOf(x),
         x.taken <= x.parsed, x.parsed <= Len(script)
  PROVE  NextOutcome(x, o)
<1>1. x.taken \in Nat /\ x.parsed \in Nat /\ Len(script) \in Nat /\ x.finishCalled \in BOOLEAN
  BY DEF ReaderState
<1>2. CASE Waiting(x) = {}
  <2>1. PICK p \in Pumped(x) : o \in Pulled(p)
    BY <1>2 DEF NextOf
  <2>2. PumpOutcome(x, p)
    BY <2>1, PumpGets
  <2>3. /\ p \in ReaderState /\ NoFaultTo(x, p) /\ p.told = x.told /\ p.taken = x.taken
        /\ p.finishCalled = x.finishCalled /\ p.parsed \in x.parsed .. Len(script)
        /\ x.finishCalled /\ ~p.failed => Waiting(p) # {} \/ p.parsed = Len(script)
    BY <2>2 DEF PumpOutcome, NoFaultTo
  <2>4. p.parsed \in Nat /\ p.taken <= p.parsed /\ p.parsed <= Len(script)
    BY <1>1, <2>3
  <2>5. CASE p.failed
    <3>1. o.reader = p /\ o.progress = "Threw" /\ o.event = 0
      BY <2>1, <2>5 DEF Pulled, Threw, Outcome
    <3> QED BY <1>1, <2>3, <2>4, <2>5, <3>1 DEF NextOutcome
  <2>6. CASE ~p.failed /\ Waiting(p) # {}
    <3>1. PICK i \in Foremost(p) : o = Outcome(Popped(p, i), "Event", i)
      BY <2>1, <2>6 DEF Pulled
    <3>2. /\ i \in p.taken + 1 .. p.parsed /\ script[i] \in EventKind
          /\ EventsIn(p.taken, i) = <<i>>
      BY <2>3, <2>4, ForemostItem
    <3>3. PICK q : q = Popped(p, i)
      OBVIOUS
    <3>4. /\ q.taken = i /\ q.parsed = p.parsed /\ q.told = p.told /\ ~q.failed
          /\ q.finishCalled = p.finishCalled /\ q \in ReaderState
      BY <1>1, <2>3, <2>6, <3>2, <3>3 DEF Popped, ReaderState
    <3>5. o.reader = q /\ o.progress = "Event" /\ o.event = i
      BY <3>1, <3>3 DEF Outcome
    <3>6. NoFaultTo(x, q)
      BY <2>3, <2>6, <3>4 DEF NoFaultTo
    <3>7. i \in Nat /\ q.taken > x.taken /\ q.taken \in x.taken .. q.parsed
      BY <1>1, <2>3, <2>4, <3>2, <3>4
    <3> QED BY <2>3, <3>2, <3>4, <3>5, <3>6, <3>7 DEF NextOutcome
  <2>7. CASE ~p.failed /\ Waiting(p) = {}
    <3>1. o = Outcome(p, IF ParseComplete(p) THEN "End" ELSE "NeedInput", 0)
      BY <2>1, <2>7 DEF Pulled
    <3>2. o.reader = p /\ o.event = 0 /\ o.progress = IF ParseComplete(p) THEN "End" ELSE "NeedInput"
      BY <3>1 DEF Outcome
    <3>3. ParseComplete(p) <=> x.finishCalled
      BY <2>3, <2>7 DEF ParseComplete
    <3>4. x.finishCalled => p.parsed = Len(script)
      BY <2>3, <2>7
    <3>5. p.taken \in x.taken .. p.parsed
      BY <1>1, <2>3, <2>4
    <3> QED BY <2>3, <2>7, <3>2, <3>3, <3>4, <3>5 DEF NextOutcome
  <2> QED BY <2>5, <2>6, <2>7
<1>3. CASE Waiting(x) # {}
  <2>1. PICK p \in UNION {Pumped(Popped(x, i)) : i \in Foremost(x)} :
          o = IF p.failed THEN Threw(p) ELSE Outcome(p, "Event", p.taken)
    BY <1>3 DEF NextOf
  <2>2. PICK i \in Foremost(x) : p \in Pumped(Popped(x, i))
    BY <2>1
  <2>3. /\ i \in x.taken + 1 .. x.parsed /\ script[i] \in EventKind
        /\ EventsIn(x.taken, i) = <<i>>
    BY <2>2, ForemostItem
  <2>4. PICK y : y = Popped(x, i)
    OBVIOUS
  <2>5. /\ y.taken = i /\ y.parsed = x.parsed /\ y.told = x.told /\ ~y.failed
        /\ y.finishCalled = x.finishCalled /\ y \in ReaderState
    BY <1>1, <2>3, <2>4 DEF Popped, ReaderState
  <2>6. PumpOutcome(y, p)
    BY <2>2, <2>4, <2>5, PumpGets
  <2>7. /\ p \in ReaderState /\ NoFaultTo(x, p) /\ p.told = x.told /\ p.taken = i
        /\ p.finishCalled = x.finishCalled /\ p.parsed \in x.parsed .. Len(script)
    BY <2>5, <2>6 DEF PumpOutcome, NoFaultTo
  <2>8. i \in Nat /\ p.taken > x.taken /\ p.taken \in x.taken .. p.parsed
    BY <1>1, <2>3, <2>7
  <2>9. CASE p.failed
    <3>1. o.reader = p /\ o.progress = "Threw" /\ o.event = 0
      BY <2>1, <2>9 DEF Threw, Outcome
    <3> QED BY <2>7, <2>8, <2>9, <3>1 DEF NextOutcome
  <2>10. CASE ~p.failed
    <3>1. o.reader = p /\ o.progress = "Event" /\ o.event = i
      BY <2>1, <2>7, <2>10 DEF Outcome
    <3> QED BY <2>3, <2>7, <2>8, <2>10, <3>1 DEF NextOutcome
  <2> QED BY <2>9, <2>10
<1> QED BY <1>2, <1>3
-----------------------------------------------------------------------------
(* What has been told, and what is still in the handle *)
Within(s, b) == \A n \in DOMAIN s : s[n] \in 1 .. b
Grows(s, b) == s \in Seq(Nat) /\ Increasing(s) /\ Within(s, b)

LEMMA ConcatAt ==
  ASSUME NEW T, NEW s \in Seq(T), NEW t \in Seq(T)
  PROVE  /\ s \o t \in Seq(T) /\ DOMAIN s = 1 .. Len(s) /\ DOMAIN t = 1 .. Len(t)
         /\ DOMAIN (s \o t) = 1 .. Len(s) + Len(t) /\ Len(s) \in Nat /\ Len(t) \in Nat
         /\ \A n \in 1 .. Len(s) : (s \o t)[n] = s[n]
         /\ \A n \in 1 .. Len(t) : (s \o t)[Len(s) + n] = t[n]
<1>1. /\ s \o t \in Seq(T) /\ Len(s \o t) = Len(s) + Len(t)
      /\ Len(s) \in Nat /\ Len(t) \in Nat
  BY ConcatProperties
<1>2. \A n \in 1 .. Len(s) : (s \o t)[n] = s[n]
  BY ConcatProperties
<1>3. ASSUME NEW n \in 1 .. Len(t)  PROVE (s \o t)[Len(s) + n] = t[n]
  BY <1>1
<1> QED BY <1>1, <1>2, <1>3

LEMMA GrowsOn ==
  ASSUME NEW s, NEW b \in Nat, Grows(s, b), NEW k, NEW c \in Nat, b <= c,
         NEW t, Listed(t, k, b, c)
  PROVE  Grows(s \o t, c)
<1>1. /\ s \in Seq(Nat) /\ Increasing(s) /\ t \in Seq(Nat) /\ Increasing(t)
      /\ \A n \in DOMAIN s : s[n] \in 1 .. b
      /\ \A n \in DOMAIN t : t[n] \in b + 1 .. c
  BY DEF Grows, Within, Listed
<1>2. PICK u : u = s \o t
  OBVIOUS
<1>3. /\ u \in Seq(Nat) /\ DOMAIN s = 1 .. Len(s) /\ DOMAIN t = 1 .. Len(t)
      /\ DOMAIN u = 1 .. Len(s) + Len(t) /\ Len(s) \in Nat /\ Len(t) \in Nat
      /\ \A n \in 1 .. Len(s) : u[n] = s[n]
      /\ \A n \in 1 .. Len(t) : u[Len(s) + n] = t[n]
  BY <1>1, <1>2, ConcatAt
<1>4. ASSUME NEW n \in DOMAIN u
      PROVE  \/ n \in DOMAIN s /\ u[n] = s[n]
             \/ \E m \in DOMAIN t : n = Len(s) + m /\ u[n] = t[m]
  <2>1. CASE n <= Len(s)
    BY <1>3, <2>1
  <2>2. CASE n > Len(s)
    <3>1. n - Len(s) \in 1 .. Len(t) /\ Len(s) + (n - Len(s)) = n
      BY <1>3, <2>2
    <3> QED BY <1>3, <3>1
  <2> QED BY <1>3, <2>1, <2>2
<1>5. ASSUME NEW n \in DOMAIN u  PROVE u[n] \in 1 .. c
  <2>1. CASE n \in DOMAIN s /\ u[n] = s[n]
    <3>1. s[n] \in 1 .. b
      BY <1>1, <2>1
    <3> QED BY <2>1, <3>1
  <2>2. ASSUME NEW m \in DOMAIN t, u[n] = t[m]  PROVE u[n] \in 1 .. c
    <3>1. t[m] \in b + 1 .. c
      BY <1>1, <2>2
    <3> QED BY <2>2, <3>1
  <2> QED BY <1>4, <2>1, <2>2
<1>6. ASSUME NEW m \in DOMAIN u, NEW n \in DOMAIN u, m < n  PROVE u[m] < u[n]
  <2>1. CASE m \in DOMAIN s /\ u[m] = s[m] /\ n \in DOMAIN s /\ u[n] = s[n]
    BY <1>1, <1>6, <2>1 DEF Increasing
  <2>2. ASSUME NEW j \in DOMAIN t, n = Len(s) + j, u[n] = t[j],
               m \in DOMAIN s, u[m] = s[m]
        PROVE  u[m] < u[n]
    <3>1. s[m] \in 1 .. b /\ t[j] \in b + 1 .. c
      BY <1>1, <2>2
    <3> QED BY <2>2, <3>1
  <2>3. ASSUME NEW j \in DOMAIN t, n = Len(s) + j, u[n] = t[j],
               NEW i \in DOMAIN t, m = Len(s) + i, u[m] = t[i]
        PROVE  u[m] < u[n]
    <3>1. i < j
      BY <1>3, <1>6, <2>3
    <3> QED BY <1>1, <2>3, <3>1 DEF Increasing
  <2>4. ASSUME NEW i \in DOMAIN t, m = Len(s) + i, n \in DOMAIN s  PROVE FALSE
    BY <1>3, <1>6, <2>4
  <2> QED BY <1>4, <2>1, <2>2, <2>3, <2>4
<1>7. Grows(u, c)
  BY <1>3, <1>5, <1>6 DEF Grows, Increasing, Within
<1> QED BY <1>2, <1>7

LEMMA GrowsByOne ==
  ASSUME NEW s, NEW b \in Nat, Grows(s, b), NEW e \in Nat, b < e
  PROVE  Grows(Append(s, e), e)
<1>1. s \in Seq(Nat) /\ Increasing(s) /\ \A n \in DOMAIN s : s[n] \in 1 .. b
  BY DEF Grows, Within
<1>2. PICK t : t = Append(s, e)
  OBVIOUS
<1>3. t \in Seq(Nat) /\ DOMAIN s = 1 .. Len(s) /\ DOMAIN t = 1 .. Len(s) + 1 /\ Len(s) \in Nat
      /\ t[Len(s) + 1] = e /\ \A n \in 1 .. Len(s) : t[n] = s[n]
  BY <1>1, <1>2, AppendProperties
<1>4. \A n \in DOMAIN s : s[n] < e
  BY <1>1
<1>5. Increasing(t)
  BY <1>1, <1>2, <1>4, IncreasingAppend
<1>6. ASSUME NEW n \in DOMAIN t  PROVE t[n] \in 1 .. e
  <2>1. CASE n = Len(s) + 1
    BY <1>3, <2>1
  <2>2. CASE n # Len(s) + 1
    <3>1. n \in DOMAIN s /\ t[n] = s[n]
      BY <1>3, <2>2
    <3>2. s[n] \in 1 .. b
      BY <1>1, <3>1
    <3> QED BY <3>1, <3>2
  <2> QED BY <2>1, <2>2
<1>7. Grows(t, e)
  BY <1>3, <1>5, <1>6 DEF Grows, Within
<1> QED BY <1>2, <1>7

LEMMA GrowsParts ==
  ASSUME NEW s \in Seq(Nat), NEW t \in Seq(Nat), NEW b \in Nat
  PROVE  /\ Increasing(s \o t) => Increasing(s)
         /\ Within(s \o t, b) => Within(t, b)
<1>1. PICK u : u = s \o t
  OBVIOUS
<1>2. /\ DOMAIN s = 1 .. Len(s) /\ DOMAIN t = 1 .. Len(t)
      /\ DOMAIN u = 1 .. Len(s) + Len(t) /\ Len(s) \in Nat /\ Len(t) \in Nat
      /\ \A n \in 1 .. Len(s) : u[n] = s[n]
      /\ \A n \in 1 .. Len(t) : u[Len(s) + n] = t[n]
  BY <1>1, ConcatAt
<1>3. ASSUME Increasing(u), NEW m \in DOMAIN s, NEW n \in DOMAIN s, m < n  PROVE s[m] < s[n]
  <2>1. m \in DOMAIN u /\ n \in DOMAIN u /\ u[m] = s[m] /\ u[n] = s[n]
    BY <1>2
  <2> QED BY <1>3, <2>1 DEF Increasing
<1>4. ASSUME Within(u, b), NEW n \in DOMAIN t  PROVE t[n] \in 1 .. b
  <2>1. Len(s) + n \in DOMAIN u /\ u[Len(s) + n] = t[n]
    BY <1>2
  <2> QED BY <1>4, <2>1 DEF Within
<1> QED BY <1>1, <1>3, <1>4 DEF Increasing, Within

LEMMA GrowsFurther ==
  ASSUME NEW s, NEW b \in Nat, NEW c \in Nat, b <= c, Grows(s, b)
  PROVE  Grows(s, c)
<1>1. \A i : i \in 1 .. b => i \in 1 .. c
  OBVIOUS
<1> QED BY <1>1 DEF Grows, Within

LEMMA PrefixOfConcat ==
  ASSUME NEW T, NEW s \in Seq(T), NEW t \in Seq(T)
  PROVE  IsPrefix(s, s \o t)
<1>1. PICK u : u = s \o t
  OBVIOUS
<1>2. /\ u \in Seq(T) /\ Len(u) = Len(s) + Len(t) /\ Len(s) \in Nat /\ Len(t) \in Nat
      /\ \A n \in 1 .. Len(s) : u[n] = s[n]
  BY <1>1, ConcatProperties
<1>3. Len(s) <= Len(u) /\ SubSeq(s, 1, Len(s)) = SubSeq(u, 1, Len(s))
  BY <1>2
<1> QED BY <1>1, <1>3 DEF IsPrefix
-----------------------------------------------------------------------------
(* What a call makes of a reader's handle that is of use *)
Bad(b) == \E j \in 1 .. b : script[j] \in {"error", "fault"}

\* A handle has failed if and only if the input has, as far as it is read.
HandleOK(r) ==
  /\ IsReader(r) /\ r.diagnostics \in Seq(Nat)
  /\ r.impl.taken <= r.impl.parsed /\ r.impl.parsed <= Len(script)
  /\ r.terminal => Bad(r.impl.parsed)
  /\ ~r.terminal => r.impl.told = r.impl.parsed /\ ~r.impl.failed /\ ~Bad(r.impl.parsed)

Told(r, h) == r.diagnostics \o DiagnosesIn(r.impl.parsed, h.impl.parsed)

\* The diagnostics go on in h where they end in r.
MoreTold(r, h) ==
  /\ r.impl.parsed <= h.impl.parsed
  /\ \/ h.diagnostics = Told(r, h)
     \/ /\ h.terminal /\ r.impl.parsed < h.impl.parsed
        /\ h.diagnostics = Append(r.diagnostics, h.impl.parsed)

LEMMA DamagedIsBad ==
  ASSUME script \in Seq(ItemKind), NEW b \in Nat, b <= Len(script)
  PROVE  Damaged(0, b) <=> Bad(b)
<1>1. PICK s : s = ItemsOf({"error", "fault"}, 0, b)
  OBVIOUS
<1>2. Listed(s, {"error", "fault"}, 0, b)
  BY <1>1, ItemsListed
<1>3. CASE s = <<>>
  <2>1. DOMAIN s = {}
    BY <1>3
  <2>2. \A j \in 0 + 1 .. b : script[j] \notin {"error", "fault"}
    BY <1>2, <2>1 DEF Listed
  <2>3. ~Bad(b)
    BY <2>2 DEF Bad
  <2> QED BY <1>1, <1>3, <2>3 DEF Damaged
<1>4. CASE s # <<>>
  <2>1. 1 \in DOMAIN s
    BY <1>2, <1>4 DEF Listed
  <2>2. s[1] \in 0 + 1 .. b /\ script[s[1]] \in {"error", "fault"}
    BY <1>2, <2>1 DEF Listed
  <2>3. Bad(b)
    BY <2>2 DEF Bad
  <2> QED BY <1>1, <1>4, <2>3 DEF Damaged
<1> QED BY <1>3, <1>4

LEMMA BadLater ==
  ASSUME NEW a \in Nat, NEW b \in Nat, a <= b, Bad(a)
  PROVE  Bad(b)
<1>1. PICK j \in 1 .. a : script[j] \in {"error", "fault"}
  BY DEF Bad
<1>2. j \in 1 .. b
  OBVIOUS
<1> QED BY <1>1, <1>2 DEF Bad

LEMMA ErrorsAreBad ==
  ASSUME NEW d \in Seq(Nat), NEW b \in Nat, Within(d, b), HasError(d)
  PROVE  Bad(b)
<1>1. PICK n \in DOMAIN d : d[n] = OwnDiagnostic \/ script[d[n]] \in {"error", "fault"}
  BY DEF HasError, IsError
<1>2. d[n] \in 1 .. b /\ d[n] # OwnDiagnostic
  BY DEF Within, OwnDiagnostic
<1> QED BY <1>1, <1>2 DEF Bad

\* takeReaderDiagnostics() notices every error that was parsed.
LEMMA TakeGets ==
  ASSUME script \in Seq(ItemKind), NEW r, HandleOK(r), ~r.terminal, Within(r.diagnostics, r.impl.parsed),
         NEW impl \in ReaderState, impl.told = r.impl.told, ~impl.failed, NoFaultTo(r.impl, impl),
         NEW h, h = TakeReaderDiagnostics(r, impl)
  PROVE  /\ IsReader(h) /\ h.diagnostics = Told(r, h) /\ h.diagnostics \in Seq(Nat)
         /\ h.impl = Taken(impl) /\ h.finished = r.finished /\ h.ended = r.ended
         /\ h.terminal <=> Bad(h.impl.parsed)
<1>1. IsReader(r) /\ r.diagnostics \in Seq(Nat) /\ r.impl.told = r.impl.parsed /\ ~Bad(r.impl.parsed)
  BY DEF HandleOK
<1>2. r.impl.parsed \in Nat /\ impl.parsed \in Nat /\ Len(script) \in Nat
      /\ r.impl.parsed <= impl.parsed /\ impl.parsed <= Len(script)
  BY <1>1 DEF IsReader, ReaderState, NoFaultTo
<1>3. PICK d : d = DiagnosesIn(r.impl.parsed, impl.parsed)
  OBVIOUS
<1>4. Listed(d, {"warning", "error"}, r.impl.parsed, impl.parsed)
  BY <1>2, <1>3, ItemsListed DEF DiagnosesIn
<1>5. d \in Seq(Nat) /\ r.diagnostics \o d \in Seq(Nat)
  BY <1>1, <1>4, ConcatProperties DEF Listed
<1>6. Recorded(impl) = d
  BY <1>1, <1>3 DEF Recorded
<1>7. IsReader(h)
  BY <1>1, TakeType
<1>8. /\ h.impl = Taken(impl) /\ h.diagnostics = r.diagnostics \o d
      /\ h.terminal = HasError(r.diagnostics \o d)
      /\ h.finished = r.finished /\ h.ended = r.ended
  BY <1>1, <1>6 DEF TakeReaderDiagnostics, IsReader
<1>9. h.impl.parsed = impl.parsed
  BY <1>8 DEF Taken, ReaderState
<1>10. h.diagnostics = Told(r, h)
  BY <1>3, <1>8, <1>9 DEF Told
<1>11. PICK u : u = r.diagnostics \o d
  OBVIOUS
<1>12. /\ DOMAIN r.diagnostics = 1 .. Len(r.diagnostics) /\ DOMAIN d = 1 .. Len(d)
       /\ DOMAIN u = 1 .. Len(r.diagnostics) + Len(d)
       /\ Len(r.diagnostics) \in Nat /\ Len(d) \in Nat
       /\ \A n \in 1 .. Len(r.diagnostics) : u[n] = r.diagnostics[n]
       /\ \A n \in 1 .. Len(d) : u[Len(r.diagnostics) + n] = d[n]
  BY <1>1, <1>5, <1>11, ConcatAt
<1>13. ASSUME HasError(u)  PROVE Bad(impl.parsed)
  <2>1. PICK n \in DOMAIN u : IsError(u[n])
    BY <1>13 DEF HasError
  <2>2. CASE n \in DOMAIN r.diagnostics
    <3>1. HasError(r.diagnostics)
      BY <1>12, <2>1, <2>2 DEF HasError
    <3>2. Bad(r.impl.parsed)
      BY <1>1, <1>2, <3>1, ErrorsAreBad
    <3> QED BY <1>1, <3>2
  <2>3. CASE n \notin DOMAIN r.diagnostics
    <3>1. PICK m \in DOMAIN d : n = Len(r.diagnostics) + m
      <4>1. n - Len(r.diagnostics) \in DOMAIN d
            /\ n = Len(r.diagnostics) + (n - Len(r.diagnostics))
        BY <1>12, <2>3
      <4> QED BY <4>1
    <3>2. u[n] = d[m] /\ d[m] \in r.impl.parsed + 1 .. impl.parsed
      BY <1>4, <1>12, <3>1 DEF Listed
    <3>3. d[m] # OwnDiagnostic /\ d[m] \in 1 .. impl.parsed
      BY <1>2, <3>2 DEF OwnDiagnostic
    <3> QED BY <2>1, <3>2, <3>3 DEF IsError, Bad
  <2> QED BY <2>2, <2>3
<1>14. ASSUME Bad(impl.parsed)  PROVE HasError(u)
  <2>1. PICK j \in 1 .. impl.parsed : script[j] \in {"error", "fault"}
    BY <1>14 DEF Bad
  <2>2. j \notin 1 .. r.impl.parsed
    BY <1>1, <2>1 DEF Bad
  <2>3. j \in r.impl.parsed + 1 .. impl.parsed
    BY <1>2, <2>1, <2>2
  <2>4. script[j] = "error"
    BY <2>1, <2>3 DEF NoFaultTo
  <2>5. PICK m \in DOMAIN d : d[m] = j
    BY <1>4, <2>3, <2>4 DEF Listed
  <2>6. Len(r.diagnostics) + m \in DOMAIN u /\ u[Len(r.diagnostics) + m] = j
    BY <1>12, <2>5
  <2> QED BY <2>1, <2>6 DEF HasError, IsError
<1> QED BY <1>5, <1>7, <1>8, <1>9, <1>10, <1>11, <1>13, <1>14

\* feed() or finish() of a reader r whose implementation got as far as impl.
LEMMA AfterInputGets ==
  ASSUME script \in Seq(ItemKind), NEW r, HandleOK(r), ~r.terminal, Within(r.diagnostics, r.impl.parsed),
         NEW impl \in ReaderState, impl.told = r.impl.told, NoFaultTo(r.impl, impl),
         impl.taken = r.impl.taken,
         NEW a, a = AfterInput(r, impl)
  PROVE  /\ HandleOK(a.handle) /\ MoreTold(r, a.handle)
         /\ a.handle.impl.taken = impl.taken /\ a.handle.impl.finishCalled = impl.finishCalled
         /\ a.handle.finished = r.finished /\ a.handle.ended = r.ended
         /\ a.status = IF a.handle.terminal THEN "ERROR" ELSE "OK"
<1>1. /\ IsReader(r) /\ r.diagnostics \in Seq(Nat) /\ r.impl.taken <= r.impl.parsed
      /\ r.impl.taken \in Nat /\ r.impl.parsed \in Nat /\ impl.parsed \in Nat /\ Len(script) \in Nat
      /\ r.impl.parsed <= impl.parsed /\ impl.parsed <= Len(script)
  BY DEF HandleOK, IsReader, ReaderState, NoFaultTo
<1>2. CASE impl.failed
  <2>1. PICK h : h = Remember([r EXCEPT !.impl = impl], impl.parsed)
    OBVIOUS
  <2>2. /\ h.impl = impl /\ h.diagnostics = Append(r.diagnostics, impl.parsed) /\ h.terminal
        /\ h.finished = r.finished /\ h.ended = r.ended /\ IsReader(h)
    BY <1>1, <2>1 DEF Remember, IsReader
  <2>3. a.handle = h /\ a.status = "ERROR"
    BY <1>2, <2>1, <2>2 DEF AfterInput, Return
  <2>4. Append(r.diagnostics, impl.parsed) \in Seq(Nat)
    BY <1>1, AppendProperties
  <2>5. r.impl.parsed < impl.parsed /\ script[impl.parsed] = "fault"
    BY <1>2 DEF NoFaultTo
  <2>6. Bad(impl.parsed)
    BY <1>1, <2>5 DEF Bad
  <2>7. HandleOK(h)
    BY <1>1, <2>2, <2>4, <2>6 DEF HandleOK
  <2> QED BY <1>1, <2>2, <2>3, <2>5, <2>7 DEF MoreTold
<1>3. CASE ~impl.failed
  <2>1. PICK h : h = TakeReaderDiagnostics(r, impl)
    OBVIOUS
  <2>2. /\ IsReader(h) /\ h.diagnostics = Told(r, h) /\ h.diagnostics \in Seq(Nat)
        /\ h.impl = Taken(impl) /\ h.finished = r.finished /\ h.ended = r.ended
        /\ h.terminal <=> Bad(h.impl.parsed)
    BY <1>3, <2>1, TakeGets
  <2>3. a.handle = h /\ a.status = IF h.terminal THEN "ERROR" ELSE "OK"
    BY <1>3, <2>1 DEF AfterInput, Return
  <2>4. /\ h.impl.parsed = impl.parsed /\ h.impl.told = impl.parsed /\ h.impl.taken = impl.taken
        /\ h.impl.failed = impl.failed /\ h.impl.finishCalled = impl.finishCalled
    BY <2>2 DEF Taken, ReaderState
  <2>5. HandleOK(h)
    BY <1>1, <1>3, <2>2, <2>4 DEF HandleOK
  <2> QED BY <1>1, <2>2, <2>3, <2>4, <2>5 DEF MoreTold
<1> QED BY <1>2, <1>3

InputOutcome(r, a, finish) ==
  \/ a.status = "INVALID_STATE" /\ a.handle = r /\ Refused(r)
  \/ /\ ~r.terminal /\ HandleOK(a.handle) /\ MoreTold(r, a.handle)
     /\ a.handle.impl.taken = r.impl.taken /\ ~a.handle.ended
     /\ a.handle.impl.finishCalled <=> r.impl.finishCalled \/ finish
     /\ a.handle.finished => a.handle.impl.finishCalled
     /\ a.status = IF a.handle.terminal THEN "ERROR" ELSE "OK"

LEMMA FeedGets ==
  ASSUME script \in Seq(ItemKind), NEW r, HandleOK(r), ~r.terminal => Within(r.diagnostics, r.impl.parsed),
         NEW a \in iox_reader_feed(r)
  PROVE  InputOutcome(r, a, FALSE)
<1>1. CASE Refused(r)
  BY <1>1 DEF iox_reader_feed, Return, InputOutcome
<1>2. CASE ~Refused(r)
  <2>1. PICK impl \in Pumped(r.impl) : a = AfterInput(r, impl)
    BY <1>2 DEF iox_reader_feed, Fed
  <2>2. r.impl \in ReaderState /\ ~r.impl.failed /\ ~r.terminal /\ ~r.finished /\ ~r.ended
    BY <1>2 DEF Refused, HandleOK, IsReader
  <2>3. PumpOutcome(r.impl, impl)
    BY <2>1, <2>2, PumpGets
  <2>4. /\ impl \in ReaderState /\ impl.told = r.impl.told /\ impl.taken = r.impl.taken
        /\ NoFaultTo(r.impl, impl) /\ impl.finishCalled = r.impl.finishCalled
    BY <2>3 DEF PumpOutcome
  <2>5. /\ HandleOK(a.handle) /\ MoreTold(r, a.handle)
        /\ a.handle.impl.taken = impl.taken /\ a.handle.impl.finishCalled = impl.finishCalled
        /\ a.handle.finished = r.finished /\ a.handle.ended = r.ended
        /\ a.status = IF a.handle.terminal THEN "ERROR" ELSE "OK"
    BY <2>1, <2>2, <2>4, AfterInputGets
  <2> QED BY <2>2, <2>4, <2>5 DEF InputOutcome
<1> QED BY <1>1, <1>2

LEMMA FinishGets ==
  ASSUME script \in Seq(ItemKind), NEW r, HandleOK(r), ~r.terminal => Within(r.diagnostics, r.impl.parsed),
         NEW a \in iox_reader_finish(r)
  PROVE  InputOutcome(r, a, TRUE)
<1>1. CASE Refused(r)
  BY <1>1 DEF iox_reader_finish, Return, InputOutcome
<1>2. CASE ~Refused(r)
  <2>1. PICK impl \in Finished(r.impl) : a = AfterInput([r EXCEPT !.finished = ~impl.failed], impl)
    BY <1>2 DEF iox_reader_finish
  <2>2. r.impl \in ReaderState /\ ~r.impl.failed /\ ~r.terminal /\ ~r.finished /\ ~r.ended /\ IsReader(r)
    BY <1>2 DEF Refused, HandleOK, IsReader
  <2>3. PICK x : x = [r.impl EXCEPT !.finishCalled = TRUE]
    OBVIOUS
  <2>4. /\ x \in ReaderState /\ ~x.failed /\ x.parsed = r.impl.parsed /\ x.told = r.impl.told
        /\ x.taken = r.impl.taken /\ x.finishCalled = TRUE /\ impl \in Pumped(x)
    BY <2>1, <2>2, <2>3 DEF Finished, ReaderState
  <2>5. PumpOutcome(x, impl)
    BY <2>4, PumpGets
  <2>6. /\ impl \in ReaderState /\ impl.told = r.impl.told /\ impl.taken = r.impl.taken
        /\ NoFaultTo(r.impl, impl) /\ impl.finishCalled = TRUE
    BY <2>4, <2>5 DEF PumpOutcome, NoFaultTo
  <2>7. PICK y : y = [r EXCEPT !.finished = ~impl.failed]
    OBVIOUS
  <2>8. /\ y.impl = r.impl /\ y.diagnostics = r.diagnostics /\ y.terminal = r.terminal
        /\ y.ended = r.ended /\ IsReader(y)
    BY <2>2, <2>6, <2>7 DEF IsReader, ReaderState
  <2>9. HandleOK(y) /\ ~y.terminal /\ Within(y.diagnostics, y.impl.parsed)
    BY <2>2, <2>8 DEF HandleOK
  <2>10. /\ HandleOK(a.handle) /\ MoreTold(y, a.handle)
         /\ a.handle.impl.taken = impl.taken /\ a.handle.impl.finishCalled = impl.finishCalled
         /\ a.handle.finished = y.finished /\ a.handle.ended = y.ended
         /\ a.status = IF a.handle.terminal THEN "ERROR" ELSE "OK"
    <3>1. /\ impl.told = y.impl.told /\ NoFaultTo(y.impl, impl) /\ impl.taken = y.impl.taken
          /\ a = AfterInput(y, impl)
      BY <2>1, <2>6, <2>7, <2>8
    <3> QED BY <2>6, <2>9, <3>1, AfterInputGets
  <2>11. MoreTold(r, a.handle)
    BY <2>8, <2>10 DEF MoreTold, Told
  <2> QED BY <2>2, <2>6, <2>8, <2>10, <2>11 DEF InputOutcome
<1> QED BY <1>1, <1>2

AskOutcome(r, a, memory) ==
  LET h == a.handle
      result == a.result
  IN  /\ HandleOK(h)
      /\ r.impl.parsed <= h.impl.parsed /\ r.impl.taken <= h.impl.taken
      /\ h.impl.finishCalled = r.impl.finishCalled /\ h.finished = r.finished
      /\ h.ended => h.impl.finishCalled
      /\ h.terminal => /\ MoreTold(r, h)
                       /\ result.status \in {"ERROR", "none"} /\ result.diagnostics \in {h.diagnostics, <<>>}
                       /\ ~h.ended
      /\ ~h.terminal =>
           \/ /\ memory = "no result" /\ result.status = "none"
              /\ result.diagnostics = <<>> /\ h.diagnostics = Told(r, h)
           \/ /\ memory # "no result" /\ result.status = "EVENT"
              /\ result.diagnostics = Told(r, h) /\ h.diagnostics = <<>>
              /\ result.event = h.impl.taken /\ r.impl.taken < h.impl.taken
              /\ EventsIn(r.impl.taken, h.impl.taken) = <<result.event>> /\ ~h.ended
           \/ /\ memory # "no result" /\ result.status \in {"NEED_INPUT", "END"}
              /\ result.diagnostics = Told(r, h) /\ h.diagnostics = <<>>
              /\ h.impl.taken = r.impl.taken
              /\ EventsIn(h.impl.taken, h.impl.parsed) = <<>>
              /\ h.impl.finishCalled => h.impl.parsed = Len(script)

LEMMA ErrorResultIs ==
  ASSUME NEW memory, NEW h, NEW a, a = ErrorResult(memory, h)
  PROVE  /\ a.handle = h /\ a.result.status \in {"ERROR", "none"}
         /\ a.result.diagnostics \in {h.diagnostics, <<>>} /\ a.result.event = 0
BY DEF ErrorResult, Return, Result, NoResult

ReportOutcome(memory, h, o, a) ==
  \/ /\ memory = "no result" /\ a.handle = h
     /\ a.result.status = "none" /\ a.result.diagnostics = <<>>
  \/ /\ memory # "no result" /\ a.handle = [h EXCEPT !.diagnostics = <<>>]
     /\ a.result.status = StatusOf[o.progress] /\ a.result.diagnostics = h.diagnostics
     /\ a.result.event = o.event

LEMMA ReportedIs ==
  ASSUME NEW memory, NEW h, IsReader(h), NEW o, o.progress \in {"Event", "NeedInput", "End"},
         NEW a, a = Reported(memory, h, o)
  PROVE  ReportOutcome(memory, h, o, a)
BY DEF ReportOutcome, Reported, Return, Result, NoResult

LEMMA AskGets ==
  ASSUME script \in Seq(ItemKind), NEW r, HandleOK(r), ~r.terminal, ~r.ended,
         r.finished => r.impl.finishCalled,
         Within(r.diagnostics, r.impl.parsed), NEW memory, NEW a \in iox_reader_next(memory, r)
  PROVE  AskOutcome(r, a, memory)
<1>1. /\ IsReader(r) /\ r.diagnostics \in Seq(Nat) /\ r.impl \in ReaderState /\ ~r.impl.failed
      /\ r.impl.taken <= r.impl.parsed /\ r.impl.parsed <= Len(script)
      /\ r.impl.taken \in Nat /\ r.impl.parsed \in Nat /\ Len(script) \in Nat
      /\ r.impl.told = r.impl.parsed /\ ~Bad(r.impl.parsed)
  BY DEF HandleOK, IsReader, ReaderState
<1>2. ~HasError(r.diagnostics)
  BY <1>1, ErrorsAreBad
<1>3. PICK o \in NextOf(r.impl) : a = AfterNext(memory, r, o)
  BY <1>2 DEF iox_reader_next
<1>4. PICK q : q = o.reader
  OBVIOUS
<1>5. NextOutcome(r.impl, o)
  BY <1>1, <1>3, NextGets
<1>6. /\ q \in ReaderState /\ NoFaultTo(r.impl, q)
      /\ q.told = r.impl.told /\ q.finishCalled = r.impl.finishCalled
      /\ q.taken \in r.impl.taken .. q.parsed /\ q.parsed \in r.impl.parsed .. Len(script)
      /\ o.event \in Nat /\ o.progress \in {"Threw", "Event", "NeedInput", "End"}
      /\ o.progress = "Threw" <=> q.failed
      /\ o.progress = "Event" => /\ o.event = q.taken /\ q.taken > r.impl.taken
                                 /\ EventsIn(r.impl.taken, q.taken) = <<o.event>>
      /\ o.progress \in {"NeedInput", "End"} => q.taken = r.impl.taken /\ Waiting(q) = {}
      /\ o.progress = "NeedInput" => ~r.impl.finishCalled
      /\ o.progress = "End" => r.impl.finishCalled /\ q.parsed = Len(script)
  BY <1>4, <1>5 DEF NextOutcome, NoFaultTo
<1>7. q.parsed \in Nat /\ q.taken \in Nat /\ r.impl.taken <= q.taken /\ q.taken <= q.parsed
      /\ r.impl.parsed <= q.parsed /\ q.parsed <= Len(script)
  BY <1>1, <1>6
<1>8. CASE o.progress = "Threw"
  <2>1. PICK h : h = Remember([r EXCEPT !.impl = q], q.parsed)
    OBVIOUS
  <2>2. /\ h.impl = q /\ h.diagnostics = Append(r.diagnostics, q.parsed) /\ h.terminal
        /\ h.finished = r.finished /\ h.ended = r.ended /\ IsReader(h)
    BY <1>1, <1>6, <2>1 DEF Remember, IsReader
  <2>3. a = ErrorResult(memory, h)
    BY <1>3, <1>4, <1>8, <2>1 DEF AfterNext
  <2>4. /\ a.handle = h /\ a.result.status \in {"ERROR", "none"}
        /\ a.result.diagnostics \in {h.diagnostics, <<>>}
    BY <2>3, ErrorResultIs
  <2>5. Append(r.diagnostics, q.parsed) \in Seq(Nat)
    BY <1>1, <1>7, AppendProperties
  <2>6. r.impl.parsed < q.parsed /\ script[q.parsed] = "fault"
    BY <1>6, <1>8 DEF NoFaultTo
  <2>7. Bad(q.parsed)
    BY <1>1, <1>7, <2>6 DEF Bad
  <2>8. HandleOK(h)
    BY <1>7, <2>2, <2>5, <2>7 DEF HandleOK
  <2>9. MoreTold(r, h)
    BY <1>7, <2>2, <2>6 DEF MoreTold
  <2> QED BY <1>6, <1>7, <2>2, <2>4, <2>8, <2>9 DEF AskOutcome
<1>9. CASE o.progress # "Threw"
  <2>1. PICK t : t = TakeReaderDiagnostics(r, q)
    OBVIOUS
  <2>2. /\ IsReader(t) /\ t.diagnostics = Told(r, t) /\ t.diagnostics \in Seq(Nat)
        /\ t.impl = Taken(q) /\ t.finished = r.finished /\ t.ended = r.ended
        /\ t.terminal <=> Bad(t.impl.parsed)
    BY <1>6, <1>9, <2>1, TakeGets
  <2>3. /\ t.impl.parsed = q.parsed /\ t.impl.told = q.parsed /\ t.impl.taken = q.taken
        /\ t.impl.failed = q.failed /\ t.impl.finishCalled = q.finishCalled
    BY <1>6, <2>2 DEF Taken, ReaderState
  <2>4. HandleOK(t)
    BY <1>6, <1>7, <1>9, <2>2, <2>3 DEF HandleOK
  <2>5. CASE t.terminal
    <3>1. a = ErrorResult(memory, t)
      BY <1>3, <1>4, <1>9, <2>1, <2>5 DEF AfterNext
    <3>2. /\ a.handle = t /\ a.result.status \in {"ERROR", "none"}
          /\ a.result.diagnostics \in {t.diagnostics, <<>>}
      BY <3>1, ErrorResultIs
    <3>3. MoreTold(r, t)
      BY <1>7, <2>2, <2>3 DEF MoreTold
    <3> QED BY <1>6, <1>7, <2>2, <2>3, <2>4, <2>5, <3>2, <3>3 DEF AskOutcome
  <2>6. CASE ~t.terminal
    <3>1. PICK e : e = [t EXCEPT !.ended = (o.progress = "End")]
      OBVIOUS
    <3>2. /\ IsReader(e) /\ e.impl = t.impl /\ e.diagnostics = t.diagnostics
          /\ e.terminal = t.terminal /\ e.finished = t.finished
          /\ e.ended <=> o.progress = "End"
      BY <2>2, <3>1 DEF IsReader
    <3>3. a = Reported(memory, e, o)
      BY <1>3, <1>4, <1>9, <2>1, <2>6, <3>1 DEF AfterNext
    <3>4. \/ /\ memory = "no result" /\ a.handle = e
             /\ a.result.status = "none" /\ a.result.diagnostics = <<>>
          \/ /\ memory # "no result" /\ a.handle = [e EXCEPT !.diagnostics = <<>>]
             /\ a.result.status = StatusOf[o.progress] /\ a.result.diagnostics = e.diagnostics
             /\ a.result.event = o.event
      <4>1. o.progress \in {"Event", "NeedInput", "End"}
        BY <1>6, <1>9
      <4>2. ReportOutcome(memory, e, o, a)
        BY <3>2, <3>3, <4>1, ReportedIs
      <4> QED BY <4>2 DEF ReportOutcome
    <3>5. HandleOK(e) /\ e.diagnostics = Told(r, e)
      BY <2>2, <2>4, <2>6, <3>2 DEF HandleOK, Told
    <3>6. CASE memory = "no result"
      BY <1>6, <1>7, <2>2, <2>3, <2>6, <3>2, <3>4, <3>5, <3>6 DEF AskOutcome
    <3>7. CASE memory # "no result"
      <4>1. PICK h : h = [e EXCEPT !.diagnostics = <<>>]
        OBVIOUS
      <4>2. /\ IsReader(h) /\ h.impl = e.impl /\ h.diagnostics = <<>> /\ h.terminal = e.terminal
            /\ h.finished = e.finished /\ h.ended = e.ended /\ <<>> \in Seq(Nat)
        BY <3>2, <4>1 DEF IsReader
      <4>3. HandleOK(h) /\ Told(r, h) = Told(r, e)
        BY <3>5, <4>2 DEF HandleOK, Told
      <4>4. /\ a.handle = h /\ a.result.status = StatusOf[o.progress]
            /\ a.result.diagnostics = Told(r, h) /\ a.result.event = o.event
        BY <3>4, <3>5, <3>7, <4>1, <4>3
      <4>5. /\ h.impl.parsed = q.parsed /\ h.impl.taken = q.taken
            /\ h.impl.finishCalled = q.finishCalled
        BY <2>3, <3>2, <4>2
      <4>6. CASE o.progress = "Event"
        <5>1. a.result.status = "EVENT"
          BY <4>4, <4>6 DEF StatusOf
        <5> QED BY <1>6, <1>7, <2>2, <2>6, <3>2, <3>7, <4>2, <4>3, <4>4, <4>5, <4>6, <5>1 DEF AskOutcome
      <4>7. CASE o.progress \in {"NeedInput", "End"}
        <5>1. a.result.status \in {"NEED_INPUT", "END"}
          BY <4>4, <4>7 DEF StatusOf
        <5>2. EventsIn(h.impl.taken, h.impl.parsed) = <<>>
          BY <1>6, <1>7, <4>5, <4>7, WaitingItems
        <5> QED BY <1>6, <1>7, <2>2, <2>6, <3>2, <3>7, <4>2, <4>3, <4>4, <4>5, <4>7, <5>1, <5>2
                DEF AskOutcome
      <4> QED BY <1>6, <1>9, <4>6, <4>7
    <3> QED BY <3>6, <3>7
  <2> QED BY <2>5, <2>6
<1> QED BY <1>8, <1>9
-----------------------------------------------------------------------------
(* What the program has got from the reader *)
ReaderFlags(r, read, p) ==
  /\ r.finished \/ r.ended => r.impl.finishCalled
  /\ r.impl.finishCalled => r.terminal \/ read # "open"
  /\ read = "finished" => r.impl.finishCalled
  /\ p = "ask" => r.terminal
  /\ p = "drain" => ~r.terminal /\ ~r.ended

ReaderTold(r, noted, p) ==
  /\ noted \in Seq(Nat) /\ Increasing(noted)
  /\ p = "ask" => Increasing(noted \o r.diagnostics)
  /\ ~r.terminal => Grows(noted \o r.diagnostics, r.impl.parsed)

\* A call that throws, and only that, loses events or diagnostics.
ReaderGave(r, read, dr, rc, noted, threw, p, failed1) ==
  /\ rc \in Seq(Nat) /\ dr \in Seq(Nat) /\ failed1 \in Nat
  /\ Grows(rc \o dr, r.impl.taken)
  /\ p # "drain" => dr = <<>>
  /\ r.terminal => threw \/ p = "ask"
  /\ failed1 = 0 /\ threw => r.terminal
  /\ ~threw /\ ~r.terminal => /\ rc \o dr = EventsIn(0, r.impl.taken)
                              /\ noted \o r.diagnostics = DiagnosesIn(0, r.impl.parsed)
  /\ ~threw /\ p \notin {"ask", "drain"} =>
       /\ r.diagnostics = <<>> /\ EventsIn(r.impl.taken, r.impl.parsed) = <<>>
       /\ read = "finished" => r.impl.parsed = Len(script)
  /\ failed1 = 0 => IsPrefix(rc, EventsIn(0, Len(script)))

ReaderInv(r, read, dr, rc, noted, threw, p, failed1) ==
  /\ HandleOK(r) /\ ReaderFlags(r, read, p) /\ ReaderTold(r, noted, p)
  /\ ReaderGave(r, read, dr, rc, noted, threw, p, failed1)

LEMMA HandleNumbers ==
  ASSUME script \in Seq(ItemKind), NEW r, HandleOK(r)
  PROVE  /\ r.impl.parsed \in Nat /\ r.impl.taken \in Nat /\ Len(script) \in Nat
         /\ r.impl.taken <= r.impl.parsed /\ r.impl.parsed <= Len(script)
         /\ r.impl.taken <= Len(script) /\ r.diagnostics \in Seq(Nat)
         /\ r.terminal \in BOOLEAN
BY DEF HandleOK, IsReader, ReaderState

\* The diagnostics of the items up to where h is, behind those the program has.
LEMMA ToldOn ==
  ASSUME script \in Seq(ItemKind), NEW noted \in Seq(Nat), NEW r, HandleOK(r), NEW h, HandleOK(h),
         r.impl.parsed <= h.impl.parsed, Grows(noted \o r.diagnostics, r.impl.parsed)
  PROVE  /\ Told(r, h) \in Seq(Nat)
         /\ Grows(noted \o Told(r, h), h.impl.parsed)
         /\ noted \o r.diagnostics = DiagnosesIn(0, r.impl.parsed) =>
              noted \o Told(r, h) = DiagnosesIn(0, h.impl.parsed)
<1>1. PICK a \in Nat, b \in Nat : a = r.impl.parsed /\ b = h.impl.parsed
  BY HandleNumbers
<1>2. a <= b /\ b <= Len(script) /\ r.diagnostics \in Seq(Nat) /\ 0 \in Nat /\ 0 <= a
  BY <1>1, HandleNumbers
<1>3. PICK d : d = DiagnosesIn(a, b)
  OBVIOUS
<1>4. Listed(d, {"warning", "error"}, a, b)
  BY <1>2, <1>3, ItemsListed DEF DiagnosesIn
<1>5. d \in Seq(Nat)
  BY <1>4 DEF Listed
<1>6. Told(r, h) = r.diagnostics \o d
  BY <1>1, <1>3 DEF Told
<1>7. r.diagnostics \o d \in Seq(Nat) /\ noted \o (r.diagnostics \o d) = (noted \o r.diagnostics) \o d
  <2>1. PICK e \in Seq(Nat) : e = r.diagnostics
    BY <1>2
  <2>2. (noted \o e) \o d = noted \o (e \o d) /\ e \o d \in Seq(Nat)
    BY <1>5, Regroup, SMTT(30)
  <2> QED BY <2>1, <2>2
<1>8. PICK u : u = noted \o r.diagnostics
  OBVIOUS
<1>9. Grows(u \o d, b)
  <2>1. Grows(u, a)
    BY <1>1, <1>8
  <2> QED BY <1>2, <1>4, <2>1, GrowsOn
<1>10. DiagnosesIn(0, b) = DiagnosesIn(0, a) \o d
  BY <1>2, <1>3, ItemsJoin DEF DiagnosesIn
<1> QED BY <1>1, <1>6, <1>7, <1>8, <1>9, <1>10

LEMMA MoreToldIncreases ==
  ASSUME script \in Seq(ItemKind), NEW noted \in Seq(Nat), NEW r, HandleOK(r), NEW h, HandleOK(h),
         MoreTold(r, h), Grows(noted \o r.diagnostics, r.impl.parsed)
  PROVE  /\ Increasing(noted \o h.diagnostics) /\ noted \o h.diagnostics \in Seq(Nat)
<1>1. r.impl.parsed <= h.impl.parsed
  BY DEF MoreTold
<1>2. CASE h.diagnostics = Told(r, h)
  <2>1. Grows(noted \o Told(r, h), h.impl.parsed)
    BY <1>1, ToldOn
  <2> QED BY <1>2, <2>1 DEF Grows
<1>3. CASE /\ r.impl.parsed < h.impl.parsed
           /\ h.diagnostics = Append(r.diagnostics, h.impl.parsed)
  <2>1. PICK a \in Nat, b \in Nat, d \in Seq(Nat) :
          a = r.impl.parsed /\ b = h.impl.parsed /\ d = r.diagnostics
    BY HandleNumbers
  <2>2. PICK u \in Seq(Nat) : u = noted \o d
    BY <2>1, ConcatProperties
  <2>3. a < b /\ Grows(u, a)
    BY <1>3, <2>1, <2>2
  <2>4. Grows(Append(u, b), b)
    BY <2>3, GrowsByOne
  <2>5. Append(u, b) = noted \o Append(d, b)
    BY <2>2, AppendBehind
  <2> QED BY <1>3, <2>1, <2>4, <2>5 DEF Grows
<1> QED BY <1>2, <1>3 DEF MoreTold

LEMMA EmptySide ==
  ASSUME NEW T, NEW s \in Seq(T)
  PROVE  s \o <<>> = s /\ <<>> \o s = s /\ <<>> \in Seq(T)
BY ConcatEmptySeq

\* A call throws: h and notes2 are what it leaves.
AfterThrow(r, read, f, h, read2, notes2, f2) ==
  /\ HandleOK(h) /\ r.impl.taken <= h.impl.taken /\ read2 \in {read, "closed"}
  /\ h.finished \/ h.ended => h.impl.finishCalled
  /\ h.impl.finishCalled => h.terminal \/ read2 # "open"
  /\ read2 = "finished" => h.impl.finishCalled
  /\ notes2 \in Seq(Nat) /\ Increasing(notes2)
  /\ ~h.terminal => Grows(notes2 \o h.diagnostics, h.impl.parsed)
  /\ f2 \in Nat /\ (f2 = 0 => h.terminal /\ f = 0)

LEMMA ThrowKeeps ==
  ASSUME script \in Seq(ItemKind), NEW r, NEW read, NEW dr, NEW rc, NEW noted, NEW threw, NEW p, NEW f,
         ReaderInv(r, read, dr, rc, noted, threw, p, f),
         NEW h, NEW read2, NEW notes2, NEW f2, AfterThrow(r, read, f, h, read2, notes2, f2)
  PROVE  ReaderInv(h, read2, <<>>, rc, notes2, TRUE, "idle", f2)
<1>1. rc \in Seq(Nat) /\ dr \in Seq(Nat) /\ Grows(rc \o dr, r.impl.taken) /\ <<>> \in Seq(Nat)
  BY DEF ReaderInv, ReaderGave
<1>2. PICK a \in Nat, b \in Nat : a = r.impl.taken /\ b = h.impl.taken
  BY HandleNumbers DEF ReaderInv, AfterThrow
<1>3. Grows(rc \o <<>>, b)
  <2>1. PICK u \in Seq(Nat) : u = rc \o dr
    BY <1>1, ConcatProperties
  <2>2. a <= b /\ Grows(u, a)
    BY <1>1, <1>2, <2>1 DEF AfterThrow
  <2>3. Grows(u, b)
    BY <2>2, GrowsFurther
  <2>4. Increasing(rc)
    BY <1>1, <2>1, <2>3, GrowsParts DEF Grows
  <2>5. Within(rc, b)
    <3>1. /\ DOMAIN rc = 1 .. Len(rc) /\ DOMAIN u = 1 .. Len(rc) + Len(dr)
          /\ Len(rc) \in Nat /\ Len(dr) \in Nat /\ \A n \in 1 .. Len(rc) : u[n] = rc[n]
      BY <1>1, <2>1, ConcatAt
    <3>2. \A n \in DOMAIN rc : n \in DOMAIN u /\ u[n] = rc[n]
      BY <3>1
    <3> QED BY <2>3, <3>2 DEF Grows, Within
  <2>6. rc \o <<>> = rc
    BY <1>1, EmptySide
  <2> QED BY <1>1, <2>4, <2>5, <2>6 DEF Grows
<1>4. ReaderGave(h, read2, <<>>, rc, notes2, TRUE, "idle", f2)
  BY <1>1, <1>2, <1>3 DEF ReaderInv, ReaderGave, AfterThrow
<1>5. ReaderFlags(h, read2, "idle") /\ ReaderTold(h, notes2, "idle")
  BY DEF ReaderFlags, ReaderTold, AfterThrow
<1> QED BY <1>4, <1>5 DEF ReaderInv, AfterThrow

\* The call of feed() or finish(), up to the drain.
InputNext(r, read, dr, rc, noted, threw, p, f, a, state, read2, dr2, threw2, p2) ==
  \/ /\ a.status = "OK" /\ p2 = "drain" /\ read2 = state /\ dr2 = dr /\ threw2 = threw
  \/ /\ a.status = "ERROR" /\ p2 = "ask" /\ read2 = read /\ dr2 = dr /\ threw2 = threw
  \/ /\ a.status = "INVALID_STATE" /\ threw2 = TRUE /\ p2 = "idle" /\ dr2 = <<>>
     /\ read2 \in {read, "closed"}

LEMMA InputKeeps ==
  ASSUME script \in Seq(ItemKind), NEW r, NEW read, NEW dr, NEW rc, NEW noted, NEW threw, NEW p, NEW f,
         ReaderInv(r, read, dr, rc, noted, threw, p, f), p = "idle", read = "open",
         NEW finish \in BOOLEAN, NEW a, InputOutcome(r, a, finish),
         NEW state, state = IF finish THEN "finished" ELSE "open",
         NEW read2, NEW dr2, NEW threw2, NEW p2,
         InputNext(r, read, dr, rc, noted, threw, p, f, a, state, read2, dr2, threw2, p2)
  PROVE  ReaderInv(a.handle, read2, dr2, rc, noted, threw2, p2, f)
<1>1. /\ HandleOK(r) /\ ReaderFlags(r, read, p) /\ ReaderTold(r, noted, p)
      /\ ReaderGave(r, read, dr, rc, noted, threw, p, f)
  BY DEF ReaderInv
<1>2. CASE a.status = "INVALID_STATE"
  <2>1. Refused(r) /\ a.handle = r
    BY <1>2 DEF InputOutcome
  <2>2. r.terminal
    BY <1>1, <2>1 DEF Refused, ReaderFlags
  <2>3. /\ threw2 = TRUE /\ p2 = "idle" /\ dr2 = <<>> /\ read2 \in {read, "closed"}
    BY <1>2 DEF InputNext
  <2>4. r.impl.taken <= r.impl.taken
    BY <1>1, HandleNumbers
  <2>5. /\ f \in Nat /\ noted \in Seq(Nat) /\ Increasing(noted)
        /\ r.finished \/ r.ended => r.impl.finishCalled
        /\ read2 = "finished" => r.impl.finishCalled
        /\ r.impl.finishCalled => r.terminal \/ read2 # "open"
        /\ ~r.terminal => Grows(noted \o r.diagnostics, r.impl.parsed)
        /\ f = 0 => r.terminal /\ f = 0
    BY <1>1, <2>2, <2>3 DEF ReaderGave, ReaderTold, ReaderFlags
  <2>6. ReaderInv(r, read2, <<>>, rc, noted, TRUE, "idle", f)
    <3>1. AfterThrow(r, read, f, r, read2, noted, f)
      BY <1>1, <2>3, <2>4, <2>5 DEF AfterThrow
    <3> QED BY <3>1, ThrowKeeps
  <2> QED BY <2>1, <2>3, <2>6
<1>3. CASE a.status # "INVALID_STATE"
  <2>1. PICK h : h = a.handle
    OBVIOUS
  <2>2. /\ ~r.terminal /\ HandleOK(h) /\ MoreTold(r, h) /\ h.impl.taken = r.impl.taken /\ ~h.ended
        /\ h.impl.finishCalled <=> r.impl.finishCalled \/ finish
        /\ h.finished => h.impl.finishCalled
        /\ a.status = IF h.terminal THEN "ERROR" ELSE "OK"
    BY <1>3, <2>1 DEF InputOutcome
  <2>3. /\ noted \in Seq(Nat) /\ Increasing(noted) /\ Grows(noted \o r.diagnostics, r.impl.parsed)
        /\ ~r.impl.finishCalled /\ rc \in Seq(Nat) /\ dr = <<>> /\ f \in Nat
        /\ Grows(rc \o dr, r.impl.taken) /\ ~(f = 0 /\ threw)
        /\ ~threw => /\ rc \o dr = EventsIn(0, r.impl.taken)
                     /\ noted \o r.diagnostics = DiagnosesIn(0, r.impl.parsed)
        /\ f = 0 => IsPrefix(rc, EventsIn(0, Len(script)))
    BY <1>1, <2>2 DEF ReaderTold, ReaderGave, ReaderFlags
  <2>4. Increasing(noted \o h.diagnostics)
    BY <1>1, <2>2, <2>3, MoreToldIncreases
  <2>5. h.terminal \in BOOLEAN
    BY <2>2, HandleNumbers
  <2>6. CASE h.terminal
    <3>1. p2 = "ask" /\ read2 = read /\ dr2 = dr /\ threw2 = threw
      BY <1>3, <2>2, <2>6 DEF InputNext
    <3>2. ReaderFlags(h, read2, p2)
      BY <2>2, <2>6, <3>1 DEF ReaderFlags
    <3>3. ReaderTold(h, noted, p2)
      BY <2>3, <2>4, <2>6 DEF ReaderTold
    <3>4. ReaderGave(h, read2, dr2, rc, noted, threw2, p2, f)
      <4>1. dr2 \in Seq(Nat) /\ Grows(rc \o dr2, h.impl.taken)
        BY <2>2, <2>3, <3>1
      <4> QED BY <2>2, <2>3, <2>6, <3>1, <4>1 DEF ReaderGave
    <3> QED BY <2>1, <2>2, <3>2, <3>3, <3>4 DEF ReaderInv
  <2>7. CASE ~h.terminal
    <3>1. p2 = "drain" /\ read2 = state /\ dr2 = dr /\ threw2 = threw
      BY <1>3, <2>2, <2>7 DEF InputNext
    <3>2. h.diagnostics = Told(r, h) /\ r.impl.parsed <= h.impl.parsed
      BY <2>2, <2>7 DEF MoreTold
    <3>3. /\ Grows(noted \o h.diagnostics, h.impl.parsed)
          /\ noted \o r.diagnostics = DiagnosesIn(0, r.impl.parsed) =>
               noted \o h.diagnostics = DiagnosesIn(0, h.impl.parsed)
      BY <1>1, <2>2, <2>3, <3>2, ToldOn, SMTT(30)
    <3>4. ReaderFlags(h, read2, p2)
      BY <2>2, <2>3, <2>7, <3>1 DEF ReaderFlags
    <3>5. ReaderTold(h, noted, p2)
      BY <2>3, <2>4, <3>3 DEF ReaderTold
    <3>6. ReaderGave(h, read2, dr2, rc, noted, threw2, p2, f)
      <4>1. dr2 \in Seq(Nat) /\ Grows(rc \o dr2, h.impl.taken)
        BY <2>2, <2>3, <3>1
      <4>2. ~threw => rc \o dr2 = EventsIn(0, h.impl.taken)
        BY <2>2, <2>3, <3>1
      <4> QED BY <2>3, <2>7, <3>1, <3>3, <4>1, <4>2 DEF ReaderGave
    <3> QED BY <2>1, <2>2, <3>4, <3>5, <3>6 DEF ReaderInv
  <2> QED BY <2>5, <2>6, <2>7
<1> QED BY <1>2, <1>3

\* throwReaderStatus(): the diagnostics of a handle that has failed are told once.
LEMMA AskKeeps ==
  ASSUME script \in Seq(ItemKind), NEW r, NEW read, NEW dr, NEW rc, NEW noted, NEW threw, NEW p, NEW f,
         ReaderInv(r, read, dr, rc, noted, threw, p, f), p = "ask",
         NEW a, a.handle = r, a.result.diagnostics \in {r.diagnostics, <<>>},
         NEW read2, read2 \in {read, "closed"}, NEW f2, f2 \in Nat, f2 = 0 => f = 0
  PROVE  ReaderInv(a.handle, read2, <<>>, rc, noted \o a.result.diagnostics, TRUE, "idle", f2)
<1>1. /\ HandleOK(r) /\ ReaderFlags(r, read, p) /\ ReaderTold(r, noted, p)
  BY DEF ReaderInv
<1>2. r.terminal
  BY <1>1 DEF ReaderFlags
<1>4. a.handle = r /\ a.result.diagnostics \in {r.diagnostics, <<>>}
  OBVIOUS
<1>5. noted \in Seq(Nat) /\ r.diagnostics \in Seq(Nat) /\ r.impl.taken \in Nat
  BY <1>1, HandleNumbers DEF ReaderTold
<1>6. PICK told : told = noted \o a.result.diagnostics
  OBVIOUS
<1>7. told \in Seq(Nat) /\ Increasing(told)
  <2>1. CASE a.result.diagnostics = r.diagnostics
    <3>1. noted \o r.diagnostics \in Seq(Nat)
      BY <1>5, ConcatProperties
    <3> QED BY <1>1, <1>6, <2>1, <3>1 DEF ReaderTold
  <2>2. CASE a.result.diagnostics = <<>>
    <3>1. noted \o <<>> = noted
      BY <1>5, EmptySide
    <3> QED BY <1>1, <1>6, <2>2, <3>1 DEF ReaderTold
  <2> QED BY <1>4, <2>1, <2>2
<1>8. /\ r.finished \/ r.ended => r.impl.finishCalled
      /\ read2 = "finished" => r.impl.finishCalled
      /\ r.impl.finishCalled => r.terminal \/ read2 # "open"
      /\ ~r.terminal => Grows(told \o r.diagnostics, r.impl.parsed)
      /\ f2 = 0 => r.terminal /\ f = 0
      /\ r.impl.taken <= r.impl.taken
  BY <1>1, <1>2, <1>5 DEF ReaderFlags
<1>9. ReaderInv(r, read2, <<>>, rc, told, TRUE, "idle", f2)
  <2>1. AfterThrow(r, read, f, r, read2, told, f2)
    BY <1>1, <1>7, <1>8 DEF AfterThrow
  <2> QED BY <2>1, ThrowKeeps
<1> QED BY <1>4, <1>6, <1>9

DrainNext(a, dr, rc, read, threw, dr2, rc2, read2, threw2, p2) ==
  \/ /\ a.result.status = "EVENT" /\ dr2 = Append(dr, a.result.event)
     /\ p2 = "drain" /\ read2 = read /\ rc2 = rc /\ threw2 = threw
  \/ /\ a.result.status \in {"NEED_INPUT", "END"}
     /\ rc2 = rc \o dr /\ dr2 = <<>> /\ p2 = "idle" /\ read2 = read /\ threw2 = threw
  \/ /\ a.result.status \in {"ERROR", "INVALID_STATE", "none"}
     /\ threw2 = TRUE /\ p2 = "idle" /\ dr2 = <<>> /\ read2 \in {read, "closed"} /\ rc2 = rc

LEMMA Between ==
  ASSUME NEW b \in Nat, NEW c \in Nat, b < c
  PROVE  b <= c /\ 0 \in Nat /\ 0 <= b
OBVIOUS

LEMMA NotBeyond ==
  ASSUME NEW b \in Nat, NEW c \in Nat, b <= c
  PROVE  c <= c /\ 0 \in Nat /\ 0 <= b
OBVIOUS

\* One round of drainReader().
LEMMA DrainKeeps ==
  ASSUME script \in Seq(ItemKind), NEW r, NEW read, NEW dr, NEW rc, NEW noted, NEW threw, NEW p, NEW f,
         ReaderInv(r, read, dr, rc, noted, threw, p, f), p = "drain",
         NEW memory, NEW a, AskOutcome(r, a, memory),
         NEW f2 \in Nat, f2 = 0 => f = 0 /\ memory # "no result",
         NEW read2, NEW dr2, NEW rc2, NEW threw2, NEW p2,
         DrainNext(a, dr, rc, read, threw, dr2, rc2, read2, threw2, p2)
  PROVE  ReaderInv(a.handle, read2, dr2, rc2, noted \o a.result.diagnostics, threw2, p2, f2)
<1>1. /\ HandleOK(r) /\ ReaderFlags(r, read, p) /\ ReaderTold(r, noted, p)
      /\ ReaderGave(r, read, dr, rc, noted, threw, p, f)
  BY DEF ReaderInv
<1>2. PICK h, d, n2 : h = a.handle /\ d = a.result.diagnostics /\ n2 = noted \o d
  OBVIOUS
<1>3. /\ HandleOK(h) /\ r.impl.parsed <= h.impl.parsed /\ r.impl.taken <= h.impl.taken
      /\ h.impl.finishCalled = r.impl.finishCalled /\ h.finished = r.finished
      /\ h.ended => h.impl.finishCalled
      /\ ~r.terminal /\ ~r.ended
      /\ h.terminal \in BOOLEAN /\ h.diagnostics \in Seq(Nat)
      /\ r.impl.taken \in Nat /\ h.impl.taken \in Nat /\ Len(script) \in Nat
      /\ h.impl.taken <= Len(script) /\ r.impl.taken <= Len(script)
  BY <1>1, <1>2, HandleNumbers DEF AskOutcome, ReaderFlags
<1>4. /\ noted \in Seq(Nat) /\ Increasing(noted) /\ Grows(noted \o r.diagnostics, r.impl.parsed)
      /\ rc \in Seq(Nat) /\ dr \in Seq(Nat) /\ f \in Nat
      /\ Grows(rc \o dr, r.impl.taken) /\ ~(f = 0 /\ threw)
      /\ ~threw => /\ rc \o dr = EventsIn(0, r.impl.taken)
                   /\ noted \o r.diagnostics = DiagnosesIn(0, r.impl.parsed)
      /\ f = 0 => IsPrefix(rc, EventsIn(0, Len(script)))
  BY <1>1, <1>3 DEF ReaderTold, ReaderGave
<1>5. /\ r.finished \/ r.ended => r.impl.finishCalled
      /\ r.impl.finishCalled => read # "open"
      /\ read = "finished" => r.impl.finishCalled
  BY <1>1, <1>3 DEF ReaderFlags
<1>6. ASSUME threw2 = TRUE, p2 = "idle", dr2 = <<>>, read2 \in {read, "closed"}, rc2 = rc,
             n2 \in Seq(Nat), Increasing(n2), ~h.terminal => Grows(n2 \o h.diagnostics, h.impl.parsed),
             f2 = 0 => h.terminal
      PROVE  ReaderInv(h, read2, dr2, rc2, n2, threw2, p2, f2)
  <2>1. /\ h.finished \/ h.ended => h.impl.finishCalled
        /\ h.impl.finishCalled => h.terminal \/ read2 # "open"
        /\ read2 = "finished" => h.impl.finishCalled
        /\ f2 = 0 => h.terminal /\ f = 0
    BY <1>3, <1>5, <1>6
  <2>2. /\ HandleOK(h) /\ r.impl.taken <= h.impl.taken /\ read2 \in {read, "closed"}
        /\ n2 \in Seq(Nat) /\ Increasing(n2) /\ f2 \in Nat
        /\ ~h.terminal => Grows(n2 \o h.diagnostics, h.impl.parsed)
    BY <1>3, <1>6
  <2>3. ReaderInv(h, read2, <<>>, rc, n2, TRUE, "idle", f2)
    <3>1. AfterThrow(r, read, f, h, read2, n2, f2)
      BY <2>1, <2>2 DEF AfterThrow
    <3> QED BY <3>1, ThrowKeeps
  <2> QED BY <1>6, <2>3
<1>7. CASE h.terminal
  <2>1. MoreTold(r, h) /\ a.result.status \in {"ERROR", "none"} /\ d \in {h.diagnostics, <<>>}
    BY <1>2, <1>7 DEF AskOutcome
  <2>2. Increasing(noted \o h.diagnostics) /\ noted \o h.diagnostics \in Seq(Nat)
    BY <1>1, <1>3, <1>4, <2>1, MoreToldIncreases
  <2>3. noted \o <<>> = noted
    BY <1>4, EmptySide
  <2>4. n2 \in Seq(Nat) /\ Increasing(n2)
    BY <1>2, <1>4, <2>1, <2>2, <2>3
  <2>5. threw2 = TRUE /\ p2 = "idle" /\ dr2 = <<>> /\ read2 \in {read, "closed"} /\ rc2 = rc
    BY <2>1 DEF DrainNext
  <2>6. ReaderInv(h, read2, dr2, rc2, n2, threw2, p2, f2)
    BY <1>6, <1>7, <2>4, <2>5
  <2> QED BY <1>2, <2>6
<1>8. CASE ~h.terminal
  <2>1. PICK t : t = Told(r, h)
    OBVIOUS
  <2>2. /\ t \in Seq(Nat) /\ Grows(noted \o t, h.impl.parsed)
        /\ ~threw => noted \o t = DiagnosesIn(0, h.impl.parsed)
    BY <1>1, <1>3, <1>4, <2>1, ToldOn
  <2>3. noted \o t \in Seq(Nat) /\ Increasing(noted \o t) /\ <<>> \in Seq(Nat)
        /\ noted \o <<>> = noted /\ (noted \o t) \o <<>> = noted \o t
    BY <1>4, <2>2, EmptySide DEF Grows
  <2>4. CASE memory = "no result"
    <3>1. a.result.status = "none" /\ d = <<>> /\ h.diagnostics = t
      BY <1>2, <1>8, <2>1, <2>4 DEF AskOutcome
    <3>2. threw2 = TRUE /\ p2 = "idle" /\ dr2 = <<>> /\ read2 \in {read, "closed"} /\ rc2 = rc
      BY <3>1 DEF DrainNext
    <3>3. n2 = noted /\ Grows(n2 \o h.diagnostics, h.impl.parsed) /\ f2 # 0
      BY <1>2, <2>2, <2>3, <2>4, <3>1
    <3>4. ReaderInv(h, read2, dr2, rc2, n2, threw2, p2, f2)
      BY <1>4, <1>6, <3>2, <3>3
    <3> QED BY <1>2, <3>4
  <2>5. CASE memory # "no result"
    <3>1. /\ h.diagnostics = <<>> /\ d = t /\ n2 = noted \o t
      BY <1>2, <1>8, <2>1, <2>5 DEF AskOutcome
    <3>2. /\ n2 \in Seq(Nat) /\ Increasing(n2) /\ Grows(n2 \o h.diagnostics, h.impl.parsed)
          /\ ~threw => n2 \o h.diagnostics = DiagnosesIn(0, h.impl.parsed)
      BY <2>2, <2>3, <3>1
    <3>3. CASE a.result.status = "EVENT"
      <4>1. /\ a.result.event = h.impl.taken /\ r.impl.taken < h.impl.taken /\ ~h.ended
            /\ EventsIn(r.impl.taken, h.impl.taken) = <<a.result.event>>
        BY <1>2, <1>8, <2>5, <3>3 DEF AskOutcome
      <4>2. dr2 = Append(dr, h.impl.taken) /\ p2 = "drain" /\ read2 = read /\ rc2 = rc /\ threw2 = threw
        BY <3>3, <4>1 DEF DrainNext
      <4>3. PICK b \in Nat, c \in Nat : b = r.impl.taken /\ c = h.impl.taken
        BY <1>3
      <4>4. b < c /\ b <= c /\ c <= Len(script) /\ 0 \in Nat /\ 0 <= b
        <5>1. b < c
          BY <4>1, <4>3
        <5>2. c <= Len(script)
          BY <1>3, <4>3
        <5> QED BY <5>1, <5>2, Between
      <4>5. PICK u \in Seq(Nat) : u = rc \o dr
        BY <1>4, ConcatProperties
      <4>6. rc \o Append(dr, c) = Append(u, c) /\ Append(dr, c) \in Seq(Nat)
        BY <1>4, <4>5, AppendBehind, AppendProperties
      <4>7. Grows(Append(u, c), c)
        BY <1>4, <4>3, <4>4, <4>5, GrowsByOne
      <4>8. ~threw => Append(u, c) = EventsIn(0, c)
        <5>1. EventsIn(0, c) = EventsIn(0, b) \o EventsIn(b, c)
          BY <4>4, ItemsJoin, ZenonT(60) DEF EventsIn
        <5>2. EventsIn(b, c) = <<c>> /\ Append(u, c) = u \o <<c>>
          BY <4>1, <4>3, <4>5, AppendIsConcat
        <5> QED BY <1>4, <4>3, <4>5, <5>1, <5>2
      <4>9. ReaderFlags(h, read2, p2)
        BY <1>3, <1>5, <1>8, <4>1, <4>2 DEF ReaderFlags
      <4>10. ReaderTold(h, n2, p2)
        BY <3>2, <4>2 DEF ReaderTold
      <4>11. ReaderGave(h, read2, dr2, rc2, n2, threw2, p2, f2)
        BY <1>4, <1>8, <3>2, <4>2, <4>3, <4>6, <4>7, <4>8 DEF ReaderGave
      <4>12. ReaderInv(h, read2, dr2, rc2, n2, threw2, p2, f2)
        BY <1>3, <4>9, <4>10, <4>11 DEF ReaderInv
      <4> QED BY <1>2, <4>12
    <3>4. CASE a.result.status \in {"NEED_INPUT", "END"}
      <4>1. /\ h.impl.taken = r.impl.taken /\ EventsIn(h.impl.taken, h.impl.parsed) = <<>>
            /\ h.impl.finishCalled => h.impl.parsed = Len(script)
        BY <1>2, <1>8, <2>5, <3>4 DEF AskOutcome
      <4>2. rc2 = rc \o dr /\ dr2 = <<>> /\ p2 = "idle" /\ read2 = read /\ threw2 = threw
        BY <3>4 DEF DrainNext
      <4>3. rc2 \in Seq(Nat) /\ rc2 \o dr2 = rc \o dr /\ dr2 \in Seq(Nat)
        BY <1>4, <4>2, ConcatProperties, EmptySide
      <4>4. f2 = 0 => IsPrefix(rc2, EventsIn(0, Len(script)))
        <5>1. SUFFICES ASSUME f2 = 0  PROVE IsPrefix(rc2, EventsIn(0, Len(script)))
          OBVIOUS
        <5>2. PICK b \in Nat, l \in Nat : b = r.impl.taken /\ l = Len(script)
          BY <1>3
        <5>3. b <= l /\ l <= Len(script) /\ b <= Len(script) /\ 0 \in Nat /\ 0 <= b
          <6>1. b <= Len(script) /\ l = Len(script)
            BY <1>3, <5>2
          <6> QED BY <6>1, NotBeyond
        <5>4. /\ EventsIn(0, l) = EventsIn(0, b) \o EventsIn(b, l)
              /\ EventsIn(0, b) \in Seq(Nat) /\ EventsIn(b, l) \in Seq(Nat)
          BY <5>3, ItemsJoin, ItemsType, ZenonT(60) DEF EventsIn
        <5>5. rc2 = EventsIn(0, b)
          BY <1>4, <4>2, <5>1, <5>2
        <5> QED BY <5>2, <5>4, <5>5, PrefixOfConcat
      <4>5. ReaderFlags(h, read2, p2)
        BY <1>3, <1>5, <1>8, <4>2 DEF ReaderFlags
      <4>6. ReaderTold(h, n2, p2)
        BY <3>2, <4>2 DEF ReaderTold
      <4>7. ReaderGave(h, read2, dr2, rc2, n2, threw2, p2, f2)
        BY <1>3, <1>4, <1>5, <1>8, <3>1, <3>2, <4>1, <4>2, <4>3, <4>4 DEF ReaderGave
      <4>8. ReaderInv(h, read2, dr2, rc2, n2, threw2, p2, f2)
        BY <1>3, <4>5, <4>6, <4>7 DEF ReaderInv
      <4> QED BY <1>2, <4>8
    <3>5. a.result.status \in {"EVENT", "NEED_INPUT", "END"}
      BY <1>2, <1>8, <2>5 DEF AskOutcome
    <3> QED BY <3>3, <3>4, <3>5
  <2> QED BY <2>4, <2>5
<1> QED BY <1>3, <1>7, <1>8

\* close() of the reader, and what the program does with its writer in between.
LEMMA OthersKeep ==
  ASSUME NEW r, NEW read, NEW dr, NEW rc, NEW noted, NEW threw, NEW p, NEW f,
         ReaderInv(r, read, dr, rc, noted, threw, p, f), p \in {"idle", "take"},
         NEW p2 \in {"idle", "take"}, NEW read2 \in {read, "closed"},
         NEW f2 \in Nat, f2 = 0 => f = 0
  PROVE  ReaderInv(r, read2, dr, rc, noted, threw, p2, f2)
<1>1. ReaderFlags(r, read2, p2)
  BY DEF ReaderInv, ReaderFlags
<1>2. ReaderTold(r, noted, p2)
  BY DEF ReaderInv, ReaderTold
<1>3. ReaderGave(r, read2, dr, rc, noted, threw, p2, f2)
  BY DEF ReaderInv, ReaderGave
<1> QED BY <1>1, <1>2, <1>3 DEF ReaderInv
-----------------------------------------------------------------------------
(* The program reads *)
ReadInv == ReaderInv(reader, reading, drained, received, readerNotes, readerThrew, pc, failures)

ReadNext ==
  /\ ReaderInv(reader', reading', drained', received', readerNotes', readerThrew', pc', failures')
  /\ UNCHANGED script

LEMMA ReadStarts == WasmInit => ReadInv
<1> SUFFICES ASSUME WasmInit PROVE ReadInv
  OBVIOUS
<1>1. /\ script \in Seq(ItemKind) /\ pc = "idle" /\ failures = 0 /\ reading = "open"
      /\ drained = <<>> /\ received = <<>> /\ readerNotes = <<>> /\ readerThrew = FALSE
      /\ reader = iox_reader_create
  BY DEF WasmInit, IsInput
<1>2. /\ reader.impl = FreshReader /\ reader.diagnostics = <<>>
      /\ ~reader.terminal /\ ~reader.finished /\ ~reader.ended /\ IsReader(reader)
      /\ reader.impl.parsed = 0 /\ reader.impl.taken = 0 /\ reader.impl.told = 0
      /\ ~reader.impl.finishCalled /\ ~reader.impl.failed
  BY <1>1 DEF iox_reader_create, FreshReader, IsReader, ReaderState
<1>3. <<>> \in Seq(Nat) /\ <<>> \o <<>> = <<>> /\ Grows(<<>>, 0) /\ Len(script) \in Nat
  <2>1. <<>> \in Seq(Nat) /\ DOMAIN <<>> = {}
    OBVIOUS
  <2>2. <<>> \o <<>> = <<>>
    BY <2>1, EmptySide
  <2>3. Grows(<<>>, 0)
    BY <2>1 DEF Grows, Increasing, Within
  <2> QED BY <1>1, <2>1, <2>2, <2>3, LenProperties
<1>4. EventsIn(0, 0) = <<>> /\ DiagnosesIn(0, 0) = <<>>
  BY NoItems DEF EventsIn, DiagnosesIn
<1>5. HandleOK(reader)
  BY <1>2, <1>3 DEF HandleOK, Bad
<1>6. ReaderFlags(reader, reading, pc) /\ ReaderTold(reader, readerNotes, pc)
  BY <1>1, <1>2, <1>3 DEF ReaderFlags, ReaderTold, Grows
<1>7. IsPrefix(<<>>, EventsIn(0, Len(script)))
  <2>1. PICK e \in Seq(Nat) : e = EventsIn(0, Len(script))
    BY <1>1, <1>3, ItemsType DEF EventsIn
  <2>2. <<>> \o e = e
    BY <2>1, EmptySide
  <2> QED BY <1>3, <2>1, <2>2, PrefixOfConcat
<1>8. ReaderGave(reader, reading, drained, received, readerNotes, readerThrew, pc, failures)
  BY <1>1, <1>2, <1>3, <1>4, <1>7 DEF ReaderGave
<1> QED BY <1>5, <1>6, <1>8 DEF ReadInv, ReaderInv

\* What the diagnostics in the handle of a reader are, and what is known of it.
LEMMA ReaderIs ==
  ASSUME script \in Seq(ItemKind), ReadInv
  PROVE  /\ HandleOK(reader) /\ failures \in Nat
         /\ reader.finished => reader.impl.finishCalled
         /\ ~reader.terminal => Within(reader.diagnostics, reader.impl.parsed)
<1>1. /\ HandleOK(reader) /\ failures \in Nat
      /\ reader.finished => reader.impl.finishCalled
      /\ readerNotes \in Seq(Nat)
      /\ ~reader.terminal => Grows(readerNotes \o reader.diagnostics, reader.impl.parsed)
  BY DEF ReadInv, ReaderInv, ReaderFlags, ReaderTold, ReaderGave
<1>2. reader.diagnostics \in Seq(Nat) /\ reader.impl.parsed \in Nat
  BY <1>1, HandleNumbers
<1>3. ASSUME ~reader.terminal
      PROVE  Within(reader.diagnostics, reader.impl.parsed)
  <2>1. Within(readerNotes \o reader.diagnostics, reader.impl.parsed)
    BY <1>1, <1>3 DEF Grows
  <2> QED BY <1>1, <1>2, <2>1, GrowsParts
<1> QED BY <1>1, <1>3

LEMMA InputReads ==
  ASSUME script \in Seq(ItemKind), ReadInv, pc = "idle", reading = "open", UNCHANGED <<script, failures>>,
         NEW finish \in BOOLEAN, NEW a, InputOutcome(reader, a, finish),
         NEW state, state = IF finish THEN "finished" ELSE "open", InputTaken(a, state)
  PROVE  ReadNext
<1>1. /\ reader' = a.handle /\ readerNotes' = readerNotes /\ received' = received
      /\ script' = script /\ failures' = failures
  BY DEF InputTaken, ReaderThrows
<1>2. PICK r, read, dr, rc, noted, threw, p, f :
        /\ r = reader /\ read = reading /\ dr = drained /\ rc = received /\ noted = readerNotes
        /\ threw = readerThrew /\ p = pc /\ f = failures
  OBVIOUS
<1>3. PICK read2, dr2, threw2, p2 :
        read2 = reading' /\ dr2 = drained' /\ threw2 = readerThrew' /\ p2 = pc'
  OBVIOUS
<1>4. InputNext(r, read, dr, rc, noted, threw, p, f, a, state, read2, dr2, threw2, p2)
  BY <1>2, <1>3 DEF InputTaken, ReaderThrows, InputNext
<1>5. ReaderInv(r, read, dr, rc, noted, threw, p, f) /\ p = "idle" /\ read = "open"
      /\ InputOutcome(r, a, finish)
  BY <1>2 DEF ReadInv
<1>6. ReaderInv(a.handle, read2, dr2, rc, noted, threw2, p2, f)
  BY <1>4, <1>5, InputKeeps
<1> QED BY <1>1, <1>2, <1>3, <1>6 DEF ReadNext

LEMMA Allocated ==
  ASSUME failures \in Nat, NEW memory, Allocate(memory)
  PROVE  failures' \in Nat /\ (failures' = 0 => failures = 0 /\ memory # "no result")
<1>1. CASE memory = "enough" /\ failures' = failures
  BY <1>1
<1>2. CASE failures' = failures + 1
  <2>1. \A f \in Nat : f + 1 \in Nat /\ f + 1 # 0
    OBVIOUS
  <2>2. failures' \in Nat /\ failures' # 0
    BY <1>2, <2>1
  <2> QED BY <2>2
<1> QED BY <1>1, <1>2 DEF Allocate

LEMMA AskedAgain ==
  ASSUME NEW r, r.terminal, NEW memory
  PROVE  \A a \in iox_reader_next(memory, r) : a.handle = r /\ a.result.diagnostics \in {r.diagnostics, <<>>}
<1>1. iox_reader_next(memory, r) = {ErrorResult(memory, r)}
  BY DEF iox_reader_next
<1>2. PICK a : a = ErrorResult(memory, r)
  OBVIOUS
<1>3. a.handle = r /\ a.result.diagnostics \in {r.diagnostics, <<>>}
  BY <1>2, ErrorResultIs
<1> QED BY <1>1, <1>2, <1>3

LEMMA AskReads == ASSUME script \in Seq(ItemKind), ReadInv, Ask PROVE ReadNext
<1>0. PICK memory \in {"enough", "no result"} :
        \E a \in iox_reader_next(memory, reader) : AskReader(memory, a)
  BY DEF Ask
<1>1. PICK a \in iox_reader_next(memory, reader) :
        memory \in {"enough", "no result"} /\ AskReader(memory, a)
  BY <1>0
<1>2. /\ reader' = a.handle /\ readerNotes' = readerNotes \o a.result.diagnostics
      /\ readerThrew' = TRUE /\ pc' = "idle" /\ drained' = <<>> /\ received' = received
      /\ reading' \in {reading, "closed"} /\ script' = script /\ pc = "ask"
  BY <1>1 DEF Ask, AskReader, ReaderThrows
<1>3. failures' \in Nat /\ (failures' = 0 => failures = 0)
  <2>1. failures \in Nat /\ Allocate(memory)
    BY <1>1, ReaderIs DEF AskReader
  <2> QED BY <2>1, Allocated
<1>4. PICK r, read, dr, rc, noted, threw, p, f :
        /\ r = reader /\ read = reading /\ dr = drained /\ rc = received /\ noted = readerNotes
        /\ threw = readerThrew /\ p = pc /\ f = failures
  OBVIOUS
<1>5. PICK read2, f2 : read2 = reading' /\ f2 = failures'
  OBVIOUS
<1>6. /\ ReaderInv(r, read, dr, rc, noted, threw, p, f) /\ p = "ask" /\ a \in iox_reader_next(memory, r)
      /\ read2 \in {read, "closed"} /\ f2 \in Nat /\ (f2 = 0 => f = 0)
  BY <1>1, <1>2, <1>3, <1>4, <1>5 DEF ReadInv
<1>7. ReaderInv(a.handle, read2, <<>>, rc, noted \o a.result.diagnostics, TRUE, "idle", f2)
  <2>1. r.terminal
    BY <1>6 DEF ReaderInv, ReaderFlags
  <2>2. a.handle = r /\ a.result.diagnostics \in {r.diagnostics, <<>>}
    BY <1>6, <2>1, AskedAgain
  <2> QED BY <1>6, <2>2, AskKeeps, ZenonT(60)
<1> QED BY <1>2, <1>4, <1>5, <1>7 DEF ReadNext

LEMMA DrainReads == ASSUME script \in Seq(ItemKind), ReadInv, Drain PROVE ReadNext
<1>0. PICK memory \in {"enough", "no result"} :
        \E a \in iox_reader_next(memory, reader) : AskReader(memory, a) /\ Drained(a)
  BY DEF Drain
<1>1. PICK a \in iox_reader_next(memory, reader) :
        memory \in {"enough", "no result"} /\ AskReader(memory, a) /\ Drained(a)
  BY <1>0
<1>2. /\ reader' = a.handle /\ readerNotes' = readerNotes \o a.result.diagnostics
      /\ script' = script /\ pc = "drain"
  BY <1>1 DEF Drain, AskReader
<1>3. failures' \in Nat /\ (failures' = 0 => failures = 0 /\ memory # "no result")
  <2>1. failures \in Nat /\ Allocate(memory)
    BY <1>1, ReaderIs DEF AskReader
  <2> QED BY <2>1, Allocated
<1>4. PICK r, read, dr, rc, noted, threw, p, f :
        /\ r = reader /\ read = reading /\ dr = drained /\ rc = received /\ noted = readerNotes
        /\ threw = readerThrew /\ p = pc /\ f = failures
  OBVIOUS
<1>5. PICK read2, dr2, rc2, threw2, p2, f2 :
        /\ read2 = reading' /\ dr2 = drained' /\ rc2 = received' /\ threw2 = readerThrew'
        /\ p2 = pc' /\ f2 = failures'
  OBVIOUS
<1>6. /\ ReaderInv(r, read, dr, rc, noted, threw, p, f) /\ p = "drain"
      /\ f2 \in Nat /\ (f2 = 0 => f = 0 /\ memory # "no result")
  BY <1>1, <1>2, <1>3, <1>4, <1>5 DEF ReadInv
<1>7. AskOutcome(r, a, memory)
  <2>1. ~r.terminal /\ ~r.ended
    BY <1>6 DEF ReaderInv, ReaderFlags
  <2>2. /\ HandleOK(r) /\ (r.finished => r.impl.finishCalled) /\ Within(r.diagnostics, r.impl.parsed)
        /\ a \in iox_reader_next(memory, r)
    BY <1>1, <1>4, <2>1, ReaderIs
  <2> QED BY <2>1, <2>2, AskGets
<1>8. DrainNext(a, dr, rc, read, threw, dr2, rc2, read2, threw2, p2)
  BY <1>1, <1>2, <1>4, <1>5 DEF Drained, ReaderThrows, DrainNext
<1>9. ReaderInv(a.handle, read2, dr2, rc2, noted \o a.result.diagnostics, threw2, p2, f2)
  BY <1>6, <1>7, <1>8, DrainKeeps
<1> QED BY <1>2, <1>4, <1>5, <1>9 DEF ReadNext

LEMMA CallFailsReads == ASSUME script \in Seq(ItemKind), ReadInv, ReaderCallFails PROVE ReadNext
<1>1. /\ reader' = reader /\ readerNotes' = readerNotes
      /\ readerThrew' = TRUE /\ pc' = "idle" /\ drained' = <<>> /\ received' = received
      /\ reading' \in {reading, "closed"} /\ script' = script
      /\ failures' = failures + 1
  BY DEF ReaderCallFails, ReaderThrows, Allocate, MayRead
<1>2. failures' \in Nat /\ failures' # 0 /\ HandleOK(reader)
  BY <1>1, ReaderIs
<1>3. PICK r, read, dr, rc, noted, threw, p, f :
        /\ r = reader /\ read = reading /\ dr = drained /\ rc = received /\ noted = readerNotes
        /\ threw = readerThrew /\ p = pc /\ f = failures
  OBVIOUS
<1>4. PICK read2, f2 : read2 = reading' /\ f2 = failures'
  OBVIOUS
<1>5. ReaderInv(r, read, dr, rc, noted, threw, p, f) /\ HandleOK(r)
  BY <1>2, <1>3 DEF ReadInv
<1>6. r.impl.taken <= r.impl.taken
  BY <1>5, HandleNumbers
<1>7. ReaderFlags(r, read, p) /\ ReaderTold(r, noted, p)
  BY <1>5 DEF ReaderInv
<1>8. AfterThrow(r, read, f, r, read2, noted, f2)
  BY <1>1, <1>2, <1>3, <1>4, <1>5, <1>6, <1>7 DEF AfterThrow, ReaderFlags, ReaderTold
<1>9. ReaderInv(r, read2, <<>>, rc, noted, TRUE, "idle", f2)
  BY <1>5, <1>8, ThrowKeeps
<1> QED BY <1>1, <1>3, <1>4, <1>9 DEF ReadNext

\* No other action calls the reader.
LEMMA OthersRead ==
  ASSUME script \in Seq(ItemKind), ReadInv, pc \in {"idle", "take"}, pc' \in {"idle", "take"},
         reading' \in {reading, "closed"}, failures' \in Nat, failures' = 0 => failures = 0,
         UNCHANGED <<script, reader, drained, received, readerNotes, readerThrew>>
  PROVE  ReadNext
<1>1. PICK r, read, dr, rc, noted, threw, p, f :
        /\ r = reader /\ read = reading /\ dr = drained /\ rc = received /\ noted = readerNotes
        /\ threw = readerThrew /\ p = pc /\ f = failures
  OBVIOUS
<1>2. PICK read2, p2, f2 : read2 = reading' /\ p2 = pc' /\ f2 = failures'
  OBVIOUS
<1>3. /\ ReaderInv(r, read, dr, rc, noted, threw, p, f)
      /\ p \in {"idle", "take"} /\ p2 \in {"idle", "take"} /\ read2 \in {read, "closed"}
      /\ f2 \in Nat /\ (f2 = 0 => f = 0)
  BY <1>1, <1>2 DEF ReadInv
<1>4. ReaderInv(r, read2, dr, rc, noted, threw, p2, f2)
  BY <1>3, OthersKeep
<1> QED BY <1>1, <1>2, <1>4 DEF ReadNext

LEMMA WritersRead ==
  ASSUME script \in Seq(ItemKind), ReadInv,
         CloseReader \/ Write \/ WriterCallFails \/ TakeChunk \/ TakeOutput \/ FinishWriter \/ CloseWriter
  PROVE  ReadNext
<1>1. failures \in Nat
  BY ReaderIs
<1>2. \A memory : Allocate(memory) => failures' \in Nat /\ (failures' = 0 => failures = 0)
  BY <1>1 DEF Allocate
<1>3. CASE CloseReader
  BY <1>1, <1>3, OthersRead DEF CloseReader, Free, writerVars
<1>4. CASE Write
  <2>1. pc = "idle" /\ pc' \in {"idle", "take"}
    BY <1>4, ZenonT(60) DEF Write, MayWrite, Free, Written, WriterThrows
  <2>2. failures' \in Nat /\ (failures' = 0 => failures = 0)
    BY <1>2, <1>4 DEF Write
  <2>3. UNCHANGED <<script, readerVars>>
    BY <1>4 DEF Write
  <2> QED BY <2>1, <2>2, <2>3, OthersRead DEF readerVars
<1>5. CASE WriterCallFails
  <2>1. pc \in {"idle", "take"} /\ pc' = "idle" /\ UNCHANGED <<script, readerVars>>
    BY <1>5 DEF WriterCallFails, MayWrite, Free, WriterThrows
  <2>2. failures' \in Nat /\ (failures' = 0 => failures = 0)
    BY <1>2, <1>5 DEF WriterCallFails
  <2> QED BY <2>1, <2>2, OthersRead DEF readerVars
<1>6. CASE TakeChunk
  <2>1. pc = "take" /\ UNCHANGED <<script, readerVars>>
    BY <1>6 DEF TakeChunk
  <2>2. failures' \in Nat /\ (failures' = 0 => failures = 0)
    BY <1>2, <1>6 DEF TakeChunk
  <2>3. pc' = "idle"
    BY <1>6 DEF TakeChunk, WriterThrows
  <2> QED BY <2>1, <2>2, <2>3, OthersRead DEF readerVars
<1>7. CASE TakeOutput
  <2>1. pc = "idle" /\ pc' = "idle" /\ failures' = failures /\ UNCHANGED <<script, readerVars>>
    BY <1>7 DEF TakeOutput, Free
  <2> QED BY <1>1, <2>1, OthersRead DEF readerVars
<1>8. CASE FinishWriter
  <2>1. pc = "idle" /\ pc' = "idle"
    BY <1>8 DEF FinishWriter, MayWrite, Free, WriterThrows
  <2>2. failures' \in Nat /\ (failures' = 0 => failures = 0)
    BY <1>2, <1>8 DEF FinishWriter
  <2>3. UNCHANGED <<script, readerVars>>
    BY <1>8 DEF FinishWriter
  <2> QED BY <2>1, <2>2, <2>3, OthersRead DEF readerVars
<1>9. CASE CloseWriter
  <2>1. pc = "idle" /\ pc' = "idle" /\ failures' = failures /\ UNCHANGED <<script, readerVars>>
    BY <1>9 DEF CloseWriter, Free
  <2> QED BY <1>1, <2>1, OthersRead DEF readerVars
<1> QED BY <1>3, <1>4, <1>5, <1>6, <1>7, <1>8, <1>9

\* The input does not change.
LEMMA SameInput == ASSUME ReadNext PROVE ReadInv'
<1>1. script' = script
  BY DEF ReadNext
<1>2. \A k, m, n : ItemsOf(k, m, n)' = ItemsOf(k, m, n)
  BY <1>1 DEF ItemsOf
<1>3. (EventsIn(0, reader.impl.taken))' = EventsIn(0, reader'.impl.taken)
      /\ (EventsIn(reader.impl.taken, reader.impl.parsed))'
           = EventsIn(reader'.impl.taken, reader'.impl.parsed)
      /\ (DiagnosesIn(0, reader.impl.parsed))' = DiagnosesIn(0, reader'.impl.parsed)
      /\ (EventsIn(0, Len(script)))' = EventsIn(0, Len(script))
  BY <1>1 DEF EventsIn, DiagnosesIn, ItemsOf
<1>4. HandleOK(reader)'
  BY <1>1 DEF ReadNext, ReaderInv, HandleOK, Bad, IsReader, ReaderState
<1>5. (ReaderFlags(reader, reading, pc))' /\ (ReaderTold(reader, readerNotes, pc))'
  BY DEF ReadNext, ReaderInv, ReaderFlags, ReaderTold
<1>6. (ReaderGave(reader, reading, drained, received, readerNotes, readerThrew, pc, failures))'
  BY <1>1, <1>3 DEF ReadNext, ReaderInv, ReaderGave
<1> QED BY <1>4, <1>5, <1>6 DEF ReadInv, ReaderInv

LEMMA ReadingOK ==
  ASSUME script \in Seq(ItemKind), ReadInv, [WasmNext]_wasmVars
  PROVE  ReadInv'
<1>1. /\ HandleOK(reader) /\ failures \in Nat
      /\ ~reader.terminal => Within(reader.diagnostics, reader.impl.parsed)
  BY ReaderIs
<1>2. CASE Feed
  <2>1. PICK a \in iox_reader_feed(reader) : InputTaken(a, "open")
    BY <1>2 DEF Feed
  <2>2. InputOutcome(reader, a, FALSE)
    BY <1>1, FeedGets
  <2>3. pc = "idle" /\ reading = "open" /\ UNCHANGED <<script, failures>>
    BY <1>2 DEF Feed, MayRead
  <2>4. ReadNext
    BY <2>1, <2>2, <2>3, InputReads
  <2> QED BY <2>4, SameInput
<1>3. CASE Finish
  <2>1. PICK a \in iox_reader_finish(reader) : InputTaken(a, "finished")
    BY <1>3 DEF Finish
  <2>2. InputOutcome(reader, a, TRUE)
    BY <1>1, FinishGets
  <2>3. pc = "idle" /\ reading = "open" /\ UNCHANGED <<script, failures>>
    BY <1>3 DEF Finish, MayRead
  <2>4. ReadNext
    BY <2>1, <2>2, <2>3, InputReads
  <2> QED BY <2>4, SameInput
<1>4. CASE UNCHANGED wasmVars
  <2>1. /\ UNCHANGED <<script, reader, reading, drained, received, readerNotes, readerThrew, pc, failures>>
    BY <1>4 DEF wasmVars, readerVars
  <2>2. ReadNext
    BY <2>1 DEF ReadInv, ReadNext
  <2> QED BY <2>2, SameInput
<1> QED BY <1>2, <1>3, <1>4, AskReads, DrainReads, CallFailsReads, WritersRead, SameInput DEF WasmNext

LEMMA ReadInvHolds == WasmSpec => []ReadInv
<1>1. IInv /\ ReadInv /\ [WasmNext]_wasmVars => ReadInv'
  BY ReadingOK DEF IInv, TypeOK
<1> QED BY <1>1, ReadStarts, InvariantHolds, PTL DEF WasmSpec

LEMMA EverythingIsRead == ASSUME script \in Seq(ItemKind), ReadInv PROVE ReadsEverything
<1>1. /\ HandleOK(reader) /\ ReaderFlags(reader, reading, pc) /\ ReaderTold(reader, readerNotes, pc)
      /\ ReaderGave(reader, reading, drained, received, readerNotes, readerThrew, pc, failures)
  BY DEF ReadInv, ReaderInv
<1>2. PICK t \in Nat, b \in Nat, l \in Nat :
        t = reader.impl.taken /\ b = reader.impl.parsed /\ l = Len(script)
  BY <1>1, HandleNumbers
<1>3. t <= b /\ b <= l /\ l <= Len(script) /\ b <= Len(script)
  BY <1>1, <1>2, HandleNumbers
<1>4. Increasing(received \o drained) /\ Increasing(readerNotes)
  BY <1>1 DEF ReaderGave, ReaderTold, Grows
<1>5. /\ Damaged(0, b) <=> Bad(b)
      /\ Damaged(0, l) <=> Bad(l)
  BY <1>3, DamagedIsBad
<1>6. ASSUME ~readerThrew, pc \notin {"ask", "drain"}
      PROVE  /\ received = EventsIn(0, reader.impl.parsed)
             /\ readerNotes = DiagnosesIn(0, reader.impl.parsed)
             /\ reading = "finished" => reader.impl.parsed = Len(script) /\ ~Damaged(0, Len(script))
  <2>1. ~reader.terminal /\ drained = <<>> /\ reader.diagnostics = <<>>
        /\ received \in Seq(Nat) /\ readerNotes \in Seq(Nat)
    BY <1>1, <1>6 DEF ReaderGave, ReaderTold
  <2>2. /\ received \o drained = EventsIn(0, t) /\ EventsIn(t, b) = <<>>
        /\ readerNotes \o reader.diagnostics = DiagnosesIn(0, b)
        /\ reading = "finished" => b = l
    BY <1>1, <1>2, <1>6, <2>1 DEF ReaderGave
  <2>3. received \o drained = received /\ readerNotes \o reader.diagnostics = readerNotes
    BY <2>1, EmptySide
  <2>4. EventsIn(0, b) = received
    <3>1. 0 \in Nat /\ 0 <= t
      BY <1>2
    <3>2. EventsIn(0, b) = EventsIn(0, t) \o EventsIn(t, b)
      BY <1>3, <3>1, ItemsJoin, ZenonT(60) DEF EventsIn
    <3> QED BY <2>1, <2>2, <2>3, <3>2, EmptySide
  <2>5. ~Bad(b)
    BY <1>1, <1>2, <2>1 DEF HandleOK
  <2> QED BY <1>2, <1>5, <2>2, <2>3, <2>4, <2>5
<1>7. ASSUME failures = 0
      PROVE  /\ IsPrefix(received, EventsIn(0, Len(script)))
             /\ readerThrew => Damaged(0, reader.impl.parsed)
  <2>1. IsPrefix(received, EventsIn(0, Len(script))) /\ (readerThrew => reader.terminal)
    BY <1>1, <1>7 DEF ReaderGave
  <2>2. reader.terminal => Bad(b)
    BY <1>1, <1>2 DEF HandleOK
  <2> QED BY <1>2, <1>5, <2>1, <2>2
<1> QED BY <1>4, <1>6, <1>7 DEF ReadsEverything

\* For every input, wherever its chunks end and whichever calls and allocations fail: what index.js
\* hands out of a reader are the events and the diagnostics of the input, each once and in order;
\* nothing is left out as long as no call has thrown, and no call throws over an input without an
\* error unless an allocation fails.
THEOREM AllIsRead == WasmSpec => []ReadsEverything
<1>1. IInv /\ ReadInv => ReadsEverything
  BY EverythingIsRead DEF IInv, TypeOK
<1> QED BY <1>1, InvariantHolds, ReadInvHolds, PTL
-----------------------------------------------------------------------------
(* The program writes *)
Warned == {e \in DOMAIN script : ReactionTo(e) = "warns"}

\* What a call of the writer gives.
CallGives(w, memory, a) ==
  /\ a.result.status = "OK" => /\ memory = "enough" /\ ~w.terminal /\ ~a.handle.terminal
                               /\ a.handle.finished = w.finished
  /\ a.result.status # "OK" /\ memory = "enough" => a.handle.terminal \/ w.finished
  /\ memory = "enough" /\ a.result.status # "OK" /\ a.handle.finished => w.finished

LEMMA ErrorResultOf ==
  ASSUME NEW memory, NEW w
  PROVE  /\ ErrorResult(memory, w).handle = w
         /\ ErrorResult(memory, w).result.status \in {"ERROR", "none"}
BY DEF ErrorResult, Return, Result, NoResult

LEMMA RememberOf ==
  ASSUME NEW w, IsWriter(w)
  PROVE  /\ Remember(w, OwnDiagnostic).terminal
         /\ Remember(w, OwnDiagnostic).finished = w.finished
         /\ Remember(w, OwnDiagnostic).written = w.written
BY DEF Remember, IsWriter

RefusedGave(w, a) ==
  /\ a.result.status # "OK" /\ a.handle.terminal = w.terminal /\ a.handle.finished = w.finished
  /\ a.handle.written = w.written

LEMMA RefusedOf ==
  ASSUME NEW w, IsWriter(w), NEW memory, w.finished \/ w.terminal, NEW a, a = WriterRefused(memory, w)
  PROVE  RefusedGave(w, a)
<1>1. PICK after : after = IF w.terminal THEN w ELSE [w EXCEPT !.diagnostics = Append(@, OwnDiagnostic)]
  OBVIOUS
<1>2. PICK status : status = IF w.terminal THEN "ERROR" ELSE "INVALID_STATE"
  OBVIOUS
<1>3. a = Return(after, status, Result(memory, status, after.diagnostics))
  BY <1>1, <1>2 DEF WriterRefused
<1>4. /\ after.terminal = w.terminal /\ after.finished = w.finished /\ after.written = w.written
  BY <1>1 DEF IsWriter
<1>5. Result(memory, status, after.diagnostics).status # "OK"
  BY <1>2 DEF Result, NoResult
<1> QED BY <1>3, <1>4, <1>5 DEF Return, RefusedGave

WriteGave(w, e, reaction, a) ==
  /\ a.handle.written = Append(w.written, e) /\ a.handle.diagnostics = <<>>
  /\ \/ reaction = "fine" /\ a.result.diagnostics = w.diagnostics \o <<>>
     \/ reaction = "warns" /\ a.result.diagnostics = w.diagnostics \o <<e>>

LEMMA WriteGives ==
  ASSUME NEW w, IsWriter(w), NEW e \in Nat, NEW reaction \in Reaction, NEW memory \in {"enough", "no result"},
         NEW a, a = iox_writer_write_event_json(memory, w, e, reaction)
  PROVE  CallGives(w, memory, a) /\ (a.result.status = "OK" => WriteGave(w, e, reaction, a))
<1>1. CASE w.finished \/ w.terminal
  <2>1. a = WriterRefused(memory, w)
    BY <1>1 DEF iox_writer_write_event_json
  <2>2. RefusedGave(w, a)
    BY <1>1, <2>1, RefusedOf
  <2> QED BY <1>1, <2>2 DEF CallGives, RefusedGave
<1>2. CASE ~(w.finished \/ w.terminal) /\ ~InOrder(LastWritten(w), script[e])
  <2>1. a = ErrorResult(memory, Remember(w, OwnDiagnostic))
    BY <1>2 DEF iox_writer_write_event_json
  <2>2. a.handle = Remember(w, OwnDiagnostic) /\ a.result.status # "OK"
    BY <2>1, ErrorResultOf, ZenonT(60)
  <2> QED BY <2>2, RememberOf DEF CallGives
<1>3. CASE /\ ~(w.finished \/ w.terminal) /\ InOrder(LastWritten(w), script[e])
           /\ reaction = "throws"
  <2>1. PICK cut : cut = [w EXCEPT !.sink = Append(@, Cut)]
    OBVIOUS
  <2>2. a = ErrorResult(memory, Remember(cut, OwnDiagnostic))
    BY <1>3, <2>1 DEF iox_writer_write_event_json
  <2>3. Append(w.sink, Cut) \in Seq(Nat)
    BY AppendProperties DEF Cut, IsWriter
  <2>4. IsWriter(cut) /\ cut.finished = w.finished
    BY <2>1, <2>3 DEF IsWriter
  <2>5. a.handle = Remember(cut, OwnDiagnostic) /\ a.result.status # "OK"
    BY <2>2, ErrorResultOf, ZenonT(60)
  <2> QED BY <2>4, <2>5, RememberOf DEF CallGives
<1>4. CASE /\ ~(w.finished \/ w.terminal) /\ InOrder(LastWritten(w), script[e])
           /\ reaction # "throws"
  <2>1. PICK d : d = w.diagnostics \o (IF reaction = "fine" THEN <<>> ELSE <<e>>)
    OBVIOUS
  <2>2. PICK status : status = IF reaction = "errs" THEN "ERROR" ELSE "OK"
    OBVIOUS
  <2>3. PICK h : h = [w EXCEPT !.written = Append(@, e), !.sink = Append(@, e),
                               !.diagnostics = <<>>, !.terminal = (reaction = "errs")]
    OBVIOUS
  <2>0. PICK result : result = Result(memory, status, d)
    OBVIOUS
  <2>4. a = Return(h, status, result)
    BY <1>4, <2>0, <2>1, <2>2, <2>3 DEF iox_writer_write_event_json, EventWritten
  <2>5. /\ h.written = Append(w.written, e) /\ h.diagnostics = <<>> /\ h.finished = w.finished
        /\ h.terminal = (reaction = "errs")
    BY <2>3 DEF IsWriter
  <2>6. a.handle = h /\ a.result = result
    BY ONLY <2>4 DEF Return
  <2>7. CASE memory = "no result"
    <3>1. a.result.status = "none"
      <4>1. result.status = "none"
        BY <2>0, <2>7 DEF Result, NoResult
      <4> QED BY <2>6, <4>1
    <3> QED BY <2>7, <3>1 DEF CallGives
  <2>8. CASE memory = "enough"
    <3>1. a.result.status = status /\ a.result.diagnostics = d
      <4>1. result.status = status /\ result.diagnostics = d
        BY <2>0, <2>8 DEF Result
      <4> QED BY <2>6, <4>1
    <3>2. reaction \in {"fine", "warns", "errs"}
      BY <1>4 DEF Reaction
    <3>3. a.result.status = "OK" => WriteGave(w, e, reaction, a)
      <4>1. CASE reaction = "fine"
        BY <2>1, <2>5, <2>6, <3>1, <4>1 DEF WriteGave
      <4>2. CASE reaction = "warns"
        BY <2>1, <2>5, <2>6, <3>1, <4>2 DEF WriteGave
      <4>3. CASE reaction = "errs"
        BY <2>2, <3>1, <4>3
      <4> QED BY <3>2, <4>1, <4>2, <4>3
    <3> QED BY <1>4, <2>2, <2>5, <2>6, <2>8, <3>1, <3>2, <3>3 DEF CallGives
  <2> QED BY <2>7, <2>8
<1> QED BY <1>1, <1>2, <1>3, <1>4

\* The bytes do not come without the rest.
LEMMA BytesGive ==
  ASSUME NEW w, IsWriter(w), NEW memory \in Memory, NEW status \in {"OK", "ERROR"},
         NEW a, a = WithOutput(memory, w, status)
  PROVE  /\ a.handle.written = w.written /\ a.handle.finished = w.finished
         /\ a.result.status = "OK" => /\ memory = "enough" /\ status = "OK"
                                      /\ a.handle.terminal = w.terminal
                                      /\ a.handle.diagnostics = w.diagnostics
                                      /\ a.result.diagnostics = w.diagnostics
         /\ memory = "enough" => a.result.status = status /\ a.handle.terminal = w.terminal
<1>1. PICK emptied : emptied = [w EXCEPT !.sink = <<>>]
  OBVIOUS
<1>2. /\ IsWriter(emptied) /\ emptied.written = w.written /\ emptied.finished = w.finished
      /\ emptied.terminal = w.terminal /\ emptied.diagnostics = w.diagnostics
  <2>1. <<>> \in Seq(Nat)
    OBVIOUS
  <2> QED BY <1>1, <2>1 DEF IsWriter
<1>3. CASE memory = "no result"
  BY <1>3 DEF WithOutput, Return, NoResult
<1>4. CASE memory = "no bytes"
  <2>1. a = ErrorResult(memory, Remember(emptied, OwnDiagnostic))
    BY <1>1, <1>4 DEF WithOutput
  <2>2. a.handle = Remember(emptied, OwnDiagnostic) /\ a.result.status # "OK"
    BY <2>1, ErrorResultOf
  <2> QED BY <1>2, <1>4, <2>2, RememberOf, ZenonT(60)
<1>5. CASE memory = "enough"
  <2>1. PICK result : result = [Result(memory, status, w.diagnostics) EXCEPT !.bytes = w.sink]
    OBVIOUS
  <2>2. a = Return(emptied, status, result)
    BY <1>1, <1>5, <2>1 DEF WithOutput
  <2>3. result.diagnostics = w.diagnostics /\ result.status = status
    BY <1>5, <2>1 DEF Result
  <2> QED BY <1>2, <1>5, <2>2, <2>3 DEF Return
<1> QED BY <1>3, <1>4, <1>5 DEF Memory

LEMMA TakeGives ==
  ASSUME NEW w, IsWriter(w), NEW memory \in Memory, NEW a, a = iox_writer_take_output(memory, w)
  PROVE  /\ CallGives(w, memory, a)
         /\ a.result.status = "OK" =>
              /\ a.handle.written = w.written /\ a.handle.diagnostics = w.diagnostics
              /\ a.result.diagnostics = w.diagnostics
<1>1. CASE w.finished
  <2>1. PICK result : result = Result(memory, "INVALID_STATE", <<OwnDiagnostic>>)
    OBVIOUS
  <2>2. a = Return(w, "INVALID_STATE", result)
    BY <1>1, <2>1 DEF iox_writer_take_output
  <2>3. result.status # "OK"
    BY <2>1 DEF Result, NoResult
  <2>4. a.handle = w /\ a.result.status # "OK"
    BY <2>2, <2>3 DEF Return
  <2> QED BY <1>1, <2>4 DEF CallGives
<1>2. CASE ~w.finished
  <2>1. PICK status : status = IF w.terminal THEN "ERROR" ELSE "OK"
    OBVIOUS
  <2>2. a = WithOutput(memory, w, status) /\ status \in {"OK", "ERROR"}
    BY <1>2, <2>1 DEF iox_writer_take_output
  <2>3. w.terminal \in BOOLEAN
    BY DEF IsWriter
  <2> QED BY <1>2, <2>1, <2>2, <2>3, BytesGive DEF CallGives
<1> QED BY <1>1, <1>2

LEMMA FinishGives ==
  ASSUME NEW w, IsWriter(w), NEW memory \in Memory, NEW a, a = iox_writer_finish(memory, w)
  PROVE  \/ /\ a.result.status = "OK" /\ memory = "enough"
            /\ ~w.terminal /\ ~a.handle.terminal /\ LastWritten(w) = "EndTransfer"
            /\ a.handle.written = w.written /\ a.handle.diagnostics = w.diagnostics
            /\ a.result.diagnostics = w.diagnostics
         \/ a.result.status # "OK" /\ CallGives(w, memory, a)
<1>1. CASE w.finished \/ w.terminal
  <2>1. a = WriterRefused(memory, w)
    BY <1>1 DEF iox_writer_finish
  <2>2. RefusedGave(w, a)
    BY <1>1, <2>1, RefusedOf
  <2> QED BY <1>1, <2>2 DEF CallGives, RefusedGave
<1>2. CASE ~(w.finished \/ w.terminal) /\ LastWritten(w) # "EndTransfer"
  <2>1. a = ErrorResult(memory, Remember(w, OwnDiagnostic))
    BY <1>2 DEF iox_writer_finish
  <2>2. a.handle = Remember(w, OwnDiagnostic) /\ a.result.status # "OK"
    BY <2>1, ErrorResultOf
  <2> QED BY <2>2, RememberOf DEF CallGives
<1>3. CASE ~(w.finished \/ w.terminal) /\ LastWritten(w) = "EndTransfer"
  <2>1. PICK v : v = [w EXCEPT !.sink = Append(@, Closing), !.finished = TRUE]
    OBVIOUS
  <2>2. PICK status : status = "OK"
    OBVIOUS
  <2>3. a = WithOutput(memory, v, status) /\ status \in {"OK", "ERROR"}
    BY <1>3, <2>1, <2>2 DEF iox_writer_finish
  <2>4. Append(w.sink, Closing) \in Seq(Nat)
    BY AppendProperties DEF Closing, IsWriter
  <2>5. IsWriter(v) /\ v.written = w.written /\ v.diagnostics = w.diagnostics /\ v.terminal = w.terminal
    BY <2>1, <2>4 DEF IsWriter
  <2> QED BY <1>3, <2>2, <2>3, <2>5, BytesGive DEF CallGives
<1> QED BY <1>1, <1>2, <1>3

WriterGave(w, wr, rc, noted, errs, f, n) ==
  /\ errs \in Nat /\ f \in Nat /\ IsWriter(w)
  /\ errs = 0 => /\ w.written = SubSeq(rc, 1, n) /\ noted = Only(w.written, Warned)
                 /\ w.diagnostics = <<>>
  /\ f = 0 => /\ errs # 0 => w.terminal
              /\ w.finished => wr # "open"
  /\ wr = "finished" => ~w.terminal /\ LastWritten(w) = "EndTransfer"

LEMMA OneItem == ASSUME NEW e \in Nat PROVE <<e>> \in Seq(Nat)
OBVIOUS

LEMMA PassedOn ==
  ASSUME NEW s \in Seq(Nat), NEW t \in Seq(Nat), NEW n \in 0 .. Len(s)
  PROVE  SubSeq(s \o t, 1, n) = SubSeq(s, 1, n)
<1>1. PICK u : u = s \o t
  OBVIOUS
<1>2. /\ u \in Seq(Nat) /\ Len(u) = Len(s) + Len(t) /\ Len(s) \in Nat /\ Len(t) \in Nat /\ n \in Nat
      /\ \A i \in 1 .. Len(s) : u[i] = s[i]
  BY <1>1, ConcatProperties
<1>3. n <= Len(s) /\ n <= Len(u)
  BY <1>2
<1>4. \A i \in 1 .. n : u[i] = s[i]
  BY <1>2, <1>3
<1>5. SubSeq(u, 1, n) = SubSeq(s, 1, n)
  BY <1>2, <1>3, <1>4
<1> QED BY <1>1, <1>5

LEMMA PassedOneMore ==
  ASSUME NEW s \in Seq(Nat), NEW n \in Nat, n < Len(s)
  PROVE  /\ SubSeq(s, 1, n + 1) = Append(SubSeq(s, 1, n), s[n + 1])
         /\ SubSeq(s, 1, n) \in Seq(Nat) /\ n + 1 \in DOMAIN s /\ s[n + 1] \in Nat
         /\ SubSeq(s, 1, 0) = <<>>
<1>1. Len(s) \in Nat /\ n + 1 \in 1 .. Len(s) /\ n + 1 \in DOMAIN s
  OBVIOUS
<1>2. s[n + 1] \in Nat
  BY <1>1, ElementOfSeq
<1> QED BY <1>1, <1>2

\* A call that throws: w2 is what it leaves of the handle.
LEMMA FailKeeps ==
  ASSUME NEW w, NEW rc, NEW noted, NEW errs, NEW f, NEW n, WriterGave(w, "open", rc, noted, errs, f, n),
         NEW w2, IsWriter(w2), NEW notes2, NEW f2, f2 \in Nat, NEW n2,
         f2 = 0 => f = 0 /\ (w2.terminal \/ w.finished) /\ (w2.finished => w.finished)
  PROVE  WriterGave(w2, "open", rc, notes2, errs + 1, f2, n2)
<1>1. errs + 1 \in Nat /\ errs + 1 # 0
  BY DEF WriterGave
<1>2. f2 = 0 => ~w.finished
  BY SMTT(30) DEF WriterGave
<1> QED BY <1>1, <1>2 DEF WriterGave

\* An event is written, and the request for the output is next.
LEMMA WriteKeeps ==
  ASSUME NEW w, NEW rc \in Seq(Nat), NEW noted, NEW errs, NEW f, NEW n \in Nat, n < Len(rc),
         WriterGave(w, "open", rc, noted, errs, f, n),
         rc[n + 1] \in DOMAIN script, ReactionTo(rc[n + 1]) \in Reaction,
         NEW memory \in {"enough", "no result"}, NEW a, IsWriter(a.handle),
         a = iox_writer_write_event_json(memory, w, rc[n + 1], ReactionTo(rc[n + 1])),
         a.result.status = "OK"
  PROVE  WriterGave(a.handle, "open", rc, noted \o a.result.diagnostics, errs, f, n + 1)
<1>1. PICK e \in Nat, reaction \in Reaction : e = rc[n + 1] /\ reaction = ReactionTo(rc[n + 1])
  BY PassedOneMore
<1>2. a = iox_writer_write_event_json(memory, w, e, reaction) /\ IsWriter(w)
  BY <1>1, ZenonT(60) DEF WriterGave
<1>3. /\ ~w.terminal /\ ~a.handle.terminal /\ a.handle.finished = w.finished
      /\ a.handle.written = Append(w.written, e) /\ a.handle.diagnostics = <<>>
      /\ \/ reaction = "fine" /\ a.result.diagnostics = w.diagnostics \o <<>>
         \/ reaction = "warns" /\ a.result.diagnostics = w.diagnostics \o <<e>>
  <2>1. CallGives(w, memory, a) /\ WriteGave(w, e, reaction, a)
    BY <1>2, WriteGives, ZenonT(60)
  <2> QED BY <2>1, ZenonT(60) DEF CallGives, WriteGave
<1>4. ASSUME errs = 0
      PROVE  /\ a.handle.written = SubSeq(rc, 1, n + 1)
             /\ noted \o a.result.diagnostics = Only(a.handle.written, Warned)
  <2>1. /\ w.written = SubSeq(rc, 1, n) /\ noted = Only(w.written, Warned) /\ w.diagnostics = <<>>
    BY <1>4 DEF WriterGave
  <2>2. PICK s \in Seq(Nat) : s = w.written
    BY <1>2 DEF IsWriter
  <2>3. a.handle.written = Append(s, e) /\ SubSeq(rc, 1, n + 1) = Append(s, e)
    BY <1>1, <1>3, <2>1, <2>2, PassedOneMore
  <2>4. PICK N \in Seq(Nat) : N = noted
    BY <2>1, <2>2, OnlyType
  <2>5. CASE reaction = "fine"
    <3>1. e \notin Warned
      BY <1>1, <2>5 DEF Warned
    <3>2. Only(Append(s, e), Warned) = N
      BY <2>1, <2>2, <2>4, <3>1, OnlySkips, ZenonT(60)
    <3>3. a.result.diagnostics = <<>> \o <<>>
      BY <1>3, <2>1, <2>5
    <3>4. N \o a.result.diagnostics = N
      BY <2>4, <3>3, EmptySide
    <3> QED BY <2>3, <2>4, <3>2, <3>4
  <2>6. CASE reaction = "warns"
    <3>1. e \in Warned
      BY <1>1, <2>6 DEF Warned
    <3>2. Only(Append(s, e), Warned) = Append(N, e)
      BY <2>1, <2>2, <2>4, <3>1, OnlyTakes
    <3>3. a.result.diagnostics = <<>> \o <<e>>
      BY <1>3, <2>1, <2>6
    <3>5. <<e>> \in Seq(Nat) /\ <<>> \o <<e>> = <<e>> /\ N \o <<e>> = Append(N, e)
      <4>1. <<e>> \in Seq(Nat)
        BY <1>1, OneItem
      <4>2. <<>> \o <<e>> = <<e>>
        BY <4>1, EmptySide
      <4>3. N \o <<e>> = Append(N, e)
        BY <2>4, AppendIsConcat
      <4> QED BY <4>1, <4>2, <4>3
    <3>4. N \o a.result.diagnostics = Append(N, e)
      BY <3>3, <3>5
    <3> QED BY <2>3, <2>4, <3>2, <3>4
  <2> QED BY <1>3, <2>3, <2>5, <2>6, ZenonT(60)
<1> QED BY <1>3, <1>4, ZenonT(60) DEF WriterGave

\* The output is fetched, or the document completed.
LEMMA OutputKeeps ==
  ASSUME NEW w, NEW rc, NEW noted, NEW errs, NEW f, NEW n, WriterGave(w, "open", rc, noted, errs, f, n),
         noted \in Seq(Nat) \/ errs # 0,
         NEW h, NEW d, IsWriter(h), NEW wr \in {"open", "finished"},
         ~w.terminal, ~h.terminal, wr = "open" => h.finished = w.finished,
         wr = "finished" => LastWritten(w) = "EndTransfer",
         h.written = w.written, h.diagnostics = w.diagnostics, d = w.diagnostics
  PROVE  WriterGave(h, wr, rc, noted \o d, errs, f, n)
<1>1. ASSUME errs = 0
      PROVE  /\ h.written = SubSeq(rc, 1, n) /\ noted \o d = Only(h.written, Warned)
             /\ h.diagnostics = <<>>
  <2>1. /\ w.written = SubSeq(rc, 1, n) /\ noted = Only(w.written, Warned) /\ w.diagnostics = <<>>
    BY <1>1 DEF WriterGave
  <2>2. noted \o <<>> = noted
    BY <1>1, EmptySide
  <2> QED BY <2>1, <2>2
<1>2. LastWritten(h) = LastWritten(w)
  BY DEF LastWritten
<1> QED BY <1>1, <1>2 DEF WriterGave
-----------------------------------------------------------------------------
WriteInv ==
  /\ IsInput(script) /\ trouble.reaction \in Reaction
  /\ WriterGave(writer, writing, received, writerNotes, writerErrors, failures, sent)

LEMMA WriteStarts == WasmInit => WriteInv
<1> SUFFICES ASSUME WasmInit PROVE WriteInv
  OBVIOUS
<1>1. /\ IsInput(script) /\ trouble.reaction \in Reaction
      /\ writer = iox_writer_create /\ received = <<>> /\ writerNotes = <<>> /\ writerErrors = 0
      /\ failures = 0 /\ sent = 0 /\ writing = "open"
  BY DEF WasmInit
<1>2. /\ IsWriter(writer) /\ writer.written = <<>> /\ writer.diagnostics = <<>> /\ ~writer.finished
  <2>1. <<>> \in Seq(Nat)
    OBVIOUS
  <2> QED BY <1>1, <2>1 DEF iox_writer_create, IsWriter
<1>3. SubSeq(received, 1, 0) = <<>>
  <2>1. <<>> \in Seq(Nat) /\ Len(<<>>) = 0
    OBVIOUS
  <2> QED BY <1>1, <2>1
<1>4. Only(<<>>, Warned) = <<>>
  BY OnlyEmpty
<1> QED BY <1>1, <1>2, <1>3, <1>4 DEF WriteInv, WriterGave

WriteNext ==
  /\ WriterGave(writer', writing', received', writerNotes', writerErrors', failures', sent')
  /\ UNCHANGED <<script, trouble>>

LEMMA SameTrouble == ASSUME WriteInv, WriteNext PROVE WriteInv'
<1>1. script' = script /\ trouble' = trouble
  BY DEF WriteNext
<1>2. Warned' = Warned
  BY <1>1 DEF Warned, ReactionTo
<1>3. LastWritten(writer)' = LastWritten(writer')
  BY <1>1 DEF LastWritten
<1>4. (IsInput(script) /\ trouble.reaction \in Reaction)'
  BY <1>1 DEF WriteInv
<1>5. WriterGave(writer, writing, received, writerNotes, writerErrors, failures, sent)'
  BY <1>2, <1>3 DEF WriteNext, WriterGave, IsWriter
<1> QED BY <1>4, <1>5 DEF WriteInv

\* What is known of the event that is passed on next.
LEMMA NextPassed ==
  ASSUME IInv, ReadInv, WriteInv, sent < Len(received)
  PROVE  /\ received \in Seq(Nat) /\ sent \in Nat /\ received[sent + 1] \in DOMAIN script
         /\ ReactionTo(received[sent + 1]) \in Reaction
<1>1. received \in Seq(Nat) /\ sent \in 0 .. Len(received) /\ script \in Seq(ItemKind)
  BY DEF IInv, TypeOK
<1>2. sent \in Nat /\ Len(received) \in Nat /\ sent + 1 \in 1 .. Len(received)
  BY <1>1
<1>3. /\ Grows(received \o drained, reader.impl.taken) /\ drained \in Seq(Nat) /\ HandleOK(reader)
  BY DEF ReadInv, ReaderInv, ReaderGave
<1>4. PICK t \in Nat : t = reader.impl.taken /\ t <= Len(script)
  BY <1>1, <1>3, HandleNumbers
<1>5. PICK u : u = received \o drained
  OBVIOUS
<1>6. sent + 1 \in DOMAIN u /\ u[sent + 1] = received[sent + 1]
  <2>1. /\ DOMAIN u = 1 .. Len(received) + Len(drained) /\ Len(drained) \in Nat
        /\ \A n \in 1 .. Len(received) : u[n] = received[n]
    BY <1>1, <1>3, <1>5, ConcatAt
  <2> QED BY <1>2, <2>1
<1>7. received[sent + 1] \in 1 .. t
  BY <1>3, <1>4, <1>5, <1>6 DEF Grows, Within
<1>8. received[sent + 1] \in DOMAIN script
  BY <1>1, <1>4, <1>7
<1>9. ReactionTo(received[sent + 1]) \in Reaction
  BY DEF ReactionTo, WriteInv, Reaction
<1> QED BY <1>1, <1>2, <1>8, <1>9

\* What a call of the writer leaves where it throws.
LEMMA FailWrites ==
  ASSUME IInv, WriteInv, writing = "open", writing' = "open", received' = received,
         NEW memory, Allocate(memory), IsWriter(writer'),
         memory = "enough" => /\ writer'.terminal \/ writer.finished
                              /\ writer'.finished => writer.finished,
         writerErrors' = writerErrors + 1, UNCHANGED <<script, trouble>>
  PROVE  WriteNext
<1>1. failures \in Nat /\ failures' \in Nat /\ (failures' = 0 => failures = 0 /\ memory = "enough")
  <2>1. failures \in Nat
    BY DEF WriteInv, WriterGave
  <2>2. CASE memory = "enough"
    BY <2>1, <2>2 DEF Allocate
  <2>3. CASE memory # "enough"
    <3>1. failures' = failures + 1
      BY <2>3 DEF Allocate
    <3>2. \A f \in Nat : f + 1 \in Nat /\ f + 1 # 0
      OBVIOUS
    <3>3. failures' \in Nat /\ failures' # 0
      BY <2>1, <3>1, <3>2
    <3> QED BY <2>1, <3>3
  <2> QED BY <2>2, <2>3
<1>2. PICK w, rc, noted, errs, f, n :
        /\ w = writer /\ rc = received /\ noted = writerNotes /\ errs = writerErrors
        /\ f = failures /\ n = sent
  OBVIOUS
<1>3. PICK w2, notes2, f2, n2 :
        w2 = writer' /\ notes2 = writerNotes' /\ f2 = failures' /\ n2 = sent'
  OBVIOUS
<1>4. /\ WriterGave(w, "open", rc, noted, errs, f, n)
      /\ IsWriter(w2) /\ f2 \in Nat
      /\ f2 = 0 => f = 0 /\ (w2.terminal \/ w.finished) /\ (w2.finished => w.finished)
  BY <1>1, <1>2, <1>3 DEF WriteInv
<1>5. WriterGave(w2, "open", rc, notes2, errs + 1, f2, n2)
  BY <1>4, FailKeeps
<1> QED BY <1>2, <1>3, <1>5 DEF WriteNext

LEMMA WriteWrites == ASSUME IInv, ReadInv, WriteInv, Write PROVE WriteNext
<1>1. PICK memory \in {"enough", "no result"} :
        /\ Allocate(memory)
        /\ Written(iox_writer_write_event_json(memory, writer, received[sent + 1],
                                               ReactionTo(received[sent + 1])))
  BY DEF Write
<1>2. /\ received \in Seq(Nat) /\ sent \in Nat /\ received[sent + 1] \in DOMAIN script
      /\ ReactionTo(received[sent + 1]) \in Reaction /\ sent < Len(received)
  BY NextPassed DEF Write
<1>0. PICK w : w = writer
  OBVIOUS
<1>3. PICK rc \in Seq(Nat), n \in Nat, e \in Nat, reaction \in Reaction :
        /\ w = writer /\ rc = received /\ n = sent
        /\ e = received[sent + 1] /\ reaction = ReactionTo(received[sent + 1])
  <2>1. received[sent + 1] \in Nat
    BY <1>2, PassedOneMore
  <2> QED BY <1>0, <1>2, <2>1
<1>4. PICK a : a = iox_writer_write_event_json(memory, w, e, reaction)
  OBVIOUS
<1>5. Written(a) /\ writer' = a.handle
  BY <1>1, <1>3, <1>4 DEF Written
<1>6. IsWriter(w) /\ IsWriter(a.handle)
  <2>1. WriterStep
    BY WriteStep
  <2> QED BY <1>3, <1>5, <2>1 DEF WriterStep, IInv
<1>7. CallGives(w, memory, a)
  BY <1>4, <1>6, WriteGives
<1>8. /\ writing = "open" /\ writing' = "open" /\ received' = received
      /\ UNCHANGED <<script, trouble>>
  BY DEF Write, MayWrite, readerVars
<1>9. CASE a.result.status # "OK"
  <2>1. writerErrors' = writerErrors + 1
    BY <1>5, <1>9 DEF Written, WriterThrows
  <2>2. memory = "enough" => /\ writer'.terminal \/ writer.finished
                             /\ writer'.finished => writer.finished
    BY <1>3, <1>5, <1>7, <1>9 DEF CallGives
  <2>3. IsWriter(writer')
    BY <1>5, <1>6
  <2> QED BY <1>1, <1>8, <2>1, <2>2, <2>3, FailWrites
<1>10. CASE a.result.status = "OK"
  <2>1. /\ memory = "enough" /\ failures' = failures
    BY <1>1, <1>7, <1>10 DEF CallGives, Allocate
  <2>2. sent' = sent + 1 /\ writerErrors' = writerErrors
        /\ writerNotes' = writerNotes \o a.result.diagnostics
    BY <1>5, <1>10 DEF Written
  <2>3. PICK noted, errs, f : noted = writerNotes /\ errs = writerErrors /\ f = failures
    OBVIOUS
  <2>4. /\ WriterGave(w, "open", rc, noted, errs, f, n) /\ n < Len(rc)
        /\ rc[n + 1] \in DOMAIN script /\ ReactionTo(rc[n + 1]) \in Reaction
        /\ a = iox_writer_write_event_json(memory, w, rc[n + 1], ReactionTo(rc[n + 1]))
    BY <1>2, <1>3, <1>4, <1>8, <2>3 DEF WriteInv
  <2>5. WriterGave(a.handle, "open", rc, noted \o a.result.diagnostics, errs, f, n + 1)
    BY <1>6, <1>10, <2>4, WriteKeeps
  <2> QED BY <1>3, <1>5, <1>8, <2>1, <2>2, <2>3, <2>5 DEF WriteNext
<1> QED BY <1>9, <1>10

LEMMA TakeWrites == ASSUME IInv, WriteInv, TakeChunk PROVE WriteNext
<1>1. PICK memory \in Memory :
        /\ Allocate(memory)
        /\ LET answer == iox_writer_take_output(memory, writer)
           IN  /\ writer' = answer.handle
               /\ writerNotes' = writerNotes \o answer.result.diagnostics
               /\ \/ /\ answer.result.status = "OK" /\ pc' = "idle"
                     /\ UNCHANGED <<writerErrors, sent>>
                  \/ answer.result.status # "OK" /\ WriterThrows
  BY DEF TakeChunk
<1>2. PICK w, a : w = writer /\ a = iox_writer_take_output(memory, w)
  OBVIOUS
<1>3. /\ writer' = a.handle
      /\ \/ /\ a.result.status = "OK" /\ writerErrors' = writerErrors /\ sent' = sent
            /\ writerNotes' = writerNotes \o a.result.diagnostics
         \/ a.result.status # "OK" /\ writerErrors' = writerErrors + 1
  BY <1>1, <1>2 DEF WriterThrows
<1>4. /\ writing = "open" /\ writing' = "open" /\ received' = received
      /\ UNCHANGED <<script, trouble>>
  BY DEF TakeChunk, IInv, readerVars
<1>5. IsWriter(w) /\ IsWriter(a.handle)
  <2>1. WriterStep
    BY TakeChunkStep
  <2> QED BY <1>2, <1>3, <2>1 DEF WriterStep, IInv
<1>6. /\ CallGives(w, memory, a)
      /\ a.result.status = "OK" =>
           /\ a.handle.written = w.written /\ a.handle.diagnostics = w.diagnostics
           /\ a.result.diagnostics = w.diagnostics
  BY <1>2, <1>5, TakeGives
<1>7. CASE a.result.status # "OK"
  <2>1. writerErrors' = writerErrors + 1 /\ IsWriter(writer')
    BY <1>3, <1>5, <1>7
  <2>2. memory = "enough" => /\ writer'.terminal \/ writer.finished
                             /\ writer'.finished => writer.finished
    BY <1>2, <1>3, <1>6, <1>7 DEF CallGives
  <2> QED BY <1>1, <1>4, <2>1, <2>2, FailWrites
<1>8. CASE a.result.status = "OK"
  <2>1. /\ memory = "enough" /\ failures' = failures
    BY <1>1, <1>6, <1>8 DEF CallGives, Allocate
  <2>2. PICK rc, noted, errs, f, n :
          rc = received /\ noted = writerNotes /\ errs = writerErrors /\ f = failures /\ n = sent
    OBVIOUS
  <2>3. PICK h, d : h = a.handle /\ d = a.result.diagnostics
    OBVIOUS
  <2>4. WriterGave(w, "open", rc, noted, errs, f, n)
    BY <1>2, <1>4, <2>2 DEF WriteInv
  <2>5. noted \in Seq(Nat) \/ errs # 0
    <3>1. w.written \in Seq(Nat)
      BY <1>5 DEF IsWriter
    <3>2. Only(w.written, Warned) \in Seq(Nat)
      BY <3>1, OnlyType
    <3> QED BY <2>4, <3>2 DEF WriterGave
  <2>6. /\ IsWriter(h) /\ ~w.terminal /\ ~h.terminal /\ h.finished = w.finished
        /\ h.written = w.written /\ h.diagnostics = w.diagnostics /\ d = w.diagnostics
    BY <1>5, <1>6, <1>8, <2>3 DEF CallGives
  <2>7. WriterGave(h, "open", rc, noted \o d, errs, f, n)
    BY <2>4, <2>5, <2>6, OutputKeeps
  <2> QED BY <1>3, <1>4, <1>8, <2>1, <2>2, <2>3, <2>7 DEF WriteNext
<1> QED BY <1>7, <1>8

LEMMA FinishWrites == ASSUME IInv, WriteInv, FinishWriter PROVE WriteNext
<1>1. PICK memory \in Memory :
        /\ Allocate(memory)
        /\ LET answer == iox_writer_finish(memory, writer)
           IN  /\ writer' = answer.handle
               /\ writerNotes' = writerNotes \o answer.result.diagnostics
               /\ \/ /\ answer.result.status = "OK" /\ writing' = "finished"
                     /\ UNCHANGED <<pc, writerErrors>>
                  \/ answer.result.status # "OK" /\ WriterThrows /\ UNCHANGED writing
  BY DEF FinishWriter
<1>2. PICK w, a : w = writer /\ a = iox_writer_finish(memory, w)
  OBVIOUS
<1>3. /\ writer' = a.handle
      /\ \/ /\ a.result.status = "OK" /\ writerErrors' = writerErrors /\ writing' = "finished"
            /\ writerNotes' = writerNotes \o a.result.diagnostics
         \/ a.result.status # "OK" /\ writerErrors' = writerErrors + 1 /\ writing' = writing
  BY <1>1, <1>2 DEF WriterThrows
<1>4. /\ writing = "open" /\ received' = received /\ sent' = sent
      /\ UNCHANGED <<script, trouble>>
  BY DEF FinishWriter, MayWrite, readerVars
<1>5. IsWriter(w) /\ IsWriter(a.handle)
  <2>1. WriterStep
    BY FinishStep
  <2> QED BY <1>2, <1>3, <2>1 DEF WriterStep, IInv
<1>6. \/ /\ a.result.status = "OK" /\ memory = "enough"
         /\ ~w.terminal /\ ~a.handle.terminal /\ LastWritten(w) = "EndTransfer"
         /\ a.handle.written = w.written /\ a.handle.diagnostics = w.diagnostics
         /\ a.result.diagnostics = w.diagnostics
      \/ a.result.status # "OK" /\ CallGives(w, memory, a)
  BY <1>2, <1>5, FinishGives
<1>7. CASE a.result.status # "OK"
  <2>1. writerErrors' = writerErrors + 1 /\ writing' = "open" /\ IsWriter(writer')
    BY <1>3, <1>4, <1>5, <1>7
  <2>2. memory = "enough" => /\ writer'.terminal \/ writer.finished
                             /\ writer'.finished => writer.finished
    BY <1>2, <1>3, <1>6, <1>7 DEF CallGives
  <2> QED BY <1>1, <1>4, <2>1, <2>2, FailWrites
<1>8. CASE a.result.status = "OK"
  <2>1. /\ memory = "enough" /\ failures' = failures
    BY <1>1, <1>6, <1>8 DEF Allocate
  <2>2. PICK rc, noted, errs, f, n :
          rc = received /\ noted = writerNotes /\ errs = writerErrors /\ f = failures /\ n = sent
    OBVIOUS
  <2>3. PICK h, d, wr : h = a.handle /\ d = a.result.diagnostics /\ wr = "finished"
    OBVIOUS
  <2>4. WriterGave(w, "open", rc, noted, errs, f, n)
    BY <1>2, <1>4, <2>2 DEF WriteInv
  <2>5. noted \in Seq(Nat) \/ errs # 0
    <3>1. w.written \in Seq(Nat)
      BY <1>5 DEF IsWriter
    <3>2. Only(w.written, Warned) \in Seq(Nat)
      BY <3>1, OnlyType
    <3> QED BY <2>4, <3>2 DEF WriterGave
  <2>6. /\ IsWriter(h) /\ ~w.terminal /\ ~h.terminal /\ LastWritten(w) = "EndTransfer"
        /\ wr \in {"open", "finished"} /\ wr # "open"
        /\ h.written = w.written /\ h.diagnostics = w.diagnostics /\ d = w.diagnostics
    BY <1>5, <1>6, <1>8, <2>3
  <2>7. WriterGave(h, wr, rc, noted \o d, errs, f, n)
    BY <2>4, <2>5, <2>6, OutputKeeps
  <2> QED BY <1>3, <1>4, <1>8, <2>1, <2>2, <2>3, <2>7 DEF WriteNext
<1> QED BY <1>7, <1>8

LEMMA CallFailsWrites == ASSUME IInv, WriteInv, WriterCallFails PROVE WriteNext
<1>1. PICK memory : memory = "no bytes"
  OBVIOUS
<1>2. /\ Allocate(memory) /\ memory # "enough" /\ writing = "open" /\ writing' = "open"
      /\ received' = received /\ writer' = writer /\ writerErrors' = writerErrors + 1
      /\ UNCHANGED <<script, trouble>>
  BY <1>1 DEF WriterCallFails, MayWrite, WriterThrows, readerVars, IInv
<1>3. IsWriter(writer')
  BY <1>2 DEF IInv
<1> QED BY <1>2, <1>3, FailWrites

\* Where the writer is not called.
LEMMA OthersWrite ==
  ASSUME IInv, WriteInv, UNCHANGED <<script, trouble, writer, writerNotes, writerErrors, sent>>,
         writing' \in {writing, "closed"},
         NEW d \in Seq(Nat), received' \in {received, received \o d},
         failures' \in Nat, failures' = 0 => failures = 0
  PROVE  WriteNext
<1>1. received \in Seq(Nat) /\ sent \in 0 .. Len(received)
  BY DEF IInv, TypeOK
<1>2. SubSeq(received', 1, sent) = SubSeq(received, 1, sent)
  BY <1>1, PassedOn
<1> QED BY <1>2 DEF WriteInv, WriterGave, WriteNext

LEMMA ReadersWrite ==
  ASSUME IInv, WriteInv, Feed \/ ReaderCallFails \/ Finish \/ Ask \/ Drain \/ CloseReader
  PROVE  WriteNext
<1>1. failures \in Nat /\ drained \in Seq(Nat)
  BY DEF WriteInv, WriterGave, IInv, TypeOK
<1>2. /\ UNCHANGED <<script, trouble, writer, writing, writerNotes, writerErrors, sent>>
  BY DEF Feed, ReaderCallFails, Finish, Ask, Drain, CloseReader, writerVars
<1>3. received' \in {received, received \o drained}
  <2>1. CASE Drain
    BY <2>1 DEF Drain, Drained, ReaderThrows
  <2>2. CASE Feed \/ ReaderCallFails \/ Finish \/ Ask \/ CloseReader
    BY <2>2 DEF Feed, ReaderCallFails, Finish, Ask, CloseReader, InputTaken, ReaderThrows
  <2> QED BY <2>1, <2>2
<1>4. failures' \in Nat /\ (failures' = 0 => failures = 0)
  <2>1. \A memory : Allocate(memory) => failures' \in Nat /\ (failures' = 0 => failures = 0)
    BY <1>1 DEF Allocate
  <2>2. CASE Feed \/ Finish \/ CloseReader
    BY <1>1, <2>2 DEF Feed, Finish, CloseReader
  <2>3. CASE ReaderCallFails
    BY <2>1, <2>3 DEF ReaderCallFails
  <2>4. CASE Ask
    BY <2>1, <2>4 DEF Ask, AskReader
  <2>5. CASE Drain
    BY <2>1, <2>5 DEF Drain, AskReader
  <2> QED BY <2>2, <2>3, <2>4, <2>5
<1> QED BY <1>1, <1>2, <1>3, <1>4, OthersWrite

LEMMA WritingOK ==
  ASSUME IInv, ReadInv, WriteInv, [WasmNext]_wasmVars
  PROVE  WriteInv'
<1>1. failures \in Nat /\ <<>> \in Seq(Nat)
  BY DEF WriteInv, WriterGave
<1>2. CASE TakeOutput \/ CloseWriter
  <2>1. /\ UNCHANGED <<script, trouble, failures, readerVars, writer, writerNotes, writerErrors, sent>>
        /\ writing' \in {writing, "closed"}
    BY <1>2 DEF TakeOutput, CloseWriter
  <2>2. WriteNext
    BY <1>1, <2>1, OthersWrite DEF readerVars
  <2> QED BY <2>2, SameTrouble
<1>3. CASE UNCHANGED wasmVars
  <2>1. /\ UNCHANGED <<script, trouble, failures, readerVars, writer, writing, writerNotes,
                       writerErrors, sent>>
    BY <1>3 DEF wasmVars, writerVars
  <2>2. WriteNext
    BY <1>1, <2>1, OthersWrite DEF readerVars
  <2> QED BY <2>2, SameTrouble
<1> QED BY <1>2, <1>3, WriteWrites, TakeWrites, FinishWrites, CallFailsWrites, ReadersWrite, SameTrouble
        DEF WasmNext

LEMMA WriteInvHolds == WasmSpec => []WriteInv
<1>1. IInv /\ ReadInv /\ WriteInv /\ [WasmNext]_wasmVars => WriteInv'
  BY WritingOK
<1> QED BY <1>1, WriteStarts, InvariantHolds, ReadInvHolds, PTL DEF WasmSpec

\* Nothing comes behind the end of the transfer.
LEMMA WholeTransfer ==
  ASSUME IsInput(script), NEW rc \in Seq(Nat), IsPrefix(rc, EventsIn(0, Len(script))),
         NEW n \in 0 .. Len(rc), NEW s, s = SubSeq(rc, 1, n), s # <<>>, script[Last(s)] = "EndTransfer"
  PROVE  s = EventsIn(0, Len(script))
<1>1. script \in Seq(ItemKind) /\ Len(script) \in Nat
  BY DEF IsInput
<1>2. PICK E : E = EventsIn(0, Len(script))
  OBVIOUS
<1>3. Listed(E, EventKind, 0, Len(script))
  BY <1>1, <1>2, ItemsListed DEF EventsIn
<1>4. E \in Seq(Nat) /\ Len(E) \in Nat /\ Len(rc) \in Nat /\ n \in Nat /\ DOMAIN E = 1 .. Len(E)
  BY <1>3 DEF Listed
<1>5. Len(rc) <= Len(E) /\ SubSeq(rc, 1, Len(rc)) = SubSeq(E, 1, Len(rc))
  BY <1>2, <1>4 DEF IsPrefix
<1>6. \A i \in 1 .. Len(rc) : rc[i] = E[i]
  <2>1. SubSeq(rc, 1, Len(rc)) = rc
    BY <1>4
  <2>2. \A i \in 1 .. Len(rc) : SubSeq(E, 1, Len(rc))[i] = E[i]
    BY <1>4, <1>5
  <2> QED BY <1>5, <2>1, <2>2
<1>7. n <= Len(rc) /\ n <= Len(E) /\ n # 0
  <2>1. n = 0 => s = <<>>
    BY <1>4
  <2> QED BY <1>4, <1>5, <2>1
<1>8. s = SubSeq(E, 1, n)
  BY <1>4, <1>6, <1>7
<1>9. Last(s) = E[n] /\ n \in DOMAIN E
  <2>1. Len(s) = n /\ s[n] = E[n]
    BY <1>4, <1>7, <1>8, SMTT(30)
  <2> QED BY <1>4, <1>7, <2>1 DEF Last
<1>10. n = Len(E)
  <2>1. PICK l \in Nat, m \in Nat : l = Len(E) /\ m = n /\ m <= l
    BY <1>4, <1>7
  <2>2. ASSUME m < l  PROVE FALSE
    <3>1. m + 1 \in 1 .. l /\ m < m + 1
      BY <2>1, <2>2
    <3>2. n + 1 \in DOMAIN E /\ n < n + 1
      BY <1>4, <2>1, <3>1
    <3>3. E[n] < E[n + 1]
      BY <1>3, <1>9, <3>2 DEF Listed, Increasing
    <3>4. /\ E[n] \in 0 + 1 .. Len(script) /\ E[n + 1] \in 0 + 1 .. Len(script)
          /\ script[E[n + 1]] \in EventKind
      BY <1>3, <1>9, <3>2 DEF Listed
    <3>5. E[n] \in DOMAIN script /\ E[n + 1] \in DOMAIN script
      BY <1>1, <3>4
    <3>6. script[E[n]] = "EndTransfer"
      BY <1>9
    <3> QED BY <3>3, <3>4, <3>5, <3>6 DEF IsInput
  <2> QED BY <2>1, <2>2
<1>11. SubSeq(E, 1, Len(E)) = E
  BY <1>4
<1> QED BY <1>2, <1>8, <1>10, <1>11

LEMMA EverythingIsWritten == ASSUME IInv, ReadInv, WriteInv PROVE WritesEverything
<1>1. WriterGave(writer, writing, received, writerNotes, writerErrors, failures, sent)
  BY DEF WriteInv
<1>2. ASSUME writerErrors = 0
      PROVE  /\ writer.written = SubSeq(received, 1, sent)
             /\ writerNotes = Only(writer.written, {e \in DOMAIN script : ReactionTo(e) = "warns"})
  BY <1>1, <1>2 DEF WriterGave, Warned
<1>3. ASSUME failures = 0, writing = "finished"
      PROVE  document = EventsIn(0, Len(script)) \o <<Closing>>
  <2>1. ~writer.terminal /\ LastWritten(writer) = "EndTransfer" /\ writerErrors = 0
    BY <1>1, <1>3 DEF WriterGave
  <2>2. writer.written # <<>> /\ script[Last(writer.written)] = "EndTransfer"
    BY <2>1 DEF LastWritten
  <2>3. writer.written = SubSeq(received, 1, sent)
    BY <1>2, <2>1
  <2>4. received \in Seq(Nat) /\ sent \in 0 .. Len(received) /\ IsInput(script)
    BY DEF IInv, TypeOK, WriteInv
  <2>5. IsPrefix(received, EventsIn(0, Len(script)))
    BY <1>3 DEF ReadInv, ReaderInv, ReaderGave
  <2>6. writer.written = EventsIn(0, Len(script))
    BY <2>2, <2>3, <2>4, <2>5, WholeTransfer
  <2>7. document = writer.written \o <<Closing>>
    BY <1>3 DEF IInv, OutputKept
  <2> QED BY <2>6, <2>7
<1> QED BY <1>2, <1>3 DEF WritesEverything

\* For every input and whatever the writer makes of an event: as long as no call of it has thrown,
\* it has written what the program passed on and the program knows of each warning once; and, if no
\* allocation fails, a document that finish() completes has every event of the input.
THEOREM AllIsWritten == WasmSpec => []WritesEverything
<1>1. IInv /\ ReadInv /\ WriteInv => WritesEverything
  BY EverythingIsWritten
<1> QED BY <1>1, InvariantHolds, ReadInvHolds, WriteInvHolds, PTL
-----------------------------------------------------------------------------
(* Baskets *)
Starts(a, b) == ItemsOf({"StartBasket"}, a, b)

LEMMA StartsListed ==
  ASSUME script \in Seq(ItemKind), NEW a \in Nat, NEW b \in Nat, a <= b, b <= Len(script)
  PROVE  Listed(Starts(a, b), {"StartBasket"}, a, b) /\ Listed(EventsIn(a, b), EventKind, a, b)
BY ItemsListed DEF Starts, EventsIn

LEMMA StartsJoin ==
  ASSUME script \in Seq(ItemKind), NEW a \in Nat, NEW b \in Nat, NEW c \in Nat,
         a <= b, b <= c, c <= Len(script)
  PROVE  /\ Starts(a, c) = Starts(a, b) \o Starts(b, c)
         /\ Starts(a, b) \in Seq(Nat) /\ Starts(b, c) \in Seq(Nat)
<1>1. b <= Len(script)
  <2>1. Len(script) \in Nat
    OBVIOUS
  <2> QED BY <2>1
<1> QED BY <1>1, ItemsJoin, ItemsType DEF Starts

\* A sequence of no items, and of one.
LEMMA NoneListed ==
  ASSUME NEW s, NEW k, NEW a \in Nat, NEW b \in Nat, Listed(s, k, a, b),
         \A j \in a + 1 .. b : script[j] \notin k
  PROVE  s = <<>>
<1>1. SUFFICES ASSUME s # <<>> PROVE FALSE
  OBVIOUS
<1>2. 1 \in DOMAIN s
  BY <1>1 DEF Listed
<1> QED BY <1>2 DEF Listed

LEMMA OneListed ==
  ASSUME NEW s, NEW k, NEW a \in Nat, NEW b \in Nat, Listed(s, k, a, b),
         NEW e \in a + 1 .. b, script[e] \in k, \A j \in a + 1 .. b : script[j] \in k => j = e
  PROVE  s = <<e>>
<1>1. PICK n \in DOMAIN s : s[n] = e
  BY DEF Listed
<1>2. s \in Seq(Nat) /\ DOMAIN s = 1 .. Len(s) /\ Len(s) \in Nat
  BY DEF Listed
<1>3. \A m \in DOMAIN s : s[m] = e
  BY DEF Listed
<1>4. Len(s) = 1
  <2>1. SUFFICES ASSUME Len(s) > 1 PROVE FALSE
    BY <1>1, <1>2
  <2>2. 1 \in DOMAIN s /\ 2 \in DOMAIN s
    BY <1>2, <2>1
  <2>3. s[1] < s[2] /\ s[1] = e /\ s[2] = e
    BY <1>3, <2>2 DEF Listed, Increasing
  <2> QED BY <2>3
<1>5. s[1] = e
  BY <1>2, <1>3, <1>4
<1> QED BY <1>2, <1>4, <1>5

\* What comes with the next event.
LEMMA NextStart ==
  ASSUME script \in Seq(ItemKind), NEW a \in Nat, NEW b \in Nat, a < b, b <= Len(script),
         EventsIn(a, b) = <<b>>
  PROVE  Starts(a, b) = IF script[b] = "StartBasket" THEN <<b>> ELSE <<>>
<1>1. /\ Listed(Starts(a, b), {"StartBasket"}, a, b) /\ Listed(<<b>>, EventKind, a, b)
      /\ b \in a + 1 .. b
  BY StartsListed
<1>2. \A j \in a + 1 .. b : script[j] \in EventKind => j = b
  <2>1. PICK s : s = <<b>>
    OBVIOUS
  <2>2. \A n \in DOMAIN s : s[n] = b
    BY <2>1
  <2>3. Listed(s, EventKind, a, b)
    BY <1>1, <2>1
  <2> QED BY <2>2, <2>3 DEF Listed
<1>3. \A j \in a + 1 .. b : script[j] \in {"StartBasket"} => j = b
  BY <1>2 DEF EventKind
<1>4. CASE script[b] = "StartBasket"
  <2>1. script[b] \in {"StartBasket"}
    BY <1>4
  <2>2. \A j \in a + 1 .. b : script[j] \in {"StartBasket"} => j = b
    BY <1>3
  <2>3. Starts(a, b) = <<b>>
    BY ONLY <1>1, <2>1, <2>2, OneListed, a \in Nat, b \in Nat
  <2> QED BY <1>4, <2>3
<1>5. CASE script[b] # "StartBasket"
  <2>1. \A j \in a + 1 .. b : script[j] \notin {"StartBasket"}
    BY <1>3, <1>5
  <2> QED BY <1>1, <1>5, <2>1, NoneListed
<1> QED BY <1>4, <1>5

LEMMA NoMoreStarts ==
  ASSUME script \in Seq(ItemKind), NEW a \in Nat, NEW b \in Nat, a <= b, b <= Len(script),
         EventsIn(a, b) = <<>>
  PROVE  Starts(a, b) = <<>>
<1>1. /\ Listed(Starts(a, b), {"StartBasket"}, a, b) /\ Listed(EventsIn(a, b), EventKind, a, b)
  BY StartsListed
<1>2. DOMAIN EventsIn(a, b) = {}
  <2>1. DOMAIN <<>> = {}
    OBVIOUS
  <2> QED BY <2>1
<1>3. \A j \in a + 1 .. b : script[j] \notin {"StartBasket"}
  BY <1>1, <1>2 DEF Listed, EventKind
<1> QED BY <1>1, <1>3, NoneListed

LEMMA NothingBehindTheEnd ==
  ASSUME IsInput(script), NEW a \in DOMAIN script, script[a] = "EndTransfer"
  PROVE  Starts(a, Len(script)) = <<>>
<1>1. script \in Seq(ItemKind) /\ Len(script) \in Nat /\ a \in Nat /\ a <= Len(script)
      /\ DOMAIN script = 1 .. Len(script) /\ Len(script) <= Len(script)
  BY DEF IsInput
<1>2. Listed(Starts(a, Len(script)), {"StartBasket"}, a, Len(script))
  BY <1>1, StartsListed
<1>3. \A j \in a + 1 .. Len(script) : j \in DOMAIN script /\ a < j
  BY <1>1
<1>4. \A j \in a + 1 .. Len(script) : script[j] \notin {"StartBasket"}
  BY <1>3 DEF IsInput, EventKind
<1> QED BY <1>1, <1>2, <1>4, NoneListed

\* What follows the start of a basket up to its end.
LEMMA WholeBasket ==
  ASSUME script \in Seq(ItemKind), NEW i \in Nat, NEW a \in Nat, NEW b \in Nat,
         i <= a, a < b, b <= Len(script),
         \A k \in DOMAIN EventsIn(i, a) : script[EventsIn(i, a)[k]] = "Object",
         EventsIn(a, b) = <<b>>, script[b] = "EndBasket"
  PROVE  BasketAt(i) = [whole |-> TRUE, items |-> <<i>> \o EventsIn(i, a)]
<1>1. PICK l \in Nat : l = Len(script) /\ b <= l
  BY LenProperties
<1>2. PICK s, t, f : s = EventsIn(i, a) /\ t = EventsIn(b, l) /\ f = EventsIn(i, l)
  OBVIOUS
<1>3. s \in Seq(Nat) /\ t \in Seq(Nat) /\ f = (s \o <<b>>) \o t
  <2>1. a <= b /\ b <= l /\ l <= Len(script) /\ i <= b /\ a <= Len(script) /\ i <= l
    BY <1>1
  <2>2. s \in Seq(Nat) /\ t \in Seq(Nat)
    BY <1>2, <2>1, ItemsType DEF EventsIn
  <2>3. EventsIn(i, b) = EventsIn(i, a) \o EventsIn(a, b)
    BY <2>1, ItemsJoin, ZenonT(60) DEF EventsIn
  <2>4. EventsIn(i, l) = EventsIn(i, b) \o EventsIn(b, l)
    BY <2>1, ItemsJoin, ZenonT(60) DEF EventsIn
  <2> QED BY <1>2, <2>2, <2>3, <2>4
<1>4. PICK u \in Seq(Nat) : u = s \o <<b>> /\ u = Append(s, b)
  <2>1. s \o <<b>> = Append(s, b) /\ Append(s, b) \in Seq(Nat)
    BY <1>3, AppendIsConcat, AppendProperties
  <2> QED BY <2>1
<1>5. PICK n \in Nat : n = Len(s)
  BY <1>3
<1>6. /\ Len(u) = n + 1 /\ u[n + 1] = b /\ \A k \in 1 .. n : u[k] = s[k]
  BY <1>3, <1>4, <1>5, AppendProperties
<1>7. /\ DOMAIN f = 1 .. Len(f) /\ Len(f) \in Nat /\ n + 1 <= Len(f)
      /\ \A k \in 1 .. n + 1 : f[k] = u[k]
  <2>1. f = u \o t
    BY <1>3, <1>4
  <2>2. /\ DOMAIN f = 1 .. Len(u) + Len(t) /\ Len(u) \in Nat /\ Len(t) \in Nat
        /\ \A k \in 1 .. Len(u) : f[k] = u[k]
    BY <1>3, <1>4, <2>1, ConcatAt
  <2>3. Len(f) = Len(u) + Len(t)
    BY <1>3, <1>4, <2>1, ConcatProperties
  <2> QED BY <1>6, <2>2, <2>3
<1>8. f[n + 1] = b /\ \A k \in 1 .. n : f[k] = s[k] /\ script[f[k]] = "Object"
  <2>1. \A k \in 1 .. n : script[s[k]] = "Object"
    <3>1. DOMAIN s = 1 .. n
      BY <1>3, <1>5
    <3>2. \A k \in DOMAIN s : script[s[k]] = "Object"
      BY <1>2
    <3> QED BY <3>1, <3>2
  <2>2. \A k \in 1 .. n : k \in 1 .. n + 1
    OBVIOUS
  <2>3. n + 1 \in 1 .. n + 1
    OBVIOUS
  <2> QED BY <1>6, <1>7, <2>1, <2>2, <2>3
<1>9. {m \in DOMAIN f : \A k \in 1 .. m : script[f[k]] = "Object"} = 1 .. n
  <2>1. ASSUME NEW m \in DOMAIN f, \A k \in 1 .. m : script[f[k]] = "Object"
        PROVE  m \in 1 .. n
    <3>1. m \in Nat /\ m >= 1
      BY <1>7, <2>1
    <3>2. ~(n + 1 \in 1 .. m)
      BY <1>8, <2>1
    <3> QED BY <3>1, <3>2
  <2>2. ASSUME NEW m \in 1 .. n
        PROVE  m \in DOMAIN f /\ \A k \in 1 .. m : script[f[k]] = "Object"
    <3>1. m \in DOMAIN f
      BY <1>7
    <3>2. \A k \in 1 .. m : k \in 1 .. n
      OBVIOUS
    <3> QED BY <1>8, <3>1, <3>2
  <2> QED BY <2>1, <2>2
<1>10. Cardinality(1 .. n) = n
  <2>1. Cardinality(1 .. n) = IF 1 > n THEN 0 ELSE n - 1 + 1
    BY FS_Interval
  <2> QED BY <2>1
<1>11. n < Len(f) /\ script[f[n + 1]] = "EndBasket"
  BY <1>7, <1>8
<1>12. SubSeq(f, 1, n) = s
  <2>1. f \in Seq(Nat)
    BY <1>3, <1>4, ConcatProperties
  <2> QED BY <1>3, <1>5, <1>7, <1>8, <2>1
<1>13. /\ Cardinality({m \in DOMAIN f : \A k \in 1 .. m : script[f[k]] = "Object"}) = n
       /\ f = EventsIn(i, Len(script)) /\ SubSeq(f, 1, n) = EventsIn(i, a)
  BY <1>1, <1>2, <1>9, <1>10, <1>12
<1>14. BasketAt(i) = [whole |-> n < Len(f) /\ script[f[n + 1]] = "EndBasket",
                      items |-> <<i>> \o SubSeq(f, 1, n)]
  BY <1>13 DEF BasketAt
<1> QED BY <1>11, <1>13, <1>14
-----------------------------------------------------------------------------
(* How the BasketReader gets on *)
\* The basket that item i starts is whole, these are its items, and they are not over the limit.
BasketIs(i, items) ==
  /\ BasketAt(i) = [whole |-> TRUE, items |-> items]
  /\ MaxObjects = 0 \/ Len(items) - 1 <= MaxObjects

\* What the baskets are that were returned.
Returned(beg, bs, ls, hd) ==
  /\ bs \in Seq(Seq(Nat)) /\ Len(bs) <= Len(Starts(beg, Len(script)))
  /\ \A n \in DOMAIN bs : BasketIs(Starts(beg, Len(script))[n], bs[n])
  /\ ls = "no more" => Len(bs) = Len(Starts(beg, Len(script))) /\ hd # 0

\* The basket that is collected is the last one that was started.
Collecting(beg, t, co, n) ==
  \E i \in Nat :
    /\ i <= t /\ Len(Starts(beg, t)) = n + 1 /\ Starts(beg, t)[n + 1] = i
    /\ co = <<i>> \o EventsIn(i, t)
    /\ \A k \in DOMAIN EventsIn(i, t) : script[EventsIn(i, t)[k]] = "Object"
    /\ MaxObjects = 0 \/ Len(co) - 1 <= MaxObjects

Position(x, beg, st, fl, co, n) ==
  /\ st # "collect" /\ ~fl /\ ~x.failed => Len(Starts(beg, x.taken)) = n
  /\ st = "collect" => ~x.failed /\ Collecting(beg, x.taken, co, n)

BasketFlags(x, st, hd, hr, fl, ft) ==
  /\ st \in {"idle", "header", "first", "collect"} /\ ft \in Nat /\ (fl => ft > 0)
  /\ st # "idle" => ~fl /\ hr
  /\ hr /\ st # "header" /\ ~fl /\ ~x.failed => hd # 0

ReaderAt(x, beg) ==
  /\ x \in ReaderState /\ x.taken <= x.parsed /\ x.parsed <= Len(script)
  /\ beg \in Nat /\ beg <= x.taken


LEMMA ReaderMoves ==
  ASSUME script \in Seq(ItemKind), NEW x, NEW beg, ReaderAt(x, beg), ~x.failed, NEW o \in NextOf(x)
  PROVE  NextOutcome(x, o) /\ ReaderAt(o.reader, beg)
<1>1. NextOutcome(x, o)
  BY NextGets DEF ReaderAt
<1>2. PICK q : q = o.reader
  OBVIOUS
<1>3. /\ q \in ReaderState /\ q.parsed \in x.parsed .. Len(script) /\ q.taken \in x.taken .. q.parsed
  BY <1>1, <1>2 DEF NextOutcome, NoFaultTo
<1>4. x.taken \in Nat /\ x.parsed \in Nat /\ Len(script) \in Nat /\ beg \in Nat /\ beg <= x.taken
  BY DEF ReaderAt, ReaderState
<1> QED BY <1>1, <1>2, <1>3, <1>4 DEF ReaderAt

LEMMA NumbersAt ==
  ASSUME script \in Seq(ItemKind), NEW x, NEW beg, ReaderAt(x, beg)
  PROVE  /\ x.taken \in Nat /\ x.parsed \in Nat /\ beg \in Nat /\ Len(script) \in Nat
         /\ beg <= x.taken /\ x.taken <= Len(script) /\ Len(script) <= Len(script)
BY DEF ReaderAt, ReaderState

\* The baskets that are started when next() has returned.
LEMMA StartsAt ==
  ASSUME IsInput(script), NEW x, NEW beg, ReaderAt(x, beg), NEW o, NextOutcome(x, o)
  PROVE  /\ o.progress = "Event" /\ script[o.event] # "StartBasket"
              => Starts(beg, o.reader.taken) = Starts(beg, x.taken)
         /\ o.progress = "Event" /\ script[o.event] = "StartBasket"
              => Starts(beg, o.reader.taken) = Append(Starts(beg, x.taken), o.event)
         /\ o.progress = "End" \/ (o.progress = "Event" /\ script[o.event] = "EndTransfer")
              => Starts(beg, Len(script)) = Starts(beg, x.taken)
<1>1. PICK t \in Nat, u \in Nat, l \in Nat :
        t = x.taken /\ u = o.reader.taken /\ l = Len(script)
  BY NumbersAt DEF NextOutcome, ReaderState, IsInput
<1>2. beg \in Nat /\ beg <= t /\ t <= u /\ u <= l /\ l <= Len(script) /\ script \in Seq(ItemKind)
      /\ t <= l /\ u <= Len(script) /\ t <= Len(script)
  BY <1>1, NumbersAt DEF NextOutcome, NoFaultTo, IsInput
<1>3. /\ Starts(beg, u) = Starts(beg, t) \o Starts(t, u)
      /\ Starts(beg, l) = Starts(beg, t) \o Starts(t, l)
      /\ Starts(t, l) = Starts(t, u) \o Starts(u, l)
      /\ Starts(beg, t) \in Seq(Nat) /\ Starts(t, u) \in Seq(Nat) /\ Starts(u, l) \in Seq(Nat)
  BY <1>2, StartsJoin, ZenonT(60)
<1>4. ASSUME o.progress = "Event"
      PROVE  /\ t < u /\ o.event = u /\ EventsIn(t, u) = <<u>>
             /\ Starts(t, u) = IF script[u] = "StartBasket" THEN <<u>> ELSE <<>>
  <2>1. t < u /\ o.event = u /\ EventsIn(t, u) = <<u>>
    BY <1>1, <1>4 DEF NextOutcome
  <2> QED BY <1>2, <2>1, NextStart
<1>5. ASSUME o.progress = "Event", script[o.event] # "StartBasket"
      PROVE  Starts(beg, u) = Starts(beg, t) /\ Starts(t, u) = <<>>
  <2>1. Starts(t, u) = <<>>
    BY <1>4, <1>5
  <2> QED BY <1>3, <2>1, EmptySide
<1>6. ASSUME o.progress = "Event", script[o.event] = "StartBasket"
      PROVE  Starts(beg, u) = Append(Starts(beg, t), o.event)
  <2>1. Starts(t, u) = <<u>> /\ o.event = u
    BY <1>4, <1>6
  <2> QED BY <1>3, <2>1, AppendIsConcat
<1>7. ASSUME o.progress = "End"  PROVE Starts(beg, l) = Starts(beg, t)
  <2>1. /\ o.reader.taken = x.taken /\ o.reader.parsed = Len(script) /\ Waiting(o.reader) = {}
        /\ o.reader \in ReaderState
    BY <1>7 DEF NextOutcome
  <2>2. EventsIn(t, l) = <<>>
    BY <1>1, <1>2, <2>1, WaitingItems
  <2>3. Starts(t, l) = <<>>
    BY <1>2, <2>2, NoMoreStarts
  <2> QED BY <1>3, <2>3, EmptySide
<1>8. ASSUME o.progress = "Event", script[o.event] = "EndTransfer"
      PROVE  Starts(beg, l) = Starts(beg, t)
  <2>1. Starts(t, u) = <<>> /\ o.event = u /\ t < u
    BY <1>4, <1>5, <1>8
  <2>2. u \in DOMAIN script
    BY <1>1, <1>2, <2>1
  <2>3. Starts(u, l) = <<>>
    BY <1>1, <1>8, <2>1, <2>2, NothingBehindTheEnd
  <2>4. Starts(t, l) = <<>>
    BY <1>3, <2>1, <2>3, EmptySide
  <2> QED BY <1>3, <2>4, EmptySide
<1> QED BY <1>1, <1>5, <1>6, <1>7, <1>8

\* The items that follow item i.
LEMMA FollowAt ==
  ASSUME script \in Seq(ItemKind), NEW x, NEW beg, ReaderAt(x, beg), NEW o, NextOutcome(x, o),
         o.progress = "Event", NEW i \in Nat, i <= x.taken
  PROVE  /\ EventsIn(i, o.reader.taken) = Append(EventsIn(i, x.taken), o.event)
         /\ EventsIn(i, x.taken) \in Seq(Nat)
<1>1. PICK t \in Nat, u \in Nat : t = x.taken /\ u = o.reader.taken
  BY NumbersAt DEF NextOutcome, ReaderState
<1>2. i <= t /\ t <= u /\ u <= Len(script) /\ t <= Len(script)
  BY <1>1, NumbersAt DEF NextOutcome, NoFaultTo
<1>3. EventsIn(t, u) = <<o.event>>
  BY <1>1 DEF NextOutcome
<1>4. EventsIn(i, u) = EventsIn(i, t) \o EventsIn(t, u) /\ EventsIn(i, t) \in Seq(Nat)
  BY <1>2, ItemsJoin, ItemsType DEF EventsIn
<1> QED BY <1>1, <1>3, <1>4, AppendIsConcat

\* A basket that was started is one of those of the input.
LEMMA StartKnown ==
  ASSUME script \in Seq(ItemKind), NEW x, NEW beg, ReaderAt(x, beg), NEW n \in Nat,
         Len(Starts(beg, x.taken)) = n + 1
  PROVE  /\ n + 1 <= Len(Starts(beg, Len(script)))
         /\ Starts(beg, Len(script))[n + 1] = Starts(beg, x.taken)[n + 1]
<1>1. PICK t \in Nat, l \in Nat : t = x.taken /\ l = Len(script)
  BY NumbersAt
<1>2. beg \in Nat /\ beg <= t /\ t <= l /\ l <= Len(script)
  BY <1>1, NumbersAt
<1>3. PICK s \in Seq(Nat), e \in Seq(Nat) :
        s = Starts(beg, t) /\ e = Starts(t, l) /\ Starts(beg, l) = s \o e
  <2>1. /\ Starts(beg, l) = Starts(beg, t) \o Starts(t, l)
        /\ Starts(beg, t) \in Seq(Nat) /\ Starts(t, l) \in Seq(Nat)
    BY <1>2, StartsJoin
  <2> QED BY <2>1
<1>4. /\ Len(s \o e) = Len(s) + Len(e) /\ Len(s) \in Nat /\ Len(e) \in Nat
      /\ \A k \in 1 .. Len(s) : (s \o e)[k] = s[k]
  BY <1>3, ConcatAt, ConcatProperties
<1>5. Len(s) = n + 1 /\ n + 1 \in 1 .. Len(s)
  BY <1>1, <1>3
<1> QED BY <1>1, <1>3, <1>4, <1>5
-----------------------------------------------------------------------------
(* The calls of the BasketReader *)
BasketState(x, beg, st, hd, hr, fl, ft, co, bs, ls) ==
  /\ ReaderAt(x, beg) /\ BasketFlags(x, st, hd, hr, fl, ft)
  /\ Returned(beg, bs, ls, hd) /\ Position(x, beg, st, fl, co, Len(bs))

BasketInv ==
  BasketState(source, begun, step, header, headerResolved, failed, fatal, collected, baskets, last)

BasketOK ==
  BasketState(source', begun', step', header', headerResolved', failed', fatal', collected',
              baskets', last')

LEMMA BasketStarts == ASSUME IsInput(script), BasketInit PROVE BasketInv
<1>1. PICK finishCalled \in BOOLEAN :
        \E r \in Pumped([FreshReader EXCEPT !.finishCalled = finishCalled]) :
          \E n \in {0} \cup Waiting(r) : ~r.failed /\ source = Popped(r, n) /\ begun = n
  BY DEF BasketInit
<1>2. PICK y \in ReaderState : /\ y = [FreshReader EXCEPT !.finishCalled = finishCalled]
                               /\ ~y.failed /\ y.taken = 0 /\ y.parsed = 0
  <2>1. /\ FreshReader \in ReaderState /\ ~FreshReader.failed
        /\ FreshReader.taken = 0 /\ FreshReader.parsed = 0
    BY DEF FreshReader, ReaderState
  <2>2. PICK z : z = [FreshReader EXCEPT !.finishCalled = finishCalled]
    OBVIOUS
  <2>3. z \in ReaderState /\ ~z.failed /\ z.taken = 0 /\ z.parsed = 0
    BY <2>1, <2>2 DEF ReaderState
  <2> QED BY <2>2, <2>3
<1>3. PICK r \in Pumped(y) : \E n \in {0} \cup Waiting(r) :
        ~r.failed /\ source = Popped(r, n) /\ begun = n
  BY <1>1, <1>2
<1>4. PICK n \in {0} \cup Waiting(r) : ~r.failed /\ source = Popped(r, n) /\ begun = n
  BY <1>3
<1>5. script \in Seq(ItemKind) /\ Len(script) \in Nat
  BY DEF IsInput
<1>6. /\ r \in ReaderState /\ r.parsed \in Nat /\ r.parsed <= Len(script) /\ r.taken = 0
  <2>1. PumpOutcome(y, r)
    BY <1>2, <1>3, <1>5, PumpGets
  <2> QED BY <1>2, <1>5, <2>1 DEF PumpOutcome, NoFaultTo, ReaderState
<1>7. n \in Nat /\ n <= r.parsed
  BY <1>4, <1>6 DEF Waiting
<1>8. source \in ReaderState /\ source.taken = n /\ source.parsed = r.parsed
  BY <1>4, <1>6, <1>7 DEF Popped, ReaderState
<1>9. ReaderAt(source, begun)
  BY <1>4, <1>5, <1>6, <1>7, <1>8 DEF ReaderAt
<1>10. Len(Starts(begun, source.taken)) = 0
  BY <1>4, <1>7, <1>8, NoItems DEF Starts
<1>11. Len(baskets) = 0 /\ baskets \in Seq(Seq(Nat)) /\ DOMAIN baskets = {}
  BY DEF BasketInit
<1>12. Len(Starts(begun, Len(script))) \in Nat
  <2>1. begun <= Len(script) /\ Len(script) <= Len(script)
    BY <1>4, <1>5, <1>6, <1>7
  <2> QED BY <1>4, <1>5, <1>7, <2>1, ItemsType DEF Starts
<1>13. Returned(begun, baskets, last, header)
  BY <1>11, <1>12 DEF Returned, BasketInit
<1>14. /\ BasketFlags(source, step, header, headerResolved, failed, fatal)
       /\ Position(source, begun, step, failed, collected, Len(baskets))
  BY <1>10, <1>11 DEF BasketFlags, Position, BasketInit
<1> QED BY <1>9, <1>13, <1>14 DEF BasketInv, BasketState

LEMMA ReadBasketOK == ASSUME IsInput(script), BasketInv, ReadBasket PROVE BasketOK
<1>1. /\ ReaderAt(source, begun) /\ BasketFlags(source, step, header, headerResolved, failed, fatal)
      /\ Returned(begun, baskets, last, header)
      /\ Position(source, begun, step, failed, collected, Len(baskets))
  BY DEF BasketInv, BasketState
<1>2. /\ UNCHANGED <<source, begun, header, failed, fatal, collected, baskets>> /\ step = "idle"
      /\ step' \in {"idle", "header", "first"} /\ (last' = last \/ last' = "failed")
  BY DEF ReadBasket
<1>3. BasketFlags(source, step', header, headerResolved', failed, fatal)
  BY <1>1 DEF BasketFlags, ReadBasket
<1>4. Returned(begun, baskets, last', header)
  BY <1>1, <1>2 DEF Returned
<1>5. Position(source, begun, step', failed, collected, Len(baskets))
  BY <1>1, <1>2 DEF Position
<1> QED BY <1>1, <1>2, <1>3, <1>4, <1>5 DEF BasketOK, BasketState

\* What a call that throws leaves.
LEMMA ThrowsOK ==
  ASSUME script \in Seq(ItemKind), BasketInv, NEW o \in NextOf(source), o.progress = "Threw",
         step \in {"header", "first", "collect"}, source' = o.reader, Throws,
         UNCHANGED <<begun, header, headerResolved, baskets>>
  PROVE  BasketOK
<1>1. /\ ReaderAt(source, begun) /\ BasketFlags(source, step, header, headerResolved, failed, fatal)
      /\ Returned(begun, baskets, last, header)
  BY DEF BasketInv, BasketState
<1>2. o.reader.failed /\ ReaderAt(o.reader, begun)
  <2>1. CASE source.failed
    <3>1. o.reader = source
      BY <2>1 DEF NextOf, Threw, Outcome
    <3> QED BY <1>1, <2>1, <3>1
  <2>2. CASE ~source.failed
    BY <1>1, <2>2, ReaderMoves DEF NextOutcome
  <2> QED BY <2>1, <2>2
<1>3. step' = "idle" /\ last' = "threw" /\ fatal' = fatal /\ failed' = failed
  BY DEF Throws, CallEnds
<1>4. BasketFlags(o.reader, "idle", header, headerResolved, failed, fatal)
  BY <1>1, <1>2 DEF BasketFlags
<1>5. Returned(begun, baskets, "threw", header)
  BY <1>1 DEF Returned
<1>6. Position(o.reader, begun, "idle", failed, collected', Len(baskets))
  BY <1>2 DEF Position
<1> QED BY <1>2, <1>3, <1>4, <1>5, <1>6 DEF BasketOK, BasketState

\* What a call leaves that reports an error of its own.
LEMMA FatalOK ==
  ASSUME script \in Seq(ItemKind), BasketInv, NEW o \in NextOf(source), o.progress # "Threw",
         step \in {"header", "first", "collect"}, source' = o.reader,
         NEW n \in {1, 2}, AddFatal(n), UNCHANGED <<begun, header, headerResolved, baskets>>
  PROVE  BasketOK
<1>1. /\ ReaderAt(source, begun) /\ BasketFlags(source, step, header, headerResolved, failed, fatal)
      /\ Returned(begun, baskets, last, header)
  BY DEF BasketInv, BasketState
<1>2. ReaderAt(o.reader, begun)
  <2>1. ~source.failed
    BY DEF NextOf, Threw, Outcome
  <2> QED BY <1>1, <2>1, ReaderMoves
<1>3. step' = "idle" /\ last' = "failed" /\ fatal' = fatal + n /\ failed' = TRUE
  BY DEF AddFatal, CallEnds
<1>4. BasketFlags(o.reader, "idle", header, headerResolved, TRUE, fatal + n)
  BY <1>1 DEF BasketFlags
<1>5. Returned(begun, baskets, "failed", header)
  BY <1>1 DEF Returned
<1>6. Position(o.reader, begun, "idle", TRUE, collected', Len(baskets))
  BY DEF Position
<1> QED BY <1>2, <1>3, <1>4, <1>5, <1>6 DEF BasketOK, BasketState

\* The reader that has returned something is where it was, or further.
LEMMA NotThrown ==
  ASSUME script \in Seq(ItemKind), BasketInv, NEW o \in NextOf(source), o.progress # "Threw"
  PROVE  /\ ~source.failed /\ NextOutcome(source, o) /\ ReaderAt(o.reader, begun)
         /\ ~o.reader.failed
<1>1. ~source.failed
  BY DEF NextOf, Threw, Outcome
<1>2. NextOutcome(source, o) /\ ReaderAt(o.reader, begun)
  BY <1>1, ReaderMoves DEF BasketInv, BasketState
<1> QED BY <1>1, <1>2 DEF NextOutcome

LEMMA ResolveHeaderOK == ASSUME IsInput(script), BasketInv, ResolveHeader PROVE BasketOK
<1>1. PICK o \in NextOf(source) :
        /\ source' = o.reader
        /\ \/ o.progress = "Threw" /\ Throws /\ UNCHANGED header
           \/ /\ o.progress = "Event" /\ script[o.event] = "StartTransfer"
              /\ header' = o.event /\ step' = "first"
              /\ UNCHANGED <<fatal, failed, collected, last>>
           \/ o.progress = "NeedInput" /\ AddFatal(2) /\ UNCHANGED header
           \/ o.progress = "End" /\ AddFatal(1) /\ UNCHANGED header
           \/ /\ o.progress = "Event" /\ script[o.event] # "StartTransfer"
              /\ AddFatal(1) /\ UNCHANGED header
  BY DEF ResolveHeader
<1>2. step = "header" /\ UNCHANGED <<begun, headerResolved, baskets>> /\ script \in Seq(ItemKind)
  BY DEF ResolveHeader, IsInput
<1>3. CASE o.progress = "Threw" /\ Throws /\ UNCHANGED header
  BY <1>1, <1>2, <1>3, ThrowsOK
<1>4. CASE o.progress = "NeedInput" /\ AddFatal(2) /\ UNCHANGED header
  BY <1>1, <1>2, <1>4, FatalOK
<1>5. CASE o.progress \in {"End", "Event"} /\ AddFatal(1) /\ UNCHANGED header
  BY <1>1, <1>2, <1>5, FatalOK
<1>6. CASE /\ o.progress = "Event" /\ script[o.event] = "StartTransfer"
           /\ header' = o.event /\ step' = "first"
           /\ UNCHANGED <<fatal, failed, collected, last>>
  <2>1. /\ BasketFlags(source, step, header, headerResolved, failed, fatal)
        /\ Returned(begun, baskets, last, header) /\ ReaderAt(source, begun)
        /\ Position(source, begun, step, failed, collected, Len(baskets))
    BY DEF BasketInv, BasketState
  <2>2. /\ ~source.failed /\ NextOutcome(source, o) /\ ReaderAt(o.reader, begun)
        /\ ~o.reader.failed
    BY <1>2, <1>6, NotThrown
  <2>3. Starts(begun, o.reader.taken) = Starts(begun, source.taken)
    BY <1>6, <2>1, <2>2, StartsAt
  <2>4. o.event # 0
    BY <1>6, <2>1, <2>2 DEF NextOutcome, ReaderAt, ReaderState
  <2>5. BasketFlags(o.reader, "first", o.event, headerResolved, failed, fatal)
    BY <1>2, <2>1, <2>4 DEF BasketFlags
  <2>6. Position(o.reader, begun, "first", failed, collected, Len(baskets))
    BY <1>2, <2>1, <2>2, <2>3 DEF Position
  <2>7. Returned(begun, baskets, last, o.event)
    BY <2>1, <2>4 DEF Returned
  <2> QED BY <1>1, <1>2, <1>6, <2>2, <2>5, <2>6, <2>7 DEF BasketOK, BasketState
<1> QED BY <1>1, <1>3, <1>4, <1>5, <1>6

LEMMA FirstEventOK == ASSUME IsInput(script), BasketInv, FirstEvent PROVE BasketOK
<1>1. PICK o \in NextOf(source) :
        /\ source' = o.reader
        /\ \/ o.progress = "Threw" /\ Throws
           \/ o.progress = "NeedInput" /\ AddFatal(1)
           \/ o.progress = "End" /\ CallEnds("no more") /\ UNCHANGED <<fatal, failed>>
           \/ /\ o.progress = "Event" /\ script[o.event] = "EndTransfer"
              /\ CallEnds("no more") /\ UNCHANGED <<fatal, failed>>
           \/ /\ o.progress = "Event" /\ script[o.event] = "StartBasket"
              /\ collected' = <<o.event>> /\ step' = "collect"
              /\ UNCHANGED <<fatal, failed, last>>
           \/ /\ o.progress = "Event" /\ script[o.event] \notin {"EndTransfer", "StartBasket"}
              /\ AddFatal(1)
  BY DEF FirstEvent
<1>2. /\ step = "first" /\ UNCHANGED <<begun, header, headerResolved, baskets>>
      /\ script \in Seq(ItemKind)
  BY DEF FirstEvent, IsInput
<1>3. /\ BasketFlags(source, step, header, headerResolved, failed, fatal)
      /\ Returned(begun, baskets, last, header) /\ ReaderAt(source, begun)
      /\ Position(source, begun, step, failed, collected, Len(baskets))
  BY DEF BasketInv, BasketState
<1>4. CASE o.progress = "Threw" /\ Throws
  BY <1>1, <1>2, <1>4, ThrowsOK
<1>5. CASE o.progress \in {"NeedInput", "Event"} /\ AddFatal(1)
  BY <1>1, <1>2, <1>5, FatalOK
<1>6. ASSUME o.progress # "Threw"
      PROVE  /\ ~source.failed /\ NextOutcome(source, o) /\ ReaderAt(o.reader, begun)
             /\ ~o.reader.failed /\ header # 0 /\ ~failed
             /\ Len(Starts(begun, source.taken)) = Len(baskets)
  <2>1. /\ ~source.failed /\ NextOutcome(source, o) /\ ReaderAt(o.reader, begun)
        /\ ~o.reader.failed
    BY <1>2, <1>6, NotThrown
  <2> QED BY <1>2, <1>3, <2>1 DEF BasketFlags, Position
<1>7. CASE /\ \/ o.progress = "End"
              \/ o.progress = "Event" /\ script[o.event] = "EndTransfer"
           /\ CallEnds("no more") /\ UNCHANGED <<fatal, failed>>
  <2>1. /\ Starts(begun, Len(script)) = Starts(begun, source.taken)
        /\ o.progress = "Event" => Starts(begun, o.reader.taken) = Starts(begun, source.taken)
    <3>1. NextOutcome(source, o) /\ o.progress \in {"End", "Event"}
      BY <1>6, <1>7
    <3>2. CASE o.progress = "End"
      BY <1>3, <3>1, <3>2, StartsAt
    <3>3. CASE o.progress = "Event" /\ script[o.event] = "EndTransfer"
      <4>1. script[o.event] # "StartBasket"
        BY <3>3
      <4> QED BY <1>3, <3>1, <3>3, <4>1, StartsAt
    <3> QED BY <1>7, <3>2, <3>3
  <2>2. o.progress = "End" => o.reader.taken = source.taken
    BY <1>6, <1>7 DEF NextOutcome
  <2>3. Returned(begun, baskets, "no more", header)
    BY <1>3, <1>6, <1>7, <2>1 DEF Returned
  <2>4. Position(o.reader, begun, "idle", failed, <<>>, Len(baskets))
    BY <1>6, <1>7, <2>1, <2>2 DEF Position
  <2>5. BasketFlags(o.reader, "idle", header, headerResolved, failed, fatal)
    BY <1>3, <1>6, <1>7 DEF BasketFlags
  <2>6. step' = "idle" /\ collected' = <<>> /\ last' = "no more"
    BY <1>7 DEF CallEnds
  <2> QED BY <1>1, <1>2, <1>6, <1>7, <2>3, <2>4, <2>5, <2>6 DEF BasketOK, BasketState
<1>8. CASE /\ o.progress = "Event" /\ script[o.event] = "StartBasket"
           /\ collected' = <<o.event>> /\ step' = "collect"
           /\ UNCHANGED <<fatal, failed, last>>
  <2>1. PICK i \in Nat, u \in Nat, s \in Seq(Nat) :
          /\ i = o.event /\ u = o.reader.taken /\ s = Starts(begun, source.taken)
    <3>1. o.event \in Nat /\ o.reader.taken \in Nat
      BY <1>6, <1>8 DEF NextOutcome, ReaderState
    <3>2. Starts(begun, source.taken) \in Seq(Nat)
      BY <1>2, <1>3, NumbersAt, ItemsType DEF Starts
    <3> QED BY <3>1, <3>2
  <2>2. i = u /\ Starts(begun, u) = Append(s, i)
    <3>1. o.event = o.reader.taken
      BY <1>6, <1>8 DEF NextOutcome
    <3>2. Starts(begun, o.reader.taken) = Append(Starts(begun, source.taken), o.event)
      BY <1>3, <1>6, <1>8, StartsAt
    <3> QED BY <2>1, <3>1, <3>2
  <2>3. PICK n \in Nat : n = Len(s) /\ n = Len(baskets)
    BY <1>6, <1>8, <2>1
  <2>4. Len(Append(s, i)) = n + 1 /\ Append(s, i)[n + 1] = i
    <3>1. Len(Append(s, i)) = Len(s) + 1 /\ Append(s, i)[Len(s) + 1] = i
      BY AppendProperties
    <3> QED BY <2>3, <3>1
  <2>5. EventsIn(i, u) = <<>> /\ DOMAIN EventsIn(i, u) = {} /\ <<i>> \o EventsIn(i, u) = <<i>>
    <3>1. EventsIn(i, u) = <<>>
      BY <2>2, NoItems DEF EventsIn
    <3>2. <<i>> \in Seq(Nat)
      BY OneItem
    <3> QED BY <3>1, <3>2, EmptySide
  <2>6. Len(<<i>>) - 1 = 0
    OBVIOUS
  <2>7. Collecting(begun, u, <<i>>, n)
    <3>1. MaxObjects = 0 \/ Len(<<i>>) - 1 <= MaxObjects
      BY <2>6, MaxObjectsAssumption
    <3>2. i <= u
      BY <2>2
    <3>3. Len(Starts(begun, u)) = n + 1 /\ Starts(begun, u)[n + 1] = i
      BY <2>2, <2>4
    <3> QED BY <2>5, <3>1, <3>2, <3>3 DEF Collecting
  <2>8. Position(o.reader, begun, "collect", failed, <<i>>, Len(baskets))
    BY <1>6, <1>8, <2>1, <2>3, <2>7 DEF Position
  <2>9. BasketFlags(o.reader, "collect", header, headerResolved, failed, fatal)
    BY <1>2, <1>3, <1>6, <1>8 DEF BasketFlags
  <2> QED BY <1>1, <1>2, <1>3, <1>6, <1>8, <2>1, <2>8, <2>9 DEF BasketOK, BasketState
<1> QED BY <1>1, <1>4, <1>5, <1>7, <1>8

LEMMA CollectOK == ASSUME IsInput(script), BasketInv, Collect PROVE BasketOK
<1>1. PICK o \in NextOf(source) :
        /\ source' = o.reader
        /\ \/ o.progress = "Threw" /\ Throws /\ UNCHANGED baskets
           \/ CutsOff(o) /\ AddFatal(1) /\ UNCHANGED baskets
           \/ /\ o.progress = "Event" /\ script[o.event] = "Object" /\ ~TooMany
              /\ collected' = Append(collected, o.event)
              /\ UNCHANGED <<fatal, failed, step, last, baskets>>
           \/ /\ o.progress = "Event" /\ script[o.event] = "EndBasket"
              /\ baskets' = Append(baskets, collected) /\ CallEnds("basket")
              /\ UNCHANGED <<fatal, failed>>
  BY DEF Collect
<1>2. /\ step = "collect" /\ UNCHANGED <<begun, header, headerResolved>>
      /\ script \in Seq(ItemKind)
  BY DEF Collect, IsInput
<1>3. /\ BasketFlags(source, step, header, headerResolved, failed, fatal)
      /\ Returned(begun, baskets, last, header) /\ ReaderAt(source, begun)
      /\ Position(source, begun, step, failed, collected, Len(baskets))
  BY DEF BasketInv, BasketState
<1>4. CASE o.progress = "Threw" /\ Throws /\ UNCHANGED baskets
  BY <1>1, <1>2, <1>4, ThrowsOK
<1>5. CASE CutsOff(o) /\ AddFatal(1) /\ UNCHANGED baskets
  <2>1. o.progress # "Threw"
    BY <1>5 DEF CutsOff
  <2> QED BY <1>1, <1>2, <1>5, <2>1, FatalOK
<1>6. PICK t \in Nat, n \in Nat : t = source.taken /\ n = Len(baskets) /\ t <= Len(script)
  <2>1. source.taken \in Nat /\ source.taken <= Len(script)
    BY <1>2, <1>3, NumbersAt
  <2>2. baskets \in Seq(Seq(Nat))
    BY <1>3 DEF Returned
  <2> QED BY <2>1, <2>2
<1>7. PICK i \in Nat :
        /\ i <= t /\ Len(Starts(begun, t)) = n + 1 /\ Starts(begun, t)[n + 1] = i
        /\ collected = <<i>> \o EventsIn(i, t)
        /\ \A k \in DOMAIN EventsIn(i, t) : script[EventsIn(i, t)[k]] = "Object"
        /\ MaxObjects = 0 \/ Len(collected) - 1 <= MaxObjects
  BY <1>2, <1>3, <1>6 DEF Position, Collecting
<1>8. PICK c \in Seq(Nat) : c = EventsIn(i, t) /\ DOMAIN c = 1 .. Len(c)
  BY <1>2, <1>6, <1>7, ItemsType DEF EventsIn
<1>9. PICK b \in Seq(Nat) : b = <<i>> /\ Len(b) = 1
  <2>1. <<i>> \in Seq(Nat) /\ Len(<<i>>) = 1
    BY OneItem
  <2> QED BY <2>1
<1>10. collected = b \o c /\ collected \in Seq(Nat) /\ Len(collected) = 1 + Len(c)
  <2>1. b \o c \in Seq(Nat) /\ Len(b \o c) = Len(b) + Len(c)
    BY ConcatProperties
  <2> QED BY <1>7, <1>8, <1>9, <2>1
<1>11. ASSUME o.progress = "Event"
       PROVE  /\ ~source.failed /\ NextOutcome(source, o) /\ ReaderAt(o.reader, begun)
              /\ ~o.reader.failed /\ ~failed /\ headerResolved /\ header # 0
              /\ o.event \in Nat /\ o.event = o.reader.taken /\ o.event > t
              /\ o.event <= Len(script) /\ EventsIn(t, o.event) = <<o.event>>
              /\ EventsIn(i, o.event) = Append(c, o.event)
              /\ script[o.event] # "StartBasket"
                   => Starts(begun, o.event) = Starts(begun, t)
  <2>1. /\ ~source.failed /\ NextOutcome(source, o) /\ ReaderAt(o.reader, begun)
        /\ ~o.reader.failed
    BY <1>2, <1>11, NotThrown
  <2>2. /\ o.event \in Nat /\ o.event = o.reader.taken /\ o.event > t
        /\ EventsIn(t, o.event) = <<o.event>>
    BY <1>6, <1>11, <2>1 DEF NextOutcome
  <2>3. o.event <= Len(script)
    BY <1>2, <2>1, <2>2, NumbersAt
  <2>4. EventsIn(i, o.event) = Append(c, o.event)
    <3>1. /\ script \in Seq(ItemKind) /\ ReaderAt(source, begun) /\ NextOutcome(source, o)
          /\ o.progress = "Event" /\ i <= source.taken
      BY <1>2, <1>3, <1>6, <1>7, <1>11, <2>1
    <3>2. EventsIn(i, o.reader.taken) = Append(EventsIn(i, source.taken), o.event)
      BY <3>1, FollowAt
    <3> QED BY <1>6, <1>8, <2>2, <3>2
  <2>5. script[o.event] # "StartBasket" => Starts(begun, o.event) = Starts(begun, t)
    BY <1>3, <1>6, <1>11, <2>1, <2>2, StartsAt
  <2>6. ~failed /\ headerResolved /\ header # 0
    BY <1>2, <1>3, <2>1 DEF BasketFlags
  <2> QED BY <2>1, <2>2, <2>3, <2>4, <2>5, <2>6
<1>12. CASE /\ o.progress = "Event" /\ script[o.event] = "Object" /\ ~TooMany
            /\ collected' = Append(collected, o.event)
            /\ UNCHANGED <<fatal, failed, step, last, baskets>>
  <2>1. PICK u \in Nat : u = o.event
    BY <1>11, <1>12
  <2>2. /\ ReaderAt(o.reader, begun) /\ ~o.reader.failed /\ u = o.reader.taken /\ u > t
        /\ EventsIn(i, u) = Append(c, u) /\ Starts(begun, u) = Starts(begun, t)
    BY <1>11, <1>12, <2>1
  <2>3. Append(collected, u) = b \o Append(c, u)
    BY <1>10, AppendBehind
  <2>4. \A k \in DOMAIN Append(c, u) : script[Append(c, u)[k]] = "Object"
    <3>1. /\ DOMAIN Append(c, u) = 1 .. Len(c) + 1 /\ Append(c, u)[Len(c) + 1] = u
          /\ \A k \in 1 .. Len(c) : Append(c, u)[k] = c[k]
      BY AppendProperties
    <3>2. \A k \in 1 .. Len(c) : script[c[k]] = "Object"
      BY <1>7, <1>8
    <3>3. \A k \in 1 .. Len(c) + 1 : k \in 1 .. Len(c) \/ k = Len(c) + 1
      OBVIOUS
    <3> QED BY <1>12, <2>1, <3>1, <3>2, <3>3
  <2>5. MaxObjects = 0 \/ Len(Append(collected, u)) - 1 <= MaxObjects
    <3>1. Len(Append(collected, u)) = Len(collected) + 1 /\ Len(collected) \in Nat
      BY <1>10, AppendProperties
    <3>2. MaxObjects = 0 \/ Len(collected) - 1 < MaxObjects
      BY <1>12, <3>1, MaxObjectsAssumption DEF TooMany
    <3> QED BY <3>1, <3>2, MaxObjectsAssumption
  <2>6. Collecting(begun, u, Append(collected, u), n)
    <3>1. i <= u /\ Len(Starts(begun, u)) = n + 1 /\ Starts(begun, u)[n + 1] = i
      BY <1>6, <1>7, <2>2
    <3>2. Append(collected, u) = <<i>> \o EventsIn(i, u)
      BY <1>9, <2>2, <2>3
    <3>3. \A k \in DOMAIN EventsIn(i, u) : script[EventsIn(i, u)[k]] = "Object"
      BY <2>2, <2>4
    <3> QED BY <2>5, <3>1, <3>2, <3>3 DEF Collecting
  <2>7. Position(o.reader, begun, "collect", failed, Append(collected, u), Len(baskets))
    BY <1>6, <2>2, <2>6 DEF Position
  <2>8. BasketFlags(o.reader, "collect", header, headerResolved, failed, fatal)
    BY <1>2, <1>3, <1>11, <1>12 DEF BasketFlags
  <2> QED BY <1>1, <1>2, <1>3, <1>12, <2>1, <2>2, <2>7, <2>8 DEF BasketOK, BasketState
<1>13. CASE /\ o.progress = "Event" /\ script[o.event] = "EndBasket"
            /\ baskets' = Append(baskets, collected) /\ CallEnds("basket")
            /\ UNCHANGED <<fatal, failed>>
  <2>1. PICK u \in Nat : u = o.event
    BY <1>11, <1>13
  <2>2. /\ ReaderAt(o.reader, begun) /\ ~o.reader.failed /\ u = o.reader.taken /\ t < u
        /\ u <= Len(script) /\ EventsIn(t, u) = <<u>> /\ Starts(begun, u) = Starts(begun, t)
    BY <1>11, <1>13, <2>1
  <2>3. BasketAt(i) = [whole |-> TRUE, items |-> collected]
    <3>1. BasketAt(i) = [whole |-> TRUE, items |-> <<i>> \o EventsIn(i, t)]
      BY <1>2, <1>7, <1>13, <2>1, <2>2, WholeBasket
    <3> QED BY <1>7, <3>1
  <2>4. /\ n + 1 <= Len(Starts(begun, Len(script)))
        /\ Starts(begun, Len(script))[n + 1] = i
    BY <1>2, <1>3, <1>6, <1>7, StartKnown
  <2>5. PICK bs \in Seq(Seq(Nat)) : bs = Append(baskets, collected)
    <3>1. baskets \in Seq(Seq(Nat))
      BY <1>3 DEF Returned
    <3> QED BY <1>10, <3>1, AppendProperties
  <2>6. /\ Len(bs) = n + 1 /\ DOMAIN bs = 1 .. n + 1 /\ bs[n + 1] = collected
        /\ \A m \in 1 .. n : bs[m] = baskets[m]
        /\ DOMAIN baskets = 1 .. n
    <3>1. baskets \in Seq(Seq(Nat))
      BY <1>3 DEF Returned
    <3>2. DOMAIN baskets = 1 .. Len(baskets)
      BY <3>1
    <3> QED BY <1>6, <1>10, <2>5, <3>1, <3>2, AppendProperties
  <2>7. \A m \in DOMAIN bs : BasketIs(Starts(begun, Len(script))[m], bs[m])
    <3>1. BasketIs(Starts(begun, Len(script))[n + 1], bs[n + 1])
      BY <1>7, <2>3, <2>4, <2>6 DEF BasketIs
    <3>2. \A m \in 1 .. n : BasketIs(Starts(begun, Len(script))[m], bs[m])
      BY <1>3, <2>6 DEF Returned
    <3>3. \A m \in 1 .. n + 1 : m \in 1 .. n \/ m = n + 1
      OBVIOUS
    <3> QED BY <2>6, <3>1, <3>2, <3>3
  <2>8. Returned(begun, bs, "basket", header)
    BY <2>4, <2>6, <2>7 DEF Returned
  <2>9. Position(o.reader, begun, "idle", failed, <<>>, n + 1)
    BY <1>7, <2>2 DEF Position
  <2>10. BasketFlags(o.reader, "idle", header, headerResolved, failed, fatal)
    BY <1>2, <1>3, <1>11, <1>13 DEF BasketFlags
  <2>11. step' = "idle" /\ collected' = <<>> /\ last' = "basket" /\ baskets' = bs /\ Len(bs) = n + 1
    BY <1>13, <2>5, <2>6 DEF CallEnds
  <2> QED BY <1>1, <1>2, <1>13, <2>2, <2>8, <2>9, <2>10, <2>11 DEF BasketOK, BasketState
<1> QED BY <1>1, <1>4, <1>5, <1>12, <1>13

\* The input does not change.
LEMMA SameScript == ASSUME BasketOK, UNCHANGED script PROVE BasketInv'
<1>1. /\ ReaderAt(source', begun')
      /\ BasketFlags(source', step', header', headerResolved', failed', fatal')
      /\ Returned(begun', baskets', last', header')
      /\ Position(source', begun', step', failed', collected', Len(baskets'))
  BY DEF BasketOK, BasketState
<1>2. /\ \A m, n : ItemsOf({"StartBasket"}, m, n)' = ItemsOf({"StartBasket"}, m, n)
      /\ \A m, n : EventsIn(m, n)' = EventsIn(m, n)
  BY DEF ItemsOf, EventsIn
<1>3. \A i : BasketAt(i)' = BasketAt(i)
  BY <1>2 DEF BasketAt, EventsIn, ItemsOf
<1>4. \A i, s : BasketIs(i, s)' <=> BasketIs(i, s)
  BY <1>3 DEF BasketIs
<1>5. ReaderAt(source, begun)'
  BY <1>1 DEF ReaderAt, ReaderState
<1>6. BasketFlags(source, step, header, headerResolved, failed, fatal)'
  BY <1>1 DEF BasketFlags
<1>7. Returned(begun, baskets, last, header)'
  BY <1>1, <1>2, <1>4 DEF Returned, Starts
<1>8. Position(source, begun, step, failed, collected, Len(baskets))'
  BY <1>1, <1>2 DEF Position, Collecting, Starts
<1> QED BY <1>5, <1>6, <1>7, <1>8 DEF BasketInv, BasketState

LEMMA BasketInvHolds == BasketSpec => [](IsInput(script) /\ BasketInv)
<1>1. ASSUME IsInput(script), BasketInv, BasketNext, UNCHANGED script
      PROVE  IsInput(script)' /\ BasketInv'
  <2>1. BasketOK
    BY <1>1, ReadBasketOK, ResolveHeaderOK, FirstEventOK, CollectOK DEF BasketNext
  <2>2. IsInput(script)'
    BY <1>1 DEF IsInput
  <2> QED BY <1>1, <2>1, <2>2, SameScript
<1>2. ASSUME IsInput(script), BasketInv, UNCHANGED <<script, basketVars>>
      PROVE  IsInput(script)' /\ BasketInv'
  <2>1. BasketOK /\ UNCHANGED script
    BY <1>2 DEF basketVars, BasketInv, BasketOK
  <2>2. IsInput(script)'
    BY <1>2 DEF IsInput
  <2> QED BY <2>1, <2>2, SameScript
<1> QED BY <1>1, <1>2, BasketStarts, PTL DEF BasketSpec

\* For every input and limit, wherever the reader stands when the BasketReader takes it over: the
\* baskets it returns are those of the input, whole, in order and from the first one that starts
\* behind that place; it says that there are no more only behind the last of them, and what a
\* failed call had collected is never returned.
THEOREM BasketsAreWhole == BasketSpec => []BasketsWhole
<1>1. BasketInv => BasketsWhole
  BY DEF BasketInv, BasketState, BasketFlags, Returned, BasketIs, Starts, BasketsWhole
<1> QED BY <1>1, BasketInvHolds, PTL
-----------------------------------------------------------------------------
(* The model layer: sequences *)
LEMMA SequenceOf ==
  ASSUME NEW T, NEW s \in Seq(T)
  PROVE  IsSequence(s) /\ ToSet(s) \subseteq T
<1>1. \A i \in 1 .. Len(s) : s[i] \in T
  BY ElementOfSeq
<1>2. DOMAIN s = 1 .. Len(s) /\ Len(s) \in Nat /\ s = [i \in 1 .. Len(s) |-> s[i]]
  OBVIOUS
<1>3. ToSet(s) \subseteq T
  BY <1>1, <1>2 DEF ToSet
<1>4. \A i \in 1 .. Len(s) : s[i] \in ToSet(s)
  BY <1>2 DEF ToSet
<1>5. IsSequence(s)
  <2>1. s \in [1 .. Len(s) -> ToSet(s)]
    BY <1>2, <1>4, SMTT(30)
  <2>2. s \in UNION {[1 .. n -> ToSet(s)] : n \in Nat}
    BY <1>2, <2>1
  <2>3. s \in Seq(ToSet(s))
    BY <2>2, SeqDef, Zenon
  <2> QED BY <2>3 DEF IsSequence
<1> QED BY <1>3, <1>5

LEMMA OnlyElements ==
  ASSUME NEW T, NEW s \in Seq(T), NEW S
  PROVE  /\ Only(s, S) \in Seq(T)
         /\ ToSet(Only(s, S)) = ToSet(s) \cap S
<1>1. PICK f \in [0 .. Len(s) -> Seq(T)] : OnlyRunOf(f, s, S)
  BY OnlyRun
<1> DEFINE R == {n \in Nat : ToSet(f[n]) = {s[i] : i \in 1 .. n} \cap S}
<1>2. Len(s) \in Nat
  OBVIOUS
<1>3. 0 \in R
  <2>1. ToSet(<<>>) = {}
    BY DEF ToSet
  <2> QED BY <1>1, <2>1 DEF OnlyRunOf
<1>4. ASSUME NEW n \in 1 .. Len(s), n - 1 \in R  PROVE n \in R
  <2>1. n - 1 \in 0 .. Len(s) /\ n \in Nat /\ 1 .. n = (1 .. n - 1) \cup {n}
    BY <1>2
  <2>2. f[n - 1] \in Seq(T) /\ s[n] \in T
    BY <2>1, ElementOfSeq
  <2>3. f[n] = IF s[n] \in S THEN Append(f[n - 1], s[n]) ELSE f[n - 1]
    BY <1>1 DEF OnlyRunOf
  <2>4. ToSet(f[n - 1]) = {s[i] : i \in 1 .. n - 1} \cap S
    BY <1>4
  <2>5. {s[i] : i \in 1 .. n} = {s[i] : i \in 1 .. n - 1} \cup {s[n]}
    BY <2>1
  <2>6. ToSet(Append(f[n - 1], s[n])) = ToSet(f[n - 1]) \cup {s[n]}
    <3> DEFINE q == f[n - 1]
               a == Append(q, s[n])
    <3>1. /\ Len(q) \in Nat /\ DOMAIN q = 1 .. Len(q) /\ DOMAIN a = (1 .. Len(q)) \cup {Len(q) + 1}
          /\ a[Len(q) + 1] = s[n] /\ \A i \in 1 .. Len(q) : a[i] = q[i]
      BY <2>2, AppendProperties
    <3> HIDE DEF q, a
    <3>2. ToSet(a) = ToSet(q) \cup {s[n]}
      BY <3>1 DEF ToSet
    <3> QED BY <3>2 DEF a, q
  <2>7. ToSet(f[n]) = {s[i] : i \in 1 .. n} \cap S
    <3>1. CASE s[n] \in S
      BY <2>3, <2>4, <2>5, <2>6, <3>1
    <3>2. CASE s[n] \notin S
      BY <2>3, <2>4, <2>5, <3>2
    <3> QED BY <3>1, <3>2
  <2> QED BY <2>1, <2>7
<1>5. Len(s) \in R
  <2> HIDE DEF R
  <2>1. \A n \in 0 .. Len(s) : n \in R
    BY <1>2, <1>3, <1>4, RangeInduction
  <2> QED BY <1>2, <2>1
<1>6. Only(s, S) = f[Len(s)] /\ f[Len(s)] \in Seq(T)
  BY <1>1, <1>2 DEF OnlyRunOf
<1>7. ToSet(s) = {s[i] : i \in 1 .. Len(s)}
  BY DEF ToSet
<1> QED BY <1>5, <1>6, <1>7

\* The sequences that FlattenSeq is defined with.
FlattenRunOf(f, s) ==
  /\ f[0] = <<>> /\ FlattenSeq(s) = f[Len(s)]
  /\ \A n \in 1 .. Len(s) : f[n] = f[n - 1] \o s[n]

LEMMA FlattenRun ==
  ASSUME NEW T, NEW s \in Seq(Seq(T))
  PROVE  \E f \in [0 .. Len(s) -> Seq(T)] : FlattenRunOf(f, s)
<1> DEFINE more == [p \in (1 .. Len(s)) \X Seq(T) |-> p[2] \o s[p[1]]]
           Def(f) == f = [i \in 1 .. Len(s) |-> IF i = 1 THEN s[i] ELSE f[i - 1] \o s[i]]
<1>1. Len(s) \in Nat /\ <<>> \in Seq(T)
  OBVIOUS
<1>2. \A n \in 1 .. Len(s) : s[n] \in Seq(T)
  BY ElementOfSeq
<1>3. CASE Len(s) = 0
  <2> DEFINE g == [n \in 0 .. Len(s) |-> <<>>]
  <2>1. s = <<>> /\ 0 .. Len(s) = {0} /\ 1 .. Len(s) = {}
    BY <1>3
  <2>2. FlattenSeq(s) = <<>>
    BY <1>3, <2>1 DEF FlattenSeq
  <2>3. g \in [0 .. Len(s) -> Seq(T)] /\ g[0] = <<>> /\ g[Len(s)] = <<>>
    BY <1>1, <2>1
  <2>4. FlattenRunOf(g, s)
    <3> HIDE DEF g
    <3> QED BY <2>1, <2>2, <2>3 DEF FlattenRunOf
  <2> QED BY <2>3, <2>4
<1>4. CASE Len(s) # 0
  <2>1. more \in [(1 .. Len(s)) \X Seq(T) -> Seq(T)]
    <3>1. ASSUME NEW q \in (1 .. Len(s)) \X Seq(T)  PROVE q[2] \o s[q[1]] \in Seq(T)
      BY <1>2, ConcatProperties
    <3> QED BY <3>1
  <2>2. PICK g : RunOf(g, <<>>, more, Len(s), Seq(T))
    <3>1. StepOn(more, Len(s), Seq(T))
      BY <2>1 DEF StepOn
    <3> HIDE DEF more
    <3> QED BY <1>1, <3>1, Recursion
  <2>3. g \in [0 .. Len(s) -> Seq(T)] /\ g[0] = <<>>
    BY <2>2 DEF RunOf
  <2>4. ASSUME NEW n \in 1 .. Len(s)  PROVE g[n] = g[n - 1] \o s[n]
    <3>1. n - 1 \in 0 .. Len(s)
      BY <1>1
    <3>2. g[n - 1] \in Seq(T)
      BY <2>3, <3>1
    <3>3. more[<<n, g[n - 1]>>] = g[n - 1] \o s[n]
      BY <3>2
    <3> HIDE DEF more
    <3> QED BY <2>2, <3>3 DEF RunOf
  <2> DEFINE h == [i \in 1 .. Len(s) |-> g[i]]
  <2>5. g[1] = s[1]
    <3>1. 1 \in 1 .. Len(s) /\ s[1] \in Seq(T) /\ 1 - 1 = 0
      BY <1>1, <1>2, <1>4
    <3>2. g[1] = g[0] \o s[1]
      BY <2>4, <3>1
    <3> QED BY <2>3, <3>1, <3>2, ConcatEmptySeq
  <2>6. Def(h)
    <3>1. ASSUME NEW i \in 1 .. Len(s)
          PROVE  g[i] = IF i = 1 THEN s[i] ELSE h[i - 1] \o s[i]
      <4>1. CASE i = 1
        BY <2>5, <4>1
      <4>2. CASE i # 1
        <5>1. i - 1 \in 1 .. Len(s)
          BY <1>1, <4>2
        <5>2. h[i - 1] = g[i - 1]
          BY <5>1
        <5> HIDE DEF h
        <5> QED BY <2>4, <4>2, <5>2
      <4> QED BY <4>1, <4>2
    <3> QED BY <3>1
  <2> DEFINE f == CHOOSE x : Def(x)
  <2>7. Def(f)
    <3> HIDE DEF Def, h
    <3> QED BY <2>6
  <2>8. FlattenSeq(s) = f[Len(s)]
    BY <1>4 DEF FlattenSeq, f
  <2> HIDE DEF f, h, more
  <2>9. \A i \in 1 .. Len(s) : f[i] = IF i = 1 THEN s[i] ELSE f[i - 1] \o s[i]
    BY <2>7
  <2> DEFINE R == {n \in Nat : n = 0 \/ f[n] = g[n]}
  <2>10. ASSUME NEW n \in 1 .. Len(s), n - 1 \in R  PROVE n \in R
    <3>1. CASE n = 1
      BY <2>5, <2>9, <3>1
    <3>2. CASE n # 1
      <4>1. f[n - 1] = g[n - 1] /\ n \in Nat
        BY <1>1, <2>10, <3>2
      <4>2. f[n] = f[n - 1] \o s[n] /\ g[n] = g[n - 1] \o s[n]
        BY <2>4, <2>9, <3>2
      <4> QED BY <4>1, <4>2
    <3> QED BY <3>1, <3>2
  <2>11. Len(s) \in R
    <3>1. 0 \in R
      OBVIOUS
    <3> HIDE DEF R
    <3>2. \A n \in 0 .. Len(s) : n \in R
      BY <1>1, <2>10, <3>1, RangeInduction
    <3> QED BY <1>1, <3>2
  <2>12. FlattenSeq(s) = g[Len(s)]
    BY <1>4, <2>8, <2>11
  <2>13. FlattenRunOf(g, s)
    BY <2>3, <2>4, <2>12 DEF FlattenRunOf
  <2> QED BY <2>3, <2>13
<1> QED BY <1>3, <1>4

\* The names of the attributes after those with one key were joined: some of the names before, in
\* their order.
NamesFrom(r, s, n) ==
  \E h \in [1 .. Len(r) -> 1 .. n] :
    /\ \A i, j \in 1 .. Len(r) : i < j => h[i] < h[j]
    /\ \A i \in 1 .. Len(r) : r[i].name = s[h[i]].name

LEMMA AppendedValues ==
  ASSUME NEW s, NEW r, IsSequence(r), NEW n \in Nat, n > 0, NamesFrom(r, s, n - 1)
  PROVE  IsSequence(AppendValues(r, s[n])) /\ NamesFrom(AppendValues(r, s[n]), s, n)
<1> DEFINE a == AppendValues(r, s[n])
           same == {i \in DOMAIN r : Key(r[i].name) = Key(s[n].name)}
           joined == [i \in DOMAIN r |->
                       IF i \in same THEN [r[i] EXCEPT !.values = @ \o s[n].values] ELSE r[i]]
<1>1. Len(r) \in Nat /\ DOMAIN r = 1 .. Len(r) /\ r \in Seq(ToSet(r))
  BY DEF IsSequence
<1>2. PICK h \in [1 .. Len(r) -> 1 .. n - 1] :
        /\ \A i, j \in 1 .. Len(r) : i < j => h[i] < h[j]
        /\ \A i \in 1 .. Len(r) : r[i].name = s[h[i]].name
  BY DEF NamesFrom
<1>3. \A i \in 1 .. Len(r) : h[i] \in 1 .. n - 1
  BY <1>2
<1>4. CASE same = {}
  <2>1. a = Append(r, s[n])
    BY <1>4 DEF AppendValues
  <2>2. r \in Seq(ToSet(r) \cup {s[n]})
    BY <1>1, SeqMonotonic
  <2>3. Append(r, s[n]) \in Seq(ToSet(r) \cup {s[n]})
    BY <2>2, AppendProperties
  <2>4. /\ Len(Append(r, s[n])) = Len(r) + 1 /\ Append(r, s[n])[Len(r) + 1] = s[n]
        /\ \A i \in 1 .. Len(r) : Append(r, s[n])[i] = r[i]
    BY <1>1, <2>2, AppendProperties
  <2>5. IsSequence(a)
    BY <2>1, <2>3, SequenceOf
  <2> DEFINE g == [i \in 1 .. Len(r) + 1 |-> IF i <= Len(r) THEN h[i] ELSE n]
  <2>6. g \in [1 .. Len(r) + 1 -> 1 .. n]
    BY <1>1, <1>3
  <2>7. ASSUME NEW i \in 1 .. Len(r) + 1, NEW j \in 1 .. Len(r) + 1, i < j
        PROVE  g[i] < g[j]
    <3>1. i \in 1 .. Len(r) /\ h[i] \in 1 .. n - 1
      BY <1>1, <1>3, <2>7
    <3>2. CASE j <= Len(r)
      BY <1>1, <1>2, <2>7, <3>1, <3>2
    <3>3. CASE ~ j <= Len(r)
      BY <1>1, <2>7, <3>1, <3>3
    <3> QED BY <3>2, <3>3
  <2>8. ASSUME NEW i \in 1 .. Len(r) + 1  PROVE a[i].name = s[g[i]].name
    <3>1. CASE i <= Len(r)
      <4>1. i \in 1 .. Len(r)
        BY <1>1, <3>1
      <4>2. a[i] = r[i] /\ g[i] = h[i]
        BY <2>1, <2>4, <3>1, <4>1
      <4> HIDE DEF a, g
      <4> QED BY <1>2, <4>1, <4>2
    <3>2. CASE ~ i <= Len(r)
      <4>1. i = Len(r) + 1
        BY <1>1, <3>2
      <4>2. a[i] = s[n] /\ g[i] = n
        BY <1>1, <2>1, <2>4, <4>1
      <4> HIDE DEF a, g
      <4> QED BY <4>2
    <3> QED BY <3>1, <3>2
  <2>9. Len(a) = Len(r) + 1
    BY <2>1, <2>4
  <2> HIDE DEF a, g
  <2>10. NamesFrom(a, s, n)
    BY <2>6, <2>7, <2>8, <2>9 DEF NamesFrom
  <2> QED BY <2>5, <2>10 DEF a
<1>5. CASE same # {}
  <2>1. a = joined
    BY <1>5 DEF AppendValues
  <2>2. DOMAIN joined = 1 .. Len(r)
    BY <1>1
  <2>3. ASSUME NEW i \in 1 .. Len(r)  PROVE joined[i].name = r[i].name
    BY <1>1
  <2> HIDE DEF joined, same, a
  <2>4. joined \in [1 .. Len(r) -> ToSet(joined)]
    <3>1. joined = [i \in 1 .. Len(r) |-> joined[i]]
      BY <2>2 DEF joined
    <3>2. \A i \in 1 .. Len(r) : joined[i] \in ToSet(joined)
      BY <2>2 DEF ToSet
    <3> QED BY <3>1, <3>2
  <2>5. joined \in Seq(ToSet(joined)) /\ Len(joined) = Len(r)
    <3>1. joined \in UNION {[1 .. k -> ToSet(joined)] : k \in Nat}
      BY <1>1, <2>4
    <3>2. joined \in Seq(ToSet(joined))
      BY <3>1, SeqDef, Zenon
    <3> QED BY <1>1, <2>2, <3>2, SMTT(30)
  <2>6. h \in [1 .. Len(r) -> 1 .. n]
    BY <1>2
  <2>7. NamesFrom(joined, s, n)
    BY <1>2, <2>3, <2>5, <2>6 DEF NamesFrom
  <2> QED BY <2>1, <2>5, <2>7 DEF IsSequence, a
<1> QED BY <1>4, <1>5

LEMMA AppendedNames ==
  ASSUME NEW s, IsSequence(s)
  PROVE  IsSequence(Appended(s)) /\ NamesFrom(Appended(s), s, Len(s))
<1> DEFINE Step(f, n) == IF n = 0 THEN <<>> ELSE AppendValues(f[n - 1], s[n])
           Def(f, k) == f = [n \in 0 .. k |-> Step(f, n)]
           Good == {k \in Nat : \E f : Def(f, k)}
<1>1. Len(s) \in Nat
  BY DEF IsSequence
<1>2. 0 \in Good
  <2>1. Def([n \in 0 .. 0 |-> <<>>], 0)
    OBVIOUS
  <2> QED BY <2>1
<1>3. ASSUME NEW k \in Good  PROVE k + 1 \in Good
  <2>1. k \in Nat
    OBVIOUS
  <2>2. PICK f : Def(f, k)
    OBVIOUS
  <2> DEFINE g == [n \in 0 .. k + 1 |-> IF n <= k THEN f[n] ELSE AppendValues(f[k], s[k + 1])]
  <2>3. ASSUME NEW n \in 0 .. k + 1  PROVE g[n] = Step(g, n)
    <3>1. CASE n = 0
      <4>1. g[n] = f[n] /\ f[n] = Step(f, n)
        BY <2>1, <2>2, <3>1
      <4> QED BY <3>1, <4>1
    <3>2. CASE n # 0 /\ n <= k
      <4>1. n \in 0 .. k /\ n - 1 \in 0 .. k + 1 /\ n - 1 <= k
        BY <2>1, <3>2
      <4>2. g[n] = f[n] /\ g[n - 1] = f[n - 1] /\ f[n] = Step(f, n)
        BY <2>2, <3>2, <4>1
      <4> HIDE DEF g
      <4> QED BY <3>2, <4>2
    <3>3. CASE n = k + 1
      <4>1. g[k] = f[k] /\ g[n] = AppendValues(f[k], s[k + 1]) /\ n - 1 = k /\ n # 0
        BY <2>1, <3>3
      <4> HIDE DEF g
      <4> QED BY <3>3, <4>1
    <3> QED BY <2>1, <3>1, <3>2, <3>3
  <2>4. Def(g, k + 1)
    <3>1. g = [n \in 0 .. k + 1 |-> g[n]]
      OBVIOUS
    <3> HIDE DEF g
    <3> QED BY <2>3, <3>1
  <2>5. \E x : Def(x, k + 1)
    <3> HIDE DEF Def, g
    <3> QED BY <2>4
  <2> QED BY <2>1, <2>5
<1>4. PICK g : Def(g, Len(s))
  <2>1. Good \in SUBSET Nat
    OBVIOUS
  <2> HIDE DEF Good
  <2>2. Good = Nat
    BY <1>2, <1>3, <2>1, NatSetInduction
  <2>3. Len(s) \in Good
    BY <1>1, <2>2
  <2> USE DEF Good
  <2> QED BY <2>3
<1> DEFINE f == CHOOSE x : Def(x, Len(s))
<1>5. Def(f, Len(s))
  <2> HIDE DEF Def
  <2> QED BY <1>4
<1>6. Appended(s) = f[Len(s)]
  BY DEF Appended, f
<1> HIDE DEF f
<1>7. /\ f[0] = <<>>
      /\ \A n \in 1 .. Len(s) : f[n] = AppendValues(f[n - 1], s[n])
  <2>1. \A n \in 0 .. Len(s) : f[n] = Step(f, n)
    BY <1>5
  <2>2. 0 \in 0 .. Len(s) /\ \A n \in 1 .. Len(s) : n \in 0 .. Len(s) /\ n # 0
    BY <1>1
  <2> QED BY <2>1, <2>2
<1> DEFINE R == {n \in Nat : IsSequence(f[n]) /\ NamesFrom(f[n], s, n)}
<1>8. 0 \in R
  <2>1. <<>> \in Seq(ToSet(<<>>)) /\ Len(<<>>) = 0
    OBVIOUS
  <2>2. NamesFrom(<<>>, s, 0)
    <3> DEFINE h == [i \in 1 .. Len(<<>>) |-> i]
    <3>1. 1 .. Len(<<>>) = {} /\ h \in [1 .. Len(<<>>) -> 1 .. 0]
      BY <2>1
    <3> HIDE DEF h
    <3> QED BY <3>1 DEF NamesFrom
  <2> QED BY <1>7, <2>1, <2>2 DEF IsSequence
<1>9. ASSUME NEW n \in 1 .. Len(s), n - 1 \in R  PROVE n \in R
  <2>1. n \in Nat /\ n > 0
    BY <1>1
  <2>2. IsSequence(f[n - 1]) /\ NamesFrom(f[n - 1], s, n - 1)
    BY <1>9
  <2>3. IsSequence(AppendValues(f[n - 1], s[n])) /\ NamesFrom(AppendValues(f[n - 1], s[n]), s, n)
    BY <2>1, <2>2, AppendedValues
  <2> QED BY <1>7, <2>1, <2>3
<1>10. Len(s) \in R
  <2> HIDE DEF R
  <2>1. \A n \in 0 .. Len(s) : n \in R
    BY <1>1, <1>8, <1>9, RangeInduction
  <2> QED BY <1>1, <2>1
<1> QED BY <1>6, <1>10

\* The transfer order.
Placed(r, order) ==
  \A i, j \in DOMAIN r : i < j => Place(r[i].name, order) <= Place(r[j].name, order)

LEMMA Ordering ==
  ASSUME NEW s, IsSequence(s), NEW order, IsSequence(order)
  PROVE  LET r == InTransferOrder(s, order)
         IN  IsSequence(r) /\ ToSet(r) \subseteq ToSet(s) /\ Placed(r, order)
<1> DEFINE N == Len(order) + 1
           T == ToSet(s)
           b == [i \in 1 .. N |-> At(i, s, order)]
<1>1. N \in Nat /\ N > 0 /\ s \in Seq(T)
  BY DEF IsSequence
<1>2. ASSUME NEW i \in 1 .. N
      PROVE  At(i, s, order) \in Seq(T) /\ \A a \in ToSet(At(i, s, order)) : Place(a.name, order) = i
  <2> DEFINE S == {a \in T : Place(a.name, order) = i}
  <2>1. Only(s, S) \in Seq(T) /\ ToSet(Only(s, S)) = ToSet(s) \cap S
    <3> HIDE DEF S, T
    <3> QED BY <1>1, OnlyElements
  <2>2. At(i, s, order) = Only(s, S)
    BY DEF At
  <2> QED BY <2>1, <2>2
<1>3. b \in Seq(Seq(T)) /\ Len(b) = N
  <2> HIDE DEF T
  <2>1. b \in [1 .. N -> Seq(T)]
    BY <1>2
  <2> HIDE DEF b
  <2>2. b \in UNION {[1 .. k -> Seq(T)] : k \in Nat}
    BY <1>1, <2>1
  <2>3. b \in Seq(Seq(T))
    BY <2>2, SeqDef, Zenon
  <2>4. DOMAIN b = 1 .. N
    BY <2>1
  <2> QED BY <1>1, <2>3, <2>4
<1>4. InTransferOrder(s, order) = FlattenSeq(b)
  BY DEF InTransferOrder
<1>5. \A i \in 1 .. N : b[i] = At(i, s, order)
  OBVIOUS
<1> HIDE DEF N, T, b
<1>6. PICK f \in [0 .. N -> Seq(T)] : FlattenRunOf(f, b)
  BY <1>3, FlattenRun
<1> DEFINE Upto(n) == \A i \in DOMAIN f[n] : Place(f[n][i].name, order) \in 1 .. n
           R == {n \in Nat : Upto(n) /\ Placed(f[n], order)}
<1>7. 0 \in R
  <2>1. f[0] = <<>> /\ DOMAIN f[0] = {}
    BY <1>6 DEF FlattenRunOf
  <2> QED BY <2>1 DEF Placed
<1>8. ASSUME NEW n \in 1 .. N, n - 1 \in R  PROVE n \in R
  <2>1. n \in Nat /\ n - 1 \in 0 .. N /\ n > 0
    BY <1>1
  <2> DEFINE p == f[n - 1]
             q == b[n]
             c == p \o q
  <2>2. p \in Seq(T) /\ q \in Seq(T) /\ f[n] = c
    BY <1>2, <1>3, <1>5, <1>6, <2>1 DEF FlattenRunOf
  <2>3. Upto(n - 1) /\ Placed(p, order)
    BY <1>8
  <2>4. \A i \in DOMAIN p : Place(p[i].name, order) \in 1 .. n - 1
    BY <2>3
  <2>5. \A i \in DOMAIN q : Place(q[i].name, order) = n
    <3>1. \A i \in DOMAIN q : q[i] \in ToSet(q)
      BY DEF ToSet
    <3> QED BY <1>2, <1>5, <3>1
  <2>6. Len(p) \in Nat /\ Len(q) \in Nat /\ DOMAIN p = 1 .. Len(p) /\ DOMAIN q = 1 .. Len(q)
    BY <2>2
  <2> HIDE DEF p, q
  <2>7. /\ DOMAIN c = 1 .. Len(p) + Len(q)
        /\ \A i \in 1 .. Len(p) : c[i] = p[i]
        /\ \A i \in Len(p) + 1 .. Len(p) + Len(q) : c[i] = q[i - Len(p)]
    BY <2>2, <2>6
  <2> HIDE DEF c
  <2>8. ASSUME NEW i \in DOMAIN c
        PROVE  /\ i <= Len(p) => i \in DOMAIN p /\ c[i] = p[i]
               /\ ~ i <= Len(p) => i - Len(p) \in DOMAIN q /\ c[i] = q[i - Len(p)]
    BY <2>6, <2>7
  <2>9. ASSUME NEW i \in DOMAIN c
        PROVE  /\ Place(c[i].name, order) \in 1 .. n
               /\ ~ i <= Len(p) => Place(c[i].name, order) = n
    <3>1. CASE i <= Len(p)
      <4>1. Place(p[i].name, order) \in 1 .. n - 1 /\ c[i] = p[i]
        BY <2>4, <2>8, <3>1
      <4> QED BY <2>1, <3>1, <4>1
    <3>2. CASE ~ i <= Len(p)
      <4>1. Place(q[i - Len(p)].name, order) = n /\ c[i] = q[i - Len(p)]
        BY <2>5, <2>8, <3>2
      <4> QED BY <2>1, <4>1
    <3> QED BY <3>1, <3>2
  <2>10. ASSUME NEW i \in DOMAIN c, NEW j \in DOMAIN c, i < j
         PROVE  Place(c[i].name, order) <= Place(c[j].name, order)
    <3>1. CASE j <= Len(p)
      <4>1. i <= Len(p)
        BY <2>6, <2>7, <2>10, <3>1
      <4>2. i \in DOMAIN p /\ j \in DOMAIN p /\ c[i] = p[i] /\ c[j] = p[j]
        BY <2>8, <3>1, <4>1
      <4> QED BY <2>3, <2>10, <4>2 DEF Placed
    <3>2. CASE ~ j <= Len(p)
      <4>1. Place(c[i].name, order) \in 1 .. n /\ Place(c[j].name, order) = n
        BY <2>9, <3>2
      <4> QED BY <2>1, <4>1
    <3> QED BY <3>1, <3>2
  <2>11. Upto(n)
    BY <2>2, <2>9
  <2>12. Placed(f[n], order)
    BY <2>2, <2>10 DEF Placed
  <2> QED BY <2>1, <2>11, <2>12
<1>9. N \in R
  <2> HIDE DEF R
  <2>1. \A n \in 0 .. N : n \in R
    BY <1>1, <1>7, <1>8, RangeInduction
  <2> QED BY <1>1, <2>1
<1>10. InTransferOrder(s, order) = f[N] /\ f[N] \in Seq(T)
  BY <1>1, <1>3, <1>4, <1>6 DEF FlattenRunOf
<1>11. IsSequence(f[N]) /\ ToSet(f[N]) \subseteq T
  BY <1>10, SequenceOf
<1> QED BY <1>9, <1>10, <1>11 DEF T

-----------------------------------------------------------------------------
(* What a translation makes *)
LEMMA AllMade ==
  ASSUME NEW outcomes, ~AllOf(outcomes).thrown
  PROVE  /\ AllOf(outcomes).of = [i \in DOMAIN outcomes |-> outcomes[i].of]
         /\ \A i \in DOMAIN outcomes : ~outcomes[i].thrown
<1> DEFINE threw == {i \in DOMAIN outcomes : outcomes[i].thrown}
           done == IF threw = {} THEN outcomes ELSE SubSeq(outcomes, 1, Min(threw))
<1>1. AllOf(outcomes).thrown = (threw # {})
  BY DEF AllOf
<1>2. threw = {}
  BY <1>1
<1>3. AllOf(outcomes).of = [i \in DOMAIN done |-> done[i].of]
  BY DEF AllOf
<1> QED BY <1>2, <1>3

\* The three kinds of answers.
LEMMA Answers ==
  /\ \A x : Found(x).is = "found" /\ Found(x).what = x /\ Found(x) # Unknown /\ Found(x) # Mismatch
  /\ \A x, y : Found(x) = Found(y) => x = y
  /\ Unknown.is = "unknown" /\ Mismatch.is = "throws"
<1>1. /\ \A x : Found(x).is = "found" /\ Found(x).what = x
      /\ Unknown.is = "unknown" /\ Mismatch.is = "throws"
  BY DEF Found, Unknown, Mismatch
<1>2. \A x : Found(x) # Unknown /\ Found(x) # Mismatch
  BY <1>1
<1>3. ASSUME NEW x, NEW y, Found(x) = Found(y)  PROVE x = y
  <2>1. x = Found(x).what /\ y = Found(y).what
    BY <1>1
  <2> QED BY <1>3, <2>1
<1> QED BY <1>1, <1>2, <1>3

LEMMA ConceptsAreFinite ==
  ASSUME NEW variants, IsSequence(variants), NEW S, S \subseteq ToSet(variants)
  PROVE  IsFiniteSet({v.concept : v \in S})
<1> DEFINE C == {v.concept : v \in S}
           f == [v \in S |-> v.concept]
           g == [i \in 1 .. Len(variants) |-> variants[i]]
<1>1. Len(variants) \in Nat /\ DOMAIN variants = 1 .. Len(variants)
  BY DEF IsSequence
<1>2. IsFiniteSet(1 .. Len(variants))
  BY <1>1, FS_Interval
<1>3. g \in Surjection(1 .. Len(variants), ToSet(variants))
  BY <1>1 DEF Surjection, ToSet
<1>4. IsFiniteSet(ToSet(variants))
  BY <1>2, <1>3, FS_Surjection
<1>5. IsFiniteSet(S)
  BY <1>4, FS_Subset
<1>6. f \in Surjection(S, C)
  BY DEF Surjection
<1> QED BY <1>5, <1>6, FS_Surjection

LEMMA LookupGives ==
  ASSUME NEW name, NEW variants, IsSequence(variants), NEW x, Lookup(name, variants) = Found(x)
  PROVE  /\ \E v \in ToSet(variants) : v.concept = x.concept
         /\ \A v \in x.variant : v \in ToSet(variants) /\ v.concept = x.concept
<1> DEFINE byName == {v \in ToSet(variants) : MatchesName(name, v)}
           byXml == {v \in ToSet(variants) : v.xml = name.xml}
           C == {v.concept : v \in byName \cup byXml}
           one == OneVariant(byName, byXml)
<1>1. OneConcept(C, one) = Found(x)
  BY DEF Lookup
<1>2. IsFiniteSet(C)
  BY ConceptsAreFinite
<1>3. \A v \in one : v \in byName \cup byXml
  BY DEF OneVariant
<1>4. \A v \in byName \cup byXml : v \in ToSet(variants) /\ v.concept \in C
  OBVIOUS
<1>5. \A c \in C : \E v \in byName \cup byXml : v.concept = c
  OBVIOUS
<1> HIDE DEF C, one, byName, byXml
<1>6. C # {}
  <2> SUFFICES ASSUME C = {}  PROVE FALSE
    OBVIOUS
  <2>1. Cardinality(C) = 0
    BY FS_EmptySet
  <2>2. OneConcept(C, one) = Unknown
    BY <2>1 DEF OneConcept
  <2> QED BY <1>1, <2>2, Answers
<1>7. Cardinality(C) \in Nat /\ Cardinality(C) # 0
  BY <1>2, <1>6, FS_CardinalityType, FS_EmptySet
<1>8. Cardinality(C) = 1
  <2>1. CASE Cardinality(C) > 1
    <3>1. OneConcept(C, one) = Mismatch
      BY <1>6, <1>7, <2>1 DEF OneConcept
    <3> QED BY <1>1, <3>1, Answers
  <2> QED BY <1>7, <2>1
<1>9. PICK c : C = {c}
  BY <1>2, <1>8, FS_Singleton
<1>10. OneConcept(C, one) = Found([concept |-> c, variant |-> one])
  <2>1. (CHOOSE d \in C : TRUE) = c
    BY <1>9
  <2>2. ~ Cardinality(C) > 1
    BY <1>8
  <2>3. OneConcept(C, one) = Found([concept |-> CHOOSE d \in C : TRUE, variant |-> one])
    BY <1>6, <1>8, <2>2 DEF OneConcept
  <2> QED BY <2>1, <2>3
<1>11. x = [concept |-> c, variant |-> one]
  BY <1>1, <1>10, Answers
<1>12. x.concept = c /\ x.variant = one
  BY <1>11
<1> QED BY <1>3, <1>4, <1>5, <1>9, <1>12

LEMMA LeastOf ==
  ASSUME NEW S \in SUBSET Nat, S # {}
  PROVE  \E m \in S : \A k \in S : m <= k
<1> DEFINE Good == {n \in Nat : \A k \in 0 .. n : k \notin S}
<1> SUFFICES ASSUME \A m \in S : \E k \in S : ~ m <= k
             PROVE  FALSE
  OBVIOUS
<1>1. 0 \in Good
  <2>1. 0 \notin S
    OBVIOUS
  <2> QED BY <2>1
<1>2. ASSUME NEW n \in Good  PROVE n + 1 \in Good
  <2>1. n \in Nat /\ \A k \in 0 .. n : k \notin S
    OBVIOUS
  <2>2. n + 1 \notin S
    BY <2>1
  <2> QED BY <2>1, <2>2
<1>3. Good = Nat
  <2>1. Good \in SUBSET Nat
    OBVIOUS
  <2> HIDE DEF Good
  <2> QED BY <1>1, <1>2, <2>1, NatSetInduction
<1>4. PICK m \in S : TRUE
  OBVIOUS
<1>5. m \in Good /\ m \in 0 .. m
  BY <1>3
<1> QED BY <1>4, <1>5

LEMMA SelectedGives ==
  ASSUME NEW variants, IsSequence(variants), NEW target, NEW x, Selected(index, variants, target) = Found(x)
  PROVE  x \in ToSet(variants)
<1> DEFINE model == [i \in DOMAIN variants |-> variants[i].model]
           Alike(i) == variants[i].language = LanguageOf(index, target) /\ \A j \in 1 .. i : model[j] # target
           fits == {i \in DOMAIN variants : model[i] = target \/ Alike(i)}
           First(i) == \A j \in fits : model[j] = target => model[i] = target /\ i <= j
           first == CHOOSE i \in fits : First(i)
<1>1. fits # {} /\ Found(x) = Found(variants[first])
  BY Answers DEF Selected
<1>2. DOMAIN variants \in SUBSET Nat
  BY DEF IsSequence
<1>3. \E i \in fits : First(i)
  <2> DEFINE T == {i \in fits : model[i] = target}
  <2>1. T \in SUBSET Nat
    BY <1>2
  <2>2. CASE T = {}
    BY <1>1, <2>2
  <2>3. CASE T # {}
    <3>1. PICK m \in T : \A k \in T : m <= k
      BY <2>1, <2>3, LeastOf
    <3> QED BY <3>1
  <2> QED BY <2>2, <2>3
<1>4. first \in fits
  <2> HIDE DEF fits, First
  <2> QED BY <1>3, ZenonT(60)
<1>5. x = variants[first] /\ first \in DOMAIN variants
  BY <1>1, <1>4, Answers
<1> QED BY <1>5 DEF ToSet

\* What a variant is chosen from; where there is no target, what was observed.
LEMMA ChosenGives ==
  ASSUME NEW variants, IsSequence(variants), NEW observed, NEW target, NEW x,
         ChooseVariant(index, variants, observed, target) = Found(x)
  PROVE  IF target = "" THEN x \in observed ELSE x \in ToSet(variants)
<1>1. CASE target = "" /\ observed # {}
  <2>1. Found(CHOOSE v \in observed : TRUE) = Found(x)
    BY <1>1 DEF ChooseVariant
  <2>2. x = CHOOSE v \in observed : TRUE
    BY <2>1, Answers
  <2> QED BY <1>1, <2>2
<1>2. CASE target = "" /\ observed = {}
  BY <1>2, Answers DEF ChooseVariant
<1>3. CASE target # ""
  <2>1. Selected(index, variants, target) = Found(x)
    BY <1>3 DEF ChooseVariant
  <2> QED BY <1>3, <2>1, SelectedGives
<1> QED BY <1>1, <1>2, <1>3

LEMMA VariantsAre ==
  ASSUME NEW concept, NEW variants, IsSequence(variants)
  PROVE  /\ IsSequence(VariantsOf(concept, variants))
         /\ ToSet(VariantsOf(concept, variants)) = {v \in ToSet(variants) : v.concept = concept}
<1> DEFINE S == {v \in ToSet(variants) : v.concept = concept}
           T == ToSet(variants)
<1>1. variants \in Seq(T)
  BY DEF IsSequence
<1>2. Only(variants, S) \in Seq(T) /\ ToSet(Only(variants, S)) = T \cap S
  <2>1. ToSet(variants) = T
    OBVIOUS
  <2> HIDE DEF S, T
  <2> QED BY <1>1, <2>1, OnlyElements
<1>3. IsSequence(Only(variants, S))
  <2> HIDE DEF S, T
  <2> QED BY <1>2, SequenceOf
<1> QED BY <1>2, <1>3 DEF VariantsOf

\* An answer is found only if what it rests on is.
ChosenFor(x, from, variants, target) ==
  ChooseVariant(x, VariantsOf(from.what.concept, variants), from.what.variant, target)
ResolvedTo(from, chosen, version, answer) ==
  /\ from.is = "found" /\ chosen.is = "found"
  /\ answer = Found(IomNameOf(chosen.what, version, FALSE))

LEMMA ResolveGives ==
  ASSUME NEW from, NEW variants, NEW target, NEW version, NEW answer,
         answer = Resolve(index, from, variants, target, version, FALSE), answer.is = "found"
  PROVE  ResolvedTo(from, ChosenFor(index, from, variants, target), version, answer)
BY DEF Resolve, IfFound, ChosenFor, ResolvedTo

LEMMA PropertyLookupGives ==
  ASSUME NEW owner, NEW observed, PropertyLookup(index, owner, observed).is = "found"
  PROVE  LET class == Lookup(owner, index.classes)
         IN  /\ class.is = "found"
             /\ PropertyLookup(index, owner, observed)
                  = Lookup(observed, PropertiesOf(index, class.what.concept))
BY DEF PropertyLookup, IfFound

\* An answer of any query is one of the three kinds.
IsAnswer(x) == x = Unknown \/ x = Mismatch \/ x = Found(x.what)

LEMMA LookupIs ==
  ASSUME NEW name, NEW variants, IsSequence(variants)
  PROVE  IsAnswer(Lookup(name, variants))
<1> DEFINE byName == {v \in ToSet(variants) : MatchesName(name, v)}
           byXml == {v \in ToSet(variants) : v.xml = name.xml}
           C == {v.concept : v \in byName \cup byXml}
           one == OneVariant(byName, byXml)
<1>1. Lookup(name, variants) = OneConcept(C, one)
  BY DEF Lookup
<1>2. IsFiniteSet(C)
  BY ConceptsAreFinite
<1> HIDE DEF C, one, byName, byXml
<1>3. Cardinality(C) \in Nat /\ (Cardinality(C) = 0 <=> C = {})
  BY <1>2, FS_CardinalityType, FS_EmptySet
<1>4. CASE C = {}
  <2>1. Cardinality(C) = 0
    BY <1>3, <1>4
  <2>2. OneConcept(C, one) = Unknown
    BY <1>4, <2>1 DEF OneConcept
  <2> QED BY <1>1, <2>2 DEF IsAnswer
<1>5. CASE C # {} /\ Cardinality(C) = 1
  <2>1. ~ Cardinality(C) > 1
    BY <1>5
  <2>2. OneConcept(C, one) = Found([concept |-> CHOOSE d \in C : TRUE, variant |-> one])
    BY <1>5, <2>1 DEF OneConcept
  <2> QED BY <1>1, <2>2, Answers DEF IsAnswer
<1>6. CASE C # {} /\ Cardinality(C) > 1
  <2>1. Cardinality(C) # 1
    BY <1>6
  <2>2. OneConcept(C, one) = Mismatch
    BY <1>6, <2>1 DEF OneConcept
  <2> QED BY <1>1, <2>2 DEF IsAnswer
<1> QED BY <1>3, <1>4, <1>5, <1>6

LEMMA ChosenIs ==
  ASSUME NEW variants, NEW observed, NEW target
  PROVE  /\ IsAnswer(ChooseVariant(index, variants, observed, target))
         /\ ChooseVariant(index, variants, observed, target) # Unknown
<1>1. CASE target = "" /\ observed # {}
  <2>1. ChooseVariant(index, variants, observed, target) = Found(CHOOSE v \in observed : TRUE)
    BY <1>1 DEF ChooseVariant
  <2> QED BY <2>1, Answers DEF IsAnswer
<1>2. CASE target = "" /\ observed = {}
  <2>1. ChooseVariant(index, variants, observed, target) = Mismatch
    BY <1>2 DEF ChooseVariant
  <2> QED BY <2>1, Answers DEF IsAnswer
<1>3. CASE target # ""
  <2>1. ChooseVariant(index, variants, observed, target) = Selected(index, variants, target)
    BY <1>3 DEF ChooseVariant
  <2>2. Selected(index, variants, target) = Mismatch \/ \E x : Selected(index, variants, target) = Found(x)
    BY ZenonT(60) DEF Selected
  <2> QED BY <2>1, <2>2, Answers DEF IsAnswer
<1> QED BY <1>1, <1>2, <1>3

\* transferProperties() takes the properties of the chosen variant of the class.
NameAs(x, c, target, version) ==
  Resolve(x, Found([concept |-> c, variant |-> {}]), x.properties, target, version, FALSE)
ClassOf(x, owner) == Lookup(owner, x.classes).what
ChosenClass(x, owner, target) ==
  ChooseVariant(x, VariantsOf(ClassOf(x, owner).concept, x.classes), ClassOf(x, owner).variant, target)
WrittenOf(x, v) == Only(v.allProperties, {c \in ToSet(v.allProperties) : ~Transient(x, c)})

OrderOf(x, owner, target, version, order, concepts) ==
  /\ Lookup(owner, x.classes).is = "found" /\ ChosenClass(x, owner, target).is = "found"
  /\ order = [i \in DOMAIN concepts |-> NameAs(x, concepts[i], target, version).what]
  /\ \A i \in DOMAIN concepts : NameAs(x, concepts[i], target, version) # Mismatch

LEMMA TransferGives ==
  ASSUME NEW owner, NEW target, NEW version, NEW order,
         TransferProperties(index, owner, target, version).is = "found",
         order = TransferProperties(index, owner, target, version).what
  PROVE  OrderOf(index, owner, target, version, order, WrittenOf(index, ChosenClass(index, owner, target).what))
<1> DEFINE concepts == WrittenOf(index, ChosenClass(index, owner, target).what)
           answers == [i \in DOMAIN concepts |-> NameAs(index, concepts[i], target, version)]
<1>1. Lookup(owner, index.classes).is = "found"
  BY Zenon DEF TransferProperties, IfFound
<1>2. ChosenClass(index, owner, target).is = "found"
  BY <1>1, ZenonT(60) DEF TransferProperties, IfFound, ChosenClass, ClassOf
<1>3. TransferProperties(index, owner, target, version) = AllFound(answers)
  BY <1>1, <1>2, Zenon DEF TransferProperties, IfFound, ChosenClass, ClassOf, WrittenOf, NameAs
<1> HIDE DEF concepts, OrderOf
<1>4. Mismatch \notin ToSet(answers)
  BY <1>3, Answers DEF AllFound
<1>5. AllFound(answers).what = [i \in DOMAIN answers |-> answers[i].what]
  BY <1>4, Answers DEF AllFound
<1>6. DOMAIN answers = DOMAIN concepts
  OBVIOUS
<1>7. \A i \in DOMAIN concepts : answers[i] = NameAs(index, concepts[i], target, version)
  OBVIOUS
<1>8. \A i \in DOMAIN concepts : NameAs(index, concepts[i], target, version) # Mismatch
  BY <1>4, <1>6, <1>7 DEF ToSet
<1>9. order = [i \in DOMAIN concepts |-> NameAs(index, concepts[i], target, version).what]
  BY <1>3, <1>5, <1>6, <1>7
<1> QED BY <1>1, <1>2, <1>8, <1>9 DEF concepts, OrderOf

LEMMA ChosenClassIs ==
  ASSUME IsIndex(index), NEW owner, NEW target, NEW v,
         Lookup(owner, index.classes).is = "found", ChosenClass(index, owner, target) = Found(v)
  PROVE  v \in ToSet(index.classes) /\ v.concept = ClassOf(index, owner).concept
<1>1. IsSequence(index.classes)
  BY DEF IsIndex
<1>2. Lookup(owner, index.classes) = Found(ClassOf(index, owner))
  BY <1>1, LookupIs, Answers DEF IsAnswer, ClassOf
<1>3. /\ IsSequence(VariantsOf(ClassOf(index, owner).concept, index.classes))
      /\ ToSet(VariantsOf(ClassOf(index, owner).concept, index.classes))
           = {w \in ToSet(index.classes) : w.concept = ClassOf(index, owner).concept}
  BY <1>1, VariantsAre
<1>4. IF target = "" THEN v \in ClassOf(index, owner).variant
      ELSE v \in ToSet(VariantsOf(ClassOf(index, owner).concept, index.classes))
  BY <1>3, ChosenGives DEF ChosenClass
<1>5. \A w \in ClassOf(index, owner).variant :
        w \in ToSet(index.classes) /\ w.concept = ClassOf(index, owner).concept
  BY <1>1, <1>2, LookupGives
<1> QED BY <1>3, <1>4, <1>5

LEMMA OrderIsSequence ==
  ASSUME IsIndex(index), NEW owner, NEW target, NEW version,
         TransferProperties(index, owner, target, version).is = "found"
  PROVE  IsSequence(TransferProperties(index, owner, target, version).what)
<1> DEFINE order == TransferProperties(index, owner, target, version).what
           v == ChosenClass(index, owner, target).what
           concepts == WrittenOf(index, v)
           S == {c \in ToSet(v.allProperties) : ~Transient(index, c)}
           T == ToSet(v.allProperties)
<1>1. /\ Lookup(owner, index.classes).is = "found" /\ ChosenClass(index, owner, target).is = "found"
      /\ order = [i \in DOMAIN concepts |-> NameAs(index, concepts[i], target, version).what]
  <2>1. OrderOf(index, owner, target, version, order, concepts)
    BY TransferGives
  <2> QED BY <2>1 DEF OrderOf
<1>2. ChosenClass(index, owner, target) = Found(v)
  <2>1. IsAnswer(ChosenClass(index, owner, target))
    BY ChosenIs DEF ChosenClass
  <2> QED BY <1>1, <2>1, Answers DEF IsAnswer
<1>3. IsSequence(v.allProperties)
  BY <1>1, <1>2, ChosenClassIs DEF IsIndex
<1>4. v.allProperties \in Seq(T)
  BY <1>3 DEF IsSequence
<1>5. concepts \in Seq(T)
  <2>1. Only(v.allProperties, S) \in Seq(T)
    <3> HIDE DEF S, T, v
    <3> QED BY <1>4, OnlyElements
  <2> QED BY <2>1 DEF WrittenOf
<1> HIDE DEF concepts, T
<1>6. Len(concepts) \in Nat /\ DOMAIN concepts = 1 .. Len(concepts)
  BY <1>5
<1> DEFINE U == {NameAs(index, concepts[i], target, version).what : i \in DOMAIN concepts}
<1>7. order \in [1 .. Len(concepts) -> U]
  BY <1>1, <1>6, SMTT(30)
<1> HIDE DEF U, order
<1>8. order \in UNION {[1 .. k -> U] : k \in Nat}
  BY <1>6, <1>7
<1>9. order \in Seq(U)
  BY <1>8, SeqDef, Zenon
<1>10. IsSequence(order)
  BY <1>9, SequenceOf
<1> QED BY <1>10 DEF order

\* The name of a property that the class transfers is in its transfer order.
LEMMA OrderHasName ==
  ASSUME IsIndex(index), NEW owner, NEW observed, NEW target, NEW version, NEW name,
         ResolveProperty(index, owner, observed, target, version) = Found(name),
         ~IsTransientProperty(index, owner, observed),
         TransferProperties(index, owner, target, version).is = "found"
  PROVE  name \in ToSet(TransferProperties(index, owner, target, version).what)
<1> DEFINE order == TransferProperties(index, owner, target, version).what
           class == ClassOf(index, owner)
           v == ChosenClass(index, owner, target).what
           found == PropertyLookup(index, owner, observed)
           p == found.what
           S == {c \in ToSet(v.allProperties) : ~Transient(index, c)}
           chosen == ChooseVariant(index, VariantsOf(p.concept, index.properties), p.variant, target)
           P == {q \in ToSet(index.properties) :
                   q.concept \in UNION {ToSet(w.allProperties) :
                                          w \in ToSet(VariantsOf(class.concept, index.classes))}}
<1>1. IsSequence(index.classes) /\ IsSequence(index.properties)
  BY DEF IsIndex
<1>2. /\ found.is = "found" /\ chosen.is = "found"
      /\ Found(name) = Found(IomNameOf(chosen.what, version, FALSE))
  <2> DEFINE answer == Found(name)
  <2>1. answer = Resolve(index, found, index.properties, target, version, FALSE) /\ answer.is = "found"
    BY Answers DEF ResolveProperty
  <2>2. chosen = ChosenFor(index, found, index.properties, target)
    BY DEF ChosenFor
  <2> HIDE DEF answer, found, chosen
  <2>3. ResolvedTo(found, ChosenFor(index, found, index.properties, target), version, answer)
    BY <2>1, ResolveGives
  <2> QED BY <2>2, <2>3 DEF answer, ResolvedTo
<1>3. /\ Lookup(owner, index.classes).is = "found"
      /\ found = Lookup(observed, PropertiesOf(index, class.concept))
  BY <1>2, PropertyLookupGives DEF ClassOf
<1>4. Lookup(owner, index.classes) = Found(class)
  BY <1>1, <1>3, LookupIs, Answers DEF IsAnswer, ClassOf
<1>5. IsSequence(PropertiesOf(index, class.concept)) /\ ToSet(PropertiesOf(index, class.concept)) \subseteq P
  <2> DEFINE T == ToSet(index.properties)
  <2>1. index.properties \in Seq(T)
    BY <1>1 DEF IsSequence
  <2>2. Only(index.properties, P) \in Seq(T) /\ ToSet(Only(index.properties, P)) = T \cap P
    <3>1. ToSet(index.properties) = T
      OBVIOUS
    <3> HIDE DEF P, T
    <3> QED BY <2>1, <3>1, OnlyElements
  <2>3. IsSequence(Only(index.properties, P))
    <3> HIDE DEF P, T
    <3> QED BY <2>2, SequenceOf
  <2>4. PropertiesOf(index, class.concept) = Only(index.properties, P)
    BY DEF PropertiesOf
  <2> HIDE DEF P, T
  <2> QED BY <2>2, <2>3, <2>4
<1>6. PICK w \in ToSet(VariantsOf(class.concept, index.classes)) : p.concept \in ToSet(w.allProperties)
  <2>1. found = Found(p)
    BY <1>2, <1>3, <1>5, LookupIs, Answers DEF IsAnswer
  <2>2. \E q \in ToSet(PropertiesOf(index, class.concept)) : q.concept = p.concept
    <3> DEFINE among == PropertiesOf(index, class.concept)
    <3>1. Lookup(observed, among) = Found(p) /\ IsSequence(among)
      BY <1>3, <1>5, <2>1
    <3> HIDE DEF among, p
    <3>2. \E q \in ToSet(among) : q.concept = p.concept
      BY <3>1, LookupGives
    <3> QED BY <3>2 DEF among
  <2> QED BY <1>5, <2>2
<1>7. w \in ToSet(index.classes) /\ w.concept = class.concept
  BY <1>1, <1>6, VariantsAre
<1>8. OrderOf(index, owner, target, version, order, WrittenOf(index, v))
  BY TransferGives
<1>9. v \in ToSet(index.classes) /\ v.concept = class.concept
  <2>1. IsAnswer(ChosenClass(index, owner, target))
    BY ChosenIs DEF ChosenClass
  <2>2. ChosenClass(index, owner, target) = Found(v)
    BY <1>8, <2>1, Answers DEF IsAnswer, OrderOf
  <2> QED BY <1>3, <2>2, ChosenClassIs
<1>10. p.concept \in ToSet(v.allProperties)
  BY <1>6, <1>7, <1>9 DEF IsIndex
<1>11. ~Transient(index, p.concept)
  <2>1. IsTransientProperty(index, owner, observed) <=> Found(Transient(index, p.concept)) = Found(TRUE)
    BY <1>2 DEF IsTransientProperty, IfFound
  <2>2. Transient(index, p.concept) \in BOOLEAN
    BY DEF Transient
  <2> QED BY <2>1, <2>2
<1>12. p.concept \in ToSet(WrittenOf(index, v))
  <2> DEFINE T == ToSet(v.allProperties)
  <2>1. v.allProperties \in Seq(T)
    BY <1>9 DEF IsIndex, IsSequence
  <2>2. ToSet(Only(v.allProperties, S)) = T \cap S
    <3>1. ToSet(v.allProperties) = T
      OBVIOUS
    <3> HIDE DEF S, T, v
    <3> QED BY <2>1, <3>1, OnlyElements
  <2>3. WrittenOf(index, v) = Only(v.allProperties, S)
    BY DEF WrittenOf
  <2> QED BY <1>10, <1>11, <2>2, <2>3
<1> DEFINE concepts == WrittenOf(index, v)
<1>13. PICK k \in DOMAIN concepts : concepts[k] = p.concept
  BY <1>12 DEF ToSet
<1>14. NameAs(index, p.concept, target, version) # Mismatch
  BY <1>8, <1>13 DEF OrderOf
<1>15. order[k] = NameAs(index, p.concept, target, version).what /\ k \in DOMAIN order
  BY <1>8, <1>13 DEF OrderOf
<1> DEFINE other == ChooseVariant(index, VariantsOf(p.concept, index.properties), {}, target)
<1>16. NameAs(index, p.concept, target, version)
         = IF other.is = "found" THEN Found(IomNameOf(other.what, version, FALSE)) ELSE other
  <2> DEFINE f == Found([concept |-> p.concept, variant |-> {}])
  <2>1. f.is = "found" /\ f.what.concept = p.concept /\ f.what.variant = {}
    BY Answers
  <2> HIDE DEF f, p
  <2>2. NameAs(index, p.concept, target, version) = Resolve(index, f, index.properties, target, version, FALSE)
    BY DEF NameAs, f
  <2> QED BY <2>1, <2>2 DEF Resolve, IfFound
<1>17. target # ""
  <2> SUFFICES ASSUME target = ""  PROVE FALSE
    OBVIOUS
  <2>1. other = Mismatch
    BY DEF ChooseVariant
  <2> QED BY <1>14, <1>16, <2>1, Answers
<1>18. other = chosen
  BY <1>17 DEF ChooseVariant
<1>19. NameAs(index, p.concept, target, version) = Found(name)
  BY <1>2, <1>16, <1>18
<1>20. order[k] = name
  BY <1>15, <1>19, Answers
<1> QED BY <1>15, <1>20 DEF ToSet

-----------------------------------------------------------------------------
(* The outcomes of a translation *)
IsOutcome(x) == {"of", "notes", "thrown"} \subseteq DOMAIN x

LEMMA MadeIs ==
  \A x : IsOutcome(Made(x)) /\ Made(x).of = x /\ Made(x).thrown = FALSE
BY DEF Made, IsOutcome

LEMMA ThrownIs == IsOutcome(Thrown) /\ Thrown.thrown = TRUE
BY DEF Thrown, Made, IsOutcome

LEMMA JoinedIs ==
  ASSUME NEW x, IsOutcome(x), NEW before
  PROVE  /\ IsOutcome(Joined(x, before)) /\ Joined(x, before).of = x.of
         /\ Joined(x, before).thrown = x.thrown
BY DEF Joined, IsOutcome

LEMMA AllOfIs == \A outcomes : IsOutcome(AllOf(outcomes))
BY DEF AllOf, IsOutcome

\* What reportOrThrow() lets pass.
LEMMA ReportOrThrowIs ==
  ASSUME NEW x, NEW rejected \in BOOLEAN, NEW w, w = ReportOrThrow(x, rejected)
  PROVE  IsOutcome(w) /\ w.of = x /\ (options.writer /\ rejected => w.thrown = TRUE)
<1>1. PICK throws : throws = (options.writer /\ rejected)
  OBVIOUS
<1>2. PICK reported : reported = <<IF rejected THEN "error" ELSE "warning">>
  OBVIOUS
<1>3. w = [of |-> x, notes |-> reported, thrown |-> throws]
  BY <1>1, <1>2 DEF ReportOrThrow
<1>4. IsOutcome(w) /\ w.of = x /\ w.thrown = throws
  BY <1>3 DEF IsOutcome
<1>5. options.writer /\ rejected => throws = TRUE
  BY <1>1
<1> QED BY <1>4, <1>5

\* The class of an object is unknown only if its name is.
LEMMA ClassIs ==
  ASSUME IsIndex(index), NEW tag, NEW target, NEW version
  PROVE  IF Lookup(tag, index.classes) = Unknown
         THEN ResolveClass(index, tag, target, version).is = "unknown"
         ELSE ResolveClass(index, tag, target, version).is \in {"found", "throws"}
<1> DEFINE s == Lookup(tag, index.classes)
           chosen == ChosenFor(index, s, index.classes, target)
<1>1. IsAnswer(s)
  BY LookupIs DEF IsIndex
<1>2. IsAnswer(chosen) /\ chosen # Unknown
  BY ChosenIs DEF ChosenFor
<1>3. ResolveClass(index, tag, target, version)
        = IF s.is # "found" THEN s
          ELSE IF chosen.is # "found" THEN chosen
          ELSE Found(IomNameOf(chosen.what, version, TRUE))
  BY DEF ResolveClass, Resolve, IfFound, ChosenFor
<1> HIDE DEF s, chosen
<1>4. CASE s = Unknown
  BY <1>3, <1>4, Answers DEF s
<1>5. CASE s # Unknown
  <2>1. s.is \in {"found", "throws"} /\ chosen.is \in {"found", "throws"}
    BY <1>1, <1>2, <1>5, Answers DEF IsAnswer
  <2>2. \A x : Found(x).is = "found"
    BY Answers
  <2>3. ResolveClass(index, tag, target, version).is \in {"found", "throws"}
    BY <1>3, <2>1, <2>2
  <2> QED BY <1>5, <2>3 DEF s
<1> QED BY <1>4, <1>5

LEMMA WriterRejects ==
  ASSUME options.writer, NEW x, NEW o, o = ReportOrThrow(x, options.writer)
  PROVE  o.thrown
<1>1. PICK throws : throws = (options.writer /\ options.writer)
  OBVIOUS
<1>2. PICK reported : reported = <<IF options.writer THEN "error" ELSE "warning">>
  OBVIOUS
<1>3. o = [of |-> x, notes |-> reported, thrown |-> throws]
  BY <1>1, <1>2 DEF ReportOrThrow
<1>4. o.thrown = throws
  BY ONLY <1>3
<1> QED BY <1>1, <1>4

LEMMA PropertyAnswer ==
  ASSUME IsIndex(index), NEW tag, NEW name, NEW target, NEW version
  PROVE  IsAnswer(ResolveProperty(index, tag, name, target, version))
<1> DEFINE class == Lookup(tag, index.classes)
           among == PropertiesOf(index, class.what.concept)
           p == PropertyLookup(index, tag, name)
           chosen == ChosenFor(index, p, index.properties, target)
<1>1. IsAnswer(class)
  BY LookupIs DEF IsIndex
<1>2. IsSequence(among)
  <2> DEFINE T == ToSet(index.properties)
             P == {q \in T : q.concept \in UNION {ToSet(v.allProperties) :
                                v \in ToSet(VariantsOf(class.what.concept, index.classes))}}
  <2>1. index.properties \in Seq(T)
    BY DEF IsSequence, IsIndex
  <2>2. among = Only(index.properties, P)
    BY DEF PropertiesOf
  <2> HIDE DEF P, T, among
  <2>3. Only(index.properties, P) \in Seq(T)
    BY <2>1, OnlyElements
  <2> QED BY <2>2, <2>3, SequenceOf
<1>3. IsAnswer(Lookup(name, among))
  BY <1>2, LookupIs
<1>4. p = IF class.is = "found" THEN Lookup(name, among) ELSE class
  BY DEF PropertyLookup, IfFound
<1>5. IsAnswer(p)
  BY <1>1, <1>3, <1>4
<1>6. IsAnswer(chosen)
  BY ChosenIs DEF ChosenFor
<1>7. ResolveProperty(index, tag, name, target, version)
        = IF p.is # "found" THEN p
          ELSE IF chosen.is # "found" THEN chosen
          ELSE Found(IomNameOf(chosen.what, version, FALSE))
  BY DEF ResolveProperty, Resolve, IfFound, ChosenFor
<1>8. \A x : IsAnswer(Found(x))
  BY Answers DEF IsAnswer
<1> HIDE DEF p, chosen
<1> QED BY <1>5, <1>6, <1>7, <1>8

LEMMA TransferAnswer ==
  ASSUME IsIndex(index), NEW owner, NEW target, NEW version
  PROVE  TransferProperties(index, owner, target, version).is \in {"found", "unknown", "throws"}
<1> DEFINE concepts == WrittenOf(index, ChosenClass(index, owner, target).what)
           answers == [i \in DOMAIN concepts |-> NameAs(index, concepts[i], target, version)]
<1>1. IsAnswer(Lookup(owner, index.classes))
  BY LookupIs DEF IsIndex
<1>2. IsAnswer(ChosenClass(index, owner, target))
  BY ChosenIs, SMTT(30) DEF ChosenClass
<1>3. TransferProperties(index, owner, target, version)
        = IF Lookup(owner, index.classes).is # "found" THEN Lookup(owner, index.classes)
          ELSE IF ChosenClass(index, owner, target).is # "found" THEN ChosenClass(index, owner, target)
          ELSE AllFound(answers)
  BY Zenon DEF TransferProperties, IfFound, ChosenClass, ClassOf, WrittenOf, NameAs
<1>4. AllFound(answers).is \in {"found", "throws"}
  <2> HIDE DEF answers
  <2>1. \A x : Found(x).is = "found"
    BY Answers
  <2> QED BY <2>1, Answers DEF AllFound
<1>5. \A x : IsAnswer(x) => x.is \in {"found", "unknown", "throws"}
  BY Answers DEF IsAnswer
<1> HIDE DEF answers
<1> QED BY <1>1, <1>2, <1>3, <1>4, <1>5

\* An attribute that the writer lets pass where it rejects unknown ones.
LEMMA MemberNamed ==
  ASSUME IsIndex(index), options.writer, NEW t, NEW tag, NEW name, NEW o,
         o = TranslateMember(t, tag, name), ~o.thrown, "property" \in options.rejects
  PROVE  /\ ResolveProperty(index, tag, name, t.selected, t.version) = Found(o.of)
         /\ ~IsTransientProperty(index, tag, name)
<1> DEFINE answer == ResolveProperty(index, tag, name, t.selected, t.version)
<1>1. IsAnswer(answer)
  BY PropertyAnswer
<1>2. CASE answer = Unknown
  <2>1. o = ReportOrThrow(name, "property" \in options.rejects)
    BY <1>2, Answers DEF TranslateMember, OnAnswer
  <2>2. ("property" \in options.rejects) \in BOOLEAN
    OBVIOUS
  <2>3. o.thrown = TRUE
    <3>1. PICK rejected \in BOOLEAN : rejected = ("property" \in options.rejects)
      OBVIOUS
    <3> QED BY <2>1, <3>1, ReportOrThrowIs
  <2> QED BY <2>3
<1>3. CASE answer = Mismatch
  <2>1. o = Thrown
    BY <1>3, Answers DEF TranslateMember, OnAnswer
  <2> QED BY <2>1, ThrownIs
<1>4. CASE answer = Found(answer.what)
  <2>1. o = IF IsTransientProperty(index, tag, name) THEN ReportOrThrow(answer.what, options.writer)
            ELSE Made(answer.what)
    <3>1. answer.is = "found"
      BY <1>4, Answers
    <3> QED BY <3>1 DEF TranslateMember, OnAnswer
  <2>2. ~IsTransientProperty(index, tag, name)
    <3> SUFFICES ASSUME IsTransientProperty(index, tag, name)  PROVE FALSE
      OBVIOUS
    <3>1. o = ReportOrThrow(answer.what, options.writer)
      BY <2>1
    <3> HIDE DEF answer
    <3> QED BY <3>1, WriterRejects
  <2>3. o.of = answer.what
    BY <2>1, <2>2, MadeIs
  <2> QED BY <1>4, <2>2, <2>3
<1> QED BY <1>1, <1>2, <1>3, <1>4 DEF IsAnswer

LEMMA AttributeNamed ==
  ASSUME NEW t, NEW object, NEW i, NEW part, NEW o, o = TransformAttribute(t, object, i, part), ~o.thrown
  PROVE  LET member == TranslateMember(t, object.tag, object.attributes[i].name)
         IN  ~member.thrown /\ o.of.name = member.of
<1> DEFINE member == TranslateMember(t, object.tag, object.attributes[i].name)
           a == object.attributes[i]
           values == AllOf([j \in DOMAIN a.values |-> TransformValue(t, object, i, j, part)])
           inner == IF values.thrown THEN values
                    ELSE Joined(Made([name |-> member.of, values |-> values.of]), values.notes)
<1>1. o = IF member.thrown THEN member ELSE Joined(inner, member.notes)
  BY DEF TransformAttribute, Then
<1>2. IsOutcome(values)
  BY AllOfIs
<1> DEFINE named == [name |-> member.of, values |-> values.of]
<1>3. /\ IsOutcome(Joined(Made(named), values.notes)) /\ Joined(Made(named), values.notes).of = named
  BY JoinedIs, MadeIs
<1> HIDE DEF member, values
<1>4. IsOutcome(inner)
  BY <1>2, <1>3
<1>5. ~member.thrown
  BY <1>1
<1>6. o.of = inner.of /\ o.thrown = inner.thrown
  <2> HIDE DEF inner
  <2> QED BY <1>1, <1>4, <1>5, JoinedIs
<1>7. ~values.thrown
  BY <1>6
<1>8. o.of.name = member.of
  BY <1>3, <1>6, <1>7
<1> QED BY <1>5, <1>8 DEF member

LEMMA OrderedIs ==
  ASSUME IsIndex(index), NEW t, NEW object, NEW s, IsSequence(s), NEW o, o = Ordered(t, object, s),
         ~o.thrown, NEW transfer, transfer = TransferProperties(index, object.tag, t.selected, t.version)
  PROVE  /\ IsSequence(o.of) /\ ToSet(o.of) \subseteq ToSet(s)
         /\ options.ordered => transfer.is = "found" /\ Placed(o.of, transfer.what)
<1>1. CASE ~options.ordered
  <2>1. o = Made(s)
    BY <1>1 DEF Ordered
  <2>2. o.of = s
    BY <2>1, MadeIs
  <2> QED BY <1>1, <2>2
<1>2. CASE options.ordered
  <2>1. transfer.is \in {"found", "unknown", "throws"}
    BY TransferAnswer
  <2>2. CASE transfer.is = "found"
    <3> DEFINE r == InTransferOrder(s, transfer.what)
    <3>1. o = Made(r)
      BY <1>2, <2>2 DEF Ordered, OnAnswer
    <3>2. IsSequence(transfer.what)
      BY <2>2, OrderIsSequence
    <3>3. IsSequence(r) /\ ToSet(r) \subseteq ToSet(s) /\ Placed(r, transfer.what)
      BY <3>2, Ordering
    <3>4. o.of = r
      BY <3>1, MadeIs
    <3> HIDE DEF r
    <3> QED BY <2>2, <3>3, <3>4
  <2>3. CASE transfer.is # "found"
    <3>1. o = Thrown
      BY <1>2, <2>1, <2>3 DEF Ordered, OnAnswer
    <3> QED BY <3>1, ThrownIs
  <2> QED BY <2>2, <2>3
<1> QED BY <1>1, <1>2

LEMMA OrderedOutcome ==
  ASSUME IsIndex(index), NEW t, NEW object, NEW s
  PROVE  IsOutcome(Ordered(t, object, s))
<1> DEFINE transfer == TransferProperties(index, object.tag, t.selected, t.version)
<1>1. transfer.is \in {"found", "unknown", "throws"}
  BY TransferAnswer
<1>2. CASE ~options.ordered
  BY <1>2, MadeIs DEF Ordered
<1>3. CASE options.ordered /\ transfer.is = "found"
  BY <1>3, MadeIs DEF Ordered, OnAnswer
<1>4. CASE options.ordered /\ transfer.is # "found"
  <2>1. Ordered(t, object, s) = Thrown
    BY <1>1, <1>4 DEF Ordered, OnAnswer
  <2> QED BY <2>1, ThrownIs
<1> QED BY <1>2, <1>3, <1>4

\* What an object is made of, if nothing in it throws.
MadeOf(t, object, part, made, members, ordered) ==
  /\ members = AllOf([i \in DOMAIN object.attributes |-> TransformAttribute(t, object, i, part)])
  /\ ~members.thrown
  /\ ordered = Ordered(t, object, members.of) /\ ~ordered.thrown
  /\ made.attributes = Appended(ordered.of)

LEMMA TransformedAs ==
  ASSUME IsIndex(index), NEW t, NEW object, NEW class, NEW part, NEW o,
         o = TransformAs(t, object, class, TRUE, part), ~o.thrown
  PROVE  \E members, ordered : MadeOf(t, object, part, o.of, members, ordered)
<1> DEFINE placed == IF TRUE /\ ~IsTopLevelTransferable(index, object.tag)
                     THEN ReportOrThrow("misplaced", options.writer) ELSE Made("placed")
           members == AllOf([i \in DOMAIN object.attributes |-> TransformAttribute(t, object, i, part)])
           ordered == Ordered(t, object, members.of)
           made == [tag |-> class, oid |-> object.oid, attributes |-> Appended(ordered.of)]
           third == IF ordered.thrown THEN ordered ELSE Joined(Made(made), ordered.notes)
           second == IF members.thrown THEN members ELSE Joined(third, members.notes)
<1>1. o = IF placed.thrown THEN placed ELSE Joined(second, placed.notes)
  BY DEF TransformAs, Then
<1>2. IsOutcome(members) /\ IsOutcome(ordered)
  BY AllOfIs, OrderedOutcome
<1>3. members = AllOf([i \in DOMAIN object.attributes |-> TransformAttribute(t, object, i, part)])
  OBVIOUS
<1>4. ordered = Ordered(t, object, members.of)
  OBVIOUS
<1>5. made.attributes = Appended(ordered.of)
  OBVIOUS
<1> HIDE DEF placed, members, ordered, made
<1>6. /\ IsOutcome(Joined(Made(made), ordered.notes))
      /\ Joined(Made(made), ordered.notes).of = made
  BY JoinedIs, MadeIs
<1>7. IsOutcome(third)
  BY <1>2, <1>6
<1>8. ordered.thrown \/ third.of = made
  BY <1>6
<1>9. ~ordered.thrown \/ third.thrown
  OBVIOUS
<1> HIDE DEF third
<1>10. /\ IsOutcome(Joined(third, members.notes)) /\ Joined(third, members.notes).of = third.of
       /\ Joined(third, members.notes).thrown = third.thrown
  BY <1>7, JoinedIs
<1>11. IsOutcome(second)
  BY <1>2, <1>10
<1>12. ~members.thrown => second.of = third.of /\ second.thrown = third.thrown
  BY <1>10
<1>13. ~members.thrown \/ second.thrown
  OBVIOUS
<1> HIDE DEF second
<1>14. ~placed.thrown
  BY <1>1
<1>15. o.of = second.of /\ o.thrown = second.thrown
  BY <1>1, <1>11, <1>14, JoinedIs
<1>16. ~members.thrown
  BY <1>13, <1>15
<1>17. ~ordered.thrown /\ o.of = made
  BY <1>8, <1>9, <1>12, <1>15, <1>16
<1>18. MadeOf(t, object, part, o.of, members, ordered)
  BY <1>3, <1>4, <1>5, <1>16, <1>17 DEF MadeOf
<1> QED BY <1>18

\* Every attribute of what is made has the name of one that was let pass.
LEMMA MadeNames ==
  ASSUME IsIndex(index), options.writer, NEW t, NEW object, IsSequence(object.attributes), NEW part,
         NEW made, NEW members, NEW ordered, MadeOf(t, object, part, made, members, ordered),
         NEW transfer, transfer = TransferProperties(index, object.tag, t.selected, t.version)
  PROVE  /\ IsSequence(made.attributes)
         /\ "property" \in options.rejects /\ transfer.is = "found" =>
              \A i \in DOMAIN made.attributes : made.attributes[i].name \in ToSet(transfer.what)
         /\ options.ordered => transfer.is = "found" /\ Placed(made.attributes, transfer.what)
<1> DEFINE N == Len(object.attributes)
           outcomes == [i \in DOMAIN object.attributes |-> TransformAttribute(t, object, i, part)]
           r == made.attributes
           s == ordered.of
<1>1. N \in Nat /\ DOMAIN object.attributes = 1 .. N
  BY DEF IsSequence
<1>2. members = AllOf(outcomes) /\ ~members.thrown
  BY DEF MadeOf
<1>3. /\ members.of = [i \in DOMAIN outcomes |-> outcomes[i].of]
      /\ \A i \in DOMAIN outcomes : ~outcomes[i].thrown
  BY <1>2, AllMade
<1>4. /\ DOMAIN outcomes = 1 .. N
      /\ \A i \in 1 .. N : outcomes[i] = TransformAttribute(t, object, i, part)
  BY <1>1
<1> HIDE DEF outcomes, N
<1>5. IsSequence(members.of)
  <2> DEFINE U == {outcomes[i].of : i \in 1 .. N}
  <2>1. members.of \in [1 .. N -> U]
    BY <1>3, <1>4
  <2> HIDE DEF U
  <2>2. members.of \in UNION {[1 .. k -> U] : k \in Nat}
    BY <1>1, <2>1
  <2>3. members.of \in Seq(U)
    BY <2>2, SeqDef, Zenon
  <2> QED BY <2>3, SequenceOf
<1>6. ordered = Ordered(t, object, members.of) /\ ~ordered.thrown /\ r = Appended(s)
  BY DEF MadeOf
<1>7. /\ IsSequence(s) /\ ToSet(s) \subseteq ToSet(members.of)
      /\ options.ordered => transfer.is = "found" /\ Placed(s, transfer.what)
  BY <1>5, <1>6, OrderedIs
<1>8. IsSequence(r) /\ NamesFrom(r, s, Len(s))
  BY <1>6, <1>7, AppendedNames
<1>9. /\ DOMAIN r = 1 .. Len(r) /\ DOMAIN s = 1 .. Len(s)
      /\ Len(r) \in Nat /\ Len(s) \in Nat
  BY <1>7, <1>8 DEF IsSequence
<1> HIDE DEF r, s
<1>10. PICK h \in [1 .. Len(r) -> 1 .. Len(s)] :
         /\ \A i, j \in 1 .. Len(r) : i < j => h[i] < h[j]
         /\ \A i \in 1 .. Len(r) : r[i].name = s[h[i]].name
  BY <1>8 DEF NamesFrom
<1>11. ASSUME "property" \in options.rejects, transfer.is = "found", NEW i \in DOMAIN r
       PROVE  r[i].name \in ToSet(transfer.what)
  <2>1. i \in 1 .. Len(r) /\ h[i] \in DOMAIN s
    BY <1>9, <1>10
  <2>2. s[h[i]] \in ToSet(members.of)
    BY <1>7, <2>1 DEF ToSet
  <2>3. PICK k \in 1 .. N : s[h[i]] = outcomes[k].of
    BY <1>3, <1>4, <2>2 DEF ToSet
  <2> DEFINE o == outcomes[k]
             name == object.attributes[k].name
             member == TranslateMember(t, object.tag, name)
  <2>4. o = TransformAttribute(t, object, k, part) /\ ~o.thrown
    BY <1>3, <1>4
  <2> HIDE DEF o
  <2>5. ~member.thrown /\ o.of.name = member.of
    BY <2>4, AttributeNamed
  <2> HIDE DEF name
  <2>6. /\ ResolveProperty(index, object.tag, name, t.selected, t.version) = Found(member.of)
        /\ ~IsTransientProperty(index, object.tag, name)
    BY <1>11, <2>5, MemberNamed
  <2> HIDE DEF member
  <2>7. member.of \in ToSet(transfer.what)
    BY <1>11, <2>6, OrderHasName
  <2>8. r[i].name = member.of
    BY <1>10, <2>1, <2>3, <2>5 DEF o
  <2> QED BY <2>7, <2>8
<1>12. ASSUME options.ordered  PROVE transfer.is = "found" /\ Placed(r, transfer.what)
  <2>1. transfer.is = "found" /\ Placed(s, transfer.what)
    BY <1>7, <1>12
  <2>2. ASSUME NEW i \in DOMAIN r, NEW j \in DOMAIN r, i < j
        PROVE  Place(r[i].name, transfer.what) <= Place(r[j].name, transfer.what)
    <3>1. /\ h[i] \in DOMAIN s /\ h[j] \in DOMAIN s /\ h[i] < h[j]
          /\ r[i].name = s[h[i]].name /\ r[j].name = s[h[j]].name
      BY <1>9, <1>10, <2>2
    <3> QED BY <2>1, <3>1 DEF Placed
  <2> QED BY <2>1, <2>2 DEF Placed
<1> QED BY <1>8, <1>11, <1>12 DEF r

LEMMA WritesWell ==
  ASSUME IsIndex(index), options.writer, NEW t, NEW object, IsSequence(object.attributes), NEW part,
         NEW o, o = TransformWith(t, object, TRUE, part), ~o.thrown
  PROVE  WellMade(object, o.of, t)
<1> DEFINE class == ResolveClass(index, object.tag, t.selected, t.version)
           transfer == TransferProperties(index, object.tag, t.selected, t.version)
           made == o.of
           names == [i \in DOMAIN made.attributes |-> made.attributes[i].name]
<1>1. CASE Lookup(object.tag, index.classes) = Unknown
  <2>1. class.is = "unknown"
    BY <1>1, ClassIs
  <2>2. o = ReportOrThrow(object, "class" \in options.rejects)
    BY <2>1 DEF TransformWith, OnAnswer
  <2>3. PICK rejected : rejected = ("class" \in options.rejects)
    OBVIOUS
  <2>4. ~rejected
    <3>1. rejected \in BOOLEAN
      BY <2>3
    <3>2. o = ReportOrThrow(object, rejected)
      BY <2>2, <2>3
    <3> QED BY <3>1, <3>2, ReportOrThrowIs
  <2>5. "class" \notin options.rejects
    BY <2>3, <2>4
  <2> QED BY <1>1, <2>5 DEF WellMade
<1>2. CASE Lookup(object.tag, index.classes) # Unknown
  <2>1. class.is \in {"found", "throws"}
    BY <1>2, ClassIs
  <2>2. class.is = "found"
    <3> SUFFICES ASSUME class.is = "throws"  PROVE FALSE
      BY <2>1
    <3>1. o = Thrown
      BY DEF TransformWith, OnAnswer
    <3> QED BY <3>1, ThrownIs
  <2>3. o = TransformAs(t, object, class.what, TRUE, part)
    BY <2>2 DEF TransformWith, OnAnswer
  <2> HIDE DEF class
  <2>4. PICK members, ordered : MadeOf(t, object, part, made, members, ordered)
    BY <2>3, TransformedAs
  <2> HIDE DEF transfer, made
  <2>5. /\ IsSequence(made.attributes)
        /\ "property" \in options.rejects /\ transfer.is = "found" =>
             \A i \in DOMAIN made.attributes : made.attributes[i].name \in ToSet(transfer.what)
        /\ options.ordered => transfer.is = "found" /\ Placed(made.attributes, transfer.what)
    BY <2>4, MadeNames DEF transfer
  <2>6. DOMAIN names = DOMAIN made.attributes
    OBVIOUS
  <2>7. "property" \in options.rejects /\ transfer.is = "found" => ToSet(names) \subseteq ToSet(transfer.what)
    <3>1. \A x \in ToSet(names) : \E i \in DOMAIN made.attributes : x = made.attributes[i].name
      BY DEF ToSet
    <3> QED BY <2>5, <3>1
  <2>8. options.ordered => \A i, j \in DOMAIN names : i < j =>
          Place(names[i], transfer.what) <= Place(names[j], transfer.what)
    BY <2>5 DEF Placed
  <2> QED BY <1>2, <2>5, <2>7, <2>8 DEF WellMade, transfer, made
<1> QED BY <1>1, <1>2

-----------------------------------------------------------------------------
(* The model layer: what the generic writer gets *)
LEMMA ObjectWritten ==
  ASSUME IsIndex(index), options.writer, NEW t, NEW object, IsSequence(object.attributes),
         NEW o, o = TransformObject(t, object, TRUE), ~o.thrown
  PROVE  WellMade(object, o.of, t)
<1>1. PICK part : o = TransformWith(t, object, TRUE, part)
  BY DEF TransformObject
<1> QED BY <1>1, WritesWell

WellMadeIn(e) == script[e.item] = "Object" => WellMade(content[e.item], e.event, e.by)

\* The inductive invariant.
ModelInv ==
  /\ IsIndex(index) /\ HasContent(script, content)
  /\ written \in 0 .. Len(script) /\ IsSequence(accepted)
  /\ Len(accepted) <= written /\ (~writerFailed => Len(accepted) = written)
  /\ output = "closed" => accepted # <<>> /\ script[Last(accepted).item] = "EndTransfer"
  /\ \A n \in DOMAIN accepted : accepted[n].item = n /\ WellMadeIn(accepted[n])

LEMMA ModelInvInit ==
  ASSUME IsIndex(index), HasContent(script, content), IlicInit
  PROVE  ModelInv
<1>1. Len(script) \in Nat
  BY DEF HasContent, IsSequence
<1>2. accepted = <<>> /\ written = 0 /\ output = "open"
  BY DEF IlicInit
<1>3. IsSequence(<<>>) /\ Len(<<>>) = 0 /\ DOMAIN <<>> = {}
  BY DEF IsSequence
<1> QED BY <1>1, <1>2, <1>3 DEF ModelInv

\* What is there already stays well made.
LEMMA StaysMade ==
  ASSUME UNCHANGED <<script, index, content, options>>, NEW e, WellMadeIn(e)
  PROVE  WellMadeIn(e)'
<1>1. WellMade(content[e.item], e.event, e.by)' <=> WellMade(content[e.item], e.event, e.by)
  BY DEF WellMade
<1> QED BY <1>1 DEF WellMadeIn

\* A step that leaves the accepted events as they are.
AcceptedKept ==
  /\ UNCHANGED <<script, index, content, options, accepted>>
  /\ writerFailed' = writerFailed \/ writerFailed' = TRUE
  /\ \/ output' = output
     \/ output' # "closed"
     \/ accepted # <<>> /\ script[Last(accepted).item] = "EndTransfer"
  /\ \/ written' = written
     \/ written < Len(script) /\ written' = written + 1 /\ writerFailed'

LEMMA ModelInvKept ==
  ASSUME ModelInv, AcceptedKept
  PROVE  ModelInv'
<1>1. \A n \in DOMAIN accepted : WellMadeIn(accepted[n])'
  BY StaysMade DEF ModelInv, AcceptedKept
<1>2. IsIndex(index)' /\ HasContent(script, content)'
  BY DEF ModelInv, AcceptedKept
<1>3. Len(script) \in Nat /\ Len(accepted) \in Nat
  BY DEF ModelInv, HasContent, IsSequence
<1>4. /\ written' \in 0 .. Len(script) /\ Len(accepted) <= written'
      /\ (~writerFailed' => Len(accepted) = written')
  BY <1>3 DEF ModelInv, AcceptedKept
<1>5. output' = "closed" => accepted # <<>> /\ script[Last(accepted).item] = "EndTransfer"
  BY DEF ModelInv, AcceptedKept
<1>6. UNCHANGED <<script, accepted>>
  BY DEF AcceptedKept
<1> QED BY <1>1, <1>2, <1>4, <1>5, <1>6 DEF ModelInv

\* The next event is accepted.
LEMMA ModelAccepts ==
  ASSUME ModelInv, options.writer, written < Len(script), ~writerFailed, output = "open",
         UNCHANGED <<script, index, content, options, output, writerFailed>>, written' = written + 1,
         NEW outcome, outcome = Transformed(transformer, written + 1), ~outcome.thrown,
         NEW e, e = [item |-> written + 1, event |-> outcome.of, by |-> transformer],
         accepted' = Append(accepted, e)
  PROVE  ModelInv'
<1> DEFINE n == written + 1
<1>1. /\ Len(script) \in Nat /\ DOMAIN script = 1 .. Len(script) /\ written \in Nat
      /\ n \in DOMAIN script
  BY DEF ModelInv, HasContent, IsSequence
<1>2. e.item = n /\ e.event = outcome.of /\ e.by = transformer
  OBVIOUS
<1>3. WellMadeIn(e)
  <2> SUFFICES ASSUME script[n] = "Object"
               PROVE  WellMade(content[n], outcome.of, transformer)
    BY <1>2 DEF WellMadeIn
  <2>1. outcome = TransformObject(transformer, content[n], TRUE)
    BY DEF Transformed
  <2>2. IsIndex(index) /\ IsSequence(content[n].attributes)
    BY <1>1 DEF ModelInv, HasContent
  <2> QED BY <2>1, <2>2, ObjectWritten
<1>4. WellMadeIn(e)'
  BY <1>3, StaysMade
<1>5. PICK old : old = accepted
  OBVIOUS
<1>6. \A k \in DOMAIN old : WellMadeIn(old[k])' /\ old[k].item = k
  BY <1>5, StaysMade DEF ModelInv
<1>7. old \in Seq(ToSet(old)) /\ Len(old) = written
  BY <1>5 DEF ModelInv, IsSequence
<1> DEFINE T == ToSet(old) \cup {e}
           longer == Append(old, e)
<1>8. old \in Seq(T) /\ DOMAIN old = 1 .. written
  BY <1>7, SeqMonotonic
<1>9. longer \in Seq(T) /\ Len(longer) = n /\ longer[n] = e /\ DOMAIN longer = 1 .. n
  <2>1. e \in T
    OBVIOUS
  <2> HIDE DEF T
  <2>2. longer \in Seq(T) /\ Len(longer) = Len(old) + 1 /\ longer[Len(old) + 1] = e
    BY <1>8, <2>1, AppendProperties
  <2> HIDE DEF longer
  <2>3. DOMAIN longer = 1 .. Len(longer)
    BY <2>2
  <2> QED BY <1>7, <2>2, <2>3
<1>10. \A k \in 1 .. written : longer[k] = old[k]
  <2> HIDE DEF T
  <2> QED BY <1>1, <1>7, <1>8, AppendProperties
<1>11. IsSequence(longer)
  <2> HIDE DEF T, longer
  <2> QED BY <1>9, SequenceOf
<1>12. \A k \in 1 .. n : k = n \/ k \in 1 .. written
  BY <1>1
<1> HIDE DEF longer
<1>13. ASSUME NEW k \in DOMAIN longer  PROVE longer[k].item = k /\ WellMadeIn(longer[k])'
  <2>1. CASE k = n
    BY <1>2, <1>4, <1>9, <2>1
  <2>2. CASE k \in 1 .. written
    BY <1>6, <1>8, <1>10, <2>2
  <2> QED BY <1>9, <1>12, <2>1, <2>2
<1>14. IsIndex(index)' /\ HasContent(script, content)'
  BY DEF ModelInv
<1>15. accepted' = longer
  BY <1>5 DEF longer
<1>16. written' \in 0 .. Len(script) /\ Len(longer) = written'
  BY <1>1, <1>9
<1>17. Len(longer) <= written'
  BY <1>1, <1>16
<1>18. output' # "closed" /\ IsSequence(accepted)'
  BY <1>11, <1>15
<1>19. \A k \in DOMAIN accepted' : accepted'[k].item = k /\ WellMadeIn(accepted[k])'
  BY <1>13, <1>15
<1> QED BY <1>14, <1>15, <1>16, <1>17, <1>18, <1>19 DEF ModelInv

LEMMA ModelWriteStep ==
  ASSUME ModelInv, ModelWrite
  PROVE  ModelInv'
<1>1. /\ options.writer /\ written < Len(script) /\ written' = written + 1
      /\ UNCHANGED <<script, index, content, options>>
  BY DEF ModelWrite, ReaderUnchanged
<1>2. CASE writerFailed /\ UNCHANGED <<transformer, notes, accepted, output, writerFailed>>
  <2>1. AcceptedKept
    BY <1>1, <1>2 DEF AcceptedKept
  <2> QED BY <2>1, ModelInvKept
<1>3. CASE Fails(FALSE) \/ Fails(output = "open")
  <2>1. UNCHANGED accepted /\ writerFailed' = TRUE /\ output' \in {output, "failed"}
    BY <1>3 DEF Fails
  <2>2. AcceptedKept
    BY <1>1, <2>1 DEF AcceptedKept
  <2> QED BY <2>2, ModelInvKept
<1>4. ASSUME ~writerFailed, NEW outcome, outcome = Transformed(transformer, written'), ~outcome.thrown,
             output = "open",
             accepted' = Append(accepted, [item |-> written', event |-> outcome.of, by |-> transformer]),
             UNCHANGED <<output, writerFailed>>
      PROVE  ModelInv'
  <2> DEFINE e == [item |-> written + 1, event |-> outcome.of, by |-> transformer]
  <2>1. accepted' = Append(accepted, e) /\ outcome = Transformed(transformer, written + 1)
    BY <1>1, <1>4
  <2> HIDE DEF e
  <2>2. e = [item |-> written + 1, event |-> outcome.of, by |-> transformer]
    BY DEF e
  <2> QED BY <1>1, <1>4, <2>1, <2>2, ModelAccepts
<1> QED BY <1>2, <1>3, <1>4 DEF ModelWrite

LEMMA ModelInvStep ==
  ASSUME ModelInv, [IlicNext]_ilicVars
  PROVE  ModelInv'
<1>1. CASE UNCHANGED ilicVars
  <2>1. AcceptedKept
    BY <1>1 DEF AcceptedKept, ilicVars, modelWriterVars, modelReaderVars
  <2> QED BY <2>1, ModelInvKept
<1>2. CASE ModelReader
  <2>1. WriterUnchanged
    BY <1>2 DEF ModelReader, ModelFeed, ModelFinish, ModelNext
  <2>2. AcceptedKept
    BY <2>1 DEF AcceptedKept, WriterUnchanged, modelWriterVars
  <2> QED BY <2>2, ModelInvKept
<1>3. CASE ModelWrite
  BY <1>3, ModelWriteStep
<1>4. CASE ModelFlush
  <2>1. AcceptedKept
    BY <1>4 DEF ModelFlush, Fails, ReaderUnchanged, AcceptedKept
  <2> QED BY <2>1, ModelInvKept
<1>5. CASE ModelClose
  <2>1. AcceptedKept
    BY <1>5 DEF ModelClose, Fails, ReaderUnchanged, AcceptedKept
  <2> QED BY <2>1, ModelInvKept
<1>6. CASE ModelTakeDiagnostics
  <2>1. AcceptedKept
    BY <1>6 DEF ModelTakeDiagnostics, modelWriterVars, AcceptedKept
  <2> QED BY <2>1, ModelInvKept
<1> QED BY <1>1, <1>2, <1>3, <1>4, <1>5, <1>6 DEF IlicNext, ModelWriter

\* What the model layer hands to the generic writer is the transfer, in its order and well made for
\* the model that the header selects, whatever the models, the options and the transfer are.
THEOREM ModelDataIsWritten == IlicSpec => []WritesModelData
<1>1. IsIndex(index) /\ HasContent(script, content) /\ IlicInit => ModelInv
  BY ModelInvInit
<1>2. ModelInv /\ [IlicNext]_ilicVars => ModelInv'
  BY ModelInvStep
<1>3. ModelInv => WritesModelData
  <2> SUFFICES ASSUME ModelInv  PROVE WritesModelData
    OBVIOUS
  <2>1. \A e \in ToSet(accepted) : WellMadeIn(e)
    BY DEF ModelInv, ToSet
  <2> QED BY <2>1 DEF ModelInv, WritesModelData, WellMadeIn, IsClosed
<1> QED BY <1>1, <1>2, <1>3, PTL DEF IlicSpec
=============================================================================
