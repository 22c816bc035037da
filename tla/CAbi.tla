---------------------------------- MODULE CAbi ----------------------------------
(***************************************************************************)
(* The handles of the C ABI, source/abi/iox.cpp.  A call of the ABI is an  *)
(* operator: the set of what it may leave in the handle, with its status   *)
(* and its result.  The parameter `memory' says where an allocation of the *)
(* call fails, if one does:                                                *)
(*   "enough"     none                                                     *)
(*   "no result"  makeResult() returns null                                *)
(*   "no bytes"   the output cannot be copied into the result              *)
(* A handle or an argument that is null, and text that holds more or less  *)
(* than one event, are not passed by index.js and are left out.            *)
(***************************************************************************)
EXTENDS Reader

\* A diagnostic of the ABI itself, and all others by the item they come from.
OwnDiagnostic == 0

IsError(d) == d = OwnDiagnostic \/ script[d] \in {"error", "fault"}
HasError(diagnostics) == \E n \in DOMAIN diagnostics : IsError(diagnostics[n])

NoResult == [status |-> "none", event |-> 0, diagnostics |-> <<>>, bytes |-> <<>>]

Result(memory, status, diagnostics) ==
  IF memory = "no result" THEN NoResult
  ELSE [status |-> status, event |-> 0, diagnostics |-> diagnostics, bytes |-> <<>>]

Return(handle, status, result) == [handle |-> handle, status |-> status, result |-> result]

\* remember(): the exception becomes a diagnostic and the handle is of no more use.  What the
\* implementation has recorded in the same call stays behind in it.
Remember(handle, d) ==
  [handle EXCEPT !.diagnostics = Append(@, d), !.terminal = TRUE]
-----------------------------------------------------------------------------
(* Reader handles *)
iox_reader_create ==
  [impl |-> FreshReader, diagnostics |-> <<>>,
   finished |-> FALSE, ended |-> FALSE, terminal |-> FALSE]

\* takeReaderDiagnostics(), and an error among them ends the handle.
TakeReaderDiagnostics(r, impl) ==
  LET diagnostics == r.diagnostics \o Recorded(impl)
  IN  [r EXCEPT !.impl = Taken(impl), !.diagnostics = diagnostics,
                !.terminal = HasError(diagnostics)]

\* What feed and finish make of the implementation's call.  An implementation that has failed
\* is not called again, so that the error is that of the item it got to.
AfterInput(r, impl) ==
  LET after == IF impl.failed THEN Remember([r EXCEPT !.impl = impl], impl.parsed)
               ELSE TakeReaderDiagnostics(r, impl)
  IN  Return(after, IF after.terminal THEN "ERROR" ELSE "OK", NoResult)

\* Mutant of Refused: only the end of the input is looked at.
RefusedAtTheEnd(r) == r.finished \/ r.ended

Refused(r) == r.terminal \/ r.finished \/ r.ended

iox_reader_feed(r) ==
  IF Refused(r) THEN {Return(r, "INVALID_STATE", NoResult)}
  ELSE {AfterInput(r, impl) : impl \in Fed(r.impl)}

iox_reader_finish(r) ==
  IF Refused(r) THEN {Return(r, "INVALID_STATE", NoResult)}
  ELSE {AfterInput([r EXCEPT !.finished = ~impl.failed], impl) : impl \in Finished(r.impl)}

ErrorResult(memory, handle) ==
  Return(handle, "ERROR", Result(memory, "ERROR", handle.diagnostics))

StatusOf == [Event |-> "EVENT", NeedInput |-> "NEED_INPUT", End |-> "END"]

\* Mutant of Reported: the diagnostics that are reported stay in the handle.
ReportedAndKept(memory, r, o) ==
  IF memory = "no result" THEN Return(r, "ERROR", NoResult)
  ELSE Return(r, StatusOf[o.progress],
              [Result(memory, StatusOf[o.progress], r.diagnostics) EXCEPT !.event = o.event])

\* The answer, with the diagnostics so far.  Without memory for it the diagnostics are kept; the
\* event is gone, and so is the news of the end.
Reported(memory, r, o) ==
  IF memory = "no result" THEN Return(r, "ERROR", NoResult)
  ELSE Return([r EXCEPT !.diagnostics = <<>>], StatusOf[o.progress],
              [Result(memory, StatusOf[o.progress], r.diagnostics) EXCEPT !.event = o.event])

AfterNext(memory, r, o) ==
  IF o.progress = "Threw"
  THEN ErrorResult(memory, Remember([r EXCEPT !.impl = o.reader], o.reader.parsed))
  ELSE LET after == TakeReaderDiagnostics(r, o.reader)
       IN  IF after.terminal THEN ErrorResult(memory, after)
           ELSE Reported(memory, [after EXCEPT !.ended = o.progress = "End"], o)

iox_reader_next(memory, r) ==
  IF r.terminal \/ HasError(r.diagnostics) THEN {ErrorResult(memory, r)}
  ELSE IF r.ended
  THEN {Return(r, "INVALID_STATE", Result(memory, "INVALID_STATE", <<OwnDiagnostic>>))}
  ELSE {AfterNext(memory, r, o) : o \in NextOf(r.impl)}
-----------------------------------------------------------------------------
(* Writer handles.  An event is named by its item; the writer's output is  *)
(* the sequence of what it has written, Cut for an event that failed half- *)
(* way and Closing for what close() adds.                                  *)

Cut == 0
Closing == Len(script) + 1

\* How the implementation takes an event: it may record a diagnostic or throw.
Reaction == {"fine", "warns", "errs", "throws"}

iox_writer_create ==
  [written |-> <<>>, sink |-> <<>>, diagnostics |-> <<>>, finished |-> FALSE, terminal |-> FALSE]

\* The order that the parser of the event's text, and the writer itself, insist on.
InOrder(last, kind) ==
  CASE last = "none" -> kind = "StartTransfer"
    [] last \in {"StartTransfer", "EndBasket"} -> kind \in {"StartBasket", "EndTransfer"}
    [] last \in {"StartBasket", "Object"} -> kind \in {"Object", "EndBasket"}
    [] OTHER -> FALSE

LastWritten(w) == IF w.written = <<>> THEN "none" ELSE script[Last(w.written)]

\* A writer that has failed repeats its diagnostics, one that is finished adds one more.
WriterRefused(memory, w) ==
  LET after == IF w.terminal THEN w ELSE [w EXCEPT !.diagnostics = Append(@, OwnDiagnostic)]
      status == IF w.terminal THEN "ERROR" ELSE "INVALID_STATE"
  IN  Return(after, status, Result(memory, status, after.diagnostics))

\* Mutant of EventWritten: the diagnostics that are reported stay in the handle.
EventWrittenAndKept(memory, w, e, reaction) ==
  LET diagnostics == w.diagnostics \o (IF reaction = "fine" THEN <<>> ELSE <<e>>)
      status == IF reaction = "errs" THEN "ERROR" ELSE "OK"
  IN  Return([w EXCEPT !.written = Append(@, e), !.sink = Append(@, e),
                       !.diagnostics = diagnostics, !.terminal = reaction = "errs"],
             status, Result(memory, status, diagnostics))

\* The event is written.  Its diagnostics are forgotten, with or without a result; as the writer
\* may record an error and go on, the handle may be terminal without any.
EventWritten(memory, w, e, reaction) ==
  LET diagnostics == w.diagnostics \o (IF reaction = "fine" THEN <<>> ELSE <<e>>)
      status == IF reaction = "errs" THEN "ERROR" ELSE "OK"
  IN  Return([w EXCEPT !.written = Append(@, e), !.sink = Append(@, e),
                       !.diagnostics = <<>>, !.terminal = reaction = "errs"],
             status, Result(memory, status, diagnostics))

iox_writer_write_event_json(memory, w, e, reaction) ==
  IF w.finished \/ w.terminal THEN WriterRefused(memory, w)
  ELSE IF ~InOrder(LastWritten(w), script[e]) THEN ErrorResult(memory, Remember(w, OwnDiagnostic))
  ELSE IF reaction = "throws"
  THEN ErrorResult(memory, Remember([w EXCEPT !.sink = Append(@, Cut)], OwnDiagnostic))
  ELSE EventWritten(memory, w, e, reaction)

\* The sink's bytes are moved out and copied into the result.  If the copy fails they are lost,
\* and the result is never destroyed.
WithOutput(memory, w, status) ==
  LET emptied == [w EXCEPT !.sink = <<>>]
  IN  CASE memory = "no result" -> Return(w, "ERROR", NoResult)
        [] memory = "no bytes"  -> ErrorResult(memory, Remember(emptied, OwnDiagnostic))
        [] OTHER -> Return(emptied, status,
                           [Result(memory, status, w.diagnostics) EXCEPT !.bytes = w.sink])

\* Mutant of iox_writer_take_output: the bytes are taken before there is a result for them.
TakeOutputFirst(memory, w) ==
  IF w.finished
  THEN Return(w, "INVALID_STATE", Result(memory, "INVALID_STATE", <<OwnDiagnostic>>))
  ELSE LET taken == WithOutput(memory, w, IF w.terminal THEN "ERROR" ELSE "OK")
       IN  [taken EXCEPT !.handle.sink = <<>>]

iox_writer_take_output(memory, w) ==
  IF w.finished
  THEN Return(w, "INVALID_STATE", Result(memory, "INVALID_STATE", <<OwnDiagnostic>>))
  ELSE WithOutput(memory, w, IF w.terminal THEN "ERROR" ELSE "OK")

\* Nothing is closed before the transfer is complete.
iox_writer_finish(memory, w) ==
  IF w.finished \/ w.terminal THEN WriterRefused(memory, w)
  ELSE IF LastWritten(w) # "EndTransfer" THEN ErrorResult(memory, Remember(w, OwnDiagnostic))
  ELSE WithOutput(memory, [w EXCEPT !.sink = Append(@, Closing), !.finished = TRUE], "OK")
=============================================================================
