------------------------------- MODULE XtfWriter -------------------------------
(***************************************************************************)
(* The XTF writer: the coordinator source/xtf/common/XtfWriter.cpp over    *)
(* the XML writer, and the caller that writes events, flushes and closes   *)
(* in any order.                                                           *)
(*                                                                         *)
(* The dialect writers are parameters: CallsOf(w, e) is what a dialect in  *)
(* state w does for the event e, as a sequence of calls of the XML writer, *)
(* of diagnostics and of checks that throw.  One step makes one call, so   *)
(* that the sink may fail at every one of them.                            *)
(***************************************************************************)
EXTENDS XmlWriter, FiniteSets

CONSTANTS
  Events,           \* the events the caller may write
  Writers,            \* the states of the dialect writers
  NewWriters,         \* the first ones, for each version and options
  CallsOf(_, _),      \* what the dialect does for an event
  StateAfter(_, _),   \* the state it is in afterwards
  OpenOf(_),          \* the elements of the transfer it has open between two baskets
  MaxEvents           \* a bound on the events of a transfer

Kind == {"StartTransfer", "StartBasket", "Object", "EndBasket", "EndTransfer"}
Severity == {"Warning", "Error"}

\* A diagnostic, or a check that does not hold.
DialectCall == XmlCall \cup [op : {"report"}, severity : Severity] \cup [op : {"fail"}]

ASSUME EventsAssumption == \A e \in Events : e.kind \in Kind
ASSUME DialectAssumption ==
  /\ NewWriters \subseteq Writers
  /\ \A w \in Writers, e \in Events :
       CallsOf(w, e) \in Seq(DialectCall) /\ StateAfter(w, e) \in Writers
ASSUME MaxEventsAssumption == MaxEvents \in Nat

\* A namespace is declared on a start tag before it has an attribute: on the root, whose prefix
\* is declared there, or to undeclare the default namespace for an element without namespace.
DeclaresFirst(s) ==
  \A j \in DOMAIN s : s[j].op = "writeNamespace" =>
    \E i \in 1 .. j - 1 :
      /\ s[i].op = "startElement"
      /\ \A k \in i + 1 .. j - 1 : s[k].op \in {"writeNamespace", "report", "fail"}
      /\ IF s[i].name.ns = NoNamespace
         THEN s[j].prefix = NoPrefix /\ s[j].ns = NoNamespace
         ELSE i = 2 /\ s[1].op = "startDocument"

ASSUME DeclaringAssumption == \A w \in Writers, e \in Events : DeclaresFirst(CallsOf(w, e))

\* Every element without namespace undeclares the default one at once.  The 2.3 writer does
\* so; the 2.4 writer does not, but has such elements in preserved extensions only.
UndeclaresIn(s) ==
  \A i \in DOMAIN s :
    (s[i].op = "startElement" /\ s[i].name.ns = NoNamespace) =>
      i < Len(s) /\ s[i + 1].op = "writeNamespace"
Undeclares == \A w \in Writers, e \in Events : UndeclaresIn(CallsOf(w, e))

\* What an event leaves open: of the elements it finds open, so many more or fewer, if no check of
\* the dialect stops it.
Calling(op, s) == {i \in DOMAIN s : s[i].op = op}
Balances(s, before, after) ==
  Calling("fail", s) = {} =>
    before + Cardinality(Calling("startElement", s)) = after + Cardinality(Calling("endElement", s))

ASSUME BalancedAssumption ==
  \A w \in Writers, e \in Events :
    LET s == CallsOf(w, e)
        next == StateAfter(w, e)
    IN  /\ OpenOf(w) \in Nat
        /\ CASE e.kind = "StartTransfer" -> w \in NewWriters => Balances(s, 0, OpenOf(next))
             [] e.kind = "StartBasket"   -> Balances(s, OpenOf(w), OpenOf(next) + 1)
             [] e.kind = "Object"        -> Balances(s, 0, 0) /\ OpenOf(next) = OpenOf(w)
             [] e.kind = "EndBasket"     -> Balances(s, 1, 0) /\ OpenOf(next) = OpenOf(w)
             [] e.kind = "EndTransfer"   -> Balances(s, OpenOf(w), 0)

VARIABLES
  state,          \* WriterState
  writer,         \* the dialect writer
  running,        \* the events whose write() has not returned: none or one
  calls,          \* what is left of it
  written,        \* history: the events whose write() has returned
  told,           \* history: the severities of all diagnostics
  reply           \* what the last call answered

coordinatorVars == <<state, writer, running, calls, written, told, reply>>
vars == <<coordinatorVars, xmlVars, sinkVars>>

WriterState == {"BeforeTransfer", "InTransfer", "InBasket", "AfterBasket", "AfterTransfer",
                "Closed", "Failed"}

Init ==
  /\ XmlInit
  /\ state = "BeforeTransfer" /\ writer \in NewWriters
  /\ running = <<>> /\ calls = <<>>
  /\ written = <<>> /\ told = {} /\ reply = "None"

Idle == running = <<>>

\* Mutant of Throw: write() does not catch what the dialect throws, and the writer goes on.
ThrowGoesOn == UNCHANGED state /\ reply' = "Error" /\ running' = <<>> /\ calls' = <<>>

\* An exception leaves the call.
Throw == state' = "Failed" /\ reply' = "Error" /\ running' = <<>> /\ calls' = <<>>

\* A call is refused and changes nothing.
Refuse ==
  /\ reply' = "Error"
  /\ UNCHANGED <<state, writer, running, calls, written, told, xmlVars, sinkVars>>
-----------------------------------------------------------------------------
(* write *)

\* Mutant of Valid: an object may come between two baskets.
ValidBetweenBaskets(kind) ==
  \/ state = "BeforeTransfer" /\ kind = "StartTransfer"
  \/ state \in {"InTransfer", "AfterBasket"} /\ kind \in {"StartBasket", "EndTransfer"}
  \/ state \in {"InBasket", "AfterBasket"} /\ kind = "Object"
  \/ state = "InBasket" /\ kind = "EndBasket"

\* validate
Valid(kind) ==
  \/ state = "BeforeTransfer" /\ kind = "StartTransfer"
  \/ state \in {"InTransfer", "AfterBasket"} /\ kind \in {"StartBasket", "EndTransfer"}
  \/ state = "InBasket" /\ kind \in {"Object", "EndBasket"}

\* advance
Advanced(kind) ==
  CASE kind = "StartTransfer" -> "InTransfer"
    [] kind = "StartBasket"   -> "InBasket"
    [] kind = "Object"        -> state
    [] kind = "EndBasket"     -> "AfterBasket"
    [] kind = "EndTransfer"   -> "AfterTransfer"

WriteRefused == Idle /\ state \in {"Closed", "Failed"} /\ Refuse

WriteOutOfOrder(e) ==
  /\ Idle /\ state \notin {"Closed", "Failed"}
  /\ ~Valid(e.kind)
  /\ Throw
  /\ UNCHANGED <<writer, written, told, xmlVars, sinkVars>>

WriteBegins(e) ==
  /\ Idle /\ state \notin {"Closed", "Failed"}
  /\ Valid(e.kind)
  /\ Len(written) < MaxEvents
  /\ running' = <<e>> /\ calls' = CallsOf(writer, e)
  /\ UNCHANGED <<state, writer, written, told, reply, xmlVars, sinkVars>>

\* The next call of the dialect reaches the XML writer and succeeds.
CallSucceeds ==
  /\ calls # <<>> /\ Head(calls) \in XmlCall
  /\ XmlSucceeds(Head(calls))
  /\ calls' = Tail(calls)
  /\ UNCHANGED <<state, writer, running, written, told, reply>>

\* A diagnostic is added.
CallReports ==
  /\ calls # <<>> /\ Head(calls).op = "report"
  /\ told' = told \cup {Head(calls).severity}
  /\ calls' = Tail(calls)
  /\ UNCHANGED <<state, writer, running, written, reply, xmlVars, sinkVars>>

\* A check of the dialect, a check of the XML writer or the sink stops the event half-way.
CallThrows ==
  /\ calls # <<>>
  /\ \/ Head(calls) \in XmlCall /\ (XmlRefuses(Head(calls)) \/ SinkFails(Head(calls)))
     \/ Head(calls).op = "fail" /\ UNCHANGED <<xmlVars, sinkVars>>
  /\ Throw
  /\ UNCHANGED <<writer, written, told>>

WriteReturns ==
  /\ ~Idle /\ calls = <<>>
  /\ state' = Advanced(running[1].kind)
  /\ writer' = StateAfter(writer, running[1])
  /\ written' = written \o running
  /\ running' = <<>> /\ reply' = "Ok"
  /\ UNCHANGED <<calls, told, xmlVars, sinkVars>>
-----------------------------------------------------------------------------
(* flush and close *)

\* A flush before the transfer is refused, but does no harm.
FlushRefusedInState == Idle /\ state \in {"Failed", "Closed", "BeforeTransfer"} /\ Refuse

Flush ==
  /\ Idle /\ state \notin {"Failed", "Closed", "BeforeTransfer"}
  /\ FlushXml
  /\ reply' = "Ok"
  /\ UNCHANGED <<state, writer, running, calls, written, told>>

FlushFails ==
  /\ Idle /\ state \notin {"Failed", "Closed", "BeforeTransfer"}
  /\ Throw
  /\ \/ FlushRefused /\ UNCHANGED <<document, sink>>
     \/ ~FlushRefused /\ document' \in {document, AfterFlushStart} /\ sink' = "failed"
  /\ XmlStops
  /\ UNCHANGED <<writer, written, told>>

CloseAgain ==
  /\ Idle /\ state = "Closed"
  /\ reply' = "Ok"
  /\ UNCHANGED <<state, writer, running, calls, written, told, xmlVars, sinkVars>>

CloseOfFailed == Idle /\ state = "Failed" /\ Refuse

CloseTooEarly ==
  /\ Idle /\ state \notin {"Closed", "Failed", "AfterTransfer"}
  /\ Throw
  /\ UNCHANGED <<writer, written, told, xmlVars, sinkVars>>

\* Mutant of Close: a failed writer may be closed.
CloseOfFailedToo ==
  /\ Idle /\ state \in {"AfterTransfer", "Failed"}
  /\ EndDocument
  /\ sink' = "closed"
  /\ state' = "Closed" /\ reply' = "Ok"
  /\ UNCHANGED <<writer, running, calls, written, told>>

\* Mutant of Close: an unfinished document is closed too.
CloseAnyhow ==
  /\ Idle /\ state \notin {"Closed", "Failed"}
  /\ xmlState' = "AfterDocument" /\ UNCHANGED <<frames, nextPrefix, rootStarted, document>>
  /\ sink' = "closed"
  /\ state' = "Closed" /\ reply' = "Ok"
  /\ UNCHANGED <<writer, running, calls, written, told>>

Close ==
  /\ Idle /\ state = "AfterTransfer"
  /\ EndDocument
  /\ sink' = "closed"
  /\ state' = "Closed" /\ reply' = "Ok"
  /\ UNCHANGED <<writer, running, calls, written, told>>

\* endDocument is refused, or the sink fails to take its end or to close.
CloseFails ==
  /\ Idle /\ state = "AfterTransfer"
  /\ Throw
  /\ \/ EndDocumentRefused /\ XmlStops /\ UNCHANGED sink
     \/ /\ ~EndDocumentRefused /\ sink' = "failed"
        /\ xmlState' \in {"AfterDocument", "Failed"}
        /\ UNCHANGED <<frames, nextPrefix, rootStarted>>
  /\ UNCHANGED <<writer, written, told, document>>

Next ==
  \/ \E e \in Events : WriteOutOfOrder(e) \/ WriteBegins(e)
  \/ WriteRefused
  \/ CallSucceeds \/ CallReports \/ CallThrows \/ WriteReturns
  \/ FlushRefusedInState \/ Flush \/ FlushFails
  \/ CloseAgain \/ CloseOfFailed \/ CloseTooEarly \/ Close \/ CloseFails

Spec == Init /\ [][Next]_vars
-----------------------------------------------------------------------------
(* Properties *)

\* Every variable has its type.
TypeOK ==
  /\ XmlTypeOK
  /\ state \in WriterState
  /\ writer \in Writers
  /\ running \in Seq(Events) /\ Len(running) <= 1
  /\ calls \in Seq(DialectCall)
  /\ written \in Seq(Events)
  /\ told \subseteq Severity
  /\ reply \in {"None", "Ok", "Error"}

\* What a parser has read of the output is well-formed at every moment, and the elements it has
\* open are those of the writer, with the same bindings: however an event stops half-way,
\* what the sink has is the beginning of a document.
Understood ==
  LET sent == IF frames # <<>> /\ Top.startPending THEN Depth - 1 ELSE Depth
  IN  /\ document.wellFormed
      /\ state # "Failed" =>
           document.open = [i \in 1 .. sent |-> [name |-> [prefix |-> frames[i].prefix,
                                                           local |-> frames[i].name.local],
                                                 bindings |-> frames[i].bindings]]

\* The start tag is written, or it is complete and will be: no declaration comes next.
WillBeRead(f) ==
  f.startPending => state # "Failed" /\ (calls # <<>> => Head(calls).op # "writeNamespace")

\* Every name in the output stands for the name that the dialect asked for: its prefix is
\* bound to that namespace where it stands, whatever is declared later on the same element.
NamesKept ==
  \A i \in DOMAIN frames :
    LET f == frames[i]
    IN  WillBeRead(f) =>
          /\ ElementName(f.bindings, [prefix |-> f.prefix, local |-> f.name.local]).ns = f.name.ns
          /\ \A j \in DOMAIN f.attributes :
               AttributeName(f.bindings, [prefix |-> f.attributes[j].prefix,
                                          local |-> f.attributes[j].name.local]).ns
                 = f.attributes[j].name.ns

\* Between events the elements open are those of the transfer and its basket: no event leaves one of
\* its own open or closes one of another, however the events before it ended.
OpenBetween(st, w) ==
  CASE st \in {"InTransfer", "AfterBasket"} -> OpenOf(w)
    [] st = "InBasket" -> OpenOf(w) + 1
    [] st \in {"BeforeTransfer", "AfterTransfer", "Closed"} -> 0
BalancedBetweenEvents == Idle /\ state # "Failed" => Depth = OpenBetween(state, writer)

\* A closed writer has written one complete document for a complete transfer, and the sink is
\* closed.
ClosedIsComplete ==
  state = "Closed" => /\ CompleteDocument(document)
                      /\ sink = "closed"
                      /\ written # <<>> /\ written[Len(written)].kind = "EndTransfer"

NothingMore ==
  state \in {"Failed", "Closed"} => /\ UNCHANGED <<state, written, told, document, sink>>
                                    /\ reply' = "Ok" => state = "Closed"

\* After a failure or close nothing is written any more, and no call is accepted but
\* another close.
Terminal == [][NothingMore]_vars

\* The writer takes the stream that a reader hands out.
Phase == CASE state = "Closed" -> "Ended" [] state = "Failed" -> "Failed" [] OTHER -> "Open"
Stream == INSTANCE EventStream WITH events <- written, phase <- Phase

\* What the writer accepts is a transfer in the order of the grammar; it closes only after
\* EndTransfer, and a failure is final.
TakesEventStream == Stream!Spec
=============================================================================
