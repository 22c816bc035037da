----------------------------- MODULE JsonTransfer -----------------------------
(***************************************************************************)
(* A transfer as NDJSON: the reader reads a file, or what the writer has   *)
(* put out so far, while the writer goes on.                               *)
(***************************************************************************)
EXTENDS JsonWriter, JsonReader

CONSTANTS
  Files,        \* texts from elsewhere, each with the events it stands for, if it is sound
  Findable(_)   \* an event all of whose attributes can be looked up by an INTERLIS name

VARIABLE file   \* the file that is read, or Output

vars == <<writerVars, readerVars, file>>

\* What the writer writes, instead of a file.
Output == [text |-> <<>>, events |-> <<>>]

Init ==
  /\ file \in Files \cup {Output} /\ text = file.text
  /\ WriterInit /\ ReaderInit

Writing == file = Output /\ WriterNext /\ UNCHANGED <<readerVars, file>>
Reading == ReaderNext /\ UNCHANGED <<writerVars, file>>

Next == Writing \/ Reading

Spec == Init /\ [][Next]_vars
-----------------------------------------------------------------------------
(* What a file stands for *)

\* A failed reader is only failed for its caller once its queue is empty and it was asked again.
Phase ==
  CASE IsFinished -> "Ended"
    [] readerState = "Failed" /\ queue = <<>> /\ reply # "Event" -> "Failed"
    [] OTHER -> "Open"

\* The reader is an EventStream, as the XTF reader is (Reader.h).
Stream == INSTANCE EventStream WITH events <- delivered, phase <- Phase

EventsOf(lines) == [i \in DOMAIN lines |-> LineEvent(lines[i].json)[1]]

\* Every line holds an event, and together they are a transfer.
IsTransfer(lines) ==
  /\ \A i \in DOMAIN lines : LineEvent(lines[i].json) # <<>>
  /\ \A i \in DOMAIN lines :
       Stream!MayFollow(SubSeq(EventsOf(lines), 1, i - 1), EventsOf(lines)[i].kind)
  /\ Stream!Complete(EventsOf(lines))

\* In a file every line but the last has its newline, and a line holds one event at most.
IsText(lines) ==
  /\ lines \in Seq([json : {lines[i].json : i \in DOMAIN lines}, size : Nat, ending : Ending])
  /\ \A i \in DOMAIN lines :
       LET event == LineEvent(lines[i].json)
       IN  /\ LineBytes(lines[i]) > 0 /\ (lines[i].ending = "none" => i = Len(lines))
           /\ event = <<>> \/ event = <<event[1]>>

ASSUME FilesAssumption ==
  \A f \in Files :
    IsText(f.text) /\ f.events = IF IsTransfer(f.text) THEN EventsOf(f.text) ELSE <<>>

\* parseEvent undoes serializeEvent, or refuses an attribute it cannot look up.
ASSUME RoundTripAssumption ==
  \A e \in Events : LineEvent(EventJson(e)) = IF Findable(e) THEN <<e>> ELSE <<>>

ASSUME MalformedAssumption == LineEvent(Malformed) = <<>>
-----------------------------------------------------------------------------
(* Properties *)

\* The output holds the lines of the events write() accepted, in order and whole; a part of one
\* more line may follow, and then the writer has failed (JsonEventWriter::write).
OutputIsWritten ==
  file = Output =>
    LET lines == [i \in DOMAIN written |->
                    Line(EventJson(written[i]), SizeOf(EventJson(written[i])), "lf")]
    IN  text = lines \/ (writerState = "Failed" /\ text # <<>> /\ Front(text) = lines)

\* The events handed out and queued are those of the parsed lines, none lost, doubled or
\* overtaken, and also after a failure; and as long as a feed can come, what was fed is in the
\* parsed lines or buffered (JsonEventReader::feed, next).
ReadsLines ==
  /\ readerState # "Failed" /\ ~inputFinished =>
       fed = BytesOf(SubSeq(text, 1, parsed)) + buffered
  /\ Len(delivered) + Len(queue) = parsed
  /\ \A i \in 1 .. parsed : LineEvent(text[i].json) = <<(delivered \o queue)[i]>>

\* Who is told of the end has every event the writer was given, each as it was given, or one
\* more that the writer took for lost; and who fed a whole file, the events it stands for, which
\* a file with a fault has none of (JsonEventReader::finish, next).
ReadsBack ==
  reply = "End" =>
    IF file = Output
    THEN IsPrefix(written, delivered) /\ Len(delivered) - Len(written) <= 1
           /\ (Len(delivered) > Len(written) => writerState = "Failed")
    ELSE fed = BytesOf(text) => (file.events # <<>> /\ delivered = file.events)

\* The reader does not fail on what the writer wrote, however it was cut, but if it is finished
\* before all was written and fed, a line is longer than the limit, or an attribute has no
\* INTERLIS name (JsonEventReader::feed, finish, JsonEventWriter::write).
ReadsOwnOutput ==
  [][ (file = Output /\ readerState # "Failed" /\ readerState' = "Failed") =>
        \/ pc = "Idle" /\ (fed < BytesOf(text) \/ writerState \notin {"AfterTransfer", "Closed"})
        \/ \E i \in 1 .. Len(text) : text[i].size > MaxLineBytes
        \/ \E e \in Events : ~Findable(e) /\ \E i \in 1 .. Len(text) : text[i].json = EventJson(e) ]_vars

\* What the caller receives is one transfer in the order of the grammar; it ends, for good, only
\* after its EndTransfer; a failure is final (JsonEventReader::next).
ImplementsEventStream == Stream!Spec
=============================================================================
