--------------------------------- MODULE IlicXtf ---------------------------------
(***************************************************************************)
(* The reader and the writer of source/ilic/IlicXtf.cpp.  Both hand each   *)
(* event to an EventTransformer, which puts it into the language of the    *)
(* model that the header selects: the reader on the way from its generic   *)
(* reader, the writer on the way to its generic writer.                    *)
(***************************************************************************)
EXTENDS Reader, IlicModelIndex

VARIABLES
  index,        \* that of the models, as its constructor has made it (module IlicMetamodel)
  content,      \* what the items of the script hold
  options,      \* what is rejected, whether attributes are ordered, the version
  transformer,  \* selectedModel_ and version_
  notes,        \* the diagnostics of this layer
  generic,      \* the generic reader
  handed,       \* the events that were handed out: [item, event, by], translated `by' the transformer
  lost,         \* the items of those whose translation threw, with the model selected then
  written,      \* the number of events that the program has tried to write
  accepted,     \* those that the generic writer took, as it got them
  output,       \* the generic writer: "open", "closed" or "failed"
  writerFailed  \* the writer of this layer is

modelReaderVars == <<generic, handed, lost>>
modelWriterVars == <<written, accepted, output, writerFailed>>
ilicVars == <<script, index, content, options, transformer, notes, modelReaderVars, modelWriterVars>>

-----------------------------------------------------------------------------
(* The translation.  Its outcome has what it makes, its diagnostics, and   *)
(* whether it throws, when all that counts are the diagnostics before.     *)
Made(x) == [of |-> x, notes |-> <<>>, thrown |-> FALSE]
Thrown == [Made(<<>>) EXCEPT !.thrown = TRUE]

\* reportOrThrow(): the writer throws what is rejected, the reader only calls it an error.
ReportOrThrow(x, rejected) ==
  [of |-> x, notes |-> <<IF rejected THEN "error" ELSE "warning">>,
   thrown |-> options.writer /\ rejected]

\* Next makes something of what has been made, unless that threw.
Joined(outcome, before) == [outcome EXCEPT !.notes = before \o @]
Then(outcome, Next(_)) ==
  IF outcome.thrown THEN outcome ELSE Joined(Next(outcome.of), outcome.notes)

\* The outcomes of what is done one after the other, up to the first that throws.
AllOf(outcomes) ==
  LET threw == {i \in DOMAIN outcomes : outcomes[i].thrown}
      done == IF threw = {} THEN outcomes ELSE SubSeq(outcomes, 1, Min(threw))
  IN  [of |-> [i \in DOMAIN done |-> done[i].of],
       notes |-> FlattenSeq([i \in DOMAIN done |-> done[i].notes]), thrown |-> threw # {}]

\* selectHeaderModel(): the first model of the header that is known; all have the same language.
KnownIn(models) == SelectSeq(models, LAMBDA m : Named(index, m.name) # {})
SelectHeaderModel(models) ==
  LET known == KnownIn(models)
      Clash(m) == \/ Cardinality(Named(index, m.name)) > 1
                  \/ LanguageOf(index, m.name) # LanguageOf(index, known[1].name)
  IN  CASE known = <<>> -> Found("")
        [] known # <<>> /\ \E m \in ToSet(known) : Clash(m) -> Mismatch
        [] OTHER -> Found(known[1].name)

\* enrichHeaderModels(): what the index has for the version that the event says, also where the
\* writer is set to another one.
EnrichHeaderModels(header) ==
  [i \in DOMAIN header.models |->
    IF Named(index, header.models[i].name) = {} THEN header.models[i]
    ELSE [header.models[i] EXCEPT !.entry = header.version]]

OnAnswer(answer, IfKnown(_), otherwise) ==
  CASE answer.is = "found" -> IfKnown(answer.what)
    [] answer.is = "unknown" -> otherwise
    [] answer.is = "throws" -> Thrown

\* The transformer t is [selected, version]: selectedModel_ and version_.
TranslateText(t, tag, name, text) ==
  OnAnswer(TranslateEnumeration(index, tag, name, text, t.selected),
           LAMBDA translated : Made(translated), ReportOrThrow(text, options.writer))

\* The name of an attribute; a transient one is not written.
TranslateMember(t, tag, name) ==
  LET Known(property) == IF IsTransientProperty(index, tag, name)
                         THEN ReportOrThrow(property, options.writer) ELSE Made(property)
  IN  OnAnswer(ResolveProperty(index, tag, name, t.selected, t.version), Known,
               ReportOrThrow(name, "property" \in options.rejects))

IsKnown(t, tag, name) == ResolveProperty(index, tag, name, t.selected, t.version).is = "found"

\* The place of a name in the transfer order; what has none comes last.
Place(name, order) ==
  IF name \in ToSet(order) THEN Min({i \in DOMAIN order : order[i] = name}) ELSE Len(order) + 1

At(place, attributes, order) ==
  Only(attributes, {a \in ToSet(attributes) : Place(a.name, order) = place})

\* Mutant of InTransferOrder: what has no place comes first.
InTransferOrderUnknownFirst(attributes, order) ==
  LET last == Len(order) + 1
  IN  FlattenSeq([i \in 1 .. last |-> At(IF i = 1 THEN last ELSE i - 1, attributes, order)])

\* A stable sort.
InTransferOrder(attributes, order) ==
  FlattenSeq([i \in 1 .. Len(order) + 1 |-> At(i, attributes, order)])

\* appendPrimitive() and appendObject(): values go to the attribute that has the key already.
Key(name) == IF name.ili # <<>> THEN name.ili ELSE name.xml
AppendValues(attributes, a) ==
  LET same == {i \in DOMAIN attributes : Key(attributes[i].name) = Key(a.name)}
  IN  IF same = {} THEN Append(attributes, a)
      ELSE [i \in DOMAIN attributes |->
              IF i \in same THEN [attributes[i] EXCEPT !.values = @ \o a.values] ELSE attributes[i]]

Appended(attributes) ==
  LET appended[n \in 0 .. Len(attributes)] ==
        IF n = 0 THEN <<>> ELSE AppendValues(appended[n - 1], attributes[n])
  IN  appended[Len(attributes)]

Text(x) == [isObject |-> FALSE, of |-> x]
Part(x) == [isObject |-> TRUE, of |-> x]

\* transformObject(), once the objects in it are transformed: value j of attribute i to
\* part[<<i, j>>].
TransformValue(t, object, i, j, part) ==
  LET name == object.attributes[i].name
      v == object.attributes[i].values[j]
  IN  IF v.isObject THEN Then(part[<<i, j>>], LAMBDA o : Made(Part(o)))
      ELSE IF IsKnown(t, object.tag, name)
      THEN Then(TranslateText(t, object.tag, name, v.of), LAMBDA x : Made(Text(x)))
      ELSE Made(v)

TransformAttribute(t, object, i, part) ==
  LET a == object.attributes[i]
      transformed == AllOf([j \in DOMAIN a.values |-> TransformValue(t, object, i, j, part)])
  IN  Then(TranslateMember(t, object.tag, a.name), LAMBDA name :
        Then(transformed, LAMBDA values : Made([name |-> name, values |-> values])))

Ordered(t, object, attributes) ==
  IF ~options.ordered THEN Made(attributes)
  ELSE OnAnswer(TransferProperties(index, object.tag, t.selected, t.version),
                LAMBDA order : Made(InTransferOrder(attributes, order)), Thrown)

TransformAs(t, object, class, topLevel, part) ==
  LET placed == IF topLevel /\ ~IsTopLevelTransferable(index, object.tag)
                THEN ReportOrThrow("misplaced", options.writer) ELSE Made("placed")
      transformed == AllOf([i \in DOMAIN object.attributes |-> TransformAttribute(t, object, i, part)])
  IN  Then(placed, LAMBDA p :
        Then(transformed, LAMBDA attributes : Then(Ordered(t, object, attributes), LAMBDA ordered :
          Made([tag |-> class, oid |-> object.oid, attributes |-> Appended(ordered)]))))

\* An object below the top that is of no class stays as it is.
TransformWith(t, object, topLevel, part) ==
  OnAnswer(ResolveClass(index, object.tag, t.selected, t.version),
           LAMBDA class : TransformAs(t, object, class, topLevel, part),
           IF topLevel THEN ReportOrThrow(object, "class" \in options.rejects) ELSE Made(object))

\* The place of an object in another one names the attributes and values that lead to it.
ObjectAt(object, place) ==
  FoldLeft(LAMBDA o, p : o.attributes[p[1]].values[p[2]].of, object, place)

TransformObject(t, object, topLevel) ==
  LET below[place \in Seq(Nat \X Nat)] ==
        TransformWith(t, ObjectAt(object, place), FALSE,
                      [p \in Nat \X Nat |-> below[Append(place, p)]])
  IN  TransformWith(t, object, topLevel, [p \in Nat \X Nat |-> below[<<p>>]])

TransformBasket(t, basket) ==
  OnAnswer(ResolveTopic(index, basket.topic, t.selected, t.version),
           LAMBDA topic : Made([topic |-> topic]),
           ReportOrThrow(basket, options.writer \/ "topic" \in options.rejects))

Version(header) == IF options.writer THEN options.version ELSE header.version
TransformHeader(header) ==
  OnAnswer(SelectHeaderModel(header.models),
           LAMBDA selected : Made([models |-> EnrichHeaderModels(header), version |-> Version(header)]),
           Thrown)

\* transform() of item i.
Transformed(t, i) ==
  CASE script[i] = "StartTransfer" -> TransformHeader(content[i])
    [] script[i] = "StartBasket" -> TransformBasket(t, content[i])
    [] script[i] = "Object" -> TransformObject(t, content[i], TRUE)
    [] script[i] \in {"EndBasket", "EndTransfer"} -> Made(content[i])

\* What transform() does to the transformer: the version is set before the model is selected.
HeaderSeen(t, version, selected) ==
  [version |-> version, selected |-> IF selected = Mismatch THEN t.selected ELSE selected.what]
TransformerAfter(t, i) ==
  IF script[i] # "StartTransfer" THEN t
  ELSE HeaderSeen(t, Version(content[i]), SelectHeaderModel(content[i].models))

Transform(i, outcome) ==
  /\ transformer' = TransformerAfter(transformer, i)
  /\ notes' = notes \o outcome.notes
-----------------------------------------------------------------------------
IlicInit ==
  /\ transformer = [selected |-> "", version |-> "V23"] /\ notes = <<>>
  /\ generic = FreshReader /\ handed = <<>> /\ lost = {}
  /\ written = 0 /\ accepted = <<>> /\ output = "open" /\ writerFailed = FALSE

(* IlicXtfReader *)
WriterUnchanged == UNCHANGED <<script, index, content, options, modelWriterVars>>

ModelFeed ==
  /\ ~options.writer /\ ~generic.finishCalled /\ ~generic.failed
  /\ generic' \in Fed(generic)
  /\ WriterUnchanged /\ UNCHANGED <<transformer, notes, handed, lost>>

ModelFinish ==
  /\ ~options.writer /\ ~generic.finishCalled /\ ~generic.failed
  /\ generic' \in Finished(generic)
  /\ WriterUnchanged /\ UNCHANGED <<transformer, notes, handed, lost>>

\* next(): an event whose translation throws has been taken from the generic reader.
ModelNext ==
  /\ ~options.writer
  /\ \E o \in NextOf(generic) :
       /\ generic' = o.reader
       /\ \/ o.progress # "Event" /\ UNCHANGED <<transformer, notes, handed, lost>>
          \/ /\ o.progress = "Event"
             /\ \E outcome \in {Transformed(transformer, o.event)} :
                  /\ Transform(o.event, outcome)
                  /\ handed' = IF outcome.thrown THEN handed
                               ELSE Append(handed, [item |-> o.event, event |-> outcome.of,
                                                     by |-> transformer])
                  /\ lost' = IF outcome.thrown
                             THEN lost \cup {[item |-> o.event, selected |-> transformer.selected]}
                             ELSE lost
  /\ WriterUnchanged

ModelReader == ModelFeed \/ ModelFinish \/ ModelNext
-----------------------------------------------------------------------------
(* IlicXtfWriter *)
ReaderUnchanged == UNCHANGED <<script, index, content, options, modelReaderVars>>

\* The call throws; ensureUsable() has let it pass.
Fails(genericFails) ==
  /\ writerFailed' = TRUE
  /\ output' = IF genericFails THEN "failed" ELSE output
  /\ UNCHANGED accepted

\* write() of the next event of the program; the generic writer may throw.
ModelWrite ==
  /\ options.writer /\ written < Len(script)
  /\ written' = written + 1
  /\ \/ writerFailed /\ UNCHANGED <<transformer, notes, accepted, output, writerFailed>>
     \/ /\ ~writerFailed
        /\ \E outcome \in {Transformed(transformer, written')} :
             /\ Transform(written', outcome)
             /\ \/ outcome.thrown /\ Fails(FALSE)
                \/ ~outcome.thrown /\ Fails(output = "open")
                \/ /\ ~outcome.thrown /\ output = "open"
                   /\ accepted' = Append(accepted, [item |-> written', event |-> outcome.of,
                                                    by |-> transformer])
                   /\ UNCHANGED <<output, writerFailed>>
  /\ ReaderUnchanged

\* flush(); one before the transfer or after close() throws and leaves the generic writer as it is.
ModelFlush ==
  /\ options.writer
  /\ \/ writerFailed /\ UNCHANGED <<accepted, output, writerFailed>>
     \/ ~writerFailed /\ Fails(output = "open" /\ accepted # <<>>)
     \/ /\ ~writerFailed /\ output = "open" /\ accepted # <<>>
        /\ UNCHANGED <<accepted, output, writerFailed>>
  /\ ReaderUnchanged /\ UNCHANGED <<written, transformer, notes>>

\* close(), which may be called again; a transfer that is not complete cannot be closed.
ModelClose ==
  /\ options.writer
  /\ \/ (writerFailed \/ output = "closed") /\ UNCHANGED <<output, accepted, writerFailed>>
     \/ ~writerFailed /\ output = "open" /\ Fails(TRUE)
     \/ /\ ~writerFailed /\ output = "open" /\ accepted # <<>>
        /\ script[Last(accepted).item] = "EndTransfer"
        /\ output' = "closed" /\ UNCHANGED <<accepted, writerFailed>>
  /\ ReaderUnchanged /\ UNCHANGED <<written, transformer, notes>>

ModelWriter == ModelWrite \/ ModelFlush \/ ModelClose

\* takeDiagnostics() of both hands out what there is.
ModelTakeDiagnostics ==
  /\ notes # <<>> /\ notes' = <<>>
  /\ UNCHANGED <<script, index, content, options, transformer, modelReaderVars, modelWriterVars>>

IlicNext == ModelReader \/ ModelWriter \/ ModelTakeDiagnostics

\* What the items of a script can hold, as far as it concerns the transformer.
HasContent(items, holds) ==
  /\ IsSequence(items)
  /\ \A i \in DOMAIN items : items[i] = "Object" => IsSequence(holds[i].attributes)

IlicSpec ==
  IsIndex(index) /\ HasContent(script, content) /\ IlicInit /\ [][IlicNext]_ilicVars
-----------------------------------------------------------------------------
(* What the writer is for *)

IsClosed == ~writerFailed /\ output = "closed"

\* What the writer makes of an object that is not refused: no unknown class that the options reject;
\* where unknown attributes are rejected, only names of properties that the class transfers; and the
\* transfer order, if it is enforced.
WellMade(object, made, t) ==
  LET transfer == TransferProperties(index, object.tag, t.selected, t.version)
      names == [i \in DOMAIN made.attributes |-> made.attributes[i].name]
      InTheOrder(order) ==
        \A i, j \in DOMAIN names : i < j => Place(names[i], order) <= Place(names[j], order)
  IN  IF Lookup(object.tag, index.classes) = Unknown THEN "class" \notin options.rejects
      ELSE /\ "property" \in options.rejects /\ transfer.is = "found" =>
                ToSet(names) \subseteq ToSet(transfer.what)
           /\ options.ordered => transfer.is = "found" /\ InTheOrder(transfer.what)

\* The generic writer gets the events in their order and none after a failure, what is closed is the
\* whole transfer, and each object is well made for the model that was selected.
WritesModelData ==
  /\ \A n \in DOMAIN accepted : accepted[n].item = n
  /\ ~writerFailed => Len(accepted) = written
  /\ IsClosed => accepted # <<>> /\ script[Last(accepted).item] = "EndTransfer"
  /\ \A e \in ToSet(accepted) :
       script[e.item] = "Object" => WellMade(content[e.item], e.event, e.by)
=============================================================================
