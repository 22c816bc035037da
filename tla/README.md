# Formal models of iox-cpp

TLA+ models of the streaming interchange library in this repository, the
configurations that model-check them with TLC, and theorems about them that
TLAPS checks.  Paths are relative to the repository.

## 1. The system and its hard parts

| Component | State it keeps | Operations | Talks to |
|---|---|---|---|
| XTF reader, `source/xtf/common/XtfReader.cpp` | `state`, `eventState`, event queue, input queue, depth, flags of finish and completion, diagnostics, detected version | `feed`, `finish`, `next`, `takeDiagnostics`, `isFinished` | the caller above; parser and dialect below, which call back |
| XML parser wrapper, `source/xml/ExpatParser.cpp` | `finished_`, `failed`, `suspended_`, `inParse`, the stored callback exception | `feed`, `finish`, `suspend`, `resume` | Expat |
| XTF 2.4 and 2.3 dialects, `source/xtf/v24`, `source/xtf/v23` | dialect state, open capture, basket, object, attribute | `onStartElement`, `onEndElement`, `onText`, `onRootClosed` | emit events and diagnostics into the reader |
| XTF writer, `source/xtf/common/XtfWriter.cpp`; XML writer, `source/xml/XmlWriter.cpp`; dialect writers, `source/xtf/v23`, `source/xtf/v24` | writer state; open elements, pending start tag, namespaces; lazily opened data section, models and their prefixes | `write`, `flush`, `close` | a byte sink that may throw |
| JSON event reader and writer, `source/json` | reader: state, line buffer, event queue; writer: state | as reader and writer | the caller; a byte sink that may throw |
| Basket reader, `source/core/Basket.cpp` | header, failed, diagnostics of its own | `header`, `readBasket` | the reader it owns |
| Object model, `source/core/IomObject.cpp`, `IomValue.cpp`, `IomPath.cpp` | data shared by copy-on-write handles, counted owners, a lookup built by reads | set, insert, replace, erase, `deepCopy`; paths read and replace in nested objects | |
| Registry and factory | registered formats | `registerReader`, `create`, sniffing | |
| C ABI, `source/abi/iox.cpp` | handles: diagnostics since the last result, flags `finished`, `ended`, `terminal`; a sink of output not taken | `iox_reader_*`, `iox_writer_*` | readers and writers |
| WASM package, `packages/iox-wasm` | `index.js`: flags, diagnostics and output chunks of a reader or writer; `worker.js`: sessions | calls; messages, awaits | C ABI |
| Model layer, `source/ilic` | an index of the models, built once; the model the header selected, the version, diagnostics, a flag of failure | as reader and writer; translates every event | the reader or writer it owns; models of the ilic compiler |
| Geometry, `source/geometry` | none | conversions | GEOS |

The library starts no thread.  What makes it hard is *reentrancy and
suspension*: the caller pushes bytes in chunks of its own choice and pulls
events whenever it likes; the parser calls back into the dialect, which calls
back into the reader, which may stop the parser in the middle of a buffer; any
callback may throw through C frames; and a failure may happen while `next()`
already holds an event in its hands.  The same bytes must give the same events
however they were cut.

What makes each component correct:

* reader: no event lost, repeated or overtaken; events independent of the
  chunks; the end reported only of a complete transfer; a failure final; the
  queue bounded; no standstill.
* parser wrapper: its flags agree with Expat's; an exception is stored, further
  callbacks do nothing, and it surfaces when the call returns.
* dialects: they emit events in the order of the grammar whatever the document,
  fail in a state from which nothing is emitted, report what they let pass.
* writers: what the sink has is the beginning of a well-formed document at any moment; every name
  keeps its namespace; a failure is final; `close` only after a complete transfer; what was written
  can be read back.
* JSON reader and writer: what is read back is what was written, however it was cut; a failed output
  is never continued; a file with a fault is never read to its end.
* basket reader: a basket whole or not at all.
* object model: a write through one handle is not seen through another; the lookup that is
  believed is right; no object comes to hold itself.
* C ABI and `index.js`: events, diagnostics and output reach the program once, in order and
  completely, or a call has thrown; a handle that has failed is of no more use.
* model layer: a translated event says what the event said, and only what is ambiguous is refused.
* worker: every native handle owned by one session, no session lost or resurrected, every request
  answered.

## 2. Modules

    XtfSyntax          elements, events, dialect records
      Expat            external: the parser as the wrapper uses it
        ExpatParser    the wrapper
          XtfReader    coordinator, callbacks and caller   -- INSTANCEs both dialects
            MC_XtfReader         documents and constants for TLC
            XtfReader_proofs     the dialects, type, agreement and order
              XtfStream_proofs   refinement, reading in one piece, the end, the queue
      Xtf24Dialect, Xtf23Dialect     pure: state x callback -> result
        XtfDocument                  pure: reading a document in one piece
      EventStream      abstract: what a reader promises and a writer takes
      XmlDocument      external: what a parser makes of the output
        XmlWriter      open elements, names and declarations, the sink
          XtfWriter    coordinator and caller; the dialect writer is a parameter
            MC_XtfWriter         events and dialect writers for TLC, reading back
            XtfWriter_proofs     type, EventStream, terminal states, names, close
      XtfWriting       what the dialect writers are written with
        Xtf23Writer, Xtf24Writer     pure: state x event -> calls of XmlWriter
      WasmWorker       the worker of the WASM package and its client
        WasmWorker_proofs
      JsonText         lines of NDJSON
        JsonWriter     JsonEventWriter over an output that fails
        JsonReader     JsonEventReader and its caller
          JsonTransfer both, or the reader and a file     -- implements EventStream
            Json_proofs          output, lines, the end, refinement
            MC_Json              events, files and constants for TLC
      JsonEvents       pure: event -> JSON value -> event
      IomObject        objects as handles to a heap of shared, counted data
        IomPath        paths over that heap            -- implements IomValues
          MC_Iom       constants for TLC
          Iom_proofs   type, lookups, no cycle, sharing, refinement
      IomValues        abstract: every variable has an object of its own
      Selection        those elements of a sequence that are in a set
      Reader           pure: what code that owns a reader sees of it
        CAbi           pure: the calls of the C ABI on a handle
          WasmApi      index.js and a program that converts
        BasketReader   header() and readBasket()
      IlicModelIndex   pure: names and values in models of several languages
        IlicXtf        model-aware reader and writer
            Callers_proofs       output, failure, all read and written, baskets, model data
          MC_IlicModels          what an object means, models and transfers for TLC
      IlicMetamodel    pure: the index of a metamodel
          MC_Callers   WasmApi, BasketReader and IlicXtf: inputs for TLC
      Induction        lemmas: induction and recursion over the naturals, for the proofs

### XtfSyntax, Expat, ExpatParser

A document is a sequence of *tokens* (start, end and empty-element tags, text, a
document type declaration, malformed input).  Each token has `TokenBytes` bytes,
so a chunk may end inside one.  `Expat` is external and models only what
ExpatParser.cpp relies on: the parsing states Initialized, Parsing, Suspended and Finished;
that `XML_StopParser` is refused when already suspended; that the end callback of
an empty-element tag follows its start callback without a look at the state; that a
parse that is not final may leave complete tokens for later (`ReparseDeferral`, on
by default in the bundled Expat 2.6.4); that the final parse defers nothing.
`ExpatParser` has one operator per entry point, with the guard under which
it refuses, and the outcomes of a parse in the order of `handleStatus`.

### Xtf24Dialect, Xtf23Dialect

The dialects hold no reference to the parser, so they are functions from the
dialect's record and a callback to a result: the new record, the event emitted (or
none), what is reported, or that the callback throws.  One operator per
handler, with the branches of the code in its order.  An element carries what
the checks look at: namespace, local name, the identifier (`given`,
`absent`, `empty`, `wrong`) and whether its other attributes are `clean`, `unknown`,
`miscased` or `irregular`.  Attribute values, geometry and references are
abstracted to whether they can be read; of text only that an element has some (`texts`).  What was
captured is a list in document order with depths, from which `Parent` and `Inside` give the tree and
`Roles` what the object takes each element for.

A callback may find several faults, each of a kind (`Fault`): those that a strict dialect throws on,
unknown extensions, and what is reported whatever the options (text beside a structure, an unknown
geometry).  `Reported` turns them into one report with the severities of the code, or into a throw that
keeps what was reported before it.  Of two diagnostics of one severity about one element the model
has one.

### XtfDocument

What a document stands for: `ReadInOnePiece` reads it token by token with the dialect its root names,
without chunks, queues or suspensions.  It uses the dialects' operators, the root's check and the depth
limit of `XtfReader.cpp`, and says where reading stops: a token that has no place where it stands, a
callback that throws.  It is no second opinion on the dialects; it is what `ReadsDocument` compares
the reader's way through suspended parses with.  That it says what an author of a document means is
`MeaningAssumption`: TLC evaluates it on every run of the reader against events,
diagnostics and validity written by hand for each of the documents.

### XtfReader

A call runs to its end before the next one starts, but what happens
inside is split into steps: `pc` is `Idle`, then `Pump` (resume or not), `Drain`
(give the parser a piece, finish it, or leave), `Parse` (callbacks, one per step, then
the return), `Reply`.  The event that `next()` popped before it pumps is in
`held`.  Every early return and every throw is an action: `FeedOverLimit`,
`FeedOrFinishRejected`, `NextRejected`, `PumpResumeFails`, `ParserReturnsEarly`,
`ParserThrows`.  `diagnostics` is what has been reported and not fetched; `TakeDiagnostics`, which a
caller may call between any two calls, moves it to `taken`.  A callback that throws may
have reported a part of what it found (`PartsOf`).  `delivered`, `emitted` and `taken` are history
variables.

### EventStream

The abstract promise: events are handed out one at a time in the order of the
grammar `StartTransfer (StartBasket Object* EndBasket)* EndTransfer`; the stream ends only
when complete; it may fail at any moment and then stays failed.  `XtfReader`
implements it with `events <- delivered` and a phase computed from `state` and
`isFinished()`.

### XmlDocument, XmlWriter

`XmlDocument` is external: a namespace-aware parser that reads the tokens the sink has got.  It
knows nothing of the writer.  It keeps the open elements with the bindings in scope, the nodes it
understood with their expanded names, and whether all of it was well-formed: one root, matching
tags, every prefix bound, no attribute twice, no prefix undeclared.

`XmlWriter` has one operator per call.  `frames` are the open elements with what is declared on
each and in scope of each; `startPending` is the start tag not written yet.  `Refused` collects the
checks of each call, `PartOf` what the sink may have got before a check or the sink itself stopped
it.  `PrefixFor` is the choice of a prefix: the hint, the default namespace, one that is bound, a
new one.  Escaping, indentation and the grammar of names become the field `valid`; `document`
counts a token when the sink has all of it.

### XtfWriting, Xtf23Writer, Xtf24Writer

What a dialect writer does for an event depends on the event and its small state only, and is
determined except for failures.  So each dialect is a function to the sequence of calls it
makes: elements, attributes, text, diagnostics, and `Fail` where a check does not hold; what
follows a `Fail` is never reached.  The operators have the names of the functions of the code.
Attribute values are left out but for their presence.  Tags of geometries are compared without regard
to case in the code and have one case here.  Their members are looked up in one case (`valueCount("segment")`,
`"C1"`), and only the search for unknown members ignores it; the members of the events have the case that is looked up.
`ValuesOf` is that lookup by INTERLIS name: a member that has an XML name only is written without values.

### XtfWriter

`WriteBegins` puts the calls of an event into `calls`; `CallSucceeds`, `CallReports` and `CallThrows`
take one each; `WriteReturns` advances the state, which the code does last.  The sink may
therefore fail at any call of any event.  Calls in a wrong state come in two kinds: those that
change nothing (`WriteRefused`, `FlushRefusedInState`, `CloseOfFailed`) and those that fail
the writer (`WriteOutOfOrder`, `CloseTooEarly`).  `written` and `told` are history variables.
The dialect writer is given by `CallsOf` and `StateAfter`; which version it writes and with which
options is part of its value, chosen in `Init` (`NewWriters`).

Three things are said of a dialect writer besides its types.  `DeclaringAssumption`, evaluated by TLC for every
event and writer of the runs: a namespace is declared right behind the start of an element, before any
attribute, and either on the root or to undeclare the default namespace for an element without one.
`Undeclares`: every such element undeclares it.  The 2.3 writer does; the 2.4 writer does not
in preserved extensions, which is finding 4, so this is a condition of a theorem and no assumption.
`BalancedAssumption`, evaluated by TLC: if no check of the dialect stops an event, it leaves as many elements open
as its kind says: a start of a transfer `OpenOf` of the new state (the root, and the data section, which a 2.3 writer
opens with its first basket), a basket one more, an object none.

The writer is an `EventStream` too, with `events <- written`: what it accepts is what the reader
promises.  `MC_XtfWriter` closes the circle: `ReadBack` runs the model of the reader's dialects
over the nodes of the finished document.

### WasmWorker

One action per request of `worker.js`.  A handler runs without interruption up to an
`await` of the module; what follows is a continuation, an element of `waiting` that runs once
its module has settled and before the next message is taken (`NoneReady` guards every
`Receive`).  Whether the client is `careful` (it waits for the answer to `init`, or for every
answer) is chosen in `Init`.  A continuation of `init` runs before the others, which await an async function that
returns the promise and so take more turns of the job queue.  `sessions` is the two maps
together, `native` the handles created and not destroyed, and `modules` the loads
begun: `close` forgets the current one, a failed one is remembered until then.  The
channel to the worker is FIFO, so that posting and handling are one step.  `epoch` and
`closes` are history variables.  A restarted worker is a new instance that shares nothing
and is not modelled.

### JsonEvents

`JsonEvents` has the part of `IomObject` that JSON depends on (the key of a name, the lookup by
key, and the insertion of a value at an index), and the functions of
JsonEventWriter.cpp (`Make...`, `SerializeEvent`) and of JsonEventReader.cpp.  A reading function
that may throw becomes two operators: whether the value has the form (`Is...`) and what it stands
for (`...Of`); a form is refused wherever the code throws.  JSON objects are sequences of members, so
that a key may come twice.  The JSON library is left out: a text that is not JSON is `Malformed`.
Numbers are `"small"` or `"large"`, because the code asks whether they fit in 32 bits.  Texts hold no
NUL, where the writer's `c_str()` would cut them off.

### JsonText, JsonWriter, JsonReader, JsonTransfer

A line is the value it holds, its size in bytes, and its ending (LF, CR LF or none yet).
`JsonWriter` has an action for each outcome of `write`, `flush` and `close`; `WriteFails` lets the
output take any part of the line, all of it included, before it fails.  `JsonReader` takes the text in chunks:
`Feed` puts bytes into the buffer, and `ConsumeLine`, one line per step, `LineTooLong` and `LinesDone` are the loop
of `consumeCompleteLines`.  `FinishTail` is a `finish()` with bytes left over.  In
`JsonTransfer` the reader reads either a file or the text the writer is still writing, and may be
told at any moment that there is no more.

The reader is an `EventStream` with `events <- delivered`.  Its phase says how a failure looks from
outside: events queued before a bad line are still handed out, and only the call after the last of
them (`NeedInput`, from a reader that refuses input) or a refused `feed` shows it.

### IomObject, IomPath, IomValues

A variable of the program, or a value in an attribute, holds a cell of the `heap`, which has the
`Impl`.  `Settle` ends every step: what has an owner is kept, the rest is free again, which is what
the counters of `shared_ptr` come to while no object holds itself (`Acyclic`).  `Write` is `detach()`
with the change that follows it: `Shared` is `use_count() # 1`, and counts the parameter that holds
the written object itself.  `Looked` is what `find()` leaves behind, also in an object that is only
read and that others share; `LookupOf` believes a valid lookup, right or wrong.  One operator per
operation says what becomes of the `Impl`, one action per operation which handle it is done
through.  `DeepCopy` chooses the tree of new cells at once.

`IomPath` walks the heap as `primitiveMatches` does, and remembers the objects whose lookups it built
on the way, up to the first step that throws.  `ReplaceSinglePrimitive` copies each object below the
first, because its parent and the local variable both hold it, from the inside out.

`IomValues` is what a program relies on: every variable has a tree of its own, and an operation
changes one of them.  `IomPath` maps the heap to trees: `Trees` chooses for every cell a tree such that
each is what its object says with the trees of the cells in it (`ObjectTree`), of which there is one
choice while no object holds itself.

### Reader, CAbi, WasmApi, BasketReader

`Reader` is `XtfReader` seen from outside.  The input is a `script` of *items*: events, diagnostics, and a
fault that throws.  A call may get any distance with it (`Pumped`), which stands for every chunking
and every limit of the queue; an event is lost when `pump()` throws while `next()` holds it.
No event follows the end of the transfer (`IsInput`), which is what the grammar of `EventStream` says.  `Only`
selects the items of a kind, for what the program should have got.

`CAbi` has one operator per entry point, from a handle to the set of (handle, status, result) it may
come to.  Its parameter `memory` says which allocation of the call fails: the result, the copy of
the output, or none.  The implementation of a writer is what it answers to an event (`Reaction`): it
takes it, with a warning or an error among its diagnostics, or throws half-way and leaves a `Cut` in
the sink.

`WasmApi` has a step per call of the C ABI, because each may fail and leave the JavaScript by an exception:
`pc` is `drain` in the loop of `drainReader`, `ask` where `throwReaderStatus` fetches the error, `take`
between the two calls of `write()`.  `ReaderCallFails` and `WriterCallFails` are calls that never reach
the C ABI, because `index.js` has no memory for their arguments or the pointer to the result.  A constructor
of the eager reader that throws gives the program nothing (`Given`).  The program converts as docs/wasm.md shows: it passes on what it has
before it reads more (`MayRead`); it may write an event again whose `write()` threw, stop, or
close either object at any time between calls.

`BasketReader` has a step per call of the reader it owns.  That reader may be unfinished, or have
been read before.  `CutsOff` is what ends a basket without a result.  `BasketSpec` is the basket
reader alone; in `MC_Callers` it is one of the three callers.

### IlicMetamodel, IlicModelIndex, IlicXtf

`IlicMetamodel` is the constructor of `IlicModelIndex`: from elements (records named after the fields of
the metamodel that it reads) to variants, each with its *concept*, the root of its translations.
`IlicModelIndex` has the queries.  Each one finds something, finds that it is not known, or throws
(`Mismatch`, for `DiagnosticCode::ModelMismatch`), and `IfFound` chains them as the early returns do.
The index they are asked of is a parameter, as `*this` is.  `IsIndex` is what every index is: in particular,
the translations of a class have the same properties, which the compiler of the models sees to.  TLC evaluates
it for the indexes that `IlicMetamodel` makes for the run (`ModelCasesAssumption`).

`IlicXtf` is the transformer as a function of `selectedModel_` and `version_` from an event to what it
makes of it, the diagnostics and whether it throws (`Then` chains these), and the reader and the
writer around it.  `generic` is a reader as `Reader` sees it; the generic writer is `output`, which
may refuse any event.  Names are `IomName`s of parts; a value is a text or an object.  `TransformWith` transforms one
object, given what the objects in it become; `TransformObject` is the recursion, over places in the
object.  What was handed out or accepted is kept with the transformer it was translated `by`.
`IlicSpec` is this layer alone; in `MC_Callers` it is one of the three callers.  `MC_IlicModels` reads an object
by what its names and values mean, without the queries, to compare before and after.

## 3. Runs

The reader's five are in `MC_XtfReader`, whose documents carry, written by hand, the events that a
reader must make of them and whether they are valid.  The writer's two are in `MC_XtfWriter`.

| Run | Question |
|---|---|
| `chunking` | Three valid documents, four with three or four faults each that a lenient reader reports and lets pass, and one that has two of these and ends too early; of both versions, in any mix of chunks of 1, 12 and 60 bytes or the rest, pieces of three tokens, a queue of two events, diagnostics taken between any two calls. Order, the events of the document whatever the chunks and the end only behind the last of them (`ReadsDocument`), suspension, bound of the queue, no failure, `NeedInput` only when drained. What the caller has taken and can take is, in order and once each, what the document is to be reported for, and all of it at the end (`NothingPassesSilently`); no step drops or repeats a report, a failure included (`ReportsAreKept`). |
| `faults` | Fourteen broken 2.4 documents and twenty-one broken 2.3 ones, an empty-element basket, a valid document with everything a header may hold and one a basket longer than the input limit allows; a strict reader that requires a model, an Expat that defers, empty chunks, a queue of one. What was delivered is a prefix of the right events; both records of the place agree; refinement of `EventStream`, whose `Failed` is final; under fairness the caller reaches the end or a failure. |
| `empty_basket` | Violation: an empty-element basket that fills the queue fails a valid document. |
| `final_parse` | Violation: a final parse that suspends cannot be resumed. |
| `writer` | Writers of both versions, lenient or strict, that are given the events of either version in any order, with flushes and closes between them and a sink that may fail at every call: geometry, preserved extensions, two models that ask for one prefix, baskets with and without QName, an extension that repeats an attribute, objects broken half-way. The output is well-formed and means what was asked for, only a complete transfer is closed, it reads back; refinement of `EventStream`; closed and failed are final. |
| `json` | Transfers of up to five events (two headers, a basket, an object with several values, references and nested objects, an object with an attribute that has an XML name only), written in any order to an output that may fail after any byte, and read meanwhile; and twenty-six files: sound ones with CR LF, without the last newline, with a line beyond the limit, with null for an absent member, with an attribute that comes twice; and ones with a fault in one line. Chunks of one byte, three, all there is, or none. What is read to the end is what was written; the reader's queue follows the lines; it fails on its own writer's output only for a reason; refinement of `EventStream`. |
| `nested_extension` | Violation: a name in a nested extension changes its namespace. |
| `worker` | Any client: every request is answered, also when the module cannot be loaded. A careful one: handles owned by exactly one session, duplicates refused, `close` final. |
| `worker_duplicates` | Violation: two creations of one stream during the load are both answered ok. |
| `objects` | Two variables, every operation on them and four paths (first, indexed, nested, with wildcards), in any order: sharing arises by copies, by objects put into attributes, also into themselves, by objects taken out again and by deep copies. A step changes only what one variable and nothing else has; lookups are right; no cycle; refinement of `IomValues`. |
| `callers` | A program over `index.js` with an eager or an incremental reader, five inputs (whole with a warning, with a recorded error, ill-formed in a basket, behind the transfer, at once), a writer that warns, records an error or throws at an event, one failed allocation anywhere, of a result, its copy or an argument; a `BasketReader` over five inputs with a limit of one object; and reader and writer of the model layer, with every kind of rejection, over twenty-five transfers of four metamodels: a base and its translation with false friends among the values, another model with a class of the same name; a model that extends the base; one whose attributes share an enumeration; and three translations into one language, of which the third cannot be selected. Events, diagnostics and output arrive once and in order (`ReadsEverything`, `WritesEverything`, `OutputKept`), a failed handle is of no more use (`ErrorsAreFinal`), baskets are whole (`BasketsWhole`); a translation keeps the meaning (`MeaningKept`), only what is unclear is lost (`LostOnlyIfUnclear`), and the generic writer gets all events in order, objects in transfer order (`WritesModelData`). |
| `callers_errors` | Violation: a warning and a fault in one feed; the error result has the fault and not the warning. |

**Bounds.** Documents of two to twenty-five tokens of three bytes: long enough for two
objects or two baskets after the header, so that a suspension can fall before, between and
after every pair of events and every pair of reports.  Queue limits of one and two, the limit of `chunking` below the
number of events of every document but one.  Chunks of one byte cut every token; one of 12 bytes becomes
two pieces, one of 60 most of a document; others divide neither token nor piece or are empty.  `Feedable` bounds
empty chunks: one is fed only when no piece waits.  `MaxDepth` is what the deepest valid document of a run needs.

For the writer eighteen events, of which any five are written (`MaxEvents`): enough for a transfer
with one object, with two objects in a basket, or with two empty baskets,
and for a fault in every one.  A basket with an object leaves the writer where an empty one does, so
that a sixth event adds no place where one may follow another.  There are four writers: of each
version a lenient one that preserves extensions and a strict one that drops them.  Two generated
prefixes and two of the 2.4 writer's own (`Generated`, `ModelPrefixes`) are more than the events
take.

For JSON lines of two or three bytes and a limit of three: a cut falls before, inside and after every line, and
a line without its newline reaches the limit but does not exceed it.  Five events (`MaxEvents`) are the shortest
transfer with an object in a basket; two objects are written without its end.  A fault is put into
one line of a transfer; one for each kind of check in `JsonEvents`.  Events and values are kept by
their number in a table of `MC_Json`, which is computed with `SerializeEvent` and `ParseEvent`.

For the worker two streams of each kind (one where the violation is sought) and five requests: two
creations and a `close` in every order around one or two loads, with requests left to observe the
result.

For objects four cells and two values or set fields in all (`MaxValues` stops what adds a third; a
write may still copy): two variables that share an object, an object within another, one object at
two places, and the copies a write makes of each.  A step needs at most two free cells, for the two objects of
a nested path.  Two keys are needed for a lookup to be wrong about a place, two values for an index.
Variables and texts are symmetric.

For the callers one allocation that fails (`MaxFailures`), anywhere, and two calls of the writer
that throw (`MaxErrors`): the first may be that failure and the second shows what the writer became.
Inputs of up to ten items with a diagnostic in front of, inside and behind a basket.  For the model
layer transfers of one object: the transformer keeps nothing of an object, so that a second one
meets the same state.  `MeaningKept` compares with `MeaningOf`, which reads an object by what its
names and values mean and uses none of the queries.  `LostOnlyIfUnclear` has a name for clear (`OneName`) that the
target itself has once, or else one of whose variants alone has the target's language; where two variants of the language
come before the target's own the code throws, so that such a name counts as unclear.  The transfers to the first two
of three models in one language must arrive, those to the third may be lost, and are.  Each model has one of every kind of class that the
code tells apart, and names that are equal across languages and models.

**Fairness.**  The library has no scheduler; progress is the caller's.  `CallerFairness`
assumes a caller that goes on feeding, finishes and keeps asking (strong fairness of
each, since each is disabled while another call runs), and that a call once begun goes on
(weak fairness of the steps inside: the code has no blocking operation).  No fairness is
assumed of a choice inside the parser.  For the worker: a load ends, one way or the other, and
the job queue runs; nothing is assumed of the client.  The other runs check safety only.

## 4. Findings

1. **Empty-element basket** (`empty_basket`).  The start callback suspends Expat; the end
   callback of the same tag asks again, because `suspended_` is updated only after the
   parse returns; `XML_StopParser` refuses; the reader fails with `InternalError`.
2. **Suspended final parse** (`final_parse`).  `ExpatParser::finish` marks the parser
   finished even when it was suspended; the next `resume` is refused.
3. **Duplicate creation** (`worker_duplicates`).  The test for a duplicate and the entry of the
   session lie on either side of an `await`.  A client that awaits `init` first is not affected,
   which is what `worker` checks and the proofs establish.
4. **Nested extension** (`nested_extension`).  The 2.4 writer does not undeclare a default
   namespace for an element that has none; the 2.3 writer does.
5. **Errors without their warnings** (`callers_errors`).  When an entry point of the C ABI catches an exception,
   what the reader recorded in the same call stays behind in it, and a terminal handle never asks for it again:
   a warning just before a fault is told or not, as the chunks fall.  docs/c-abi.md:36-37 says that
   error results contain all diagnostics.

One more disagreement is read off the code and modelled, without a run of its own: a `flush()` of the JSON writer
that fails leaves the writer as it is (JsonEventWriter.cpp:335-341), so that events are written after the error, where
docs/architecture.md:54-55 has writers terminal after one; a `close()` that fails may be called again.

Observations that contradict no document:

* During a resumed parse the stale `suspended_` suppresses every further suspension, so that the
  queue may exceed `maxQueuedEvents`; `QueueBound` says how far: the limit less one, plus the events of the
  tokens a piece may complete.  That is one event for each token, or two if the document has an
  empty-element basket: several of them in one resumed piece exceed the smaller bound.
* A creation that waits for the module survives a `close` that is handled meanwhile; a
  `careful` client excludes it.
* A worker whose module failed to load answers every request with that failure until `close`.
* The second pop in `next()` (XtfReader.cpp:270-274) is never reached with an event, which is part
  of the proved invariant.
* Pieces fed to a suspended reader are held without a limit.
* `maxLineBytes` measures what is left in the buffer when no newline follows: a longer line that arrives
  with its newline passes, and a CR LF line of exactly the limit fails if the cut falls between CR and
  LF.  `json_line_limit_is_enforced` (test/json/JsonChunked.test.cpp) feeds a line that is malformed as well.
* An attribute with an XML name only is written to JSON without its values, since they are looked up
  by INTERLIS name, and the reader refuses the line; `Findable` excepts it in `ReadsOwnOutput`.  The XTF writers
  leave its values out in the same way (Xtf23Writer.cpp:644, Xtf24Writer.cpp:710), without a diagnostic.
* The queue of the JSON reader has no limit: one `feed` queues the events of all lines it completes.
* An event for which `write()` reported a failure may be read back, if the output had taken all of
  its line; `ReadsBack` says it is at most that one.

* A lenient writer may record an error and go on.  The C ABI then returns it, clears its diagnostics and makes the
  handle terminal: every later call returns an error result without a diagnostic, whose code is the
  fallback `InternalError`.
* If there is no memory for its result, `iox_writer_write_event_json` has written the event and
  returns `OK` without a result; `index.js` throws, and a program that tries again writes it twice or is
  refused.  `iox_writer_finish` has then finished the writer, whose last output cannot be had.
  `WritesEverything` is stated for programs whose writer has not thrown.
* If the copy of the output fails, the first result is not destroyed.
* `BasketReader` reports an unfinished reader at its header twice.  The free function
  `readBasket(Reader&)` (include/iox/Basket.h:24-35) returns what it has of a basket at `NeedInput`.
* `IlicXtfReader::next()` has taken the event when its translation throws: the event is lost and the
  next call goes on behind it; the reader does not fail.  A header that throws leaves the model selected
  before, none at first.
* A value that two attributes of a model share has two variants there.  In another model of the language
  (one that extends the model) `translateEnumeration` throws at the second (IlicModelIndex.cpp:1073-1077) though
  both have the same text; `ClearText` excepts it.
* Of three models that translate one into the same language, the third cannot be selected: `chooseVariant` throws
  at the second variant in the language before it sees the exact match (IlicModelIndex.cpp:567-583).  No document says
  what it should do; `OneName` excepts it, and the run has the case.
* Without a known model in the header, names are kept but the values of enumerations throw, and so does
  a transfer order.
* `enrichHeaderModels` uses the version of the header, not the one the writer is set to, so that a writer
  set to the other version gets the metadata of the wrong one (IlicXtf.cpp:84-88).
* A value that is not known in the language of its attribute is handed on with a warning as it is; it may
  be another value in the target's language.  Members of an XTF 2.4 document have the names of the root, so that
  values are looked up in the language of the root.
* Two classes of one name in two topics of a model have the same XML name in the index: such a name of
  a 2.4 document is ambiguous, also if its INTERLIS name is not.
* `IlicXtfWriter::write` after `close()` makes `isClosed()` false.  IlicXtf.cpp:168 is never reached.
* Reads of an object build a lookup that its copies share, without a lock.

## 5. Proofs

**The XTF reader** (`XtfReader_proofs`, `XtfStream_proofs`), for every set of documents (valid or not),
chunk sizes, limits and options that satisfy the named assumptions of `XtfReader` and the modules it extends:

| Theorem | Property | Rests on |
|---|---|---|
| `TypeCorrect`, `Agreement`, `EventsInOrder` | `TypeOK`, `DialectAgreement`, `DeliveredInOrder` | `Typed`, `Agreed`, `History` |
| `SuspensionHasEvents`, `Refinement` | `SuspendedHasEvents`, `ImplementsEventStream` | `Inductive` |
| `ReadsTheDocument`, `AllReported` | `ReadsDocument`, `NothingPassesSilently` | `Reading` |
| `ReportsStay` | `ReportsAreKept` | `Typed` |
| `InputIsUsedUp` | `NeedInputMeansDrained` | `Flowing` |
| `QueueIsBounded` | `QueueBound` | `Flowing`, `Bounded` |
| `ValidIsRead` | `ValidNeverFails` | `Flowing`, `Sound`, under `Granted` |

`Inductive == Typed /\ History /\ Accepted /\ Pumped`.
`Typed` is the type invariant.  `History` says that delivered, held and queued events
concatenate to the emitted ones; it alone is inductive for the order, but says nothing
about what may be emitted.  `Accepted` relates the emitted events to `eventState` and the
dialect's state, as long as no callback has failed: this needs, from the lemmas about the two dialects, that
each handler emits only the event its state allows and ends in
the state that event stands for.  `Pumped` relates the place in a call to the flags of the
wrapper and Expat: who has suspended, that a suspension inside a parse follows a queued event,
and that `next()` meets an empty queue only where nothing is suspended.
The refinement uses all four: each step is one of EventStream's or a stutter.

`Reading` adds three parts.  `Following`: while nothing has failed, what the reader has (open tags,
dialect, events, diagnostics) is the place of `ReadInOnePiece` that belongs to Expat's cursor, with
the two halves of an empty-element tag told apart (`HalfRead`).  `Buffered`: the bytes received
by the parser and the queued pieces add up to what was fed, so that none is lost.  `Complete`: a final parse
that succeeded has read all that was received, and the end is reported only then.  Together: the events are a prefix
of the document's own at every moment, all of them at the end.  The same holds of `Diagnosed`, what the caller has taken
and can take, against the diagnostics of the document, but for a part of the last one of a callback
that throws.  `ReportsStay` says step by step that `Diagnosed` only grows, which `AllReported` alone
does not say of a reader that has failed.

`Flowing` adds `Rooted` and `Placed` (where parser, coordinator and caller are in the document) and
`Drained`: an Expat that does not defer leaves a complete token only where it is suspended.
`Bounded` counts for the queue: a parser that may suspend leaves room for the events of one token, a resumed one
(whose wrapper no longer suspends) for the events of all tokens it still has, and what
it has is less than a piece and a token.  `Sound` says that on a valid document no callback
throws and no callback meets a suspended parser.  Its hypothesis `Granted` has three parts: no deferred
reparse and no empty-element basket, whose absence is exactly what findings 1 and 2 violate, and a
document within `MaxTotalInputBytes`.  The run `chunking` meets all three.

**The worker** (`WasmWorker_proofs`): `HandlesAreOwned`, `CloseIsFinal` and `NoDuplicates`, for careful
clients, and `TypeCorrect`.  The inductive
invariant adds to the type that a creation in flight is alone (`Alone`), of the
current epoch (`Current`), and that its number is used by no session (`Fresh`).

**The writer** (`XtfWriter_proofs`), with the dialect writer, its events and the sink arbitrary:
`TypeCorrect`, `EventStreamTaken` (`TakesEventStream`), `TerminalHolds` (`Terminal`),
`OutputIsUnderstood` (`Understood`), `ClosedDocumentIsComplete` (`ClosedIsComplete`), `EventsAreBalanced`
(`BalancedBetweenEvents`), and `NamesAreKept` (`NamesKept`) for dialect writers with `Undeclares`.  The first three rest on `TypeOK` with
`InOrder`: the state tells the last event written, at most one event is running and it is one
that the state allows, and calls are left only of a running event.  The others need `NamesInv`:

* `Markup`: every element has in scope what its parent has and what it declares; its prefix and those of its
  attributes are bound to the namespaces that were asked for; only the innermost start tag is pending.
* `Mirrors`: the parser's open elements are the writer's, but for the pending one, with the same bindings.
  `StartIsRead` then gives that every start tag is legal, `EndElementKeeps` that every end tag matches.
* `Progress`: the calls left are the last ones of the event's, and a declaration among them finds the start tag
  it is for, pending and without attributes.  Here `DeclaringAssumption` is used; without it the property is false,
  since a declaration behind an attribute could give its prefix another meaning.
* `NoDefaults`: under `Undeclares`, an element without namespace has no default one in scope, unless the next call
  undeclares it.  In `MC_XtfWriter`, `UndeclaringAssumption` has TLC confirm the hypothesis for
  everything the run `writer` writes; the run `nested_extension` violates it and the property.
* `BalanceInv`, for `EventsAreBalanced` only: inside an event, the depth differs from that between events by the starts
  and ends among the calls made so far.  `BalancedAssumption` says where the last call leaves it; a call that throws
  makes the writer fail, so that nothing is said of half an event.

**JSON** (`Json_proofs`): `WhatIsWritten`, `LinesAreRead`, `EndIsComplete`, `OwnOutputIsRead` and `Refinement`, all
five properties of the run `json`, for every set of events, files, sizes, chunks and limits.  What `parseEvent` and
`serializeEvent` do with the value of a line is taken from assumptions, because values are trees:
`RoundTripAssumption` (one undoes the other, or refuses an attribute it cannot look up), `MalformedAssumption`,
`FilesAssumption` (the events a file is said to hold are those of its lines) and `SizeAssumption`.  TLC evaluates
them with the recursive functions of `JsonEvents` for all events, lines and files of the run.  The inductive invariant cuts the bytes
that were fed into lines: those parsed, what the buffer holds, and what is still to come.

**Objects** (`Iom_proofs`), with any variables, cells, keys, texts and paths: `TypeCorrect`, `LookupsAreRight`,
`NoObjectHoldsItself`, `WhatIsSharedStays` and `HandlesAreValues`.  The inductive invariant is `TypeOK`
with `HeapOK`, which has `LookupsAgree` and `Acyclic`.  The argument for the cycle: a write is to a cell that
nothing but its variable holds, or to a new one, and a parameter that holds the written object
itself makes it shared; so the written cell is held by no cell that it holds.  The lookup needs that each
attribute has a value and each key one attribute, so that erasing the last value and appending
the first are the only changes of places, and both invalidate.

`HandlesAreValues` (`ImplementsValues`) is the refinement: whatever is shared, each variable behaves as a tree
of its own.  Its steps are:

* A heap without cycle has one choice of trees (`OneTreeEach`), by induction over the cells that
  are done when all they hold are done; so `Trees` is a function of the heap, and an object that a step leaves
  alone and whose parts it leaves alone keeps its tree.
* What an operation makes of an `Impl` it makes of the tree in the same way, up to the lookup, which the tree
  does not have: one lemma per operation.
* A write changes the tree of one variable (`WriteTrees`): the cell it writes is new or held by that variable
  alone, and no other cell that a variable reaches holds it.  A deep copy has the trees of the original.
* The objects a path walks through stand for the trees on its way (`Leads`), and the
  copies `ReplaceSinglePrimitive` makes, from the inside out, for the changed ones.

**Callers** (`Callers_proofs`), with any input, limits and reactions of the writer:

* `OutputIsKept` (`OutputKept`), `FailureIsFinal` (`ErrorsAreFinal`) and `TypeCorrect`.  The inductive invariant adds
  to `TypeOK` that handles have all their fields, that between the two calls of `write()` the writer is open and
  something was sent, and `OutputKept` itself.
* `AllIsRead` (`ReadsEverything`).  `ReadInv`: the implementation in the handle has failed if and only if the input up to `parsed` has an
  error; what was received and what `index.js` has drained are together the events up to `taken`; what the program was
  told and what the handle still has are the diagnostics up to `parsed`.  It rests on lemmas about `Only` and `ItemsOf`,
  which distribute over what is appended and over adjoining ranges of the input.
* `AllIsWritten` (`WritesEverything`).  `WriteInv`: while no call has thrown, the writer has written the first `sent`
  events received; a finished document ends with EndTransfer, behind which `IsInput` allows no event, so that nothing
  received can be missing from it.
* `BasketsAreWhole` (`BasketsWhole`), for `BasketSpec`, the basket reader alone.  `BasketInv`: the baskets returned
  are the first ones of the input that start behind the event where the reader was taken over.  Outside of a
  collection as many were started as were returned; during one, exactly one more, and `collected` is its start
  with the events that follow it, all of them objects and no more than the limit.
* `ModelDataIsWritten` (`WritesModelData`), for `IlicSpec`: for every index (`IsIndex`), all options and every transfer, the
  generic writer of the model layer gets the events in their order and none after a failure, what is closed ends
  with EndTransfer, and every object is `WellMade` for the model selected when it was translated: where unknown
  classes or attributes are rejected there is none, no transient attribute then either, and attributes are in transfer
  order where that is enforced.  `ModelInv` adds what has been tried and that `output` is closed only behind
  EndTransfer.  A step needs what one translation makes, whatever becomes of the objects in it
  (`WritesWell`), so that no induction over objects is needed: the sort orders (`Ordering`), joining
  attributes of one key keeps some of the names in their order (`AppendedNames`), and a property that is found and
  not transient has its name in the transfer order (`OrderHasName`), since every variant of the class has it.

**Induction.**  The library's induction theorems take an operator as a parameter, which the installed provers cannot
instantiate.  `Induction` states what the proofs need with sets and functions: a set of
naturals with 0 and every successor is all of them, the same over a range, and that a function defined by
recursion over a range exists.

**Only model-checked.**

* Liveness under fairness, `Terminates` of the reader and `EveryRequestAnswered` of the worker: out of the provers' reach.
* `ReadsBack` of `MC_XtfWriter`: it says what the two dialect writers make of their events, whose
  plans are recursive over objects, and reads them back with the dialects of the reader.
* `MeaningKept` and `LostOnlyIfUnclear` of the model layer: `MeaningOf` and `ClearObject` go down into nested objects,
  and what they compute for every object would need an induction over data.  `LostOnlyIfUnclear` also needs more of the
  models than `IsIndex` says: their names are distinct, and a class known by a name has a variant in each.
* The assumptions on parameters that stand for such functions: `MeaningAssumption` (reading in one piece),
  `RoundTripAssumption` and its companions (JSON values), `DeclaringAssumption` and `BalancedAssumption` (dialect writers).  The theorems hold for
  every parameter that satisfies them; TLC evaluates them for those of the runs.

## 6. What is left

**Not modelled.**

* Geometry (floating point) and the generated glue; build, release and test scripts; the dump tool.
* Of `IlicModelIndex`, the descriptors of properties and geometry, `referenceTargetClass` and `isEmbeddedRole`,
  which neither the reader nor the writer asks for, and the metamodels that its constructor refuses.  The
  metamodel of the ilic compiler is not in the repository and modelled by the fields that the index reads.
* The registry and the factory: pure functions over a list that is filled once.
* Of the C ABI, the parsing of options, null arguments and texts of more or less than one event; of the
  object model, `semanticallyEquals`, moved-from objects and an `IomValue` of the program's own, which is one
  more variable that holds an object; of paths, the grammar.
* More than one thread.

Left out of the writer's properties: a preserved basket extension that does not have the name of
the basket becomes a child of the basket, where a reader expects objects, and a member `text`
without QName of a top-level object becomes text the reader refuses; no document says what should
happen, and the runs write neither.
