------------------------------ MODULE XtfDocument ------------------------------
(***************************************************************************)
(* What a document stands for: the events, and the diagnostics, of reading *)
(* it token by token in one piece, with the dialect its root names, without*)
(* chunks, queues or suspensions.  XtfReader.tla models how the reader gets*)
(* there; ReadsDocument says that it gets there.                           *)
(***************************************************************************)
EXTENDS XtfSyntax

CONSTANTS
  MaxDepth,                   \* options.xmlLimits.maxDepth
  ExpectedVersion,            \* options.expectedVersion, or "Any"
  Strict, PreserveUnknownExtensions, RequireAtLeastOneModel

ASSUME OptionsAssumption == /\ MaxDepth \in Nat \ {0}
                            /\ ExpectedVersion \in {"Any", "V23", "V24"}
                            /\ Strict \in BOOLEAN
                            /\ PreserveUnknownExtensions \in BOOLEAN
                            /\ RequireAtLeastOneModel \in BOOLEAN

V23 == INSTANCE Xtf23Dialect
V24 == INSTANCE Xtf24Dialect

RootVersion(e) ==
  CASE e.ns = "ili23" /\ e.local = "TRANSFER" -> "V23"
    [] e.ns = "ili24" /\ e.local = "transfer" -> "V24"
    [] OTHER -> "None"

RootAccepted(e) ==
  RootVersion(e) # "None" /\ ExpectedVersion \in {"Any", RootVersion(e)}

\* The callbacks of the dialect of a version.
OnStart(version, d, e) == IF version = "V23" THEN V23!OnStartElement(d, e)
                                             ELSE V24!OnStartElement(d, e)
OnEnd(version, d, e) == IF version = "V23" THEN V23!OnEndElement(d, e)
                                           ELSE V24!OnEndElement(d, e)
OnText(version, d) == IF version = "V23" THEN V23!OnText(d) ELSE V24!OnText(d)
OnRootClosed(version, d, e) == IF version = "V23" THEN V23!OnRootClosed(d, e)
                                                  ELSE V24!OnRootClosed(d, e)
-----------------------------------------------------------------------------
(* Reading in one piece *)

\* What is known after some tokens: the open elements, innermost first, whether there was a root,
\* the dialect, and whether a fault ended it.
NothingRead ==
  [open |-> <<>>, begun |-> FALSE, version |-> "None", dialect |-> NewDialect,
   events |-> <<>>, told |-> <<>>, stopped |-> FALSE]

Stop(w) == [w EXCEPT !.stopped = TRUE]

\* A callback leaves `open' open.
Took(w, r, open) ==
  IF r.thrown THEN Stop(w)
  ELSE [w EXCEPT !.open = open, !.dialect = r.dialect,
                 !.events = IF r.emit = <<>> THEN w.events ELSE Append(w.events, Head(r.emit)),
                 !.told = w.told \o r.diagnostics]

TookRoot(w, e) ==
  IF RootAccepted(e)
  THEN [w EXCEPT !.open = <<e>>, !.begun = TRUE, !.version = RootVersion(e)]
  ELSE Stop(w)

Opened(w, e) ==
  IF Len(w.open) >= MaxDepth THEN Stop(w)
  ELSE IF ~w.begun THEN TookRoot(w, e)
  ELSE Took(w, OnStart(w.version, w.dialect, e), <<e>> \o w.open)

Closed(w) ==
  LET e == Head(w.open)
  IN  Took(w, IF Len(w.open) = 1 THEN OnRootClosed(w.version, w.dialect, e)
                                 ELSE OnEnd(w.version, w.dialect, e), Tail(w.open))

\* A token that has no place where it stands, or that no reader takes.
Misplaced(w, t) ==
  \/ t.tag \in {"malformed", "doctype"}
  \/ t.tag \in {"start", "empty"} /\ w.begun /\ w.open = <<>>
  \/ t.tag = "end" /\ (w.open = <<>> \/ ~SameName(Head(w.open), t.element))
  \/ t.tag = "text" /\ w.open = <<>>

Read(w, t) ==
  IF w.stopped \/ Misplaced(w, t) THEN Stop(w)
  ELSE CASE t.tag = "start" -> Opened(w, t.element)
         [] t.tag = "empty" -> IF Opened(w, t.element).stopped THEN Opened(w, t.element)
                                                               ELSE Closed(Opened(w, t.element))
         [] t.tag = "end" -> Closed(w)
         [] t.tag = "text" -> Took(w, OnText(w.version, w.dialect), w.open)

\* Place n is what is known after n tokens.
ReadInOnePiece(tokens) ==
  LET read[n \in 0 .. Len(tokens)] ==
        IF n = 0 THEN NothingRead ELSE Read(read[n - 1], tokens[n])
  IN  read

\* A document is valid if nothing stops its reading and its root is closed.
StandsFor(tokens, events, valid, diagnoses) ==
  LET w == ReadInOnePiece(tokens)[Len(tokens)]
  IN  /\ events = w.events
      /\ valid <=> ~w.stopped /\ w.begun /\ w.open = <<>>
      /\ diagnoses = w.told
=============================================================================
