----------------------------- MODULE ExpatParser ------------------------------
(***************************************************************************)
(* source/xml/ExpatParser.cpp: the wrapper that turns Expat's status codes *)
(* into exceptions and carries exceptions of the callbacks across the C    *)
(* library.                                                                *)
(*                                                                         *)
(* `suspended' is the wrapper's own flag.  It is assigned only when a call *)
(* into Expat has returned, so during a call it still says how the         *)
(* previous one ended.                                                     *)
(***************************************************************************)
EXTENDS Expat

VARIABLES
  finished,       \* finished_
  failed,         \* failed
  suspended,      \* suspended_
  inParse,        \* a call into Expat is running
  callbackError   \* an exception of a callback waits to be rethrown

parserVars == <<finished, failed, suspended, inParse, callbackError>>

ParserTypeOK ==
  /\ finished \in BOOLEAN
  /\ failed \in BOOLEAN
  /\ suspended \in BOOLEAN
  /\ inParse \in BOOLEAN
  /\ callbackError \in BOOLEAN

ParserInit ==
  /\ finished = FALSE
  /\ failed = FALSE
  /\ suspended = FALSE
  /\ inParse = FALSE
  /\ callbackError = FALSE

\* feed, finish, suspend and resume throw InvalidState on these conditions.
FeedRefused    == finished \/ failed
FinishRefused  == finished \/ failed
ResumeRefused  == finished \/ failed \/ ~suspended
SuspendRefused == finished \/ failed \/ ~inParse

\* feed of a non-empty chunk, up to the call into Expat.
BeginFeed(size) ==
  /\ ~FeedRefused
  /\ XML_ParseBuffer(size, FALSE)
  /\ inParse' = TRUE
  /\ UNCHANGED <<finished, failed, suspended, callbackError>>

BeginFinish ==
  /\ ~FinishRefused
  /\ XML_ParseBuffer(0, TRUE)
  /\ inParse' = TRUE
  /\ UNCHANGED <<finished, failed, suspended, callbackError>>

BeginResume ==
  /\ ~ResumeRefused
  /\ parsing = "Suspended"
  /\ XML_ResumeParser
  /\ inParse' = TRUE
  /\ UNCHANGED <<finished, failed, suspended, callbackError>>

\* invokeFromCallback: a callback runs only while no earlier one has failed, and its
\* exception is kept and stops Expat for good.  (Callbacks that fail through `fail' set
\* `failed' at once, the others when the exception is rethrown: nothing reads it between.)
CallbackRuns == ~(callbackError \/ failed)

CallbackFails ==
  /\ callbackError' = TRUE
  /\ parsing' = "Finished"
  /\ UNCHANGED <<finished, failed, suspended, inParse>>

\* XML_StopParser(parser, XML_TRUE) is an error on a parser that is already suspended.
StopRejected == parsing = "Suspended"

\* The call into Expat has no more callbacks to make and returns.
ParseReturns == inParse /\ ~endPending /\ ~Ready

\* handleStatus throws: a callback failed, or Expat reports an error.
ParseFails ==
  /\ ParseReturns
  /\ \/ callbackError
     \/ parsing = "Finished"
     \/ parsing = "Parsing" /\ finalBuffer /\ Truncated
  /\ failed' = TRUE
  /\ inParse' = FALSE
  /\ callbackError' = FALSE
  /\ UNCHANGED <<finished, suspended>>
  /\ UNCHANGED expatVars

\* Mutant of ParseSucceeds: the flag is never cleared.
ParseSucceedsStaysSuspended ==
  /\ ParseReturns
  /\ ~callbackError
  /\ \/ parsing = "Suspended"
     \/ parsing = "Parsing" /\ ~(finalBuffer /\ Truncated)
  /\ suspended' = (suspended \/ parsing = "Suspended")
  /\ finished' = (finished \/ finalBuffer)
  /\ inParse' = FALSE
  /\ parsing' = IF parsing = "Parsing" /\ finalBuffer THEN "Finished" ELSE parsing
  /\ UNCHANGED <<failed, callbackError>>
  /\ UNCHANGED <<doc, received, cursor, endPending, tags, finalBuffer, partialBefore, deferring>>

\* handleStatus returns.  finish() sets finished_ whether or not Expat was suspended.
ParseSucceeds ==
  /\ ParseReturns
  /\ ~callbackError
  /\ \/ parsing = "Suspended"
     \/ parsing = "Parsing" /\ ~(finalBuffer /\ Truncated)
  /\ suspended' = (parsing = "Suspended")
  /\ finished' = (finished \/ finalBuffer)
  /\ inParse' = FALSE
  /\ parsing' = IF parsing = "Parsing" /\ finalBuffer THEN "Finished" ELSE parsing
  /\ UNCHANGED <<failed, callbackError>>
  /\ UNCHANGED <<doc, received, cursor, endPending, tags, finalBuffer, partialBefore, deferring>>
=============================================================================
