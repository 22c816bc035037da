-------------------------------- MODULE Expat ---------------------------------
(***************************************************************************)
(* The Expat library, as source/xml/ExpatParser.cpp uses it (external      *)
(* code).  A push parser: XML_ParseBuffer and XML_ResumeParser run the     *)
(* callbacks of every complete token they have the bytes of, until one of  *)
(* them stops the parser.  Tokens have TokenBytes bytes each.              *)
(*                                                                         *)
(* Three traits of the library matter to its caller:                       *)
(*   - XML_StopParser(resumable) fails if the parser is already suspended; *)
(*   - the end callback of an empty-element tag follows its start callback *)
(*     even when that one stopped the parser;                              *)
(*   - since 2.6.0 a token that a parse found incomplete may be left alone *)
(*     until twice as many bytes are there, or until the final parse       *)
(*     (ReparseDeferral).                                                  *)
(***************************************************************************)
EXTENDS XtfSyntax, Integers

CONSTANTS
  TokenBytes,       \* length of a token
  ReparseDeferral   \* the library defers reparsing, as 2.6.0 and later do

ASSUME TokenBytesAssumption == TokenBytes \in Nat \ {0}
ASSUME ReparseDeferralAssumption == ReparseDeferral \in BOOLEAN

VARIABLES
  doc,            \* the document: its tokens, and what a reader must make of them
  received,       \* bytes passed to XML_ParseBuffer
  cursor,         \* tokens whose callbacks have been made
  endPending,     \* the end callback of an empty-element tag is still to come
  tags,           \* open elements, innermost first
  parsing,        \* XML_ParsingStatus.parsing
  finalBuffer,    \* XML_ParsingStatus.finalBuffer
  partialBefore,  \* bytes of the token the last parse found incomplete
  deferring       \* this parse leaves the incomplete token alone

expatVars == <<doc, received, cursor, endPending, tags, parsing, finalBuffer,
               partialBefore, deferring>>

Parsing == {"Initialized", "Parsing", "Suspended", "Finished"}

ExpatTypeOK ==
  /\ received \in Nat
  /\ cursor \in 0 .. Len(doc.tokens)
  /\ endPending \in BOOLEAN
  /\ tags \in Seq(Element)
  /\ parsing \in Parsing
  /\ finalBuffer \in BOOLEAN
  /\ partialBefore \in Int
  /\ deferring \in BOOLEAN

ExpatInit ==
  /\ received = 0
  /\ cursor = 0
  /\ endPending = FALSE
  /\ tags = <<>>
  /\ parsing = "Initialized"
  /\ finalBuffer = FALSE
  /\ partialBefore = 0
  /\ deferring = FALSE

Consumed == cursor * TokenBytes
DocBytes == Len(doc.tokens) * TokenBytes

CompleteToken(bytes) == cursor < Len(doc.tokens) /\ bytes - Consumed >= TokenBytes

\* A callback or an error is next in the running parse.
Ready == parsing = "Parsing" /\ ~deferring /\ CompleteToken(received)

NextToken == doc.tokens[cursor + 1]

RootSeen == \E i \in 1 .. cursor : doc.tokens[i].tag \in {"start", "empty"}

\* The next token makes the document ill-formed.
IllFormed ==
  \/ NextToken.tag = "malformed"
  \/ NextToken.tag = "end" /\ (tags = <<>> \/ ~SameName(Head(tags), NextToken.element))
  \/ NextToken.tag \in {"start", "empty"} /\ tags = <<>> /\ RootSeen
  \/ NextToken.tag = "text" /\ tags = <<>>
  \/ NextToken.tag = "doctype" /\ RootSeen

\* One pass over the buffered bytes begins (callProcessor).
CallProcessor(bytes, final) ==
  LET have == bytes - Consumed
      mayDefer == ReparseDeferral /\ ~final /\ have < 2 * partialBefore
  IN  \E defer \in IF mayDefer THEN BOOLEAN ELSE {FALSE} :
        /\ deferring' = defer
        /\ partialBefore' = IF defer THEN partialBefore
                            ELSE IF CompleteToken(bytes) THEN 0 ELSE have

XML_ParseBuffer(size, final) ==
  /\ parsing' = "Parsing"
  /\ received' = received + size
  /\ finalBuffer' = final
  /\ CallProcessor(received + size, final)
  /\ UNCHANGED <<doc, cursor, endPending, tags>>

XML_ResumeParser ==
  /\ parsing' = "Parsing"
  /\ CallProcessor(received, finalBuffer)
  /\ UNCHANGED <<doc, received, cursor, endPending, tags, finalBuffer>>

\* What Expat itself changes when it makes the callback of the next token.
StartTagCallback ==
  /\ cursor' = cursor + 1
  /\ endPending' = (NextToken.tag = "empty")
  /\ tags' = <<NextToken.element>> \o tags
  /\ UNCHANGED <<doc, received, finalBuffer, partialBefore, deferring>>

EndTagCallback ==
  /\ cursor' = IF endPending THEN cursor ELSE cursor + 1
  /\ endPending' = FALSE
  /\ tags' = Tail(tags)
  /\ UNCHANGED <<doc, received, finalBuffer, partialBefore, deferring>>

OtherCallback ==
  /\ cursor' = cursor + 1
  /\ UNCHANGED <<doc, received, endPending, tags, finalBuffer, partialBefore, deferring>>

\* The final parse fails on an unclosed token, an unclosed element, or no element.
Truncated == received # Consumed \/ tags # <<>> \/ ~RootSeen
=============================================================================
