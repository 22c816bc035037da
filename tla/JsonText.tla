------------------------------- MODULE JsonText -------------------------------
(***************************************************************************)
(* The NDJSON text between the event writer and the event reader: lines,   *)
(* each the JSON value it holds and how many bytes it takes.  A line ends  *)
(* in LF or CR LF; the last one may not have ended yet.                    *)
(***************************************************************************)
EXTENDS Naturals, Sequences, SequencesExt

VARIABLE text

Ending == {"lf", "crlf", "none"}
EndingBytes == [lf |-> 1, crlf |-> 2, none |-> 0]
Line(json, size, ending) == [json |-> json, size |-> size, ending |-> ending]

\* What a line holds that is blank, cut off, or not JSON at all.
Malformed == [type |-> "malformed"]

LineBytes(line) == line.size + EndingBytes[line.ending]
BytesOf(lines) ==
  LET bytes[n \in 0 .. Len(lines)] == IF n = 0 THEN 0 ELSE bytes[n - 1] + LineBytes(lines[n])
  IN  bytes[Len(lines)]

\* The states of a transfer; the writer knows Closed as well.
TransferState == {"BeforeTransfer", "InTransfer", "InBasket", "AfterTransfer", "Failed"}
=============================================================================
