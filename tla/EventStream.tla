------------------------------ MODULE EventStream ------------------------------
(***************************************************************************)
(* What a reader promises its caller: the events of one transfer, one at a *)
(* time and in the order of the event grammar, until the transfer is       *)
(* complete or the reader fails.                                           *)
(***************************************************************************)
EXTENDS XtfSyntax

VARIABLES
  events,   \* the events handed out
  phase     \* "Open", "Ended" or "Failed"

streamVars == <<events, phase>>

\* The pairs of events that may follow each other.
Follows ==
  ({"StartTransfer", "EndBasket"} \X {"StartBasket", "EndTransfer"})
    \cup ({"StartBasket", "Object"} \X {"Object", "EndBasket"})

MayFollow(s, kind) ==
  IF s = <<>> THEN kind = "StartTransfer" ELSE <<s[Len(s)].kind, kind>> \in Follows

Complete(s) == s # <<>> /\ s[Len(s)].kind = "EndTransfer"

StreamInit == events = <<>> /\ phase = "Open"

\* One more event; the one that completes the transfer may end it in the same step.
Deliver ==
  /\ phase = "Open"
  /\ Len(events') = Len(events) + 1
  /\ events' = Append(events, events'[Len(events')])
  /\ MayFollow(events, events'[Len(events')].kind)
  /\ phase' = "Open" \/ (phase' = "Ended" /\ Complete(events'))

End ==
  /\ phase = "Open" /\ Complete(events)
  /\ phase' = "Ended"
  /\ UNCHANGED events

Fail ==
  /\ phase = "Open"
  /\ phase' = "Failed"
  /\ UNCHANGED events

Next == Deliver \/ End \/ Fail

Spec == StreamInit /\ [][Next]_streamVars
=============================================================================
