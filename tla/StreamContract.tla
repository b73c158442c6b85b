--------------------------- MODULE StreamContract ---------------------------
(***************************************************************************)
(* What a completion stream promises its consumer, whatever produces it:   *)
(* the sequence validate_stream_events accepts when the stream succeeds,   *)
(* a prefix of one, then a single error, when it does not.  The consumer   *)
(* may also stop looking at any moment.                                    *)
(***************************************************************************)
EXTENDS CompletionEvents

VARIABLES
  outcome,  \* what the consumer has been told about the stream as a whole
  event,    \* the last event it received
  blocks    \* what it has seen of the content

vars == <<outcome, event, blocks>>

Init ==
  /\ outcome = "idle"
  /\ event = Nil
  /\ blocks = NoBlocks

\* The request is accepted.
Begin ==
  /\ outcome = "idle"
  /\ outcome' = "open"
  /\ UNCHANGED <<event, blocks>>

Start ==
  /\ outcome = "open"
  /\ event = Nil
  /\ event' = ResponseStarted
  /\ UNCHANGED <<outcome, blocks>>

Deliver ==
  /\ outcome = "open"
  /\ event # Nil
  /\ event' # Nil
  /\ Accepts(blocks, event')
  /\ blocks' = Observe(blocks, event')
  /\ UNCHANGED outcome

Complete ==
  /\ outcome = "open"
  /\ event # Nil
  /\ event'.type = "ResponseCompleted"
  /\ Agrees(blocks, event'.content)
  /\ outcome' = "completed"
  /\ UNCHANGED blocks

\* One error, before or after the request is accepted, and nothing after it.
Fail ==
  /\ outcome \in {"idle", "open"}
  /\ outcome' = "failed"
  /\ UNCHANGED <<event, blocks>>

Next == Begin \/ Start \/ Deliver \/ Complete \/ Fail

Spec == Init /\ [][Next]_vars
=============================================================================
