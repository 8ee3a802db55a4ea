---------------------------- MODULE EventStream ----------------------------
(***************************************************************************)
(* What a client of a streaming endpoint may rely on: it reads the events  *)
(* in the order they were sent, without gaps, and when the stream ends it  *)
(* either has them all or is told that it was too slow.  It may leave at   *)
(* any time.                                                               *)
(***************************************************************************)
EXTENDS Naturals, Sequences

CONSTANT Events

VARIABLES
  sent,     \* what the worker has sent
  complete, \* the worker has sent its last event
  received, \* what the client has read
  stream    \* "open", "complete", "cut" (told so) or "left"

vars == <<sent, complete, received, stream>>

Init ==
  /\ sent = <<>>
  /\ complete = FALSE
  /\ received = <<>>
  /\ stream = "open"

Send(e) ==
  /\ ~complete
  /\ sent' = Append(sent, e)
  /\ UNCHANGED <<complete, received, stream>>

Finish ==
  /\ ~complete
  /\ complete' = TRUE
  /\ UNCHANGED <<sent, received, stream>>

Receive ==
  /\ stream = "open"
  /\ \E e \in Events : /\ received' = Append(received, e)
                       /\ received' = SubSeq(sent, 1, Len(received) + 1)
  /\ UNCHANGED <<sent, complete, stream>>

End ==
  /\ stream = "open"
  /\ complete /\ received = sent
  /\ stream' = "complete"
  /\ UNCHANGED <<sent, complete, received>>

Cut ==
  /\ stream = "open"
  /\ stream' = "cut"
  /\ UNCHANGED <<sent, complete, received>>

Leave ==
  /\ stream \in {"open", "cut"}
  /\ stream' = "left"
  /\ UNCHANGED <<sent, complete, received>>

Next == (\E e \in Events : Send(e)) \/ Finish \/ Receive \/ End \/ Cut \/ Leave

Spec == Init /\ [][Next]_vars

=============================================================================
