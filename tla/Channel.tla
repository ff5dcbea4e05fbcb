-------------------------------- MODULE Channel --------------------------------
(***************************************************************************)
(* What the command loop relies on: the server's commands come out of the  *)
(* connection whole, in order, none twice and none left out, until the     *)
(* session ends.                                                           *)
(***************************************************************************)
EXTENDS Naturals, Sequences

CONSTANT Message

VARIABLES
    sent,       \* the messages put in so far
    received,   \* the messages taken out so far
    ended       \* nothing more comes out

vars == <<sent, received, ended>>

Init == sent = <<>> /\ received = <<>> /\ ended = FALSE

Send ==
    /\ \E m \in Message : sent' = Append(sent, m)
    /\ UNCHANGED <<received, ended>>

Receive ==
    /\ ~ended
    /\ Len(received) < Len(sent)
    /\ received' = Append(received, sent[Len(received) + 1])
    /\ UNCHANGED <<sent, ended>>

End == ~ended /\ ended' = TRUE /\ UNCHANGED <<sent, received>>

Next == Send \/ Receive \/ End

\* As long as the session lasts, what was sent is received.
Spec == Init /\ [][Next]_vars /\ WF_vars(Receive)
=============================================================================
