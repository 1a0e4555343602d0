---------------------------- MODULE ChannelFifo ----------------------------
(***************************************************************************)
(* What a Channel promises (spec/CONCURRENCY.md): a bounded first in,      *)
(* first out queue that can be closed once.  Every value sent is received  *)
(* at most once, in the order of the sends, and never lost.                *)
(***************************************************************************)
EXTENDS Naturals, Sequences

CONSTANTS Values, Cap

VARIABLES sent,     \* the values accepted, in order
          received, \* the values handed out, in order
          closed

Init == sent = <<>> /\ received = <<>> /\ closed = FALSE

Send(v) ==
    /\ ~closed
    /\ Len(sent) - Len(received) < Cap
    /\ sent' = Append(sent, v)
    /\ UNCHANGED <<received, closed>>

Receive ==
    /\ Len(received) < Len(sent)
    /\ received' = Append(received, sent[Len(received) + 1])
    /\ UNCHANGED <<sent, closed>>

Close == closed' = TRUE /\ UNCHANGED <<sent, received>>

Next == (\E v \in Values : Send(v)) \/ Receive \/ Close

Spec == Init /\ [][Next]_<<sent, received, closed>>
=============================================================================
