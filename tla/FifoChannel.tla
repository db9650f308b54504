----------------------------- MODULE FifoChannel -----------------------------
(***************************************************************************)
(* What PeerConnection expects of its socket: of the messages a peer sends *)
(* over one connection the worker receives the first few, each of them     *)
(* whole, once, in the order they were sent in; then the connection ends.  *)
(***************************************************************************)
EXTENDS Naturals, Sequences

CONSTANT Outboxes       \* the sequences of messages a peer may send

VARIABLES sent,         \* what the peer sends over this connection
          received      \* what the worker has received

ChannelInit == sent \in Outboxes /\ received = <<>>

ReceiveNext == /\ Len(received) < Len(sent)
               /\ received' = Append(received, sent[Len(received) + 1])
               /\ UNCHANGED sent

\* The connection is given up and another one made.
Reconnect == sent' \in Outboxes /\ received' = <<>>

ChannelNext == ReceiveNext \/ Reconnect

ChannelSpec == ChannelInit /\ [][ChannelNext]_<<sent, received>>

=============================================================================
