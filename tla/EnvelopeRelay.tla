--------------------------- MODULE EnvelopeRelay ---------------------------
(***************************************************************************)
(* What the signalling hub promises to the devices, with no inbox, channel *)
(* or goroutine in sight: envelopes are underway between connections, may  *)
(* be lost at any time, and reach a connected peer of the device they are  *)
(* addressed to, each at most once and never behind a later one of their   *)
(* sender.  SignallingHub (the two loops of every connection and the       *)
(* buffered inboxes) is shown to implement it.                             *)
(***************************************************************************)
EXTENDS Naturals, Sequences

CONSTANTS
    Connections,
    Devices,
    device       \* device[c]: the device that opened connection c

VARIABLES
    connected,   \* the connections whose peer can be reached
    sent,        \* sent[c]: how many envelopes came from c
    underway,    \* the envelopes that may still be delivered
    received     \* received[c]: the envelopes delivered on c, in order

relayVars == <<connected, sent, underway, received>>

RelayInit ==
    /\ connected = {}
    /\ sent = [c \in Connections |-> 0]
    /\ underway = {}
    /\ received = [c \in Connections |-> <<>>]

\* A peer connects; nothing was delivered on its connection before.
Connect(c) ==
    /\ c \notin connected
    /\ received[c] = <<>>
    /\ connected' = connected \union {c}
    /\ UNCHANGED <<sent, underway, received>>

\* A peer is lost or hangs up.
Disconnect(c) ==
    /\ c \in connected
    /\ connected' = connected \ {c}
    /\ UNCHANGED <<sent, underway, received>>

\* The next envelope of c is on its way to some device, or to nobody.
Send(c) ==
    /\ sent' = [sent EXCEPT ![c] = @ + 1]
    /\ \/ \E d \in Devices :
              underway' = underway \union {[from |-> c, seq |-> sent[c] + 1, to |-> d]}
       \/ UNCHANGED underway
    /\ UNCHANGED <<connected, received>>

\* Envelopes get lost.
Lose ==
    /\ underway' \subseteq underway
    /\ UNCHANGED <<connected, sent, received>>

\* An envelope reaches a peer of its addressee, in its sender's order.
Deliver(c) ==
    /\ c \in connected
    /\ \E e \in underway :
          /\ e.to = device[c]
          /\ \A i \in DOMAIN received[c] :
                 received[c][i].from = e.from => received[c][i].seq < e.seq
          /\ underway' = underway \ {e}
          /\ received' = [received EXCEPT ![c] = Append(@, e)]
    /\ UNCHANGED <<connected, sent>>

RelayNext ==
    \/ Lose
    \/ \E c \in Connections : Connect(c) \/ Disconnect(c) \/ Send(c) \/ Deliver(c)

RelaySpec == RelayInit /\ [][RelayNext]_relayVars
=============================================================================
