--------------------------- MODULE SignallingHub ---------------------------
(***************************************************************************)
(* backend/internal/matching/signalling.go: the in-process Hub that relays *)
(* signalling envelopes between devices, and the WebSocket Handler whose   *)
(* two loops bridge a connection to it.  A connection is used once; a      *)
(* device reconnects by opening another one under the same hash.  Each     *)
(* connection owns the inbox (a buffered Go channel) that Register made    *)
(* for it, so an inbox is named by its connection.                         *)
(*                                                                         *)
(* A step is what a goroutine does between two points where another one    *)
(* can get in; h.mu is never held across such a point.  An envelope is its *)
(* sender, its number on that connection and its addressee.  Frames that   *)
(* the read loop drops (garbage, a forged From, an empty To) change no     *)
(* state and are left out, as is the text of the error frames.             *)
(***************************************************************************)
EXTENDS Naturals, Sequences, FiniteSets

CONSTANTS
    Connections,
    Devices,     \* device hashes
    device,      \* device[c]: the hash connection c was opened with
    Capacity,    \* inboxCapacity
    MaxFrames,   \* bound: how many frames each connection sends
    NoConnection

ASSUME HubAssumption ==
    /\ device \in [Connections -> Devices]
    /\ Capacity \in Nat \ {0} /\ MaxFrames \in [Connections -> Nat]
    /\ NoConnection \notin Connections

VARIABLES
    registry,   \* h.inboxes: the connection whose inbox a hash maps to
    inbox,      \* what is buffered in each channel
    closed,     \* the channel is closed
    socket,     \* "none", "open", "lost" (the peer is gone) or "closed" (conn.Close)
    reader,     \* where ServeHTTP is
    writer,     \* where the write loop is
    target,     \* the box Send looked up
    frames,     \* number of frames read from each connection
    delivered   \* envelopes written to each connection's peer, in order

handler == <<reader, writer, target>>
vars    == <<registry, inbox, closed, socket, handler, frames, delivered>>

Envelope == [from : Connections, seq : Nat, to : Devices]

\* What Send holds between its lookup and its channel operation.
NoTarget == [box |-> NoConnection, to |-> CHOOSE d \in Devices : TRUE]

Init ==
    /\ registry = [d \in Devices |-> NoConnection]
    /\ inbox = [c \in Connections |-> <<>>]
    /\ closed = [c \in Connections |-> FALSE]
    /\ socket = [c \in Connections |-> "none"]
    /\ reader = [c \in Connections |-> "none"]
    /\ writer = [c \in Connections |-> "none"]
    /\ target = [c \in Connections |-> NoTarget]
    /\ frames = [c \in Connections |-> 0]
    /\ delivered = [c \in Connections |-> <<>>]

-----------------------------------------------------------------------------
\* The Hub.

\* close(i.ch) unless it is closed already, and unless there is no inbox.
CloseInbox(c) == [x \in Connections |-> closed[x] \/ x = c]

\* Slip: a reconnect leaves the previous inbox open.
ReplaceOnly(c) ==
    /\ registry' = [registry EXCEPT ![device[c]] = c]
    /\ UNCHANGED closed

\* Hub.Register: the previous inbox of the hash is closed and replaced.
Register(c) ==
    /\ registry' = [registry EXCEPT ![device[c]] = c]
    /\ closed' = CloseInbox(registry[device[c]])

\* Slips: only the map entry is removed, and only the channel is closed.
DeleteOnly(d) ==
    /\ registry' = [registry EXCEPT ![d] = NoConnection]
    /\ UNCHANGED closed

CloseOnly(d) ==
    /\ closed' = CloseInbox(registry[d])
    /\ UNCHANGED registry

\* Hub.Unregister: whatever inbox is registered under the hash is closed.
Unregister(d) ==
    /\ registry' = [registry EXCEPT ![d] = NoConnection]
    /\ closed' = CloseInbox(registry[d])

-----------------------------------------------------------------------------
\* ServeHTTP and its read loop.

\* Upgrade, Register, and the write loop is started.
Open(c) ==
    /\ socket[c] = "none"
    /\ socket' = [socket EXCEPT ![c] = "open"]
    /\ Register(c)
    /\ reader' = [reader EXCEPT ![c] = "reading"]
    /\ writer' = [writer EXCEPT ![c] = "draining"]
    /\ UNCHANGED <<inbox, target, frames, delivered>>

\* A frame is read (the last ones may come from a peer that is already gone), and
\* Send looks the addressee up and releases h.mu.  With nobody registered the
\* sender gets peer_unavailable and reading goes on.
Lookup(c) ==
    /\ reader[c] = "reading" /\ socket[c] \in {"open", "lost"}
    /\ frames[c] < MaxFrames[c]
    /\ frames' = [frames EXCEPT ![c] = @ + 1]
    /\ \E d \in Devices :
         \/ /\ registry[d] = NoConnection
            /\ UNCHANGED <<reader, target>>
         \/ /\ registry[d] # NoConnection
            /\ target' = [target EXCEPT ![c] = [box |-> registry[d], to |-> d]]
            /\ reader' = [reader EXCEPT ![c] = "sending"]
    /\ UNCHANGED <<registry, inbox, closed, socket, writer, delivered>>

Sent(c) == [from |-> c, seq |-> frames[c], to |-> target[c].to]

\* Slip: the capacity test is off by one.
EnqueueOver(c) ==
    LET box == target[c].box
    IN  /\ reader[c] = "sending" /\ ~closed[box]
        /\ inbox' = [inbox EXCEPT ![box] =
                       IF Len(@) <= Capacity THEN Append(@, Sent(c)) ELSE @]
        /\ reader' = [reader EXCEPT ![c] = "reading"]
        /\ target' = [target EXCEPT ![c] = NoTarget]
        /\ UNCHANGED <<registry, closed, socket, writer, frames, delivered>>

\* The non-blocking send on the box found: ErrInboxFull when it is full.
Enqueue(c) ==
    LET box == target[c].box
    IN  /\ reader[c] = "sending" /\ ~closed[box]
        /\ inbox' = [inbox EXCEPT ![box] =
                       IF Len(@) < Capacity THEN Append(@, Sent(c)) ELSE @]
        /\ reader' = [reader EXCEPT ![c] = "reading"]
        /\ target' = [target EXCEPT ![c] = NoTarget]
        /\ UNCHANGED <<registry, closed, socket, writer, frames, delivered>>

\* The box was closed after the lookup: a send on a closed channel panics, full
\* or not.  net/http recovers; the deferred Unregister still has to run.
Panic(c) ==
    /\ reader[c] = "sending" /\ closed[target[c].box]
    /\ reader' = [reader EXCEPT ![c] = "unwinding"]
    /\ target' = [target EXCEPT ![c] = NoTarget]
    /\ UNCHANGED <<registry, inbox, closed, socket, writer, frames, delivered>>

\* The read loop ends: the peer went away, was silent for the read deadline, or
\* sent more ICE candidates than its bucket allows.  conn.Close follows.
EndRead(c) ==
    /\ reader[c] = "reading"
    /\ socket' = [socket EXCEPT ![c] = "closed"]
    /\ reader' = [reader EXCEPT ![c] = "waiting"]
    /\ UNCHANGED <<registry, inbox, closed, writer, target, frames, delivered>>

\* <-writeDone, then the deferred Unregister(hash).  A panic skips the wait.
Cleanup(c) ==
    /\ \/ reader[c] = "waiting" /\ writer[c] = "done"
       \/ reader[c] = "unwinding"
    /\ Unregister(device[c])
    /\ reader' = [reader EXCEPT ![c] = "gone"]
    /\ UNCHANGED <<inbox, socket, writer, target, frames, delivered>>

-----------------------------------------------------------------------------
\* The write loop.

\* Slip: the envelope stays in the inbox after it was written.
WriteAgain(c) ==
    /\ writer[c] = "draining" /\ inbox[c] # <<>>
    /\ socket[c] \in {"open", "lost"} /\ Len(delivered[c]) < 3
    /\ delivered' = [delivered EXCEPT ![c] = Append(@, Head(inbox[c]))]
    /\ UNCHANGED <<registry, inbox, closed, socket, handler, frames>>

\* Slip: the newest envelope is written first.
WriteNewest(c) ==
    LET last == Len(inbox[c])
    IN  /\ writer[c] = "draining" /\ inbox[c] # <<>>
        /\ socket[c] \in {"open", "lost"}
        /\ inbox' = [inbox EXCEPT ![c] = SubSeq(@, 1, last - 1)]
        /\ delivered' = [delivered EXCEPT ![c] = Append(@, inbox[c][last])]
        /\ UNCHANGED <<registry, closed, socket, handler, frames>>

\* An envelope is received from the inbox and written to the peer.  To a peer
\* that is gone the write may still appear to succeed; the envelope is lost.
WriteNext(c) ==
    /\ writer[c] = "draining" /\ inbox[c] # <<>>
    /\ socket[c] \in {"open", "lost"}
    /\ inbox' = [inbox EXCEPT ![c] = Tail(@)]
    /\ delivered' = IF socket[c] = "open"
                    THEN [delivered EXCEPT ![c] = Append(@, Head(inbox[c]))]
                    ELSE delivered
    /\ UNCHANGED <<registry, closed, socket, handler, frames>>

\* WriteJSON fails (closed socket, lost or wedged peer) and the loop returns.
WriteFails(c) ==
    /\ writer[c] = "draining" /\ inbox[c] # <<>>
    /\ inbox' = [inbox EXCEPT ![c] = Tail(@)]
    /\ writer' = [writer EXCEPT ![c] = "done"]
    /\ UNCHANGED <<registry, closed, socket, reader, target, frames, delivered>>

\* Slip: the loop ends only when its own connection was closed.
EndWriteOnClose(c) ==
    /\ writer[c] = "draining" /\ inbox[c] = <<>> /\ closed[c] /\ socket[c] = "closed"
    /\ writer' = [writer EXCEPT ![c] = "done"]
    /\ UNCHANGED <<registry, inbox, closed, socket, reader, target, frames, delivered>>

\* range ends when the channel is closed and drained.
EndWrite(c) ==
    /\ writer[c] = "draining" /\ inbox[c] = <<>> /\ closed[c]
    /\ writer' = [writer EXCEPT ![c] = "done"]
    /\ UNCHANGED <<registry, inbox, closed, socket, reader, target, frames, delivered>>

\* The environment: a device's network goes away.
PeerLost(c) ==
    /\ socket[c] = "open"
    /\ socket' = [socket EXCEPT ![c] = "lost"]
    /\ UNCHANGED <<registry, inbox, closed, handler, frames, delivered>>

-----------------------------------------------------------------------------
ReadStep(c)  == Enqueue(c) \/ Panic(c) \/ Cleanup(c)
WriteStep(c) == WriteNext(c) \/ WriteFails(c) \/ EndWrite(c)

Next == \E c \in Connections :
            Open(c) \/ Lookup(c) \/ EndRead(c) \/ PeerLost(c) \/ ReadStep(c) \/ WriteStep(c)

Spec == Init /\ [][Next]_vars

\* Both goroutines of a connection are scheduled, and a read from a peer that is
\* gone ends at the latest with the 60 s read deadline.
FairSpec ==
    /\ Spec
    /\ \A c \in Connections :
         /\ WF_vars(ReadStep(c)) /\ WF_vars(WriteStep(c))
         /\ WF_vars(socket[c] = "lost" /\ EndRead(c))

-----------------------------------------------------------------------------
\* The hub as EnvelopeRelay tells it: an envelope is underway from the lookup of
\* its addressee until its write, its loss or a refusal, and a peer is reachable
\* until it is lost or its connection is closed.
Reachable == {c \in Connections : socket[c] = "open"}
InHand    == {Sent(c) : c \in {x \in Connections : reader[x] = "sending"}}
Buffered  == UNION {{inbox[c][i] : i \in DOMAIN inbox[c]} : c \in Connections}
Underway  == InHand \union Buffered

Relay == INSTANCE EnvelopeRelay WITH
    connected <- Reachable, sent <- frames, underway <- Underway, received <- delivered

\* To the devices, all the goroutines, inboxes and reconnects are a relay that
\* may lose envelopes but delivers each at most once, to a connected peer of its
\* addressee and in its sender's order.
RelaySpec == Relay!RelaySpec

-----------------------------------------------------------------------------
\* Properties.

\* The types of the variables, and the bound on an inbox.
TypeOK ==
    /\ registry \in [Devices -> Connections \union {NoConnection}]
    /\ inbox \in [Connections -> Seq(Envelope)]
    /\ \A c \in Connections : Len(inbox[c]) <= Capacity
    /\ closed \in [Connections -> BOOLEAN]
    /\ socket \in [Connections -> {"none", "open", "lost", "closed"}]
    /\ reader \in [Connections ->
                    {"none", "reading", "sending", "unwinding", "waiting", "gone"}]
    /\ writer \in [Connections -> {"none", "draining", "done"}]
    /\ target \in [Connections -> [box : Connections \union {NoConnection}, to : Devices]]
    /\ frames \in [Connections -> Nat]
    /\ delivered \in [Connections -> Seq(Envelope)]

\* IsConnected tells the truth about inboxes: what a hash maps to is an open
\* inbox of a connection of that very device.
RegisteredIsOpen ==
    \A d \in Devices : registry[d] # NoConnection =>
        ~closed[registry[d]] /\ device[registry[d]] = d

\* Every open inbox of a started connection is the registered one: no reconnect,
\* disconnect or panic leaves behind an inbox whose write loop would then wait
\* for ever on a channel nobody can close.
NoOrphanInbox ==
    \A c \in Connections :
        writer[c] # "none" /\ ~closed[c] => registry[device[c]] = c

\* A handler that has returned leaves no goroutine that can still block: its
\* inbox is closed, so its write loop runs out.
GoneIsClosed == \A c \in Connections : reader[c] = "gone" => closed[c]

\* Envelopes reach only the device they are addressed to, on whichever of its
\* connections, and at most once in all, reconnects included.
DeliveredOnce ==
    /\ \A c \in Connections : \A i \in DOMAIN delivered[c] : delivered[c][i].to = device[c]
    /\ \A c, x \in Connections :
         \A i \in DOMAIN delivered[c], j \in DOMAIN delivered[x] :
             delivered[c][i] = delivered[x][j] => c = x /\ i = j

\* What one connection sends to another arrives in the order it was sent (an
\* answer never overtakes its offer), although full inboxes drop some of it.
InSenderOrder ==
    \A c \in Connections : \A i, j \in DOMAIN delivered[c] :
        i < j /\ delivered[c][i].from = delivered[c][j].from
            => delivered[c][i].seq < delivered[c][j].seq

\* "the previous inbox is closed (its pending messages are drained by the old
\* connection's write loop until it sees the closed channel)" (signalling.go:241):
\* after a reconnect or a disconnect the write loop of a closed inbox ends.
ClosedInboxDrains == \A c \in Connections : closed[c] ~> writer[c] = "done"

\* "On exit it cancels the inbox so writeLoop also exits" (signalling.go:476-477, of
\* the read loop): once it has ended, the handler returns and the hash is released.
DisconnectUnregisters ==
    \A c \in Connections : reader[c] = "waiting" ~> reader[c] = "gone"

\* "It returns an Incoming that yields envelopes addressed to hash until Close is
\* called" (signalling.go:172-173): the inbox of a connection that is still being
\* served stays registered until the same device registers again.
ServedStaysRegistered ==
    [][\A c \in Connections :
         registry[device[c]] = c /\ reader[c] \in {"reading", "sending"}
           => registry'[device[c]] # NoConnection]_vars
=============================================================================
