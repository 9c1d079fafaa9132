--------------------------- MODULE TcpForwarder ---------------------------
(***************************************************************************)
(* TcpForwarder.kt: the app's TCP connections, terminated on the phone and *)
(* carried on over protected sockets.  One four-tuple is modelled; a flow  *)
(* is an incarnation of it, and has one socket and one thread reading it.  *)
(*                                                                         *)
(* The threads are the one that reads the TUN (accept), a reader for each  *)
(* socket (the connector's callbacks) and whoever closes the forwarder.    *)
(* What runs under a flow's windowLock is one step, except that a reader   *)
(* waits inside it, and that it passes a segment to the app before it      *)
(* counts it.  Sequence numbers wrap at Modulus.  Payloads are sizes.      *)
(*                                                                         *)
(* What the app sends is written to the socket and acknowledged by the TUN *)
(* thread alone; it has no part in what the app receives, and is left out. *)
(***************************************************************************)
EXTENDS Naturals

CONSTANTS
    MaxFlows,   \* bound: incarnations of the four-tuple
    MaxBytes,   \* bound: MaxBytes[f] bytes are sent by the remote end of flow f
    SynWindow,  \* the window the app advertises with its SYN
    Windows,    \* and those it advertises later
    Modulus,    \* 2^32 in the code
    Start       \* initialSequence() + 1

Flows == 1..MaxFlows
NoFlow == 0
Free == 0
MaxWindow == CHOOSE w \in Windows : \A v \in Windows : v <= w

\* A segment in flight, a FIN and the next byte are told apart.
ASSUME TcpAssumption ==
    /\ MaxFlows \in Nat \ {0} /\ MaxBytes \in [Flows -> Nat] /\ Modulus \in Nat \ {0}
    /\ Windows \subseteq Nat \ {0} /\ Windows # {}
    /\ SynWindow \in Nat \ {0} /\ \A v \in Windows \union {SynWindow} : v + 2 <= Modulus
    /\ Start \in 0..Modulus - 1

VARIABLES
    mapped,     \* flows[key]
    born,       \* how many flows were made
    server, acked, window, closed, finSent, connection,   \* the fields of each flow
    lock,       \* the reader that holds a flow's windowLock across two steps
    socket,     \* each flow's socket
    tun,        \* what the TUN thread does, for which flow, and whether it stops after that
    reader,     \* what each socket's thread does, on which flow, with how many bytes
    closer,     \* how far close() is
    left,       \* bytes each remote end may still send
    received,   \* sequence space of each flow that the app has got so far, truly counted
    said, edge, \* what the app has acknowledged of it, and may be sent (its right edge)
    resets      \* RSTs the app has got on each flow

window_ == <<server, acked, window, closed, finSent>>
app == <<said, edge>>
vars == <<mapped, born, window_, connection, lock, socket, tun, reader, closer, left, received,
          app, resets>>

Seq(n) == (Start + n) % Modulus
Dist(a, b) == (b + Modulus - a) % Modulus

Init ==
    /\ mapped = NoFlow /\ born = 0
    /\ server = [f \in Flows |-> Start] /\ acked = [f \in Flows |-> Start]
    /\ window = [f \in Flows |-> 0] /\ closed = [f \in Flows |-> FALSE]
    /\ finSent = [f \in Flows |-> FALSE] /\ connection = [f \in Flows |-> FALSE]
    /\ lock = [f \in Flows |-> Free] /\ socket = [f \in Flows |-> "none"]
    /\ tun = [at |-> "idle", flow |-> NoFlow, last |-> FALSE]
    /\ reader = [f \in Flows |-> [at |-> "none", flow |-> NoFlow, size |-> 0]]
    /\ closer = [at |-> "open", flow |-> NoFlow]
    /\ left = MaxBytes /\ received = [f \in Flows |-> 0]
    /\ said = [f \in Flows |-> 0] /\ edge = [f \in Flows |-> 0]
    /\ resets = [f \in Flows |-> 0]
-----------------------------------------------------------------------------
(* The condition of a flow's windowLock.                                   *)

\* signalAll: everybody who waits on the flow looks again.
Signalled(f) ==
    [r \in Flows |-> IF reader[r].at = "await" /\ reader[r].flow = f
                     THEN [reader[r] EXCEPT !.at = "emit"] ELSE reader[r]]

\* Mutant of CloseWindow: those who wait are not told.
CloseWindowSilently(f) ==
    /\ lock[f] = Free
    /\ closed' = [closed EXCEPT ![f] = TRUE]
    /\ UNCHANGED reader

\* flow.closed = true, windowChanged.signalAll()
CloseWindow(f) ==
    /\ lock[f] = Free
    /\ closed' = [closed EXCEPT ![f] = TRUE]
    /\ reader' = Signalled(f)

\* Mutant of Room: what is in flight is forgotten.
RoomForSegment(f, size) == size <= window[f]

\* Room in the app's window for size bytes more.
Room(f, size) == Dist(acked[f], server[f]) + size <= window[f]

\* connection?.close(): the field is not volatile, and a thread other than the TUN's may find
\* it null after it was assigned.
CloseSocket(f, sockets) ==
    \E seen \in {connection[f], FALSE} :
        socket' = IF seen THEN [sockets EXCEPT ![f] = "closed"] ELSE sockets
-----------------------------------------------------------------------------
(* accept, on the TUN thread.                                              *)

\* ProxyLauncher's loop gives accept one more packet at most once closing has begun.
Take(at, f) ==
    /\ tun.at = "idle" /\ ~tun.last
    /\ tun' = [at |-> at, flow |-> f, last |-> closer.at # "open"]

Done == tun' = [tun EXCEPT !.at = "idle", !.flow = NoFlow]

\* A SYN without a flow.  (One with a flow is answered and changes nothing.)
Syn ==
    /\ mapped = NoFlow /\ born < MaxFlows
    /\ Take("connect", born + 1)
    /\ born' = born + 1 /\ mapped' = born'
    /\ window' = [window EXCEPT ![born'] = SynWindow]
    /\ edge' = [edge EXCEPT ![born'] = SynWindow]
    /\ UNCHANGED <<server, acked, closed, finSent, connection, lock, socket, reader, closer, left,
                   received, said, resets>>

\* flow.connection = connector.connect(..): the new reader may run before the assignment, which
\* CloseSocket and Reset allow for.
Connect ==
    /\ tun.at = "connect"
    /\ connection' = [connection EXCEPT ![tun.flow] = TRUE]
    /\ socket' = [socket EXCEPT ![tun.flow] = "open"]
    /\ reader' = [reader EXCEPT ![tun.flow].at = "reading"]
    /\ Done
    /\ UNCHANGED <<mapped, born, window_, lock, closer, left, received, app, resets>>

\* The socket cannot be protected, or the executor is shut down: accept throws.
ConnectThrows ==
    /\ tun.at = "connect" /\ Done
    /\ UNCHANGED <<mapped, born, window_, connection, lock, socket, reader, closer, left, received,
                   app, resets>>

\* The app resets its connection.
Rst ==
    /\ mapped # NoFlow /\ Take("rst", mapped)
    /\ UNCHANGED <<mapped, born, window_, connection, lock, socket, reader, closer, left,
                   received, app, resets>>

\* flows.remove(key, flow), which does nothing when it is another flow by now.
RstRemove ==
    /\ tun.at = "rst"
    /\ mapped' = IF mapped = tun.flow THEN NoFlow ELSE mapped
    /\ tun' = [tun EXCEPT !.at = "rst close"]
    /\ UNCHANGED <<born, window_, connection, lock, socket, reader, closer, left, received, app,
                   resets>>

RstClose ==
    /\ tun.at = "rst close"
    /\ CloseWindow(tun.flow)
    /\ socket' = IF connection[tun.flow] THEN [socket EXCEPT ![tun.flow] = "closed"] ELSE socket
    /\ Done
    /\ UNCHANGED <<mapped, born, server, acked, window, finSent, connection, lock, closer, left,
                   received, app, resets>>

\* A packet of the app: it acknowledges n in all and moves its right edge to e, never back.
Packet(n, e) ==
    /\ mapped # NoFlow /\ Take("ack", mapped)
    /\ n \in said[mapped]..received[mapped] /\ e >= edge[mapped] /\ e - n \in Windows
    /\ said' = [said EXCEPT ![mapped] = n]
    /\ edge' = [edge EXCEPT ![mapped] = e]
    /\ UNCHANGED <<mapped, born, window_, connection, lock, socket, reader, closer, left,
                   received, resets>>

AnyPacket == mapped # NoFlow /\ \E n \in 0..received[mapped] : \E w \in Windows : Packet(n, n + w)

\* An app that reads acknowledges what it has got and opens its window.
AppReads == mapped # NoFlow /\ Packet(received[mapped], received[mapped] + MaxWindow)

\* Mutant of UpdateWindow: it does not wait for the lock.
UpdateWindowUnlocked ==
    LET f == tun.flow
        ack == Seq(said[f])
    IN  /\ tun.at = "ack"
        /\ window' = [window EXCEPT ![f] = edge[f] - said[f]]
        /\ acked' = [acked EXCEPT ![f] =
                        IF Dist(acked[f], ack) <= Dist(acked[f], server[f]) THEN ack ELSE @]
        /\ reader' = Signalled(f)
        /\ Done
        /\ UNCHANGED <<mapped, born, server, closed, finSent, connection, lock, socket, closer,
                       left, received, app, resets>>

\* updateWindow takes an acknowledgment of what is outstanding, and no other.
UpdateWindow ==
    LET f == tun.flow
        ack == Seq(said[f])
    IN  /\ tun.at = "ack" /\ lock[f] = Free
        /\ window' = [window EXCEPT ![f] = edge[f] - said[f]]
        /\ acked' = [acked EXCEPT ![f] =
                        IF Dist(acked[f], ack) <= Dist(acked[f], server[f]) THEN ack ELSE @]
        /\ reader' = Signalled(f)
        /\ Done
        /\ UNCHANGED <<mapped, born, server, closed, finSent, connection, lock, socket, closer,
                       left, received, app, resets>>

-----------------------------------------------------------------------------
(* The thread of a socket.  Callbacks look the flow up by key: it need not *)
(* be the flow the socket was opened for.                                  *)

Turn(r, at) == reader' = [reader EXCEPT ![r].at = at]
To(r, at, f, size) == reader' = [reader EXCEPT ![r] = [at |-> at, flow |-> f, size |-> size]]

\* The thread ends, and finally closes its own socket.
Exit(r) ==
    /\ reader' = [reader EXCEPT ![r] = [at |-> "done", flow |-> NoFlow, size |-> 0]]
    /\ socket' = [socket EXCEPT ![r] = "closed"]

Read(r) ==
    /\ reader[r].at = "reading" /\ socket[r] # "closed"
    /\ \E size \in 1..left[r] :
        /\ size <= MaxWindow
        /\ left' = [left EXCEPT ![r] = @ - size]
        /\ To(r, "onData", NoFlow, size)
    /\ UNCHANGED <<mapped, born, window_, connection, lock, socket, tun, closer, received, app,
                   resets>>

\* emitRemotePayload: flows[key] ?: return
OnData(r) ==
    /\ reader[r].at = "onData"
    /\ IF mapped = NoFlow THEN To(r, "reading", NoFlow, 0)
       ELSE To(r, "emit", mapped, reader[r].size)
    /\ UNCHANGED <<mapped, born, window_, connection, lock, socket, tun, closer, left, received,
                   app, resets>>

\* emitRemoteClose, at the end of the remote's stream or when the loop finds its socket closed.
OnClosed(r) ==
    /\ reader[r].at = "reading"
    /\ IF mapped = NoFlow THEN Exit(r) ELSE To(r, "fin", mapped, 1) /\ UNCHANGED socket
    /\ UNCHANGED <<mapped, born, window_, connection, lock, tun, closer, left, received, app,
                   resets>>

\* Mutant of OnFailure: the flow is looked up and stays in the map.
OnFailureGets(r) ==
    /\ reader[r].at = "reading"
    /\ IF mapped = NoFlow THEN Exit(r) ELSE To(r, "reset", mapped, 0) /\ UNCHANGED socket
    /\ UNCHANGED <<mapped, born, window_, connection, lock, tun, closer, left, received, app,
                   resets>>

\* resetFlow, when connecting, reading or writing fails, as on a socket closed by others it may:
\* whoever takes the flow out of the map resets it.
OnFailure(r) ==
    /\ reader[r].at = "reading"
    /\ mapped' = NoFlow
    /\ IF mapped = NoFlow THEN Exit(r) ELSE To(r, "reset", mapped, 0) /\ UNCHANGED socket
    /\ UNCHANGED <<born, window_, connection, lock, tun, closer, left, received, app, resets>>

\* The segment goes to the app; the lock is kept until it is counted.
Send(r, f, at) ==
    /\ received' = [received EXCEPT ![f] = @ + reader[r].size]
    /\ lock' = [lock EXCEPT ![f] = r]
    /\ Turn(r, at)

\* Mutant of Emit: whether the flow was closed is not looked at after the wait.
EmitUnchecked(r) ==
    LET f == reader[r].flow IN
    /\ reader[r].at = "emit" /\ lock[f] = Free
    /\ \/ /\ ~closed[f] /\ ~Room(f, reader[r].size) /\ closer.at # "done"
          /\ Turn(r, "await") /\ UNCHANGED <<lock, received>>
       \/ /\ ~closed[f] /\ ~Room(f, reader[r].size) /\ closer.at = "done"
          /\ To(r, "reading", NoFlow, 0) /\ UNCHANGED <<lock, received>>
       \/ /\ closed[f] \/ Room(f, reader[r].size)
          /\ Send(r, f, "count data")
    /\ UNCHANGED <<mapped, born, window_, connection, socket, tun, closer, left, app, resets>>

\* await() throws at once when the connector has interrupted its threads.
Emit(r) ==
    LET f == reader[r].flow IN
    /\ reader[r].at = "emit" /\ lock[f] = Free
    /\ \/ /\ ~closed[f] /\ ~Room(f, reader[r].size) /\ closer.at # "done"
          /\ Turn(r, "await") /\ UNCHANGED <<lock, received>>
       \/ /\ closed[f] \/ (~Room(f, reader[r].size) /\ closer.at = "done")
          /\ To(r, "reading", NoFlow, 0) /\ UNCHANGED <<lock, received>>
       \/ /\ ~closed[f] /\ Room(f, reader[r].size)
          /\ Send(r, f, "count data")
    /\ UNCHANGED <<mapped, born, window_, connection, socket, tun, closer, left, app, resets>>

\* The FIN is sent once, to a closed flow too.
Fin(r) ==
    LET f == reader[r].flow IN
    /\ reader[r].at = "fin" /\ lock[f] = Free
    /\ IF finSent[f] THEN Exit(r) /\ UNCHANGED <<finSent, lock, received>>
       ELSE /\ finSent' = [finSent EXCEPT ![f] = TRUE]
            /\ Send(r, f, "count fin") /\ UNCHANGED socket
    /\ UNCHANGED <<mapped, born, server, acked, window, closed, connection, tun, closer, left,
                   app, resets>>

\* Mutant of Count: the lock is kept.
CountLocked(r) ==
    LET f == reader[r].flow IN
    /\ reader[r].at \in {"count data", "count fin"}
    /\ server' = [server EXCEPT ![f] = (@ + reader[r].size) % Modulus]
    /\ IF reader[r].at = "count data" THEN To(r, "reading", NoFlow, 0) /\ UNCHANGED socket
       ELSE Exit(r)
    /\ UNCHANGED <<mapped, born, acked, window, closed, finSent, connection, lock, tun, closer,
                   left, received, app, resets>>

\* serverSequence is advanced and the lock released.
Count(r) ==
    LET f == reader[r].flow IN
    /\ reader[r].at \in {"count data", "count fin"}
    /\ server' = [server EXCEPT ![f] = (@ + reader[r].size) % Modulus]
    /\ lock' = [lock EXCEPT ![f] = Free]
    /\ IF reader[r].at = "count data" THEN To(r, "reading", NoFlow, 0) /\ UNCHANGED socket
       ELSE Exit(r)
    /\ UNCHANGED <<mapped, born, acked, window, closed, finSent, connection, tun, closer, left,
                   received, app, resets>>

\* The RST, and the flow's socket; then the thread's own.
Reset(r) ==
    LET f == reader[r].flow IN
    /\ reader[r].at = "reset" /\ lock[f] = Free
    /\ closed' = [closed EXCEPT ![f] = TRUE]
    /\ resets' = [resets EXCEPT ![f] = @ + 1]
    /\ reader' = [Signalled(f) EXCEPT ![r] = [at |-> "done", flow |-> NoFlow, size |-> 0]]
    /\ CloseSocket(f, [socket EXCEPT ![r] = "closed"])
    /\ UNCHANGED <<mapped, born, server, acked, window, finSent, connection, lock, tun, closer,
                   left, received, app>>

\* shutdownNow interrupts a thread that waits.
Interrupted(r) ==
    /\ reader[r].at = "await" /\ closer.at = "done"
    /\ To(r, "reading", NoFlow, 0)
    /\ UNCHANGED <<mapped, born, window_, connection, lock, socket, tun, closer, left, received,
                   app, resets>>
-----------------------------------------------------------------------------
(* close of the forwarder, then of the connector.                          *)

\* flows.values.forEach meets the flow, or is past it, or there is none.
CloseBegins ==
    /\ closer.at = "open"
    /\ \E f \in {mapped, NoFlow} :
          closer' = [at |-> IF f = NoFlow THEN "clear" ELSE "flow", flow |-> f]
    /\ UNCHANGED <<mapped, born, window_, connection, lock, socket, tun, reader, left, received,
                   app, resets>>

CloseFlow ==
    /\ closer.at = "flow"
    /\ CloseWindow(closer.flow) /\ CloseSocket(closer.flow, socket)
    /\ closer' = [at |-> "clear", flow |-> NoFlow]
    /\ UNCHANGED <<mapped, born, server, acked, window, finSent, connection, lock, tun, left,
                   received, app, resets>>

\* flows.clear(), and tcpConnector.close(), which interrupts the readers.
Clear ==
    /\ closer.at = "clear"
    /\ mapped' = NoFlow
    /\ closer' = [closer EXCEPT !.at = "done"]
    /\ UNCHANGED <<born, window_, connection, lock, socket, tun, reader, left, received, app,
                   resets>>
-----------------------------------------------------------------------------
Accept ==
    \/ Connect \/ ConnectThrows \/ RstRemove \/ RstClose \/ UpdateWindow

Callback(r) ==
    \/ OnData(r) \/ Emit(r) \/ Fin(r) \/ Count(r) \/ Reset(r) \/ Interrupted(r)

Close == CloseFlow \/ Clear

Next ==
    \/ Syn \/ Rst \/ AnyPacket \/ Accept
    \/ \E r \in Flows : Read(r) \/ OnClosed(r) \/ OnFailure(r) \/ Callback(r)
    \/ CloseBegins \/ Close

Spec == Init /\ [][Next]_vars

\* Threads run on; the app goes on reading as long as its packets are looked at.
FairSpec ==
    /\ Spec /\ WF_vars(Accept) /\ WF_vars(Close) /\ SF_vars(AppReads)
    /\ \A r \in Flows : WF_vars(Callback(r))
-----------------------------------------------------------------------------
(* Properties.                                                             *)

\* Every variable keeps its type, and a windowLock is held exactly while a segment that the
\* app has got is not counted.
TypeOK ==
    /\ mapped \in 0..born /\ born \in 0..MaxFlows
    /\ server \in [Flows -> 0..Modulus - 1] /\ acked \in [Flows -> 0..Modulus - 1]
    /\ window \in [Flows -> Windows \union {0, SynWindow}] /\ closed \in [Flows -> BOOLEAN]
    /\ finSent \in [Flows -> BOOLEAN] /\ connection \in [Flows -> BOOLEAN]
    /\ socket \in [Flows -> {"none", "open", "closed"}]
    /\ tun.flow \in 0..born /\ closer.flow \in 0..born
    /\ \A f \in Flows : left[f] \in 0..MaxBytes[f]
    /\ \A r \in Flows : reader[r].at \in 
            {"emit", "await", "fin", "count data", "count fin", "reset"} <=> reader[r].flow # NoFlow
    /\ \A f \in Flows : lock[f] = Free \/ reader[lock[f]].flow = f
    /\ \A r \in Flows :
          reader[r].at \in {"count data", "count fin"} <=> r \in {lock[f] : f \in Flows}

\* Flow control holds from end to end: whatever reader sends it and however acknowledgments
\* and FINs interleave, the app is never sent data beyond the right edge of its window.
NoOverrun ==
    \A f \in Flows : received[f] <= edge[f] + (IF finSent[f] THEN 1 ELSE 0)

\* No acknowledgment is lost: the app may acknowledge a segment before the reader that sent it
\* has counted it, and across the wrap of sequence numbers, and the flow takes it all the same.
AckIsTaken ==
    \A f \in Flows : ~(tun.at = "ack" /\ tun.flow = f) => acked[f] = Seq(said[f])

\* A flow that was closed, by a reset or by the forwarder, sends the app no more data, readers
\* that were waiting for its window included; a FIN it may still send.
ClosedIsSilent ==
    [][\A f \in Flows : closed[f] /\ received'[f] # received[f] => ~finSent[f] /\ finSent'[f]]_vars

\* The app gets at most one RST on a flow, however many sockets fail under its four-tuple.
ResetOnce == \A f \in Flows : resets[f] <= 1

\* A reader that waits for the window is let go: by an app that reads, by a reset of the flow
\* on either side, or by the end of the forwarder, even if that missed the flow.
BlockedReaderReturns ==
    \A r \in Flows : reader[r].at \in {"emit", "await"} ~> reader[r].at \notin {"emit", "await"}
=============================================================================
