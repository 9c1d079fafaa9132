------------------------ MODULE SignallingHub_proofs ------------------------
(***************************************************************************)
(* Proofs about SignallingHub, for any number of devices and connections,  *)
(* any capacity of an inbox and any number of frames.                      *)
(***************************************************************************)
EXTENDS SignallingHub, SequenceTheorems, TLAPS

-----------------------------------------------------------------------------
\* Type correctness.

\* A connection's sender names an envelope while it is in Send.
LEMMA SentType ==
    ASSUME TypeOK, NEW c \in Connections
    PROVE  Sent(c) \in Envelope
BY DEF TypeOK, Sent, Envelope

\* The empty target is a target.
LEMMA NoTargetType ==
    ASSUME NEW c \in Connections
    PROVE  NoTarget \in [box : Connections \union {NoConnection}, to : Devices]
<1>1. device[c] \in Devices  BY HubAssumption
<1>2. (CHOOSE d \in Devices : TRUE) \in Devices  BY <1>1
<1>3. QED  BY <1>2 DEF NoTarget

\* Register and Unregister keep the registry and the flags of the channels typed.
LEMMA RegistryType ==
    ASSUME TypeOK, NEW c \in Connections, Register(c) \/ Unregister(device[c])
    PROVE  /\ registry' \in [Devices -> Connections \union {NoConnection}]
           /\ closed' \in [Connections -> BOOLEAN]
<1>1. device[c] \in Devices  BY HubAssumption
<1>2. \A x, y \in Connections : (closed[x] \/ x = y) \in BOOLEAN  OBVIOUS
<1>3. \A x : CloseInbox(x) \in [Connections -> BOOLEAN]  BY Zenon DEF CloseInbox
<1>4. closed' \in [Connections -> BOOLEAN]  BY Zenon, <1>3 DEF Register, Unregister
<1>5. registry' \in [Devices -> Connections \union {NoConnection}]
    BY <1>1 DEF TypeOK, Register, Unregister
<1>6. QED  BY <1>4, <1>5

\* The initial state is well typed.
LEMMA InitType == Init => TypeOK
<1> SUFFICES ASSUME Init PROVE TypeOK  OBVIOUS
<1>1. <<>> \in Seq(Envelope) /\ Len(<<>>) <= Capacity  BY EmptySeq, HubAssumption
<1>2. QED  BY <1>1, NoTargetType DEF Init, TypeOK

\* Every step keeps the variables well typed.
LEMMA NextType == TypeOK /\ [Next]_vars => TypeOK'
<1> SUFFICES ASSUME TypeOK, [Next]_vars PROVE TypeOK'  OBVIOUS
<1>0. Capacity \in Nat  BY HubAssumption
<1>1. CASE UNCHANGED vars  BY <1>1 DEF TypeOK, vars, handler
<1>2. ASSUME NEW c \in Connections, Open(c) PROVE TypeOK'
    <2>1. Register(c)  BY <1>2 DEF Open
    <2>2. QED  BY <1>2, <2>1, RegistryType DEF TypeOK, Open
<1>3. ASSUME NEW c \in Connections, Lookup(c) PROVE TypeOK'
    <2>1. frames' \in [Connections -> Nat]  BY <1>3 DEF TypeOK, Lookup
    <2>2. /\ reader' \in [Connections ->
                 {"none", "reading", "sending", "unwinding", "waiting", "gone"}]
          /\ target' \in [Connections ->
                 [box : Connections \union {NoConnection}, to : Devices]]
        <3>1. PICK d \in Devices :
                 \/ UNCHANGED <<reader, target>>
                 \/ /\ target' = [target EXCEPT ![c] = [box |-> registry[d], to |-> d]]
                    /\ reader' = [reader EXCEPT ![c] = "sending"]
            BY <1>3 DEF Lookup
        <3>2. registry[d] \in Connections \union {NoConnection}  BY DEF TypeOK
        <3>3. CASE UNCHANGED <<reader, target>>  BY <3>3 DEF TypeOK
        <3>4. CASE /\ target' = [target EXCEPT ![c] = [box |-> registry[d], to |-> d]]
                   /\ reader' = [reader EXCEPT ![c] = "sending"]
            BY <3>2, <3>4 DEF TypeOK
        <3>5. QED  BY <3>1, <3>3, <3>4
    <2>3. QED  BY <1>3, <2>1, <2>2 DEF TypeOK, Lookup
<1>4. ASSUME NEW c \in Connections, Enqueue(c) PROVE TypeOK'
    <2> DEFINE box == target[c].box
    <2>1. /\ inbox' \in [Connections -> Seq(Envelope)]
          /\ \A x \in Connections : Len(inbox'[x]) <= Capacity
        <3>1. inbox' = [inbox EXCEPT ![box] =
                  IF Len(@) < Capacity THEN Append(@, Sent(c)) ELSE @]
            BY <1>4 DEF Enqueue
        <3>2. CASE box \in Connections
            <4>1. /\ inbox[box] \in Seq(Envelope) /\ Len(inbox[box]) <= Capacity
                  /\ Len(inbox[box]) \in Nat
                BY <3>2, LenProperties DEF TypeOK
            <4>2. /\ Append(inbox[box], Sent(c)) \in Seq(Envelope)
                  /\ Len(Append(inbox[box], Sent(c))) = Len(inbox[box]) + 1
                BY <4>1, SentType, AppendProperties
            <4>3. CASE Len(inbox[box]) < Capacity
                BY <1>0, <3>1, <3>2, <4>1, <4>2, <4>3 DEF TypeOK
            <4>4. CASE ~(Len(inbox[box]) < Capacity)  BY <3>1, <4>4 DEF TypeOK
            <4>5. QED  BY <4>3, <4>4
        <3>3. CASE box \notin Connections  BY <3>1, <3>3 DEF TypeOK
        <3>4. QED  BY <3>2, <3>3
    <2>2. target' \in [Connections -> [box : Connections \union {NoConnection}, to : Devices]]
        BY <1>4, NoTargetType DEF TypeOK, Enqueue
    <2>3. QED  BY <1>4, <2>1, <2>2 DEF TypeOK, Enqueue
<1>5. ASSUME NEW c \in Connections, Panic(c) PROVE TypeOK'
    BY <1>5, NoTargetType DEF TypeOK, Panic
<1>6. ASSUME NEW c \in Connections, EndRead(c) PROVE TypeOK'
    BY <1>6 DEF TypeOK, EndRead
<1>7. ASSUME NEW c \in Connections, Cleanup(c) PROVE TypeOK'
    BY <1>7, RegistryType DEF TypeOK, Cleanup
<1>8. ASSUME NEW c \in Connections, PeerLost(c) PROVE TypeOK'
    BY <1>8 DEF TypeOK, PeerLost, handler
<1>9. ASSUME NEW c \in Connections, inbox[c] # <<>>, inbox' = [inbox EXCEPT ![c] = Tail(@)]
      PROVE  /\ inbox' \in [Connections -> Seq(Envelope)]
             /\ \A x \in Connections : Len(inbox'[x]) <= Capacity
    <2>1. /\ Tail(inbox[c]) \in Seq(Envelope)
          /\ Len(Tail(inbox[c])) = Len(inbox[c]) - 1
        BY <1>9, HeadTailProperties DEF TypeOK
    <2>2. Len(inbox[c]) \in Nat /\ Len(inbox[c]) <= Capacity  BY LenProperties DEF TypeOK
    <2>3. QED  BY <1>0, <1>9, <2>1, <2>2 DEF TypeOK
<1>10. ASSUME NEW c \in Connections, WriteNext(c) PROVE TypeOK'
    <2>1. Head(inbox[c]) \in Envelope  BY <1>10, HeadTailProperties DEF TypeOK, WriteNext
    <2>2. delivered' \in [Connections -> Seq(Envelope)]
        BY <1>10, <2>1, AppendProperties DEF TypeOK, WriteNext
    <2>3. QED  BY <1>9, <1>10, <2>2 DEF TypeOK, WriteNext, handler
<1>11. ASSUME NEW c \in Connections, WriteFails(c) PROVE TypeOK'
    BY <1>9, <1>11 DEF TypeOK, WriteFails
<1>12. ASSUME NEW c \in Connections, EndWrite(c) PROVE TypeOK'
    BY <1>12 DEF TypeOK, EndWrite
<1>13. QED
    BY <1>1, <1>2, <1>3, <1>4, <1>5, <1>6, <1>7, <1>8, <1>10, <1>11, <1>12
       DEF Next, ReadStep, WriteStep

\* The variables keep their types, and no inbox ever holds more than its capacity.
THEOREM TypeCorrect == Spec => []TypeOK
BY InitType, NextType, PTL DEF Spec
-----------------------------------------------------------------------------
\* Who is registered.

\* The two goroutines of a connection start together, and none before Open.
Started(c) == socket[c] # "none" /\ reader[c] # "none" /\ writer[c] # "none"

Untouched(c) ==
    /\ socket[c] = "none" /\ reader[c] = "none" /\ writer[c] = "none"
    /\ ~closed[c] /\ registry[device[c]] # c

StartShape == \A c \in Connections : Started(c) \/ Untouched(c)

\* The inductive invariant about the registry: the three properties, which need
\* each other, and that nothing knows a connection that was not opened yet.
RegistryInv ==
    /\ TypeOK
    /\ StartShape
    /\ RegisteredIsOpen
    /\ NoOrphanInbox
    /\ GoneIsClosed

\* Nobody is registered in the beginning.
LEMMA InitRegistry == Init => RegistryInv
<1> SUFFICES ASSUME Init PROVE RegistryInv  OBVIOUS
<1>1. TypeOK  BY InitType
<1>2. \A c \in Connections : device[c] \in Devices  BY HubAssumption
<1>3. StartShape  BY <1>2, HubAssumption DEF Init, StartShape, Untouched
<1>4. QED
    BY <1>1, <1>3 DEF Init, RegistryInv, RegisteredIsOpen, NoOrphanInbox, GoneIsClosed

\* What Unregister leaves: the other hashes keep their open inboxes, and the
\* inbox that was registered is closed.
LEMMA UnregisterKeeps ==
    ASSUME RegistryInv, NEW c \in Connections, Unregister(device[c])
    PROVE  /\ RegisteredIsOpen'
           /\ \A x \in Connections : ~closed'[x] /\ writer[x] # "none" =>
                  registry'[device[x]] = x
           /\ \A x \in Connections : closed[x] => closed'[x]
           /\ \A x \in Connections : Untouched(x) => ~closed'[x] /\ registry'[device[x]] # x
           /\ writer[c] # "none" => closed'[c]
<1> DEFINE old == registry[device[c]]
<1>1. /\ \A x \in Connections : device[x] \in Devices
      /\ NoConnection \notin Connections
    BY HubAssumption
<1>2. /\ registry' = [registry EXCEPT ![device[c]] = NoConnection]
      /\ \A x \in Connections : closed'[x] <=> closed[x] \/ x = old
    BY DEF Unregister, CloseInbox
<1>3. \A d \in Devices : registry'[d] = IF d = device[c] THEN NoConnection ELSE registry[d]
    BY <1>2 DEF RegistryInv, TypeOK
<1>4. \A d \in Devices : registry[d] \in Connections \union {NoConnection}
    BY DEF RegistryInv, TypeOK
<1>5. RegisteredIsOpen'
    BY <1>1, <1>2, <1>3, <1>4 DEF RegistryInv, RegisteredIsOpen
<1>6. \A x \in Connections : ~closed'[x] /\ writer[x] # "none" => registry'[device[x]] = x
    BY <1>1, <1>2, <1>3, <1>4 DEF RegistryInv, RegisteredIsOpen, NoOrphanInbox
<1>7. \A x \in Connections : closed[x] => closed'[x]  BY <1>2
<1>8. ASSUME NEW x \in Connections, Untouched(x)
      PROVE  ~closed'[x] /\ registry'[device[x]] # x
    BY <1>1, <1>2, <1>3, <1>4, <1>8 DEF RegistryInv, RegisteredIsOpen, Untouched
<1>9. writer[c] # "none" => closed'[c]
    BY <1>2 DEF RegistryInv, NoOrphanInbox
<1>10. QED  BY <1>5, <1>6, <1>7, <1>8, <1>9

\* What Register leaves, likewise.
LEMMA RegisterKeeps ==
    ASSUME RegistryInv, NEW c \in Connections, Untouched(c), Register(c)
    PROVE  /\ RegisteredIsOpen'
           /\ registry'[device[c]] = c /\ ~closed'[c]
           /\ \A x \in Connections \ {c} : ~closed'[x] /\ writer[x] # "none" =>
                  registry'[device[x]] = x
           /\ \A x \in Connections : closed[x] => closed'[x]
           /\ \A x \in Connections \ {c} :
                  Untouched(x) => ~closed'[x] /\ registry'[device[x]] # x
<1> DEFINE old == registry[device[c]]
<1>1. /\ \A x \in Connections : device[x] \in Devices
      /\ NoConnection \notin Connections
    BY HubAssumption
<1>2. /\ registry' = [registry EXCEPT ![device[c]] = c]
      /\ \A x \in Connections : closed'[x] <=> closed[x] \/ x = old
    BY DEF Register, CloseInbox
<1>3. \A d \in Devices : registry'[d] = IF d = device[c] THEN c ELSE registry[d]
    BY <1>2 DEF RegistryInv, TypeOK
<1>4. \A d \in Devices : registry[d] \in Connections \union {NoConnection}
    BY DEF RegistryInv, TypeOK
<1>5. registry'[device[c]] = c /\ ~closed'[c]
    BY <1>1, <1>2, <1>3 DEF Untouched
<1>6. RegisteredIsOpen'
    BY <1>1, <1>2, <1>3, <1>4, <1>5 DEF RegistryInv, RegisteredIsOpen
<1>7. ASSUME NEW x \in Connections, x # c, ~closed'[x], writer[x] # "none"
      PROVE  registry'[device[x]] = x
    <2>1. x # old /\ ~closed[x]  BY <1>2, <1>7
    <2>2. registry[device[x]] = x  BY <1>7, <2>1 DEF RegistryInv, NoOrphanInbox
    <2>3. QED  BY <1>1, <1>3, <2>1, <2>2
<1>8. \A x \in Connections : closed[x] => closed'[x]  BY <1>2
<1>9. ASSUME NEW x \in Connections, x # c, Untouched(x)
      PROVE  ~closed'[x] /\ registry'[device[x]] # x
    BY <1>1, <1>2, <1>3, <1>4, <1>9 DEF RegistryInv, RegisteredIsOpen, Untouched
<1>10. QED  BY <1>5, <1>6, <1>7, <1>8, <1>9

\* A step that leaves the registry, the channels' flags and who was started
\* alone, and lets no handler return, keeps the invariant.
LEMMA QuietStep ==
    ASSUME RegistryInv, TypeOK', UNCHANGED <<registry, closed>>,
           \A c \in Connections :
               /\ Started(c) => Started(c)'
               /\ ~Started(c) =>
                      socket'[c] = "none" /\ reader'[c] = "none" /\ writer'[c] = "none"
               /\ reader'[c] = "gone" => reader[c] = "gone"
    PROVE  RegistryInv'
<1>1. StartShape'  BY DEF RegistryInv, StartShape, Started, Untouched
<1>2. RegisteredIsOpen'  BY DEF RegistryInv, RegisteredIsOpen
<1>3. NoOrphanInbox'  BY DEF RegistryInv, StartShape, Started, NoOrphanInbox
<1>4. GoneIsClosed'  BY DEF RegistryInv, GoneIsClosed
<1>5. QED  BY <1>1, <1>2, <1>3, <1>4 DEF RegistryInv

\* Every step keeps the invariant.
LEMMA NextRegistry == RegistryInv /\ [Next]_vars => RegistryInv'
<1> SUFFICES ASSUME RegistryInv, [Next]_vars PROVE RegistryInv'  OBVIOUS
<1>0. TypeOK /\ TypeOK'  BY NextType DEF RegistryInv
<1> DEFINE Quiet(c) ==
       /\ Started(c) => Started(c)'
       /\ ~Started(c) =>
              socket'[c] = "none" /\ reader'[c] = "none" /\ writer'[c] = "none"
       /\ reader'[c] = "gone" => reader[c] = "gone"
<1>1. CASE UNCHANGED vars
    <2>1. UNCHANGED <<registry, closed, socket, reader, writer>>
        BY <1>1 DEF vars, handler
    <2>2. \A c \in Connections : Quiet(c)
        BY <2>1 DEF RegistryInv, StartShape, Started, Untouched
    <2>3. QED  BY <1>0, <2>1, <2>2, QuietStep
<1>2. ASSUME NEW c \in Connections, Open(c) PROVE RegistryInv'
    <2>1. Untouched(c) /\ Register(c)
        BY <1>2 DEF Open, RegistryInv, StartShape, Started
    <2>2. /\ socket' = [socket EXCEPT ![c] = "open"]
          /\ reader' = [reader EXCEPT ![c] = "reading"]
          /\ writer' = [writer EXCEPT ![c] = "draining"]
        BY <1>2 DEF Open
    <2>3. \A x \in Connections \ {c} :
             socket'[x] = socket[x] /\ reader'[x] = reader[x] /\ writer'[x] = writer[x]
        BY <1>0, <2>2 DEF TypeOK
    <2>4. socket'[c] = "open" /\ reader'[c] = "reading" /\ writer'[c] = "draining"
        BY <1>0, <2>2 DEF TypeOK
    <2>5. StartShape'
        BY <2>1, <2>3, <2>4, RegisterKeeps
           DEF RegistryInv, StartShape, Started, Untouched
    <2>6. NoOrphanInbox'  BY <2>1, <2>3, RegisterKeeps DEF NoOrphanInbox
    <2>7. GoneIsClosed'
        BY <2>1, <2>3, <2>4, RegisterKeeps DEF RegistryInv, GoneIsClosed
    <2>8. QED  BY <1>0, <2>1, <2>5, <2>6, <2>7, RegisterKeeps DEF RegistryInv
<1>3. ASSUME NEW c \in Connections, Lookup(c) PROVE RegistryInv'
    <2>1. UNCHANGED <<registry, closed, socket, writer>>  BY <1>3 DEF Lookup
    <2>2. reader[c] = "reading"
          /\ (reader' = reader \/ reader' = [reader EXCEPT ![c] = "sending"])
        BY <1>3 DEF Lookup
    <2>3. \A x \in Connections : Quiet(x)
        BY <1>0, <2>1, <2>2 DEF TypeOK, RegistryInv, StartShape, Started, Untouched
    <2>4. QED  BY <1>0, <2>1, <2>3, QuietStep
<1>4. ASSUME NEW c \in Connections, Enqueue(c) \/ Panic(c) PROVE RegistryInv'
    <2>1. /\ UNCHANGED <<registry, closed, socket, writer>>
          /\ reader[c] = "sending"
          /\ \/ reader' = [reader EXCEPT ![c] = "reading"]
             \/ reader' = [reader EXCEPT ![c] = "unwinding"]
        BY <1>4 DEF Enqueue, Panic
    <2>2. \A x \in Connections : Quiet(x)
        BY <1>0, <2>1 DEF TypeOK, RegistryInv, StartShape, Started, Untouched
    <2>3. QED  BY <1>0, <2>1, <2>2, QuietStep
<1>5. ASSUME NEW c \in Connections, EndRead(c) \/ PeerLost(c) PROVE RegistryInv'
    <2>1. /\ UNCHANGED <<registry, closed, writer>>
          /\ \/ /\ reader[c] = "reading"
                /\ reader' = [reader EXCEPT ![c] = "waiting"]
                /\ socket' = [socket EXCEPT ![c] = "closed"]
             \/ /\ socket[c] = "open"
                /\ UNCHANGED reader
                /\ socket' = [socket EXCEPT ![c] = "lost"]
        BY <1>5 DEF EndRead, PeerLost, handler
    <2>2. \A x \in Connections : Quiet(x)
        BY <1>0, <2>1 DEF TypeOK, RegistryInv, StartShape, Started, Untouched
    <2>3. QED  BY <1>0, <2>1, <2>2, QuietStep
<1>6. ASSUME NEW c \in Connections, Cleanup(c) PROVE RegistryInv'
    <2>1. /\ Unregister(device[c])
          /\ reader[c] \in {"waiting", "unwinding"}
          /\ reader' = [reader EXCEPT ![c] = "gone"]
          /\ UNCHANGED <<socket, writer>>
        BY <1>6 DEF Cleanup
    <2>2. \A x \in Connections : reader'[x] = IF x = c THEN "gone" ELSE reader[x]
        BY <1>0, <2>1 DEF TypeOK
    <2>3. writer[c] # "none"
        BY <2>1 DEF RegistryInv, StartShape, Started, Untouched
    <2>4. StartShape'
        BY <2>1, <2>2, UnregisterKeeps DEF RegistryInv, StartShape, Started, Untouched
    <2>5. NoOrphanInbox'  BY <2>1, UnregisterKeeps DEF NoOrphanInbox
    <2>6. GoneIsClosed'
        BY <2>1, <2>2, <2>3, UnregisterKeeps DEF RegistryInv, GoneIsClosed
    <2>7. QED  BY <1>0, <2>1, <2>4, <2>5, <2>6, UnregisterKeeps DEF RegistryInv
<1>7. ASSUME NEW c \in Connections, WriteStep(c) PROVE RegistryInv'
    <2>1. /\ UNCHANGED <<registry, closed, socket, reader>>
          /\ writer[c] = "draining"
          /\ writer' = writer \/ writer' = [writer EXCEPT ![c] = "done"]
        BY <1>7 DEF WriteStep, WriteNext, WriteFails, EndWrite, handler
    <2>2. \A x \in Connections : Quiet(x)
        BY <1>0, <2>1 DEF TypeOK, RegistryInv, StartShape, Started, Untouched
    <2>3. QED  BY <1>0, <2>1, <2>2, QuietStep
<1>8. QED
    BY <1>1, <1>2, <1>3, <1>4, <1>5, <1>6, <1>7 DEF Next, ReadStep

\* The registry's invariant holds in every reachable state.
LEMMA RegistryInvHolds == Spec => []RegistryInv
BY InitRegistry, NextRegistry, PTL DEF Spec

\* What a hash maps to is an open inbox of a connection of that very device.
THEOREM RegisteredAreOpen == Spec => []RegisteredIsOpen
<1>1. RegistryInv => RegisteredIsOpen  BY DEF RegistryInv
<1>2. QED  BY <1>1, RegistryInvHolds, PTL

\* No inbox is left open that no Register and no Unregister can reach any more.
THEOREM NoInboxOrphaned == Spec => []NoOrphanInbox
<1>1. RegistryInv => NoOrphanInbox  BY DEF RegistryInv
<1>2. QED  BY <1>1, RegistryInvHolds, PTL

\* A handler returns only after its inbox was closed.
THEOREM GoneAreClosed == Spec => []GoneIsClosed
<1>1. RegistryInv => GoneIsClosed  BY DEF RegistryInv
<1>2. QED  BY <1>1, RegistryInvHolds, PTL
-----------------------------------------------------------------------------
\* What is delivered, and in which order.

\* Everything that went into a connection's inbox and was not lost, in order.
Line(c) == delivered[c] \o inbox[c]

\* t is s with some of its elements left out.
Thinned(s, t) ==
    \E f \in [DOMAIN t -> DOMAIN s] :
        /\ \A i \in DOMAIN t : t[i] = s[f[i]]
        /\ \A i, j \in DOMAIN t : i < j => f[i] < f[j]

\* An envelope of a connection that is still in Send has a lower number than the
\* one it is about to put into an inbox.
Used(e) == e.seq <= frames[e.from] /\ (reader[e.from] = "sending" => e.seq < frames[e.from])

LineNumbers == \A c \in Connections : \A i \in DOMAIN Line(c) : Used(Line(c)[i])

LineAddress == \A c \in Connections : \A i \in DOMAIN Line(c) : Line(c)[i].to = device[c]

LineOrder ==
    \A c \in Connections : \A i, j \in DOMAIN Line(c) :
        i < j /\ Line(c)[i].from = Line(c)[j].from => Line(c)[i].seq < Line(c)[j].seq

LinesApart ==
    \A c, x \in Connections : c # x =>
        \A i \in DOMAIN Line(c), j \in DOMAIN Line(x) : Line(c)[i] # Line(x)[j]

\* What Send found is an inbox of the device it is sending to.
TargetShape ==
    \A c \in Connections : reader[c] = "sending" =>
        target[c].box \in Connections /\ device[target[c].box] = target[c].to

\* The inductive invariant about envelopes.
DeliveryInv ==
    /\ RegistryInv
    /\ TargetShape
    /\ LineNumbers
    /\ LineAddress
    /\ LineOrder
    /\ LinesApart

\* A line is a sequence of envelopes that begins with what was delivered.
LEMMA LineShape ==
    ASSUME TypeOK, NEW c \in Connections
    PROVE  /\ Line(c) \in Seq(Envelope)
           /\ DOMAIN Line(c) = 1..(Len(delivered[c]) + Len(inbox[c]))
           /\ \A i \in DOMAIN delivered[c] :
                  i \in DOMAIN Line(c) /\ Line(c)[i] = delivered[c][i]
<1>1. delivered[c] \in Seq(Envelope) /\ inbox[c] \in Seq(Envelope)  BY DEF TypeOK
<1>2. /\ Len(delivered[c]) \in Nat /\ Len(inbox[c]) \in Nat
      /\ DOMAIN delivered[c] = 1..Len(delivered[c])
    BY <1>1, LenProperties
<1>3. /\ Line(c) \in Seq(Envelope)
      /\ Len(Line(c)) = Len(delivered[c]) + Len(inbox[c])
      /\ \A i \in 1..(Len(delivered[c]) + Len(inbox[c])) :
             Line(c)[i] = IF i <= Len(delivered[c]) THEN delivered[c][i]
                          ELSE inbox[c][i - Len(delivered[c])]
    BY <1>1, ConcatProperties DEF Line
<1>4. DOMAIN Line(c) = 1..(Len(delivered[c]) + Len(inbox[c]))  BY <1>3, LenProperties
<1>5. ASSUME NEW i \in DOMAIN delivered[c]
      PROVE  i \in DOMAIN Line(c) /\ Line(c)[i] = delivered[c][i]
    <2>1. i \in 1..Len(delivered[c])  BY <1>2, <1>5, Zenon
    <2>2. \A n, m \in Nat : \A k \in 1..n : k \in 1..(n + m) /\ k <= n  OBVIOUS
    <2>3. i \in 1..(Len(delivered[c]) + Len(inbox[c])) /\ i <= Len(delivered[c])
        BY <1>2, <2>1, <2>2
    <2>4. QED  BY <1>3, <1>4, <2>3
<1>6. QED  BY <1>3, <1>4, <1>5

\* A sequence is a thinning of itself.
LEMMA ThinnedSelf ==
    ASSUME NEW s \in Seq(Envelope)
    PROVE  Thinned(s, s)
<1> DEFINE id == [i \in DOMAIN s |-> i]
<1>1. /\ id \in [DOMAIN s -> DOMAIN s]
      /\ \A i \in DOMAIN s : s[i] = s[id[i]]
      /\ \A i, j \in DOMAIN s : i < j => id[i] < id[j]
    OBVIOUS
<1> HIDE DEF id
<1>2. QED  BY <1>1 DEF Thinned

\* Taking the first envelope of an inbox and losing it thins the line.
LEMMA ThinnedByLoss ==
    ASSUME NEW d \in Seq(Envelope), NEW b \in Seq(Envelope), b # <<>>
    PROVE  Thinned(d \o b, d \o Tail(b))
<1> DEFINE n == Len(d)
           m == Len(b)
           s == d \o b
           t == d \o Tail(b)
           f == [i \in 1..(n + m - 1) |-> IF i <= n THEN i ELSE i + 1]
<1>1. n \in Nat /\ m \in Nat \ {0}  BY LenProperties, EmptySeq
<1>2. /\ Tail(b) \in Seq(Envelope) /\ Len(Tail(b)) = m - 1
      /\ \A i \in 1..(m - 1) : Tail(b)[i] = b[i + 1]
    BY HeadTailProperties
<1>3. /\ s \in Seq(Envelope) /\ Len(s) = n + m
      /\ \A i \in 1..(n + m) : i <= n => s[i] = d[i]
      /\ \A i \in 1..(n + m) : ~(i <= n) => s[i] = b[i - n]
    BY ConcatProperties
<1>4. /\ t \in Seq(Envelope) /\ Len(t) = n + (m - 1)
      /\ \A i \in 1..(n + (m - 1)) : t[i] = IF i <= n THEN d[i] ELSE Tail(b)[i - n]
    BY <1>2, ConcatProperties
<1>5. DOMAIN s = 1..(n + m) /\ DOMAIN t = 1..(n + m - 1)
    BY <1>1, <1>3, <1>4, LenProperties
<1> HIDE DEF s, t, n, m
<1>6. f \in [DOMAIN t -> DOMAIN s]  BY <1>1, <1>5
<1>7. \A i \in DOMAIN t : t[i] = s[f[i]]
    <2> SUFFICES ASSUME NEW i \in 1..(n + m - 1) PROVE t[i] = s[f[i]]  BY <1>5
    <2>1. CASE i <= n  BY <1>1, <1>3, <1>4, <2>1
    <2>2. CASE ~(i <= n)
        <3>1. f[i] = i + 1  BY <1>1, <2>2
        <3>2. PICK k \in 1..(n + m) : k = i + 1 /\ ~(k <= n)  BY <1>1, <2>2
        <3> HIDE DEF f
        <3>3. s[k] = b[k - n]  BY <1>3, <3>2
        <3>4. i - n \in 1..(m - 1) /\ i - n + 1 = k - n /\ i \in 1..(n + (m - 1))
            BY <1>1, <2>2, <3>2
        <3>5. t[i] = Tail(b)[i - n]  BY <1>4, <2>2, <3>4
        <3>6. Tail(b)[i - n] = b[i - n + 1]  BY <1>2, <3>4
        <3>7. QED  BY <3>1, <3>2, <3>3, <3>4, <3>5, <3>6
    <2>3. QED  BY <2>1, <2>2
<1>8. \A i, j \in DOMAIN t : i < j => f[i] < f[j]  BY <1>1, <1>5
<1> HIDE DEF f
<1>9. Thinned(s, t)  BY <1>6, <1>7, <1>8 DEF Thinned
<1>10. QED  BY <1>9 DEF s, t

\* t is s with e appended.
Longer(s, t, e) ==
    \E n \in Nat :
        /\ DOMAIN s = 1..n /\ DOMAIN t = 1..(n + 1)
        /\ t[n + 1] = e
        /\ \A i \in 1..n : t[i] = s[i]

\* An envelope put into an inbox is the last one of the line.
LEMMA LineGrows ==
    ASSUME NEW d \in Seq(Envelope), NEW b \in Seq(Envelope), NEW e \in Envelope
    PROVE  Longer(d \o b, d \o Append(b, e), e)
<1> DEFINE p == Len(d)
           q == Len(b)
           s == d \o b
           x == Append(b, e)
           t == d \o x
<1>1. p \in Nat /\ q \in Nat  BY LenProperties
<1>2. /\ x \in Seq(Envelope) /\ Len(x) = q + 1
      /\ \A i \in 1..q : x[i] = b[i]
      /\ x[q + 1] = e
    BY AppendProperties
<1> HIDE DEF x
<1>3. /\ s \in Seq(Envelope) /\ Len(s) = p + q
      /\ \A i \in 1..(p + q) : s[i] = IF i <= p THEN d[i] ELSE b[i - p]
    BY ConcatProperties
<1>4. /\ t \in Seq(Envelope) /\ Len(t) = p + (q + 1)
      /\ \A i \in 1..(p + (q + 1)) : t[i] = IF i <= p THEN d[i] ELSE x[i - p]
    <2>1. /\ t \in Seq(Envelope) /\ Len(t) = p + Len(x)
          /\ \A i \in 1..(p + Len(x)) : t[i] = IF i <= p THEN d[i] ELSE x[i - p]
        BY <1>2, ConcatProperties
    <2> HIDE DEF t, p
    <2>2. QED  BY <1>2, <2>1
<1>5. DOMAIN s = 1..(p + q) /\ DOMAIN t = 1..(p + (q + 1))
    BY <1>3, <1>4, LenProperties
<1> HIDE DEF s, t, p, q
<1>6. t[p + (q + 1)] = e
    <2> DEFINE k == p + (q + 1)
    <2>1. k \in 1..(p + (q + 1)) /\ ~(k <= p) /\ k - p = q + 1  BY <1>1
    <2> HIDE DEF k
    <2>2. t[k] = x[q + 1]  BY <1>4, <2>1
    <2>3. QED  BY <1>2, <2>2 DEF k
<1>7. ASSUME NEW i \in 1..(p + q) PROVE t[i] = s[i]
    <2>1. i \in 1..(p + (q + 1))  BY <1>1, <1>7
    <2>2. CASE i <= p  BY <1>1, <1>3, <1>4, <1>7, <2>1, <2>2
    <2>3. CASE ~(i <= p)
        <3>1. i - p \in 1..q  BY <1>1, <1>7, <2>3
        <3>2. t[i] = x[i - p]  BY <1>4, <2>1, <2>3
        <3>3. s[i] = b[i - p]  BY <1>3, <1>7, <2>3
        <3>4. QED  BY <1>2, <3>1, <3>2, <3>3
    <2>4. QED  BY <2>2, <2>3
<1>8. /\ Len(s) \in Nat /\ DOMAIN s = 1..Len(s) /\ Len(s) + 1 = p + (q + 1)
      /\ DOMAIN t = 1..(Len(s) + 1) /\ t[Len(s) + 1] = e
      /\ \A i \in 1..Len(s) : t[i] = s[i]
    BY <1>1, <1>3, <1>5, <1>6, <1>7
<1>9. Longer(s, t, e)  BY <1>8 DEF Longer
<1>10. QED  BY <1>9, Zenon DEF s, t, x

\* The head of one sequence may as well be the last element of the one before it.
LEMMA AppendHeadTail ==
    ASSUME NEW d \in Seq(Envelope), NEW b \in Seq(Envelope), b # <<>>
    PROVE  Append(d, Head(b)) \o Tail(b) = d \o b
<1>1. /\ Head(b) \in Envelope /\ Tail(b) \in Seq(Envelope)
      /\ <<Head(b)>> \in Seq(Envelope)
    BY HeadTailProperties
<1>2. Append(d, Head(b)) = d \o <<Head(b)>>  BY <1>1, AppendIsConcat
<1>3. <<Head(b)>> \o Tail(b) = b
    <2>1. Len(b) \in Nat \ {0}  BY EmptySeq
    <2>2. 1 \in 1..Len(b) /\ Len(b) \in 1..Len(b)  BY <2>1
    <2>3. SubSeq(b, 1, Len(b)) = <<b[1]>> \o SubSeq(b, 2, Len(b))
        BY <2>2, SubSeqRecursiveFirst
    <2>4. SubSeq(b, 1, Len(b)) = b  BY SubSeqFull
    <2>5. Tail(b) = SubSeq(b, 2, Len(b)) /\ Head(b) = b[1]  BY TailIsSubSeq
    <2>6. QED  BY <2>3, <2>4, <2>5
<1>4. (d \o <<Head(b)>>) \o Tail(b) = d \o (<<Head(b)>> \o Tail(b))
    BY <1>1, ConcatAssociative
<1>5. QED  BY <1>2, <1>3, <1>4

\* The initial state: nothing was sent.
LEMMA InitDelivery == Init => DeliveryInv
<1> SUFFICES ASSUME Init PROVE DeliveryInv  OBVIOUS
<1>1. RegistryInv  BY InitRegistry
<1>2. \A c \in Connections : DOMAIN Line(c) = {}
    <2> TAKE c \in Connections
    <2>1. delivered[c] = <<>> /\ inbox[c] = <<>>  BY DEF Init
    <2>2. <<>> \o <<>> = <<>>  BY EmptySeq, ConcatEmptySeq
    <2>3. QED  BY <2>1, <2>2 DEF Line
<1>3. TargetShape  BY DEF Init, TargetShape
<1>4. QED
    BY <1>1, <1>2, <1>3
       DEF DeliveryInv, LineNumbers, LineAddress, LineOrder, LinesApart

\* A step that at most thins the lines keeps what the invariant says of them.
LEMMA ThinStep ==
    ASSUME DeliveryInv,
           \A c \in Connections : Thinned(Line(c), Line(c)'),
           \A e \in Envelope : Used(e) => Used(e)'
    PROVE  LineNumbers' /\ LineAddress' /\ LineOrder' /\ LinesApart'
<1>1. TypeOK  BY DEF DeliveryInv, RegistryInv
<1>2. \A c \in Connections : \A i \in DOMAIN Line(c) : Line(c)[i] \in Envelope
    BY <1>1, LineShape, LenProperties, ElementOfSeq
<1>3. ASSUME NEW c \in Connections, NEW i \in DOMAIN Line(c)'
      PROVE  \E k \in DOMAIN Line(c) : Line(c)'[i] = Line(c)[k]
    BY DEF Thinned
<1>4. ASSUME NEW c \in Connections, NEW i \in DOMAIN Line(c)'
      PROVE  Used(Line(c)[i])' /\ Line(c)'[i].to = device[c]
    <2>1. PICK k \in DOMAIN Line(c) : Line(c)'[i] = Line(c)[k]  BY <1>3
    <2>2. PICK e \in Envelope : e = Line(c)[k]  BY <1>2
    <2>3. Used(e) /\ e.to = device[c]
        BY <2>2 DEF DeliveryInv, LineNumbers, LineAddress
    <2>4. Used(e)' /\ Line(c)'[i] = e  BY <2>1, <2>2, <2>3
    <2>5. QED  BY <2>3, <2>4 DEF Used
<1>5. LineNumbers' /\ LineAddress'  BY <1>4 DEF LineNumbers, LineAddress
<1>6. LineOrder'
    <2> SUFFICES ASSUME NEW c \in Connections,
                        NEW i \in DOMAIN Line(c)', NEW j \in DOMAIN Line(c)', i < j,
                        Line(c)'[i].from = Line(c)'[j].from
                 PROVE  Line(c)'[i].seq < Line(c)'[j].seq
        BY DEF LineOrder
    <2>1. PICK f \in [DOMAIN Line(c)' -> DOMAIN Line(c)] :
             /\ \A k \in DOMAIN Line(c)' : Line(c)'[k] = Line(c)[f[k]]
             /\ \A k, l \in DOMAIN Line(c)' : k < l => f[k] < f[l]
        BY DEF Thinned
    <2>2. QED  BY <2>1 DEF DeliveryInv, LineOrder
<1>7. LinesApart'  BY <1>3 DEF DeliveryInv, LinesApart
<1>8. QED  BY <1>5, <1>6, <1>7

\* A step that reads no frame and appends nothing to an inbox.
LEMMA QuietDelivery ==
    ASSUME DeliveryInv, [Next]_vars, UNCHANGED <<frames, target>>,
           \A c \in Connections : Thinned(Line(c), Line(c)'),
           \A c \in Connections : reader'[c] = "sending" => reader[c] = "sending"
    PROVE  DeliveryInv'
<1>1. RegistryInv'  BY NextRegistry DEF DeliveryInv
<1>2. TargetShape'  BY DEF DeliveryInv, TargetShape
<1>3. ASSUME NEW e \in Envelope, Used(e) PROVE Used(e)'
    <2>1. e.from \in Connections  BY DEF Envelope
    <2>2. QED  BY <1>3, <2>1 DEF Used
<1>4. LineNumbers' /\ LineAddress' /\ LineOrder' /\ LinesApart'  BY <1>3, ThinStep
<1>5. QED  BY <1>1, <1>2, <1>4 DEF DeliveryInv

\* Lines that did not change are thinnings of themselves.
LEMMA SameLines ==
    ASSUME TypeOK, UNCHANGED <<inbox, delivered>>
    PROVE  \A c \in Connections : Thinned(Line(c), Line(c)')
<1> TAKE c \in Connections
<1>1. Line(c)' = Line(c)  BY DEF Line
<1>2. Line(c) \in Seq(Envelope)  BY LineShape
<1>3. QED  BY <1>1, <1>2, ThinnedSelf

\* A step of the write loop delivers an envelope, which leaves the line as it is,
\* or loses one, which thins it.
LEMMA WriteThins ==
    ASSUME TypeOK, NEW c \in Connections, inbox[c] # <<>>,
           inbox' = [inbox EXCEPT ![c] = Tail(@)],
           \/ delivered' = [delivered EXCEPT ![c] = Append(@, Head(inbox[c]))]
           \/ delivered' = delivered
    PROVE  \A x \in Connections : Thinned(Line(x), Line(x)')
<1> TAKE x \in Connections
<1>1. Line(x) \in Seq(Envelope)  BY LineShape
<1>2. CASE x # c
    <2>1. inbox'[x] = inbox[x] /\ delivered'[x] = delivered[x]  BY <1>2 DEF TypeOK
    <2>2. Line(x)' = Line(x)  BY <2>1 DEF Line
    <2>3. QED  BY <1>1, <2>2, ThinnedSelf
<1>3. CASE x = c
    <2> DEFINE d == delivered[c]
               b == inbox[c]
    <2>1. d \in Seq(Envelope) /\ b \in Seq(Envelope)  BY DEF TypeOK
    <2>2. inbox'[c] = Tail(b)  BY DEF TypeOK
    <2>3. CASE delivered' = delivered
        <3>1. Line(c)' = d \o Tail(b)  BY <2>2, <2>3 DEF Line
        <3>2. Thinned(d \o b, d \o Tail(b))  BY <2>1, ThinnedByLoss
        <3>3. QED  BY <1>3, <3>1, <3>2 DEF Line
    <2>4. CASE delivered' = [delivered EXCEPT ![c] = Append(@, Head(inbox[c]))]
        <3>1. delivered'[c] = Append(d, Head(b))  BY <2>4 DEF TypeOK
        <3>2. Line(c)' = Append(d, Head(b)) \o Tail(b)  BY <2>2, <3>1 DEF Line
        <3>3. Append(d, Head(b)) \o Tail(b) = d \o b  BY <2>1, AppendHeadTail
        <3>4. QED  BY <1>1, <1>3, <3>2, <3>3, ThinnedSelf DEF Line
    <2>5. QED  BY <2>3, <2>4
<1>4. QED  BY <1>2, <1>3

\* Reading a frame numbers the next envelope and looks its addressee's inbox up.
LEMMA LookupDelivery ==
    ASSUME DeliveryInv, [Next]_vars, NEW c \in Connections, Lookup(c)
    PROVE  DeliveryInv'
<1>1. TypeOK /\ RegistryInv /\ RegisteredIsOpen  BY DEF DeliveryInv, RegistryInv
<1>2. RegistryInv'  BY <1>1, NextRegistry
<1>3. /\ reader[c] = "reading"
      /\ frames' = [frames EXCEPT ![c] = @ + 1]
      /\ UNCHANGED <<inbox, delivered>>
    BY DEF Lookup
<1>4. \A x \in Connections : frames'[x] = IF x = c THEN frames[x] + 1 ELSE frames[x]
    BY <1>1, <1>3 DEF TypeOK
<1>5. PICK d \in Devices :
         \/ UNCHANGED <<reader, target>>
         \/ /\ registry[d] # NoConnection
            /\ target' = [target EXCEPT ![c] = [box |-> registry[d], to |-> d]]
            /\ reader' = [reader EXCEPT ![c] = "sending"]
    BY DEF Lookup
<1>6. \A x \in Connections \ {c} : reader'[x] = reader[x] /\ target'[x] = target[x]
    BY <1>1, <1>5 DEF TypeOK
<1>7. TargetShape'
    <2>1. CASE UNCHANGED <<reader, target>>  BY <2>1 DEF DeliveryInv, TargetShape
    <2>2. CASE /\ registry[d] # NoConnection
               /\ target' = [target EXCEPT ![c] = [box |-> registry[d], to |-> d]]
               /\ reader' = [reader EXCEPT ![c] = "sending"]
        <3>1. target'[c].box = registry[d] /\ target'[c].to = d  BY <1>1, <2>2 DEF TypeOK
        <3>2. registry[d] \in Connections /\ device[registry[d]] = d
            BY <1>1, <2>2 DEF TypeOK, RegisteredIsOpen
        <3>3. QED  BY <1>6, <3>1, <3>2 DEF DeliveryInv, TargetShape
    <2>3. QED  BY <1>5, <2>1, <2>2
<1>8. ASSUME NEW e \in Envelope, Used(e) PROVE Used(e)'
    <2>1. e.from \in Connections /\ e.seq \in Nat  BY DEF Envelope
    <2>2. frames[e.from] \in Nat  BY <1>1, <2>1 DEF TypeOK
    <2>3. CASE e.from = c  BY <1>3, <1>4, <1>8, <2>1, <2>2, <2>3 DEF Used
    <2>4. CASE e.from # c  BY <1>4, <1>6, <1>8, <2>1, <2>4 DEF Used
    <2>5. QED  BY <2>3, <2>4
<1>9. \A x \in Connections : Thinned(Line(x), Line(x)')  BY <1>1, <1>3, SameLines
<1>10. LineNumbers' /\ LineAddress' /\ LineOrder' /\ LinesApart'  BY <1>8, <1>9, ThinStep
<1>11. QED  BY <1>2, <1>7, <1>10 DEF DeliveryInv

\* Putting an envelope into an inbox makes one line longer, or none if it is full.
LEMMA EnqueueDelivery ==
    ASSUME DeliveryInv, [Next]_vars, NEW c \in Connections, Enqueue(c)
    PROVE  DeliveryInv'
<1>1. TypeOK /\ RegistryInv  BY DEF DeliveryInv, RegistryInv
<1>2. RegistryInv'  BY <1>1, NextRegistry
<1>3. /\ reader[c] = "sending"
      /\ reader' = [reader EXCEPT ![c] = "reading"]
      /\ target' = [target EXCEPT ![c] = NoTarget]
      /\ inbox' = [inbox EXCEPT ![target[c].box] =
                     IF Len(@) < Capacity THEN Append(@, Sent(c)) ELSE @]
      /\ UNCHANGED <<frames, delivered>>
    BY DEF Enqueue
<1>4. PICK box \in Connections : box = target[c].box /\ device[box] = target[c].to
    BY <1>3 DEF DeliveryInv, TargetShape
<1>5. \A x \in Connections :
         /\ reader'[x] = IF x = c THEN "reading" ELSE reader[x]
         /\ x # c => target'[x] = target[x]
    BY <1>1, <1>3 DEF TypeOK
<1>6. TargetShape'  BY <1>5 DEF DeliveryInv, TargetShape
<1>7. ASSUME NEW e \in Envelope, Used(e) PROVE Used(e)'
    <2>1. e.from \in Connections  BY DEF Envelope
    <2>2. QED  BY <1>3, <1>5, <1>7, <2>1 DEF Used
<1>8. CASE ~(Len(inbox[box]) < Capacity)
    <2>1. inbox' = inbox  BY <1>1, <1>3, <1>4, <1>8 DEF TypeOK
    <2>2. \A x \in Connections : Thinned(Line(x), Line(x)')  BY <1>1, <1>3, <2>1, SameLines
    <2>3. LineNumbers' /\ LineAddress' /\ LineOrder' /\ LinesApart'  BY <1>7, <2>2, ThinStep
    <2>4. QED  BY <1>2, <1>6, <2>3 DEF DeliveryInv
<1>9. CASE Len(inbox[box]) < Capacity
    <2>1. PICK e \in Envelope : e = Sent(c)  BY <1>1, SentType
    <2>2. e.from = c /\ e.seq = frames[c] /\ e.to = device[box]  BY <1>4, <2>1 DEF Sent
    <2>3. \A x \in Connections : x # box => Line(x)' = Line(x)
        BY <1>1, <1>3, <1>4 DEF Line, TypeOK
    <2>4. Line(box)' = delivered[box] \o Append(inbox[box], e)
        BY <1>1, <1>3, <1>4, <1>9, <2>1 DEF Line, TypeOK
    <2>5. delivered[box] \in Seq(Envelope) /\ inbox[box] \in Seq(Envelope)
        BY <1>1, <1>4 DEF TypeOK
    <2>6. PICK n \in Nat :
             /\ DOMAIN Line(box) = 1..n /\ DOMAIN Line(box)' = 1..(n + 1)
             /\ Line(box)'[n + 1] = e
             /\ \A i \in 1..n : Line(box)'[i] = Line(box)[i]
        <3>1. Longer(delivered[box] \o inbox[box], delivered[box] \o Append(inbox[box], e), e)
            BY <2>5, LineGrows, Zenon
        <3>2. Longer(Line(box), Line(box)', e)  BY <2>4, <3>1, Zenon DEF Line
        <3>3. QED  BY <3>2, Zenon DEF Longer
    <2>7. \A x \in Connections : \A i \in DOMAIN Line(x) : Line(x)[i] \in Envelope
        BY <1>1, LineShape, LenProperties, ElementOfSeq
    <2>8. ASSUME NEW x \in Connections, NEW i \in DOMAIN Line(x)
          PROVE  Line(x)[i].from = c => Line(x)[i].seq < frames[c]
        BY <1>3 DEF DeliveryInv, LineNumbers, Used
    <2>9. ASSUME NEW x \in Connections, NEW i \in DOMAIN Line(x)'
          PROVE  \/ i \in DOMAIN Line(x) /\ Line(x)'[i] = Line(x)[i]
                 \/ x = box /\ i = n + 1 /\ Line(x)'[i] = e
        BY <2>3, <2>6
    <2>10. frames[c] \in Nat  BY <1>1 DEF TypeOK
    <2>11. Used(e)'
        <3>1. frames'[c] = frames[c] /\ reader'[c] = "reading"  BY <1>3, <1>5
        <3>2. QED  BY <2>2, <2>10, <3>1 DEF Used
    <2>12. ASSUME NEW x \in Connections, NEW i \in DOMAIN Line(x)'
           PROVE  Used(Line(x)[i])' /\ Line(x)'[i].to = device[x]
        <3>1. CASE i \in DOMAIN Line(x) /\ Line(x)'[i] = Line(x)[i]
            <4>1. PICK o \in Envelope : o = Line(x)[i]  BY <2>7, <3>1
            <4>2. Used(o) /\ o.to = device[x]
                BY <3>1, <4>1 DEF DeliveryInv, LineNumbers, LineAddress
            <4>3. Used(o)' /\ Line(x)'[i] = o  BY <1>7, <3>1, <4>1, <4>2
            <4>4. QED  BY <4>2, <4>3 DEF Used
        <3>2. CASE x = box /\ Line(x)'[i] = e
            BY <2>2, <2>11, <3>2 DEF Used
        <3>3. QED  BY <2>9, <3>1, <3>2
    <2>13. LineNumbers' /\ LineAddress'  BY <2>12 DEF LineNumbers, LineAddress
    <2>14. LineOrder'
        <3> SUFFICES ASSUME NEW x \in Connections,
                            NEW i \in DOMAIN Line(x)', NEW j \in DOMAIN Line(x)', i < j,
                            Line(x)'[i].from = Line(x)'[j].from
                     PROVE  Line(x)'[i].seq < Line(x)'[j].seq
            BY DEF LineOrder
        <3>1. CASE x # box  BY <2>3, <3>1 DEF DeliveryInv, LineOrder
        <3>2. CASE x = box
            <4>1. i \in 1..(n + 1) /\ j \in 1..(n + 1) /\ i \in 1..n  BY <2>6, <3>2
            <4>2. Line(x)'[i] = Line(x)[i] /\ i \in DOMAIN Line(x)  BY <2>6, <3>2, <4>1
            <4>3. CASE j = n + 1
                <5>1. Line(x)'[j] = e  BY <2>6, <3>2, <4>3
                <5>2. QED  BY <2>2, <2>8, <4>2, <5>1
            <4>4. CASE j # n + 1
                <5>1. j \in 1..n  BY <2>6, <4>1, <4>4
                <5>2. Line(x)'[j] = Line(x)[j] /\ j \in DOMAIN Line(x)  BY <2>6, <3>2, <5>1
                <5>3. QED  BY <4>2, <5>2 DEF DeliveryInv, LineOrder
            <4>5. QED  BY <4>3, <4>4
        <3>3. QED  BY <3>1, <3>2
    <2>15. ASSUME NEW x \in Connections, NEW i \in DOMAIN Line(x)
           PROVE  Line(x)[i] # e
        BY <2>2, <2>8, <2>10, <2>15
    <2>16. LinesApart'
        <3> SUFFICES ASSUME NEW x \in Connections, NEW y \in Connections, x # y,
                            NEW i \in DOMAIN Line(x)', NEW j \in DOMAIN Line(y)'
                     PROVE  Line(x)'[i] # Line(y)'[j]
            BY DEF LinesApart
        <3>1. \/ i \in DOMAIN Line(x) /\ Line(x)'[i] = Line(x)[i]
              \/ x = box /\ Line(x)'[i] = e
            BY <2>9
        <3>2. \/ j \in DOMAIN Line(y) /\ Line(y)'[j] = Line(y)[j]
              \/ y = box /\ Line(y)'[j] = e
            BY <2>9
        <3>3. QED  BY <2>15, <3>1, <3>2 DEF DeliveryInv, LinesApart
    <2>17. QED  BY <1>2, <1>6, <2>13, <2>14, <2>16 DEF DeliveryInv
<1>10. QED  BY <1>8, <1>9

\* Every step keeps the invariant.
LEMMA NextDelivery == DeliveryInv /\ [Next]_vars => DeliveryInv'
<1> SUFFICES ASSUME DeliveryInv, [Next]_vars PROVE DeliveryInv'  OBVIOUS
<1>0. TypeOK  BY DEF DeliveryInv, RegistryInv
<1>1. CASE UNCHANGED vars
    <2>1. UNCHANGED <<inbox, delivered, frames, target, reader>>
        BY <1>1 DEF vars, handler
    <2>2. QED  BY <1>0, <2>1, SameLines, QuietDelivery
<1>2. ASSUME NEW c \in Connections, Open(c) PROVE DeliveryInv'
    <2>1. UNCHANGED <<inbox, delivered, frames, target>>  BY <1>2 DEF Open
    <2>2. \A x \in Connections : reader'[x] = "sending" => reader[x] = "sending"
        BY <1>0, <1>2 DEF TypeOK, Open
    <2>3. QED  BY <1>0, <2>1, <2>2, SameLines, QuietDelivery
<1>3. ASSUME NEW c \in Connections, Lookup(c) PROVE DeliveryInv'
    BY <1>3, LookupDelivery
<1>4. ASSUME NEW c \in Connections, Enqueue(c) PROVE DeliveryInv'
    BY <1>4, EnqueueDelivery
<1>5. ASSUME NEW c \in Connections, Panic(c) PROVE DeliveryInv'
    <2>1. /\ UNCHANGED <<inbox, delivered, frames>>
          /\ reader' = [reader EXCEPT ![c] = "unwinding"]
          /\ target' = [target EXCEPT ![c] = NoTarget]
        BY <1>5 DEF Panic
    <2>2. \A x \in Connections :
             /\ reader'[x] = "sending" => reader[x] = "sending" /\ x # c
             /\ x # c => target'[x] = target[x]
        BY <1>0, <2>1 DEF TypeOK
    <2>3. RegistryInv'  BY NextRegistry DEF DeliveryInv
    <2>4. TargetShape'  BY <2>2 DEF DeliveryInv, TargetShape
    <2>5. ASSUME NEW e \in Envelope, Used(e) PROVE Used(e)'
        <3>1. e.from \in Connections  BY DEF Envelope
        <3>2. QED  BY <2>1, <2>2, <2>5, <3>1 DEF Used
    <2>6. \A x \in Connections : Thinned(Line(x), Line(x)')  BY <1>0, <2>1, SameLines
    <2>7. LineNumbers' /\ LineAddress' /\ LineOrder' /\ LinesApart'  BY <2>5, <2>6, ThinStep
    <2>8. QED  BY <2>3, <2>4, <2>7 DEF DeliveryInv
<1>6. ASSUME NEW c \in Connections, EndRead(c) \/ PeerLost(c) \/ Cleanup(c) \/ EndWrite(c)
      PROVE  DeliveryInv'
    <2>1. /\ UNCHANGED <<inbox, delivered, frames, target>>
          /\ \/ UNCHANGED reader
             \/ reader' = [reader EXCEPT ![c] = "waiting"]
             \/ reader' = [reader EXCEPT ![c] = "gone"]
        BY <1>6 DEF EndRead, PeerLost, Cleanup, EndWrite, handler
    <2>2. \A x \in Connections : reader'[x] = "sending" => reader[x] = "sending"
        BY <1>0, <2>1 DEF TypeOK
    <2>3. QED  BY <1>0, <2>1, <2>2, SameLines, QuietDelivery
<1>7. ASSUME NEW c \in Connections, WriteNext(c) \/ WriteFails(c) PROVE DeliveryInv'
    <2>1. /\ UNCHANGED <<frames, target, reader>>
          /\ inbox[c] # <<>>
          /\ inbox' = [inbox EXCEPT ![c] = Tail(@)]
          /\ \/ delivered' = [delivered EXCEPT ![c] = Append(@, Head(inbox[c]))]
             \/ delivered' = delivered
        BY <1>7 DEF WriteNext, WriteFails, handler
    <2>2. \A x \in Connections : Thinned(Line(x), Line(x)')  BY <1>0, <2>1, WriteThins
    <2>3. QED  BY <2>1, <2>2, QuietDelivery
<1>8. QED
    BY <1>1, <1>2, <1>3, <1>4, <1>5, <1>6, <1>7 DEF Next, ReadStep, WriteStep

\* The invariant about envelopes holds in every reachable state.
LEMMA DeliveryInvHolds == Spec => []DeliveryInv
BY InitDelivery, NextDelivery, PTL DEF Spec

\* Two places of one line hold different envelopes.
LEMMA LineDistinct ==
    ASSUME DeliveryInv, NEW c \in Connections, NEW i \in DOMAIN Line(c),
           NEW j \in DOMAIN Line(c), Line(c)[i] = Line(c)[j]
    PROVE  i = j
<1>1. TypeOK  BY DEF DeliveryInv, RegistryInv
<1>2. Line(c) \in Seq(Envelope)  BY <1>1, LineShape
<1>3. Line(c)[i] \in Envelope  BY <1>2, LenProperties, ElementOfSeq
<1>4. i \in Nat /\ j \in Nat  BY <1>2, LenProperties
<1>5. ~(i < j) /\ ~(j < i)
    <2>1. Line(c)[i].seq \in Nat  BY <1>3 DEF Envelope
    <2>2. QED  BY <2>1 DEF DeliveryInv, LineOrder
<1>6. QED  BY <1>4, <1>5

\* An envelope reaches only its addressee, and no peer gets one twice, on whichever
\* connections.
THEOREM DeliveredAtMostOnce == Spec => []DeliveredOnce
<1>1. DeliveryInv => DeliveredOnce
    <2> SUFFICES ASSUME DeliveryInv PROVE DeliveredOnce  OBVIOUS
    <2>1. TypeOK  BY DEF DeliveryInv, RegistryInv
    <2>2. \A c \in Connections : \A i \in DOMAIN delivered[c] :
             i \in DOMAIN Line(c) /\ Line(c)[i] = delivered[c][i]
        BY <2>1, LineShape
    <2>3. \A c \in Connections : \A i \in DOMAIN delivered[c] :
             delivered[c][i].to = device[c]
        BY <2>2 DEF DeliveryInv, LineAddress
    <2>4. ASSUME NEW c \in Connections, NEW x \in Connections,
                 NEW i \in DOMAIN delivered[c], NEW j \in DOMAIN delivered[x],
                 delivered[c][i] = delivered[x][j]
          PROVE  c = x /\ i = j
        <3>1. c = x  BY <2>2, <2>4 DEF DeliveryInv, LinesApart
        <3>2. QED  BY <2>2, <2>4, <3>1, LineDistinct
    <2>5. QED  BY <2>3, <2>4 DEF DeliveredOnce
<1>2. QED  BY <1>1, DeliveryInvHolds, PTL

\* What one connection sends to another arrives in the order it was sent.
THEOREM SenderOrderKept == Spec => []InSenderOrder
<1>1. DeliveryInv => InSenderOrder
    <2> SUFFICES ASSUME DeliveryInv PROVE InSenderOrder  OBVIOUS
    <2>1. TypeOK  BY DEF DeliveryInv, RegistryInv
    <2>2. \A c \in Connections : \A i \in DOMAIN delivered[c] :
             i \in DOMAIN Line(c) /\ Line(c)[i] = delivered[c][i]
        BY <2>1, LineShape
    <2>3. QED  BY <2>2 DEF DeliveryInv, LineOrder, InSenderOrder
<1>2. QED  BY <1>1, DeliveryInvHolds, PTL
-----------------------------------------------------------------------------
\* The hub implements the abstract relay.

\* Nothing was delivered on a connection that was not opened yet.
UnopenedIsEmpty == \A c \in Connections : socket[c] = "none" => delivered[c] = <<>>

\* Only an open connection is written to.
LEMMA UnopenedHolds == Spec => []UnopenedIsEmpty
<1>1. Init => UnopenedIsEmpty  BY DEF Init, UnopenedIsEmpty
<1>2. TypeOK /\ UnopenedIsEmpty /\ [Next]_vars => UnopenedIsEmpty'
    <2> SUFFICES ASSUME TypeOK, UnopenedIsEmpty, [Next]_vars PROVE UnopenedIsEmpty'
        OBVIOUS
    <2>1. ASSUME NEW c \in Connections, Open(c) \/ EndRead(c) \/ PeerLost(c)
          PROVE  UnopenedIsEmpty'
        <3>1. /\ delivered' = delivered
              /\ \A x \in Connections : socket'[x] = "none" => socket[x] = "none"
            BY <2>1 DEF TypeOK, Open, EndRead, PeerLost, handler
        <3>2. QED  BY <3>1 DEF UnopenedIsEmpty
    <2>2. ASSUME NEW c \in Connections, WriteNext(c) PROVE UnopenedIsEmpty'
        <3>1. /\ socket' = socket /\ socket[c] # "none"
              /\ \A x \in Connections : x # c => delivered'[x] = delivered[x]
            BY <2>2 DEF TypeOK, WriteNext
        <3>2. QED  BY <3>1 DEF UnopenedIsEmpty
    <2>3. ASSUME NEW c \in Connections,
                 \/ Lookup(c) \/ Enqueue(c) \/ Panic(c) \/ Cleanup(c)
                 \/ WriteFails(c) \/ EndWrite(c)
          PROVE  UnopenedIsEmpty'
        <3>1. UNCHANGED <<socket, delivered>>
            BY <2>3 DEF Lookup, Enqueue, Panic, Cleanup, WriteFails, EndWrite
        <3>2. QED  BY <3>1 DEF UnopenedIsEmpty
    <2>4. CASE UNCHANGED vars  BY <2>4 DEF vars, UnopenedIsEmpty
    <2>5. QED  BY <2>1, <2>2, <2>3, <2>4 DEF Next, ReadStep, WriteStep
<1>3. QED  BY <1>1, <1>2, TypeCorrect, PTL DEF Spec

\* Where an envelope that is underway is.
LEMMA UnderwayIs ==
    ASSUME NEW e
    PROVE  /\ e \in InHand <=> \E x \in Connections : reader[x] = "sending" /\ e = Sent(x)
           /\ e \in Buffered <=> \E x \in Connections : \E i \in DOMAIN inbox[x] : e = inbox[x][i]
           /\ e \in Underway <=> e \in InHand \/ e \in Buffered
BY DEF InHand, Buffered, Underway

\* Who is in Send decides what is in hand.
LEMMA HandShrinks ==
    ASSUME UNCHANGED <<frames, target>>,
           \A x \in Connections : reader'[x] = "sending" => reader[x] = "sending"
    PROVE  InHand' \subseteq InHand
BY DEF InHand, Sent

\* A step in which no envelope comes up and none is delivered.
LEMMA LosingStep ==
    ASSUME UNCHANGED <<socket, frames, delivered>>, Underway' \subseteq Underway
    PROVE  Relay!RelayNext
<1>1. Reachable' = Reachable  BY DEF Reachable
<1>2. QED  BY <1>1 DEF Relay!RelayNext, Relay!Lose

\* A step that changes at most whether a peer is reachable.
LEMMA PeerStep ==
    ASSUME UNCHANGED <<inbox, frames, target, delivered>>,
           \A x \in Connections : reader'[x] = "sending" <=> reader[x] = "sending"
    PROVE  Underway' = Underway
<1>1. InHand' = InHand  BY DEF InHand, Sent
<1>2. Buffered' = Buffered  BY DEF Buffered
<1>3. QED  BY <1>1, <1>2 DEF Underway

\* Reading a frame sends an envelope, or nothing when nobody is registered.
LEMMA LookupSends ==
    ASSUME TypeOK, NEW c \in Connections, Lookup(c)
    PROVE  Relay!Send(c)
<1>1. /\ reader[c] = "reading" /\ frames' = [frames EXCEPT ![c] = @ + 1]
      /\ UNCHANGED <<socket, inbox, delivered>>
    BY DEF Lookup
<1>2. PICK d \in Devices :
         \/ UNCHANGED <<reader, target>>
         \/ /\ target' = [target EXCEPT ![c] = [box |-> registry[d], to |-> d]]
            /\ reader' = [reader EXCEPT ![c] = "sending"]
    BY DEF Lookup
<1> DEFINE e == [from |-> c, seq |-> frames[c] + 1, to |-> d]
<1>3. \A x \in Connections \ {c} :
         reader'[x] = reader[x] /\ target'[x] = target[x] /\ frames'[x] = frames[x]
    BY <1>1, <1>2 DEF TypeOK
<1>4. \A x \in Connections \ {c} : Sent(x)' = Sent(x)  BY <1>3 DEF Sent
<1>5. Buffered' = Buffered /\ Reachable' = Reachable  BY <1>1 DEF Buffered, Reachable
<1>6. CASE UNCHANGED <<reader, target>>
    <2>1. InHand' = InHand  BY <1>1, <1>4, <1>6 DEF InHand
    <2>2. QED  BY <1>1, <1>5, <2>1 DEF Relay!Send, Underway
<1>7. CASE /\ target' = [target EXCEPT ![c] = [box |-> registry[d], to |-> d]]
           /\ reader' = [reader EXCEPT ![c] = "sending"]
    <2>1. target'[c].to = d /\ reader'[c] = "sending" /\ frames'[c] = frames[c] + 1
        BY <1>1, <1>7 DEF TypeOK
    <2>2. Sent(c)' = e  BY <2>1 DEF Sent
    <2> HIDE DEF e
    <2>3. InHand' = InHand \union {e}
        <3>1. \A o : o \in InHand' <=>
                  o = e \/ \E x \in Connections \ {c} : reader[x] = "sending" /\ o = Sent(x)
            BY <1>3, <1>4, <2>1, <2>2 DEF InHand
        <3>2. \A o : o \in InHand <=>
                  \E x \in Connections \ {c} : reader[x] = "sending" /\ o = Sent(x)
            BY <1>1 DEF InHand
        <3>3. QED  BY <3>1, <3>2
    <2>4. Underway' = Underway \union {e}  BY <1>5, <2>3 DEF Underway
    <2>5. QED  BY <1>1, <1>5, <2>4 DEF Relay!Send, e
<1>8. QED  BY <1>2, <1>6, <1>7

\* What a non-empty sequence loses with its head.
LEMMA TailElements ==
    ASSUME NEW s \in Seq(Envelope), s # <<>>
    PROVE  /\ 1 \in DOMAIN s /\ Head(s) = s[1] /\ Tail(s) \in Seq(Envelope)
           /\ \A i \in DOMAIN Tail(s) : i \in Nat \ {0} /\ i + 1 \in DOMAIN s
                                        /\ Tail(s)[i] = s[i + 1]
           /\ \A j \in DOMAIN s : j # 1 => j - 1 \in DOMAIN Tail(s) /\ Tail(s)[j - 1] = s[j]
<1>1. /\ Head(s) = s[1] /\ Tail(s) \in Seq(Envelope) /\ Len(Tail(s)) = Len(s) - 1
      /\ \A i \in 1..Len(Tail(s)) : Tail(s)[i] = s[i + 1]
    BY HeadTailProperties
<1>2. Len(s) \in Nat \ {0} /\ DOMAIN s = 1..Len(s)  BY LenProperties, EmptySeq
<1>3. DOMAIN Tail(s) = 1..(Len(s) - 1)  BY <1>1, LenProperties
<1>4. QED  BY <1>1, <1>2, <1>3

\* What is in an inbox comes after what was delivered.
LEMMA InboxOnLine ==
    ASSUME TypeOK, NEW c \in Connections, NEW i \in DOMAIN inbox[c]
    PROVE  /\ i \in Nat \ {0} /\ Len(delivered[c]) \in Nat
           /\ DOMAIN delivered[c] = 1..Len(delivered[c])
           /\ Len(delivered[c]) + i \in DOMAIN Line(c)
           /\ Line(c)[Len(delivered[c]) + i] = inbox[c][i]
<1>1. delivered[c] \in Seq(Envelope) /\ inbox[c] \in Seq(Envelope)  BY DEF TypeOK
<1>2. /\ Len(delivered[c]) \in Nat /\ Len(inbox[c]) \in Nat
      /\ DOMAIN delivered[c] = 1..Len(delivered[c]) /\ DOMAIN inbox[c] = 1..Len(inbox[c])
    BY <1>1, LenProperties
<1>3. \A k \in 1..(Len(delivered[c]) + Len(inbox[c])) :
          Line(c)[k] = IF k <= Len(delivered[c]) THEN delivered[c][k]
                       ELSE inbox[c][k - Len(delivered[c])]
    BY <1>1, ConcatProperties DEF Line
<1>4. DOMAIN Line(c) = 1..(Len(delivered[c]) + Len(inbox[c]))  BY LineShape
<1>5. \A n, m \in Nat : \A k \in 1..m :
          k \in Nat \ {0} /\ n + k \in 1..(n + m) /\ ~(n + k <= n) /\ (n + k) - n = k
    OBVIOUS
<1>6. QED  BY <1>2, <1>3, <1>4, <1>5

\* Taking the head of an inbox leaves nothing behind that was not there.
LEMMA TakeHead ==
    ASSUME TypeOK, NEW c \in Connections, inbox[c] # <<>>,
           inbox' = [inbox EXCEPT ![c] = Tail(@)]
    PROVE  /\ inbox[c] \in Seq(Envelope) /\ inbox'[c] = Tail(inbox[c])
           /\ \A x \in Connections \ {c} : inbox'[x] = inbox[x]
           /\ Buffered' \subseteq Buffered
<1>1. /\ inbox[c] \in Seq(Envelope) /\ inbox'[c] = Tail(inbox[c])
      /\ \A x \in Connections \ {c} : inbox'[x] = inbox[x]
    BY DEF TypeOK
<1>2. ASSUME NEW e \in Buffered' PROVE e \in Buffered
    <2>1. PICK x \in Connections : \E i \in DOMAIN inbox'[x] : e = inbox'[x][i]
        BY <1>2 DEF Buffered
    <2>2. PICK i \in DOMAIN inbox'[x] : e = inbox'[x][i]  BY <2>1
    <2>3. \E y \in Connections : \E j \in DOMAIN inbox[y] : e = inbox[y][j]
        BY <1>1, <2>2, TailElements
    <2>4. QED  BY <2>3 DEF Buffered
<1>3. QED  BY <1>1, <1>2

\* Writing to an open connection delivers the head of its inbox, which was
\* nowhere else, after everything its sender got through before.
LEMMA DeliverStep ==
    ASSUME DeliveryInv, NEW c \in Connections, WriteNext(c), socket[c] = "open"
    PROVE  Relay!Deliver(c)
<1>1. TypeOK  BY DEF DeliveryInv, RegistryInv
<1>2. /\ inbox[c] # <<>> /\ inbox' = [inbox EXCEPT ![c] = Tail(@)]
      /\ delivered' = [delivered EXCEPT ![c] = Append(@, Head(inbox[c]))]
      /\ UNCHANGED <<socket, reader, target, frames>>
    BY DEF WriteNext, handler
<1>3. /\ inbox[c] \in Seq(Envelope) /\ inbox'[c] = Tail(inbox[c])
      /\ \A x \in Connections \ {c} : inbox'[x] = inbox[x]
      /\ Buffered' \subseteq Buffered
    BY <1>1, <1>2, TakeHead
<1> DEFINE e == inbox[c][1]
           p == Len(delivered[c])
<1>4. 1 \in DOMAIN inbox[c] /\ Head(inbox[c]) = e  BY <1>2, <1>3, TailElements
<1>5. /\ p \in Nat /\ p + 1 \in DOMAIN Line(c) /\ Line(c)[p + 1] = e
      /\ DOMAIN delivered[c] = 1..p
    BY <1>1, <1>4, InboxOnLine
<1>6. e \in Envelope  BY <1>3, <1>4, ElementOfSeq, LenProperties
<1>7. Reachable' = Reachable /\ InHand' = InHand  BY <1>2 DEF Reachable, InHand, Sent
<1>8. e \in Buffered  BY <1>4 DEF Buffered
<1>t. /\ \A i \in DOMAIN inbox'[c] : i \in Nat \ {0} /\ i + 1 \in DOMAIN inbox[c]
                                      /\ inbox'[c][i] = inbox[c][i + 1]
      /\ \A j \in DOMAIN inbox[c] :
             j # 1 => j - 1 \in DOMAIN inbox'[c] /\ inbox'[c][j - 1] = inbox[c][j]
    <2> DEFINE s == inbox[c]
    <2>1. s \in Seq(Envelope) /\ s # <<>>  BY <1>2, <1>3
    <2> HIDE DEF s
    <2>2. /\ \A i \in DOMAIN Tail(s) : i \in Nat \ {0} /\ i + 1 \in DOMAIN s
                                      /\ Tail(s)[i] = s[i + 1]
          /\ \A j \in DOMAIN s :
                 j # 1 => j - 1 \in DOMAIN Tail(s) /\ Tail(s)[j - 1] = s[j]
        BY <2>1, TailElements
    <2>3. QED  BY <1>3, <2>2 DEF s
<1> HIDE DEF e, p
<1>9. e.to = device[c]  BY <1>5 DEF DeliveryInv, LineAddress
<1>10. ASSUME NEW i \in DOMAIN delivered[c], delivered[c][i].from = e.from
       PROVE  delivered[c][i].seq < e.seq
    <2>1. i \in DOMAIN Line(c) /\ Line(c)[i] = delivered[c][i]  BY <1>1, <1>10, LineShape
    <2>2. i < p + 1  BY <1>5, <1>10
    <2>3. QED  BY <1>5, <1>10, <2>1, <2>2 DEF DeliveryInv, LineOrder
<1>11. e \notin InHand
    <2> SUFFICES ASSUME NEW x \in Connections, reader[x] = "sending", e = Sent(x) PROVE FALSE
        BY DEF InHand
    <2>1. e.from = x /\ e.seq = frames[x]  BY DEF Sent
    <2>2. Used(e)  BY <1>5 DEF DeliveryInv, LineNumbers
    <2>3. frames[x] \in Nat  BY <1>1 DEF TypeOK
    <2>4. QED  BY <2>1, <2>2, <2>3 DEF Used
<1>12. e \notin Buffered'
    <2> SUFFICES ASSUME NEW x \in Connections, NEW i \in DOMAIN inbox'[x], e = inbox'[x][i]
                 PROVE  FALSE
        BY DEF Buffered
    <2>1. CASE x # c
        <3>1. i \in DOMAIN inbox[x] /\ e = inbox[x][i]  BY <1>3, <2>1
        <3>2. /\ Len(delivered[x]) + i \in DOMAIN Line(x)
              /\ Line(x)[Len(delivered[x]) + i] = e
            BY <1>1, <3>1, InboxOnLine
        <3>3. QED  BY <1>5, <2>1, <3>2 DEF DeliveryInv, LinesApart
    <2>2. CASE x = c
        <3>1. i \in Nat \ {0} /\ i + 1 \in DOMAIN inbox[c] /\ e = inbox[c][i + 1]
            BY <1>t, <2>2
        <3>2. p + (i + 1) \in DOMAIN Line(c) /\ Line(c)[p + (i + 1)] = e
            BY <1>1, <3>1, InboxOnLine DEF p
        <3>3. p + (i + 1) = p + 1  BY <1>5, <3>2, LineDistinct
        <3>4. QED  BY <1>5, <3>1, <3>3
    <2>3. QED  BY <2>1, <2>2
<1>13. ASSUME NEW o \in Buffered, o # e PROVE o \in Buffered'
    <2>1. PICK x \in Connections : \E j \in DOMAIN inbox[x] : o = inbox[x][j]
        BY <1>13 DEF Buffered
    <2>2. PICK j \in DOMAIN inbox[x] : o = inbox[x][j]  BY <2>1
    <2>3. \E y \in Connections : \E i \in DOMAIN inbox'[y] : o = inbox'[y][i]
        <3>1. CASE x # c  BY <1>3, <2>2, <3>1
        <3>2. CASE x = c
            <4>1. j # 1  BY <1>13, <2>2, <3>2 DEF e
            <4>2. j - 1 \in DOMAIN inbox'[c] /\ inbox'[c][j - 1] = o
                BY <1>t, <2>2, <3>2, <4>1
            <4>3. QED  BY <4>2
        <3>3. QED  BY <3>1, <3>2
    <2>4. QED  BY <2>3 DEF Buffered
<1>14. Underway' = Underway \ {e}
    <2>1. \A o : o \in Buffered' <=> o \in Buffered /\ o # e  BY <1>3, <1>12, <1>13
    <2>2. QED  BY <1>7, <1>11, <2>1 DEF Underway
<1>15. c \in Reachable  BY DEF Reachable
<1>16. e \in Underway  BY <1>8 DEF Underway
<1>17. QED
    BY <1>2, <1>4, <1>7, <1>9, <1>10, <1>14, <1>15, <1>16 DEF Relay!Deliver

\* A read loop that is done with its envelope has put it into the inbox it found,
\* or dropped it.
LEMMA EnqueueLoses ==
    ASSUME TypeOK, TargetShape, NEW c \in Connections, Enqueue(c)
    PROVE  Underway' \subseteq Underway
<1> DEFINE e == Sent(c)
           box == target[c].box
<1>1. /\ reader[c] = "sending"
      /\ inbox' = [inbox EXCEPT ![box] = IF Len(@) < Capacity THEN Append(@, e) ELSE @]
      /\ reader' = [reader EXCEPT ![c] = "reading"]
      /\ target' = [target EXCEPT ![c] = NoTarget]
      /\ UNCHANGED <<socket, frames, delivered>>
    BY DEF Enqueue
<1>2. box \in Connections  BY <1>1 DEF TargetShape
<1>3. e \in Envelope  BY SentType
<1>4. e \in InHand  BY <1>1 DEF InHand
<1>5. InHand' \subseteq InHand
    <2>1. \A x \in Connections : reader'[x] = "sending" =>
             reader[x] = "sending" /\ Sent(x)' = Sent(x)
        BY <1>1 DEF TypeOK, Sent
    <2>2. QED  BY <2>1 DEF InHand
<1>6. /\ inbox[box] \in Seq(Envelope)
      /\ inbox'[box] = IF Len(inbox[box]) < Capacity THEN Append(inbox[box], e)
                       ELSE inbox[box]
      /\ \A x \in Connections \ {box} : inbox'[x] = inbox[x]
    BY <1>1, <1>2 DEF TypeOK
<1> HIDE DEF e, box
<1>7. ASSUME NEW o \in Buffered' PROVE o \in Buffered \/ o = e
    <2>1. PICK x \in Connections : \E i \in DOMAIN inbox'[x] : o = inbox'[x][i]
        BY <1>7 DEF Buffered
    <2>2. PICK i \in DOMAIN inbox'[x] : o = inbox'[x][i]  BY <2>1
    <2>3. CASE inbox'[x] = inbox[x]  BY <2>2, <2>3 DEF Buffered
    <2>4. CASE x = box /\ inbox'[box] = Append(inbox[box], e)
        <3>1. o = e \/ \E k \in 1..Len(inbox[box]) : o = inbox[box][k]
            <4>1. /\ Append(inbox[box], e) \in Seq(Envelope)
                  /\ Len(Append(inbox[box], e)) = Len(inbox[box]) + 1
                  /\ \A k \in 1..Len(inbox[box]) : Append(inbox[box], e)[k] = inbox[box][k]
                  /\ Append(inbox[box], e)[Len(inbox[box]) + 1] = e
                BY <1>3, <1>6, AppendProperties
            <4>2. Len(inbox[box]) \in Nat  BY <1>6, LenProperties
            <4>3. DOMAIN Append(inbox[box], e) = 1..(Len(inbox[box]) + 1)
                BY <4>1, LenProperties
            <4>4. i \in 1..(Len(inbox[box]) + 1) /\ o = Append(inbox[box], e)[i]
                BY <2>2, <2>4, <4>3
            <4>5. QED  BY <4>1, <4>2, <4>4
        <3>2. DOMAIN inbox[box] = 1..Len(inbox[box])  BY <1>6, LenProperties
        <3>3. QED  BY <1>2, <3>1, <3>2 DEF Buffered
    <2>5. QED  BY <1>6, <2>3, <2>4
<1>8. QED  BY <1>4, <1>5, <1>7 DEF Underway

\* The empty hub is an empty relay.
LEMMA RelayInitial == Init => Relay!RelayInit
<1> SUFFICES ASSUME Init PROVE Relay!RelayInit  OBVIOUS
<1>1. Reachable = {} /\ InHand = {}  BY DEF Init, Reachable, InHand
<1>2. Buffered = {}  BY DEF Init, Buffered
<1>3. QED  BY <1>1, <1>2 DEF Init, Underway, Relay!RelayInit

\* Every step of the hub is a step of the relay, or changes nothing the relay
\* tells apart.
LEMMA RelayStep ==
    DeliveryInv /\ UnopenedIsEmpty /\ [Next]_vars => [Relay!RelayNext]_(Relay!relayVars)
<1> SUFFICES ASSUME DeliveryInv, UnopenedIsEmpty, [Next]_vars
             PROVE  Relay!RelayNext \/ UNCHANGED Relay!relayVars
    OBVIOUS
<1>0. TypeOK /\ TargetShape /\ RegistryInv  BY DEF DeliveryInv, RegistryInv
<1>1. CASE UNCHANGED vars
    <2>1. UNCHANGED <<socket, inbox, reader, target, frames, delivered>>
        BY <1>1 DEF vars, handler
    <2>2. Underway' = Underway  BY <2>1, PeerStep
    <2>3. Reachable' = Reachable  BY <2>1 DEF Reachable
    <2>4. QED  BY <2>1, <2>2, <2>3 DEF Relay!relayVars
<1>2. ASSUME NEW c \in Connections, Open(c) PROVE Relay!Connect(c)
    <2>1. /\ socket[c] = "none" /\ socket' = [socket EXCEPT ![c] = "open"]
          /\ reader' = [reader EXCEPT ![c] = "reading"]
          /\ UNCHANGED <<inbox, target, frames, delivered>>
        BY <1>2 DEF Open
    <2>2. delivered[c] = <<>>  BY <2>1 DEF UnopenedIsEmpty
    <2>3. c \notin Reachable /\ Reachable' = Reachable \union {c}
        BY <1>0, <2>1 DEF Reachable, TypeOK
    <2>4. reader[c] # "sending"  BY <1>0, <2>1 DEF RegistryInv, StartShape, Started, Untouched
    <2>5. \A x \in Connections : reader'[x] = "sending" <=> reader[x] = "sending"
        BY <1>0, <2>1, <2>4 DEF TypeOK
    <2>6. Underway' = Underway  BY <2>1, <2>5, PeerStep
    <2>7. QED  BY <2>1, <2>2, <2>3, <2>6 DEF Relay!Connect
<1>3. ASSUME NEW c \in Connections, Lookup(c) PROVE Relay!Send(c)
    BY <1>0, <1>3, LookupSends
<1>4. ASSUME NEW c \in Connections, Enqueue(c) PROVE Relay!RelayNext
    <2>1. UNCHANGED <<socket, frames, delivered>>  BY <1>4 DEF Enqueue
    <2>2. QED  BY <1>0, <1>4, <2>1, EnqueueLoses, LosingStep
<1>5. ASSUME NEW c \in Connections, Panic(c) PROVE Relay!RelayNext
    <2>1. /\ UNCHANGED <<socket, inbox, frames, delivered>>
          /\ reader' = [reader EXCEPT ![c] = "unwinding"]
          /\ target' = [target EXCEPT ![c] = NoTarget]
        BY <1>5 DEF Panic
    <2>2. \A x \in Connections : reader'[x] = "sending" =>
             reader[x] = "sending" /\ Sent(x)' = Sent(x)
        BY <1>0, <2>1 DEF TypeOK, Sent
    <2>3. InHand' \subseteq InHand  BY <2>2 DEF InHand
    <2>4. Buffered' = Buffered  BY <2>1 DEF Buffered
    <2>5. QED  BY <2>1, <2>3, <2>4, LosingStep DEF Underway
<1>6. ASSUME NEW c \in Connections, Cleanup(c) \/ EndWrite(c) PROVE Relay!RelayNext
    <2>1. /\ UNCHANGED <<socket, inbox, frames, target, delivered>>
          /\ \/ reader' = reader
             \/ reader[c] # "sending" /\ reader' = [reader EXCEPT ![c] = "gone"]
        BY <1>6 DEF Cleanup, EndWrite
    <2>2. \A x \in Connections : reader'[x] = "sending" <=> reader[x] = "sending"
        BY <1>0, <2>1 DEF TypeOK
    <2>3. QED  BY <2>1, <2>2, PeerStep, LosingStep
<1>7. ASSUME NEW c \in Connections, EndRead(c) \/ PeerLost(c)
      PROVE  Relay!RelayNext \/ UNCHANGED Relay!relayVars
    <2>1. /\ UNCHANGED <<inbox, target, frames, delivered>>
          /\ \/ socket' = [socket EXCEPT ![c] = "closed"]
             \/ socket' = [socket EXCEPT ![c] = "lost"]
          /\ \/ reader' = reader
             \/ reader[c] # "sending" /\ reader' = [reader EXCEPT ![c] = "waiting"]
        BY <1>7 DEF EndRead, PeerLost, handler
    <2>2. \A x \in Connections : reader'[x] = "sending" <=> reader[x] = "sending"
        BY <1>0, <2>1 DEF TypeOK
    <2>3. Underway' = Underway  BY <2>1, <2>2, PeerStep
    <2>4. Reachable' = Reachable \ {c}  BY <1>0, <2>1 DEF Reachable, TypeOK
    <2>5. CASE c \in Reachable
        BY <2>1, <2>3, <2>4, <2>5 DEF Relay!RelayNext, Relay!Disconnect
    <2>6. CASE c \notin Reachable
        <3>1. Reachable' = Reachable  BY <2>4, <2>6
        <3>2. QED  BY <2>1, <2>3, <3>1 DEF Relay!relayVars
    <2>7. QED  BY <2>5, <2>6
<1>8. ASSUME NEW c \in Connections, WriteNext(c) \/ WriteFails(c) PROVE Relay!RelayNext
    <2>1. CASE WriteNext(c) /\ socket[c] = "open"
        BY <2>1, DeliverStep DEF Relay!RelayNext
    <2>2. CASE ~(WriteNext(c) /\ socket[c] = "open")
        <3>1. /\ UNCHANGED <<socket, reader, target, frames, delivered>>
              /\ inbox[c] # <<>> /\ inbox' = [inbox EXCEPT ![c] = Tail(@)]
            BY <1>8, <2>2 DEF WriteNext, WriteFails, handler
        <3>2. InHand' \subseteq InHand  BY <3>1, HandShrinks
        <3>3. Buffered' \subseteq Buffered  BY <1>0, <3>1, TakeHead
        <3>4. QED  BY <3>1, <3>2, <3>3, LosingStep DEF Underway
    <2>3. QED  BY <2>1, <2>2
<1>9. ASSUME NEW c \in Connections, Relay!Connect(c) \/ Relay!Send(c) PROVE Relay!RelayNext
    BY <1>9 DEF Relay!RelayNext
<1>10. QED
    BY <1>1, <1>2, <1>3, <1>4, <1>5, <1>6, <1>7, <1>8, <1>9 DEF Next, ReadStep, WriteStep

\* The two loops of every connection, with their buffered inboxes, reconnects that
\* replace one another and panics on closed channels, implement the simple relay
\* that EnvelopeRelay describes: at most once, to the addressee, in order.
THEOREM HubImplementsRelay == Spec => RelaySpec
<1>1. Spec => Relay!RelayInit  BY RelayInitial DEF Spec
<1>2. Spec => [][Relay!RelayNext]_(Relay!relayVars)
    BY DeliveryInvHolds, UnopenedHolds, RelayStep, PTL DEF Spec
<1>3. QED  BY <1>1, <1>2 DEF RelaySpec, Relay!RelaySpec
=============================================================================
