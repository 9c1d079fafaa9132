------------------------- MODULE TcpForwarder_proofs -------------------------
(***************************************************************************)
(* Proofs about TcpForwarder, for any number of incarnations of the        *)
(* four-tuple, any windows, any modulus that leaves room for them, and any *)
(* amount of data.                                                         *)
(*                                                                         *)
(* The fields of a flow are sequence numbers that wrap; the argument is    *)
(* about the numbers they stand for.  Accounting says which they are: what *)
(* the readers have counted, and what the TUN thread has taken of the      *)
(* app's acknowledgments.                                                  *)
(***************************************************************************)
EXTENDS TcpForwarder, Integers, TLAPS

OnFlow == {"emit", "await", "fin", "count data", "count fin", "reset"}
Counting == {"count data", "count fin"}
TunState ==
    [at : {"idle", "connect", "rst", "rst close", "ack"}, flow : 0..MaxFlows, last : BOOLEAN]
ReaderState ==
    [at : OnFlow \union {"none", "reading", "onData", "done"}, flow : 0..MaxFlows, size : Nat]
CloserState == [at : {"open", "flow", "clear", "done"}, flow : 0..MaxFlows]

\* The types of the flows' fields and of what they are related to.
FieldTypes ==
    /\ server \in [Flows -> 0..Modulus - 1] /\ acked \in [Flows -> 0..Modulus - 1]
    /\ window \in [Flows -> Windows \union {0, SynWindow}]
    /\ closed \in [Flows -> BOOLEAN] /\ finSent \in [Flows -> BOOLEAN]
    /\ connection \in [Flows -> BOOLEAN]
    /\ lock \in [Flows -> 0..MaxFlows]
    /\ socket \in [Flows -> {"none", "open", "closed"}]
    /\ left \in [Flows -> Nat] /\ \A f \in Flows : left[f] <= MaxBytes[f]
    /\ received \in [Flows -> Nat] /\ said \in [Flows -> Nat] /\ edge \in [Flows -> Nat]
    /\ resets \in [Flows -> Nat]

\* The types of what says where the threads are.
ThreadTypes ==
    /\ born \in 0..MaxFlows /\ mapped \in 0..born
    /\ tun \in TunState /\ reader \in [Flows -> ReaderState] /\ closer \in CloserState

\* Who is at work on a flow knows which, and it was made.
FlowShape ==
    /\ tun.flow <= born /\ closer.flow <= born
    /\ tun.at # "idle" => tun.flow # NoFlow
    /\ tun.at = "connect" => reader[tun.flow].at = "none"
    /\ closer.at = "flow" => closer.flow # NoFlow
    /\ \A r \in Flows :
          /\ reader[r].flow <= born
          /\ reader[r].at \in OnFlow <=> reader[r].flow # NoFlow
          /\ reader[r].at \in {"fin", "count fin"} => reader[r].size = 1

\* A windowLock and the reader that counts under it name each other.
LockShape ==
    /\ \A r \in Flows : reader[r].at \in Counting => lock[reader[r].flow] = r
    /\ \A f \in Flows : lock[f] # Free =>
          reader[lock[f]].at \in Counting /\ reader[lock[f]].flow = f

\* A flow that was not made yet is as Init left it.
Fresh ==
    \A f \in Flows : f > born =>
        /\ server[f] = Start /\ acked[f] = Start /\ window[f] = 0
        /\ received[f] = 0 /\ said[f] = 0 /\ edge[f] = 0 /\ resets[f] = 0
        /\ reader[f].at = "none"

\* A flow in the map was not reset; a reader about to reset one is the only one and the first.
ResetShape ==
    /\ \A r \in Flows : reader[r].at = "reset" => reader[r].flow # mapped
    /\ mapped # NoFlow => resets[mapped] = 0
    /\ \A r \in Flows : reader[r].at = "reset" => resets[reader[r].flow] = 0
    /\ \A r, q \in Flows :
          reader[r].at = "reset" /\ reader[q].at = "reset" /\ reader[r].flow = reader[q].flow
          => r = q
    /\ ResetOnce

\* What the readers have counted of what the app has got.
Counted(f) == received[f] - (IF lock[f] = Free THEN 0 ELSE reader[lock[f]].size)

\* A FIN takes one sequence number beyond the window.
FinSpace(f) == IF finSent[f] THEN 1 ELSE 0

\* The TUN thread has not taken the app's last acknowledgment yet.
Pending(f) == tun.at = "ack" /\ tun.flow = f

\* The fields of a flow, as the numbers they stand for: a is the acknowledgment taken last.
Taken(f, a) ==
    /\ acked[f] = Seq(a)
    /\ Pending(f) \/ a = said[f]
    /\ a <= Counted(f)
    /\ a + window[f] <= edge[f]
    /\ received[f] <= a + window[f] + FinSpace(f)

Accounting(f) ==
    /\ said[f] <= received[f]
    /\ server[f] = Seq(Counted(f))
    /\ Pending(f) => edge[f] - said[f] \in Windows
    /\ \E a \in 0..said[f] : Taken(f, a)

TcpInv ==
    /\ FieldTypes /\ ThreadTypes /\ FlowShape /\ LockShape /\ Fresh /\ ResetShape
    /\ \A f \in Flows : Accounting(f)
-----------------------------------------------------------------------------
\* Sequence numbers.

\* What the constants are.
LEMMA Constants ==
    /\ Modulus \in Nat \ {0} /\ Start \in 0..Modulus - 1 /\ MaxFlows \in Nat \ {0}
    /\ Windows \subseteq Nat /\ SynWindow \in Nat /\ MaxBytes \in [Flows -> Nat]
    /\ \A v \in Windows \union {0, SynWindow} : v \in Nat /\ v + 1 < Modulus
<1>1. /\ Modulus \in Nat \ {0} /\ Start \in 0..Modulus - 1 /\ MaxFlows \in Nat \ {0}
      /\ Windows \subseteq Nat /\ SynWindow \in Nat /\ MaxBytes \in [Flows -> Nat]
    BY TcpAssumption
<1>2. ASSUME NEW v \in Windows \union {0, SynWindow}
      PROVE  v \in Nat /\ v + 1 < Modulus
    <2>1. SynWindow + 2 <= Modulus  BY TcpAssumption
    <2>2. CASE v \in Windows
        <3>1. v + 2 <= Modulus  BY <2>2, TcpAssumption
        <3>2. v \in Nat  BY <1>1, <2>2
        <3>3. QED  BY <1>1, <3>1, <3>2
    <2>3. CASE v = SynWindow  BY <1>1, <2>1, <2>3
    <2>4. CASE v = 0  BY <1>1, <2>1, <2>4
    <2>5. QED  BY <2>2, <2>3, <2>4
<1>3. QED  BY <1>1, <1>2

\* A remainder with its quotient.
LEMMA Division ==
    ASSUME NEW x \in Int
    PROVE  x % Modulus \in 0..Modulus - 1 /\ \E k \in Int : x = Modulus * k + (x % Modulus)
<1>1. Modulus \in Nat \ {0}  BY Constants
<1>2. /\ x % Modulus \in 0..Modulus - 1 /\ x \div Modulus \in Int
      /\ x = Modulus * (x \div Modulus) + (x % Modulus)
    BY <1>1
<1>3. QED  BY <1>2

\* The remainder is the only one.
LEMMA Remainder ==
    ASSUME NEW p \in Int, NEW q \in Int, NEW x \in 0..Modulus - 1, NEW y \in 0..Modulus - 1,
           Modulus * p + x = Modulus * q + y
    PROVE  x = y
<1>1. Modulus \in Nat \ {0}  BY Constants
<1>2. Modulus * (q - p) = x - y  BY <1>1
<1>3. CASE q > p
    <2>1. Modulus * (q - p) >= Modulus  BY <1>1, <1>3
    <2>2. QED  BY <1>1, <1>2, <2>1
<1>4. CASE q < p
    <2>1. Modulus * (q - p) <= 0 - Modulus  BY <1>1, <1>4
    <2>2. QED  BY <1>1, <1>2, <2>1
<1>5. CASE q = p  BY <1>1, <1>2, <1>5
<1>6. QED  BY <1>3, <1>4, <1>5

\* What a remainder is known by.
LEMMA ModOf ==
    ASSUME NEW k \in Int, NEW x \in 0..Modulus - 1, NEW y \in Int, y = Modulus * k + x
    PROVE  y % Modulus = x
<1>1. Modulus \in Nat \ {0}  BY Constants
<1>2. DEFINE z == y % Modulus
<1>3. PICK q \in Int : z \in 0..Modulus - 1 /\ y = Modulus * q + z  BY Division
<1>4. HIDE DEF z
<1>5. Modulus * k + x = Modulus * q + z  BY <1>3
<1>6. z = x  BY <1>3, <1>5, Remainder
<1>7. QED  BY <1>6 DEF z

\* A sequence number is a word, and differs from its number by multiples of the modulus.
LEMMA SeqIsWord ==
    ASSUME NEW n \in Nat
    PROVE  Seq(n) \in 0..Modulus - 1 /\ \E k \in Int : Start + n = Modulus * k + Seq(n)
<1>1. Start + n \in Int  BY Constants
<1>2. QED  BY <1>1, Division DEF Seq

\* Nothing was sent yet.
LEMMA SeqOfNone == Seq(0) = Start
<1>1. /\ Start \in 0..Modulus - 1 /\ Start + 0 \in Int /\ Start + 0 = Modulus * 0 + Start
    BY Constants
<1>2. QED  BY <1>1, ModOf DEF Seq

\* Multiples of the modulus.
LEMMA Multiples ==
    ASSUME NEW p \in Int, NEW q \in Int
    PROVE  /\ Modulus * p \in Int /\ Modulus * q \in Int
           /\ Modulus * (p - q) = Modulus * p - Modulus * q
           /\ Modulus * (p - q + 1) = Modulus * p - Modulus * q + Modulus
<1>1. Modulus \in Nat \ {0}  BY Constants
<1>2. QED  BY <1>1

\* The distance of two sequence numbers is that of the numbers they stand for, as long as that
\* is below the modulus.
LEMMA DistOfSeq ==
    ASSUME NEW a \in Nat, NEW b \in Nat, a <= b, b - a < Modulus
    PROVE  Dist(Seq(a), Seq(b)) = b - a
<1>1. Modulus \in Nat \ {0} /\ Start \in Int /\ b - a \in 0..Modulus - 1  BY Constants
<1>2. PICK p \in Int : Seq(a) \in 0..Modulus - 1 /\ Start + a = Modulus * p + Seq(a)
    BY SeqIsWord
<1>3. PICK q \in Int : Seq(b) \in 0..Modulus - 1 /\ Start + b = Modulus * q + Seq(b)
    BY SeqIsWord
<1>4. ASSUME NEW x \in Int, NEW y \in Int, NEW m \in Int, NEW k \in Int,
             Start + a = m + x, Start + b = k + y
      PROVE  y - x = (m - k) + (b - a)
    BY <1>1, <1>4
<1>5. Seq(b) + Modulus - Seq(a) = (Modulus * p - Modulus * q + Modulus) + (b - a)
    <2>1. Modulus * p \in Int /\ Modulus * q \in Int  BY Multiples
    <2>2. Seq(a) \in Int /\ Seq(b) \in Int  BY <1>1, <1>2, <1>3
    <2>3. Seq(b) - Seq(a) = (Modulus * p - Modulus * q) + (b - a)
        BY <1>2, <1>3, <1>4, <2>1, <2>2
    <2>4. QED  BY <1>1, <2>1, <2>2, <2>3
<1>6. Seq(b) + Modulus - Seq(a) = Modulus * (p - q + 1) + (b - a)
    BY <1>5, Multiples
<1>7. Seq(b) + Modulus - Seq(a) \in Int /\ p - q + 1 \in Int  BY <1>1, <1>2, <1>3
<1>8. QED  BY <1>1, <1>6, <1>7, ModOf DEF Dist

\* Counting on from a sequence number.
LEMMA SeqOfSum ==
    ASSUME NEW n \in Nat, NEW k \in Nat
    PROVE  (Seq(n) + k) % Modulus = Seq(n + k)
<1>1. Modulus \in Nat \ {0} /\ Start \in Int  BY Constants
<1>2. PICK p \in Int : Seq(n) \in 0..Modulus - 1 /\ Start + n = Modulus * p + Seq(n)
    BY SeqIsWord
<1>3. n + k \in Nat  OBVIOUS
<1>4. PICK q \in Int : /\ Seq(n + k) \in 0..Modulus - 1
                       /\ Start + (n + k) = Modulus * q + Seq(n + k)
    BY <1>3, SeqIsWord
<1>5. ASSUME NEW x \in Int, NEW y \in Int, NEW m \in Int, NEW l \in Int,
             Start + n = m + x, Start + (n + k) = l + y
      PROVE  x + k = (l - m) + y
    BY <1>1, <1>5
<1>6. Seq(n) + k = (Modulus * q - Modulus * p) + Seq(n + k)
    <2>1. Modulus * p \in Int /\ Modulus * q \in Int  BY Multiples
    <2>2. Seq(n) \in Int /\ Seq(n + k) \in Int  BY <1>1, <1>2, <1>4
    <2>3. QED  BY <1>2, <1>4, <1>5, <2>1, <2>2
<1>7. Seq(n) + k = Modulus * (q - p) + Seq(n + k)  BY <1>6, Multiples
<1>8. Seq(n) + k \in Int /\ q - p \in Int  BY <1>1, <1>2
<1>9. QED  BY <1>4, <1>7, <1>8, ModOf
-----------------------------------------------------------------------------
\* The types.

\* How flows are numbered.
LEMMA FlowNumbers == NoFlow = 0 /\ Free = 0 /\ Flows = 1..MaxFlows /\ MaxFlows \in Nat \ {0}
BY Constants DEF NoFlow, Free, Flows

\* A flow that is named.
LEMMA FlowOf ==
    ASSUME NEW f \in 0..MaxFlows, f # NoFlow
    PROVE  f \in Flows
BY FlowNumbers

\* A flow that was made.
LEMMA BornFlow ==
    ASSUME ThreadTypes, NEW f \in 0..born
    PROVE  f <= born /\ f \in 0..MaxFlows
BY FlowNumbers DEF ThreadTypes

\* Initially.
LEMMA TypesInit == Init => FieldTypes /\ ThreadTypes
<1>1. SUFFICES ASSUME Init PROVE FieldTypes /\ ThreadTypes  OBVIOUS
<1>2. tun \in TunState /\ closer \in CloserState
    BY <1>1, FlowNumbers DEF Init, TunState, CloserState
<1>3. reader \in [Flows -> ReaderState]
    BY <1>1, FlowNumbers DEF Init, ReaderState
<1>4. left \in [Flows -> Nat] /\ \A f \in Flows : left[f] <= MaxBytes[f]
    BY <1>1, Constants DEF Init
<1>5. server \in [Flows -> 0..Modulus - 1] /\ acked \in [Flows -> 0..Modulus - 1]
    BY <1>1, Constants DEF Init
<1>6. born \in 0..MaxFlows /\ mapped \in 0..born  BY <1>1, FlowNumbers DEF Init
<1>7. /\ window \in [Flows -> Windows \union {0, SynWindow}]
      /\ closed \in [Flows -> BOOLEAN] /\ finSent \in [Flows -> BOOLEAN]
      /\ connection \in [Flows -> BOOLEAN]
    BY <1>1 DEF Init
<1>8. /\ lock \in [Flows -> 0..MaxFlows]
      /\ socket \in [Flows -> {"none", "open", "closed"}]
    BY <1>1, FlowNumbers DEF Init
<1>9. /\ received \in [Flows -> Nat] /\ said \in [Flows -> Nat] /\ edge \in [Flows -> Nat]
      /\ resets \in [Flows -> Nat]
    BY <1>1 DEF Init
<1>10. QED
    BY <1>2, <1>3, <1>4, <1>5, <1>6, <1>7, <1>8, <1>9 DEF FieldTypes, ThreadTypes

\* A step that leaves the fields of flows alone.
LEMMA FieldsStay ==
    ASSUME FieldTypes,
           UNCHANGED <<window_, connection, lock, socket, left, received, app, resets>>
    PROVE  FieldTypes'
BY DEF FieldTypes, window_, app

\* signalAll lets those who wait on the flow look again, and changes nothing else.
LEMMA SignalledKeeps ==
    ASSUME ThreadTypes, NEW f
    PROVE  /\ Signalled(f) \in [Flows -> ReaderState]
           /\ \A r \in Flows :
                 /\ Signalled(f)[r].flow = reader[r].flow /\ Signalled(f)[r].size = reader[r].size
                 /\ \/ Signalled(f)[r].at = reader[r].at
                    \/ reader[r].at = "await" /\ Signalled(f)[r].at = "emit"
<1>1. reader \in [Flows -> ReaderState]  BY DEF ThreadTypes
<1>2. ASSUME NEW r \in Flows
      PROVE  /\ [reader[r] EXCEPT !.at = "emit"] \in ReaderState
             /\ [reader[r] EXCEPT !.at = "emit"].flow = reader[r].flow
             /\ [reader[r] EXCEPT !.at = "emit"].size = reader[r].size
             /\ [reader[r] EXCEPT !.at = "emit"].at = "emit"
    BY <1>1 DEF ReaderState, OnFlow
<1>3. QED  BY <1>1, <1>2 DEF Signalled

\* A reader moves; of the others, some may look again at the flow they wait on.
OthersStay(r) ==
    \A q \in Flows \ {r} :
        /\ reader'[q].flow = reader[q].flow /\ reader'[q].size = reader[q].size
        /\ reader'[q].at = reader[q].at \/ (reader[q].at = "await" /\ reader'[q].at = "emit")

Goes(r, at, f, size) ==
    /\ reader' \in [Flows -> ReaderState]
    /\ reader'[r].at = at /\ reader'[r].flow = f /\ reader'[r].size = size
    /\ OthersStay(r)

\* A reader goes on, on a flow that it names.
LEMMA ToGoes ==
    ASSUME ThreadTypes, NEW r \in Flows, NEW f \in 0..MaxFlows, NEW size \in Nat,
           NEW at \in OnFlow \union {"none", "reading", "onData", "done"}, To(r, at, f, size)
    PROVE  Goes(r, at, f, size)
<1>1. reader' = [reader EXCEPT ![r] = [at |-> at, flow |-> f, size |-> size]]  BY DEF To
<1>2. [at |-> at, flow |-> f, size |-> size] \in ReaderState  BY DEF ReaderState
<1>3. QED  BY <1>1, <1>2 DEF Goes, OthersStay, ThreadTypes

\* A reader goes on, on the flow it is on.
LEMMA TurnGoes ==
    ASSUME ThreadTypes, NEW r \in Flows,
           NEW at \in OnFlow \union {"none", "reading", "onData", "done"}, Turn(r, at)
    PROVE  Goes(r, at, reader[r].flow, reader[r].size)
<1>1. reader \in [Flows -> ReaderState]  BY DEF ThreadTypes
<1>2. reader' = [reader EXCEPT ![r].at = at]  BY DEF Turn
<1>3. reader' \in [Flows -> ReaderState]  BY <1>1, <1>2 DEF ReaderState
<1>4. QED  BY <1>1, <1>2, <1>3 DEF Goes, OthersStay, ReaderState

\* A reader ends.
LEMMA ExitGoes ==
    ASSUME ThreadTypes, NEW r \in Flows, Exit(r)
    PROVE  Goes(r, "done", NoFlow, 0)
<1>1. To(r, "done", NoFlow, 0)  BY DEF Exit, To
<1>2. NoFlow \in 0..MaxFlows /\ 0 \in Nat  BY FlowNumbers
<1>3. QED  BY <1>1, <1>2, ToGoes

\* Where the reader's own steps take it.
LEMMA ReaderGoes ==
    ASSUME ThreadTypes, FieldTypes, NEW r \in Flows
    PROVE  /\ Read(r) => \E size \in 1..left[r] : Goes(r, "onData", NoFlow, size)
           /\ OnClosed(r) => \/ Goes(r, "done", NoFlow, 0)
                             \/ mapped # NoFlow /\ Goes(r, "fin", mapped, 1)
           /\ OnFailure(r) => \/ mapped = NoFlow /\ Goes(r, "done", NoFlow, 0)
                              \/ mapped # NoFlow /\ Goes(r, "reset", mapped, 0)
           /\ OnData(r) => \/ Goes(r, "reading", NoFlow, 0)
                           \/ mapped # NoFlow /\ Goes(r, "emit", mapped, reader[r].size)
           /\ Emit(r) => \/ /\ lock' = lock
                            /\ \/ Goes(r, "await", reader[r].flow, reader[r].size)
                               \/ Goes(r, "reading", NoFlow, 0)
                         \/ /\ Goes(r, "count data", reader[r].flow, reader[r].size)
                            /\ lock' = [lock EXCEPT ![reader[r].flow] = r]
           /\ Fin(r) => \/ lock' = lock /\ Goes(r, "done", NoFlow, 0)
                        \/ /\ Goes(r, "count fin", reader[r].flow, reader[r].size)
                           /\ lock' = [lock EXCEPT ![reader[r].flow] = r]
           /\ Count(r) => Goes(r, "reading", NoFlow, 0) \/ Goes(r, "done", NoFlow, 0)
           /\ Reset(r) => Goes(r, "done", NoFlow, 0)
           /\ Interrupted(r) => Goes(r, "reading", NoFlow, 0)
<1>1. /\ NoFlow \in 0..MaxFlows /\ mapped \in 0..MaxFlows /\ 0 \in Nat /\ 1 \in Nat
      /\ reader[r] \in ReaderState /\ reader[r].size \in Nat
    BY FlowNumbers DEF ThreadTypes, ReaderState
<1>2. To(r, "reading", NoFlow, 0) => Goes(r, "reading", NoFlow, 0)  BY <1>1, ToGoes
<1>3. ASSUME Read(r)
      PROVE  \E size \in 1..left[r] : Goes(r, "onData", NoFlow, size)
    <2>1. PICK size \in 1..left[r] : To(r, "onData", NoFlow, size)  BY <1>3 DEF Read
    <2>2. size \in Nat  BY DEF FieldTypes
    <2>3. QED  BY <1>1, <2>1, <2>2, ToGoes
<1>4. ASSUME OnClosed(r)
      PROVE  Goes(r, "done", NoFlow, 0) \/ (mapped # NoFlow /\ Goes(r, "fin", mapped, 1))
    BY <1>1, <1>4, ToGoes, ExitGoes DEF OnClosed, OnFlow
<1>5. ASSUME OnFailure(r)
      PROVE  \/ mapped = NoFlow /\ Goes(r, "done", NoFlow, 0)
             \/ mapped # NoFlow /\ Goes(r, "reset", mapped, 0)
    BY <1>1, <1>5, ToGoes, ExitGoes DEF OnFailure, OnFlow
<1>6. ASSUME OnData(r)
      PROVE  \/ Goes(r, "reading", NoFlow, 0)
             \/ mapped # NoFlow /\ Goes(r, "emit", mapped, reader[r].size)
    BY <1>1, <1>2, <1>6, ToGoes DEF OnData, OnFlow
<1>7. ASSUME Emit(r)
      PROVE  \/ /\ lock' = lock
                /\ \/ Goes(r, "await", reader[r].flow, reader[r].size)
                   \/ Goes(r, "reading", NoFlow, 0)
             \/ /\ Goes(r, "count data", reader[r].flow, reader[r].size)
                /\ lock' = [lock EXCEPT ![reader[r].flow] = r]
    BY <1>1, <1>2, <1>7, TurnGoes DEF Emit, Send, OnFlow
<1>8. ASSUME Fin(r)
      PROVE  \/ lock' = lock /\ Goes(r, "done", NoFlow, 0)
             \/ /\ Goes(r, "count fin", reader[r].flow, reader[r].size)
                /\ lock' = [lock EXCEPT ![reader[r].flow] = r]
    BY <1>1, <1>8, TurnGoes, ExitGoes DEF Fin, Send, OnFlow
<1>9. ASSUME Count(r)
      PROVE  Goes(r, "reading", NoFlow, 0) \/ Goes(r, "done", NoFlow, 0)
    BY <1>2, <1>9, ExitGoes DEF Count
<1>10. ASSUME Reset(r)
       PROVE  Goes(r, "done", NoFlow, 0)
    <2>1. DEFINE f == reader[r].flow
                 new == [at |-> "done", flow |-> NoFlow, size |-> 0]
    <2>2. reader' = [Signalled(f) EXCEPT ![r] = new]  BY <1>10 DEF Reset
    <2>3. new \in ReaderState  BY <1>1 DEF ReaderState
    <2>4. Signalled(f) \in [Flows -> ReaderState]  BY SignalledKeeps
    <2>5. reader' \in [Flows -> ReaderState] /\ reader'[r] = new
        BY <2>2, <2>3, <2>4
    <2>6. \A q \in Flows \ {r} : reader'[q] = Signalled(f)[q]  BY <2>2, <2>4
    <2>7. OthersStay(r)  BY <2>6, SignalledKeeps DEF OthersStay
    <2>8. QED  BY <2>5, <2>7 DEF Goes
<1>11. ASSUME Interrupted(r)
       PROVE  Goes(r, "reading", NoFlow, 0)
    BY <1>2, <1>11 DEF Interrupted
<1>12. QED  BY <1>3, <1>4, <1>5, <1>6, <1>7, <1>8, <1>9, <1>10, <1>11

\* The steps on the TUN thread keep the types.
LEMMA TypesAccept ==
    ASSUME FieldTypes, ThreadTypes, FlowShape, \A f \in Flows : Accounting(f),
           Syn \/ Rst \/ AnyPacket \/ Accept
    PROVE  FieldTypes' /\ ThreadTypes'
<1>1. /\ MaxFlows \in Nat \ {0} /\ NoFlow = 0 /\ Free = 0 /\ Flows = 1..MaxFlows
      /\ SynWindow \in Nat /\ Windows \subseteq Nat
    BY Constants, FlowNumbers
<1>2. /\ born \in 0..MaxFlows /\ mapped \in 0..born /\ tun \in TunState
      /\ reader \in [Flows -> ReaderState] /\ closer \in CloserState
    BY DEF ThreadTypes
<1>3. tun.at # "idle" => tun.flow \in Flows
    <2>1. tun.flow \in 0..MaxFlows  BY <1>2 DEF TunState
    <2>2. tun.at # "idle" => tun.flow # 0  BY <1>1 DEF FlowShape
    <2>3. QED  BY <1>1, <2>1, <2>2
<1>4. Done => tun' \in TunState
    <2>1. 0 \in 0..MaxFlows  BY <1>1
    <2>2. QED  BY <1>1, <1>2, <2>1 DEF Done, TunState
<1>5. ASSUME NEW at \in {"connect", "rst", "ack"}, NEW f \in 0..MaxFlows, Take(at, f)
      PROVE  tun' \in TunState
    BY <1>2, <1>5 DEF Take, TunState
<1>6. CASE Syn
    <2>1. born + 1 \in Flows /\ born' = born + 1 /\ mapped' = born + 1
        BY <1>1, <1>2, <1>6 DEF Syn
    <2>2. tun' \in TunState  BY <1>1, <1>5, <1>6, <2>1 DEF Syn
    <2>3. ThreadTypes'  BY <1>1, <1>2, <1>6, <2>1, <2>2 DEF Syn, ThreadTypes
    <2>4. FieldTypes'  BY <1>1, <1>6, <2>1 DEF Syn, FieldTypes
    <2>5. QED  BY <2>3, <2>4
<1>7. CASE Rst
    <2>1. tun' \in TunState  BY <1>1, <1>2, <1>5, <1>7 DEF Rst
    <2>2. QED  BY <1>2, <1>7, <2>1, FieldsStay DEF Rst, ThreadTypes
<1>8. CASE AnyPacket
    <2>1. PICK n \in 0..received[mapped] : \E w \in Windows : Packet(n, n + w)
        BY <1>8 DEF AnyPacket
    <2>2. PICK w \in Windows : Packet(n, n + w)  BY <2>1
    <2>3. mapped \in Flows  BY <1>1, <1>2, <1>8 DEF AnyPacket
    <2>4. n \in Nat /\ n + w \in Nat
        <3>1. received[mapped] \in Nat /\ w \in Nat  BY <1>1, <2>3 DEF FieldTypes
        <3>2. QED  BY <3>1
    <2>5. tun' \in TunState
        <3>1. mapped \in 0..MaxFlows /\ Take("ack", mapped)  BY <1>1, <2>2, <2>3 DEF Packet
        <3>2. QED  BY <1>5, <3>1
    <2>6. ThreadTypes'  BY <1>2, <2>2, <2>5 DEF Packet, ThreadTypes
    <2>7. FieldTypes'  BY <2>2, <2>4 DEF Packet, FieldTypes, window_
    <2>8. QED  BY <2>6, <2>7
<1>9. CASE Connect
    <2>1. tun.flow \in Flows  BY <1>3, <1>9 DEF Connect
    <2>2. reader' \in [Flows -> ReaderState]
        <3>1. reader' = [reader EXCEPT ![tun.flow].at = "reading"]  BY <1>9 DEF Connect
        <3>2. QED  BY <1>2, <2>1, <3>1 DEF ReaderState
    <2>3. ThreadTypes'  BY <1>2, <1>4, <1>9, <2>2 DEF Connect, ThreadTypes
    <2>4. FieldTypes'  BY <1>9 DEF Connect, FieldTypes, window_, app
    <2>5. QED  BY <2>3, <2>4
<1>10. CASE ConnectThrows
    BY <1>2, <1>4, <1>10, FieldsStay DEF ConnectThrows, ThreadTypes
<1>11. CASE RstRemove
    <2>1. tun' \in TunState  BY <1>2, <1>11 DEF RstRemove, TunState
    <2>2. mapped' \in 0..born'
        <3>1. born' = born /\ mapped' \in {mapped, 0}  BY <1>1, <1>11 DEF RstRemove
        <3>2. QED  BY <1>1, <1>2, <3>1
    <2>3. QED  BY <1>2, <1>11, <2>1, <2>2, FieldsStay DEF RstRemove, ThreadTypes
<1>12. CASE RstClose
    <2>1. ThreadTypes'
        BY <1>2, <1>4, <1>12, SignalledKeeps DEF RstClose, CloseWindow, ThreadTypes
    <2>2. closed' \in [Flows -> BOOLEAN]  BY <1>12 DEF RstClose, CloseWindow, FieldTypes
    <2>3. socket' \in [Flows -> {"none", "open", "closed"}]  BY <1>12 DEF RstClose, FieldTypes
    <2>4. QED  BY <1>12, <2>1, <2>2, <2>3 DEF RstClose, FieldTypes, app
<1>13. CASE UpdateWindow
    <2>1. ThreadTypes'
        BY <1>2, <1>4, <1>13, SignalledKeeps DEF UpdateWindow, ThreadTypes
    <2>2. tun.flow \in Flows /\ said[tun.flow] \in Nat  BY <1>3, <1>13 DEF UpdateWindow, FieldTypes
    <2>3. Seq(said[tun.flow]) \in 0..Modulus - 1  BY <2>2, SeqIsWord
    <2>4. acked' \in [Flows -> 0..Modulus - 1]  BY <1>13, <2>2, <2>3 DEF UpdateWindow, FieldTypes
    <2>5. window' \in [Flows -> Windows \union {0, SynWindow}]
        <3>1. edge[tun.flow] - said[tun.flow] \in Windows
            BY <1>13, <2>2 DEF UpdateWindow, Accounting, Pending
        <3>2. QED  BY <1>13, <3>1 DEF UpdateWindow, FieldTypes
    <2>6. QED  BY <1>13, <2>1, <2>4, <2>5 DEF UpdateWindow, FieldTypes, app
<1>14. QED  BY <1>6, <1>7, <1>8, <1>9, <1>10, <1>11, <1>12, <1>13 DEF Accept

\* And so do those of the readers.
LEMMA TypesReader ==
    ASSUME FieldTypes, ThreadTypes, FlowShape, NEW r \in Flows,
           Read(r) \/ OnClosed(r) \/ OnFailure(r) \/ Callback(r)
    PROVE  FieldTypes' /\ ThreadTypes'
<1>1. /\ MaxFlows \in Nat \ {0} /\ NoFlow = 0 /\ Free = 0 /\ Flows = 1..MaxFlows
      /\ Modulus \in Nat \ {0}
    BY Constants, FlowNumbers
<1>2. /\ born \in 0..MaxFlows /\ mapped \in 0..born /\ tun \in TunState
      /\ reader \in [Flows -> ReaderState] /\ closer \in CloserState
    BY DEF ThreadTypes
<1>3. reader[r].at \in OnFlow => reader[r].flow \in Flows
    <2>1. reader[r].flow \in 0..MaxFlows  BY <1>2 DEF ReaderState
    <2>2. reader[r].at \in OnFlow => reader[r].flow # 0  BY <1>1 DEF FlowShape
    <2>3. QED  BY <1>1, <2>1, <2>2
<1>4. reader[r].size \in Nat  BY <1>2 DEF ReaderState
<1>5. reader' \in [Flows -> ReaderState]  BY ReaderGoes DEF Callback, Goes
<1>6. ThreadTypes'
    <2>1. UNCHANGED <<born, tun, closer>> /\ mapped' \in {mapped, 0}
        BY <1>1 DEF Read, OnClosed, OnFailure, Callback, OnData, Emit, Fin, Count, Reset,
                    Interrupted
    <2>2. mapped' \in 0..born'  BY <1>1, <1>2, <2>1
    <2>3. QED  BY <1>2, <1>5, <2>1, <2>2 DEF ThreadTypes
<1>7. CASE Read(r)
    <2>1. PICK size \in 1..left[r] : left' = [left EXCEPT ![r] = @ - size]  BY <1>7 DEF Read
    <2>2. left[r] \in Nat /\ MaxBytes[r] \in Nat  BY Constants DEF FieldTypes
    <2>3. left[r] - size \in Nat /\ (left[r] <= MaxBytes[r] => left[r] - size <= MaxBytes[r])
        BY <2>2
    <2>4. left' \in [Flows -> Nat] /\ \A f \in Flows : left'[f] <= MaxBytes[f]
        BY <2>1, <2>3 DEF FieldTypes
    <2>5. QED  BY <1>6, <1>7, <2>4 DEF Read, FieldTypes, window_, app
<1>8. CASE OnClosed(r)
    <2>1. socket' \in [Flows -> {"none", "open", "closed"}]
        BY <1>8 DEF OnClosed, Exit, FieldTypes
    <2>2. QED  BY <1>6, <1>8, <2>1 DEF OnClosed, FieldTypes, window_, app
<1>9. CASE OnFailure(r)
    <2>1. socket' \in [Flows -> {"none", "open", "closed"}]
        BY <1>9 DEF OnFailure, Exit, FieldTypes
    <2>2. QED  BY <1>6, <1>9, <2>1 DEF OnFailure, FieldTypes, window_, app
<1>10. CASE OnData(r)  BY <1>6, <1>10, FieldsStay DEF OnData
<1>11. CASE Interrupted(r)  BY <1>6, <1>11, FieldsStay DEF Interrupted
<1>12. ASSUME NEW f \in Flows, NEW at, f = reader[r].flow, Send(r, f, at)
       PROVE  received' \in [Flows -> Nat] /\ lock' \in [Flows -> 0..MaxFlows]
    <2>1. received[f] + reader[r].size \in Nat  BY <1>4 DEF FieldTypes
    <2>2. r \in 0..MaxFlows  BY <1>1
    <2>3. QED  BY <1>12, <2>1, <2>2 DEF Send, FieldTypes
<1>13. CASE Emit(r)
    <2>1. reader[r].flow \in Flows  BY <1>3, <1>13 DEF Emit, OnFlow
    <2>2. received' \in [Flows -> Nat] /\ lock' \in [Flows -> 0..MaxFlows]
        BY <1>12, <1>13, <2>1 DEF Emit, FieldTypes
    <2>3. QED  BY <1>6, <1>13, <2>2 DEF Emit, FieldTypes, window_, app
<1>14. CASE Fin(r)
    <2>1. reader[r].flow \in Flows  BY <1>3, <1>14 DEF Fin, OnFlow
    <2>2. received' \in [Flows -> Nat] /\ lock' \in [Flows -> 0..MaxFlows]
        BY <1>12, <1>14, <2>1 DEF Fin, FieldTypes
    <2>3. finSent' \in [Flows -> BOOLEAN]  BY <1>14 DEF Fin, FieldTypes
    <2>4. socket' \in [Flows -> {"none", "open", "closed"}]  BY <1>14 DEF Fin, Exit, FieldTypes
    <2>5. QED  BY <1>6, <1>14, <2>2, <2>3, <2>4 DEF Fin, FieldTypes, app
<1>15. CASE Count(r)
    <2>1. reader[r].flow \in Flows  BY <1>3, <1>15 DEF Count, OnFlow
    <2>2. server[reader[r].flow] + reader[r].size \in Int
        <3>1. server[reader[r].flow] \in 0..Modulus - 1  BY <2>1 DEF FieldTypes
        <3>2. QED  BY <1>1, <1>4, <3>1
    <2>3. (server[reader[r].flow] + reader[r].size) % Modulus \in 0..Modulus - 1
        BY <2>2, Division
    <2>4. server' \in [Flows -> 0..Modulus - 1]  BY <1>15, <2>3 DEF Count, FieldTypes
    <2>5. lock' \in [Flows -> 0..MaxFlows]
        <3>1. Free \in 0..MaxFlows  BY <1>1
        <3>2. QED  BY <1>15, <3>1 DEF Count, FieldTypes
    <2>6. socket' \in [Flows -> {"none", "open", "closed"}]  BY <1>15 DEF Count, Exit, FieldTypes
    <2>7. QED  BY <1>6, <1>15, <2>4, <2>5, <2>6 DEF Count, FieldTypes, app
<1>16. CASE Reset(r)
    <2>1. reader[r].flow \in Flows  BY <1>3, <1>16 DEF Reset, OnFlow
    <2>2. resets[reader[r].flow] + 1 \in Nat  BY <2>1 DEF FieldTypes
    <2>3. resets' \in [Flows -> Nat]  BY <1>16, <2>2 DEF Reset, FieldTypes
    <2>4. closed' \in [Flows -> BOOLEAN]  BY <1>16 DEF Reset, FieldTypes
    <2>5. socket' \in [Flows -> {"none", "open", "closed"}]
        BY <1>16 DEF Reset, CloseSocket, FieldTypes
    <2>6. QED  BY <1>6, <1>16, <2>3, <2>4, <2>5 DEF Reset, FieldTypes, app
<1>17. QED
    BY <1>7, <1>8, <1>9, <1>10, <1>11, <1>13, <1>14, <1>15, <1>16 DEF Callback

\* And those of whoever closes the forwarder.
LEMMA TypesClose ==
    ASSUME FieldTypes, ThreadTypes, FlowShape, CloseBegins \/ Close
    PROVE  FieldTypes' /\ ThreadTypes'
<1>1. MaxFlows \in Nat \ {0} /\ NoFlow = 0 /\ Free = 0 /\ Flows = 1..MaxFlows
    BY FlowNumbers
<1>2. /\ born \in 0..MaxFlows /\ mapped \in 0..born /\ tun \in TunState
      /\ reader \in [Flows -> ReaderState] /\ closer \in CloserState
    BY DEF ThreadTypes
<1>3. CASE CloseBegins
    <2>1. mapped \in 0..MaxFlows /\ 0 \in 0..MaxFlows  BY <1>1, <1>2
    <2>2. closer' \in CloserState
        <3>1. \E f \in {mapped, 0} :
                 closer' = [at |-> IF f = 0 THEN "clear" ELSE "flow", flow |-> f]
            BY <1>1, <1>3 DEF CloseBegins
        <3>2. QED  BY <2>1, <3>1 DEF CloserState
    <2>3. ThreadTypes'  BY <1>2, <1>3, <2>2 DEF CloseBegins, ThreadTypes
    <2>4. QED  BY <1>3, <2>3, FieldsStay DEF CloseBegins
<1>4. CASE CloseFlow
    <2>1. 0 \in 0..MaxFlows  BY <1>1
    <2>2. closer' \in CloserState  BY <1>1, <1>4, <2>1 DEF CloseFlow, CloserState
    <2>3. ThreadTypes'
        BY <1>2, <1>4, <2>2, SignalledKeeps DEF CloseFlow, CloseWindow, ThreadTypes
    <2>4. closed' \in [Flows -> BOOLEAN]  BY <1>4 DEF CloseFlow, CloseWindow, FieldTypes
    <2>5. socket' \in [Flows -> {"none", "open", "closed"}]
        BY <1>4 DEF CloseFlow, CloseSocket, FieldTypes
    <2>6. QED  BY <1>4, <2>3, <2>4, <2>5 DEF CloseFlow, FieldTypes, app
<1>5. CASE Clear
    <2>1. closer' \in CloserState  BY <1>2, <1>5 DEF Clear, CloserState
    <2>2. mapped' \in 0..born'
        <3>1. mapped' = 0 /\ born' = born  BY <1>1, <1>5 DEF Clear
        <3>2. QED  BY <1>1, <1>2, <3>1
    <2>3. ThreadTypes'  BY <1>2, <1>5, <2>1, <2>2 DEF Clear, ThreadTypes
    <2>4. QED  BY <1>5, <2>3, FieldsStay DEF Clear
<1>6. QED  BY <1>3, <1>4, <1>5 DEF Close
-----------------------------------------------------------------------------
\* Who is at work on which flow, and under which lock.

\* A reader in a flow's code is no reader that was not started.
LEMMA Labels ==
    /\ "none" \notin OnFlow /\ Counting \subseteq OnFlow
    /\ "reading" \notin OnFlow /\ "onData" \notin OnFlow /\ "done" \notin OnFlow
    /\ {"await", "emit"} \subseteq OnFlow \ Counting
BY DEF OnFlow, Counting

\* What one reader may do to FlowShape.
LEMMA FlowShapeGoes ==
    ASSUME ThreadTypes, FlowShape, NEW r \in Flows, NEW at, NEW f \in 0..born, NEW size,
           Goes(r, at, f, size), UNCHANGED <<born, tun, closer>>, reader[r].at # "none",
           at \in OnFlow <=> f # NoFlow, at \in {"fin", "count fin"} => size = 1
    PROVE  FlowShape'
<1>1. ASSUME NEW q \in Flows
      PROVE  /\ reader'[q].flow <= born'
             /\ reader'[q].at \in OnFlow <=> reader'[q].flow # NoFlow
             /\ reader'[q].at \in {"fin", "count fin"} => reader'[q].size = 1
    <2>1. CASE q = r
        <3>1. f <= born  BY BornFlow
        <3>2. QED  BY <2>1, <3>1 DEF Goes
    <2>2. CASE q # r
        <3>1. /\ reader[q].flow <= born
              /\ reader[q].at \in OnFlow <=> reader[q].flow # NoFlow
              /\ reader[q].at \in {"fin", "count fin"} => reader[q].size = 1
            BY DEF FlowShape
        <3>2. /\ reader'[q].flow = reader[q].flow /\ reader'[q].size = reader[q].size
              /\ \/ reader'[q].at = reader[q].at
                 \/ reader[q].at = "await" /\ reader'[q].at = "emit"
            BY <2>2 DEF Goes, OthersStay
        <3>3. QED  BY <3>1, <3>2, Labels
    <2>3. QED  BY <2>1, <2>2
<1>2. tun.at = "connect" => reader'[tun.flow].at = "none"
    <2>1. SUFFICES ASSUME tun.at = "connect" PROVE reader'[tun.flow].at = "none"  OBVIOUS
    <2>2. tun.flow \in 0..MaxFlows  BY DEF ThreadTypes, TunState
    <2>3. tun.flow # NoFlow /\ reader[tun.flow].at = "none"  BY <2>1 DEF FlowShape
    <2>4. tun.flow \in Flows  BY <2>2, <2>3, FlowOf
    <2>5. QED  BY <2>3, <2>4 DEF Goes, OthersStay
<1>3. QED  BY <1>1, <1>2 DEF FlowShape

\* What signalling does to it.
LEMMA FlowShapeSignalled ==
    ASSUME ThreadTypes, FlowShape, NEW f, reader' = Signalled(f), born' = born,
           tun'.flow <= born, tun'.at # "idle" => tun'.flow # NoFlow, tun'.at # "connect",
           closer'.flow <= born, closer'.at = "flow" => closer'.flow # NoFlow
    PROVE  FlowShape'
<1>1. ASSUME NEW q \in Flows
      PROVE  /\ reader'[q].flow <= born'
             /\ reader'[q].at \in OnFlow <=> reader'[q].flow # NoFlow
             /\ reader'[q].at \in {"fin", "count fin"} => reader'[q].size = 1
    <2>1. /\ reader[q].flow <= born
          /\ reader[q].at \in OnFlow <=> reader[q].flow # NoFlow
          /\ reader[q].at \in {"fin", "count fin"} => reader[q].size = 1
        BY DEF FlowShape
    <2>2. /\ reader'[q].flow = reader[q].flow /\ reader'[q].size = reader[q].size
          /\ \/ reader'[q].at = reader[q].at
             \/ reader[q].at = "await" /\ reader'[q].at = "emit"
        BY SignalledKeeps
    <2>3. QED  BY <2>1, <2>2, Labels
<1>2. QED  BY <1>1 DEF FlowShape

\* Nobody takes or releases a lock.
LEMMA LockStill ==
    ASSUME FieldTypes, LockShape, lock' = lock,
           \A q \in Flows :
               /\ reader'[q].at \in Counting <=> reader[q].at \in Counting
               /\ reader[q].at \in Counting => reader'[q].flow = reader[q].flow
    PROVE  LockShape'
<1>1. \A f \in Flows : lock[f] # Free => lock[f] \in Flows
    <2>1. \A f \in Flows : lock[f] \in 0..MaxFlows  BY DEF FieldTypes
    <2>2. QED  BY <2>1, FlowNumbers
<1>2. QED  BY <1>1 DEF LockShape

\* A reader comes or goes without a lock.
LEMMA LockGoes ==
    ASSUME FieldTypes, LockShape, NEW r \in Flows, NEW at, NEW f, NEW size,
           Goes(r, at, f, size), lock' = lock, reader[r].at \notin Counting, at \notin Counting
    PROVE  LockShape'
BY LockStill, Labels DEF Goes, OthersStay

\* Whoever is signalled neither holds a lock nor takes one.
LEMMA LockSignalled ==
    ASSUME FieldTypes, ThreadTypes, LockShape, NEW f, reader' = Signalled(f), lock' = lock
    PROVE  LockShape'
BY LockStill, SignalledKeeps, Labels

\* A reader takes the lock of its flow, which was free.
LEMMA LockTaken ==
    ASSUME FieldTypes, ThreadTypes, LockShape, NEW r \in Flows, NEW at \in Counting,
           NEW f \in Flows, NEW size, Goes(r, at, f, size), reader[r].at \notin Counting,
           lock[f] = Free, lock' = [lock EXCEPT ![f] = r]
    PROVE  LockShape'
<1>1. Free \notin Flows  BY FlowNumbers
<1>2. lock'[f] = r /\ \A g \in Flows \ {f} : lock'[g] = lock[g]  BY DEF FieldTypes
<1>3. ASSUME NEW q \in Flows, reader'[q].at \in Counting
      PROVE  lock'[reader'[q].flow] = q
    <2>1. CASE q = r  BY <1>2, <2>1 DEF Goes
    <2>2. CASE q # r
        <3>1. reader[q].at \in Counting /\ reader'[q].flow = reader[q].flow
            BY <1>3, <2>2, Labels DEF Goes, OthersStay
        <3>2. lock[reader[q].flow] = q  BY <3>1 DEF LockShape
        <3>3. reader[q].flow # f  BY <1>1, <3>2
        <3>4. lock'[reader[q].flow] = lock[reader[q].flow]  BY <3>3 DEF FieldTypes
        <3>5. QED  BY <3>1, <3>2, <3>4
    <2>3. QED  BY <2>1, <2>2
<1>4. ASSUME NEW g \in Flows, lock'[g] # Free
      PROVE  reader'[lock'[g]].at \in Counting /\ reader'[lock'[g]].flow = g
    <2>1. CASE g = f  BY <1>2, <2>1 DEF Goes
    <2>2. CASE g # f
        <3>1. lock'[g] = lock[g] /\ reader[lock[g]].at \in Counting /\ reader[lock[g]].flow = g
            BY <1>2, <1>4, <2>2 DEF LockShape
        <3>2. lock[g] \in 0..MaxFlows  BY DEF FieldTypes
        <3>3. lock[g] \in Flows \ {r}  BY <1>4, <3>1, <3>2, FlowNumbers
        <3>4. QED  BY <3>1, <3>3, Labels DEF Goes, OthersStay
    <2>3. QED  BY <2>1, <2>2
<1>5. QED  BY <1>3, <1>4 DEF LockShape

\* It releases the lock.
LEMMA LockReleased ==
    ASSUME FieldTypes, ThreadTypes, LockShape, NEW r \in Flows, NEW at, NEW f, NEW size,
           Goes(r, at, f, size), reader[r].at \in Counting, at \notin Counting,
           lock' = [lock EXCEPT ![reader[r].flow] = Free]
    PROVE  LockShape'
<1>1. lock[reader[r].flow] = r  BY DEF LockShape
<1>2. ASSUME NEW q \in Flows, reader'[q].at \in Counting
      PROVE  lock'[reader'[q].flow] = q
    <2>1. q # r  BY <1>2 DEF Goes
    <2>2. reader[q].at \in Counting /\ reader'[q].flow = reader[q].flow
        BY <1>2, <2>1, Labels DEF Goes, OthersStay
    <2>3. lock[reader[q].flow] = q  BY <2>2 DEF LockShape
    <2>4. reader[q].flow # reader[r].flow  BY <1>1, <2>1, <2>3
    <2>5. QED  BY <2>2, <2>3, <2>4 DEF FieldTypes
<1>3. ASSUME NEW g \in Flows, lock'[g] # Free
      PROVE  reader'[lock'[g]].at \in Counting /\ reader'[lock'[g]].flow = g
    <2>1. g # reader[r].flow /\ lock'[g] = lock[g]  BY <1>3 DEF FieldTypes
    <2>2. reader[lock[g]].at \in Counting /\ reader[lock[g]].flow = g
        BY <1>3, <2>1 DEF LockShape
    <2>3. lock[g] \in 0..MaxFlows  BY DEF FieldTypes
    <2>4. lock[g] \in Flows \ {r}  BY <1>3, <2>1, <2>2, <2>3, FlowNumbers
    <2>5. QED  BY <2>1, <2>2, <2>4, Labels DEF Goes, OthersStay
<1>4. QED  BY <1>2, <1>3 DEF LockShape

\* The reader of a flow's socket starts.
LEMMA ConnectStarts ==
    ASSUME ThreadTypes, FlowShape, Connect
    PROVE  /\ tun.flow \in Flows /\ tun.flow <= born
           /\ reader[tun.flow].at = "none" /\ reader[tun.flow].flow = NoFlow
           /\ Goes(tun.flow, "reading", NoFlow, reader[tun.flow].size)
<1>1. tun.flow \in 0..MaxFlows /\ tun.at = "connect"  BY DEF ThreadTypes, TunState, Connect
<1>2. tun.flow # NoFlow /\ tun.flow <= born /\ reader[tun.flow].at = "none"
    BY <1>1 DEF FlowShape
<1>3. tun.flow \in Flows  BY <1>1, <1>2, FlowOf
<1>4. reader[tun.flow].flow = NoFlow  BY <1>2, <1>3, Labels DEF FlowShape
<1>5. Turn(tun.flow, "reading")  BY DEF Connect, Turn
<1>6. Goes(tun.flow, "reading", NoFlow, reader[tun.flow].size)
    BY <1>3, <1>4, <1>5, TurnGoes
<1>7. QED  BY <1>2, <1>3, <1>4, <1>6

\* The steps on the TUN thread keep the flows and the locks in shape.
LEMMA ShapeAccept ==
    ASSUME FieldTypes, ThreadTypes, FlowShape, LockShape, Fresh,
           Syn \/ Rst \/ AnyPacket \/ Accept
    PROVE  FlowShape' /\ LockShape'
<1>1. NoFlow = 0 /\ MaxFlows \in Nat \ {0}  BY FlowNumbers
<1>2. born \in 0..MaxFlows /\ mapped \in 0..born  BY DEF ThreadTypes
<1>3. 0 <= born /\ mapped <= born  BY <1>1, <1>2
<1>4. tun \in TunState /\ tun.flow <= born  BY DEF ThreadTypes, FlowShape
<1>5. Done => tun'.at = "idle" /\ tun'.flow = 0  BY <1>1, <1>4 DEF Done, TunState
<1>6. CASE Syn
    <2>1. /\ tun' = [at |-> "connect", flow |-> born + 1, last |-> closer.at # "open"]
          /\ born' = born + 1 /\ born < MaxFlows /\ UNCHANGED <<reader, closer, lock>>
        BY <1>6 DEF Syn, Take
    <2>2. born + 1 \in Flows /\ born + 1 > born /\ born + 1 # 0
        BY <1>1, <1>2, <2>1, FlowNumbers
    <2>3. reader[born + 1].at = "none"  BY <2>2 DEF Fresh
    <2>4. \A x \in 0..MaxFlows : x <= born => x <= born'  BY <1>1, <1>2, <2>1
    <2>5. closer.flow <= born'
        BY <2>4 DEF ThreadTypes, CloserState, FlowShape
    <2>6. \A r \in Flows : reader[r].flow <= born'
        BY <2>4 DEF ThreadTypes, ReaderState, FlowShape
    <2>7. FlowShape'
        <3>1. tun'.flow <= born' /\ tun'.at = "connect" /\ tun'.flow = born + 1
            BY <1>1, <1>2, <2>1
        <3>2. QED  BY <1>1, <2>1, <2>2, <2>3, <2>5, <2>6, <3>1 DEF FlowShape
    <2>8. QED  BY <2>1, <2>7 DEF LockShape
<1>7. CASE Rst \/ AnyPacket
    <2>1. /\ tun'.at \in {"rst", "ack"} /\ tun'.flow = mapped /\ mapped # NoFlow
          /\ UNCHANGED <<born, reader, closer, lock>>
        BY <1>7 DEF Rst, AnyPacket, Packet, Take
    <2>2. FlowShape'  BY <1>3, <2>1 DEF FlowShape
    <2>3. QED  BY <2>1, <2>2 DEF LockShape
<1>8. CASE Connect
    <2>1. DEFINE r == tun.flow
    <2>2. /\ r \in Flows /\ r <= born /\ reader[r].at = "none" /\ reader[r].flow = NoFlow
          /\ Goes(r, "reading", NoFlow, reader[r].size)
        BY <1>8, ConnectStarts
    <2>3. Done /\ UNCHANGED <<born, closer, lock>>  BY <1>8 DEF Connect
    <2>4. LockShape'
        BY <2>2, <2>3, LockGoes, Labels DEF Counting
    <2>5. ASSUME NEW q \in Flows
          PROVE  /\ reader'[q].flow <= born
                 /\ reader'[q].at \in OnFlow <=> reader'[q].flow # NoFlow
                 /\ reader'[q].at \in {"fin", "count fin"} => reader'[q].size = 1
        <3>1. /\ reader[q].flow <= born
              /\ reader[q].at \in OnFlow <=> reader[q].flow # NoFlow
              /\ reader[q].at \in {"fin", "count fin"} => reader[q].size = 1
            BY DEF FlowShape
        <3>2. CASE q = r  BY <1>1, <1>3, <2>2, <3>2, Labels DEF Goes
        <3>3. CASE q # r
            <4>1. /\ reader'[q].flow = reader[q].flow /\ reader'[q].size = reader[q].size
                  /\ \/ reader'[q].at = reader[q].at
                     \/ reader[q].at = "await" /\ reader'[q].at = "emit"
                BY <2>2, <3>3 DEF Goes, OthersStay
            <4>2. QED  BY <3>1, <4>1, Labels
        <3>4. QED  BY <3>2, <3>3
    <2>6. FlowShape'  BY <1>1, <1>3, <1>5, <2>3, <2>5 DEF FlowShape
    <2>7. QED  BY <2>4, <2>6
<1>9. CASE ConnectThrows
    <2>1. Done /\ UNCHANGED <<born, reader, closer, lock>>  BY <1>9 DEF ConnectThrows
    <2>2. FlowShape'  BY <1>1, <1>3, <1>5, <2>1 DEF FlowShape
    <2>3. QED  BY <2>1, <2>2 DEF LockShape
<1>10. CASE RstRemove
    <2>1. /\ tun'.at = "rst close" /\ tun'.flow = tun.flow /\ tun.at = "rst"
          /\ UNCHANGED <<born, reader, closer, lock>>
        BY <1>4, <1>10 DEF RstRemove, TunState
    <2>2. FlowShape'  BY <2>1 DEF FlowShape
    <2>3. QED  BY <2>1, <2>2 DEF LockShape
<1>11. CASE RstClose \/ UpdateWindow
    <2>1. Done /\ reader' = Signalled(tun.flow) /\ UNCHANGED <<born, closer, lock>>
        BY <1>11 DEF RstClose, CloseWindow, UpdateWindow
    <2>2. tun'.at = "idle" /\ tun'.flow <= born  BY <1>3, <1>5, <2>1
    <2>3. closer'.flow <= born /\ (closer'.at = "flow" => closer'.flow # NoFlow)
        BY <2>1 DEF FlowShape
    <2>4. FlowShape'  BY <2>1, <2>2, <2>3, FlowShapeSignalled
    <2>5. QED  BY <2>1, <2>4, LockSignalled
<1>12. QED  BY <1>6, <1>7, <1>8, <1>9, <1>10, <1>11 DEF Accept

\* So do those of the readers.
LEMMA ShapeReader ==
    ASSUME FieldTypes, ThreadTypes, FlowShape, LockShape, NEW r \in Flows,
           Read(r) \/ OnClosed(r) \/ OnFailure(r) \/ Callback(r)
    PROVE  FlowShape' /\ LockShape'
<1>1. NoFlow = 0 /\ MaxFlows \in Nat \ {0}  BY FlowNumbers
<1>2. UNCHANGED <<born, tun, closer>> /\ reader[r].at # "none"
    BY DEF Read, OnClosed, OnFailure, Callback, OnData, Emit, Fin, Count, Reset, Interrupted
<1>3. 0 \in 0..born /\ mapped \in 0..born  BY <1>1 DEF ThreadTypes
<1>4. reader[r].flow \in 0..born
    <2>1. reader[r].flow \in 0..MaxFlows /\ reader[r].flow <= born
        BY DEF ThreadTypes, ReaderState, FlowShape
    <2>2. QED  BY <1>1, <2>1 DEF ThreadTypes
<1>5. reader[r].at \in OnFlow <=> reader[r].flow # NoFlow  BY DEF FlowShape
<1>6. CASE Read(r) \/ OnClosed(r) \/ OnFailure(r) \/ OnData(r) \/ Interrupted(r) \/ Reset(r)
    <2>1. reader[r].at \notin Counting /\ lock' = lock
        BY <1>6 DEF Read, OnClosed, OnFailure, OnData, Interrupted, Reset, Counting
    <2>2. PICK at \in {"onData", "done", "fin", "reset", "reading", "emit"},
               f \in {NoFlow, mapped}, size \in Nat :
             /\ Goes(r, at, f, size)
             /\ at \in {"onData", "done", "reading"} <=> f = NoFlow
             /\ at = "fin" => size = 1
        <3>1. reader[r].size \in Nat /\ left[r] \in Nat
            BY DEF ThreadTypes, ReaderState, FieldTypes
        <3>2. \A size \in 1..left[r] : size \in Nat  BY <3>1
        <3>3. QED  BY <1>6, <3>1, <3>2, ReaderGoes
    <2>3. at \notin Counting /\ (at \in OnFlow <=> f # NoFlow)
        BY <2>2 DEF Counting, OnFlow
    <2>4. at \in {"fin", "count fin"} => size = 1  BY <2>2
    <2>5. LockShape'  BY <2>1, <2>2, <2>3, LockGoes
    <2>6. FlowShape'
        <3>1. f \in 0..born  BY <1>1, <1>3
        <3>2. QED  BY <1>2, <2>2, <2>3, <2>4, <3>1, FlowShapeGoes
    <2>7. QED  BY <2>5, <2>6
<1>7. CASE Emit(r) \/ Fin(r)
    <2>1. reader[r].at \in {"emit", "fin"} /\ reader[r].at \in OnFlow
        BY <1>7 DEF Emit, Fin, OnFlow
    <2>2. reader[r].flow # NoFlow /\ reader[r].at \notin Counting /\ lock[reader[r].flow] = Free
        BY <1>5, <1>7, <2>1 DEF Counting, Emit, Fin
    <2>3. reader[r].flow \in Flows  BY <1>4, <2>2, BornFlow, FlowOf
    <2>4. reader[r].at = "fin" => reader[r].size = 1  BY DEF FlowShape
    <2>5. PICK at \in {"await", "reading", "done", "count data", "count fin"},
               f \in {NoFlow, reader[r].flow}, size \in Nat :
             /\ Goes(r, at, f, size)
             /\ at \in {"reading", "done"} <=> f = NoFlow
             /\ at = "count fin" => size = 1
             /\ lock' = IF at \in {"count data", "count fin"}
                        THEN [lock EXCEPT ![reader[r].flow] = r] ELSE lock
        <3>1. reader[r].size \in Nat  BY DEF ThreadTypes, ReaderState
        <3>2. Fin(r) => reader[r].size = 1  BY <2>4 DEF Fin
        <3>3. QED  BY <1>7, <2>2, <3>1, <3>2, ReaderGoes
    <2>6. f \in 0..born /\ (at \in OnFlow <=> f # NoFlow)
          /\ (at \in {"fin", "count fin"} => size = 1)
        BY <1>1, <1>3, <1>4, <2>5 DEF OnFlow
    <2>7. FlowShape'  BY <1>2, <2>5, <2>6, FlowShapeGoes
    <2>8. CASE at \in Counting
        <3>1. f = reader[r].flow /\ lock' = [lock EXCEPT ![f] = r]
            BY <2>5, <2>8 DEF Counting
        <3>2. QED  BY <2>2, <2>3, <2>5, <2>7, <2>8, <3>1, LockTaken
    <2>9. CASE at \notin Counting
        <3>1. lock' = lock  BY <2>5, <2>9 DEF Counting
        <3>2. QED  BY <2>2, <2>5, <2>7, <2>9, <3>1, LockGoes
    <2>10. QED  BY <2>8, <2>9
<1>8. CASE Count(r)
    <2>1. reader[r].at \in Counting /\ lock' = [lock EXCEPT ![reader[r].flow] = Free]
        BY <1>8 DEF Count, Counting
    <2>2. PICK at \in {"reading", "done"} : Goes(r, at, NoFlow, 0)  BY <1>8, ReaderGoes
    <2>3. at \notin OnFlow /\ at \notin Counting  BY <2>2, Labels
    <2>4. LockShape'  BY <2>1, <2>2, <2>3, LockReleased
    <2>5. FlowShape'
        <3>1. at \notin {"fin", "count fin"}  BY <2>2
        <3>2. NoFlow \in 0..born  BY <1>1, <1>3
        <3>3. QED  BY <1>2, <2>2, <2>3, <3>1, <3>2, FlowShapeGoes
    <2>6. QED  BY <2>4, <2>5
<1>9. QED  BY <1>6, <1>7, <1>8 DEF Callback

\* And those of whoever closes the forwarder.
LEMMA ShapeClose ==
    ASSUME FieldTypes, ThreadTypes, FlowShape, LockShape, CloseBegins \/ Close
    PROVE  FlowShape' /\ LockShape'
<1>1. NoFlow = 0 /\ MaxFlows \in Nat \ {0}  BY FlowNumbers
<1>2. 0 <= born /\ mapped <= born  BY <1>1 DEF ThreadTypes
<1>3. UNCHANGED <<born, tun, lock>>
    BY DEF CloseBegins, Close, CloseFlow, Clear
<1>4. closer \in CloserState  BY DEF ThreadTypes
<1>5. closer'.flow <= born /\ (closer'.at = "flow" => closer'.flow # NoFlow)
    <2>1. CASE CloseBegins
        <3>1. \E f \in {mapped, NoFlow} :
                 closer' = [at |-> IF f = NoFlow THEN "clear" ELSE "flow", flow |-> f]
            BY <2>1 DEF CloseBegins
        <3>2. QED  BY <1>1, <1>2, <3>1
    <2>2. CASE CloseFlow  BY <1>1, <1>2, <2>2 DEF CloseFlow
    <2>3. CASE Clear  BY <1>4, <2>3 DEF Clear, CloserState, FlowShape
    <2>4. QED  BY <2>1, <2>2, <2>3 DEF Close
<1>6. CASE CloseFlow
    <2>1. reader' = Signalled(closer.flow)  BY <1>6 DEF CloseFlow, CloseWindow
    <2>2. QED
        <3>1. CASE tun.at = "connect"
            <4>1. ASSUME NEW q \in Flows
                  PROVE  /\ reader'[q].flow <= born'
                         /\ reader'[q].at \in OnFlow <=> reader'[q].flow # NoFlow
                         /\ reader'[q].at \in {"fin", "count fin"} => reader'[q].size = 1
                         /\ reader[q].at = "none" => reader'[q].at = "none"
                <5>1. /\ reader[q].flow <= born
                      /\ reader[q].at \in OnFlow <=> reader[q].flow # NoFlow
                      /\ reader[q].at \in {"fin", "count fin"} => reader[q].size = 1
                    BY DEF FlowShape
                <5>2. /\ reader'[q].flow = reader[q].flow /\ reader'[q].size = reader[q].size
                      /\ \/ reader'[q].at = reader[q].at
                         \/ reader[q].at = "await" /\ reader'[q].at = "emit"
                    BY <2>1, SignalledKeeps
                <5>3. QED  BY <1>3, <5>1, <5>2, Labels
            <4>2. tun.flow \in Flows /\ reader[tun.flow].at = "none"
                BY <3>1, FlowOf DEF FlowShape, ThreadTypes, TunState
            <4>3. FlowShape'  BY <1>3, <1>5, <4>1, <4>2 DEF FlowShape
            <4>4. QED  BY <1>3, <2>1, <4>3, LockSignalled
        <3>2. CASE tun.at # "connect"
            <4>1. tun'.flow <= born /\ (tun'.at # "idle" => tun'.flow # NoFlow)
                BY <1>3 DEF FlowShape
            <4>2. FlowShape'  BY <1>3, <1>5, <2>1, <3>2, <4>1, FlowShapeSignalled
            <4>3. QED  BY <1>3, <2>1, <4>2, LockSignalled
        <3>3. QED  BY <3>1, <3>2
<1>7. CASE CloseBegins \/ Clear
    <2>1. reader' = reader  BY <1>7 DEF CloseBegins, Clear
    <2>2. FlowShape'  BY <1>3, <1>5, <2>1 DEF FlowShape
    <2>3. QED  BY <1>3, <2>1, <2>2 DEF LockShape
<1>8. QED  BY <1>6, <1>7 DEF Close
-----------------------------------------------------------------------------
\* Flows that were not made yet.

\* No step touches a flow before a SYN has made it.
LEMMA FreshKeeps ==
    ASSUME FieldTypes, ThreadTypes, FlowShape, Fresh, Next
    PROVE  Fresh'
<1>1. NoFlow = 0 /\ MaxFlows \in Nat \ {0} /\ Flows = 1..MaxFlows  BY FlowNumbers
<1>2. born \in 0..MaxFlows /\ mapped \in 0..born /\ tun.flow <= born
    BY DEF ThreadTypes, FlowShape
<1>3. SUFFICES ASSUME NEW f \in Flows, f > born'
               PROVE  /\ server'[f] = Start /\ acked'[f] = Start /\ window'[f] = 0
                      /\ received'[f] = 0 /\ said'[f] = 0 /\ edge'[f] = 0 /\ resets'[f] = 0
                      /\ reader'[f].at = "none"
    BY DEF Fresh
<1>4. CASE Syn
    <2>1. f > born /\ f # born + 1
        <3>1. born' = born + 1  BY <1>4 DEF Syn
        <3>2. QED  BY <1>1, <1>2, <1>3, <3>1
    <2>2. /\ window' = [window EXCEPT ![born + 1] = SynWindow]
          /\ edge' = [edge EXCEPT ![born + 1] = SynWindow]
          /\ UNCHANGED <<server, acked, received, said, resets, reader>>
        BY <1>4 DEF Syn
    <2>3. window'[f] = window[f] /\ edge'[f] = edge[f]  BY <2>1, <2>2 DEF FieldTypes
    <2>4. QED  BY <2>1, <2>2, <2>3 DEF Fresh
<1>5. ASSUME born' = born
      PROVE  /\ server[f] = Start /\ acked[f] = Start /\ window[f] = 0
             /\ received[f] = 0 /\ said[f] = 0 /\ edge[f] = 0 /\ resets[f] = 0
             /\ reader[f].at = "none" /\ f # mapped /\ f # tun.flow
             /\ \A r \in Flows : reader[r].at # "none" => f # r
             /\ \A r \in Flows : f # reader[r].flow
    <2>1. f > born  BY <1>3, <1>5
    <2>2. \A r \in Flows : f # reader[r].flow
        <3>1. \A r \in Flows : reader[r].flow <= born /\ reader[r].flow \in 0..MaxFlows
            BY DEF FlowShape, ThreadTypes, ReaderState
        <3>2. QED  BY <1>1, <1>2, <2>1, <3>1
    <2>3. f # mapped /\ f # tun.flow
        <3>1. mapped \in 0..born /\ tun.flow \in 0..MaxFlows  BY DEF ThreadTypes, TunState
        <3>2. QED  BY <1>1, <1>2, <2>1, <3>1
    <2>4. QED  BY <2>1, <2>2, <2>3 DEF Fresh
<1>6. CASE Rst \/ ConnectThrows \/ RstRemove \/ CloseBegins \/ Clear
    <2>1. UNCHANGED <<born, window_, received, said, edge, resets, reader>>
        BY <1>6 DEF Rst, ConnectThrows, RstRemove, CloseBegins, Clear, app
    <2>2. QED  BY <1>5, <2>1 DEF window_
<1>7. CASE AnyPacket
    <2>1. PICK n, e : Packet(n, e)  BY <1>7 DEF AnyPacket
    <2>2. QED  BY <1>5, <2>1 DEF Packet, window_, FieldTypes
<1>8. CASE Connect
    <2>1. f # tun.flow  BY <1>5, <1>8 DEF Connect
    <2>2. reader'[f] = reader[f]  BY <1>8, <2>1 DEF Connect, ThreadTypes
    <2>3. QED  BY <1>5, <1>8, <2>2 DEF Connect, window_, app
<1>9. CASE RstClose \/ UpdateWindow \/ CloseFlow
    <2>1. \E g : reader' = Signalled(g)
        BY <1>9 DEF RstClose, UpdateWindow, CloseFlow, CloseWindow
    <2>2. born' = born  BY <1>9 DEF RstClose, UpdateWindow, CloseFlow
    <2>3. reader'[f].at = "none"  BY <1>5, <2>1, <2>2, SignalledKeeps
    <2>4. CASE UpdateWindow
        <3>1. window'[f] = window[f] /\ acked'[f] = acked[f]
            BY <1>5, <2>2, <2>4 DEF UpdateWindow, FieldTypes
        <3>2. QED  BY <1>5, <2>2, <2>3, <2>4, <3>1 DEF UpdateWindow, app
    <2>5. CASE RstClose \/ CloseFlow
        BY <1>5, <2>2, <2>3, <2>5 DEF RstClose, CloseFlow, app
    <2>6. QED  BY <1>9, <2>4, <2>5
<1>10. ASSUME NEW r \in Flows, Read(r) \/ OnClosed(r) \/ OnFailure(r) \/ Callback(r)
       PROVE  /\ server'[f] = Start /\ acked'[f] = Start /\ window'[f] = 0
              /\ received'[f] = 0 /\ said'[f] = 0 /\ edge'[f] = 0 /\ resets'[f] = 0
              /\ reader'[f].at = "none"
    <2>1. born' = born /\ reader[r].at # "none" /\ UNCHANGED <<acked, window, app>>
        BY <1>10 DEF Read, OnClosed, OnFailure, Callback, OnData, Emit, Fin, Count, Reset,
                     Interrupted, window_
    <2>2. f # r /\ f # reader[r].flow  BY <1>5, <2>1
    <2>3. OthersStay(r)  BY <1>10, ReaderGoes DEF Callback, Goes
    <2>4. reader'[f].at = "none"  BY <1>5, <2>1, <2>2, <2>3 DEF OthersStay
    <2>5. server'[f] = server[f]
        BY <1>10, <2>2 DEF Read, OnClosed, OnFailure, Callback, OnData, Emit, Fin, Count, Reset,
                           Interrupted, window_, FieldTypes
    <2>6. received'[f] = received[f]
        BY <1>10, <2>2 DEF Read, OnClosed, OnFailure, Callback, OnData, Emit, Fin, Count, Reset,
                           Interrupted, Send, FieldTypes
    <2>7. resets'[f] = resets[f]
        BY <1>10, <2>2 DEF Read, OnClosed, OnFailure, Callback, OnData, Emit, Fin, Count, Reset,
                           Interrupted, FieldTypes
    <2>8. QED  BY <1>5, <2>1, <2>4, <2>5, <2>6, <2>7 DEF app
<1>11. QED  BY <1>4, <1>6, <1>7, <1>8, <1>9, <1>10 DEF Next, Accept, Close
-----------------------------------------------------------------------------
\* Resets.

\* No reader is about to reset that was not before.
LEMMA ResetStill ==
    ASSUME FieldTypes, ResetShape, mapped' \in {mapped, NoFlow}, resets' = resets,
           \A r \in Flows : reader'[r].at = "reset" =>
               reader[r].at = "reset" /\ reader'[r].flow = reader[r].flow,
           \A r \in Flows : reader[r].at = "reset" => reader[r].flow # NoFlow
    PROVE  ResetShape'
BY DEF ResetShape, ResetOnce

\* Whoever takes a flow out of the map is the only one to reset it.
LEMMA ResetKeeps ==
    ASSUME FieldTypes, ThreadTypes, FlowShape, Fresh, ResetShape, Next
    PROVE  ResetShape'
<1>1. NoFlow = 0 /\ MaxFlows \in Nat \ {0} /\ Flows = 1..MaxFlows  BY FlowNumbers
<1>2. \A r \in Flows : reader[r].at = "reset" =>
         reader[r].flow # NoFlow /\ reader[r].flow \in Flows
    <2>1. \A r \in Flows : reader[r].at = "reset" => reader[r].flow # NoFlow
        BY DEF FlowShape, OnFlow
    <2>2. QED  BY <2>1, FlowOf DEF ThreadTypes, ReaderState
<1>3. CASE Syn
    <2>1. /\ mapped' = born + 1 /\ born + 1 \in Flows /\ born + 1 > born
          /\ UNCHANGED <<reader, resets>>
        <3>1. mapped' = born + 1 /\ born < MaxFlows /\ UNCHANGED <<reader, resets>>
            BY <1>3 DEF Syn
        <3>2. QED  BY <1>1, <3>1 DEF ThreadTypes
    <2>2. resets[born + 1] = 0  BY <2>1 DEF Fresh
    <2>3. \A r \in Flows : reader[r].flow # born + 1
        <3>1. \A r \in Flows : reader[r].flow <= born /\ reader[r].flow \in 0..MaxFlows
            BY DEF FlowShape, ThreadTypes, ReaderState
        <3>2. QED  BY <1>1, <3>1 DEF ThreadTypes
    <2>4. QED  BY <2>1, <2>2, <2>3 DEF ResetShape, ResetOnce
<1>4. CASE Rst \/ AnyPacket \/ ConnectThrows \/ RstRemove \/ CloseBegins \/ Clear
    <2>1. reader' = reader /\ resets' = resets /\ mapped' \in {mapped, NoFlow}
        BY <1>4 DEF Rst, AnyPacket, Packet, ConnectThrows, RstRemove, CloseBegins, Clear
    <2>2. QED  BY <1>2, <2>1, ResetStill
<1>5. CASE RstClose \/ UpdateWindow \/ CloseFlow
    <2>1. (\E g : reader' = Signalled(g)) /\ UNCHANGED <<mapped, resets>>
        BY <1>5 DEF RstClose, UpdateWindow, CloseFlow, CloseWindow
    <2>2. \A r \in Flows : /\ reader'[r].flow = reader[r].flow
                           /\ reader'[r].at = "reset" => reader[r].at = "reset"
        BY <2>1, SignalledKeeps
    <2>3. QED  BY <1>2, <2>1, <2>2, ResetStill
<1>6. CASE Connect
    <2>1. Goes(tun.flow, "reading", NoFlow, reader[tun.flow].size)  BY <1>6, ConnectStarts
    <2>2. \A r \in Flows : reader'[r].at = "reset" =>
             reader[r].at = "reset" /\ reader'[r].flow = reader[r].flow
        BY <2>1 DEF Goes, OthersStay
    <2>3. mapped' = mapped /\ resets' = resets  BY <1>6 DEF Connect
    <2>4. QED  BY <1>2, <2>2, <2>3, ResetStill
<1>7. ASSUME NEW r \in Flows, NEW at, NEW f, NEW size, Goes(r, at, f, size), at # "reset",
             mapped' \in {mapped, NoFlow}, resets' = resets
      PROVE  ResetShape'
    <2>1. \A q \in Flows : reader'[q].at = "reset" =>
             reader[q].at = "reset" /\ reader'[q].flow = reader[q].flow
        BY <1>7 DEF Goes, OthersStay
    <2>2. QED  BY <1>2, <1>7, <2>1, ResetStill
<1>8. ASSUME NEW r \in Flows, Read(r) \/ OnClosed(r) \/ (Callback(r) /\ ~Reset(r))
      PROVE  ResetShape'
    <2>1. mapped' = mapped /\ resets' = resets
        BY <1>8 DEF Read, OnClosed, Callback, OnData, Emit, Fin, Count, Interrupted
    <2>2. \E at \in {"onData", "done", "fin", "reading", "emit", "await", "count data",
                     "count fin"} : \E f, size : Goes(r, at, f, size)
        BY <1>8, ReaderGoes DEF Callback
    <2>3. QED  BY <1>7, <2>1, <2>2
<1>9. ASSUME NEW r \in Flows, OnFailure(r)
      PROVE  ResetShape'
    <2>1. mapped' = NoFlow /\ resets' = resets  BY <1>9 DEF OnFailure
    <2>2. CASE Goes(r, "done", NoFlow, 0)  BY <1>7, <2>1, <2>2
    <2>3. CASE mapped # NoFlow /\ Goes(r, "reset", mapped, 0)
        <3>1. \A q \in Flows \ {r} : reader'[q].at = "reset" =>
                 reader[q].at = "reset" /\ reader'[q].flow = reader[q].flow
            BY <2>3 DEF Goes, OthersStay
        <3>2. reader'[r].flow = mapped /\ reader'[r].at = "reset"  BY <2>3 DEF Goes
        <3>3. \A q \in Flows : reader'[q].at = "reset" =>
                 reader'[q].flow # NoFlow /\ resets[reader'[q].flow] = 0
            BY <1>2, <2>3, <3>1, <3>2 DEF ResetShape
        <3>4. \A q \in Flows \ {r} : reader'[q].at = "reset" => reader'[q].flow # mapped
            BY <3>1 DEF ResetShape
        <3>5. \A q, p \in Flows :
                 reader'[q].at = "reset" /\ reader'[p].at = "reset"
                 /\ reader'[q].flow = reader'[p].flow => q = p
            BY <3>1, <3>2, <3>4 DEF ResetShape
        <3>6. QED  BY <2>1, <3>3, <3>5 DEF ResetShape, ResetOnce
    <2>4. QED  BY <1>9, <2>2, <2>3, ReaderGoes
<1>10. ASSUME NEW r \in Flows, Reset(r)
       PROVE  ResetShape'
    <2>1. DEFINE f == reader[r].flow
    <2>2. /\ reader[r].at = "reset" /\ f \in Flows /\ mapped' = mapped
          /\ resets' = [resets EXCEPT ![f] = @ + 1] /\ Goes(r, "done", NoFlow, 0)
        BY <1>2, <1>10, ReaderGoes DEF Reset
    <2>3. f # mapped /\ resets[f] = 0  BY <2>2 DEF ResetShape
    <2>4. resets'[f] = 1 /\ \A g \in Flows \ {f} : resets'[g] = resets[g]
        BY <2>2, <2>3 DEF FieldTypes
    <2>5. \A q \in Flows : reader'[q].at = "reset" =>
             q # r /\ reader[q].at = "reset" /\ reader'[q].flow = reader[q].flow
        BY <2>2 DEF Goes, OthersStay
    <2>6. \A q \in Flows : reader'[q].at = "reset" => reader'[q].flow # f
        BY <2>2, <2>5 DEF ResetShape
    <2>7. \A q \in Flows : reader'[q].at = "reset" => resets'[reader'[q].flow] = 0
        BY <1>2, <2>4, <2>5, <2>6 DEF ResetShape
    <2>8. mapped' # NoFlow => resets'[mapped'] = 0
        <3>1. mapped # NoFlow => mapped \in Flows  BY BornFlow, FlowOf DEF ThreadTypes
        <3>2. QED  BY <2>2, <2>3, <2>4, <3>1 DEF ResetShape
    <2>9. \A g \in Flows : resets'[g] <= 1  BY <2>4 DEF ResetShape, ResetOnce
    <2>10. QED  BY <2>2, <2>5, <2>7, <2>8, <2>9 DEF ResetShape, ResetOnce
<1>11. QED
    BY <1>3, <1>4, <1>5, <1>6, <1>8, <1>9, <1>10 DEF Next, Accept, Close, Callback
-----------------------------------------------------------------------------
\* The accounts of a flow.

\* What is accounted for is numbers, and distances in a window are below the modulus.
LEMMA AccountTypes ==
    ASSUME FieldTypes, ThreadTypes, NEW f \in Flows
    PROVE  /\ received[f] \in Nat /\ said[f] \in Nat /\ edge[f] \in Nat /\ window[f] \in Nat
           /\ window[f] + 1 < Modulus /\ Modulus \in Nat /\ FinSpace(f) \in {0, 1}
           /\ lock[f] = Free \/ lock[f] \in Flows
           /\ \A r \in Flows : reader[r].size \in Nat
           /\ Counted(f) \in Int /\ Counted(f) <= received[f]
           /\ lock[f] = Free => Counted(f) = received[f]
<1>1. /\ received[f] \in Nat /\ said[f] \in Nat /\ edge[f] \in Nat
      /\ window[f] \in Windows \union {0, SynWindow} /\ lock[f] \in 0..MaxFlows
    BY DEF FieldTypes
<1>2. window[f] \in Nat /\ window[f] + 1 < Modulus /\ Modulus \in Nat
    <2>1. /\ \A v \in Windows \union {0, SynWindow} : v \in Nat /\ v + 1 < Modulus
          /\ Modulus \in Nat
        BY Constants
    <2>2. QED  BY <1>1, <2>1
<1>3. FinSpace(f) \in {0, 1}  BY DEF FinSpace
<1>4. lock[f] = Free \/ lock[f] \in Flows
    <2>1. lock[f] = NoFlow \/ lock[f] \in Flows  BY <1>1, FlowOf
    <2>2. QED  BY <2>1 DEF NoFlow, Free
<1>5. \A r \in Flows : reader[r].size \in Nat  BY DEF ThreadTypes, ReaderState
<1>6. /\ Counted(f) \in Int /\ Counted(f) <= received[f]
      /\ lock[f] = Free => Counted(f) = received[f]
    <2>1. CASE lock[f] = Free
        <3>1. Counted(f) = received[f] - 0  BY <2>1 DEF Counted
        <3>2. QED  BY <1>1, <2>1, <3>1
    <2>2. CASE lock[f] # Free
        <3>1. Counted(f) = received[f] - reader[lock[f]].size  BY <2>2 DEF Counted
        <3>2. reader[lock[f]].size \in Nat  BY <1>4, <1>5, <2>2
        <3>3. QED  BY <1>1, <2>2, <3>1, <3>2
    <2>3. QED  BY <2>1, <2>2
<1>7. QED  BY <1>1, <1>2, <1>3, <1>4, <1>5, <1>6

\* A step that leaves the accounts of a flow alone.
LEMMA AccountStill ==
    ASSUME NEW f \in Flows, Accounting(f),
           received'[f] = received[f], said'[f] = said[f], edge'[f] = edge[f],
           window'[f] = window[f], server'[f] = server[f], acked'[f] = acked[f],
           finSent'[f] = finSent[f], lock'[f] = lock[f],
           lock[f] # Free => reader'[lock[f]].size = reader[lock[f]].size,
           Pending(f)' <=> Pending(f)
    PROVE  Accounting(f)'
<1>1. Counted(f)' = Counted(f) /\ FinSpace(f)' = FinSpace(f)  BY DEF Counted, FinSpace
<1>2. PICK a \in 0..said[f] : Taken(f, a)  BY DEF Accounting
<1>3. Taken(f, a)'  BY <1>1, <1>2 DEF Taken
<1>4. QED  BY <1>1, <1>2, <1>3 DEF Accounting

\* Distances in the window are true.
LEMMA Outstanding ==
    ASSUME FieldTypes, ThreadTypes, NEW f \in Flows, lock[f] = Free, Accounting(f),
           NEW a \in 0..said[f], Taken(f, a), NEW n \in a..received[f]
    PROVE  Dist(acked[f], Seq(n)) = n - a /\ server[f] = Seq(received[f])
<1>1. /\ received[f] \in Nat /\ said[f] \in Nat /\ window[f] \in Nat /\ Modulus \in Nat
      /\ window[f] + 1 < Modulus /\ FinSpace(f) \in {0, 1} /\ Counted(f) = received[f]
    BY AccountTypes
<1>2. received[f] <= a + window[f] + FinSpace(f)  BY DEF Taken
<1>3. a \in Nat /\ n \in Nat /\ a <= n /\ n - a < Modulus  BY <1>1, <1>2
<1>4. QED  BY <1>1, <1>3, DistOfSeq DEF Taken, Accounting

\* A segment that the window has room for is sent, or a FIN, and the lock is kept.
LEMMA AccountSend ==
    ASSUME FieldTypes, ThreadTypes, NEW r \in Flows, NEW f \in Flows, Accounting(f),
           lock[f] = Free, NEW at \in Counting, Send(r, f, at),
           UNCHANGED <<server, acked, window, said, edge, tun>>,
           \/ Room(f, reader[r].size) /\ finSent' = finSent
           \/ reader[r].size = 1 /\ ~finSent[f] /\ finSent' = [finSent EXCEPT ![f] = TRUE]
    PROVE  Accounting(f)'
<1>1. /\ received[f] \in Nat /\ said[f] \in Nat /\ edge[f] \in Nat /\ window[f] \in Nat
      /\ FinSpace(f) \in {0, 1} /\ reader[r].size \in Nat /\ Counted(f) = received[f]
    BY AccountTypes
<1>2. received'[f] = received[f] + reader[r].size  BY DEF Send, FieldTypes
<1>3. lock'[f] = r /\ r # Free  BY FlowNumbers DEF Send, FieldTypes
<1>4. reader'[r].size = reader[r].size
    BY TurnGoes DEF Send, Goes, Counting, OnFlow
<1>5. Counted(f)' = received[f]
    <2>1. Counted(f)' = received'[f] - reader'[r].size  BY <1>3 DEF Counted
    <2>2. QED  BY <1>1, <1>2, <1>4, <2>1
<1>6. PICK a \in 0..said[f] : Taken(f, a)  BY DEF Accounting
<1>7. a \in Nat /\ said[f] <= received[f]  BY <1>1, <1>6 DEF Accounting
<1>8. received'[f] <= a + window[f] + FinSpace(f)'
    <2>1. CASE Room(f, reader[r].size) /\ finSent' = finSent
        <3>1. received[f] \in a..received[f]  BY <1>1, <1>6, <1>7 DEF Taken
        <3>2. Dist(acked[f], server[f]) = received[f] - a  BY <1>6, <3>1, Outstanding
        <3>3. received[f] - a + reader[r].size <= window[f]  BY <2>1, <3>2 DEF Room
        <3>4. FinSpace(f)' = FinSpace(f)  BY <2>1 DEF FinSpace
        <3>5. QED  BY <1>1, <1>2, <1>7, <3>3, <3>4
    <2>2. CASE reader[r].size = 1 /\ ~finSent[f] /\ finSent' = [finSent EXCEPT ![f] = TRUE]
        <3>1. FinSpace(f) = 0 /\ FinSpace(f)' = 1  BY <2>2 DEF FinSpace, FieldTypes
        <3>2. received[f] <= a + window[f] + FinSpace(f)  BY <1>6 DEF Taken
        <3>3. QED  BY <1>1, <1>2, <1>7, <2>2, <3>1, <3>2
    <2>3. QED  BY <2>1, <2>2
<1>9. Taken(f, a)'
    <2>1. Pending(f)' <=> Pending(f)  BY DEF Pending
    <2>2. a <= Counted(f)'  BY <1>1, <1>5, <1>6 DEF Taken
    <2>3. QED  BY <1>6, <1>8, <2>1, <2>2 DEF Taken
<1>10. said'[f] <= received'[f]  BY <1>1, <1>2, <1>7
<1>11. server'[f] = Seq(Counted(f)')  BY <1>1, <1>5 DEF Accounting
<1>12. Pending(f)' => edge'[f] - said'[f] \in Windows  BY DEF Pending, Accounting
<1>13. QED  BY <1>6, <1>9, <1>10, <1>11, <1>12 DEF Accounting

\* The segment is counted, and the lock released.
LEMMA AccountCount ==
    ASSUME FieldTypes, ThreadTypes, LockShape, NEW r \in Flows, Count(r),
           NEW f \in Flows, reader[r].flow = f, Accounting(f)
    PROVE  Accounting(f)'
<1>1. received[f] \in Nat /\ reader[r].size \in Nat /\ Counted(f) \in Int  BY AccountTypes
<1>2. lock[f] = r /\ r # Free
    <2>1. reader[r].at \in Counting  BY DEF Count, Counting
    <2>2. lock[f] = r  BY <2>1 DEF LockShape
    <2>3. QED  BY <2>2, FlowNumbers
<1>3. /\ server'[f] = (server[f] + reader[r].size) % Modulus /\ lock'[f] = Free
      /\ UNCHANGED <<acked, window, finSent, received, said, edge, tun>>
    BY DEF Count, FieldTypes, app
<1>4. Counted(f) = received[f] - reader[r].size  BY <1>2 DEF Counted
<1>5. Counted(f)' = received[f]
    <2>1. Counted(f)' = received'[f] - 0  BY <1>3 DEF Counted
    <2>2. QED  BY <1>1, <1>3, <2>1
<1>6. PICK a \in 0..said[f] : Taken(f, a)  BY DEF Accounting
<1>7. a \in Nat /\ a <= Counted(f)  BY <1>6 DEF Taken, FieldTypes
<1>8. Counted(f) \in Nat /\ Counted(f) + reader[r].size = received[f]
    BY <1>1, <1>4, <1>7
<1>9. server'[f] = Seq(Counted(f)')
    <2>1. server'[f] = (Seq(Counted(f)) + reader[r].size) % Modulus  BY <1>3 DEF Accounting
    <2>2. QED  BY <1>1, <1>5, <1>8, <2>1, SeqOfSum
<1>10. Taken(f, a)'
    <2>1. FinSpace(f)' = FinSpace(f) /\ (Pending(f)' <=> Pending(f))
        BY <1>3 DEF FinSpace, Pending
    <2>2. a <= Counted(f)'  BY <1>1, <1>5, <1>7, <1>8
    <2>3. QED  BY <1>3, <1>6, <2>1, <2>2 DEF Taken
<1>11. QED  BY <1>3, <1>6, <1>9, <1>10 DEF Accounting, Pending

\* The app's last packet is taken.
LEMMA AccountUpdate ==
    ASSUME FieldTypes, ThreadTypes, FlowShape, UpdateWindow, NEW f \in Flows, f = tun.flow,
           Accounting(f)
    PROVE  Accounting(f)'
<1>1. /\ received[f] \in Nat /\ said[f] \in Nat /\ edge[f] \in Nat /\ FinSpace(f) \in {0, 1}
      /\ window[f] \in Nat /\ Counted(f) = received[f] /\ lock[f] = Free
    BY AccountTypes DEF UpdateWindow
<1>2. PICK a \in 0..said[f] : Taken(f, a)  BY DEF Accounting
<1>3. a \in Nat /\ a <= said[f] /\ said[f] <= received[f]  BY <1>1, <1>2 DEF Accounting
<1>4. said[f] \in a..received[f] /\ received[f] \in a..received[f]  BY <1>1, <1>3
<1>5. /\ Dist(acked[f], Seq(said[f])) = said[f] - a
      /\ Dist(acked[f], server[f]) = received[f] - a
    BY <1>1, <1>2, <1>4, Outstanding
<1>6. acked'[f] = Seq(said[f])
    <2>1. Dist(acked[f], Seq(said[f])) <= Dist(acked[f], server[f])  BY <1>1, <1>3, <1>5
    <2>2. acked' = [acked EXCEPT ![f] = Seq(said[f])]  BY <2>1 DEF UpdateWindow
    <2>3. QED  BY <2>2 DEF FieldTypes
<1>7. window'[f] = edge[f] - said[f]  BY DEF UpdateWindow, FieldTypes
<1>8. UNCHANGED <<server, finSent, lock, received, said, edge>>  BY DEF UpdateWindow, app
<1>9. Counted(f)' = received[f] /\ FinSpace(f)' = FinSpace(f)
    <2>1. Counted(f)' = received[f] - 0  BY <1>1, <1>8 DEF Counted
    <2>2. QED  BY <1>1, <1>8, <2>1 DEF FinSpace
<1>10. received[f] <= edge[f] + FinSpace(f)
    <2>1. /\ received[f] <= a + window[f] + FinSpace(f) /\ a + window[f] <= edge[f]
        BY <1>2 DEF Taken
    <2>2. QED  BY <1>1, <1>3, <2>1
<1>11. Taken(f, said[f])'
    <2>1. said[f] + (edge[f] - said[f]) = edge[f]  BY <1>1
    <2>2. QED  BY <1>1, <1>3, <1>6, <1>7, <1>8, <1>9, <1>10, <2>1 DEF Taken
<1>12. ~Pending(f)'
    <2>1. tun'.at = "idle"  BY DEF UpdateWindow, Done, ThreadTypes, TunState
    <2>2. QED  BY <2>1 DEF Pending
<1>13. server'[f] = Seq(Counted(f)')  BY <1>1, <1>8, <1>9 DEF Accounting
<1>14. said[f] \in 0..said'[f]  BY <1>1, <1>8
<1>15. QED  BY <1>3, <1>8, <1>11, <1>12, <1>13, <1>14 DEF Accounting

\* The app sends a packet.
LEMMA AccountPacket ==
    ASSUME FieldTypes, ThreadTypes, NEW f \in Flows, f = mapped, NEW n \in Nat,
           NEW w \in Windows, Packet(n, n + w), Accounting(f)
    PROVE  Accounting(f)'
<1>1. /\ received[f] \in Nat /\ said[f] \in Nat /\ edge[f] \in Nat /\ window[f] \in Nat
      /\ w \in Nat
    BY AccountTypes, Constants
<1>2. /\ n \in said[f]..received[f] /\ n + w >= edge[f]
      /\ UNCHANGED <<server, acked, window, finSent, lock, reader, received>>
    BY DEF Packet, window_
<1>3. said'[f] = n /\ edge'[f] = n + w  BY DEF Packet, FieldTypes
<1>4. Pending(f)'  BY DEF Packet, Take, Pending
<1>5. Counted(f)' = Counted(f) /\ FinSpace(f)' = FinSpace(f)  BY <1>2 DEF Counted, FinSpace
<1>6. PICK a \in 0..said[f] : Taken(f, a)  BY DEF Accounting
<1>7. a \in 0..n /\ n <= received[f]  BY <1>1, <1>2, <1>6
<1>8. a + window[f] <= n + w
    <2>1. a + window[f] <= edge[f]  BY <1>6 DEF Taken
    <2>2. QED  BY <1>1, <1>2, <1>7, <2>1
<1>9. Taken(f, a)'  BY <1>2, <1>3, <1>4, <1>5, <1>6, <1>8 DEF Taken
<1>10. (n + w) - n = w  BY <1>1
<1>11. server'[f] = Seq(Counted(f)')  BY <1>2, <1>5 DEF Accounting
<1>12. edge'[f] - said'[f] \in Windows
    <2>1. edge'[f] - said'[f] = (n + w) - n  BY <1>3, Zenon
    <2>2. QED  BY <1>10, <2>1
<1>13. a \in 0..said'[f] /\ said'[f] <= received'[f]  BY <1>2, <1>3, <1>7
<1>14. QED  BY <1>9, <1>11, <1>12, <1>13 DEF Accounting

\* A flow is made.
LEMMA AccountSyn ==
    ASSUME FieldTypes, ThreadTypes, FlowShape, LockShape, Fresh, Syn, NEW f \in Flows,
           f = born + 1
    PROVE  Accounting(f)'
<1>1. /\ server[f] = Start /\ acked[f] = Start /\ received[f] = 0 /\ said[f] = 0
    <2>1. f > born  BY DEF ThreadTypes
    <2>2. QED  BY <2>1 DEF Fresh
<1>2. /\ window'[f] = SynWindow /\ edge'[f] = SynWindow
      /\ UNCHANGED <<server, acked, received, said, lock, reader, finSent>>
    BY DEF Syn, FieldTypes
<1>3. lock[f] = Free
    <2>1. SUFFICES ASSUME lock[f] # Free PROVE FALSE  OBVIOUS
    <2>2. lock[f] \in Flows /\ reader[lock[f]].flow = f  BY <2>1, AccountTypes DEF LockShape
    <2>3. f <= born  BY <2>2 DEF FlowShape
    <2>4. QED  BY <2>3 DEF ThreadTypes
<1>4. Counted(f)' = 0
    <2>1. Counted(f)' = received'[f] - 0  BY <1>2, <1>3 DEF Counted
    <2>2. QED  BY <1>1, <1>2, <2>1
<1>5. ~Pending(f)'
    <2>1. tun'.at = "connect"  BY DEF Syn, Take
    <2>2. QED  BY <2>1 DEF Pending
<1>6. SynWindow \in Nat /\ FinSpace(f)' \in {0, 1}  BY Constants DEF FinSpace
<1>7. Taken(f, 0)'
    BY <1>1, <1>2, <1>4, <1>5, <1>6, SeqOfNone DEF Taken
<1>8. 0 \in 0..said'[f] /\ said'[f] <= received'[f]  BY <1>1, <1>2
<1>9. server'[f] = Seq(Counted(f)')  BY <1>1, <1>2, <1>4, SeqOfNone
<1>10. QED  BY <1>5, <1>7, <1>8, <1>9 DEF Accounting

\* A reader's step that leaves the accounts of a flow alone, and its lock.
LEMMA AccountOthers ==
    ASSUME FieldTypes, ThreadTypes, NEW f \in Flows, Accounting(f), NEW r \in Flows,
           OthersStay(r), lock[f] # r, lock'[f] = lock[f], received'[f] = received[f],
           server'[f] = server[f], finSent'[f] = finSent[f],
           UNCHANGED <<said, edge, window, acked, tun>>
    PROVE  Accounting(f)'
<1>1. lock[f] # Free => reader'[lock[f]].size = reader[lock[f]].size
    <2>1. lock[f] = Free \/ lock[f] \in Flows  BY AccountTypes
    <2>2. QED  BY <2>1 DEF OthersStay
<1>2. Pending(f)' <=> Pending(f)  BY DEF Pending
<1>3. QED  BY <1>1, <1>2, AccountStill

\* The steps on the TUN thread keep the accounts of every flow.
LEMMA AccountAccept ==
    ASSUME FieldTypes, ThreadTypes, FlowShape, LockShape, Fresh, NEW f \in Flows,
           Accounting(f), Syn \/ Rst \/ AnyPacket \/ Accept
    PROVE  Accounting(f)'
<1>1. tun \in TunState /\ born \in 0..MaxFlows /\ MaxFlows \in Nat \ {0}
    BY FlowNumbers DEF ThreadTypes
<1>2. Done => ~Pending(f)'  BY <1>1 DEF Done, Pending, TunState
<1>3. lock[f] = Free \/ lock[f] \in Flows  BY AccountTypes
<1>4. CASE Syn
    <2>1. CASE f = born + 1  BY <1>4, <2>1, AccountSyn
    <2>2. CASE f # born + 1
        <3>1. /\ window' = [window EXCEPT ![born + 1] = SynWindow]
              /\ edge' = [edge EXCEPT ![born + 1] = SynWindow]
              /\ UNCHANGED <<server, acked, received, said, lock, reader, finSent>>
            BY <1>4 DEF Syn
        <3>2. window'[f] = window[f] /\ edge'[f] = edge[f]  BY <2>2, <3>1 DEF FieldTypes
        <3>3. ~Pending(f) /\ ~Pending(f)'  BY <1>4 DEF Syn, Take, Pending
        <3>4. QED  BY <3>1, <3>2, <3>3, AccountStill
    <2>3. QED  BY <2>1, <2>2
<1>5. CASE AnyPacket
    <2>1. mapped \in Flows
        <3>1. mapped # NoFlow /\ mapped \in 0..born  BY <1>5 DEF AnyPacket, ThreadTypes
        <3>2. QED  BY <3>1, BornFlow, FlowOf
    <2>2. PICK n \in 0..received[mapped], w \in Windows : Packet(n, n + w)
        BY <1>5 DEF AnyPacket
    <2>3. n \in Nat  BY <2>1 DEF FieldTypes
    <2>4. CASE f = mapped  BY <2>2, <2>3, <2>4, AccountPacket
    <2>5. CASE f # mapped
        <3>1. /\ UNCHANGED <<server, acked, window, finSent, lock, reader, received>>
              /\ said'[f] = said[f] /\ edge'[f] = edge[f]
            BY <2>2, <2>5 DEF Packet, window_, FieldTypes
        <3>2. ~Pending(f) /\ ~Pending(f)'  BY <2>2, <2>5 DEF Packet, Take, Pending
        <3>3. QED  BY <3>1, <3>2, AccountStill
    <2>6. QED  BY <2>4, <2>5
<1>6. CASE Rst \/ ConnectThrows \/ RstRemove
    <2>1. UNCHANGED <<window_, lock, reader, received, app>>
        BY <1>6 DEF Rst, ConnectThrows, RstRemove
    <2>2. ~Pending(f)  BY <1>6 DEF Rst, ConnectThrows, RstRemove, Take, Pending
    <2>3. ~Pending(f)'
        <3>1. CASE Rst
            <4>1. tun'.at = "rst"  BY <3>1 DEF Rst, Take
            <4>2. QED  BY <4>1 DEF Pending
        <3>2. CASE ConnectThrows  BY <1>2, <3>2 DEF ConnectThrows
        <3>3. CASE RstRemove
            <4>1. tun'.at = "rst close"  BY <1>1, <3>3 DEF RstRemove, TunState
            <4>2. QED  BY <4>1 DEF Pending
        <3>4. QED  BY <1>6, <3>1, <3>2, <3>3
    <2>4. QED  BY <2>1, <2>2, <2>3, AccountStill DEF window_, app
<1>7. CASE Connect
    <2>1. /\ tun.flow \in Flows /\ reader[tun.flow].at = "none"
          /\ Goes(tun.flow, "reading", NoFlow, reader[tun.flow].size)
        BY <1>7, ConnectStarts
    <2>2. UNCHANGED <<window_, lock, received, app>> /\ Done  BY <1>7 DEF Connect
    <2>3. \A q \in Flows : reader'[q].size = reader[q].size  BY <2>1 DEF Goes, OthersStay
    <2>4. ~Pending(f) /\ ~Pending(f)'  BY <1>2, <1>7, <2>2 DEF Connect, Pending
    <2>5. QED  BY <1>3, <2>2, <2>3, <2>4, AccountStill DEF window_, app
<1>8. CASE RstClose
    <2>1. /\ reader' = Signalled(tun.flow) /\ Done /\ tun.at = "rst close"
          /\ UNCHANGED <<server, acked, window, finSent, lock, received, app>>
        BY <1>8 DEF RstClose, CloseWindow
    <2>2. \A q \in Flows : reader'[q].size = reader[q].size  BY <2>1, SignalledKeeps
    <2>3. ~Pending(f) /\ ~Pending(f)'  BY <1>2, <2>1 DEF Pending
    <2>4. QED  BY <1>3, <2>1, <2>2, <2>3, AccountStill DEF app
<1>9. CASE UpdateWindow
    <2>1. CASE f = tun.flow  BY <1>9, <2>1, AccountUpdate
    <2>2. CASE f # tun.flow
        <3>1. /\ reader' = Signalled(tun.flow) /\ Done
              /\ UNCHANGED <<server, finSent, lock, received, app>>
            BY <1>9 DEF UpdateWindow
        <3>2. window'[f] = window[f] /\ acked'[f] = acked[f]
            BY <1>9, <2>2 DEF UpdateWindow, FieldTypes
        <3>3. \A q \in Flows : reader'[q].size = reader[q].size  BY <3>1, SignalledKeeps
        <3>4. ~Pending(f) /\ ~Pending(f)'  BY <1>2, <2>2, <3>1 DEF Pending
        <3>5. QED  BY <1>3, <3>1, <3>2, <3>3, <3>4, AccountStill DEF app
    <2>3. QED  BY <2>1, <2>2
<1>10. QED  BY <1>4, <1>5, <1>6, <1>7, <1>8, <1>9 DEF Accept

\* So do those of the readers.
LEMMA AccountReader ==
    ASSUME FieldTypes, ThreadTypes, FlowShape, LockShape, NEW f \in Flows, Accounting(f),
           NEW r \in Flows, Read(r) \/ OnClosed(r) \/ OnFailure(r) \/ Callback(r)
    PROVE  Accounting(f)'
<1>1. OthersStay(r)  BY ReaderGoes DEF Callback, Goes
<1>2. lock[f] = r => reader[r].at \in Counting /\ reader[r].flow = f
    <2>1. r # Free  BY FlowNumbers
    <2>2. QED  BY <2>1 DEF LockShape
<1>3. UNCHANGED <<said, edge, window, acked, tun>>
    BY DEF Read, OnClosed, OnFailure, Callback, OnData, Emit, Fin, Count, Reset, Interrupted,
           window_, app
<1>4. CASE Read(r) \/ OnClosed(r) \/ OnFailure(r) \/ OnData(r) \/ Reset(r) \/ Interrupted(r)
    <2>1. reader[r].at \notin Counting
        BY <1>4 DEF Read, OnClosed, OnFailure, OnData, Reset, Interrupted, Counting
    <2>2. UNCHANGED <<lock, received, server, finSent>>
        BY <1>4 DEF Read, OnClosed, OnFailure, OnData, Reset, Interrupted, window_
    <2>3. QED  BY <1>1, <1>2, <1>3, <2>1, <2>2, AccountOthers
<1>5. CASE Emit(r)
    <2>1. reader[r].at \notin Counting /\ lock[reader[r].flow] = Free
        BY <1>5 DEF Emit, Counting
    <2>2. server' = server /\ finSent' = finSent  BY <1>5 DEF Emit, window_
    <2>3. CASE UNCHANGED <<lock, received>>
        BY <1>1, <1>2, <1>3, <2>1, <2>2, <2>3, AccountOthers
    <2>4. CASE Room(reader[r].flow, reader[r].size) /\ Send(r, reader[r].flow, "count data")
        <3>1. CASE f = reader[r].flow
            <4>1. "count data" \in Counting  BY DEF Counting
            <4>2. QED  BY <1>3, <2>1, <2>2, <2>4, <3>1, <4>1, AccountSend
        <3>2. CASE f # reader[r].flow
            <4>1. lock'[f] = lock[f] /\ received'[f] = received[f]
                BY <2>4, <3>2 DEF Send, FieldTypes
            <4>2. QED  BY <1>1, <1>2, <1>3, <2>1, <2>2, <4>1, AccountOthers
        <3>3. QED  BY <3>1, <3>2
    <2>5. QED  BY <1>5, <2>3, <2>4 DEF Emit
<1>6. CASE Fin(r)
    <2>1. reader[r].at \notin Counting /\ lock[reader[r].flow] = Free /\ reader[r].size = 1
        BY <1>6 DEF Fin, FlowShape, Counting
    <2>2. server' = server  BY <1>6 DEF Fin
    <2>3. CASE UNCHANGED <<finSent, lock, received>>
        BY <1>1, <1>2, <1>3, <2>1, <2>2, <2>3, AccountOthers
    <2>4. CASE /\ ~finSent[reader[r].flow] /\ Send(r, reader[r].flow, "count fin")
               /\ finSent' = [finSent EXCEPT ![reader[r].flow] = TRUE]
        <3>1. CASE f = reader[r].flow
            <4>1. "count fin" \in Counting  BY DEF Counting
            <4>2. QED  BY <1>3, <2>1, <2>2, <2>4, <3>1, <4>1, AccountSend
        <3>2. CASE f # reader[r].flow
            <4>1. /\ lock'[f] = lock[f] /\ received'[f] = received[f]
                  /\ finSent'[f] = finSent[f]
                BY <2>4, <3>2 DEF Send, FieldTypes
            <4>2. QED  BY <1>1, <1>2, <1>3, <2>1, <2>2, <4>1, AccountOthers
        <3>3. QED  BY <3>1, <3>2
    <2>5. QED  BY <1>6, <2>3, <2>4 DEF Fin
<1>7. CASE Count(r)
    <2>1. CASE f = reader[r].flow  BY <1>7, <2>1, AccountCount
    <2>2. CASE f # reader[r].flow
        <3>1. lock'[f] = lock[f] /\ server'[f] = server[f] /\ UNCHANGED <<received, finSent>>
            BY <1>7, <2>2 DEF Count, FieldTypes
        <3>2. QED  BY <1>1, <1>2, <1>3, <2>2, <3>1, AccountOthers
    <2>3. QED  BY <2>1, <2>2
<1>8. QED  BY <1>4, <1>5, <1>6, <1>7 DEF Callback

\* And those of whoever closes the forwarder.
LEMMA AccountClose ==
    ASSUME FieldTypes, ThreadTypes, NEW f \in Flows, Accounting(f), CloseBegins \/ Close
    PROVE  Accounting(f)'
<1>1. UNCHANGED <<server, acked, window, finSent, lock, received, said, edge, tun>>
    BY DEF CloseBegins, Close, CloseFlow, Clear, window_, app
<1>2. \A q \in Flows : reader'[q].size = reader[q].size
    BY SignalledKeeps DEF CloseBegins, Close, CloseFlow, CloseWindow, Clear
<1>3. lock[f] = Free \/ lock[f] \in Flows  BY AccountTypes
<1>4. Pending(f)' <=> Pending(f)  BY <1>1 DEF Pending
<1>5. QED  BY <1>1, <1>2, <1>3, <1>4, AccountStill
-----------------------------------------------------------------------------
\* The invariant.

\* Initially, nothing was sent and nobody is at work.
LEMMA InvInit == Init => TcpInv
<1>1. SUFFICES ASSUME Init PROVE TcpInv  OBVIOUS
<1>2. FieldTypes /\ ThreadTypes  BY <1>1, TypesInit
<1>3. NoFlow = 0 /\ Free = 0 /\ Flows = 1..MaxFlows  BY FlowNumbers
<1>4. FlowShape /\ LockShape
    <2>1. /\ tun.at = "idle" /\ tun.flow = 0 /\ closer.at = "open" /\ closer.flow = 0
          /\ born = 0
        BY <1>1, <1>3 DEF Init
    <2>2. \A r \in Flows : /\ reader[r].at = "none" /\ reader[r].flow = 0 /\ lock[r] = 0
        BY <1>1, <1>3 DEF Init
    <2>3. 0 <= born  BY <2>1
    <2>4. FlowShape  BY <1>3, <2>1, <2>2, <2>3, Labels DEF FlowShape
    <2>5. LockShape  BY <1>3, <2>2, Labels DEF LockShape
    <2>6. QED  BY <2>4, <2>5
<1>5. Fresh /\ ResetShape  BY <1>1, <1>3 DEF Init, Fresh, ResetShape, ResetOnce
<1>6. ASSUME NEW f \in Flows
      PROVE  Accounting(f)
    <2>1. /\ server[f] = Start /\ acked[f] = Start /\ window[f] = 0 /\ received[f] = 0
          /\ said[f] = 0 /\ edge[f] = 0 /\ lock[f] = Free /\ ~Pending(f)
        BY <1>1 DEF Init, Pending
    <2>2. Counted(f) = 0 /\ FinSpace(f) \in {0, 1}
        <3>1. Counted(f) = 0 - 0  BY <2>1 DEF Counted
        <3>2. QED  BY <3>1 DEF FinSpace
    <2>3. Taken(f, 0)  BY <2>1, <2>2, SeqOfNone DEF Taken
    <2>4. 0 \in 0..said[f] /\ said[f] <= received[f]  BY <2>1
    <2>5. QED  BY <2>1, <2>2, <2>3, <2>4, SeqOfNone DEF Accounting
<1>7. QED  BY <1>2, <1>4, <1>5, <1>6 DEF TcpInv

\* A step that changes nothing.
LEMMA InvStutter == TcpInv /\ UNCHANGED vars => TcpInv'
<1>1. SUFFICES ASSUME TcpInv, UNCHANGED vars PROVE TcpInv'  OBVIOUS
<1>2. /\ FieldTypes /\ ThreadTypes /\ FlowShape /\ LockShape /\ Fresh /\ ResetShape
      /\ \A f \in Flows : Accounting(f)
    BY <1>1 DEF TcpInv
<1>3. FieldTypes' /\ ThreadTypes'
    BY <1>1, <1>2 DEF vars, window_, app, FieldTypes, ThreadTypes
<1>4. FlowShape' /\ LockShape'  BY <1>1, <1>2 DEF vars, FlowShape, LockShape
<1>5. Fresh' /\ ResetShape'
    BY <1>1, <1>2 DEF vars, window_, app, Fresh, ResetShape, ResetOnce
<1>6. ASSUME NEW f \in Flows
      PROVE  Accounting(f)'
    BY <1>1, <1>2, AccountStill DEF vars, window_, app, Pending
<1>7. QED  BY <1>3, <1>4, <1>5, <1>6 DEF TcpInv

\* Every step keeps it.
LEMMA InvStep == TcpInv /\ [Next]_vars => TcpInv'
<1>1. SUFFICES ASSUME TcpInv, Next PROVE TcpInv'  BY InvStutter
<1>2. /\ FieldTypes /\ ThreadTypes /\ FlowShape /\ LockShape /\ Fresh /\ ResetShape
      /\ \A f \in Flows : Accounting(f)
    BY <1>1 DEF TcpInv
<1>3. FieldTypes' /\ ThreadTypes'
    BY <1>1, <1>2, TypesAccept, TypesReader, TypesClose DEF Next
<1>4. FlowShape' /\ LockShape'
    BY <1>1, <1>2, ShapeAccept, ShapeReader, ShapeClose DEF Next
<1>5. Fresh'  BY <1>1, <1>2, FreshKeeps
<1>6. ResetShape'  BY <1>1, <1>2, ResetKeeps
<1>7. ASSUME NEW f \in Flows
      PROVE  Accounting(f)'
    BY <1>1, <1>2, AccountAccept, AccountReader, AccountClose DEF Next
<1>8. QED  BY <1>3, <1>4, <1>5, <1>6, <1>7 DEF TcpInv

\* The fields of every flow stand for the numbers of bytes that the readers have counted and the
\* app has acknowledged, however the threads of accept, emitRemotePayload, emitRemoteClose,
\* resetFlow and close interleave.
THEOREM InvHolds == Spec => []TcpInv
<1>1. Init => TcpInv  BY InvInit
<1>2. TcpInv /\ [Next]_vars => TcpInv'  BY InvStep
<1>3. QED  BY <1>1, <1>2, PTL DEF Spec

\* Types, and a windowLock is held exactly while a segment that was passed to the app is not
\* counted yet.
THEOREM TypeCorrect == Spec => []TypeOK
<1>1. TcpInv => TypeOK
    <2>1. SUFFICES ASSUME TcpInv PROVE TypeOK  OBVIOUS
    <2>2. FieldTypes /\ ThreadTypes /\ FlowShape /\ LockShape  BY <2>1 DEF TcpInv
    <2>3. NoFlow = 0 /\ Free = 0 /\ Flows = 1..MaxFlows /\ MaxFlows \in Nat \ {0}
        BY FlowNumbers
    <2>4. born \in 0..MaxFlows /\ mapped \in 0..born  BY <2>2 DEF ThreadTypes
    <2>5. tun.flow \in 0..born /\ closer.flow \in 0..born
        <3>1. tun.flow \in 0..MaxFlows /\ closer.flow \in 0..MaxFlows
            BY <2>2 DEF ThreadTypes, TunState, CloserState
        <3>2. tun.flow <= born /\ closer.flow <= born  BY <2>2 DEF FlowShape
        <3>3. QED  BY <2>3, <2>4, <3>1, <3>2
    <2>6. \A f \in Flows : left[f] \in 0..MaxBytes[f]
        <3>1. \A f \in Flows : left[f] \in Nat /\ MaxBytes[f] \in Nat /\ left[f] <= MaxBytes[f]
            BY <2>2, Constants DEF FieldTypes
        <3>2. QED  BY <3>1
    <2>7. \A r \in Flows : reader[r].at \in OnFlow <=> reader[r].flow # NoFlow
        BY <2>2 DEF FlowShape
    <2>8. \A f \in Flows : lock[f] = Free \/ reader[lock[f]].flow = f  BY <2>2 DEF LockShape
    <2>9. ASSUME NEW r \in Flows
          PROVE  reader[r].at \in Counting <=> r \in {lock[f] : f \in Flows}
        <3>1. ASSUME reader[r].at \in Counting
              PROVE  r \in {lock[f] : f \in Flows}
            <4>1. lock[reader[r].flow] = r  BY <2>2, <3>1 DEF LockShape
            <4>2. reader[r].flow # NoFlow  BY <2>7, <3>1, Labels
            <4>3. reader[r].flow \in Flows
                BY <2>2, <4>2, FlowOf DEF ThreadTypes, ReaderState
            <4>4. QED  BY <4>1, <4>3
        <3>2. ASSUME r \in {lock[f] : f \in Flows}
              PROVE  reader[r].at \in Counting
            <4>1. PICK f \in Flows : lock[f] = r  BY <3>2
            <4>2. lock[f] # Free  BY <2>3, <4>1
            <4>3. QED  BY <2>2, <4>1, <4>2 DEF LockShape
        <3>3. QED  BY <3>1, <3>2
    <2>10. QED
        BY <2>2, <2>4, <2>5, <2>6, <2>7, <2>8, <2>9 DEF TypeOK, FieldTypes, OnFlow, Counting
<1>2. QED  BY <1>1, InvHolds, PTL

\* emitRemotePayload never passes the app data beyond the right edge of its window: what is
\* outstanding, as the sequence numbers tell, is what the app has not acknowledged.
THEOREM WindowIsRespected == Spec => []NoOverrun
<1>1. TcpInv => NoOverrun
    <2>1. SUFFICES ASSUME TcpInv, NEW f \in Flows
                   PROVE  received[f] <= edge[f] + FinSpace(f)
        BY DEF NoOverrun, FinSpace
    <2>2. PICK a \in 0..said[f] : Taken(f, a)  BY <2>1 DEF TcpInv, Accounting
    <2>3. /\ received[f] \in Nat /\ said[f] \in Nat /\ edge[f] \in Nat /\ window[f] \in Nat
          /\ FinSpace(f) \in {0, 1}
        BY <2>1, AccountTypes DEF TcpInv
    <2>4. received[f] <= a + window[f] + FinSpace(f) /\ a + window[f] <= edge[f]
        BY <2>2 DEF Taken
    <2>5. QED  BY <2>3, <2>4
<1>2. QED  BY <1>1, InvHolds, PTL

\* updateWindow takes every acknowledgment of the app, those that overtake the count of the
\* segment they acknowledge and those on the other side of the wrap included.
THEOREM AcknowledgmentsAreTaken == Spec => []AckIsTaken
<1>1. TcpInv => AckIsTaken
    <2>1. SUFFICES ASSUME TcpInv, NEW f \in Flows, ~Pending(f)
                   PROVE  acked[f] = Seq(said[f])
        BY DEF AckIsTaken, Pending
    <2>2. PICK a \in 0..said[f] : Taken(f, a)  BY <2>1 DEF TcpInv, Accounting
    <2>3. QED  BY <2>1, <2>2 DEF Taken
<1>2. QED  BY <1>1, InvHolds, PTL

\* resetFlow sends one RST on a flow, whoever of the readers takes it out of the map.
THEOREM ResetAtMostOnce == Spec => []ResetOnce
<1>1. TcpInv => ResetOnce  BY DEF TcpInv, ResetShape
<1>2. QED  BY <1>1, InvHolds, PTL

\* A reader that was waiting for the window of a flow looks at closed again before it sends:
\* nothing but a first FIN goes to the app on a closed flow.
THEOREM ClosedSendsNothing == Spec => ClosedIsSilent
<1>1. TcpInv /\ [Next]_vars =>
         [\A f \in Flows : closed[f] /\ received'[f] # received[f]
             => ~finSent[f] /\ finSent'[f]]_vars
    <2>1. SUFFICES ASSUME TcpInv, Next, NEW f \in Flows, closed[f], received'[f] # received[f]
                   PROVE  ~finSent[f] /\ finSent'[f]
        OBVIOUS
    <2>2. FieldTypes /\ received \in [Flows -> Nat]  BY <2>1 DEF TcpInv, FieldTypes
    <2>3. ASSUME received' = received
          PROVE  FALSE
        BY <2>1, <2>3
    <2>4. PICK r \in Flows : Emit(r) \/ Fin(r)
        BY <2>1, <2>3 DEF Next, Syn, Rst, AnyPacket, Packet, Accept, Connect, ConnectThrows,
            RstRemove, RstClose, UpdateWindow, Read, OnClosed, OnFailure, Callback, OnData,
            Count, Reset, Interrupted, CloseBegins, Close, CloseFlow, Clear
    <2>5. CASE Emit(r)
        <3>1. ~closed[reader[r].flow] /\ Send(r, reader[r].flow, "count data")
            BY <2>3, <2>5 DEF Emit
        <3>2. f # reader[r].flow  BY <2>1, <3>1
        <3>3. received'[f] = received[f]  BY <2>2, <3>1, <3>2 DEF Send
        <3>4. QED  BY <2>1, <3>3
    <2>6. CASE Fin(r)
        <3>1. /\ ~finSent[reader[r].flow] /\ Send(r, reader[r].flow, "count fin")
              /\ finSent' = [finSent EXCEPT ![reader[r].flow] = TRUE]
            BY <2>3, <2>6 DEF Fin
        <3>2. f = reader[r].flow  BY <2>1, <2>2, <3>1 DEF Send
        <3>3. QED  BY <2>2, <3>1, <3>2 DEF FieldTypes
    <2>7. QED  BY <2>4, <2>5, <2>6
<1>2. QED  BY <1>1, InvHolds, PTL DEF Spec, ClosedIsSilent
-----------------------------------------------------------------------------
\* No wake-up is lost.

\* A reader that waits has a reason: its flow is open, and has no room for its segment.
HasReason(r) ==
    reader[r].at = "await" =>
        ~closed[reader[r].flow] /\ ~Room(reader[r].flow, reader[r].size)

\* Nobody sleeps through what would let it go on: every change of a flow's window, of what was
\* acknowledged and of closed tells those who wait in windowChanged.await, and what does not
\* tell them, the count of another reader's segment, never makes room.
NoLostWakeup == \A r \in Flows : HasReason(r)

\* A reader that goes on waiting on a flow that did not change.
LEMMA ReasonStays ==
    ASSUME NEW r \in Flows, HasReason(r),
           reader'[r].at = "await" =>
               LET f == reader[r].flow
               IN  /\ reader[r].at = "await"
                   /\ reader'[r].flow = f /\ reader'[r].size = reader[r].size
                   /\ closed'[f] = closed[f] /\ acked'[f] = acked[f]
                   /\ server'[f] = server[f] /\ window'[f] = window[f]
    PROVE  HasReason(r)'
BY DEF HasReason, Room

\* Who goes on waiting while somebody else moves.
LEMMA OthersWait ==
    ASSUME NEW q \in Flows, NEW r \in Flows, NEW at, NEW f, NEW size, Goes(q, at, f, size),
           at # "await", reader'[r].at = "await"
    PROVE  /\ r # q /\ reader[r].at = "await"
           /\ reader'[r].flow = reader[r].flow /\ reader'[r].size = reader[r].size
BY DEF Goes, OthersStay

\* After signalAll nobody waits on the flow.
LEMMA SignalledWait ==
    ASSUME ThreadTypes, NEW f, NEW r \in Flows, Signalled(f)[r].at = "await"
    PROVE  /\ reader[r].at = "await" /\ reader[r].flow # f
           /\ Signalled(f)[r].flow = reader[r].flow /\ Signalled(f)[r].size = reader[r].size
<1>1. Signalled(f)[r] = IF reader[r].at = "await" /\ reader[r].flow = f
                        THEN [reader[r] EXCEPT !.at = "emit"] ELSE reader[r]
    BY DEF Signalled
<1>2. [reader[r] EXCEPT !.at = "emit"].at = "emit"
    BY DEF ThreadTypes, ReaderState
<1>3. QED  BY <1>1, <1>2

\* The flow a reader waits on was made.
LEMMA WaiterFlow ==
    ASSUME ThreadTypes, FlowShape, NEW r \in Flows, reader[r].at = "await"
    PROVE  reader[r].flow \in Flows /\ reader[r].flow <= born
<1>1. reader[r].flow \in 0..MaxFlows  BY DEF ThreadTypes, ReaderState
<1>2. reader[r].flow # NoFlow /\ reader[r].flow <= born  BY Labels DEF FlowShape
<1>3. QED  BY <1>1, <1>2, FlowOf

\* What is outstanding, also while a segment is not counted.
LEMMA Uncounted ==
    ASSUME FieldTypes, ThreadTypes, NEW f \in Flows, Accounting(f),
           NEW a \in 0..said[f], Taken(f, a)
    PROVE  Dist(acked[f], server[f]) = Counted(f) - a
<1>1. /\ received[f] \in Nat /\ said[f] \in Nat /\ window[f] \in Nat /\ Modulus \in Nat
      /\ window[f] + 1 < Modulus /\ FinSpace(f) \in {0, 1}
      /\ Counted(f) \in Int /\ Counted(f) <= received[f]
    BY AccountTypes
<1>2. received[f] <= a + window[f] + FinSpace(f) /\ a <= Counted(f)  BY DEF Taken
<1>3. a \in Nat /\ Counted(f) \in Nat /\ Counted(f) - a < Modulus  BY <1>1, <1>2
<1>4. acked[f] = Seq(a) /\ server[f] = Seq(Counted(f))  BY DEF Taken, Accounting
<1>5. QED  BY <1>2, <1>3, <1>4, DistOfSeq

\* A segment that is counted makes no room.
LEMMA CountMakesNoRoom ==
    ASSUME TcpInv, TcpInv', NEW q \in Flows, Count(q), NEW f \in Flows, NEW size \in Nat,
           ~Room(f, size)
    PROVE  ~Room(f, size)'
<1>1. /\ FieldTypes /\ ThreadTypes /\ LockShape /\ Accounting(f)
      /\ FieldTypes' /\ ThreadTypes' /\ Accounting(f)'
    BY DEF TcpInv
<1>2. /\ acked' = acked /\ window' = window /\ received' = received /\ said' = said
      /\ edge' = edge /\ finSent' = finSent /\ tun' = tun
      /\ lock' = [lock EXCEPT ![reader[q].flow] = Free]
      /\ server' = [server EXCEPT ![reader[q].flow] = (@ + reader[q].size) % Modulus]
    BY DEF Count, app
<1>3. CASE f # reader[q].flow
    <2>1. server'[f] = server[f]  BY <1>1, <1>2, <1>3 DEF FieldTypes
    <2>2. QED  BY <1>2, <2>1 DEF Room
<1>4. CASE f = reader[q].flow
    <2>1. lock'[f] = Free  BY <1>1, <1>2, <1>4 DEF FieldTypes
    <2>2. PICK a \in 0..said[f] : Taken(f, a)  BY <1>1 DEF Accounting
    <2>3. Counted(f)' = received[f] - 0  BY <1>2, <2>1 DEF Counted
    <2>4. /\ received[f] \in Nat /\ said[f] \in Nat /\ window[f] \in Nat
          /\ Counted(f) \in Int /\ Counted(f) <= received[f]
        BY <1>1, AccountTypes
    <2>5. Dist(acked[f], server[f]) = Counted(f) - a  BY <1>1, <2>2, Uncounted
    <2>6. Dist(acked[f], server[f])' = received[f] - a
        <3>1. FinSpace(f)' = FinSpace(f) /\ (Pending(f)' <=> Pending(f))
            BY <1>2 DEF FinSpace, Pending
        <3>2. a \in Nat /\ a <= Counted(f)'  BY <2>2, <2>3, <2>4 DEF Taken
        <3>3. Taken(f, a)'  BY <1>2, <2>2, <3>1, <3>2 DEF Taken
        <3>4. server'[f] = Seq(received[f])
            <4>1. server'[f] = Seq(Counted(f)')  BY <1>1 DEF Accounting
            <4>2. Counted(f)' = received[f]  BY <2>3, <2>4
            <4>3. QED  BY <4>1, <4>2
        <3>5. acked'[f] = Seq(a)  BY <1>2, <2>2 DEF Taken
        <3>6. /\ window[f] + 1 < Modulus /\ Modulus \in Nat /\ FinSpace(f) \in {0, 1}
            BY <1>1, AccountTypes
        <3>7. received[f] <= a + window[f] + FinSpace(f)  BY <2>2 DEF Taken
        <3>8. a <= received[f] /\ received[f] - a < Modulus
            BY <2>3, <2>4, <3>2, <3>6, <3>7
        <3>9. Dist(Seq(a), Seq(received[f])) = received[f] - a
            BY <2>4, <3>2, <3>8, DistOfSeq
        <3>10. QED  BY <3>4, <3>5, <3>9 DEF Dist
    <2>7. ~(Counted(f) - a + size <= window[f])  BY <2>5 DEF Room
    <2>8. a \in Nat  BY <2>2, <2>4
    <2>9. ~(received[f] - a + size <= window'[f])  BY <1>2, <2>4, <2>7, <2>8
    <2>10. QED  BY <2>6, <2>9 DEF Room
<1>5. QED  BY <1>3, <1>4

\* Every step leaves those who wait with their reason, or lets them go.
LEMMA ReasonStep == TcpInv /\ TcpInv' /\ NoLostWakeup /\ [Next]_vars => NoLostWakeup'
<1>1. SUFFICES ASSUME TcpInv, TcpInv', NoLostWakeup, [Next]_vars, NEW r \in Flows
               PROVE  HasReason(r)'
    BY DEF NoLostWakeup
<1>2. FieldTypes /\ ThreadTypes /\ FlowShape /\ HasReason(r)
    BY <1>1 DEF TcpInv, NoLostWakeup
<1>3. reader[r].at = "await" => reader[r].flow \in Flows /\ reader[r].flow <= born
    BY <1>2, WaiterFlow
<1>4. CASE /\ reader'[r] = reader[r] \/ reader'[r].at # "await"
           /\ UNCHANGED <<closed, acked, server, window>>
    BY <1>2, <1>4, ReasonStays
<1>5. CASE UNCHANGED vars  BY <1>4, <1>5 DEF vars, window_
<1>6. CASE Syn
    <2>1. window' = [window EXCEPT ![born + 1] = SynWindow] /\ reader' = reader
        BY <1>6 DEF Syn
    <2>2. born \in Nat  BY <1>2, FlowNumbers DEF ThreadTypes
    <2>3. reader[r].at = "await" => window'[reader[r].flow] = window[reader[r].flow]
        BY <1>2, <1>3, <2>1, <2>2 DEF FieldTypes
    <2>4. QED  BY <1>2, <1>6, <2>1, <2>3, ReasonStays DEF Syn
<1>7. CASE Rst \/ AnyPacket \/ ConnectThrows \/ RstRemove \/ CloseBegins \/ Clear
    BY <1>4, <1>7
    DEF Rst, AnyPacket, Packet, ConnectThrows, RstRemove, CloseBegins, Clear, window_
<1>8. CASE Connect
    <2>1. Goes(tun.flow, "reading", NoFlow, reader[tun.flow].size) /\ tun.flow \in Flows
        BY <1>2, <1>8, ConnectStarts
    <2>2. reader'[r].at = "await" =>
            /\ reader[r].at = "await"
            /\ reader'[r].flow = reader[r].flow /\ reader'[r].size = reader[r].size
        BY <2>1, OthersWait
    <2>3. QED  BY <1>2, <1>8, <2>2, ReasonStays DEF Connect, window_
<1>9. ASSUME NEW f \in 0..MaxFlows, CloseWindow(f), UNCHANGED <<acked, server, window>>
      PROVE  HasReason(r)'
    <2>1. reader' = Signalled(f) /\ closed' = [closed EXCEPT ![f] = TRUE]
        BY <1>9 DEF CloseWindow
    <2>2. reader'[r].at = "await" =>
            /\ reader[r].at = "await" /\ reader[r].flow # f
            /\ reader'[r].flow = reader[r].flow /\ reader'[r].size = reader[r].size
        BY <1>2, <2>1, SignalledWait
    <2>3. reader'[r].at = "await" => closed'[reader[r].flow] = closed[reader[r].flow]
        BY <1>2, <1>3, <2>1, <2>2 DEF FieldTypes
    <2>4. QED  BY <1>2, <1>9, <2>2, <2>3, ReasonStays
<1>10. CASE RstClose
    <2>1. tun.flow \in 0..MaxFlows  BY <1>2 DEF ThreadTypes, TunState
    <2>2. QED  BY <1>9, <1>10, <2>1 DEF RstClose
<1>11. CASE CloseFlow
    <2>1. closer.flow \in 0..MaxFlows  BY <1>2 DEF ThreadTypes, CloserState
    <2>2. QED  BY <1>9, <1>11, <2>1 DEF CloseFlow
<1>12. CASE UpdateWindow
    <2>1. PICK f : f = tun.flow  OBVIOUS
    <2>2. /\ reader' = Signalled(f) /\ server' = server /\ closed' = closed
          /\ \E x : window' = [window EXCEPT ![f] = x]
          /\ \E x : acked' = [acked EXCEPT ![f] = x]
        BY <1>12, <2>1 DEF UpdateWindow
    <2>3. reader'[r].at = "await" =>
            /\ reader[r].at = "await" /\ reader[r].flow # f
            /\ reader'[r].flow = reader[r].flow /\ reader'[r].size = reader[r].size
        BY <1>2, <2>2, SignalledWait
    <2>4. reader'[r].at = "await" => /\ window'[reader[r].flow] = window[reader[r].flow]
                                     /\ acked'[reader[r].flow] = acked[reader[r].flow]
        BY <1>2, <1>3, <2>2, <2>3 DEF FieldTypes
    <2>5. QED  BY <1>2, <2>2, <2>3, <2>4, ReasonStays
<1>13. ASSUME NEW q \in Flows, NEW at, NEW f, NEW size, at # "await", Goes(q, at, f, size),
              UNCHANGED <<closed, acked, server, window>>
       PROVE  HasReason(r)'
    BY <1>2, <1>13, OthersWait, ReasonStays
<1>14. ASSUME NEW q \in Flows, Read(q) \/ OnClosed(q) \/ OnFailure(q) \/ OnData(q) \/ Fin(q)
                               \/ Interrupted(q)
       PROVE  HasReason(r)'
    <2>1. \E at, f, size : at # "await" /\ Goes(q, at, f, size)
        BY <1>2, <1>14, ReaderGoes
    <2>2. UNCHANGED <<closed, acked, server, window>>
        BY <1>14 DEF Read, OnClosed, OnFailure, OnData, Fin, Interrupted, window_
    <2>3. QED  BY <1>13, <2>1, <2>2
<1>15. ASSUME NEW q \in Flows, Emit(q)
       PROVE  HasReason(r)'
    <2>1. UNCHANGED <<closed, acked, server, window>>  BY <1>15 DEF Emit, window_
    <2>2. CASE \E at, f, size : at # "await" /\ Goes(q, at, f, size)
        BY <1>13, <2>1, <2>2
    <2>3. CASE Goes(q, "await", reader[q].flow, reader[q].size)
        <3>1. Turn(q, "await") /\ ~closed[reader[q].flow] /\ ~Room(reader[q].flow, reader[q].size)
            <4>1. \/ Turn(q, "await") /\ ~closed[reader[q].flow]
                     /\ ~Room(reader[q].flow, reader[q].size)
                  \/ To(q, "reading", NoFlow, 0)
                  \/ Turn(q, "count data")
                BY <1>15 DEF Emit, Send
            <4>2. reader'[q].at = "await"  BY <2>3 DEF Goes
            <4>3. ~To(q, "reading", NoFlow, 0)
                <5>1. NoFlow \in 0..MaxFlows  BY FlowNumbers
                <5>2. To(q, "reading", NoFlow, 0) => Goes(q, "reading", NoFlow, 0)
                    BY <1>2, <5>1, ToGoes
                <5>3. QED  BY <4>2, <5>2 DEF Goes
            <4>4. ~Turn(q, "count data")
                <5>1. Turn(q, "count data") =>
                          Goes(q, "count data", reader[q].flow, reader[q].size)
                    BY <1>2, TurnGoes DEF OnFlow
                <5>2. QED  BY <4>2, <5>1 DEF Goes
            <4>5. QED  BY <4>1, <4>3, <4>4
        <3>2. CASE r = q
            BY <2>1, <2>3, <3>1, <3>2 DEF HasReason, Goes, Room
        <3>3. CASE r # q
            <4>1. reader'[r].at = "await" =>
                    /\ reader[r].at = "await"
                    /\ reader'[r].flow = reader[r].flow /\ reader'[r].size = reader[r].size
                BY <2>3, <3>3 DEF Goes, OthersStay
            <4>2. QED  BY <1>2, <2>1, <4>1, ReasonStays
        <3>4. QED  BY <3>2, <3>3
    <2>4. QED  BY <1>2, <1>15, <2>2, <2>3, ReaderGoes
<1>16. ASSUME NEW q \in Flows, Count(q)
       PROVE  HasReason(r)'
    <2>1. closed' = closed  BY <1>16 DEF Count
    <2>2. PICK at \in {"reading", "done"} : Goes(q, at, NoFlow, 0)
        BY <1>2, <1>16, ReaderGoes
    <2>3. reader'[r].at = "await" =>
            /\ reader[r].at = "await"
            /\ reader'[r].flow = reader[r].flow /\ reader'[r].size = reader[r].size
        BY <2>2, OthersWait
    <2>4. reader[r].size \in Nat  BY <1>2 DEF ThreadTypes, ReaderState
    <2>5. reader[r].at = "await" => ~Room(reader[r].flow, reader[r].size)
        BY <1>2 DEF HasReason
    <2>6. CASE reader'[r].at # "await"  BY <2>6 DEF HasReason
    <2>7. CASE reader'[r].at = "await"
        <3>1. PICK f, size : f = reader[r].flow /\ size = reader[r].size  OBVIOUS
        <3>2. f \in Flows /\ size \in Nat /\ ~closed[f] /\ ~Room(f, size)
            BY <1>2, <1>3, <2>3, <2>4, <2>5, <2>7, <3>1 DEF HasReason
        <3>3. ~Room(f, size)'  BY <1>1, <1>16, <3>2, CountMakesNoRoom
        <3>4. reader'[r].flow = f /\ reader'[r].size = size  BY <2>3, <2>7, <3>1
        <3>5. QED  BY <2>1, <3>2, <3>3, <3>4 DEF HasReason, Room
    <2>8. QED  BY <2>6, <2>7
<1>17. ASSUME NEW q \in Flows, Reset(q)
       PROVE  HasReason(r)'
    <2>1. PICK f : f = reader[q].flow  OBVIOUS
    <2>2. /\ reader' = [Signalled(f) EXCEPT ![q] = [at |-> "done", flow |-> NoFlow, size |-> 0]]
          /\ closed' = [closed EXCEPT ![f] = TRUE]
          /\ UNCHANGED <<acked, server, window>>
        BY <1>17, <2>1 DEF Reset
    <2>3. Signalled(f) \in [Flows -> ReaderState]  BY <1>2, SignalledKeeps
    <2>4. reader'[r].at = "await" => r # q /\ reader'[r] = Signalled(f)[r]
        BY <2>2, <2>3
    <2>5. reader'[r].at = "await" =>
            /\ reader[r].at = "await" /\ reader[r].flow # f
            /\ reader'[r].flow = reader[r].flow /\ reader'[r].size = reader[r].size
        BY <1>2, <2>4, SignalledWait
    <2>6. reader'[r].at = "await" => closed'[reader[r].flow] = closed[reader[r].flow]
        BY <1>2, <1>3, <2>2, <2>5 DEF FieldTypes
    <2>7. QED  BY <1>2, <2>2, <2>5, <2>6, ReasonStays
<1>18. QED
    BY <1>1, <1>5, <1>6, <1>7, <1>8, <1>10, <1>11, <1>12, <1>14, <1>15, <1>16, <1>17
    DEF Next, Accept, Callback, Close

\* A reader that waits for the app's window in emitRemotePayload waits for something that has
\* not happened: signalAll is never missed, whoever takes the lock between the look and the
\* wait, and a segment counted meanwhile makes no room.
THEOREM WaitersHaveReason == Spec => []NoLostWakeup
<1>1. Init => NoLostWakeup  BY DEF Init, NoLostWakeup, HasReason
<1>2. QED  BY <1>1, InvInit, InvStep, ReasonStep, PTL DEF Spec
=============================================================================
