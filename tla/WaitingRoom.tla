---------------------------- MODULE WaitingRoom ----------------------------
(***************************************************************************)
(* What the Active Pool promises to receivers and senders, with no sorted  *)
(* set, script or command in sight.  A receiver waits with a ticket until  *)
(* a time; it leaves the room because it was handed to a sender whose      *)
(* criteria it fits, in time; because it comes again, for a new ticket;    *)
(* because its time has come; because its device is being erased; or,      *)
(* which is the one thing that is not its own affair, because the reply    *)
(* that named it was lost.  Nobody leaves for any other reason.            *)
(* ActivePool (callers with clocks and replies that grow old, and one      *)
(* Redis command at a time) is shown to implement it.                      *)
(***************************************************************************)
EXTENDS Naturals

CONSTANTS
    Callers,
    Receivers,
    Tickets

VARIABLES
    room,      \* who is waiting: ticket, receiver and until when
    issued,    \* the last ticket
    holder,    \* holder[n]: the senders that ticket n was given to
    time,
    wants,     \* wants[c]: the receivers that fit what sender c asks for
    asked,     \* asked[c]: when it asked
    erasing    \* erasing[c]: the receivers of the device that c erases

calls    == <<wants, asked, erasing>>
roomVars == <<room, issued, holder, time, calls>>

RoomInit ==
    /\ room = {}
    /\ issued = 0
    /\ holder = [n \in Tickets |-> {}]
    /\ time = 1
    /\ wants = [c \in Callers |-> {}]
    /\ asked = [c \in Callers |-> 0]
    /\ erasing = [c \in Callers |-> {}]

\* A sender asks.
Ask(c) ==
    /\ wants[c] = {} /\ erasing[c] = {}
    /\ \E fitting \in SUBSET Receivers : wants' = [wants EXCEPT ![c] = fitting]
    /\ asked' = [asked EXCEPT ![c] = time]
    /\ UNCHANGED <<room, issued, holder, time, erasing>>

\* A device asks to be forgotten.
Erase(c) ==
    /\ wants[c] = {} /\ erasing[c] = {}
    /\ \E own \in SUBSET Receivers : erasing' = [erasing EXCEPT ![c] = own]
    /\ UNCHANGED <<room, issued, holder, time, wants, asked>>

HangUp(c) ==
    /\ wants' = [wants EXCEPT ![c] = {}]
    /\ asked' = [asked EXCEPT ![c] = 0]
    /\ erasing' = [erasing EXCEPT ![c] = {}]

\* A receiver comes, or comes again: it waits once, under its last ticket.
Arrive ==
    /\ \E new \in room' :
          /\ new.ticket = issued + 1 /\ new.who \in Receivers
          /\ room' = {e \in room : e.who # new.who} \union {new}
    /\ issued' = issued + 1
    /\ UNCHANGED <<holder, time, calls>>

\* Those whose time has come may be sent away at any time.
Due == {e \in room : e.until <= time}

\* A receiver that sender c could be given.
Fitting(c) == {e \in room : e.who \in wants[c] /\ e.until > asked[c]}

Hand(c) ==
    /\ \E e \in Fitting(c), gone \in SUBSET Due :
          /\ room' = room \ (gone \union {e})
          /\ holder' = [holder EXCEPT ![e.ticket] = @ \union {c}]
    /\ HangUp(c)
    /\ UNCHANGED <<issued, time>>

\* The sender never hears of the receiver it was given; it may ask again.
Mislay(c) ==
    /\ \E e \in Fitting(c), gone \in SUBSET Due : room' = room \ (gone \union {e})
    /\ HangUp(c) \/ UNCHANGED calls
    /\ UNCHANGED <<issued, holder, time>>

\* Nobody is handed out; a call may end with that, or with an error.
Lapse ==
    /\ \E gone \in SUBSET Due : room' = room \ gone
    /\ UNCHANGED calls \/ \E c \in Callers : HangUp(c)
    /\ UNCHANGED <<issued, holder, time>>

Dismiss(c) ==
    /\ \E e \in room : e.who \in erasing[c] /\ room' = room \ {e}
    /\ UNCHANGED <<issued, holder, time, calls>>

Pass ==
    /\ time' = time + 1
    /\ UNCHANGED <<room, issued, holder, calls>>

RoomNext ==
    \/ Arrive \/ Lapse \/ Pass
    \/ \E c \in Callers : Ask(c) \/ Erase(c) \/ Hand(c) \/ Mislay(c) \/ Dismiss(c)

RoomSpec == RoomInit /\ [][RoomNext]_roomVars
=============================================================================
