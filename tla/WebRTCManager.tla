--------------------------- MODULE WebRTCManager ---------------------------
(***************************************************************************)
(* backend/internal/matching/webrtc.go: the Manager that brokers WebRTC    *)
(* peer sessions.  Request goroutines run its handlers concurrently, each  *)
(* under two kinds of mutex: m.mu guards the sessions map, ws.mu guards    *)
(* one session record.  A step of this module is a stretch of one          *)
(* handler between two points where another goroutine can get in: a lock   *)
(* being taken, a lock being given back, or, inside a critical section,    *)
(* the gaps between reading ws.State and assigning it, since expireLocked  *)
(* assigns ws.State without holding ws.mu.  So a handler is at "write"     *)
(* after its own look at ws.State, and at "commit" when transitionLocked   *)
(* has looked again and is about to assign; and expireLocked is at         *)
(* "forcedelete" when it has closed an entry that it has yet to delete.    *)
(*                                                                         *)
(* Sessions are named by their server-minted id, which is never reused.    *)
(* An SDP is reduced to whether it passes Validate; hashes have a valid    *)
(* shape, and so has whatever makes a handler return before it takes a     *)
(* lock when it has not.  An assignment of ws.State is one write.  The     *)
(* clock counts ticks up to MaxTime.                                       *)
(***************************************************************************)
EXTENDS Naturals, Sequences, FiniteSets

CONSTANTS
    Threads,      \* request goroutines
    Sessions,     \* the ids CreateSession may mint
    Peers,        \* device hashes
    Candidates,   \* ICE candidates
    Calls,        \* the requests clients send, a subset of Call
    ICECap,       \* m.iceCap: candidates kept per peer
    TTL,          \* m.ttl in clock ticks
    MaxTime,      \* bound on the clock
    NoThread, NoSession, NoPeer

Call == [kind : {"offer", "answer", "ice", "close", "fail", "expire"},
         id   : Sessions \union {NoSession},   \* NoSession: an offer without session_id
         peer : Peers,
         good : BOOLEAN]                       \* the SDP passes Validate

ASSUME ManagerAssumption ==
    /\ NoThread \notin Threads /\ NoSession \notin Sessions /\ NoPeer \notin Peers
    /\ Calls \subseteq Call
    /\ \A c \in Calls : /\ c.id = NoSession => c.kind \in {"offer", "expire"}
                       /\ ~c.good => c.kind = "offer"
    /\ ICECap \in Nat \ {0} /\ TTL \in Nat \ {0} /\ MaxTime \in Nat
    /\ IsFiniteSet(Sessions)

VARIABLES
    mmu,        \* holder of m.mu
    wsmu,       \* wsmu[s]: holder of the session's mutex
    active,     \* keys of m.sessions
    state,      \* ws.State; "unborn" before CreateSession
    stamp,      \* ws.UpdatedAt
    offerer,    \* ws.Offerer
    answerer,   \* ws.Answerer
    sdp,        \* which of ws.Offer and ws.Answer are set
    ice,        \* ws.Candidates: a list per peer
    now,        \* m.now()
    pc,         \* where each goroutine is
    call,       \* the request it serves
    todo,       \* expireLocked: map entries still to visit
    cur,        \* expireLocked: the entry being visited
    at          \* the now argument of expireLocked or transitionLocked

locks   == <<mmu, wsmu>>
record  == <<offerer, answerer, sdp, ice>>
session == <<active, state, stamp, record>>
scan    == <<todo, cur, at>>
thread  == <<pc, call, scan>>
vars    == <<locks, session, now, thread>>

-----------------------------------------------------------------------------
\* The per-session state machine.

SessionState == {"new", "connecting", "connected", "closed", "failed", "failed_offer"}
Terminal     == {"closed", "failed", "failed_offer"}

\* How far along a session is; the three terminal states share a rank.
Rank(st) == CASE st = "unborn"     -> 0
              [] st = "new"        -> 1
              [] st = "connecting" -> 2
              [] st = "connected"  -> 3
              [] OTHER             -> 4

\* The moves transitionLocked accepts without force; staying put is always one.
Allowed(from, to) ==
    \/ from = to
    \/ from = "new"        /\ to \in {"connecting", "failed", "failed_offer"}
    \/ from = "connecting" /\ to \in {"connected", "failed"}
    \/ from = "connected"  /\ to \in {"closed", "failed"}

-----------------------------------------------------------------------------
\* Control flow of a goroutine.

NoCall == [kind |-> "none", id |-> NoSession, peer |-> NoPeer, good |-> FALSE]

Goto(t, label) ==
    /\ pc' = [pc EXCEPT ![t] = label]
    /\ UNCHANGED call

\* The handler returns to its caller.
Return(t) ==
    /\ pc' = [pc EXCEPT ![t] = "idle"]
    /\ call' = [call EXCEPT ![t] = NoCall]

Init ==
    /\ mmu = NoThread
    /\ wsmu = [s \in Sessions |-> NoThread]
    /\ active = {}
    /\ state = [s \in Sessions |-> "unborn"]
    /\ stamp = [s \in Sessions |-> 0]
    /\ offerer = [s \in Sessions |-> NoPeer]
    /\ answerer = [s \in Sessions |-> NoPeer]
    /\ sdp = [s \in Sessions |-> {}]
    /\ ice = [s \in Sessions |-> [p \in Peers |-> <<>>]]
    /\ now = 0
    /\ pc = [t \in Threads |-> "idle"]
    /\ call = [t \in Threads |-> NoCall]
    /\ todo = [t \in Threads |-> {}]
    /\ cur = [t \in Threads |-> NoSession]
    /\ at = [t \in Threads |-> 0]

\* Slip: an id that is not in the map is taken to be a fresh one.
NotInMap == Sessions \ active

\* The ids that newSessionID has not minted.
Unborn == {s \in Sessions : state[s] = "unborn"}

\* Goroutines that may still mint an id.
Creating == {t \in Threads : call[t].kind = "offer" /\ call[t].id = NoSession}

\* A request arrives.  Bound: offers without an id come only while an id is left.
Begin(t) ==
    /\ pc[t] = "idle"
    /\ \E c \in Calls :
         /\ c.kind = "offer" /\ c.id = NoSession
              => Cardinality(Creating) < Cardinality(Unborn)
         /\ call' = [call EXCEPT ![t] = c]
    /\ pc' = [pc EXCEPT ![t] = "lock"]
    /\ UNCHANGED <<locks, session, now, scan>>

-----------------------------------------------------------------------------
\* Under m.mu: the lazy expiry, then the lookup or the insertion.

\* Slip: the walk stops after the first entry.
VisitOne(t, rest) ==
    \/ /\ rest = {} \/ pc[t] # "lock"
       /\ cur' = [cur EXCEPT ![t] = NoSession]
       /\ pc' = [pc EXCEPT ![t] = "lookup"]
    \/ /\ pc[t] = "lock"
       /\ \E s \in rest : cur' = [cur EXCEPT ![t] = s]
       /\ pc' = [pc EXCEPT ![t] = "scan"]

\* The map iteration commits to the next entry, or is over.
VisitNext(t, rest) ==
    \/ /\ rest = {}
       /\ cur' = [cur EXCEPT ![t] = NoSession]
       /\ pc' = [pc EXCEPT ![t] = "lookup"]
    \/ \E s \in rest :
       /\ cur' = [cur EXCEPT ![t] = s]
       /\ pc' = [pc EXCEPT ![t] = "scan"]

\* m.mu.Lock in GetSession, CreateSession or Expire; expireLocked(m.now()) starts.
LockManager(t) ==
    /\ pc[t] = "lock"
    /\ mmu = NoThread
    /\ mmu' = t
    /\ at' = [at EXCEPT ![t] = now]
    /\ todo' = [todo EXCEPT ![t] = active]
    /\ VisitNext(t, active)
    /\ UNCHANGED <<wsmu, session, now, call>>

\* ws.UpdatedAt.Before(cutoff).
Stale(s, when) == stamp[s] + TTL < when

\* Under ws.mu, expireLocked reads stale and terminal and unlocks again.
ScanSession(t) ==
    /\ pc[t] = "scan"
    /\ wsmu[cur[t]] = NoThread
    /\ IF Stale(cur[t], at[t]) /\ state[cur[t]] \notin Terminal
       THEN /\ pc' = [pc EXCEPT ![t] = "forceclose"]
            /\ UNCHANGED <<todo, cur>>
       ELSE /\ todo' = [todo EXCEPT ![t] = @ \ {cur[t]}]
            /\ VisitNext(t, todo[t] \ {cur[t]})
    /\ UNCHANGED <<locks, session, now, call, at>>

\* transitionLocked(closed, force): whatever the state is, it becomes closed.
ForceTransition(t) ==
    LET s == cur[t]
    IN  /\ state' = [state EXCEPT ![s] = "closed"]
        /\ stamp' = [stamp EXCEPT ![s] = IF state[s] = "closed" THEN @ ELSE at[t]]

\* ... and acts on what it read without the lock.  Until the entry is deleted the
\* map holds a record that handlers which had looked it up earlier still write.
ForceClose(t) ==
    /\ pc[t] = "forceclose"
    /\ ForceTransition(t)
    /\ Goto(t, "forcedelete")
    /\ UNCHANGED <<locks, active, record, now, scan>>

\* Slip: the expired entry is closed but not deleted.
ForceDeleteKeeps(t) ==
    /\ pc[t] = "forcedelete"
    /\ todo' = [todo EXCEPT ![t] = @ \ {cur[t]}]
    /\ VisitNext(t, todo[t] \ {cur[t]})
    /\ UNCHANGED <<locks, session, now, call, at>>

\* delete(m.sessions, id), and on to the next entry.
ForceDelete(t) ==
    /\ pc[t] = "forcedelete"
    /\ active' = active \ {cur[t]}
    /\ todo' = [todo EXCEPT ![t] = @ \ {cur[t]}]
    /\ VisitNext(t, todo[t] \ {cur[t]})
    /\ UNCHANGED <<locks, state, stamp, record, now, call, at>>

\* The end of every critical section on m.mu.
UnlockManager(t) ==
    /\ mmu' = NoThread
    /\ at' = [at EXCEPT ![t] = 0]
    /\ UNCHANGED <<wsmu, todo, cur, now>>

\* CreateSession inserts a new record; HandleOffer then calls ApplyOffer with its id.
CreateSession(t) ==
    /\ pc[t] = "lookup"
    /\ call[t].kind = "offer" /\ call[t].id = NoSession
    /\ \E s \in Unborn :
         /\ state' = [state EXCEPT ![s] = "new"]
         /\ stamp' = [stamp EXCEPT ![s] = now]
         /\ offerer' = [offerer EXCEPT ![s] = call[t].peer]
         /\ active' = active \union {s}
         /\ call' = [call EXCEPT ![t].id = s]
    /\ pc' = [pc EXCEPT ![t] = "lock"]
    /\ UnlockManager(t)
    /\ UNCHANGED <<answerer, sdp, ice>>

\* GetSession finds the record.  A bad SDP sends ApplyOffer on to FailOffer,
\* which looks the session up again.
Found(t) ==
    /\ pc[t] = "lookup"
    /\ call[t].kind # "expire"
    /\ call[t].id \in active
    /\ IF call[t].kind = "offer" /\ ~call[t].good
       THEN /\ pc' = [pc EXCEPT ![t] = "lock"]
            /\ call' = [call EXCEPT ![t].kind = "failoffer"]
       ELSE Goto(t, "enter")
    /\ UnlockManager(t)
    /\ UNCHANGED session

\* ErrSessionNotFound, or the end of a call to Expire.
NotFound(t) ==
    /\ pc[t] = "lookup"
    /\ \/ call[t].kind = "expire"
       \/ call[t].id \in Sessions \ active
    /\ Return(t)
    /\ UnlockManager(t)
    /\ UNCHANGED session

-----------------------------------------------------------------------------
\* Under ws.mu: every handler checks the record and then writes it.

\* Slips: an answerer that is not told apart from the offerer, and an answer
\* that is taken again by a connected session.
AdmitsSelfAnswer(c) ==
    LET s == c.id
    IN  CASE c.kind \in {"offer", "failoffer"} -> state[s] = "new"
          [] c.kind = "answer" -> state[s] = "connecting"
          [] c.kind = "close"  -> state[s] # "closed"
          [] OTHER             -> state[s] \notin Terminal

AdmitsLateAnswer(c) ==
    LET s == c.id
    IN  CASE c.kind \in {"offer", "failoffer"} -> state[s] = "new"
          [] c.kind = "answer" -> state[s] \in {"connecting", "connected"}
          [] c.kind = "close"  -> state[s] # "closed"
          [] OTHER             -> state[s] \notin Terminal

\* What each method requires of the record before it writes.
Admits(c) ==
    LET s == c.id
    IN  CASE c.kind \in {"offer", "failoffer"} -> state[s] = "new"
          [] c.kind = "answer" -> /\ state[s] = "connecting"
                                  /\ c.peer # offerer[s]
                                  /\ answerer[s] \in {NoPeer, c.peer}
          [] c.kind = "close"  -> state[s] # "closed"
          [] OTHER             -> state[s] \notin Terminal

\* ws.mu.Lock and the checks; a refused request gives the lock straight back.
\* CloseSession of a failed session only drops the record.
Enter(t) ==
    /\ pc[t] = "enter"
    /\ wsmu[call[t].id] = NoThread
    /\ \/ /\ Admits(call[t])
          /\ wsmu' = [wsmu EXCEPT ![call[t].id] = t]
          /\ Goto(t, IF call[t].kind = "close" /\ state[call[t].id] = "failed"
                     THEN "remove" ELSE "write")
       \/ /\ ~Admits(call[t])
          /\ Return(t)
          /\ UNCHANGED wsmu
    /\ UNCHANGED <<mmu, session, now, scan>>

\* The state a handler wants, and whether it forces the transition.
Target(c) == CASE c.kind = "offer"     -> IF c.peer = offerer[c.id] THEN "connecting"
                                          ELSE "failed_offer"
               [] c.kind = "answer"    -> "connected"
               [] c.kind = "close"     -> "closed"
               [] c.kind = "failoffer" -> "failed_offer"
               [] OTHER                -> "failed"

Accepts(c) == c.kind = "fail" \/ Allowed(state[c.id], Target(c))

\* What comes after a successful transition: the response, or under ws.mu the
\* removal from the map.
After(c) == IF Target(c) \in {"connecting", "connected"} THEN "snapshot" ELSE "remove"

Unlock(t) == wsmu' = [wsmu EXCEPT ![call[t].id] = NoThread]

\* Slip: a handler that goes on to the response with ws.mu still locked.
LeaveLocked(t) == Goto(t, After(call[t])) /\ UNCHANGED wsmu

\* The rest of a handler after a successful transition.
Leave(t) ==
    /\ Goto(t, After(call[t]))
    /\ IF After(call[t]) = "remove" THEN UNCHANGED wsmu ELSE Unlock(t)

\* Slip: an error return that leaves ws.mu locked.
RefuseLocked(t) == Return(t) /\ UNCHANGED wsmu

\* transitionLocked failed: the deferred unlock, and the error.
Refuse(t) == Return(t) /\ Unlock(t)

\* transitionLocked up to its assignments.
Decide(t) ==
    LET st == state[call[t].id]
        to == Target(call[t])
    IN  \/ st = to /\ Leave(t) /\ UNCHANGED at
        \/ /\ st # to /\ Accepts(call[t])
           /\ Goto(t, "commit")
           /\ at' = [at EXCEPT ![t] = now]
           /\ UNCHANGED wsmu
        \/ st # to /\ ~Accepts(call[t]) /\ Refuse(t) /\ UNCHANGED at

\* ws.State = to; ws.UpdatedAt = now; and on with the handler.
Commit(t) ==
    LET s == call[t].id
    IN  /\ pc[t] = "commit"
        /\ state' = [state EXCEPT ![s] = Target(call[t])]
        /\ stamp' = [stamp EXCEPT ![s] = at[t]]
        /\ at' = [at EXCEPT ![t] = 0]
        /\ Leave(t)
        /\ UNCHANGED <<mmu, active, record, now, todo, cur>>

Writing(t, kind) == pc[t] = "write" /\ call[t].kind = kind

ApplyOffer(t) ==
    LET s == call[t].id
    IN  /\ Writing(t, "offer")
        /\ call[t].peer = offerer[s]
        /\ sdp' = [sdp EXCEPT ![s] = @ \union {"offer"}]
        /\ Decide(t)
        /\ UNCHANGED <<mmu, active, state, stamp, offerer, answerer, ice, now, todo, cur>>

\* The branch of ApplyOffer that inlines FailOffer.
OffererMismatch(t) ==
    /\ Writing(t, "offer")
    /\ call[t].peer # offerer[call[t].id]
    /\ Decide(t)
    /\ UNCHANGED <<mmu, session, now, todo, cur>>

ApplyAnswer(t) ==
    LET s == call[t].id
    IN  /\ Writing(t, "answer")
        /\ answerer' = [answerer EXCEPT ![s] = call[t].peer]
        /\ sdp' = [sdp EXCEPT ![s] = @ \union {"answer"}]
        /\ Decide(t)
        /\ UNCHANGED <<mmu, active, state, stamp, offerer, ice, now, todo, cur>>

\* Slip: the window slides one candidate too late.
SlideLate(list, c) == Append(IF Len(list) > ICECap THEN Tail(list) ELSE list, c)

\* The sliding window: a full list loses its oldest candidate.
Slide(list, c) == Append(IF Len(list) >= ICECap THEN Tail(list) ELSE list, c)

AppendICE(t) ==
    LET s == call[t].id
    IN  /\ Writing(t, "ice")
        /\ \E c \in Candidates :
             ice' = [ice EXCEPT ![s][call[t].peer] = Slide(@, c)]
        /\ stamp' = [stamp EXCEPT ![s] = now]
        /\ Unlock(t)
        /\ Goto(t, "snapshot")
        /\ UNCHANGED <<mmu, active, state, offerer, answerer, sdp, now, scan>>

CloseSession(t) ==
    Writing(t, "close") /\ Decide(t) /\ UNCHANGED <<mmu, session, now, todo, cur>>

FailSession(t) ==
    Writing(t, "fail") /\ Decide(t) /\ UNCHANGED <<mmu, session, now, todo, cur>>

FailOffer(t) ==
    Writing(t, "failoffer") /\ Decide(t) /\ UNCHANGED <<mmu, session, now, todo, cur>>

\* m.mu.Lock; delete(m.sessions, id); m.mu.Unlock, all under ws.mu.
Remove(t) ==
    /\ pc[t] = "remove"
    /\ mmu = NoThread
    /\ active' = active \ {call[t].id}
    /\ Unlock(t)
    /\ Return(t)
    /\ UNCHANGED <<mmu, state, stamp, record, now, scan>>

-----------------------------------------------------------------------------
\* writeResponse: Snapshot, RemoteCandidates and peerList, which take ws.mu one
\* after the other only to read, are one step.
Snapshot(t) ==
    /\ pc[t] = "snapshot"
    /\ wsmu[call[t].id] = NoThread
    /\ Return(t)
    /\ UNCHANGED <<locks, session, now, scan>>

Tick ==
    /\ now < MaxTime
    /\ now' = now + 1
    /\ UNCHANGED <<locks, session, thread>>

-----------------------------------------------------------------------------

\* A step of a goroutine that is serving a request.
Step(t) ==
    \/ LockManager(t) \/ ScanSession(t) \/ ForceClose(t) \/ ForceDelete(t)
    \/ CreateSession(t) \/ Found(t) \/ NotFound(t)
    \/ Enter(t)
    \/ ApplyOffer(t) \/ OffererMismatch(t) \/ ApplyAnswer(t) \/ AppendICE(t)
    \/ CloseSession(t) \/ FailSession(t) \/ FailOffer(t)
    \/ Commit(t) \/ Remove(t) \/ Snapshot(t)

Next == Tick \/ \E t \in Threads : Begin(t) \/ Step(t)

Spec == Init /\ [][Next]_vars

\* A goroutine inside a handler is scheduled, and a sync.Mutex hands itself to
\* whoever has waited for a millisecond, so no waiter is starved.
FairSpec == Spec /\ \A t \in Threads : SF_vars(Step(t))

-----------------------------------------------------------------------------
\* Properties.

Label == {"idle", "lock", "scan", "forceclose", "forcedelete", "lookup", "enter",
          "write", "commit", "remove", "snapshot"}

RunningCall ==
    [kind : {"offer", "answer", "ice", "close", "fail", "expire", "failoffer", "none"},
     id : Sessions \union {NoSession}, peer : Peers \union {NoPeer}, good : BOOLEAN]

\* The types of the variables, and the cap on a peer's candidate list.
TypeOK ==
    /\ mmu \in Threads \union {NoThread}
    /\ wsmu \in [Sessions -> Threads \union {NoThread}]
    /\ active \in SUBSET Sessions
    /\ state \in [Sessions -> SessionState \union {"unborn"}]
    /\ stamp \in [Sessions -> 0..MaxTime]
    /\ offerer \in [Sessions -> Peers \union {NoPeer}]
    /\ answerer \in [Sessions -> Peers \union {NoPeer}]
    /\ sdp \in [Sessions -> SUBSET {"offer", "answer"}]
    /\ ice \in [Sessions -> [Peers -> Seq(Candidates)]]
    /\ \A s \in Sessions, p \in Peers : Len(ice[s][p]) <= ICECap
    /\ now \in 0..MaxTime
    /\ pc \in [Threads -> Label]
    /\ call \in [Threads -> RunningCall]
    /\ todo \in [Threads -> SUBSET Sessions]
    /\ cur \in [Threads -> Sessions \union {NoSession}]
    /\ at \in [Threads -> 0..MaxTime]

\* Every lock is held by a goroutine that is inside the matching critical
\* section, and a goroutine inside one holds its lock: no handler returns, and
\* none goes on to the next GetSession, with a mutex still locked.
LockDiscipline ==
    /\ \A t \in Threads : mmu = t <=> pc[t] \in {"scan", "forceclose", "forcedelete", "lookup"}
    /\ \A t \in Threads, s \in Sessions :
         wsmu[s] = t <=> pc[t] \in {"write", "commit", "remove"} /\ call[t].id = s

\* A handler has written the SDP of session s and is about to write its state.
HalfWritten(s) == \E t \in Threads :
    pc[t] = "commit" /\ call[t].id = s /\ call[t].kind \in {"offer", "answer"}

\* What the handshake has established by the time a session is in a given
\* state, whatever the other goroutines (the expiry included) did meanwhile:
\* connecting means offered and not answered by anybody, connected means
\* offered and answered by a peer other than the offerer.
HandshakeShape ==
    \A s \in Sessions : ~HalfWritten(s) =>
        /\ state[s] = "new" =>
             sdp[s] = {} /\ answerer[s] = NoPeer /\ offerer[s] # NoPeer
        /\ state[s] = "connecting" =>
             sdp[s] = {"offer"} /\ answerer[s] = NoPeer /\ offerer[s] # NoPeer
        /\ state[s] = "connected" =>
             /\ sdp[s] = {"offer", "answer"}
             /\ answerer[s] \notin {NoPeer, offerer[s]}

\* The entries of the map that a lookup can come upon.  The others have been closed
\* by an expiry that deletes them before it gives m.mu back.
Visible == {s \in active : ~ \E t \in Threads : pc[t] = "forcedelete" /\ cur[t] = s}

\* A session that has ended never stays behind in the map: expireLocked skips
\* terminal entries, so one that nobody is about to delete would leak for the
\* life of the process.
NoTerminalLeak ==
    \A s \in active : state[s] \in Terminal =>
        \E t \in Threads : \/ pc[t] = "remove" /\ call[t].id = s
                           \/ pc[t] = "forcedelete" /\ cur[t] = s

\* When expireLocked is through and the lookup is about to happen, no entry of
\* the map is both alive and past the TTL: GetSession never hands out a stale
\* session, although other goroutines write the records while the map is walked.
NoStaleLookup ==
    \A t \in Threads : pc[t] = "lookup" =>
        \A s \in active : state[s] \in Terminal \/ ~Stale(s, at[t])

\* A session that a lookup can come upon never moves backwards, although
\* expireLocked assigns the state without the lock: whatever a handler writes over
\* a close that overtook it, GetSession never finds an ended session alive again.
\* It says nothing of an entry that an expiry has closed and not deleted yet
\* (webrtc.go:937-938), nor of a deleted record: a handler that had passed its
\* checks does bring both back to life, which is what EndIsFinal shows.
StateNeverRegresses ==
    [][\A s \in Visible : Rank(state[s]) <= Rank(state'[s])]_vars

\* The two devices of a session are fixed once and for all.
PartiesAreStable ==
    [][\A s \in Sessions :
         /\ offerer[s] # NoPeer => offerer'[s] = offerer[s]
         /\ answerer[s] # NoPeer => answerer'[s] = answerer[s]]_vars

\* To whoever looks sessions up, the manager implements their life as
\* SessionLifecycle tells it; a session that no lookup can come upon is done.
Life == INSTANCE SessionLifecycle WITH
    life <- [s \in Sessions |->
               IF state[s] # "unborn" /\ (state[s] \in Terminal \/ s \notin Visible)
               THEN "done" ELSE state[s]],
    registered <- Visible

LifecycleSpec == Life!LifecycleSpec

\* Every request that is being served is answered.
CallsReturn == \A t \in Threads : pc[t] # "idle" ~> pc[t] = "idle"

\* "Manager owns all active WebRTCSession records. Concurrent access is safe."
\* (webrtc.go:544-545): no goroutine holds m.mu and waits for the ws.mu of one
\* that waits for m.mu.
NoLockCycle ==
    ~ \E t, u \in Threads :
        /\ pc[t] = "scan" /\ wsmu[cur[t]] = u
        /\ pc[u] = "remove"

\* "SessionStateClosed: explicit "bye" or hard timeout.  Terminal - no further
\* transitions" (webrtc.go:108-109), and likewise of the other two: a session
\* that has ended is never alive again.
EndIsFinal ==
    [][\A s \in Sessions : state[s] \in Terminal => state'[s] \in Terminal]_vars
=============================================================================
