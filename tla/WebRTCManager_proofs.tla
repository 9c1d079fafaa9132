----------------------- MODULE WebRTCManager_proofs -----------------------
(***************************************************************************)
(* Proofs about WebRTCManager, for any number of goroutines, sessions and  *)
(* peers, any TTL and candidate cap, and any set of requests.              *)
(***************************************************************************)
EXTENDS WebRTCManager, SequenceTheorems, TLAPS

-----------------------------------------------------------------------------
\* Type correctness.

\* The candidate window stays a list within the cap.
LEMMA SlideType ==
    ASSUME NEW list \in Seq(Candidates), Len(list) <= ICECap, NEW c \in Candidates
    PROVE  /\ Slide(list, c) \in Seq(Candidates)
           /\ Len(Slide(list, c)) <= ICECap
<1>1. ICECap \in Nat \ {0}  BY ManagerAssumption
<1>2. CASE Len(list) >= ICECap
    <2>1. list # <<>>  BY <1>1, <1>2
    <2>2. Tail(list) \in Seq(Candidates) /\ Len(Tail(list)) = Len(list) - 1
        BY <2>1, HeadTailProperties
    <2>3. QED  BY <1>1, <1>2, <2>2, AppendProperties DEF Slide
<1>3. CASE ~(Len(list) >= ICECap)
    BY <1>1, <1>3, AppendProperties, LenProperties DEF Slide
<1>4. QED  BY <1>2, <1>3

\* Wherever a goroutine walks the map, it goes on to a legal place.
LEMMA VisitType ==
    ASSUME TypeOK, NEW t \in Threads, NEW rest \in SUBSET Sessions, VisitNext(t, rest)
    PROVE  /\ pc' \in [Threads -> Label]
           /\ cur' \in [Threads -> Sessions \union {NoSession}]
<1>1. /\ pc \in [Threads -> Label]
      /\ cur \in [Threads -> Sessions \union {NoSession}]
    BY DEF TypeOK
<1>2. "lookup" \in Label /\ "scan" \in Label  BY DEF Label
<1>3. PICK s \in Sessions \union {NoSession}, label \in Label :
          cur' = [cur EXCEPT ![t] = s] /\ pc' = [pc EXCEPT ![t] = label]
    BY <1>2 DEF VisitNext
<1>4. QED  BY <1>1, <1>3

\* What a goroutine serves is a request or nothing at all.
LEMMA NoCallType == NoCall \in RunningCall
BY DEF NoCall, RunningCall

\* Every request a client may send is one a goroutine may serve.
LEMMA CallType == Calls \subseteq RunningCall
BY ManagerAssumption DEF Call, RunningCall

\* The initial state is well typed.
LEMMA InitType == Init => TypeOK
<1> SUFFICES ASSUME Init PROVE TypeOK  OBVIOUS
<1>1. \A s \in Sessions, p \in Peers : ice[s][p] = <<>>  BY DEF Init
<1>2. ice \in [Sessions -> [Peers -> Seq(Candidates)]]  BY DEF Init
<1>3. \A s \in Sessions, p \in Peers : Len(ice[s][p]) <= ICECap
    BY <1>1, ManagerAssumption
<1>4. QED  BY <1>2, <1>3, NoCallType, ManagerAssumption DEF Init, TypeOK, Label

\* No handler wants a session to be new again.
LEMMA TargetType == \A c : Target(c) \in SessionState \ {"new"}
BY DEF Target, SessionState

\* Giving a session's mutex back leaves every mutex with a goroutine or nobody.
LEMMA UnlockType ==
    ASSUME TypeOK, NEW t \in Threads, Unlock(t)
    PROVE  wsmu' \in [Sessions -> Threads \union {NoThread}]
BY DEF TypeOK, Unlock

\* Going on after a successful transition leads to a legal place.
LEMMA LeaveType ==
    ASSUME TypeOK, NEW t \in Threads, Leave(t)
    PROVE  /\ pc' \in [Threads -> Label]
           /\ call' \in [Threads -> RunningCall]
           /\ wsmu' \in [Sessions -> Threads \union {NoThread}]
<1>1. After(call[t]) \in Label  BY DEF After, Label
<1>2. pc' \in [Threads -> Label] /\ call' \in [Threads -> RunningCall]
    BY <1>1 DEF TypeOK, Leave, Goto
<1>3. CASE After(call[t]) = "remove"  BY <1>2, <1>3 DEF Leave, TypeOK
<1>4. CASE After(call[t]) # "remove"
    <2>1. Unlock(t)  BY <1>4 DEF Leave
    <2>2. QED  BY <1>2, <2>1, UnlockType
<1>5. QED  BY <1>3, <1>4

\* A handler that returns serves nothing.
LEMMA ReturnType ==
    ASSUME TypeOK, NEW t \in Threads, Return(t)
    PROVE  pc' \in [Threads -> Label] /\ call' \in [Threads -> RunningCall]
BY NoCallType DEF TypeOK, Return, Label

\* transitionLocked leaves its goroutine at a legal place with legal locks.
LEMMA DecideType ==
    ASSUME TypeOK, NEW t \in Threads, Decide(t)
    PROVE  /\ pc' \in [Threads -> Label]
           /\ call' \in [Threads -> RunningCall]
           /\ wsmu' \in [Sessions -> Threads \union {NoThread}]
           /\ at' \in [Threads -> 0..MaxTime]
<1>1. CASE Leave(t) /\ UNCHANGED at
    <2>1. at' \in [Threads -> 0..MaxTime]  BY <1>1 DEF TypeOK
    <2>2. QED  BY <1>1, <2>1, LeaveType
<1>2. CASE Goto(t, "commit") /\ at' = [at EXCEPT ![t] = now] /\ UNCHANGED wsmu
    BY <1>2 DEF TypeOK, Goto, Label
<1>3. CASE Refuse(t) /\ UNCHANGED at
    <2>1. Return(t) /\ Unlock(t)  BY <1>3 DEF Refuse
    <2>2. at' \in [Threads -> 0..MaxTime]  BY <1>3 DEF TypeOK
    <2>3. QED  BY <2>1, <2>2, ReturnType, UnlockType
<1>4. QED  BY <1>1, <1>2, <1>3 DEF Decide

\* Every step keeps the variables well typed.
LEMMA NextType == TypeOK /\ [Next]_vars => TypeOK'
<1> SUFFICES ASSUME TypeOK, [Next]_vars PROVE TypeOK'  OBVIOUS
<1>0. NoCall \in RunningCall /\ Calls \subseteq RunningCall  BY NoCallType, CallType
<1>1. CASE UNCHANGED vars
    BY <1>1 DEF TypeOK, vars, locks, session, record, thread, scan
<1>2. CASE Tick
    <2>1. now' \in 0..MaxTime  BY <1>2, ManagerAssumption DEF TypeOK, Tick
    <2>2. QED
        BY <1>2, <2>1 DEF TypeOK, Tick, locks, session, record, thread, scan
<1>3. ASSUME NEW t \in Threads, Begin(t) PROVE TypeOK'
    <2>1. call' \in [Threads -> RunningCall]  BY <1>0, <1>3 DEF TypeOK, Begin
    <2>2. pc' \in [Threads -> Label]  BY <1>3 DEF TypeOK, Begin, Label
    <2>3. QED  BY <1>3, <2>1, <2>2 DEF TypeOK, Begin, locks, session, record, scan
<1>4. ASSUME NEW t \in Threads, LockManager(t) PROVE TypeOK'
    <2>1. active \in SUBSET Sessions  BY DEF TypeOK
    <2>2. pc' \in [Threads -> Label] /\ cur' \in [Threads -> Sessions \union {NoSession}]
        BY <1>4, <2>1, VisitType DEF LockManager
    <2>3. QED  BY <1>4, <2>2 DEF TypeOK, LockManager, session, record
<1>5. ASSUME NEW t \in Threads, ScanSession(t) PROVE TypeOK'
    <2>1. todo[t] \ {cur[t]} \in SUBSET Sessions  BY DEF TypeOK
    <2>2. /\ pc' \in [Threads -> Label] /\ cur' \in [Threads -> Sessions \union {NoSession}]
          /\ todo' \in [Threads -> SUBSET Sessions]
        <3>1. CASE Stale(cur[t], at[t]) /\ state[cur[t]] \notin Terminal
            BY <1>5, <3>1 DEF TypeOK, ScanSession, Label
        <3>2. CASE ~(Stale(cur[t], at[t]) /\ state[cur[t]] \notin Terminal)
            <4>1. VisitNext(t, todo[t] \ {cur[t]})  BY <1>5, <3>2 DEF ScanSession
            <4>2. todo' = [todo EXCEPT ![t] = @ \ {cur[t]}]  BY <1>5, <3>2 DEF ScanSession
            <4>3. QED  BY <2>1, <4>1, <4>2, VisitType DEF TypeOK
        <3>3. QED  BY <3>1, <3>2
    <2>3. QED  BY <1>5, <2>2 DEF TypeOK, ScanSession, locks, session, record
<1>6. ASSUME NEW t \in Threads, ForceClose(t) PROVE TypeOK'
    <2>1. pc' \in [Threads -> Label] /\ call' = call  BY <1>6 DEF TypeOK, ForceClose, Goto, Label
    <2>2. /\ state' \in [Sessions -> SessionState \union {"unborn"}]
          /\ stamp' \in [Sessions -> 0..MaxTime]
        BY <1>6 DEF TypeOK, ForceClose, ForceTransition, SessionState
    <2>3. QED  BY <1>6, <2>1, <2>2 DEF TypeOK, ForceClose, locks, record, scan
<1>6a. ASSUME NEW t \in Threads, ForceDelete(t) PROVE TypeOK'
    <2>1. todo[t] \ {cur[t]} \in SUBSET Sessions  BY DEF TypeOK
    <2>2. pc' \in [Threads -> Label] /\ cur' \in [Threads -> Sessions \union {NoSession}]
        BY <1>6a, <2>1, VisitType DEF ForceDelete
    <2>3. QED  BY <1>6a, <2>2 DEF TypeOK, ForceDelete, locks, record
<1>7. ASSUME NEW t \in Threads, CreateSession(t) PROVE TypeOK'
    <2>1. PICK s \in Sessions :
              /\ state' = [state EXCEPT ![s] = "new"]
              /\ stamp' = [stamp EXCEPT ![s] = now]
              /\ offerer' = [offerer EXCEPT ![s] = call[t].peer]
              /\ active' = active \union {s}
              /\ call' = [call EXCEPT ![t].id = s]
        BY <1>7 DEF CreateSession, Unborn
    <2>2. call[t] \in RunningCall  BY DEF TypeOK
    <2>3. call[t].peer \in Peers \union {NoPeer} /\ [call[t] EXCEPT !.id = s] \in RunningCall
        BY <2>2 DEF RunningCall
    <2>4. call' \in [Threads -> RunningCall]  BY <2>1, <2>3 DEF TypeOK
    <2>5. state' \in [Sessions -> SessionState \union {"unborn"}]
        BY <2>1 DEF TypeOK, SessionState
    <2>6. QED
        BY <1>7, <2>1, <2>3, <2>4, <2>5, ManagerAssumption
        DEF TypeOK, CreateSession, UnlockManager, Label
<1>8. ASSUME NEW t \in Threads, Found(t) PROVE TypeOK'
    <2>1. call[t] \in RunningCall  BY DEF TypeOK
    <2>2. [call[t] EXCEPT !.kind = "failoffer"] \in RunningCall  BY <2>1 DEF RunningCall
    <2>3. call' \in [Threads -> RunningCall] /\ pc' \in [Threads -> Label]
        <3>1. call \in [Threads -> RunningCall] /\ pc \in [Threads -> Label]  BY DEF TypeOK
        <3>2. "lock" \in Label /\ "enter" \in Label  BY DEF Label
        <3>3. CASE call[t].kind = "offer" /\ ~call[t].good
            <4>1. /\ pc' = [pc EXCEPT ![t] = "lock"]
                  /\ call' = [call EXCEPT ![t] = [@ EXCEPT !.kind = "failoffer"]]
                BY <1>8, <3>3 DEF Found
            <4>2. pc' \in [Threads -> Label]  BY <3>1, <3>2, <4>1
            <4>3. call' \in [Threads -> RunningCall]  BY <2>2, <3>1, <4>1
            <4>4. QED  BY <4>2, <4>3
        <3>4. CASE ~(call[t].kind = "offer" /\ ~call[t].good)
            <4>1. pc' = [pc EXCEPT ![t] = "enter"] /\ call' = call
                BY <1>8, <3>4 DEF Found, Goto
            <4>2. QED  BY <3>1, <3>2, <4>1
        <3>5. QED  BY <3>3, <3>4
    <2>4. QED
        <3>1. UnlockManager(t) /\ UNCHANGED session  BY <1>8 DEF Found
        <3>2. QED
            BY <2>3, <3>1, ManagerAssumption DEF TypeOK, UnlockManager, session, record
<1>9. ASSUME NEW t \in Threads, NotFound(t) PROVE TypeOK'
    BY <1>0, <1>9, ManagerAssumption
    DEF TypeOK, NotFound, Return, UnlockManager, session, record, Label
<1>10. ASSUME NEW t \in Threads, Enter(t) PROVE TypeOK'
    <2>1. pc' \in [Threads -> Label] /\ call' \in [Threads -> RunningCall]
        <3>1. CASE Admits(call[t])
            <4>1. PICK label \in {"remove", "write"} : Goto(t, label)
                BY <1>10, <3>1 DEF Enter
            <4>2. QED  BY <4>1 DEF TypeOK, Goto, Label
        <3>2. CASE ~Admits(call[t])
            <4>1. Return(t)  BY <1>10, <3>2 DEF Enter
            <4>2. QED  BY <1>0, <4>1 DEF TypeOK, Return, Label
        <3>3. QED  BY <3>1, <3>2
    <2>2. wsmu' \in [Sessions -> Threads \union {NoThread}]  BY <1>10 DEF TypeOK, Enter
    <2>3. QED  BY <1>10, <2>1, <2>2 DEF TypeOK, Enter, session, record, scan
<1>11. ASSUME NEW t \in Threads, ApplyOffer(t) PROVE TypeOK'
    <2>1. Decide(t)  BY <1>11 DEF ApplyOffer
    <2>2. sdp' \in [Sessions -> SUBSET {"offer", "answer"}]
        BY <1>11 DEF TypeOK, ApplyOffer
    <2>3. QED  BY <1>11, <2>1, <2>2, DecideType DEF TypeOK, ApplyOffer
<1>12. ASSUME NEW t \in Threads, ApplyAnswer(t) PROVE TypeOK'
    <2>1. Decide(t)  BY <1>12 DEF ApplyAnswer
    <2>2. /\ sdp' \in [Sessions -> SUBSET {"offer", "answer"}]
          /\ answerer' \in [Sessions -> Peers \union {NoPeer}]
        <3>1. call[t].peer \in Peers \union {NoPeer}  BY DEF TypeOK, RunningCall
        <3>2. QED  BY <1>12, <3>1 DEF TypeOK, ApplyAnswer
    <2>3. QED  BY <1>12, <2>1, <2>2, DecideType DEF TypeOK, ApplyAnswer
<1>13. ASSUME NEW t \in Threads, AppendICE(t) PROVE TypeOK'
    <2> DEFINE s == call[t].id
               p == call[t].peer
    <2>1. PICK c \in Candidates : ice' = [ice EXCEPT ![s][p] = Slide(@, c)]
        BY <1>13 DEF AppendICE
    <2>2. ASSUME NEW x \in Sessions, NEW y \in Peers
          PROVE  ice'[x][y] \in Seq(Candidates) /\ Len(ice'[x][y]) <= ICECap
        <3>1. ice[x][y] \in Seq(Candidates) /\ Len(ice[x][y]) <= ICECap  BY DEF TypeOK
        <3>2. Slide(ice[x][y], c) \in Seq(Candidates) /\ Len(Slide(ice[x][y], c)) <= ICECap
            BY <3>1, SlideType
        <3>3. ice'[x][y] = ice[x][y] \/ ice'[x][y] = Slide(ice[x][y], c)
            BY <2>1 DEF TypeOK
        <3>4. QED  BY <3>1, <3>2, <3>3
    <2>3. ice' \in [Sessions -> [Peers -> Seq(Candidates)]]
        <3>1. ice' = [x \in Sessions |-> ice'[x]]  BY <2>1 DEF TypeOK
        <3>2. \A x \in Sessions : ice[x] = [y \in Peers |-> ice[x][y]]  BY DEF TypeOK
        <3>3. \A x \in Sessions : ice'[x] = [y \in Peers |-> ice'[x][y]]
            <4>1. SUFFICES ASSUME NEW x \in Sessions
                           PROVE  ice'[x] = [y \in Peers |-> ice'[x][y]]
                OBVIOUS
            <4>2. DOMAIN ice[x] = Peers  BY <3>2
            <4>3. ice'[x] = ice[x] \/ ice'[x] = [ice[x] EXCEPT ![p] = Slide(@, c)]
                BY <2>1 DEF TypeOK
            <4>4. QED  BY <3>2, <4>3
        <3>4. QED  BY <2>2, <3>1, <3>3
    <2>4. pc' \in [Threads -> Label] /\ call' \in [Threads -> RunningCall]
        BY <1>13 DEF TypeOK, AppendICE, Goto, Label
    <2>5. /\ stamp' \in [Sessions -> 0..MaxTime]
          /\ wsmu' \in [Sessions -> Threads \union {NoThread}]
        BY <1>13 DEF TypeOK, AppendICE, Unlock
    <2>6. UNCHANGED <<mmu, active, state, offerer, answerer, sdp, now, todo, cur, at>>
        BY <1>13 DEF AppendICE, scan
    <2>7. QED  BY <2>2, <2>3, <2>4, <2>5, <2>6 DEF TypeOK
<1>14. ASSUME NEW t \in Threads, Decide(t), UNCHANGED <<mmu, session, now, todo, cur>>
       PROVE  TypeOK'
    BY <1>14, DecideType DEF TypeOK, session, record
<1>15. ASSUME NEW t \in Threads, OffererMismatch(t) PROVE TypeOK'
    BY <1>14, <1>15 DEF OffererMismatch
<1>16. ASSUME NEW t \in Threads, CloseSession(t) PROVE TypeOK'
    BY <1>14, <1>16 DEF CloseSession
<1>17. ASSUME NEW t \in Threads, FailSession(t) PROVE TypeOK'
    BY <1>14, <1>17 DEF FailSession
<1>18. ASSUME NEW t \in Threads, FailOffer(t) PROVE TypeOK'
    BY <1>14, <1>18 DEF FailOffer
<1>19. ASSUME NEW t \in Threads, Commit(t) PROVE TypeOK'
    <2>1. /\ pc' \in [Threads -> Label] /\ call' \in [Threads -> RunningCall]
          /\ wsmu' \in [Sessions -> Threads \union {NoThread}]
        BY <1>19, LeaveType DEF Commit
    <2>2. /\ state' \in [Sessions -> SessionState \union {"unborn"}]
          /\ stamp' \in [Sessions -> 0..MaxTime]
          /\ at' \in [Threads -> 0..MaxTime]
        <3>1. Target(call[t]) \in SessionState  BY TargetType
        <3>2. at[t] \in 0..MaxTime /\ 0 \in 0..MaxTime  BY ManagerAssumption DEF TypeOK
        <3>3. /\ state' = [state EXCEPT ![call[t].id] = Target(call[t])]
              /\ stamp' = [stamp EXCEPT ![call[t].id] = at[t]]
              /\ at' = [at EXCEPT ![t] = 0]
            BY <1>19 DEF Commit
        <3>4. QED  BY <3>1, <3>2, <3>3 DEF TypeOK
    <2>3. QED  BY <1>19, <2>1, <2>2 DEF TypeOK, Commit, record
<1>20. ASSUME NEW t \in Threads, Remove(t) PROVE TypeOK'
    <2>1. Unlock(t) /\ Return(t)  BY <1>20 DEF Remove
    <2>2. QED  BY <1>20, <2>1, UnlockType, ReturnType DEF TypeOK, Remove, record, scan
<1>21. ASSUME NEW t \in Threads, Snapshot(t) PROVE TypeOK'
    <2>1. Return(t)  BY <1>21 DEF Snapshot
    <2>2. QED  BY <1>21, <2>1, ReturnType DEF TypeOK, Snapshot, locks, session, record, scan
<1>22. QED
    BY <1>1, <1>2, <1>3, <1>4, <1>5, <1>6, <1>6a, <1>7, <1>8, <1>9, <1>10, <1>11, <1>12, <1>13,
       <1>15, <1>16, <1>17, <1>18, <1>19, <1>20, <1>21
    DEF Next, Step

\* The variables keep their types and no candidate list outgrows the cap.
THEOREM TypeCorrect == Spec => []TypeOK
BY InitType, NextType, PTL DEF Spec

-----------------------------------------------------------------------------
\* The inductive invariant: what every goroutine relies on at the place where it
\* is, although the goroutines do not all hold a lock while they rely on it.

\* The places at which a handler works on the record it was asked for.
Serving == {"enter", "write", "commit", "remove", "snapshot"}

\* A served request names a device, and a record that exists.
CallShape == \A t \in Threads :
    /\ pc[t] # "idle" => call[t].peer \in Peers
    /\ pc[t] \in Serving => call[t].id \in Sessions /\ state[call[t].id] # "unborn"

\* While the map is walked under m.mu nothing leaves it behind the walker's back.
ScanShape == \A t \in Threads :
    pc[t] \in {"scan", "forceclose", "forcedelete"}
        => cur[t] \in todo[t] /\ todo[t] \subseteq active

\* A session that was not created is in no map and has no history; one that was
\* has an offerer.
EarlyShape == \A s \in Sessions :
    /\ s \in active => state[s] # "unborn"
    /\ state[s] = "unborn" => sdp[s] = {} /\ offerer[s] = NoPeer /\ answerer[s] = NoPeer
    /\ state[s] # "unborn" => offerer[s] # NoPeer

\* What a check under ws.mu found still holds when the record is written, but
\* for an expiry that may have closed the session in between.
WriteFits(t) ==
    LET s == call[t].id
    IN  /\ call[t].kind \in {"offer", "failoffer"} =>
             state[s] \in {"new", "closed"} /\ sdp[s] = {} /\ answerer[s] = NoPeer
        /\ call[t].kind = "answer" =>
             /\ state[s] \in {"connecting", "closed"} /\ sdp[s] = {"offer"}
             /\ answerer[s] = NoPeer /\ call[t].peer # offerer[s]

WriteShape == \A t \in Threads : pc[t] = "write" => WriteFits(t)

\* ... and when transitionLocked assigns the state.
CommitFits(t) ==
    LET s == call[t].id
    IN  /\ call[t].kind \in {"offer", "failoffer"} => state[s] \in {"new", "closed"}
        /\ call[t].kind = "offer" /\ call[t].peer = offerer[s] =>
             sdp[s] = {"offer"} /\ answerer[s] = NoPeer
        /\ call[t].kind = "answer" =>
             /\ state[s] \in {"connecting", "closed"} /\ sdp[s] = {"offer", "answer"}
             /\ answerer[s] = call[t].peer /\ call[t].peer # offerer[s]

CommitShape == \A t \in Threads : pc[t] = "commit" => CommitFits(t)

\* Only a session that has ended is about to be deleted.
RemoveShape == \A t \in Threads : pc[t] = "remove" => state[call[t].id] \in Terminal

\* The places and the locks ...
ControlInv == TypeOK /\ LockDiscipline /\ CallShape /\ ScanShape /\ EarlyShape

\* ... and on top of them the records.
IInv ==
    /\ ControlInv
    /\ WriteShape /\ CommitShape /\ RemoveShape
    /\ HandshakeShape /\ NoTerminalLeak

-----------------------------------------------------------------------------
\* The locks.

\* A goroutine that gives its session's mutex back leaves the section it guards.
LEMMA UnlockLocks ==
    ASSUME TypeOK, LockDiscipline, NEW t \in Threads, call[t].id \in Sessions,
           pc[t] \in {"write", "commit", "remove"}, Unlock(t), UNCHANGED mmu,
           pc'[t] \in {"snapshot", "idle"},
           \A u \in Threads \ {t} : pc'[u] = pc[u] /\ call'[u] = call[u]
    PROVE  LockDiscipline'
<1> DEFINE s == call[t].id
<1>1. \A u \in Threads : wsmu[s] = u <=> u = t
    BY DEF LockDiscipline
<1>2. wsmu'[s] = NoThread /\ \A x \in Sessions \ {s} : wsmu'[x] = wsmu[x]
    BY DEF TypeOK, Unlock
<1>3. NoThread \notin Threads  BY ManagerAssumption
<1>4. ASSUME NEW u \in Threads
      PROVE  /\ mmu' = u <=> pc'[u] \in {"scan", "forceclose", "forcedelete", "lookup"}
             /\ \A x \in Sessions :
                  wsmu'[x] = u <=> pc'[u] \in {"write", "commit", "remove"} /\ call'[u].id = x
    <2>1. CASE u = t
        BY <1>2, <1>3, <2>1 DEF LockDiscipline
    <2>2. CASE u # t
        BY <1>1, <1>2, <1>3, <2>2 DEF LockDiscipline
    <2>3. QED  BY <2>1, <2>2
<1>5. QED  BY <1>4 DEF LockDiscipline

\* A goroutine that goes on within the section keeps the mutex.
LEMMA KeepLocks ==
    ASSUME TypeOK, LockDiscipline, NEW t \in Threads, NEW label \in {"commit", "remove"},
           pc[t] \in {"write", "commit"}, Goto(t, label), UNCHANGED <<mmu, wsmu>>
    PROVE  LockDiscipline'
BY DEF TypeOK, LockDiscipline, Goto

\* Going on after a successful transition keeps the locks in order.
LEMMA LeaveLocks ==
    ASSUME TypeOK, LockDiscipline, CallShape, NEW t \in Threads,
           pc[t] \in {"write", "commit"}, Leave(t), UNCHANGED mmu
    PROVE  LockDiscipline'
<1>1. Goto(t, After(call[t]))  BY DEF Leave
<1>2. CASE After(call[t]) = "remove"
    BY <1>1, <1>2, KeepLocks DEF Leave
<1>3. CASE After(call[t]) # "remove"
    <2>1. Unlock(t) /\ After(call[t]) = "snapshot"  BY <1>3 DEF Leave, After
    <2>2. pc'[t] = "snapshot" /\ \A u \in Threads \ {t} : pc'[u] = pc[u] /\ call'[u] = call[u]
        BY <1>1, <2>1 DEF Goto, TypeOK
    <2>3. call[t].id \in Sessions  BY DEF CallShape, Serving
    <2>4. QED  BY <2>1, <2>2, <2>3, UnlockLocks
<1>4. QED  BY <1>2, <1>3

\* transitionLocked keeps the locks in order, whether it accepts or refuses.
LEMMA DecideLocks ==
    ASSUME TypeOK, LockDiscipline, CallShape, NEW t \in Threads,
           pc[t] = "write", Decide(t), UNCHANGED mmu
    PROVE  LockDiscipline'
<1>1. CASE Leave(t)  BY <1>1, LeaveLocks
<1>2. CASE Goto(t, "commit") /\ UNCHANGED wsmu
    BY <1>2, KeepLocks
<1>3. CASE Refuse(t)
    <2>1. Return(t) /\ Unlock(t)  BY <1>3 DEF Refuse
    <2>2. pc'[t] = "idle" /\ \A u \in Threads \ {t} : pc'[u] = pc[u] /\ call'[u] = call[u]
        BY <2>1 DEF Return, TypeOK
    <2>3. call[t].id \in Sessions  BY DEF CallShape, Serving
    <2>4. QED  BY <2>1, <2>2, <2>3, UnlockLocks
<1>4. QED  BY <1>1, <1>2, <1>3 DEF Decide

\* Every step leaves each lock with the goroutine that is in its critical section.
LEMMA LockStep == ControlInv /\ [Next]_vars => LockDiscipline'
<1> SUFFICES ASSUME ControlInv, [Next]_vars PROVE LockDiscipline'  OBVIOUS
<1>0. TypeOK /\ LockDiscipline /\ CallShape  BY DEF ControlInv
<1>a. /\ pc \in [Threads -> Label] /\ call \in [Threads -> RunningCall]
      /\ wsmu \in [Sessions -> Threads \union {NoThread}] /\ NoThread \notin Threads
    BY <1>0, ManagerAssumption DEF TypeOK
<1>1. CASE UNCHANGED vars
    BY <1>0, <1>1 DEF LockDiscipline, vars, locks, thread
<1>2. CASE Tick
    BY <1>0, <1>2 DEF LockDiscipline, Tick, locks, thread
<1>3. ASSUME NEW t \in Threads, Begin(t) PROVE LockDiscipline'
    BY <1>0, <1>a, <1>3 DEF LockDiscipline, Begin, locks
<1>4. ASSUME NEW t \in Threads, LockManager(t) PROVE LockDiscipline'
    <2>1. pc'[t] \in {"scan", "lookup"} /\ \A u \in Threads \ {t} : pc'[u] = pc[u]
        BY <1>a, <1>4 DEF LockManager, VisitNext
    <2>2. mmu = NoThread /\ mmu' = t /\ UNCHANGED <<wsmu, call>>  BY <1>4 DEF LockManager
    <2>3. pc[t] = "lock"  BY <1>4 DEF LockManager
    <2>4. QED  BY <1>0, <1>a, <2>1, <2>2, <2>3 DEF LockDiscipline
<1>5. ASSUME NEW t \in Threads, ScanSession(t) PROVE LockDiscipline'
    <2>1. pc[t] = "scan" /\ UNCHANGED <<mmu, wsmu, call>>  BY <1>5 DEF ScanSession, locks
    <2>2. /\ pc'[t] \in {"scan", "forceclose", "forcedelete", "lookup"}
          /\ \A u \in Threads \ {t} : pc'[u] = pc[u]
        BY <1>a, <1>5 DEF ScanSession, VisitNext
    <2>3. QED  BY <1>0, <1>a, <2>1, <2>2 DEF LockDiscipline
<1>6. ASSUME NEW t \in Threads, ForceClose(t) PROVE LockDiscipline'
    <2>1. pc[t] = "forceclose" /\ UNCHANGED <<mmu, wsmu, call>>
        BY <1>6 DEF ForceClose, Goto, locks
    <2>2. pc'[t] = "forcedelete" /\ \A u \in Threads \ {t} : pc'[u] = pc[u]
        BY <1>a, <1>6 DEF ForceClose, Goto
    <2>3. QED  BY <1>0, <1>a, <2>1, <2>2 DEF LockDiscipline
<1>6a. ASSUME NEW t \in Threads, ForceDelete(t) PROVE LockDiscipline'
    <2>1. pc[t] = "forcedelete" /\ UNCHANGED <<mmu, wsmu, call>>  BY <1>6a DEF ForceDelete, locks
    <2>2. pc'[t] \in {"scan", "lookup"} /\ \A u \in Threads \ {t} : pc'[u] = pc[u]
        BY <1>a, <1>6a DEF ForceDelete, VisitNext
    <2>3. QED  BY <1>0, <1>a, <2>1, <2>2 DEF LockDiscipline
<1>7. ASSUME NEW t \in Threads, CreateSession(t) PROVE LockDiscipline'
    <2>1. pc[t] = "lookup" /\ pc' = [pc EXCEPT ![t] = "lock"] /\ mmu' = NoThread /\ wsmu' = wsmu
        BY <1>7 DEF CreateSession, UnlockManager
    <2>2. \A u \in Threads \ {t} : call'[u] = call[u]
        BY <1>a, <1>7 DEF CreateSession
    <2>3. QED  BY <1>0, <1>a, <2>1, <2>2 DEF LockDiscipline
<1>8. ASSUME NEW t \in Threads, Found(t) PROVE LockDiscipline'
    <2>1. pc[t] = "lookup" /\ mmu' = NoThread /\ wsmu' = wsmu
        BY <1>8 DEF Found, UnlockManager
    <2>2. /\ pc'[t] \in {"lock", "enter"}
          /\ \A u \in Threads \ {t} : pc'[u] = pc[u] /\ call'[u] = call[u]
        BY <1>a, <1>8 DEF Found, Goto
    <2>3. QED  BY <1>0, <1>a, <2>1, <2>2 DEF LockDiscipline
<1>9. ASSUME NEW t \in Threads, NotFound(t) PROVE LockDiscipline'
    <2>1. pc[t] = "lookup" /\ mmu' = NoThread /\ wsmu' = wsmu
        BY <1>9 DEF NotFound, UnlockManager
    <2>2. /\ pc'[t] = "idle"
          /\ \A u \in Threads \ {t} : pc'[u] = pc[u] /\ call'[u] = call[u]
        BY <1>a, <1>9 DEF NotFound, Return
    <2>3. QED  BY <1>0, <1>a, <2>1, <2>2 DEF LockDiscipline
<1>10. ASSUME NEW t \in Threads, Enter(t) PROVE LockDiscipline'
    <2>1. call[t].id \in Sessions /\ pc[t] = "enter" /\ wsmu[call[t].id] = NoThread /\ mmu' = mmu
        BY <1>0, <1>10 DEF Enter, CallShape, Serving
    <2>2. CASE Admits(call[t])
        <3>1. /\ pc'[t] \in {"remove", "write"} /\ call' = call
              /\ \A u \in Threads \ {t} : pc'[u] = pc[u]
            BY <1>a, <1>10, <2>2 DEF Enter, Goto
        <3>2. wsmu' = [wsmu EXCEPT ![call[t].id] = t]  BY <1>10, <2>2 DEF Enter
        <3>3. QED  BY <1>0, <1>a, <2>1, <3>1, <3>2 DEF LockDiscipline
    <2>3. CASE ~Admits(call[t])
        <3>1. Return(t) /\ wsmu' = wsmu  BY <1>10, <2>3 DEF Enter
        <3>2. QED  BY <1>0, <1>a, <2>1, <3>1 DEF LockDiscipline, Return
    <2>4. QED  BY <2>2, <2>3
<1>11. ASSUME NEW t \in Threads, ApplyOffer(t) PROVE LockDiscipline'
    BY <1>0, <1>11, DecideLocks DEF ApplyOffer, Writing
<1>12. ASSUME NEW t \in Threads, OffererMismatch(t) PROVE LockDiscipline'
    BY <1>0, <1>12, DecideLocks DEF OffererMismatch, Writing
<1>13. ASSUME NEW t \in Threads, ApplyAnswer(t) PROVE LockDiscipline'
    BY <1>0, <1>13, DecideLocks DEF ApplyAnswer, Writing
<1>14. ASSUME NEW t \in Threads, AppendICE(t) PROVE LockDiscipline'
    <2>1. pc[t] = "write" /\ Unlock(t) /\ mmu' = mmu
        BY <1>14 DEF AppendICE, Writing
    <2>2. pc'[t] = "snapshot" /\ \A u \in Threads \ {t} : pc'[u] = pc[u] /\ call'[u] = call[u]
        BY <1>a, <1>14 DEF AppendICE, Goto
    <2>3. call[t].id \in Sessions  BY <1>0, <2>1 DEF CallShape, Serving
    <2>4. QED  BY <1>0, <2>1, <2>2, <2>3, UnlockLocks
<1>15. ASSUME NEW t \in Threads, CloseSession(t) PROVE LockDiscipline'
    BY <1>0, <1>15, DecideLocks DEF CloseSession, Writing
<1>16. ASSUME NEW t \in Threads, FailSession(t) PROVE LockDiscipline'
    BY <1>0, <1>16, DecideLocks DEF FailSession, Writing
<1>17. ASSUME NEW t \in Threads, FailOffer(t) PROVE LockDiscipline'
    BY <1>0, <1>17, DecideLocks DEF FailOffer, Writing
<1>18. ASSUME NEW t \in Threads, Commit(t) PROVE LockDiscipline'
    BY <1>0, <1>18, LeaveLocks DEF Commit
<1>19. ASSUME NEW t \in Threads, Remove(t) PROVE LockDiscipline'
    <2>1. pc[t] = "remove" /\ Unlock(t) /\ Return(t) /\ mmu' = mmu  BY <1>19 DEF Remove
    <2>2. pc'[t] = "idle" /\ \A u \in Threads \ {t} : pc'[u] = pc[u] /\ call'[u] = call[u]
        BY <1>a, <2>1 DEF Return
    <2>3. call[t].id \in Sessions  BY <1>0, <2>1 DEF CallShape, Serving
    <2>4. QED  BY <1>0, <2>1, <2>2, <2>3, UnlockLocks
<1>20. ASSUME NEW t \in Threads, Snapshot(t) PROVE LockDiscipline'
    BY <1>0, <1>a, <1>20 DEF LockDiscipline, Snapshot, Return, locks
<1>21. QED
    BY <1>1, <1>2, <1>3, <1>4, <1>5, <1>6, <1>6a, <1>7, <1>8, <1>9, <1>10, <1>11, <1>12, <1>13,
       <1>14, <1>15, <1>16, <1>17, <1>18, <1>19, <1>20
    DEF Next, Step

-----------------------------------------------------------------------------
\* The other parts of ControlInv.

\* Where a goroutine goes after a successful transition.
LEMMA LeavePlace ==
    ASSUME TypeOK, NEW t \in Threads, Leave(t)
    PROVE  /\ pc' = [pc EXCEPT ![t] = After(call[t])] /\ call' = call
           /\ pc'[t] = After(call[t]) /\ After(call[t]) \in {"snapshot", "remove"}
BY DEF TypeOK, Leave, Goto, After

\* Where a goroutine goes after transitionLocked has looked at the state.
LEMMA DecidePlace ==
    ASSUME TypeOK, NEW t \in Threads, Decide(t)
    PROVE  /\ pc'[t] \in {"snapshot", "remove", "commit", "idle"}
           /\ pc'[t] = "idle" \/ call' = call
           /\ pc'[t] = "commit" => at'[t] = now
           /\ \A u \in Threads \ {t} : pc'[u] = pc[u] /\ call'[u] = call[u] /\ at'[u] = at[u]
<1>1. CASE Leave(t) /\ UNCHANGED at  BY <1>1, LeavePlace DEF TypeOK
<1>2. CASE Goto(t, "commit") /\ at' = [at EXCEPT ![t] = now]
    BY <1>2 DEF TypeOK, Goto
<1>3. CASE Refuse(t) /\ UNCHANGED at  BY <1>3 DEF TypeOK, Refuse, Return
<1>4. QED  BY <1>1, <1>2, <1>3 DEF Decide

\* A step of one goroutine leaves every other one where it is.
LEMMA OthersWait ==
    ASSUME TypeOK, NEW t \in Threads, Begin(t) \/ Step(t), NEW u \in Threads, u # t
    PROVE  /\ pc'[u] = pc[u] /\ call'[u] = call[u] /\ cur'[u] = cur[u] /\ todo'[u] = todo[u]
           /\ at'[u] = at[u]
<1>0. /\ pc \in [Threads -> Label] /\ call \in [Threads -> RunningCall]
      /\ cur \in [Threads -> Sessions \union {NoSession}]
      /\ todo \in [Threads -> SUBSET Sessions] /\ at \in [Threads -> 0..MaxTime]
    BY DEF TypeOK
<1>1. CASE Begin(t)  BY <1>0, <1>1 DEF Begin, scan
<1>2. CASE LockManager(t)  BY <1>0, <1>2 DEF LockManager, VisitNext
<1>3. CASE ScanSession(t)  BY <1>0, <1>3 DEF ScanSession, VisitNext
<1>4. CASE ForceClose(t)  BY <1>0, <1>4 DEF ForceClose, Goto, scan
<1>4a. CASE ForceDelete(t)  BY <1>0, <1>4a DEF ForceDelete, VisitNext
<1>5. CASE CreateSession(t)  BY <1>0, <1>5 DEF CreateSession, UnlockManager
<1>6. CASE Found(t)
    <2>1. UnlockManager(t) /\ pc'[u] = pc[u] /\ call'[u] = call[u]
        BY <1>0, <1>6 DEF Found, Goto
    <2>2. QED  BY <2>1 DEF UnlockManager
<1>7. CASE NotFound(t)  BY <1>0, <1>7 DEF NotFound, Return, UnlockManager
<1>8. CASE Enter(t)
    <2>1. UNCHANGED scan  BY <1>8 DEF Enter
    <2>2. \/ Return(t)
          \/ \E label \in {"remove", "write"} : Goto(t, label)
        BY <1>8 DEF Enter
    <2>3. QED  BY <1>0, <2>1, <2>2 DEF Goto, Return, scan
<1>9. CASE Decide(t) /\ UNCHANGED <<todo, cur>>
    BY <1>9, DecidePlace
<1>10. CASE ApplyOffer(t)  BY <1>9, <1>10 DEF ApplyOffer
<1>11. CASE OffererMismatch(t)  BY <1>9, <1>11 DEF OffererMismatch
<1>12. CASE ApplyAnswer(t)  BY <1>9, <1>12 DEF ApplyAnswer
<1>13. CASE AppendICE(t)  BY <1>0, <1>13 DEF AppendICE, Goto, scan
<1>14. CASE CloseSession(t)  BY <1>9, <1>14 DEF CloseSession
<1>15. CASE FailSession(t)  BY <1>9, <1>15 DEF FailSession
<1>16. CASE FailOffer(t)  BY <1>9, <1>16 DEF FailOffer
<1>17. CASE Commit(t)
    BY <1>0, <1>17, LeavePlace DEF Commit
<1>18. CASE Remove(t)  BY <1>0, <1>18 DEF Remove, Return, scan
<1>19. CASE Snapshot(t)  BY <1>0, <1>19 DEF Snapshot, Return, scan
<1>20. QED
    BY <1>1, <1>2, <1>3, <1>4, <1>4a, <1>5, <1>6, <1>7, <1>8, <1>10, <1>11, <1>12, <1>13, <1>14,
       <1>15, <1>16, <1>17, <1>18, <1>19 DEF Step

\* What one step may do to the state of a session: nothing, give birth to it,
\* expire it, or write what transitionLocked decided.
Move(s) ==
    \/ state'[s] = state[s]
    \/ state[s] = "unborn" /\ state'[s] = "new" /\ s \in active'
    \/ state[s] # "unborn" /\ state'[s] = "closed" /\ s \notin Visible'
    \/ /\ state[s] # "unborn"
       /\ \E t \in Threads : Commit(t) /\ call[t].id = s /\ state'[s] = Target(call[t])

\* No handler changes a state in any other way.
LEMMA StateMoves ==
    ASSUME ControlInv, [Next]_vars, NEW s \in Sessions
    PROVE  Move(s)
<1>0. TypeOK /\ CallShape /\ ScanShape /\ EarlyShape  BY DEF ControlInv
<1>1. CASE state' = state  BY <1>1 DEF Move
<1>2. ASSUME NEW t \in Threads, ForceClose(t) PROVE Move(s)
    <2>1. cur[t] \in Sessions /\ state[cur[t]] # "unborn"
        BY <1>0, <1>2 DEF TypeOK, ForceClose, ScanShape, EarlyShape
    <2>2. /\ state'[cur[t]] = "closed"
          /\ \A x \in Sessions \ {cur[t]} : state'[x] = state[x]
        BY <1>0, <1>2, <2>1 DEF TypeOK, ForceClose, ForceTransition
    <2>3. pc'[t] = "forcedelete" /\ cur'[t] = cur[t]
        BY <1>0, <1>2 DEF TypeOK, ForceClose, Goto, scan
    <2>4. cur[t] \notin Visible'  BY <2>3 DEF Visible
    <2>5. QED  BY <2>1, <2>2, <2>4 DEF Move
<1>3. ASSUME NEW t \in Threads, CreateSession(t) PROVE Move(s)
    BY <1>0, <1>3 DEF TypeOK, CreateSession, Unborn, Move
<1>4. ASSUME NEW t \in Threads, Commit(t) PROVE Move(s)
    <2>1. call[t].id \in Sessions /\ state[call[t].id] # "unborn"
        BY <1>0, <1>4 DEF Commit, CallShape, Serving
    <2>2. /\ state'[call[t].id] = Target(call[t])
          /\ \A x \in Sessions \ {call[t].id} : state'[x] = state[x]
        BY <1>0, <1>4, <2>1 DEF TypeOK, Commit
    <2>3. QED  BY <1>4, <2>1, <2>2 DEF Move
<1>5. QED
    BY <1>1, <1>2, <1>3, <1>4
    DEF Next, Step, vars, session, Tick, Begin, LockManager, ScanSession, ForceDelete, Found,
        NotFound, Enter, ApplyOffer, OffererMismatch, ApplyAnswer, AppendICE, CloseSession,
        FailSession, FailOffer, Remove, Snapshot

\* A session that exists goes on existing.
LEMMA BornStays ==
    ASSUME ControlInv, [Next]_vars, NEW s \in Sessions, state[s] # "unborn"
    PROVE  state'[s] # "unborn"
<1>1. Move(s)  BY StateMoves
<1>2. \A c : Target(c) # "unborn"  BY TargetType DEF SessionState
<1>3. QED  BY <1>1, <1>2 DEF Move

\* Every step leaves each goroutine with a request it can serve.
LEMMA CallStep == ControlInv /\ [Next]_vars => CallShape'
<1> SUFFICES ASSUME ControlInv, [Next]_vars PROVE CallShape'  OBVIOUS
<1>0. TypeOK /\ CallShape /\ EarlyShape  BY DEF ControlInv
<1>a. \A s \in Sessions : state[s] # "unborn" => state'[s] # "unborn"  BY BornStays
<1>b. pc \in [Threads -> Label] /\ call \in [Threads -> RunningCall] /\ active \subseteq Sessions
    BY <1>0 DEF TypeOK
<1>1. CASE UNCHANGED vars
    BY <1>0, <1>1 DEF CallShape, vars, thread, session
<1>2. CASE Tick
    BY <1>0, <1>2 DEF CallShape, Tick, thread, session
<1>3. ASSUME NEW t \in Threads, Begin(t) \/ Step(t),
             pc'[t] # "idle" => call'[t].peer \in Peers,
             pc'[t] \in Serving => call'[t].id \in Sessions /\ state[call'[t].id] # "unborn"
      PROVE  CallShape'
    <2>1. ASSUME NEW u \in Threads, u # t
          PROVE  /\ pc'[u] # "idle" => call'[u].peer \in Peers
                 /\ pc'[u] \in Serving => call'[u].id \in Sessions /\ state'[call'[u].id] # "unborn"
        <3>1. pc'[u] = pc[u] /\ call'[u] = call[u]  BY <1>0, <1>3, <2>1, OthersWait
        <3>2. QED  BY <1>0, <1>a, <3>1 DEF CallShape
    <2>2. pc'[t] \in Serving => call'[t].id \in Sessions /\ state'[call'[t].id] # "unborn"
        BY <1>a, <1>3
    <2>3. QED  BY <1>3, <2>1, <2>2 DEF CallShape
<1>4. ASSUME NEW t \in Threads, Begin(t) PROVE CallShape'
    <2>1. pc'[t] = "lock" /\ call'[t].peer \in Peers
        BY <1>b, <1>4, ManagerAssumption DEF Begin, Call
    <2>2. QED  BY <1>3, <1>4, <2>1 DEF Serving
<1>5. ASSUME NEW t \in Threads, Step(t), pc[t] # "idle", call' = call,
             pc[t] \in Serving \/ pc'[t] \notin Serving
      PROVE  CallShape'
    BY <1>0, <1>3, <1>5 DEF CallShape
<1>6. ASSUME NEW t \in Threads, LockManager(t) PROVE CallShape'
    <2>1. pc'[t] \notin Serving /\ pc[t] # "idle" /\ call' = call
        BY <1>b, <1>6 DEF LockManager, VisitNext, Serving
    <2>2. QED  BY <1>5, <1>6, <2>1 DEF Step
<1>7. ASSUME NEW t \in Threads, ScanSession(t) PROVE CallShape'
    <2>1. pc'[t] \notin Serving /\ pc[t] # "idle" /\ call' = call
        BY <1>b, <1>7 DEF ScanSession, VisitNext, Serving
    <2>2. QED  BY <1>5, <1>7, <2>1 DEF Step
<1>8. ASSUME NEW t \in Threads, ForceClose(t) PROVE CallShape'
    <2>1. pc'[t] \notin Serving /\ pc[t] # "idle" /\ call' = call
        BY <1>b, <1>8 DEF ForceClose, Goto, Serving
    <2>2. QED  BY <1>5, <1>8, <2>1 DEF Step
<1>8a. ASSUME NEW t \in Threads, ForceDelete(t) PROVE CallShape'
    <2>1. pc'[t] \notin Serving /\ pc[t] # "idle" /\ call' = call
        BY <1>b, <1>8a DEF ForceDelete, VisitNext, Serving
    <2>2. QED  BY <1>5, <1>8a, <2>1 DEF Step
<1>9. ASSUME NEW t \in Threads, CreateSession(t) PROVE CallShape'
    <2>1. pc'[t] = "lock" /\ pc[t] = "lookup" /\ call'[t].peer = call[t].peer
        BY <1>b, <1>9 DEF CreateSession, RunningCall
    <2>2. QED  BY <1>0, <1>3, <1>9, <2>1 DEF CallShape, Serving, Step
<1>10. ASSUME NEW t \in Threads, Found(t) PROVE CallShape'
    <2>1. pc[t] = "lookup" /\ call[t].id \in active  BY <1>10 DEF Found
    <2>2. call'[t].peer = call[t].peer /\ call'[t].id = call[t].id
        BY <1>b, <1>10 DEF Found, Goto, RunningCall
    <2>3. QED  BY <1>0, <1>b, <1>3, <1>10, <2>1, <2>2 DEF CallShape, EarlyShape, Step
<1>11. ASSUME NEW t \in Threads, Step(t), Return(t) PROVE CallShape'
    BY <1>b, <1>3, <1>11 DEF Return, Serving
<1>12. ASSUME NEW t \in Threads, NotFound(t) PROVE CallShape'
    BY <1>11, <1>12 DEF NotFound, Step
<1>13. ASSUME NEW t \in Threads, NEW label, Step(t), Goto(t, label), pc[t] \in Serving
       PROVE  CallShape'
    BY <1>5, <1>13 DEF Goto, Serving
<1>14. ASSUME NEW t \in Threads, Enter(t) PROVE CallShape'
    <2>1. Return(t) \/ \E label \in {"remove", "write"} : Goto(t, label)
        BY <1>14 DEF Enter
    <2>2. QED  BY <1>11, <1>13, <1>14, <2>1 DEF Enter, Step, Serving
<1>15. ASSUME NEW t \in Threads, Step(t), pc[t] = "write", Decide(t)
       PROVE  CallShape'
    <2>1. CASE pc'[t] = "idle"  BY <1>3, <1>15, <2>1 DEF Serving
    <2>2. CASE call' = call  BY <1>5, <1>15, <2>2 DEF Serving
    <2>3. QED  BY <1>0, <1>15, <2>1, <2>2, DecidePlace
<1>16. ASSUME NEW t \in Threads, ApplyOffer(t) PROVE CallShape'
    BY <1>15, <1>16 DEF ApplyOffer, Writing, Step
<1>17. ASSUME NEW t \in Threads, OffererMismatch(t) PROVE CallShape'
    BY <1>15, <1>17 DEF OffererMismatch, Writing, Step
<1>18. ASSUME NEW t \in Threads, ApplyAnswer(t) PROVE CallShape'
    BY <1>15, <1>18 DEF ApplyAnswer, Writing, Step
<1>19. ASSUME NEW t \in Threads, AppendICE(t) PROVE CallShape'
    BY <1>13, <1>19 DEF AppendICE, Writing, Step, Serving
<1>20. ASSUME NEW t \in Threads, CloseSession(t) PROVE CallShape'
    BY <1>15, <1>20 DEF CloseSession, Writing, Step
<1>21. ASSUME NEW t \in Threads, FailSession(t) PROVE CallShape'
    BY <1>15, <1>21 DEF FailSession, Writing, Step
<1>22. ASSUME NEW t \in Threads, FailOffer(t) PROVE CallShape'
    BY <1>15, <1>22 DEF FailOffer, Writing, Step
<1>23. ASSUME NEW t \in Threads, Commit(t) PROVE CallShape'
    <2>1. call' = call /\ pc[t] = "commit"  BY <1>0, <1>23, LeavePlace DEF Commit
    <2>2. QED  BY <1>5, <1>23, <2>1 DEF Step, Serving
<1>24. ASSUME NEW t \in Threads, Remove(t) PROVE CallShape'
    BY <1>11, <1>24 DEF Remove, Step
<1>25. ASSUME NEW t \in Threads, Snapshot(t) PROVE CallShape'
    BY <1>11, <1>25 DEF Snapshot, Step
<1>26. QED
    BY <1>1, <1>2, <1>4, <1>6, <1>7, <1>8, <1>8a, <1>9, <1>10, <1>12, <1>14, <1>16, <1>17, <1>18,
       <1>19, <1>20, <1>21, <1>22, <1>23, <1>24, <1>25
    DEF Next, Step

\* The map shrinks only under m.mu or while nobody holds it, so it keeps what
\* another goroutine has still to visit.
LEMMA MapKept ==
    ASSUME ControlInv, NEW t \in Threads, Begin(t) \/ Step(t), NEW u \in Threads, u # t,
           pc[u] \in {"scan", "forceclose", "forcedelete"}
    PROVE  active \subseteq active'
<1>1. mmu = u /\ NoThread \notin Threads  BY ManagerAssumption DEF ControlInv, LockDiscipline
<1>2. ~ForceDelete(t)  BY <1>1 DEF ForceDelete, ControlInv, LockDiscipline
<1>3. ~Remove(t)  BY <1>1 DEF Remove
<1>4. CASE CreateSession(t)  BY <1>4 DEF CreateSession
<1>5. CASE active' = active  BY <1>5
<1>6. QED
    BY <1>2, <1>3, <1>4, <1>5
    DEF Begin, Step, session, LockManager, ScanSession, ForceClose, Found, NotFound, Enter,
        ApplyOffer, OffererMismatch, ApplyAnswer, AppendICE, CloseSession, FailSession,
        FailOffer, Commit, Snapshot

\* The walk never visits an entry twice, nor one that has left the map.
LEMMA ScanStep == ControlInv /\ [Next]_vars => ScanShape'
<1> SUFFICES ASSUME ControlInv, [Next]_vars PROVE ScanShape'  OBVIOUS
<1>0. TypeOK /\ ScanShape  BY DEF ControlInv
<1>b. /\ pc \in [Threads -> Label] /\ cur \in [Threads -> Sessions \union {NoSession}]
      /\ todo \in [Threads -> SUBSET Sessions]
    BY <1>0 DEF TypeOK
<1>1. CASE UNCHANGED vars
    BY <1>0, <1>1 DEF ScanShape, vars, thread, session, scan
<1>2. CASE Tick
    BY <1>0, <1>2 DEF ScanShape, Tick, thread, session, scan
<1>3. ASSUME NEW t \in Threads, Begin(t) \/ Step(t),
             pc'[t] \in {"scan", "forceclose", "forcedelete"}
                 => cur'[t] \in todo'[t] /\ todo'[t] \subseteq active'
      PROVE  ScanShape'
    <2>1. ASSUME NEW u \in Threads, u # t, pc'[u] \in {"scan", "forceclose", "forcedelete"}
          PROVE  cur'[u] \in todo'[u] /\ todo'[u] \subseteq active'
        <3>1. pc'[u] = pc[u] /\ cur'[u] = cur[u] /\ todo'[u] = todo[u]
            BY <1>0, <1>3, <2>1, OthersWait
        <3>2. active \subseteq active'  BY <1>3, <2>1, <3>1, MapKept
        <3>3. QED  BY <1>0, <2>1, <3>1, <3>2 DEF ScanShape
    <2>2. QED  BY <1>3, <2>1 DEF ScanShape
<1>4. ASSUME NEW t \in Threads, LockManager(t) PROVE ScanShape'
    <2>1. todo'[t] = active /\ active' = active  BY <1>b, <1>4 DEF LockManager, session
    <2>2. pc'[t] = "scan" => cur'[t] \in active  BY <1>b, <1>4 DEF LockManager, VisitNext
    <2>3. pc'[t] \in {"scan", "lookup"}  BY <1>b, <1>4 DEF LockManager, VisitNext
    <2>4. QED  BY <1>3, <1>4, <2>1, <2>2, <2>3 DEF Step
<1>5. ASSUME NEW t \in Threads, ScanSession(t) PROVE ScanShape'
    <2>1. active' = active /\ pc[t] = "scan"  BY <1>5 DEF ScanSession, session
    <2>2. CASE Stale(cur[t], at[t]) /\ state[cur[t]] \notin Terminal
        <3>1. cur'[t] = cur[t] /\ todo'[t] = todo[t]  BY <1>5, <2>2 DEF ScanSession
        <3>2. QED  BY <1>0, <1>3, <1>5, <2>1, <3>1 DEF ScanShape, Step
    <2>3. CASE ~(Stale(cur[t], at[t]) /\ state[cur[t]] \notin Terminal)
        <3>1. todo'[t] = todo[t] \ {cur[t]} /\ VisitNext(t, todo[t] \ {cur[t]})
            BY <1>b, <1>5, <2>3 DEF ScanSession
        <3>2. pc'[t] = "lookup" \/ (pc'[t] = "scan" /\ cur'[t] \in todo[t] \ {cur[t]})
            BY <1>b, <3>1 DEF VisitNext
        <3>3. QED  BY <1>0, <1>3, <1>5, <2>1, <3>1, <3>2 DEF ScanShape, Step
    <2>4. QED  BY <2>2, <2>3
<1>6. ASSUME NEW t \in Threads, ForceClose(t) PROVE ScanShape'
    <2>1. active' = active /\ cur' = cur /\ todo' = todo /\ pc[t] = "forceclose"
        BY <1>6 DEF ForceClose, scan
    <2>2. QED  BY <1>0, <1>3, <1>6, <2>1 DEF ScanShape, Step
<1>6a. ASSUME NEW t \in Threads, ForceDelete(t) PROVE ScanShape'
    <2>1. active' = active \ {cur[t]} /\ pc[t] = "forcedelete"  BY <1>6a DEF ForceDelete
    <2>2. todo'[t] = todo[t] \ {cur[t]} /\ VisitNext(t, todo[t] \ {cur[t]})
        BY <1>b, <1>6a DEF ForceDelete
    <2>3. pc'[t] = "lookup" \/ (pc'[t] = "scan" /\ cur'[t] \in todo[t] \ {cur[t]})
        BY <1>b, <2>2 DEF VisitNext
    <2>4. QED  BY <1>0, <1>3, <1>6a, <2>1, <2>2, <2>3 DEF ScanShape, Step
<1>7. ASSUME NEW t \in Threads, Begin(t) \/ Step(t),
             pc'[t] \notin {"scan", "forceclose", "forcedelete"}
      PROVE  ScanShape'
    BY <1>3, <1>7
<1>8. ASSUME NEW t \in Threads, Step(t), Decide(t)
      PROVE  ScanShape'
    BY <1>0, <1>7, <1>8, DecidePlace
<1>9. ASSUME NEW t \in Threads, Begin(t) PROVE ScanShape'
    BY <1>b, <1>7, <1>9 DEF Begin
<1>10. ASSUME NEW t \in Threads, CreateSession(t) PROVE ScanShape'
    BY <1>b, <1>7, <1>10 DEF CreateSession, Step
<1>11. ASSUME NEW t \in Threads, Found(t) PROVE ScanShape'
    BY <1>b, <1>7, <1>11 DEF Found, Goto, Step
<1>12. ASSUME NEW t \in Threads, NotFound(t) PROVE ScanShape'
    BY <1>b, <1>7, <1>12 DEF NotFound, Return, Step
<1>13. ASSUME NEW t \in Threads, Enter(t) PROVE ScanShape'
    <2>1. Return(t) \/ \E label \in {"remove", "write"} : Goto(t, label)
        BY <1>13 DEF Enter
    <2>2. pc'[t] \in {"remove", "write", "idle"}  BY <1>b, <2>1 DEF Goto, Return
    <2>3. QED  BY <1>7, <1>13, <2>2 DEF Step
<1>14. ASSUME NEW t \in Threads, ApplyOffer(t) PROVE ScanShape'
    BY <1>8, <1>14 DEF ApplyOffer, Step
<1>15. ASSUME NEW t \in Threads, OffererMismatch(t) PROVE ScanShape'
    BY <1>8, <1>15 DEF OffererMismatch, Step
<1>16. ASSUME NEW t \in Threads, ApplyAnswer(t) PROVE ScanShape'
    BY <1>8, <1>16 DEF ApplyAnswer, Step
<1>17. ASSUME NEW t \in Threads, AppendICE(t) PROVE ScanShape'
    BY <1>b, <1>7, <1>17 DEF AppendICE, Goto, Step
<1>18. ASSUME NEW t \in Threads, CloseSession(t) PROVE ScanShape'
    BY <1>8, <1>18 DEF CloseSession, Step
<1>19. ASSUME NEW t \in Threads, FailSession(t) PROVE ScanShape'
    BY <1>8, <1>19 DEF FailSession, Step
<1>20. ASSUME NEW t \in Threads, FailOffer(t) PROVE ScanShape'
    BY <1>8, <1>20 DEF FailOffer, Step
<1>21. ASSUME NEW t \in Threads, Commit(t) PROVE ScanShape'
    BY <1>0, <1>7, <1>21, LeavePlace DEF Commit, Step
<1>22. ASSUME NEW t \in Threads, Remove(t) PROVE ScanShape'
    BY <1>b, <1>7, <1>22 DEF Remove, Return, Step
<1>23. ASSUME NEW t \in Threads, Snapshot(t) PROVE ScanShape'
    BY <1>b, <1>7, <1>23 DEF Snapshot, Return, Step
<1>24. QED
    BY <1>1, <1>2, <1>4, <1>5, <1>6, <1>6a, <1>9, <1>10, <1>11, <1>12, <1>13, <1>14, <1>15, <1>16,
       <1>17, <1>18, <1>19, <1>20, <1>21, <1>22, <1>23
    DEF Next, Step

\* Every handler that writes a record writes one that exists.
LEMMA EarlyStep == ControlInv /\ [Next]_vars => EarlyShape'
<1> SUFFICES ASSUME ControlInv, [Next]_vars PROVE EarlyShape'  OBVIOUS
<1>0. TypeOK /\ CallShape /\ ScanShape /\ EarlyShape  BY DEF ControlInv
<1>b. /\ sdp \in [Sessions -> SUBSET {"offer", "answer"}]
      /\ answerer \in [Sessions -> Peers \union {NoPeer}]
      /\ offerer \in [Sessions -> Peers \union {NoPeer}]
      /\ state \in [Sessions -> SessionState \union {"unborn"}]
    BY <1>0 DEF TypeOK
<1>1. ASSUME active' \subseteq active, offerer' = offerer,
             \A s \in Sessions : state'[s] = "unborn" <=> state[s] = "unborn",
             \A s \in Sessions : state[s] = "unborn" =>
               sdp'[s] = sdp[s] /\ answerer'[s] = answerer[s]
      PROVE  EarlyShape'
    BY <1>0, <1>1 DEF EarlyShape
<1>2. CASE active' \subseteq active /\ UNCHANGED <<state, sdp, answerer, offerer>>
    BY <1>1, <1>2
<1>3. ASSUME NEW t \in Threads, CreateSession(t) PROVE EarlyShape'
    <2>1. PICK s \in Sessions : /\ state' = [state EXCEPT ![s] = "new"]
                                /\ active' = active \union {s}
                                /\ offerer' = [offerer EXCEPT ![s] = call[t].peer]
        BY <1>3 DEF CreateSession, Unborn
    <2>2. sdp' = sdp /\ answerer' = answerer  BY <1>3 DEF CreateSession
    <2>3. call[t].peer # NoPeer  BY <1>0, <1>3, ManagerAssumption DEF CreateSession, CallShape
    <2>4. QED  BY <1>0, <1>b, <2>1, <2>2, <2>3 DEF EarlyShape
<1>4. ASSUME NEW t \in Threads, ApplyOffer(t) PROVE EarlyShape'
    <2>1. state[call[t].id] # "unborn"  BY <1>0, <1>4 DEF ApplyOffer, Writing, CallShape, Serving
    <2>2. QED  BY <1>1, <1>4, <1>b, <2>1 DEF ApplyOffer
<1>5. ASSUME NEW t \in Threads, ApplyAnswer(t) PROVE EarlyShape'
    <2>1. state[call[t].id] # "unborn"  BY <1>0, <1>5 DEF ApplyAnswer, Writing, CallShape, Serving
    <2>2. QED  BY <1>1, <1>5, <1>b, <2>1 DEF ApplyAnswer
<1>6. ASSUME NEW t \in Threads, ForceClose(t) PROVE EarlyShape'
    <2>1. cur[t] \in Sessions /\ state[cur[t]] # "unborn"
        BY <1>0, <1>6 DEF TypeOK, ForceClose, ScanShape, EarlyShape
    <2>2. \A s \in Sessions : state'[s] = "unborn" <=> state[s] = "unborn"
        BY <1>b, <1>6, <2>1 DEF ForceClose, ForceTransition
    <2>3. QED  BY <1>1, <1>6, <2>2 DEF ForceClose, record
<1>7. ASSUME NEW t \in Threads, Commit(t) PROVE EarlyShape'
    <2>1. call[t].id \in Sessions /\ state[call[t].id] # "unborn"
        BY <1>0, <1>7 DEF Commit, CallShape, Serving
    <2>2. Target(call[t]) # "unborn"  BY TargetType DEF SessionState
    <2>3. state' = [state EXCEPT ![call[t].id] = Target(call[t])]  BY <1>7 DEF Commit
    <2>4. \A s \in Sessions : state'[s] = "unborn" <=> state[s] = "unborn"
        BY <1>b, <2>1, <2>2, <2>3
    <2>5. QED  BY <1>1, <1>7, <2>4 DEF Commit, record
<1>8. QED
    BY <1>2, <1>3, <1>4, <1>5, <1>6, <1>7
    DEF Next, Step, vars, session, record, Tick, Begin, LockManager, ScanSession,
        ForceDelete, Found, NotFound, Enter, OffererMismatch, AppendICE, CloseSession, FailSession,
        FailOffer, Remove, Snapshot

\* ControlInv holds initially and every step keeps it.
LEMMA ControlInit == Init => ControlInv
<1> SUFFICES ASSUME Init PROVE ControlInv  OBVIOUS
<1>1. TypeOK  BY InitType
<1>2. QED
    BY <1>1, ManagerAssumption
    DEF Init, ControlInv, LockDiscipline, CallShape, ScanShape, EarlyShape, Serving

\* The parts of ControlInv carry one another over every step.
LEMMA ControlStep == ControlInv /\ [Next]_vars => ControlInv'
BY NextType, LockStep, CallStep, ScanStep, EarlyStep DEF ControlInv

\* No handler returns, or asks for another lock it should not, with a mutex held:
\* every lock belongs to a goroutine inside the matching critical section.
THEOREM LocksAreDisciplined == Spec => []LockDiscipline
<1>1. ControlInv => LockDiscipline  BY DEF ControlInv
<1>2. QED  BY <1>1, ControlInit, ControlStep, PTL DEF Spec

-----------------------------------------------------------------------------
\* The records.

\* While a goroutine holds a session's mutex the others leave its record alone,
\* except that the expiry may close it.
LEMMA HeldRecord ==
    ASSUME ControlInv, NEW t \in Threads, Begin(t) \/ Step(t), NEW u \in Threads, u # t,
           pc[u] \in {"write", "commit", "remove"}
    PROVE  /\ state'[call[u].id] \in {state[call[u].id], "closed"}
           /\ sdp'[call[u].id] = sdp[call[u].id]
           /\ offerer'[call[u].id] = offerer[call[u].id]
           /\ answerer'[call[u].id] = answerer[call[u].id]
<1> DEFINE s == call[u].id
<1>0. TypeOK /\ LockDiscipline /\ CallShape  BY DEF ControlInv
<1>1. s \in Sessions /\ state[s] # "unborn"  BY <1>0 DEF CallShape, Serving
<1>2. pc[t] \in {"write", "commit", "remove"} => call[t].id # s
    BY <1>0, <1>1 DEF LockDiscipline
<1>3. CASE UNCHANGED <<state, sdp, offerer, answerer>>
    BY <1>3
<1>4. CASE ForceClose(t)
    BY <1>0, <1>1, <1>4 DEF TypeOK, ForceClose, ForceTransition, record
<1>5. CASE CreateSession(t)
    <2>1. PICK x \in Unborn : /\ state' = [state EXCEPT ![x] = "new"]
                              /\ offerer' = [offerer EXCEPT ![x] = call[t].peer]
        BY <1>5 DEF CreateSession
    <2>2. x # s  BY <1>1 DEF Unborn
    <2>3. QED  BY <1>0, <1>1, <1>5, <2>1, <2>2 DEF TypeOK, CreateSession
<1>6. CASE ApplyOffer(t)
    BY <1>0, <1>1, <1>2, <1>6 DEF TypeOK, ApplyOffer, Writing
<1>7. CASE ApplyAnswer(t)
    BY <1>0, <1>1, <1>2, <1>7 DEF TypeOK, ApplyAnswer, Writing
<1>8. CASE Commit(t)
    BY <1>0, <1>1, <1>2, <1>8 DEF TypeOK, Commit, record
<1>9. QED
    BY <1>3, <1>4, <1>5, <1>6, <1>7, <1>8
    DEF Step, Begin, session, record, LockManager, ScanSession, ForceDelete, Found, NotFound,
        Enter, OffererMismatch, AppendICE, CloseSession, FailSession, FailOffer, Remove, Snapshot

\* A goroutine comes to write a record only through the checks.
LEMMA WriteArrival ==
    ASSUME TypeOK, NEW t \in Threads, Begin(t) \/ Step(t), pc'[t] = "write"
    PROVE  Enter(t) /\ Admits(call[t])
<1>0. pc \in [Threads -> Label]  BY DEF TypeOK
<1>1. ~Begin(t)  BY <1>0 DEF Begin
<1>2. ~LockManager(t)  BY <1>0 DEF LockManager, VisitNext
<1>3. ~ScanSession(t)  BY <1>0 DEF ScanSession, VisitNext
<1>4. ~ForceClose(t) /\ ~ForceDelete(t)  BY <1>0 DEF ForceClose, ForceDelete, Goto, VisitNext
<1>5. ~CreateSession(t) /\ ~Found(t) /\ ~NotFound(t)
    BY <1>0 DEF CreateSession, Found, NotFound, Goto, Return
<1>6. ~Decide(t)  BY DecidePlace
<1>7. /\ ~ApplyOffer(t) /\ ~OffererMismatch(t) /\ ~ApplyAnswer(t) /\ ~CloseSession(t)
      /\ ~FailSession(t) /\ ~FailOffer(t)
    BY <1>6 DEF ApplyOffer, OffererMismatch, ApplyAnswer, CloseSession, FailSession, FailOffer
<1>8. ~AppendICE(t) /\ ~Remove(t) /\ ~Snapshot(t)
    BY <1>0 DEF AppendICE, Remove, Snapshot, Goto, Return
<1>9. ~Commit(t)  BY LeavePlace DEF Commit
<1>10. Enter(t)  BY <1>1, <1>2, <1>3, <1>4, <1>5, <1>7, <1>8, <1>9 DEF Step
<1>11. Admits(call[t])  BY <1>0, <1>10 DEF Enter, Return
<1>12. QED  BY <1>10, <1>11

\* The checks of Enter and what other goroutines may do keep WriteShape: nobody
\* is half through a record whose mutex is free, so it has the shape its state says.
LEMMA WriteShapeStep ==
    ControlInv /\ WriteShape /\ HandshakeShape /\ [Next]_vars => WriteShape'
<1> SUFFICES ASSUME ControlInv, WriteShape, HandshakeShape, [Next]_vars PROVE WriteShape'
    OBVIOUS
<1>0. TypeOK /\ LockDiscipline /\ CallShape  BY DEF ControlInv
<1>1. CASE UNCHANGED <<session, thread>>
    BY <1>1 DEF WriteShape, WriteFits, session, record, thread
<1>2. ASSUME NEW t \in Threads, Begin(t) \/ Step(t), NEW u \in Threads, pc'[u] = "write"
      PROVE  WriteFits(u)'
    <2>1. CASE u # t
        <3>1. pc[u] = "write" /\ call'[u] = call[u]  BY <1>0, <1>2, <2>1, OthersWait
        <3>2. /\ state'[call[u].id] \in {state[call[u].id], "closed"}
              /\ sdp'[call[u].id] = sdp[call[u].id]
              /\ offerer'[call[u].id] = offerer[call[u].id]
              /\ answerer'[call[u].id] = answerer[call[u].id]
            BY <1>2, <2>1, <3>1, HeldRecord
        <3>3. WriteFits(u)  BY <3>1 DEF WriteShape
        <3>4. QED  BY <3>1, <3>2, <3>3 DEF WriteFits
    <2>2. CASE u = t
        <3>1. Enter(t) /\ Admits(call[t])  BY <1>0, <1>2, <2>2, WriteArrival
        <3>2. UNCHANGED <<call, state, sdp, offerer, answerer>>
            BY <3>1 DEF Enter, Goto, session, record
        <3>3. call[t].id \in Sessions  BY <1>0, <3>1 DEF Enter, CallShape, Serving
        <3>4. ~HalfWritten(call[t].id)
            <4>1. wsmu[call[t].id] = NoThread  BY <3>1 DEF Enter
            <4>2. QED  BY <1>0, <3>3, <4>1, ManagerAssumption DEF HalfWritten, LockDiscipline
        <3>5. /\ state[call[t].id] = "new" =>
                   sdp[call[t].id] = {} /\ answerer[call[t].id] = NoPeer
              /\ state[call[t].id] = "connecting" =>
                   sdp[call[t].id] = {"offer"} /\ answerer[call[t].id] = NoPeer
            BY <3>3, <3>4 DEF HandshakeShape
        <3>6. QED  BY <2>2, <3>1, <3>2, <3>5 DEF Admits, WriteFits
    <2>3. QED  BY <2>1, <2>2
<1>3. QED  BY <1>1, <1>2 DEF Next, vars, Tick, WriteShape

\* A goroutine comes to assign the state only when transitionLocked has looked.
LEMMA CommitArrival ==
    ASSUME TypeOK, NEW t \in Threads, Begin(t) \/ Step(t), pc'[t] = "commit"
    PROVE  /\ pc[t] = "write" /\ UNCHANGED <<call, state, offerer>>
           /\ \/ ApplyOffer(t) \/ ApplyAnswer(t)
              \/ /\ OffererMismatch(t) \/ CloseSession(t) \/ FailSession(t) \/ FailOffer(t)
                 /\ UNCHANGED <<sdp, answerer>>
<1>0. pc \in [Threads -> Label]  BY DEF TypeOK
<1>1. ~Begin(t)  BY <1>0 DEF Begin
<1>2. ~LockManager(t)  BY <1>0 DEF LockManager, VisitNext
<1>3. ~ScanSession(t)  BY <1>0 DEF ScanSession, VisitNext
<1>4. ~ForceClose(t) /\ ~ForceDelete(t)  BY <1>0 DEF ForceClose, ForceDelete, Goto, VisitNext
<1>5. ~CreateSession(t) /\ ~Found(t) /\ ~NotFound(t)
    BY <1>0 DEF CreateSession, Found, NotFound, Goto, Return
<1>6. ~Enter(t)
    <2>1. SUFFICES ASSUME Enter(t) PROVE FALSE  OBVIOUS
    <2>2. Return(t) \/ \E label \in {"remove", "write"} : Goto(t, label)
        BY <2>1 DEF Enter
    <2>3. QED  BY <1>0, <2>2 DEF Goto, Return
<1>7. ~AppendICE(t) /\ ~Remove(t) /\ ~Snapshot(t)
    BY <1>0 DEF AppendICE, Remove, Snapshot, Goto, Return
<1>8. ~Commit(t)  BY LeavePlace DEF Commit
<1>9. call' = call \/ ~Decide(t)  BY DecidePlace
<1>10. QED
    BY <1>1, <1>2, <1>3, <1>4, <1>5, <1>6, <1>7, <1>8, <1>9
    DEF Step, ApplyOffer, ApplyAnswer, OffererMismatch, CloseSession, FailSession, FailOffer,
        Writing, session, record

\* What transitionLocked saw still fits when it assigns, but for the expiry.
LEMMA CommitShapeStep ==
    ControlInv /\ WriteShape /\ CommitShape /\ [Next]_vars => CommitShape'
<1> SUFFICES ASSUME ControlInv, WriteShape, CommitShape, [Next]_vars PROVE CommitShape'
    OBVIOUS
<1>0. TypeOK /\ CallShape  BY DEF ControlInv
<1>1. CASE UNCHANGED <<session, thread>>
    BY <1>1 DEF CommitShape, CommitFits, session, record, thread
<1>2. ASSUME NEW t \in Threads, Begin(t) \/ Step(t), NEW u \in Threads, pc'[u] = "commit"
      PROVE  CommitFits(u)'
    <2>1. CASE u # t
        <3>1. pc[u] = "commit" /\ call'[u] = call[u]  BY <1>0, <1>2, <2>1, OthersWait
        <3>2. /\ state'[call[u].id] \in {state[call[u].id], "closed"}
              /\ sdp'[call[u].id] = sdp[call[u].id]
              /\ offerer'[call[u].id] = offerer[call[u].id]
              /\ answerer'[call[u].id] = answerer[call[u].id]
            BY <1>2, <2>1, <3>1, HeldRecord
        <3>3. CommitFits(u)  BY <3>1 DEF CommitShape
        <3>4. QED  BY <3>1, <3>2, <3>3 DEF CommitFits
    <2>2. CASE u = t
        <3>1. /\ pc[t] = "write" /\ UNCHANGED <<call, state, offerer>>
              /\ \/ ApplyOffer(t) \/ ApplyAnswer(t)
                 \/ /\ OffererMismatch(t) \/ CloseSession(t) \/ FailSession(t) \/ FailOffer(t)
                    /\ UNCHANGED <<sdp, answerer>>
            BY <1>0, <1>2, <2>2, CommitArrival
        <3>2. WriteFits(t) /\ call[t].id \in Sessions
            BY <1>0, <3>1 DEF WriteShape, CallShape, Serving
        <3>3. CASE ApplyOffer(t)
            <4>1. /\ call[t].kind = "offer" /\ answerer' = answerer
                  /\ sdp'[call[t].id] = sdp[call[t].id] \union {"offer"}
                BY <1>0, <3>2, <3>3 DEF TypeOK, ApplyOffer, Writing
            <4>2. QED  BY <2>2, <3>1, <3>2, <4>1 DEF WriteFits, CommitFits
        <3>4. CASE ApplyAnswer(t)
            <4>1. /\ call[t].kind = "answer" /\ answerer'[call[t].id] = call[t].peer
                  /\ sdp'[call[t].id] = sdp[call[t].id] \union {"answer"}
                BY <1>0, <3>2, <3>4 DEF TypeOK, ApplyAnswer, Writing
            <4>2. QED  BY <2>2, <3>1, <3>2, <4>1 DEF WriteFits, CommitFits
        <3>5. CASE UNCHANGED <<sdp, answerer>> /\
                   (OffererMismatch(t) \/ CloseSession(t) \/ FailSession(t) \/ FailOffer(t))
            <4>1. /\ call[t].kind \in {"offer", "close", "fail", "failoffer"}
                  /\ call[t].kind = "offer" => call[t].peer # offerer[call[t].id]
                BY <3>5 DEF OffererMismatch, CloseSession, FailSession, FailOffer, Writing
            <4>2. QED  BY <2>2, <3>1, <3>2, <3>5, <4>1 DEF WriteFits, CommitFits
        <3>6. QED  BY <3>1, <3>3, <3>4, <3>5
    <2>3. QED  BY <2>1, <2>2
<1>3. QED  BY <1>1, <1>2 DEF Next, vars, Tick, CommitShape

\* A goroutine comes to delete a session only when the session has ended.
LEMMA RemoveArrival ==
    ASSUME ControlInv, NEW t \in Threads, Begin(t) \/ Step(t), pc'[t] = "remove"
    PROVE  state'[call'[t].id] \in Terminal
<1>0. TypeOK /\ CallShape  BY DEF ControlInv
<1>a. pc \in [Threads -> Label] /\ call \in [Threads -> RunningCall]  BY <1>0 DEF TypeOK
<1>b. After(call[t]) = "remove" => Target(call[t]) \in Terminal
    BY TargetType DEF After, SessionState, Terminal
<1>1. ~Begin(t)  BY <1>a DEF Begin
<1>2. ~LockManager(t)  BY <1>a DEF LockManager, VisitNext
<1>3. ~ScanSession(t)  BY <1>a DEF ScanSession, VisitNext
<1>4. ~ForceClose(t) /\ ~ForceDelete(t)  BY <1>a DEF ForceClose, ForceDelete, Goto, VisitNext
<1>5. ~CreateSession(t) /\ ~Found(t) /\ ~NotFound(t)
    BY <1>a DEF CreateSession, Found, NotFound, Goto, Return
<1>6. ~AppendICE(t) /\ ~Remove(t) /\ ~Snapshot(t)
    BY <1>a DEF AppendICE, Remove, Snapshot, Goto, Return
<1>7. CASE Enter(t)
    <2>1. Admits(call[t])  BY <1>a, <1>7 DEF Enter, Return
    <2>2. call' = call /\ state' = state  BY <1>7, <2>1 DEF Enter, Goto, session
    <2>3. state[call[t].id] = "failed"  BY <1>a, <1>7, <2>1 DEF Enter, Goto
    <2>4. QED  BY <2>2, <2>3 DEF Terminal
<1>8. CASE Decide(t) /\ state' = state
    <2>1. state[call[t].id] = Target(call[t]) /\ Leave(t)
        BY <1>a, <1>8 DEF Decide, Goto, Refuse, Return
    <2>2. call' = call /\ After(call[t]) = "remove"  BY <1>0, <2>1, LeavePlace
    <2>3. QED  BY <1>8, <1>b, <2>1, <2>2
<1>9. CASE Commit(t)
    <2>1. call' = call /\ After(call[t]) = "remove"  BY <1>0, <1>9, LeavePlace DEF Commit
    <2>2. call[t].id \in Sessions  BY <1>0, <1>9 DEF Commit, CallShape, Serving
    <2>3. state'[call[t].id] = Target(call[t])  BY <1>0, <1>9, <2>2 DEF TypeOK, Commit
    <2>4. QED  BY <1>b, <2>1, <2>3
<1>10. QED
    BY <1>1, <1>2, <1>3, <1>4, <1>5, <1>6, <1>7, <1>8, <1>9
    DEF Step, ApplyOffer, ApplyAnswer, OffererMismatch, CloseSession, FailSession, FailOffer,
        session

\* ... and it has still ended when the goroutine gets m.mu.
LEMMA RemoveShapeStep == ControlInv /\ RemoveShape /\ [Next]_vars => RemoveShape'
<1> SUFFICES ASSUME ControlInv, RemoveShape, [Next]_vars PROVE RemoveShape'  OBVIOUS
<1>0. TypeOK  BY DEF ControlInv
<1>1. CASE UNCHANGED vars
    BY <1>1 DEF RemoveShape, vars, session, thread
<1>2. CASE Tick
    BY <1>2 DEF RemoveShape, Tick, session, thread
<1>3. ASSUME NEW t \in Threads, Begin(t) \/ Step(t), NEW u \in Threads, pc'[u] = "remove"
      PROVE  state'[call'[u].id] \in Terminal
    <2>1. CASE u # t
        <3>1. pc[u] = "remove" /\ call'[u] = call[u]  BY <1>0, <1>3, <2>1, OthersWait
        <3>2. state'[call[u].id] \in {state[call[u].id], "closed"}
            BY <1>3, <2>1, <3>1, HeldRecord
        <3>3. QED  BY <3>1, <3>2 DEF RemoveShape, Terminal
    <2>2. CASE u = t  BY <1>3, <2>2, RemoveArrival
    <2>3. QED  BY <2>1, <2>2
<1>4. QED  BY <1>1, <1>2, <1>3 DEF Next, RemoveShape

\* Somebody is about to delete session s from the map.
Doomed(s) == \E t \in Threads : \/ pc[t] = "remove" /\ call[t].id = s
                                \/ pc[t] = "forcedelete" /\ cur[t] = s

\* A step that ends a session leaves a goroutine about to delete it.
LEMMA Ending ==
    ASSUME ControlInv, [Next]_vars, NEW s \in Sessions, s \in active',
           state[s] \notin Terminal, state'[s] \in Terminal
    PROVE  Doomed(s)'
<1>0. TypeOK  BY DEF ControlInv
<1>1. CASE s \notin Visible'  BY <1>1 DEF Visible, Doomed
<1>2. CASE \E u \in Threads : Commit(u) /\ call[u].id = s /\ state'[s] = Target(call[u])
    <2>1. PICK u \in Threads : Commit(u) /\ call[u].id = s /\ state'[s] = Target(call[u])
        BY <1>2
    <2>2. After(call[u]) = "remove"  BY <2>1 DEF After, Terminal
    <2>3. call' = call /\ pc'[u] = "remove"  BY <1>0, <2>1, <2>2, LeavePlace DEF Commit
    <2>4. \E t \in Threads : pc'[t] = "remove" /\ call'[t].id = s  BY <2>1, <2>3
    <2>5. QED  BY <2>4 DEF Doomed
<1>3. Move(s)  BY StateMoves
<1>4. QED  BY <1>1, <1>2, <1>3 DEF Move, Terminal

\* A goroutine that is about to delete a session does so in its next step.
LEMMA RemoveIsNext ==
    ASSUME ControlInv, NEW t \in Threads, Begin(t) \/ Step(t)
    PROVE  /\ pc[t] = "remove" => call[t].id \notin active'
           /\ pc[t] = "forcedelete" => cur[t] \notin active'
BY DEF Begin, Step, LockManager, ScanSession, ForceClose, ForceDelete, CreateSession, Found,
       NotFound, Enter, ApplyOffer, OffererMismatch, ApplyAnswer, AppendICE, CloseSession,
       FailSession, FailOffer, Commit, Remove, Snapshot, Writing

\* An ended session in the map always has a goroutine about to delete it.
LEMMA LeakStep == ControlInv /\ NoTerminalLeak /\ [Next]_vars => NoTerminalLeak'
<1> SUFFICES ASSUME ControlInv, NoTerminalLeak, [Next]_vars,
                    NEW s, s \in active', state'[s] \in Terminal
             PROVE  Doomed(s)'
    BY DEF NoTerminalLeak, Doomed
<1>0. TypeOK /\ s \in Sessions  BY NextType DEF ControlInv, TypeOK
<1>1. CASE UNCHANGED <<session, thread>>
    BY <1>1 DEF NoTerminalLeak, Doomed, session, thread, scan
<1>2. ASSUME NEW t \in Threads, Begin(t) \/ Step(t)
      PROVE  Doomed(s)'
    <2>1. CASE state[s] \notin Terminal
        BY <1>0, <1>2, <2>1, Ending
    <2>2. CASE state[s] \in Terminal
        <3>1. s \in active
            <4>1. CASE CreateSession(t)
                BY <1>0, <2>2, <4>1 DEF TypeOK, CreateSession, Unborn, Terminal
            <4>2. CASE active' \subseteq active  BY <4>2
            <4>3. QED
                BY <1>2, <4>1, <4>2
                DEF Begin, Step, session, LockManager, ScanSession, ForceClose, ForceDelete, Found,
                    NotFound, Enter, ApplyOffer, OffererMismatch, ApplyAnswer, AppendICE,
                    CloseSession, FailSession, FailOffer, Commit, Remove, Snapshot
        <3>2. PICK u \in Threads : \/ pc[u] = "remove" /\ call[u].id = s
                                   \/ pc[u] = "forcedelete" /\ cur[u] = s
            BY <2>2, <3>1 DEF NoTerminalLeak
        <3>3. u # t  BY <1>2, <3>2, RemoveIsNext
        <3>4. pc'[u] = pc[u] /\ call'[u] = call[u] /\ cur'[u] = cur[u]
            BY <1>0, <1>2, <3>3, OthersWait
        <3>5. QED  BY <3>2, <3>4 DEF Doomed
    <2>3. QED  BY <2>1, <2>2
<1>3. QED  BY <1>1, <1>2 DEF Next, vars, Tick

\* Only the step that assigns the state ends the half-written time of a record.
LEMMA HalfWrittenStays ==
    ASSUME ControlInv, NEW t \in Threads, Begin(t) \/ Step(t), ~Commit(t),
           NEW s \in Sessions, HalfWritten(s)
    PROVE  HalfWritten(s)'
<1>0. TypeOK  BY DEF ControlInv
<1>1. PICK u \in Threads :
          pc[u] = "commit" /\ call[u].id = s /\ call[u].kind \in {"offer", "answer"}
    BY DEF HalfWritten
<1>2. u # t
    BY <1>1
    DEF Begin, Step, LockManager, ScanSession, ForceClose, ForceDelete, CreateSession, Found,
        NotFound, Enter, ApplyOffer, OffererMismatch, ApplyAnswer, AppendICE, CloseSession,
        FailSession, FailOffer, Remove, Snapshot, Writing
<1>3. pc'[u] = pc[u] /\ call'[u] = call[u]  BY <1>0, <1>2, OthersWait
<1>4. QED  BY <1>1, <1>3 DEF HalfWritten

\* What HandshakeShape says of one session.
Shaped(s) ==
    /\ state[s] = "new" => sdp[s] = {} /\ answerer[s] = NoPeer /\ offerer[s] # NoPeer
    /\ state[s] = "connecting" =>
         sdp[s] = {"offer"} /\ answerer[s] = NoPeer /\ offerer[s] # NoPeer
    /\ state[s] = "connected" =>
         /\ sdp[s] = {"offer", "answer"}
         /\ answerer[s] \notin {NoPeer, offerer[s]}

\* The handshake of a session goes on from what its state says.
LEMMA HandshakeStep ==
    ControlInv /\ WriteShape /\ CommitShape /\ HandshakeShape /\ [Next]_vars
      => HandshakeShape'
<1> SUFFICES ASSUME ControlInv, WriteShape, CommitShape, HandshakeShape, [Next]_vars,
                    NEW s \in Sessions, ~HalfWritten(s)'
             PROVE  Shaped(s)'
    BY DEF HandshakeShape, Shaped
<1>0. TypeOK /\ CallShape /\ EarlyShape /\ ScanShape  BY DEF ControlInv
<1>1. CASE UNCHANGED <<session, thread>>
    <2>1. ~HalfWritten(s)  BY <1>1 DEF HalfWritten, thread
    <2>2. Shaped(s)  BY <2>1 DEF HandshakeShape, Shaped
    <2>3. QED  BY <1>1, <2>2 DEF Shaped, session, record
<1>2. ASSUME NEW t \in Threads, Begin(t) \/ Step(t), ~Commit(t) PROVE Shaped(s)'
    <2>1. ~HalfWritten(s)  BY <1>2, HalfWrittenStays
    <2>2. Shaped(s)  BY <2>1 DEF HandshakeShape, Shaped
    <2>3. CASE UNCHANGED <<state, sdp, offerer, answerer>>
        BY <2>2, <2>3 DEF Shaped
    <2>4. CASE ForceClose(t)
        <3>1. cur[t] \in Sessions  BY <1>0, <2>4 DEF ForceClose, ScanShape, TypeOK
        <3>2. /\ state'[s] \in {state[s], "closed"}
              /\ UNCHANGED <<sdp, offerer, answerer>>
            BY <1>0, <2>4, <3>1 DEF TypeOK, ForceClose, ForceTransition, record
        <3>3. QED  BY <2>2, <3>2 DEF Shaped
    <2>5. CASE CreateSession(t)
        <3>1. PICK x \in Sessions : /\ state[x] = "unborn"
                                    /\ state' = [state EXCEPT ![x] = "new"]
                                    /\ offerer' = [offerer EXCEPT ![x] = call[t].peer]
            BY <2>5 DEF CreateSession, Unborn
        <3>2. call[t].peer # NoPeer
            BY <1>0, <2>5, ManagerAssumption DEF CreateSession, CallShape
        <3>3. sdp' = sdp /\ answerer' = answerer  BY <2>5 DEF CreateSession
        <3>4. CASE s = x
            BY <1>0, <3>1, <3>2, <3>3, <3>4 DEF EarlyShape, Shaped, TypeOK
        <3>5. CASE s # x
            BY <1>0, <2>2, <3>1, <3>3, <3>5 DEF Shaped, TypeOK
        <3>6. QED  BY <3>4, <3>5
    <2>6. CASE ApplyOffer(t)
        <3>1. UNCHANGED <<state, offerer, answerer>>  BY <2>6 DEF ApplyOffer
        <3>2. CASE s # call[t].id
            <4>1. sdp'[s] = sdp[s]  BY <1>0, <2>6, <3>2 DEF TypeOK, ApplyOffer
            <4>2. QED  BY <2>2, <3>1, <4>1 DEF Shaped
        <3>3. CASE s = call[t].id
            <4>1. /\ state[s] \in {"new", "closed"} /\ Decide(t) /\ pc[t] = "write"
                  /\ call[t].kind = "offer" /\ Target(call[t]) = "connecting"
                BY <2>6, <3>3 DEF ApplyOffer, Writing, WriteShape, WriteFits, Target
            <4>2. state[s] # "new"
                <5>1. SUFFICES ASSUME state[s] = "new" PROVE FALSE  OBVIOUS
                <5>2. Goto(t, "commit")
                    BY <3>3, <4>1, <5>1 DEF Decide, Accepts, Allowed
                <5>3. HalfWritten(s)'
                    BY <1>0, <3>3, <4>1, <5>2 DEF Goto, HalfWritten, TypeOK
                <5>4. QED  BY <5>3
            <4>3. QED  BY <3>1, <4>1, <4>2 DEF Shaped
        <3>4. QED  BY <3>2, <3>3
    <2>7. CASE ApplyAnswer(t)
        <3>1. UNCHANGED <<state, offerer>>  BY <2>7 DEF ApplyAnswer
        <3>2. CASE s # call[t].id
            <4>1. sdp'[s] = sdp[s] /\ answerer'[s] = answerer[s]
                BY <1>0, <2>7, <3>2 DEF TypeOK, ApplyAnswer
            <4>2. QED  BY <2>2, <3>1, <4>1 DEF Shaped
        <3>3. CASE s = call[t].id
            <4>1. /\ state[s] \in {"connecting", "closed"} /\ Decide(t) /\ pc[t] = "write"
                  /\ call[t].kind = "answer" /\ Target(call[t]) = "connected"
                BY <2>7, <3>3 DEF ApplyAnswer, Writing, WriteShape, WriteFits, Target
            <4>2. state[s] # "connecting"
                <5>1. SUFFICES ASSUME state[s] = "connecting" PROVE FALSE  OBVIOUS
                <5>2. Goto(t, "commit")
                    BY <3>3, <4>1, <5>1 DEF Decide, Accepts, Allowed
                <5>3. HalfWritten(s)'
                    BY <1>0, <3>3, <4>1, <5>2 DEF Goto, HalfWritten, TypeOK
                <5>4. QED  BY <5>3
            <4>3. QED  BY <3>1, <4>1, <4>2 DEF Shaped
        <3>4. QED  BY <3>2, <3>3
    <2>8. QED
        BY <1>2, <2>3, <2>4, <2>5, <2>6, <2>7
        DEF Begin, Step, session, record, LockManager, ScanSession, ForceDelete, Found, NotFound,
            Enter, OffererMismatch, AppendICE, CloseSession, FailSession, FailOffer, Remove,
            Snapshot
<1>3. ASSUME NEW t \in Threads, Commit(t) PROVE Shaped(s)'
    <2>1. /\ UNCHANGED <<sdp, offerer, answerer>> /\ pc[t] = "commit"
          /\ state' = [state EXCEPT ![call[t].id] = Target(call[t])]
        BY <1>3 DEF Commit, record
    <2>2. CASE s # call[t].id
        <3>1. state'[s] = state[s]  BY <1>0, <2>1, <2>2 DEF TypeOK
        <3>2. ~HalfWritten(s)
            <4>1. SUFFICES ASSUME HalfWritten(s) PROVE HalfWritten(s)'  OBVIOUS
            <4>2. PICK u \in Threads :
                      pc[u] = "commit" /\ call[u].id = s /\ call[u].kind \in {"offer", "answer"}
                BY <4>1 DEF HalfWritten
            <4>3. u # t  BY <2>2, <4>2
            <4>4. pc'[u] = pc[u] /\ call'[u] = call[u]
                BY <1>0, <1>3, <4>3, OthersWait DEF Step
            <4>5. QED  BY <4>2, <4>4 DEF HalfWritten
        <3>3. Shaped(s)  BY <3>2 DEF HandshakeShape, Shaped
        <3>4. QED  BY <2>1, <3>1, <3>3 DEF Shaped
    <2>3. CASE s = call[t].id
        <3>1. /\ state'[s] = Target(call[t]) /\ offerer[s] # NoPeer /\ CommitFits(t)
              /\ call[t].peer # NoPeer
            BY <1>0, <2>1, <2>3, ManagerAssumption
            DEF TypeOK, CallShape, Serving, EarlyShape, CommitShape
        <3>2. CASE state'[s] = "connecting"
            <4>1. call[t].kind = "offer" /\ call[t].peer = offerer[s]
                BY <2>3, <3>1, <3>2 DEF Target
            <4>2. QED  BY <2>1, <2>3, <3>1, <3>2, <4>1 DEF CommitFits, Shaped
        <3>3. CASE state'[s] = "connected"
            <4>1. call[t].kind = "answer"  BY <2>3, <3>1, <3>3 DEF Target
            <4>2. QED  BY <2>1, <2>3, <3>1, <3>3, <4>1 DEF CommitFits, Shaped
        <3>4. CASE state'[s] \notin {"connecting", "connected"}
            <4>1. state'[s] # "new"  BY <3>1 DEF Target
            <4>2. QED  BY <3>4, <4>1 DEF Shaped
        <3>5. QED  BY <3>2, <3>3, <3>4
    <2>4. QED  BY <2>2, <2>3
<1>4. QED  BY <1>1, <1>2, <1>3 DEF Next, vars, Tick, Step

-----------------------------------------------------------------------------
\* The inductive invariant and what follows from it.

\* IInv holds initially.
LEMMA InvInit == Init => IInv
<1> SUFFICES ASSUME Init PROVE IInv  OBVIOUS
<1>1. ControlInv  BY ControlInit
<1>2. QED
    BY <1>1
    DEF Init, IInv, WriteShape, CommitShape, RemoveShape, HandshakeShape, NoTerminalLeak

\* Every step keeps IInv.
LEMMA InvStep == IInv /\ [Next]_vars => IInv'
BY ControlStep, WriteShapeStep, CommitShapeStep, RemoveShapeStep, HandshakeStep, LeakStep
   DEF IInv

\* IInv is an invariant.
THEOREM InvHolds == Spec => []IInv
BY InvInit, InvStep, PTL DEF Spec

\* What a session's state says about its handshake is true, although expireLocked
\* assigns the state without holding the session's mutex.
THEOREM HandshakeIsShaped == Spec => []HandshakeShape
<1>1. IInv => HandshakeShape  BY DEF IInv
<1>2. QED  BY <1>1, InvHolds, PTL

\* No ended session stays in the map with nobody about to delete it.
THEOREM NothingLeaks == Spec => []NoTerminalLeak
<1>1. IInv => NoTerminalLeak  BY DEF IInv
<1>2. QED  BY <1>1, InvHolds, PTL

\* A session that a lookup can come upon has not ended under the hands of the
\* goroutine that is writing it: only the expiry ends it there, and deletes it.
LEMMA HeldAlive ==
    ASSUME IInv, NEW t \in Threads, pc[t] \in {"write", "commit"}, call[t].id \in Visible
    PROVE  state[call[t].id] \notin Terminal
<1>0. /\ LockDiscipline /\ NoTerminalLeak /\ active \subseteq Sessions
      /\ call[t].id \in active
    BY DEF IInv, ControlInv, TypeOK, Visible
<1>1. SUFFICES ASSUME state[call[t].id] \in Terminal PROVE FALSE  OBVIOUS
<1>2. PICK u \in Threads : \/ pc[u] = "remove" /\ call[u].id = call[t].id
                           \/ pc[u] = "forcedelete" /\ cur[u] = call[t].id
    BY <1>0, <1>1 DEF NoTerminalLeak
<1>3. pc[u] = "remove" /\ call[u].id = call[t].id  BY <1>2 DEF Visible
<1>4. wsmu[call[t].id] = t /\ wsmu[call[t].id] = u
    BY <1>0, <1>3 DEF LockDiscipline
<1>5. QED  BY <1>3, <1>4

\* No step takes a session that a lookup can come upon back to an earlier stage of
\* its life; of one that an expiry has closed and is about to delete this is not true.
THEOREM NeverBackwards == Spec => StateNeverRegresses
<1>1. ASSUME IInv, [Next]_vars, NEW s \in Visible
      PROVE  Rank(state[s]) <= Rank(state'[s])
    <2>1. s \in Sessions  BY <1>1 DEF IInv, ControlInv, TypeOK, Visible
    <2>2. Move(s)  BY <1>1, <2>1, StateMoves DEF IInv
    <2>3. state[s] \in SessionState \union {"unborn"}
        BY <1>1, <2>1 DEF IInv, ControlInv, TypeOK
    <2>4. CASE \E t \in Threads : Commit(t) /\ call[t].id = s /\ state'[s] = Target(call[t])
        <3>1. PICK t \in Threads : Commit(t) /\ call[t].id = s /\ state'[s] = Target(call[t])
            BY <2>4
        <3>2. pc[t] = "commit"  BY <3>1 DEF Commit
        <3>3. state[s] \notin Terminal /\ CommitFits(t)
            BY <1>1, <3>1, <3>2, HeldAlive DEF IInv, CommitShape
        <3>4. QED  BY <2>3, <3>1, <3>3 DEF CommitFits, Target, Terminal, SessionState, Rank
    <2>5. QED  BY <2>2, <2>3, <2>4 DEF Move, Rank, SessionState
<1>2. IInv /\ [Next]_vars
        => [\A s \in Visible : Rank(state[s]) <= Rank(state'[s])]_vars
    BY <1>1
<1>3. QED  BY <1>2, InvInit, InvStep, PTL DEF Spec, StateNeverRegresses

\* Once a session has an offerer or an answerer, no request replaces them.
THEOREM PartiesNeverChange == Spec => PartiesAreStable
<1>1. ASSUME IInv, [Next]_vars, NEW s \in Sessions
      PROVE  /\ offerer[s] # NoPeer => offerer'[s] = offerer[s]
             /\ answerer[s] # NoPeer => answerer'[s] = answerer[s]
    <2>0. TypeOK /\ EarlyShape /\ CallShape /\ WriteShape  BY <1>1 DEF IInv, ControlInv
    <2>1. CASE offerer' = offerer /\ answerer' = answerer  BY <2>1
    <2>2. ASSUME NEW t \in Threads, CreateSession(t)
          PROVE  /\ offerer[s] # NoPeer => offerer'[s] = offerer[s]
                 /\ answerer' = answerer
        BY <2>0, <2>2 DEF TypeOK, EarlyShape, CreateSession, Unborn
    <2>3. ASSUME NEW t \in Threads, ApplyAnswer(t)
          PROVE  /\ answerer[s] # NoPeer => answerer'[s] = answerer[s]
                 /\ offerer' = offerer
        BY <2>0, <2>3 DEF TypeOK, ApplyAnswer, Writing, WriteShape, WriteFits
    <2>4. QED
        BY <1>1, <2>1, <2>2, <2>3
        DEF Next, Step, vars, session, record, Tick, Begin, LockManager, ScanSession, ForceClose,
            ForceDelete, Found, NotFound, Enter, ApplyOffer, OffererMismatch, AppendICE,
            CloseSession, FailSession, FailOffer, Commit, Remove, Snapshot
<1>2. IInv /\ [Next]_vars
        => [\A s \in Sessions :
              /\ offerer[s] # NoPeer => offerer'[s] = offerer[s]
              /\ answerer[s] # NoPeer => answerer'[s] = answerer[s]]_vars
    BY <1>1
<1>3. QED  BY <1>2, InvInit, InvStep, PTL DEF Spec, PartiesAreStable

-----------------------------------------------------------------------------
\* The lazy expiry and the lookup that follows it.

\* An entry that the walk with cutoff time `when` is done with stays current, or
\* ended: whoever is about to assign its state took the time after the cutoff.
Settled(s, when) ==
    /\ state[s] \in Terminal \/ ~Stale(s, when)
    /\ \A u \in Threads : pc[u] = "commit" /\ call[u].id = s => when <= at[u]

\* The walk has settled every entry of the map that it need not visit any more.
Walked(t) ==
    /\ at[t] <= now
    /\ pc[t] = "lookup" => todo[t] = {}
    /\ \A s \in active \ todo[t] : Settled(s, at[t])

WalkShape ==
    \A t \in Threads : pc[t] \in {"scan", "forceclose", "forcedelete", "lookup"} => Walked(t)

\* A settled entry stays settled while it is in the map: whatever a goroutine
\* writes into it is stamped with a time after the cutoff.
LEMMA SettledStays ==
    ASSUME ControlInv, [Next]_vars, NEW s \in Sessions, s \in active, s \in active',
           NEW when \in Nat, when <= now, Settled(s, when)
    PROVE  Settled(s, when)'
<1>0. /\ TypeOK /\ CallShape /\ ScanShape /\ EarlyShape
      /\ TTL \in Nat \ {0} /\ now \in Nat /\ at \in [Threads -> 0..MaxTime]
      /\ stamp \in [Sessions -> 0..MaxTime] /\ MaxTime \in Nat
    BY ManagerAssumption DEF ControlInv, TypeOK
<1>1. CASE UNCHANGED <<session, thread>>
    BY <1>1 DEF Settled, Stale, session, thread, scan
<1>2. ASSUME NEW t \in Threads, Begin(t) \/ Step(t)
      PROVE  Settled(s, when)'
    <2>1. ASSUME NEW u \in Threads, pc'[u] = "commit", call'[u].id = s
          PROVE  when <= at'[u]
        <3>1. CASE u # t
            <4>1. pc[u] = "commit" /\ call[u].id = s /\ at'[u] = at[u]
                BY <1>0, <1>2, <2>1, <3>1, OthersWait
            <4>2. QED  BY <4>1 DEF Settled
        <3>2. CASE u = t
            <4>1. Decide(t)
                BY <1>0, <1>2, <2>1, <3>2, CommitArrival
                DEF ApplyOffer, ApplyAnswer, OffererMismatch, CloseSession, FailSession, FailOffer
            <4>2. at'[t] = now  BY <1>0, <2>1, <3>2, <4>1, DecidePlace
            <4>3. QED  BY <3>2, <4>2
        <3>3. QED  BY <3>1, <3>2
    <2>2. state'[s] \in Terminal \/ ~Stale(s, when)'
        <3>1. CASE state'[s] = state[s] /\ stamp'[s] = stamp[s]
            BY <3>1 DEF Settled, Stale
        <3>2. CASE ForceClose(t)
            <4>1. CASE s # cur[t]
                <5>1. state'[s] = state[s] /\ stamp'[s] = stamp[s]
                    BY <1>0, <3>2, <4>1 DEF TypeOK, ForceClose, ForceTransition
                <5>2. QED  BY <3>1, <5>1
            <4>2. CASE s = cur[t]
                <5>1. state'[s] = "closed"
                    BY <1>0, <3>2, <4>2 DEF TypeOK, ForceClose, ForceTransition
                <5>2. QED  BY <5>1 DEF Terminal
            <4>3. QED  BY <4>1, <4>2
        <3>3. CASE CreateSession(t)
            <4>1. PICK x \in Unborn : /\ state' = [state EXCEPT ![x] = "new"]
                                      /\ stamp' = [stamp EXCEPT ![x] = now]
                BY <3>3 DEF CreateSession
            <4>2. x # s  BY <1>0 DEF EarlyShape, Unborn
            <4>3. state'[s] = state[s] /\ stamp'[s] = stamp[s]
                BY <1>0, <4>1, <4>2 DEF TypeOK
            <4>4. QED  BY <3>1, <4>3
        <3>4. CASE Commit(t)
            <4>1. CASE call[t].id # s
                <5>1. state'[s] = state[s] /\ stamp'[s] = stamp[s]
                    BY <1>0, <3>4, <4>1 DEF TypeOK, Commit
                <5>2. QED  BY <3>1, <5>1
            <4>2. CASE call[t].id = s
                <5>1. stamp'[s] = at[t] /\ when <= at[t]
                    BY <1>0, <3>4, <4>2 DEF Commit, Settled
                <5>2. QED  BY <1>0, <5>1 DEF Stale
            <4>3. QED  BY <4>1, <4>2
        <3>5. CASE AppendICE(t)
            <4>1. CASE call[t].id # s
                <5>1. state'[s] = state[s] /\ stamp'[s] = stamp[s]
                    BY <1>0, <3>5, <4>1 DEF TypeOK, AppendICE
                <5>2. QED  BY <3>1, <5>1
            <4>2. CASE call[t].id = s
                <5>1. stamp'[s] = now  BY <1>0, <3>5, <4>2 DEF AppendICE
                <5>2. QED  BY <1>0, <5>1 DEF Stale
            <4>3. QED  BY <4>1, <4>2
        <3>6. CASE UNCHANGED <<state, stamp>>
            BY <3>1, <3>6
        <3>7. QED
            BY <1>2, <3>2, <3>3, <3>4, <3>5, <3>6
            DEF Step, Begin, session, record, LockManager, ScanSession, ForceDelete, Found,
                NotFound, Enter, ApplyOffer, OffererMismatch, ApplyAnswer, CloseSession,
                FailSession, FailOffer, Remove, Snapshot
    <2>3. QED  BY <2>1, <2>2 DEF Settled
<1>3. QED  BY <1>1, <1>2 DEF Next, vars, Tick

\* Nobody but its holder puts an entry into the map while m.mu is held.
LEMMA MapOnlyShrinks ==
    ASSUME ControlInv, NEW t \in Threads, Begin(t) \/ Step(t), NEW u \in Threads, u # t,
           pc[u] \in {"scan", "forceclose", "forcedelete", "lookup"}
    PROVE  active' \subseteq active
<1>1. ~CreateSession(t)  BY DEF ControlInv, LockDiscipline, CreateSession
<1>2. QED
    BY <1>1
    DEF Begin, Step, session, LockManager, ScanSession, ForceClose, ForceDelete, Found, NotFound,
        Enter, ApplyOffer, OffererMismatch, ApplyAnswer, AppendICE, CloseSession, FailSession,
        FailOffer, Commit, Remove, Snapshot

\* A goroutine is under m.mu only because it took it, or because it was there.
LEMMA WalkArrival ==
    ASSUME TypeOK, NEW t \in Threads, Begin(t) \/ Step(t),
           pc'[t] \in {"scan", "forceclose", "forcedelete", "lookup"}
    PROVE  LockManager(t) \/ ScanSession(t) \/ ForceClose(t) \/ ForceDelete(t)
<1>0. pc \in [Threads -> Label]  BY DEF TypeOK
<1>1. ~Begin(t)  BY <1>0 DEF Begin
<1>2. ~CreateSession(t) /\ ~Found(t) /\ ~NotFound(t)
    BY <1>0 DEF CreateSession, Found, NotFound, Goto, Return
<1>3. ~Enter(t)
    <2>1. SUFFICES ASSUME Enter(t) PROVE FALSE  OBVIOUS
    <2>2. Return(t) \/ \E label \in {"remove", "write"} : Goto(t, label)
        BY <2>1 DEF Enter
    <2>3. QED  BY <1>0, <2>2 DEF Goto, Return
<1>4. ~Decide(t)  BY DecidePlace
<1>5. /\ ~ApplyOffer(t) /\ ~OffererMismatch(t) /\ ~ApplyAnswer(t) /\ ~CloseSession(t)
      /\ ~FailSession(t) /\ ~FailOffer(t)
    BY <1>4 DEF ApplyOffer, OffererMismatch, ApplyAnswer, CloseSession, FailSession, FailOffer
<1>6. ~AppendICE(t) /\ ~Remove(t) /\ ~Snapshot(t)
    BY <1>0 DEF AppendICE, Remove, Snapshot, Goto, Return
<1>7. ~Commit(t)  BY LeavePlace DEF Commit
<1>8. QED  BY <1>1, <1>2, <1>3, <1>5, <1>6, <1>7 DEF Step

\* The walk settles the entry it visits, whose mutex it had, and what it settled
\* before stays settled.
LEMMA WalkStep == ControlInv /\ WalkShape /\ [Next]_vars => WalkShape'
<1> SUFFICES ASSUME ControlInv, WalkShape, [Next]_vars, NEW t \in Threads,
                    pc'[t] \in {"scan", "forceclose", "forcedelete", "lookup"}
             PROVE  Walked(t)'
    BY DEF WalkShape
<1>0. /\ TypeOK /\ LockDiscipline /\ ScanShape
      /\ pc \in [Threads -> Label] /\ cur \in [Threads -> Sessions \union {NoSession}]
      /\ todo \in [Threads -> SUBSET Sessions] /\ at \in [Threads -> 0..MaxTime]
      /\ now \in Nat /\ active \subseteq Sessions /\ MaxTime \in Nat
    BY ManagerAssumption DEF ControlInv, TypeOK
<1>1. ASSUME pc[t] \in {"scan", "forceclose", "forcedelete", "lookup"}, at'[t] = at[t], now <= now',
             now' \in Nat, pc'[t] = "lookup" => todo'[t] = {},
             \A s \in active' \ todo'[t] : s \in active /\ Settled(s, at[t])
      PROVE  Walked(t)'
    <2>1. at[t] <= now  BY <1>1 DEF WalkShape, Walked
    <2>2. PICK when \in Nat : when = at[t] /\ when <= now  BY <1>0, <2>1
    <2>3. ASSUME NEW s \in active' \ todo'[t] PROVE Settled(s, when)'
        <3>1. s \in active /\ s \in active' /\ Settled(s, when)  BY <1>1, <2>2, <2>3
        <3>2. s \in Sessions  BY <1>0, <3>1
        <3>3. QED  BY <2>2, <3>1, <3>2, SettledStays
    <2>4. at'[t] = when /\ at'[t] <= now'  BY <1>0, <1>1, <2>2
    <2>5. \A s \in active' \ todo'[t] : Settled(s, at[t])'
        BY <2>3, <2>4
    <2>6. QED  BY <1>1, <2>4, <2>5 DEF Walked
<1>2. CASE now <= now' /\ now' \in Nat /\ UNCHANGED <<pc, at, todo, active>>
    <2>1. Walked(t)  BY <1>2 DEF WalkShape
    <2>2. QED  BY <1>1, <1>2, <2>1 DEF Walked
<1>3. ASSUME NEW u \in Threads, u # t, Begin(u) \/ Step(u), now' = now PROVE Walked(t)'
    <2>1. pc'[t] = pc[t] /\ at'[t] = at[t] /\ todo'[t] = todo[t]
        BY <1>0, <1>3, OthersWait
    <2>2. Walked(t) /\ active' \subseteq active
        BY <1>3, <2>1, MapOnlyShrinks DEF WalkShape
    <2>3. QED  BY <1>0, <1>1, <1>3, <2>1, <2>2 DEF Walked
<1>4. CASE LockManager(t)
    <2>1. at'[t] = now /\ todo'[t] = active /\ active' = active /\ now' = now
        BY <1>0, <1>4 DEF LockManager, session
    <2>2. pc'[t] = "lookup" => active = {}  BY <1>0, <1>4 DEF LockManager, VisitNext
    <2>3. at'[t] <= now'  BY <1>0, <2>1
    <2>4. QED  BY <2>1, <2>2, <2>3 DEF Walked
<1>5. CASE ScanSession(t)
    <2>1. /\ pc[t] = "scan" /\ wsmu[cur[t]] = NoThread /\ at'[t] = at[t] /\ active' = active
          /\ now' = now
        BY <1>5 DEF ScanSession, session
    <2>2. Walked(t) /\ cur[t] \in active /\ cur[t] \in Sessions
        BY <1>0, <2>1 DEF WalkShape, ScanShape
    <2>3. CASE Stale(cur[t], at[t]) /\ state[cur[t]] \notin Terminal
        <3>1. pc'[t] = "forceclose" /\ todo'[t] = todo[t]
            BY <1>0, <1>5, <2>3 DEF ScanSession
        <3>2. QED  BY <1>0, <1>1, <2>1, <2>2, <3>1 DEF Walked
    <2>4. CASE ~(Stale(cur[t], at[t]) /\ state[cur[t]] \notin Terminal)
        <3>1. todo'[t] = todo[t] \ {cur[t]} /\ VisitNext(t, todo[t] \ {cur[t]})
            BY <1>0, <1>5, <2>4 DEF ScanSession
        <3>2. pc'[t] = "lookup" => todo'[t] = {}  BY <1>0, <3>1 DEF VisitNext
        <3>3. \A u \in Threads : ~(pc[u] = "commit" /\ call[u].id = cur[t])
            BY <1>0, <2>1, <2>2, ManagerAssumption DEF LockDiscipline
        <3>4. Settled(cur[t], at[t])  BY <2>4, <3>3 DEF Settled
        <3>5. \A s \in active' \ todo'[t] : s \in active /\ Settled(s, at[t])
            BY <2>1, <2>2, <3>1, <3>4 DEF Walked
        <3>6. QED  BY <1>0, <1>1, <2>1, <3>2, <3>5
    <2>5. QED  BY <2>3, <2>4
<1>6. CASE ForceClose(t)
    <2>1. /\ pc[t] = "forceclose" /\ at'[t] = at[t] /\ active' = active /\ todo' = todo
          /\ now' = now
        BY <1>6 DEF ForceClose, scan
    <2>2. pc'[t] = "forcedelete"  BY <1>0, <1>6 DEF ForceClose, Goto
    <2>3. Walked(t)  BY <2>1 DEF WalkShape
    <2>4. QED  BY <1>0, <1>1, <2>1, <2>2, <2>3 DEF Walked
<1>6a. CASE ForceDelete(t)
    <2>1. /\ pc[t] = "forcedelete" /\ at'[t] = at[t] /\ active' = active \ {cur[t]}
          /\ now' = now
        BY <1>6a DEF ForceDelete
    <2>2. todo'[t] = todo[t] \ {cur[t]} /\ VisitNext(t, todo[t] \ {cur[t]})
        BY <1>0, <1>6a DEF ForceDelete
    <2>3. pc'[t] = "lookup" => todo'[t] = {}  BY <1>0, <2>2 DEF VisitNext
    <2>4. Walked(t)  BY <2>1 DEF WalkShape
    <2>5. \A s \in active' \ todo'[t] : s \in active /\ Settled(s, at[t])
        BY <2>1, <2>2, <2>4 DEF Walked
    <2>6. QED  BY <1>0, <1>1, <2>1, <2>3, <2>5
<1>7. CASE Begin(t) \/ Step(t)
    BY <1>0, <1>4, <1>5, <1>6, <1>6a, <1>7, WalkArrival
<1>8. CASE UNCHANGED vars
    BY <1>0, <1>2, <1>8 DEF vars, session, thread, scan
<1>9. CASE Tick
    BY <1>0, <1>2, <1>9 DEF Tick, session, thread, scan
<1>10. ASSUME NEW u \in Threads, Begin(u) \/ Step(u) PROVE now' = now
    BY <1>10
    DEF Begin, Step, LockManager, ScanSession, ForceClose, ForceDelete, CreateSession, Found,
        NotFound, UnlockManager, Enter, ApplyOffer, OffererMismatch, ApplyAnswer, AppendICE,
        CloseSession, FailSession, FailOffer, Commit, Remove, Snapshot
<1>11. QED  BY <1>3, <1>7, <1>8, <1>9, <1>10 DEF Next

\* GetSession, CreateSession and Expire never see an entry that is alive and past
\* the TTL: what the walk left behind is current by the cutoff it started with,
\* although other goroutines wrote records and the clock ran while it walked.
THEOREM LookupIsNeverStale == Spec => []NoStaleLookup
<1>1. Init => WalkShape  BY DEF Init, WalkShape
<1>2. WalkShape => NoStaleLookup
    <2> SUFFICES ASSUME WalkShape, NEW t \in Threads, pc[t] = "lookup", NEW s \in active
                 PROVE  state[s] \in Terminal \/ ~Stale(s, at[t])
        BY DEF NoStaleLookup
    <2>1. Walked(t)  BY DEF WalkShape
    <2>2. QED  BY <2>1 DEF Walked, Settled
<1>3. QED  BY <1>1, <1>2, ControlInit, ControlStep, WalkStep, PTL DEF Spec

-----------------------------------------------------------------------------
\* The manager implements SessionLifecycle.

\* The life of a session, as the refinement mapping of WebRTCManager has it.
LifeOf == [s \in Sessions |->
             IF state[s] # "unborn" /\ (state[s] \in Terminal \/ s \notin Visible)
             THEN "done" ELSE state[s]]

\* The initial state is one of the abstract specification.
LEMMA LifeInit == Init => Life!LifecycleInit
<1> SUFFICES ASSUME Init PROVE Life!LifecycleInit  OBVIOUS
<1>1. LifeOf = [s \in Sessions |-> "unborn"]  BY DEF Init, LifeOf
<1>2. Visible = {}  BY DEF Init, Visible
<1>3. QED  BY <1>1, <1>2 DEF Life!LifecycleInit, LifeOf

\* While m.mu is free, or held by somebody who is not about to delete an entry, no
\* entry is hidden from lookups.
LEMMA AllVisible ==
    ASSUME LockDiscipline,
           \/ mmu = NoThread
           \/ \E t \in Threads : pc[t] \in {"scan", "forceclose", "lookup"}
    PROVE  Visible = active
<1>1. \A u \in Threads : pc[u] # "forcedelete"  BY ManagerAssumption DEF LockDiscipline
<1>2. QED  BY <1>1 DEF Visible

\* Only an expiry that closes an entry and the deletion after it change what is hidden.
LEMMA HiddenKept ==
    ASSUME ControlInv, NEW t \in Threads, Begin(t) \/ Step(t), ~ForceClose(t), ~ForceDelete(t),
           active' = active
    PROVE  Visible' = Visible
<1>0. TypeOK /\ pc \in [Threads -> Label]  BY DEF ControlInv, TypeOK
<1>1. pc[t] # "forcedelete"
    BY DEF Begin, Step, LockManager, ScanSession, ForceClose, CreateSession, Found, NotFound,
           Enter, ApplyOffer, OffererMismatch, ApplyAnswer, AppendICE, CloseSession, FailSession,
           FailOffer, Commit, Remove, Snapshot, Writing
<1>2. pc'[t] # "forcedelete"
    <2>1. SUFFICES ASSUME pc'[t] = "forcedelete" PROVE FALSE  OBVIOUS
    <2>2. LockManager(t) \/ ScanSession(t)  BY <1>0, <2>1, WalkArrival
    <2>3. pc'[t] \in {"scan", "lookup", "forceclose"}
        BY <1>0, <2>2 DEF LockManager, ScanSession, VisitNext
    <2>4. QED  BY <2>1, <2>3
<1>3. \A u \in Threads \ {t} : pc'[u] = pc[u] /\ cur'[u] = cur[u]  BY <1>0, OthersWait
<1>4. QED  BY <1>1, <1>2, <1>3 DEF Visible

\* An expiry that closes an entry hides it from lookups.
LEMMA CloseHides ==
    ASSUME ControlInv, NEW t \in Threads, ForceClose(t)
    PROVE  Visible = active /\ Visible' = active \ {cur[t]}
<1>0. TypeOK /\ LockDiscipline /\ pc \in [Threads -> Label]  BY DEF ControlInv, TypeOK
<1>1. pc[t] = "forceclose" /\ active' = active /\ cur' = cur  BY DEF ForceClose, scan
<1>2. Visible = active  BY <1>0, <1>1, AllVisible
<1>3. pc'[t] = "forcedelete"  BY <1>0 DEF ForceClose, Goto
<1>4. \A u \in Threads \ {t} : pc'[u] # "forcedelete"
    <2>1. \A u \in Threads \ {t} : pc'[u] = pc[u]  BY <1>0 DEF ForceClose, Goto
    <2>2. \A u \in Threads : pc[u] # "forcedelete"
        BY <1>0, <1>1 DEF LockDiscipline
    <2>3. QED  BY <2>1, <2>2
<1>5. QED  BY <1>1, <1>2, <1>3, <1>4 DEF Visible

\* The deletion of a hidden entry changes nothing that a lookup could see.
LEMMA DeleteIsHidden ==
    ASSUME ControlInv, NEW t \in Threads, ForceDelete(t)
    PROVE  Visible' = Visible
<1>0. TypeOK /\ LockDiscipline /\ pc \in [Threads -> Label]  BY DEF ControlInv, TypeOK
<1>1. pc[t] = "forcedelete" /\ active' = active \ {cur[t]}  BY DEF ForceDelete
<1>2. \A u \in Threads \ {t} : pc[u] # "forcedelete"  BY <1>0, <1>1 DEF LockDiscipline
<1>3. Visible = active \ {cur[t]}  BY <1>1, <1>2 DEF Visible
<1>4. pc'[t] # "forcedelete" /\ \A u \in Threads \ {t} : pc'[u] = pc[u]
    BY <1>0 DEF ForceDelete, VisitNext
<1>5. Visible' = active'  BY <1>2, <1>4 DEF Visible
<1>6. QED  BY <1>1, <1>3, <1>5

\* A change of one session is a change of one session's life.
LEMMA LifeChange ==
    ASSUME TypeOK, NEW s \in Sessions,
           \A x \in Sessions \ {s} : state'[x] = state[x] /\ (x \in Visible' <=> x \in Visible),
           NEW after,
           after = IF state'[s] # "unborn" /\ (state'[s] \in Terminal \/ s \notin Visible')
                   THEN "done" ELSE state'[s]
    PROVE  LifeOf' = [LifeOf EXCEPT ![s] = after]
BY DEF LifeOf

\* Every step of the manager is a step in the life of one session, or none.
LEMMA LifeStep == IInv /\ [Next]_vars => [Life!LifecycleNext]_Life!lifecycleVars
<1> SUFFICES ASSUME IInv, [Next]_vars
             PROVE  Life!LifecycleNext \/ (LifeOf' = LifeOf /\ Visible' = Visible)
    BY DEF Life!lifecycleVars, LifeOf
<1>0. /\ ControlInv /\ TypeOK /\ LockDiscipline /\ CallShape /\ EarlyShape /\ ScanShape
      /\ CommitShape /\ RemoveShape
    BY DEF IInv, ControlInv
<1>a. state \in [Sessions -> SessionState \union {"unborn"}] /\ active \subseteq Sessions
    BY <1>0 DEF TypeOK
<1>1. CASE state' = state /\ Visible' = Visible
    BY <1>1 DEF LifeOf
<1>2. ASSUME NEW t \in Threads, ForceClose(t) PROVE Life!LifecycleNext
    <2>1. PICK s \in Sessions : s = cur[t] /\ s \in active /\ state[s] # "unborn"
        BY <1>0, <1>a, <1>2 DEF ForceClose, ScanShape, EarlyShape
    <2>2. /\ s \in Visible /\ Visible' = Visible \ {s} /\ state'[s] = "closed"
          /\ \A x \in Sessions \ {s} : state'[x] = state[x]
        BY <1>0, <1>2, <2>1, CloseHides DEF ForceClose, ForceTransition, TypeOK
    <2>3. LifeOf' = [LifeOf EXCEPT ![s] = "done"]
        BY <1>0, <2>1, <2>2, LifeChange DEF Terminal
    <2>4. CASE state[s] \in Terminal
        <3>1. LifeOf[s] = "done" /\ LifeOf' = LifeOf  BY <2>1, <2>3, <2>4 DEF LifeOf
        <3>2. Life!Forget(s)  BY <2>1, <2>2, <3>1 DEF Life!Forget, LifeOf
        <3>3. QED  BY <2>1, <3>2 DEF Life!LifecycleNext
    <2>5. CASE state[s] \notin Terminal
        <3>1. LifeOf[s] \in {"new", "connecting", "connected"}
            BY <1>a, <2>1, <2>2, <2>5 DEF LifeOf, SessionState, Terminal
        <3>2. Life!Lapse(s)  BY <2>2, <2>3, <3>1 DEF Life!Lapse, Life!Live, LifeOf
        <3>3. QED  BY <2>1, <3>2 DEF Life!LifecycleNext
    <2>6. QED  BY <2>4, <2>5
<1>3. ASSUME NEW t \in Threads, CreateSession(t) PROVE Life!LifecycleNext
    <2>1. PICK s \in Sessions : /\ state[s] = "unborn"
                                /\ state' = [state EXCEPT ![s] = "new"]
                                /\ Visible' = Visible \union {s}
        <3>1. PICK s \in Sessions : /\ state[s] = "unborn"
                                    /\ state' = [state EXCEPT ![s] = "new"]
                                    /\ active' = active \union {s}
            BY <1>3 DEF CreateSession, Unborn
        <3>2. Visible = active
            BY <1>0, <1>3, AllVisible DEF CreateSession
        <3>3. LockDiscipline' /\ mmu' = NoThread
            BY <1>0, <1>3, LockStep DEF CreateSession, UnlockManager
        <3>4. \A u \in Threads : pc'[u] # "forcedelete"
            BY <3>3, ManagerAssumption DEF LockDiscipline
        <3>5. Visible' = active'  BY <3>4 DEF Visible
        <3>6. QED  BY <3>1, <3>2, <3>5
    <2>2. state'[s] = "new" /\ \A x \in Sessions \ {s} : state'[x] = state[x]
        BY <1>a, <2>1
    <2>3. LifeOf' = [LifeOf EXCEPT ![s] = "new"]
        BY <1>0, <2>1, <2>2, LifeChange DEF Terminal
    <2>4. LifeOf[s] = "unborn"  BY <2>1 DEF LifeOf
    <2>5. Life!Create(s)  BY <2>1, <2>3, <2>4 DEF Life!Create, LifeOf
    <2>6. QED  BY <2>5 DEF Life!LifecycleNext
<1>4. ASSUME NEW t \in Threads, Commit(t)
      PROVE  Life!LifecycleNext \/ (LifeOf' = LifeOf /\ Visible' = Visible)
    <2>1. PICK s \in Sessions : s = call[t].id /\ state[s] # "unborn"
        BY <1>0, <1>4 DEF Commit, CallShape, Serving
    <2>2. pc[t] = "commit" /\ Visible' = Visible /\ CommitFits(t)
        <3>1. pc[t] = "commit" /\ active' = active /\ CommitFits(t)
            BY <1>0, <1>4 DEF Commit, CommitShape
        <3>2. ~ForceClose(t) /\ ~ForceDelete(t)  BY <3>1 DEF ForceClose, ForceDelete
        <3>3. QED  BY <1>0, <1>4, <3>1, <3>2, HiddenKept DEF Step
    <2>3. state'[s] = Target(call[t]) /\ \A x \in Sessions \ {s} : state'[x] = state[x]
        BY <1>0, <1>4, <2>1 DEF TypeOK, Commit
    <2>4. Target(call[t]) \in {"connecting", "connected"} \union Terminal
        BY TargetType DEF SessionState, Terminal
    <2>5. CASE s \notin Visible
        <3>1. LifeOf' = [LifeOf EXCEPT ![s] = "done"]
            BY <1>0, <2>1, <2>2, <2>3, <2>4, <2>5, LifeChange DEF Terminal
        <3>2. LifeOf[s] = "done"  BY <2>1, <2>5 DEF LifeOf
        <3>3. LifeOf' = LifeOf  BY <3>1, <3>2 DEF LifeOf
        <3>4. QED  BY <2>2, <3>3
    <2>6. CASE s \in Visible
        <3>1. state[s] \notin Terminal
            BY <2>1, <2>2, <2>6, HeldAlive
        <3>2. LifeOf[s] = state[s] /\ state[s] \in {"new", "connecting", "connected"}
            BY <1>a, <2>1, <2>6, <3>1 DEF LifeOf, SessionState, Terminal
        <3>3. CASE Target(call[t]) = "connecting"
            <4>1. state[s] = "new"
                BY <2>1, <2>2, <3>1, <3>3 DEF Target, CommitFits, Terminal
            <4>2. LifeOf' = [LifeOf EXCEPT ![s] = "connecting"]
                BY <1>0, <2>2, <2>3, <2>6, <3>3, LifeChange DEF Terminal
            <4>3. Life!Offer(s)  BY <2>2, <3>2, <4>1, <4>2 DEF Life!Offer, LifeOf
            <4>4. QED  BY <2>1, <4>3 DEF Life!LifecycleNext
        <3>4. CASE Target(call[t]) = "connected"
            <4>1. state[s] = "connecting"
                BY <2>1, <2>2, <3>1, <3>4 DEF Target, CommitFits, Terminal
            <4>2. LifeOf' = [LifeOf EXCEPT ![s] = "connected"]
                BY <1>0, <2>2, <2>3, <2>6, <3>4, LifeChange DEF Terminal
            <4>3. Life!Answer(s)  BY <2>2, <3>2, <4>1, <4>2 DEF Life!Answer, LifeOf
            <4>4. QED  BY <2>1, <4>3 DEF Life!LifecycleNext
        <3>5. CASE Target(call[t]) \in Terminal
            <4>1. LifeOf' = [LifeOf EXCEPT ![s] = "done"]
                BY <1>0, <2>2, <2>3, <3>5, LifeChange DEF Terminal
            <4>2. Life!Finish(s)  BY <2>2, <3>2, <4>1 DEF Life!Finish, Life!Live, LifeOf
            <4>3. QED  BY <2>1, <4>2 DEF Life!LifecycleNext
        <3>6. QED  BY <2>4, <3>3, <3>4, <3>5
    <2>7. QED  BY <2>5, <2>6
<1>5. ASSUME NEW t \in Threads, Remove(t)
      PROVE  Life!LifecycleNext \/ (LifeOf' = LifeOf /\ Visible' = Visible)
    <2>1. PICK s \in Sessions : s = call[t].id /\ state[s] \in Terminal
        BY <1>0, <1>5 DEF Remove, CallShape, Serving, RemoveShape
    <2>2. state' = state /\ Visible' = Visible \ {s}
        <3>1. state' = state /\ active' = active \ {s} /\ mmu = NoThread /\ mmu' = mmu
            BY <1>5, <2>1 DEF Remove
        <3>2. Visible = active  BY <1>0, <3>1, AllVisible
        <3>3. LockDiscipline'  BY <1>0, LockStep
        <3>4. \A u \in Threads : pc'[u] # "forcedelete"
            BY <3>1, <3>3, ManagerAssumption DEF LockDiscipline
        <3>5. Visible' = active'  BY <3>4 DEF Visible
        <3>6. QED  BY <3>1, <3>2, <3>5
    <2>3. LifeOf[s] = "done" /\ LifeOf' = LifeOf
        BY <1>a, <2>1, <2>2 DEF LifeOf, Terminal
    <2>4. CASE s \in Visible
        <3>1. Life!Forget(s)  BY <2>2, <2>3, <2>4 DEF Life!Forget, LifeOf
        <3>2. QED  BY <2>1, <3>1 DEF Life!LifecycleNext
    <2>5. CASE s \notin Visible  BY <2>2, <2>3, <2>5
    <2>6. QED  BY <2>4, <2>5
<1>6. ASSUME NEW t \in Threads, ForceDelete(t) PROVE state' = state /\ Visible' = Visible
    BY <1>0, <1>6, DeleteIsHidden DEF ForceDelete
<1>7. ASSUME NEW t \in Threads, Begin(t) \/ Step(t), ~ForceClose(t), ~ForceDelete(t),
             state' = state, active' = active
      PROVE  state' = state /\ Visible' = Visible
    BY <1>0, <1>7, HiddenKept
<1>8. CASE UNCHANGED <<session, thread>>
    BY <1>1, <1>8 DEF session, thread, scan, Visible
<1>9. ASSUME NEW t \in Threads, Begin(t) \/ Step(t)
      PROVE  Life!LifecycleNext \/ (LifeOf' = LifeOf /\ Visible' = Visible)
    <2>1. CASE ForceClose(t)  BY <1>2, <2>1
    <2>2. CASE CreateSession(t)  BY <1>3, <2>2
    <2>3. CASE Commit(t)  BY <1>4, <2>3
    <2>4. CASE Remove(t)  BY <1>5, <2>4
    <2>5. CASE ForceDelete(t)
        <3>1. state' = state /\ Visible' = Visible  BY <1>6, <2>5
        <3>2. QED  BY <1>1, <3>1
    <2>6. CASE ~ForceClose(t) /\ ~ForceDelete(t) /\ state' = state /\ active' = active
        <3>1. state' = state /\ Visible' = Visible  BY <1>7, <1>9, <2>6
        <3>2. QED  BY <1>1, <3>1
    <2>7. QED
        BY <1>9, <2>1, <2>2, <2>3, <2>4, <2>5, <2>6
        DEF Begin, Step, session, LockManager, ScanSession, Found, NotFound, Enter, ApplyOffer,
            OffererMismatch, ApplyAnswer, AppendICE, CloseSession, FailSession, FailOffer, Snapshot
<1>10. QED  BY <1>8, <1>9 DEF Next, vars, Tick

\* The Go code, with its two levels of locks, an expiry that writes without one
\* and handlers that look sessions up again and again, implements the simple
\* life of a session that SessionLifecycle describes.
THEOREM ManagerImplementsLifecycle == Spec => LifecycleSpec
<1>1. Spec => Life!LifecycleInit  BY LifeInit DEF Spec
<1>2. Spec => [][Life!LifecycleNext]_Life!lifecycleVars
    BY InvInit, InvStep, LifeStep, PTL DEF Spec
<1>3. QED  BY <1>1, <1>2 DEF LifecycleSpec, Life!LifecycleSpec
-----------------------------------------------------------------------------
\* Who waits for whom.

\* The goroutines that hold a mutex which t is about to take: m.mu in lookup and in removal,
\* the mutex of the visited record in the walk, that of its own record in a handler.
WaitsFor(t) == {u \in Threads :
    \/ pc[t] \in {"lock", "remove"} /\ mmu = u
    \/ pc[t] = "scan" /\ wsmu[cur[t]] = u
    \/ pc[t] \in {"enter", "snapshot"} /\ wsmu[call[t].id] = u}

\* A request that finds the mutex free which it needs next, or that needs none.
CanMove(t) == pc[t] # "idle" /\ WaitsFor(t) = {}

\* t and those it waits for.
Ahead(t) == {t} \union WaitsFor(t)

\* Whoever waits does so, through at most two others, for somebody who can move: the requests
\* that stand still while nobody can move are stuck in a cycle of m.mu and a ws.mu.
WaitsEnd ==
    \A t \in Threads : pc[t] # "idle" =>
        \/ ~NoLockCycle
        \/ \E u \in Ahead(t) : \E v \in Ahead(u) : \E w \in Ahead(v) : CanMove(w)

\* Who holds m.mu is in expireLocked or in the lookup after it, and who holds the mutex of a
\* record is writing it or about to remove it.
LEMMA Holders ==
    ASSUME TypeOK, LockDiscipline, NEW u \in Threads
    PROVE  /\ mmu = u => pc[u] \in {"scan", "forceclose", "forcedelete", "lookup"}
           /\ \A s \in Sessions : wsmu[s] = u =>
                  pc[u] \in {"write", "commit", "remove"} /\ call[u].id = s
BY DEF LockDiscipline

\* A request that needs no mutex can move.
LEMMA FreeMoves ==
    ASSUME NEW u \in Threads, pc[u] \in {"forceclose", "forcedelete", "lookup", "write", "commit"}
    PROVE  CanMove(u)
BY DEF CanMove, WaitsFor

\* The holder of m.mu can move, or walks and waits for one who can.
LEMMA HolderMoves ==
    ASSUME ControlInv, NoLockCycle, NEW u \in Threads, mmu = u
    PROVE  \E v \in Ahead(u) : CanMove(v)
<1>1. /\ TypeOK /\ LockDiscipline /\ ScanShape
      /\ pc[u] \in {"scan", "forceclose", "forcedelete", "lookup"}
    BY Holders DEF ControlInv
<1>2. CASE pc[u] # "scan"
    <2>1. CanMove(u)  BY <1>1, <1>2, FreeMoves
    <2>2. QED  BY <2>1 DEF Ahead
<1>3. CASE pc[u] = "scan" /\ WaitsFor(u) = {}
    <2>1. CanMove(u)  BY <1>3 DEF CanMove
    <2>2. QED  BY <2>1 DEF Ahead
<1>4. CASE pc[u] = "scan" /\ WaitsFor(u) # {}
    <2>1. PICK v \in Threads : v \in WaitsFor(u)  BY <1>4 DEF WaitsFor
    <2>2. wsmu[cur[u]] = v  BY <1>4, <2>1 DEF WaitsFor
    <2>3. cur[u] \in Sessions  BY <1>1, <1>4 DEF ScanShape, TypeOK
    <2>4. pc[v] \in {"write", "commit", "remove"}  BY <1>1, <2>2, <2>3, Holders
    <2>5. pc[v] # "remove"  BY <1>4, <2>2 DEF NoLockCycle
    <2>6. CanMove(v)  BY <2>4, <2>5, FreeMoves
    <2>7. QED  BY <2>1, <2>6 DEF Ahead
<1>5. QED  BY <1>2, <1>3, <1>4

\* The holder of a record's mutex can move, or is about to remove the record and waits for the
\* holder of m.mu.
LEMMA WriterMoves ==
    ASSUME ControlInv, NoLockCycle, NEW u \in Threads, NEW s \in Sessions, wsmu[s] = u
    PROVE  \E v \in Ahead(u) : \E w \in Ahead(v) : CanMove(w)
<1>1. TypeOK /\ LockDiscipline /\ pc[u] \in {"write", "commit", "remove"}
    BY Holders DEF ControlInv
<1>2. CASE CanMove(u)  BY <1>2 DEF Ahead
<1>3. CASE ~CanMove(u)
    <2>1. pc[u] = "remove"  BY <1>1, <1>3, FreeMoves
    <2>2. PICK v \in Threads : v \in WaitsFor(u)
        BY <1>3, <2>1 DEF CanMove, WaitsFor
    <2>3. mmu = v  BY <2>1, <2>2 DEF WaitsFor
    <2>4. \E w \in Ahead(v) : CanMove(w)  BY <2>3, HolderMoves
    <2>5. QED  BY <2>2, <2>4 DEF Ahead
<1>4. QED  BY <1>2, <1>3

\* Wherever a request stands, the way from it to one that can move is short.
LEMMA WaitsAreShort == ControlInv => WaitsEnd
<1>1. SUFFICES ASSUME ControlInv, NEW t \in Threads, pc[t] # "idle", NoLockCycle
               PROVE  \E u \in Ahead(t) : \E v \in Ahead(u) : \E w \in Ahead(v) : CanMove(w)
    BY DEF WaitsEnd
<1>2. \A u : u \in Ahead(u)  BY DEF Ahead
<1>3. CASE WaitsFor(t) = {}
    <2>1. CanMove(t)  BY <1>1, <1>3 DEF CanMove
    <2>2. QED  BY <1>2, <2>1
<1>4. CASE WaitsFor(t) # {}
    <2>1. PICK u \in Threads : u \in WaitsFor(t)  BY <1>4 DEF WaitsFor
    <2>2. u \in Ahead(t)  BY <2>1 DEF Ahead
    <2>3. CASE pc[t] \in {"lock", "remove"}
        <3>1. mmu = u  BY <2>1, <2>3 DEF WaitsFor
        <3>2. \E v \in Ahead(u) : CanMove(v)  BY <1>1, <3>1, HolderMoves
        <3>3. QED  BY <1>2, <2>2, <3>2
    <2>4. CASE pc[t] = "scan"
        <3>1. wsmu[cur[t]] = u /\ cur[t] \in Sessions
            BY <1>1, <2>1, <2>4 DEF WaitsFor, ControlInv, ScanShape, TypeOK
        <3>2. \E v \in Ahead(u) : \E w \in Ahead(v) : CanMove(w)
            BY <1>1, <3>1, WriterMoves
        <3>3. QED  BY <2>2, <3>2
    <2>5. CASE pc[t] \in {"enter", "snapshot"}
        <3>1. wsmu[call[t].id] = u /\ call[t].id \in Sessions
            BY <1>1, <2>1, <2>5 DEF WaitsFor, ControlInv, CallShape, Serving
        <3>2. \E v \in Ahead(u) : \E w \in Ahead(v) : CanMove(w)
            BY <1>1, <3>1, WriterMoves
        <3>3. QED  BY <2>2, <3>2
    <2>6. QED  BY <2>1, <2>3, <2>4, <2>5 DEF WaitsFor
<1>5. QED  BY <1>3, <1>4

\* The requests of the manager, however many there are, get stuck in one way only: one walks
\* over the map under m.mu and waits for a record whose holder waits for m.mu to remove it
\* (CloseSession, FailSession and FailOffer take m.mu under ws.mu, expireLocked the other way
\* round). In any other state whoever waits for a mutex waits for a request that can go on.
THEOREM StuckOnlyInLockCycle == Spec => []WaitsEnd
<1>1. Spec => []ControlInv  BY ControlInit, ControlStep, PTL DEF Spec
<1>2. QED  BY <1>1, WaitsAreShort, PTL
=============================================================================
