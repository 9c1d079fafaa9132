------------------------- MODULE ActivePool_proofs -------------------------
(***************************************************************************)
(* Proofs about ActivePool, for any number of callers, devices and         *)
(* registrations, any lifetimes and any scan limit.                        *)
(***************************************************************************)
EXTENDS ActivePool, TLAPS

-----------------------------------------------------------------------------
\* Type correctness.

Labels == {"idle", "zadd", "eval", "zrange", "zrem", "zremrange", "sweep"}
Arguments == Member \union Criteria \union Hashes \union {Nothing}

\* The variables of a caller are typed.
CallerType ==
    /\ pc \in [Callers -> Labels]
    /\ arg \in [Callers -> Arguments]
    /\ clock \in [Callers -> Nat]
    /\ todo \in [Callers -> SUBSET Member]
    /\ since \in [Callers -> 0..MaxSerial]

\* What is in the pool is typed, and so is the history of the registrations.
PoolType ==
    /\ DOMAIN pool \subseteq Member
    /\ \A m \in DOMAIN pool : pool[m] \in Entry
    /\ serial \in 0..MaxSerial
    /\ handed \in [1..MaxSerial -> SUBSET Callers]

\* The type invariant is made of these two and the clock.
LEMMA TypeParts == TypeOK <=> PoolType /\ CallerType /\ now \in Nat
BY DEF TypeOK, PoolType, CallerType, Labels, Arguments

-----------------------------------------------------------------------------
\* The inductive invariant.

\* Only a receiver is ever registered.
ArgShape == \A c \in Callers : pc[c] = "zadd" => arg[c] \in Member

\* A serial number stands for one entry, and those to come for nothing yet.
SerialShape ==
    /\ \A m \in DOMAIN pool : pool[m].serial <= serial
    /\ \A m, x \in DOMAIN pool : pool[m].serial = pool[x].serial => m = x
    /\ \A n \in 1..MaxSerial : n > serial => handed[n] = {}

\* A deletion remembers a number that was given out already.
SinceShape == \A c \in Callers : since[c] <= serial

\* Between its ZRANGE and its last ZREM a deletion still has in hand whatever entry
\* of its device is older than its snapshot.
DeleteShape ==
    \A c \in Callers : pc[c] = "zrem" =>
        \A m \in DOMAIN pool : m.hash = arg[c] => m \in todo[c] \/ pool[m].serial > since[c]

\* The invariant about the sorted set, that about the callers, and what relates them.
PoolSide   == PoolType /\ SerialShape /\ HandedOnce
CallerSide == CallerType /\ ArgShape
PoolInv    == PoolSide /\ CallerSide /\ SinceShape /\ DeleteShape /\ now \in Nat

-----------------------------------------------------------------------------
\* Lemmas about the sorted set.

\* A shrunken pool holds some of the entries it held before.
LEMMA WithoutShrinks ==
    ASSUME NEW gone
    PROVE  /\ DOMAIN Without(gone) = DOMAIN pool \ gone
           /\ \A m \in DOMAIN Without(gone) : m \in DOMAIN pool /\ Without(gone)[m] = pool[m]
BY DEF Without, Restrict

\* A command that removes entries, and hands none of them out.
LEMMA PoolShrinks ==
    ASSUME PoolSide, NEW gone, pool' = Without(gone), UNCHANGED <<serial, handed>>
    PROVE  PoolSide'
<1>1. \A m \in DOMAIN pool' : m \in DOMAIN pool /\ pool'[m] = pool[m]  BY WithoutShrinks
<1>2. PoolType'  BY <1>1 DEF PoolSide, PoolType
<1>3. SerialShape'  BY <1>1 DEF PoolSide, SerialShape
<1>4. HandedOnce'  BY <1>1 DEF PoolSide, HandedOnce
<1>5. QED  BY <1>2, <1>3, <1>4 DEF PoolSide

\* The script removes the entry that it hands out, and nobody had that one before.
LEMMA PoolHands ==
    ASSUME PoolSide, NEW c \in Callers, NEW gone, NEW m \in DOMAIN pool \intersect gone,
           pool' = Without(gone), UNCHANGED serial,
           handed' = [handed EXCEPT ![pool[m].serial] = @ \union {c}]
    PROVE  PoolSide'
<1> DEFINE n == pool[m].serial
<1>1. /\ DOMAIN pool' = DOMAIN pool \ gone
      /\ \A x \in DOMAIN pool' : x \in DOMAIN pool /\ pool'[x] = pool[x]
    BY WithoutShrinks
<1>2. n \in 1..MaxSerial  BY DEF PoolSide, PoolType, Entry
<1>3. handed \in [1..MaxSerial -> SUBSET Callers]  BY DEF PoolSide, PoolType
<1>4. handed' \in [1..MaxSerial -> SUBSET Callers]
      /\ \A k \in 1..MaxSerial : handed'[k] = IF k = n THEN handed[k] \union {c} ELSE handed[k]
    BY <1>2, <1>3
<1>5. handed[n] = {}  BY DEF PoolSide, HandedOnce
<1>6. \A x \in DOMAIN pool' : pool'[x].serial \in 1..MaxSerial /\ pool'[x].serial # n
    BY <1>1 DEF PoolSide, PoolType, SerialShape, Entry
<1>7. PoolType'  BY <1>1, <1>4 DEF PoolSide, PoolType
<1>8. n <= serial  BY DEF PoolSide, SerialShape
<1>9. SerialShape'
    <2>1. \A k \in 1..MaxSerial : k > serial' => handed'[k] = {}
        BY <1>2, <1>4, <1>8 DEF PoolSide, PoolType, SerialShape
    <2>2. QED  BY <1>1, <2>1 DEF PoolSide, SerialShape
<1>10. HandedOnce'
    <2>1. ASSUME NEW k \in 1..MaxSerial, NEW a \in handed'[k], NEW b \in handed'[k] PROVE a = b
        BY <1>4, <1>5 DEF PoolSide, HandedOnce
    <2>2. ASSUME NEW x \in DOMAIN pool' PROVE handed'[pool'[x].serial] = {}
        BY <1>1, <1>4, <1>6 DEF PoolSide, HandedOnce
    <2>3. QED  BY <2>1, <2>2 DEF HandedOnce
<1>11. QED  BY <1>7, <1>9, <1>10 DEF PoolSide

\* ZADD gives its entry a number that nothing bears yet.
LEMMA PoolGrows ==
    ASSUME PoolSide, CallerSide, NEW c \in Callers, ZAdd(c)
    PROVE  /\ PoolSide'
           /\ \A m \in DOMAIN pool' :
                  \/ m \in DOMAIN pool /\ pool'[m] = pool[m]
                  \/ pool'[m].serial > serial
<1>1. /\ pc[c] = "zadd" /\ serial < MaxSerial /\ serial' = serial + 1
      /\ pool' = [m \in DOMAIN pool \union {arg[c]} |->
                    IF m = arg[c] THEN [score |-> clock[c], serial |-> serial + 1]
                    ELSE pool[m]]
      /\ UNCHANGED handed
    BY DEF ZAdd
<1>2. arg[c] \in Member /\ clock[c] \in Nat
    BY <1>1 DEF CallerSide, CallerType, ArgShape
<1>3. serial \in 0..MaxSerial /\ MaxSerial \in Nat
    BY PoolAssumption DEF PoolSide, PoolType
<1>4. serial + 1 \in 1..MaxSerial  BY <1>1, <1>3
<1>5. /\ DOMAIN pool' = DOMAIN pool \union {arg[c]}
      /\ pool'[arg[c]] = [score |-> clock[c], serial |-> serial + 1]
      /\ \A m \in DOMAIN pool : m # arg[c] => pool'[m] = pool[m]
    BY <1>1
<1>6. pool'[arg[c]] \in Entry  BY <1>2, <1>4, <1>5 DEF Entry
<1>7. PoolType'
    <2>1. serial' \in 0..MaxSerial  BY <1>1, <1>3
    <2>2. QED  BY <1>1, <1>2, <1>5, <1>6, <2>1 DEF PoolSide, PoolType
<1>8. \A m \in DOMAIN pool : pool[m].serial \in 1..MaxSerial /\ pool[m].serial <= serial
    BY DEF PoolSide, PoolType, SerialShape, Entry
<1>9. SerialShape'
    <2>1. ASSUME NEW m \in DOMAIN pool' PROVE pool'[m].serial <= serial'
        BY <1>1, <1>3, <1>5, <1>8
    <2>2. ASSUME NEW m \in DOMAIN pool', NEW x \in DOMAIN pool',
                 pool'[m].serial = pool'[x].serial
          PROVE  m = x
        BY <1>3, <1>5, <1>8, <2>2 DEF PoolSide, SerialShape
    <2>3. \A n \in 1..MaxSerial : n > serial' => handed'[n] = {}
        BY <1>1, <1>3 DEF PoolSide, SerialShape
    <2>4. QED  BY <2>1, <2>2, <2>3 DEF SerialShape
<1>10. HandedOnce'
    <2>1. handed[serial + 1] = {}  BY <1>3, <1>4 DEF PoolSide, SerialShape
    <2>2. ASSUME NEW m \in DOMAIN pool' PROVE handed'[pool'[m].serial] = {}
        BY <1>1, <1>5, <2>1 DEF PoolSide, HandedOnce
    <2>3. QED  BY <1>1, <2>2 DEF PoolSide, HandedOnce
<1>11. ASSUME NEW m \in DOMAIN pool'
       PROVE  (m \in DOMAIN pool /\ pool'[m] = pool[m]) \/ pool'[m].serial > serial
    BY <1>3, <1>5
<1>12. QED  BY <1>7, <1>9, <1>10, <1>11 DEF PoolSide

-----------------------------------------------------------------------------
\* Lemmas about the callers.

\* A caller that starts an operation.
LEMMA StartKeeps ==
    ASSUME PoolInv, NEW c \in Callers, NEW label \in Labels \ {"zrem"},
           NEW argument \in Arguments, label = "zadd" => argument \in Member,
           NEW time \in Nat, Start(c, label, argument, time)
    PROVE  PoolInv'
<1>1. /\ pc' = [pc EXCEPT ![c] = label] /\ arg' = [arg EXCEPT ![c] = argument]
      /\ clock' = [clock EXCEPT ![c] = time]
      /\ UNCHANGED <<pool, now, serial, handed, todo, since>>
    BY DEF Start
<1>2. CallerType  BY DEF PoolInv, CallerSide
<1>3. CallerType'  BY <1>1, <1>2 DEF CallerType
<1>4. \A x \in Callers :
         /\ pc'[x] = IF x = c THEN label ELSE pc[x]
         /\ arg'[x] = IF x = c THEN argument ELSE arg[x]
    BY <1>1, <1>2 DEF CallerType
<1>5. ArgShape'  BY <1>4 DEF PoolInv, CallerSide, ArgShape
<1>6. SinceShape'  BY <1>1 DEF PoolInv, SinceShape
<1>7. DeleteShape'  BY <1>1, <1>4 DEF PoolInv, DeleteShape
<1>8. PoolSide' /\ now' \in Nat
    BY <1>1 DEF PoolInv, PoolSide, PoolType, SerialShape, HandedOnce
<1>9. QED  BY <1>3, <1>5, <1>6, <1>7, <1>8 DEF PoolInv, CallerSide

\* A caller that returns, or one whose lost reply makes it send its command again:
\* whatever it did to the pool, deletions keep their grip on the older entries.
LEMMA CommandKeeps ==
    ASSUME PoolInv, PoolSide', NEW c \in Callers,
           Return(c) \/ UNCHANGED caller, UNCHANGED now,
           serial' \in Nat, serial <= serial',
           \A m \in DOMAIN pool' :
               \/ m \in DOMAIN pool /\ pool'[m] = pool[m]
               \/ pool'[m].serial > serial
    PROVE  PoolInv'
<1>1. /\ CallerType /\ ArgShape /\ SinceShape /\ serial \in Nat /\ MaxSerial \in Nat
    BY PoolAssumption DEF PoolInv, CallerSide, PoolSide, PoolType
<1>2. 0 \in 0..MaxSerial /\ "idle" \in Labels /\ Nothing \in Arguments
    BY <1>1 DEF Labels, Arguments
<1>3. CallerType'
    <2>1. CASE Return(c)  BY <1>1, <1>2, <2>1 DEF CallerType, Return
    <2>2. CASE UNCHANGED caller  BY <1>1, <2>2 DEF CallerType, caller
    <2>3. QED  BY <2>1, <2>2
<1>4. \A x \in Callers :
         \/ /\ pc'[x] = pc[x] /\ arg'[x] = arg[x]
            /\ todo'[x] = todo[x] /\ since'[x] = since[x]
         \/ x = c /\ pc'[x] = "idle" /\ since'[x] = 0
    BY <1>1 DEF CallerType, Return, caller
<1>5. ArgShape'  BY <1>1, <1>4 DEF ArgShape
<1>6. \A x \in Callers : since[x] \in Nat /\ since[x] <= serial
    BY <1>1 DEF CallerType, SinceShape
<1>7. SinceShape'  BY <1>1, <1>4, <1>6 DEF SinceShape
<1>8. DeleteShape'
    <2> SUFFICES ASSUME NEW x \in Callers, pc'[x] = "zrem",
                        NEW m \in DOMAIN pool', m.hash = arg'[x]
                 PROVE  m \in todo'[x] \/ pool'[m].serial > since'[x]
        BY DEF DeleteShape
    <2>1. /\ pc[x] = "zrem" /\ arg'[x] = arg[x]
          /\ todo'[x] = todo[x] /\ since'[x] = since[x]
        BY <1>4
    <2>2. CASE m \in DOMAIN pool /\ pool'[m] = pool[m]
        BY <2>1, <2>2 DEF PoolInv, DeleteShape
    <2>3. CASE pool'[m].serial > serial
        <3>1. pool'[m].serial \in Nat  BY DEF PoolSide, PoolType, Entry
        <3>2. QED  BY <1>1, <1>6, <2>1, <2>3, <3>1
    <2>4. QED  BY <2>2, <2>3
<1>9. QED  BY <1>3, <1>5, <1>7, <1>8 DEF PoolInv, CallerSide

\* ZRANGE: the snapshot holds every entry of the device.
LEMMA ScanKeeps ==
    ASSUME PoolInv, NEW c \in Callers, DeleteScan(c)
    PROVE  PoolInv'
<1>1. /\ todo' = [todo EXCEPT ![c] = {m \in DOMAIN pool : m.hash = arg[c]}]
      /\ since' = [since EXCEPT ![c] = serial]
      /\ pc' = [pc EXCEPT ![c] = "zrem"]
      /\ UNCHANGED <<pool, now, serial, handed, arg, clock>>
    BY DEF DeleteScan
<1>2. CallerType /\ DOMAIN pool \subseteq Member /\ serial \in 0..MaxSerial
    BY DEF PoolInv, CallerSide, PoolSide, PoolType
<1>3. {m \in DOMAIN pool : m.hash = arg[c]} \in SUBSET Member  BY <1>2
<1>4. CallerType'  BY <1>1, <1>2, <1>3 DEF CallerType, Labels
<1>5. \A x \in Callers :
         \/ /\ x # c /\ pc'[x] = pc[x] /\ todo'[x] = todo[x] /\ since'[x] = since[x]
         \/ /\ x = c /\ pc'[x] = "zrem" /\ since'[x] = serial
            /\ todo'[x] = {m \in DOMAIN pool : m.hash = arg[c]}
    BY <1>1, <1>2 DEF CallerType
<1>6. ArgShape'  BY <1>1, <1>5 DEF PoolInv, CallerSide, ArgShape
<1>7. SinceShape'  BY <1>1, <1>2, <1>5 DEF PoolInv, SinceShape
<1>8. DeleteShape'
    <2>1. SUFFICES ASSUME NEW x \in Callers, pc'[x] = "zrem",
                          NEW m \in DOMAIN pool', m.hash = arg'[x]
                   PROVE  m \in todo'[x] \/ pool'[m].serial > since'[x]
        BY DEF DeleteShape
    <2>2. /\ m \in DOMAIN pool /\ m.hash = arg[x]
          /\ pool'[m] = pool[m]
        BY <1>1, <2>1
    <2>3. CASE x = c  BY <1>5, <2>2, <2>3
    <2>4. CASE x # c
        <3>1. pc[x] = "zrem"  BY <1>5, <2>1, <2>4
        <3>2. m \in todo[x] \/ pool[m].serial > since[x]
            BY <2>2, <3>1 DEF PoolInv, DeleteShape
        <3>3. QED  BY <1>5, <2>2, <2>4, <3>2
    <2>5. QED  BY <2>3, <2>4
<1>9. PoolSide' /\ now' \in Nat
    <2>1. PoolType'     BY <1>1 DEF PoolInv, PoolSide, PoolType
    <2>2. SerialShape'  BY <1>1 DEF PoolInv, PoolSide, SerialShape
    <2>3. HandedOnce'   BY <1>1 DEF PoolInv, PoolSide, HandedOnce
    <2>4. QED  BY <1>1, <2>1, <2>2, <2>3 DEF PoolInv, PoolSide
<1>10. QED  BY <1>4, <1>6, <1>7, <1>8, <1>9 DEF PoolInv, CallerSide

\* ZREM: what leaves the deletion's hands leaves the pool as well.
LEMMA RemoveKeeps ==
    ASSUME PoolInv, NEW c \in Callers, DeleteMember(c)
    PROVE  PoolInv'
<1>1. PICK m \in todo[c] :
         /\ pool' = Without({m})
         /\ todo' = [todo EXCEPT ![c] = @ \ {m}]
    BY DEF DeleteMember
<1>2. UNCHANGED <<now, serial, handed, pc, arg, clock, since>>  BY DEF DeleteMember
<1>3. CallerType  BY DEF PoolInv, CallerSide
<1>4. CallerType'  BY <1>1, <1>2, <1>3 DEF CallerType
<1>5. PoolSide'  BY <1>1, <1>2, PoolShrinks DEF PoolInv
<1>6. /\ DOMAIN pool' = DOMAIN pool \ {m}
      /\ \A x \in DOMAIN pool' : x \in DOMAIN pool /\ pool'[x] = pool[x]
    BY <1>1, WithoutShrinks
<1>7. \A x \in Callers : \A y \in Member : y \in todo[x] /\ y # m => y \in todo'[x]
    BY <1>1, <1>3 DEF CallerType
<1>8. DOMAIN pool \subseteq Member  BY DEF PoolInv, PoolSide, PoolType
<1>9. DeleteShape'  BY <1>2, <1>6, <1>7, <1>8 DEF PoolInv, DeleteShape
<1>10. ArgShape' /\ SinceShape'
    BY <1>2 DEF PoolInv, CallerSide, ArgShape, SinceShape
<1>11. QED  BY <1>2, <1>4, <1>5, <1>9, <1>10 DEF PoolInv, CallerSide

-----------------------------------------------------------------------------
\* The theorems.

\* The pool is empty in the beginning and everybody idle.
LEMMA InitInv == Init => PoolInv
<1> SUFFICES ASSUME Init PROVE PoolInv  OBVIOUS
<1>1. 0 \in 0..MaxSerial  BY PoolAssumption
<1>2. DOMAIN pool = {}  BY DEF Init
<1>3. PoolSide  BY <1>1, <1>2 DEF Init, PoolSide, PoolType, SerialShape, HandedOnce
<1>4. CallerSide  BY <1>1 DEF Init, CallerSide, CallerType, ArgShape, Labels, Arguments
<1>5. SinceShape /\ DeleteShape /\ now \in Nat  BY DEF Init, SinceShape, DeleteShape
<1>6. QED  BY <1>3, <1>4, <1>5 DEF PoolInv

\* Starting an operation keeps the invariant.
LEMMA BeginKeeps ==
    ASSUME PoolInv, NEW c \in Callers, Begin(c)
    PROVE  PoolInv'
<1>1. Labels = {"idle", "zadd", "eval", "zrange", "zrem", "zremrange", "sweep"}
    BY DEF Labels
<1>2. /\ Member \subseteq Arguments /\ Criteria \subseteq Arguments
      /\ Hashes \subseteq Arguments /\ Nothing \in Arguments
    BY DEF Arguments
<1>3. now \in Nat  BY DEF PoolInv
<1>4. CASE StartSweep(c)  BY <1>1, <1>2, <1>3, <1>4, StartKeeps DEF StartSweep
<1>5. CASE StartRegister(c)
    <2>1. PICK m \in Member, ttl \in TTLs : Start(c, "zadd", m, now + ttl)
        BY <1>5 DEF StartRegister
    <2>2. now + ttl \in Nat  BY <1>3, PoolAssumption
    <2>3. QED  BY <1>1, <1>2, <2>1, <2>2, StartKeeps
<1>6. CASE StartMatch(c)  BY <1>1, <1>2, <1>3, <1>6, StartKeeps DEF StartMatch
<1>7. CASE StartDelete(c)  BY <1>1, <1>2, <1>3, <1>7, StartKeeps DEF StartDelete
<1>8. CASE StartCount(c)  BY <1>1, <1>2, <1>3, <1>8, StartKeeps DEF StartCount
<1>9. QED  BY <1>4, <1>5, <1>6, <1>7, <1>8 DEF Begin

\* A command, its failure and the return keep it.
LEMMA CommandInv ==
    ASSUME PoolInv, NEW c \in Callers, Command(c)
    PROVE  PoolInv'
<1>0. /\ PoolSide /\ CallerSide /\ serial \in Nat /\ MaxSerial \in Nat
      /\ serial <= serial /\ serial <= serial + 1 /\ serial + 1 \in Nat
    BY PoolAssumption DEF PoolInv, PoolSide, PoolType
<1>1. ASSUME NEW gone, pool' = Without(gone), UNCHANGED <<serial, handed, now>>,
             Return(c) \/ UNCHANGED caller
      PROVE  PoolInv'
    <2>1. PoolSide'  BY <1>0, <1>1, PoolShrinks
    <2>2. \A m \in DOMAIN pool' : m \in DOMAIN pool /\ pool'[m] = pool[m]
        BY <1>1, WithoutShrinks
    <2>3. QED  BY <1>0, <1>1, <2>1, <2>2, CommandKeeps
<1>2. CASE ZAdd(c)
    <2>1. serial' = serial + 1 /\ UNCHANGED now /\ (Return(c) \/ UNCHANGED caller)
        BY <1>2 DEF ZAdd
    <2>2. QED  BY <1>0, <1>2, <2>1, PoolGrows, CommandKeeps
<1>3. CASE Match(c)
    <2>1. PICK m \in FirstFits(arg[c], clock[c]) :
             /\ pool' = Without(Expired(clock[c]) \union {m})
             /\ handed' = [handed EXCEPT ![pool[m].serial] = @ \union {c}]
        BY <1>3 DEF Match
    <2>2. Return(c) /\ UNCHANGED <<now, serial>>  BY <1>3 DEF Match
    <2>3. m \in DOMAIN pool  BY DEF FirstFits
    <2>4. PoolSide'  BY <1>0, <2>1, <2>2, <2>3, PoolHands
    <2>5. \A x \in DOMAIN pool' : x \in DOMAIN pool /\ pool'[x] = pool[x]
        BY <2>1, WithoutShrinks
    <2>6. QED  BY <1>0, <2>2, <2>4, <2>5, CommandKeeps
<1>4. CASE Miss(c)  BY <1>1, <1>4 DEF Miss
<1>5. CASE MatchReplyLost(c)
    <2>1. PICK m \in FirstFits(arg[c], clock[c]) :
             pool' = Without(Expired(clock[c]) \union {m})
        BY <1>5 DEF MatchReplyLost
    <2>2. QED  BY <1>1, <1>5, <2>1 DEF MatchReplyLost
<1>6. CASE CountCleanup(c)  BY <1>1, <1>6 DEF CountCleanup
<1>7. CASE SweepIdle(c)  BY <1>1, <1>7 DEF SweepIdle
<1>8. CASE DeleteScan(c)  BY <1>8, ScanKeeps
<1>9. CASE DeleteMember(c)  BY <1>9, RemoveKeeps
<1>10. CASE DeleteReturns(c) \/ CommandFails(c)
    <2>1. Return(c) /\ UNCHANGED <<pool, now, serial, handed>>
        BY <1>10 DEF DeleteReturns, CommandFails
    <2>2. PoolSide'  BY <1>0, <2>1 DEF PoolSide, PoolType, SerialShape, HandedOnce
    <2>3. QED  BY <1>0, <2>1, <2>2, CommandKeeps
<1>11. QED
    BY <1>2, <1>3, <1>4, <1>5, <1>6, <1>7, <1>8, <1>9, <1>10 DEF Command

\* Every step keeps the invariant.
LEMMA NextInv == PoolInv /\ [Next]_vars => PoolInv'
<1> SUFFICES ASSUME PoolInv, [Next]_vars PROVE PoolInv'  OBVIOUS
<1>1. ASSUME UNCHANGED <<pool, serial, handed, caller>>, now' \in Nat PROVE PoolInv'
    BY <1>1
       DEF PoolInv, PoolSide, PoolType, SerialShape, HandedOnce, CallerSide, CallerType,
           ArgShape, SinceShape, DeleteShape, caller
<1>2. now \in Nat  BY DEF PoolInv
<1>3. CASE UNCHANGED vars  BY <1>1, <1>2, <1>3 DEF vars
<1>4. CASE Tick  BY <1>1, <1>2, <1>4 DEF Tick
<1>5. ASSUME NEW c \in Callers, Begin(c) PROVE PoolInv'  BY <1>5, BeginKeeps
<1>6. ASSUME NEW c \in Callers, Command(c) PROVE PoolInv'  BY <1>6, CommandInv
<1>7. QED  BY <1>3, <1>4, <1>5, <1>6 DEF Next

\* The invariant holds in every reachable state.
THEOREM InvHolds == Spec => []PoolInv
BY InitInv, NextInv, PTL DEF Spec

\* The variables keep their types.
THEOREM TypeCorrect == Spec => []TypeOK
<1>1. PoolInv => TypeOK  BY TypeParts DEF PoolInv, PoolSide, CallerSide
<1>2. QED  BY <1>1, InvHolds, PTL

\* No registration is given to two senders, and one given away is out of the pool.
THEOREM NobodyHandedTwice == Spec => []HandedOnce
<1>1. PoolInv => HandedOnce  BY DEF PoolInv, PoolSide
<1>2. QED  BY <1>1, InvHolds, PTL

\* A deletion that returns without an error left nothing behind that was there
\* when it began to look.
THEOREM DeletionIsThorough == Spec => []DeleteIsThorough
<1>1. PoolInv => DeleteIsThorough  BY DEF PoolInv, DeleteShape, DeleteIsThorough
<1>2. QED  BY <1>1, InvHolds, PTL
-----------------------------------------------------------------------------
\* The pool implements the waiting room.

\* A clock that a caller read is not ahead of the wall clock.
ClockShape ==
    \A c \in Callers : pc[c] \in {"eval", "zremrange", "sweep"} => clock[c] <= now

\* What a deletion removes is of its device.
TodoShape == \A c \in Callers : pc[c] = "zrem" => \A m \in todo[c] : m.hash = arg[c]

RoomInv == PoolInv /\ ClockShape /\ TodoShape

\* The caller c may have changed, to a state that is as good.
LEMMA CallerShapes ==
    ASSUME ClockShape, TodoShape, NEW c \in Callers, now \in Nat, now' \in Nat, now <= now',
           \A x \in Callers : clock[x] \in Nat,
           \A x \in Callers \ {c} :
               pc'[x] = pc[x] /\ arg'[x] = arg[x] /\ clock'[x] = clock[x] /\ todo'[x] = todo[x],
           pc'[c] \in {"eval", "zremrange", "sweep"} => clock'[c] <= now',
           pc'[c] = "zrem" => \A m \in todo'[c] : m.hash = arg'[c]
    PROVE  ClockShape' /\ TodoShape'
<1>1. ASSUME NEW x \in Callers, pc'[x] \in {"eval", "zremrange", "sweep"}
      PROVE  clock'[x] <= now'
    <2>1. CASE x = c  BY <1>1, <2>1
    <2>2. CASE x # c  BY <1>1, <2>2 DEF ClockShape
    <2>3. QED  BY <2>1, <2>2
<1>2. ASSUME NEW x \in Callers, pc'[x] = "zrem"
      PROVE  \A m \in todo'[x] : m.hash = arg'[x]
    <2>1. CASE x = c  BY <1>2, <2>1
    <2>2. CASE x # c  BY <1>2, <2>2 DEF TodoShape
    <2>3. QED  BY <2>1, <2>2
<1>3. QED  BY <1>1, <1>2 DEF ClockShape, TodoShape

\* Clocks are read when a call starts, and the snapshot of a deletion is of its device.
LEMMA NextRoomInv == RoomInv /\ [Next]_vars => RoomInv'
<1> SUFFICES ASSUME RoomInv, [Next]_vars PROVE RoomInv'  OBVIOUS
<1>1. PoolInv /\ PoolInv' /\ ClockShape /\ TodoShape  BY NextInv DEF RoomInv
<1>2. CallerType /\ now \in Nat  BY <1>1 DEF PoolInv, CallerSide
<1>3. /\ \A x \in Callers : clock[x] \in Nat
      /\ now <= now /\ now <= now + 1 /\ now + 1 \in Nat
    BY <1>2 DEF CallerType
<1>4. ASSUME NEW c \in Callers, Begin(c) PROVE ClockShape' /\ TodoShape'
    <2>1. ASSUME NEW l, NEW a, NEW t, Start(c, l, a, t), l # "zrem",
                 l \in {"eval", "zremrange", "sweep"} => t <= now
          PROVE  ClockShape' /\ TodoShape'
        <3>1. /\ \A x \in Callers \ {c} :
                    /\ pc'[x] = pc[x] /\ arg'[x] = arg[x]
                    /\ clock'[x] = clock[x] /\ todo'[x] = todo[x]
              /\ pc'[c] = l /\ clock'[c] = t /\ now' = now
            BY <1>2, <2>1 DEF CallerType, Start
        <3>2. QED  BY <1>1, <1>2, <1>3, <2>1, <3>1, CallerShapes
    <2>2. CASE StartRegister(c)  BY <2>1, <2>2 DEF StartRegister
    <2>3. CASE StartMatch(c)  BY <1>3, <2>1, <2>3 DEF StartMatch
    <2>4. CASE StartDelete(c)  BY <2>1, <2>4 DEF StartDelete
    <2>5. CASE StartCount(c)  BY <1>3, <2>1, <2>5 DEF StartCount
    <2>6. CASE StartSweep(c)  BY <1>3, <2>1, <2>6 DEF StartSweep
    <2>7. QED  BY <1>4, <2>2, <2>3, <2>4, <2>5, <2>6 DEF Begin
<1>5. ASSUME NEW c \in Callers, Return(c) \/ UNCHANGED caller, UNCHANGED now
      PROVE  ClockShape' /\ TodoShape'
    <2>1. CASE Return(c)
        <3>1. /\ \A x \in Callers \ {c} :
                    /\ pc'[x] = pc[x] /\ arg'[x] = arg[x]
                    /\ clock'[x] = clock[x] /\ todo'[x] = todo[x]
              /\ pc'[c] = "idle"
            BY <1>2, <2>1 DEF CallerType, Return
        <3>2. QED  BY <1>1, <1>2, <1>3, <1>5, <3>1, CallerShapes
    <2>2. CASE UNCHANGED caller
        BY <1>1, <1>5, <2>2 DEF ClockShape, TodoShape, caller
    <2>3. QED  BY <1>5, <2>1, <2>2
<1>6. ASSUME NEW c \in Callers, DeleteScan(c) \/ DeleteMember(c)
      PROVE  ClockShape' /\ TodoShape'
    <2>1. /\ \A x \in Callers \ {c} : pc'[x] = pc[x] /\ todo'[x] = todo[x]
          /\ pc'[c] = "zrem" /\ UNCHANGED <<arg, clock, now>>
          /\ \A m \in todo'[c] : m.hash = arg[c]
        <3>1. CASE DeleteScan(c)
            <4>1. todo'[c] = {m \in DOMAIN pool : m.hash = arg[c]}
                BY <1>2, <3>1 DEF CallerType, DeleteScan
            <4>2. /\ \A x \in Callers \ {c} : pc'[x] = pc[x] /\ todo'[x] = todo[x]
                  /\ pc'[c] = "zrem" /\ UNCHANGED <<arg, clock, now>>
                BY <1>2, <3>1 DEF CallerType, DeleteScan
            <4>3. QED  BY <4>1, <4>2
        <3>2. CASE DeleteMember(c)
            <4>1. PICK m \in todo[c] : todo' = [todo EXCEPT ![c] = @ \ {m}]
                BY <3>2 DEF DeleteMember
            <4>2. /\ pc[c] = "zrem" /\ UNCHANGED <<pc, arg, clock, now>>
                BY <3>2 DEF DeleteMember
            <4>3. /\ \A x \in Callers \ {c} : todo'[x] = todo[x]
                  /\ todo'[c] \subseteq todo[c]
                BY <1>2, <4>1 DEF CallerType
            <4>4. QED  BY <1>1, <4>2, <4>3 DEF TodoShape
        <3>3. QED  BY <1>6, <3>1, <3>2
    <2>2. QED  BY <1>1, <1>2, <1>3, <2>1, CallerShapes
<1>7. ASSUME Tick \/ UNCHANGED vars PROVE ClockShape' /\ TodoShape'
    <2>1. UNCHANGED caller /\ (now' = now \/ now' = now + 1)
        BY <1>7 DEF Tick, vars
    <2>2. TodoShape'  BY <1>1, <2>1 DEF TodoShape, caller
    <2>3. ASSUME NEW x \in Callers, pc'[x] \in {"eval", "zremrange", "sweep"}
          PROVE  clock'[x] <= now'
        <3>1. clock'[x] = clock[x] /\ clock[x] <= now  BY <1>1, <2>1, <2>3 DEF ClockShape, caller
        <3>2. QED  BY <1>2, <1>3, <2>1, <3>1
    <2>4. QED  BY <2>2, <2>3 DEF ClockShape
<1>8. ASSUME NEW c \in Callers, Command(c) PROVE ClockShape' /\ TodoShape'
    <2>1. CASE DeleteScan(c) \/ DeleteMember(c)  BY <1>6, <2>1
    <2>2. CASE ~(DeleteScan(c) \/ DeleteMember(c))
        <3>1. (Return(c) \/ UNCHANGED caller) /\ UNCHANGED now
            BY <1>8, <2>2
               DEF Command, ZAdd, Match, Miss, MatchReplyLost, CountCleanup, SweepIdle,
                   DeleteReturns, CommandFails
        <3>2. QED  BY <1>5, <3>1
    <2>3. QED  BY <2>1, <2>2
<1>9. ClockShape' /\ TodoShape'  BY <1>4, <1>7, <1>8 DEF Next
<1>10. QED  BY <1>1, <1>9 DEF RoomInv

\* The invariant of the refinement.
LEMMA RoomInvHolds == Spec => []RoomInv
<1>1. Init => RoomInv  BY InitInv DEF Init, RoomInv, ClockShape, TodoShape
<1>2. QED  BY <1>1, NextRoomInv, PTL DEF Spec

\* How a receiver in the pool waits in the room.
Ticket(m) == [ticket |-> pool[m].serial, who |-> m, until |-> pool[m].score]

\* Who is in the room, and whose time has come.
LEMMA WaitingIs ==
    /\ \A e : e \in Waiting <=> \E m \in DOMAIN pool : e = Ticket(m)
    /\ \A m, x : Ticket(m) = Ticket(x) => m = x
<1>1. \A e : e \in Waiting <=> \E m \in DOMAIN pool : e = Ticket(m)
    BY DEF Waiting, Ticket
<1>2. \A m : Ticket(m).who = m  BY DEF Ticket
<1>3. QED  BY <1>1, <1>2

\* Receivers that leave the pool leave the room.
LEMMA RoomShrinks ==
    ASSUME NEW gone, pool' = Without(gone)
    PROVE  Waiting' = Waiting \ {Ticket(m) : m \in DOMAIN pool \intersect gone}
<1>1. /\ DOMAIN pool' = DOMAIN pool \ gone
      /\ \A m \in DOMAIN pool' : m \in DOMAIN pool /\ pool'[m] = pool[m]
    BY WithoutShrinks
<1>2. \A m \in DOMAIN pool' : Ticket(m)' = Ticket(m)  BY <1>1 DEF Ticket
<1>3. \A e : e \in Waiting' <=> \E m \in DOMAIN pool' : e = Ticket(m)'
    BY DEF Waiting, Ticket
<1>4. \A e : e \in Waiting' <=> \E m \in DOMAIN pool \ gone : e = Ticket(m)
    BY <1>1, <1>2, <1>3
<1> DEFINE left == {Ticket(m) : m \in DOMAIN pool \intersect gone}
<1>5. \A e : e \in left <=> \E m \in DOMAIN pool \intersect gone : e = Ticket(m)  OBVIOUS
<1> HIDE DEF left
<1>6. \A e : e \in Waiting' <=> e \in Waiting /\ e \notin left
    BY <1>4, <1>5, WaitingIs
<1>7. Waiting' = Waiting \ left  BY <1>6
<1>8. QED  BY <1>7 DEF left

\* What a command takes for expired is due.
LEMMA ExpiredAreDue ==
    ASSUME PoolInv, NEW t \in Nat, t <= now
    PROVE  {Ticket(m) : m \in DOMAIN pool \intersect Expired(t)} \in SUBSET Room!Due
<1>1. ASSUME NEW m \in DOMAIN pool \intersect Expired(t)
      PROVE  Ticket(m) \in Room!Due
    <2>1. pool[m].score \in Nat /\ now \in Nat
        BY DEF PoolInv, PoolSide, PoolType, Entry
    <2>2. pool[m].score <= now  BY <2>1 DEF Expired
    <2>3. Ticket(m) \in Waiting /\ Ticket(m).until = pool[m].score
        BY WaitingIs DEF Ticket
    <2>4. QED  BY <2>2, <2>3 DEF Room!Due
<1>2. QED  BY <1>1

\* What the script may find is a receiver that fits and that is in time.
LEMMA FoundIsFitting ==
    ASSUME PoolInv, NEW c \in Callers, pc[c] = "eval",
           NEW m \in FirstFits(arg[c], clock[c])
    PROVE  m \in DOMAIN pool /\ Ticket(m) \in Room!Fitting(c)
<1>1. m \in DOMAIN pool /\ m \notin Expired(clock[c]) /\ Fits(m, arg[c])  BY DEF FirstFits
<1>2. /\ m \in Member /\ pool[m].score \in Nat /\ clock[c] \in Nat
    BY <1>1 DEF PoolInv, PoolSide, PoolType, Entry, CallerSide, CallerType
<1>3. pool[m].score > clock[c]  BY <1>1, <1>2 DEF Expired
<1>4. m \in Wanted[c] /\ AskedAt[c] = clock[c]  BY <1>1, <1>2 DEF Wanted, AskedAt
<1>5. Ticket(m) \in Waiting /\ Ticket(m).who = m /\ Ticket(m).until = pool[m].score
    BY <1>1, WaitingIs DEF Ticket
<1>6. QED  BY <1>1, <1>3, <1>4, <1>5 DEF Room!Fitting

\* Callers that did not move ask for what they asked for.
LEMMA SameCalls ==
    ASSUME \A x \in Callers :
               \/ pc'[x] = pc[x] /\ arg'[x] = arg[x] /\ clock'[x] = clock[x]
               \/ {pc[x], pc'[x]} \intersect {"eval", "zrange", "zrem"} = {}
               \/ {pc[x], pc'[x]} \subseteq {"zrange", "zrem"} /\ arg'[x] = arg[x]
    PROVE  UNCHANGED Room!calls
<1>1. ASSUME NEW x \in Callers
      PROVE  /\ pc'[x] = "eval" <=> pc[x] = "eval"
             /\ pc[x] = "eval" => arg'[x] = arg[x] /\ clock'[x] = clock[x]
             /\ pc'[x] \in {"zrange", "zrem"} <=> pc[x] \in {"zrange", "zrem"}
             /\ pc[x] \in {"zrange", "zrem"} => arg'[x] = arg[x]
    OBVIOUS
<1>2. Wanted' = Wanted  BY <1>1 DEF Wanted
<1>3. AskedAt' = AskedAt  BY <1>1 DEF AskedAt
<1>4. Erasing' = Erasing  BY <1>1 DEF Erasing
<1>5. QED  BY <1>2, <1>3, <1>4 DEF Room!calls

\* A caller that returns asks for nothing any more.
LEMMA ReturnHangsUp ==
    ASSUME PoolInv, NEW c \in Callers, Return(c)
    PROVE  Room!HangUp(c)
<1>1. CallerType  BY DEF PoolInv, CallerSide
<1>2. /\ pc'[c] = "idle"
      /\ \A x \in Callers \ {c} :
             pc'[x] = pc[x] /\ arg'[x] = arg[x] /\ clock'[x] = clock[x]
    BY <1>1 DEF CallerType, Return
<1>3. Wanted' = [Wanted EXCEPT ![c] = {}]  BY <1>2 DEF Wanted
<1>4. AskedAt' = [AskedAt EXCEPT ![c] = 0]  BY <1>2 DEF AskedAt
<1>5. Erasing' = [Erasing EXCEPT ![c] = {}]  BY <1>2 DEF Erasing
<1>6. QED  BY <1>3, <1>4, <1>5 DEF Room!HangUp

\* A call asks, erases, or does neither.
LEMMA BeginRoom ==
    ASSUME RoomInv, NEW c \in Callers, Begin(c)
    PROVE  Room!RoomNext \/ UNCHANGED Room!roomVars
<1>1. CallerType  BY DEF RoomInv, PoolInv, CallerSide
<1>2. ASSUME NEW l, NEW a, NEW t, Start(c, l, a, t)
      PROVE  /\ pc[c] = "idle" /\ pc'[c] = l /\ arg'[c] = a /\ clock'[c] = t
             /\ \A x \in Callers \ {c} :
                    pc'[x] = pc[x] /\ arg'[x] = arg[x] /\ clock'[x] = clock[x]
             /\ UNCHANGED <<Waiting, serial, handed, now>>
    BY <1>1, <1>2 DEF CallerType, Start, Waiting
<1>3. CASE StartMatch(c)
    <2>1. PICK k \in Criteria : Start(c, "eval", k, now)  BY <1>3 DEF StartMatch
    <2>2. /\ pc[c] = "idle" /\ pc'[c] = "eval" /\ arg'[c] = k /\ clock'[c] = now
          /\ \A x \in Callers \ {c} :
                 pc'[x] = pc[x] /\ arg'[x] = arg[x] /\ clock'[x] = clock[x]
          /\ UNCHANGED <<Waiting, serial, handed, now>>
        BY <1>2, <2>1
    <2> DEFINE fitting == {m \in Member : Fits(m, k)}
    <2>3. fitting \in SUBSET Member  OBVIOUS
    <2>4. Wanted' = [Wanted EXCEPT ![c] = fitting] /\ Wanted[c] = {}
        BY <2>2 DEF Wanted
    <2>5. AskedAt' = [AskedAt EXCEPT ![c] = now]  BY <2>2 DEF AskedAt
    <2>6. Erasing' = Erasing /\ Erasing[c] = {}  BY <2>2 DEF Erasing
    <2> HIDE DEF fitting
    <2>7. Room!Ask(c)  BY <2>2, <2>3, <2>4, <2>5, <2>6 DEF Room!Ask
    <2>8. QED  BY <2>7 DEF Room!RoomNext
<1>4. CASE StartDelete(c)
    <2>1. PICK h \in Hashes : Start(c, "zrange", h, 0)  BY <1>4 DEF StartDelete
    <2>2. /\ pc[c] = "idle" /\ pc'[c] = "zrange" /\ arg'[c] = h
          /\ \A x \in Callers \ {c} :
                 pc'[x] = pc[x] /\ arg'[x] = arg[x] /\ clock'[x] = clock[x]
          /\ UNCHANGED <<Waiting, serial, handed, now>>
        BY <1>2, <2>1
    <2> DEFINE own == {m \in Member : m.hash = h}
    <2>3. own \in SUBSET Member  OBVIOUS
    <2>4. Erasing' = [Erasing EXCEPT ![c] = own] /\ Erasing[c] = {}
        BY <2>2 DEF Erasing
    <2>5. AskedAt' = AskedAt  BY <2>2 DEF AskedAt
    <2>6. Wanted' = Wanted /\ Wanted[c] = {}  BY <2>2 DEF Wanted
    <2> HIDE DEF own
    <2>7. Room!Erase(c)  BY <2>2, <2>3, <2>4, <2>5, <2>6 DEF Room!Erase
    <2>8. QED  BY <2>7 DEF Room!RoomNext
<1>5. CASE StartRegister(c) \/ StartCount(c) \/ StartSweep(c)
    <2>1. \E l \in {"zadd", "zremrange", "sweep"} : \E a, t : Start(c, l, a, t)
        <3>1. CASE StartRegister(c)  BY <3>1 DEF StartRegister
        <3>2. CASE StartCount(c)  BY <3>2 DEF StartCount
        <3>3. CASE StartSweep(c)  BY <3>3 DEF StartSweep
        <3>4. QED  BY <1>5, <3>1, <3>2, <3>3
    <2>a. PICK l \in {"zadd", "zremrange", "sweep"} : \E a, t : Start(c, l, a, t)  BY <2>1
    <2>2. PICK a, t : Start(c, l, a, t)  BY <2>a
    <2>3. /\ pc[c] = "idle" /\ pc'[c] = l
          /\ \A x \in Callers \ {c} :
                 pc'[x] = pc[x] /\ arg'[x] = arg[x] /\ clock'[x] = clock[x]
          /\ UNCHANGED <<Waiting, serial, handed, now>>
        BY <1>2, <2>2
    <2>4. {pc[c], pc'[c]} \intersect {"eval", "zrange", "zrem"} = {}  BY <2>3
    <2>5. UNCHANGED Room!calls  BY <2>3, <2>4, SameCalls
    <2>6. QED  BY <2>3, <2>5 DEF Room!roomVars
<1>6. QED  BY <1>3, <1>4, <1>5 DEF Begin

\* ZADD is an arrival: the entry of the same receiver is replaced.
LEMMA ZAddArrives ==
    ASSUME RoomInv, NEW c \in Callers, ZAdd(c)
    PROVE  Room!Arrive
<1>1. /\ pc[c] = "zadd" /\ serial' = serial + 1
      /\ pool' = [m \in DOMAIN pool \union {arg[c]} |->
                    IF m = arg[c] THEN [score |-> clock[c], serial |-> serial + 1]
                    ELSE pool[m]]
      /\ UNCHANGED <<now, handed>>
    BY DEF ZAdd
<1>2. PICK r \in Member : r = arg[c]
    BY <1>1 DEF RoomInv, PoolInv, CallerSide, ArgShape
<1>3. UNCHANGED Room!calls
    <2>1. CASE Return(c)
        <3>1. /\ pc'[c] = "idle"
              /\ \A x \in Callers \ {c} :
                     pc'[x] = pc[x] /\ arg'[x] = arg[x] /\ clock'[x] = clock[x]
            BY <2>1 DEF RoomInv, PoolInv, CallerSide, CallerType, Return
        <3>2. {pc[c], pc'[c]} \intersect {"eval", "zrange", "zrem"} = {}  BY <1>1, <3>1
        <3>3. QED  BY <3>1, <3>2, SameCalls
    <2>2. CASE UNCHANGED caller  BY <2>2, SameCalls DEF caller
    <2>3. QED  BY <2>1, <2>2 DEF ZAdd
<1> DEFINE new == [ticket |-> serial + 1, who |-> r, until |-> clock[c]]
           others == {e \in Waiting : e.who # r}
<1>4. /\ DOMAIN pool' = DOMAIN pool \union {r}
      /\ pool'[r] = [score |-> clock[c], serial |-> serial + 1]
      /\ \A m \in DOMAIN pool \ {r} : pool'[m] = pool[m]
    BY <1>1, <1>2
<1>5. Ticket(r)' = new  BY <1>4 DEF Ticket
<1>6. \A m \in DOMAIN pool \ {r} : Ticket(m)' = Ticket(m)  BY <1>4 DEF Ticket
<1>7. new.ticket = serial + 1 /\ new.who = r  OBVIOUS
<1> HIDE DEF new
<1>8. \A e : e \in others <=> \E m \in DOMAIN pool \ {r} : e = Ticket(m)
    <2>1. \A m : Ticket(m).who = m  BY DEF Ticket
    <2>2. QED  BY <2>1, WaitingIs
<1> HIDE DEF others
<1>9. \A e : e \in Waiting' <=> \E m \in DOMAIN pool' : e = Ticket(m)'
    BY DEF Waiting, Ticket
<1>10. \A e : e \in Waiting' <=> e = new \/ e \in others
    BY <1>4, <1>5, <1>6, <1>8, <1>9
<1>11. Waiting' = others \union {new}  BY <1>10
<1>12. new \in Waiting'  BY <1>11
<1>13. QED  BY <1>1, <1>2, <1>3, <1>7, <1>11, <1>12 DEF Room!Arrive, others

\* The script takes what is due and one receiver that fits.
LEMMA ScriptTakes ==
    ASSUME RoomInv, NEW c \in Callers, pc[c] = "eval",
           NEW m \in FirstFits(arg[c], clock[c]),
           pool' = Without(Expired(clock[c]) \union {m})
    PROVE  /\ Ticket(m) \in Room!Fitting(c)
           /\ \E gone \in SUBSET Room!Due : Waiting' = Waiting \ (gone \union {Ticket(m)})
<1>1. PoolInv /\ clock[c] \in Nat /\ clock[c] <= now
    BY DEF RoomInv, PoolInv, CallerSide, CallerType, ClockShape
<1>2. m \in DOMAIN pool /\ Ticket(m) \in Room!Fitting(c)  BY <1>1, FoundIsFitting
<1> DEFINE late == Expired(clock[c])
           gone == {Ticket(x) : x \in DOMAIN pool \intersect late}
           both == {Ticket(x) : x \in DOMAIN pool \intersect (late \union {m})}
<1>3. gone \in SUBSET Room!Due  BY <1>1, ExpiredAreDue
<1>4. Waiting' = Waiting \ both  BY RoomShrinks
<1> HIDE DEF late
<1>5. both = gone \union {Ticket(m)}
    <2>1. \A e : e \in both <=> e \in gone \/ e = Ticket(m)  BY <1>2
    <2> HIDE DEF both, gone
    <2>2. QED  BY <2>1
<1> HIDE DEF both, gone
<1>6. QED  BY <1>2, <1>3, <1>4, <1>5

\* The commands are the reasons why a receiver comes to the room and leaves it.
LEMMA CommandRoom ==
    ASSUME RoomInv, NEW c \in Callers, Command(c)
    PROVE  Room!RoomNext \/ UNCHANGED Room!roomVars
<1>1. PoolInv /\ CallerType /\ PoolType
    BY DEF RoomInv, PoolInv, CallerSide, PoolSide
<1>2. CASE ZAdd(c)  BY <1>2, ZAddArrives DEF Room!RoomNext
<1>3. CASE Match(c)
    <2>1. PICK m \in FirstFits(arg[c], clock[c]) :
             /\ pool' = Without(Expired(clock[c]) \union {m})
             /\ handed' = [handed EXCEPT ![pool[m].serial] = @ \union {c}]
        BY <1>3 DEF Match
    <2>2. pc[c] = "eval" /\ Return(c) /\ UNCHANGED <<now, serial>>  BY <1>3 DEF Match
    <2>3. /\ Ticket(m) \in Room!Fitting(c)
          /\ \E gone \in SUBSET Room!Due : Waiting' = Waiting \ (gone \union {Ticket(m)})
        BY <2>1, <2>2, ScriptTakes
    <2>4. Ticket(m).ticket = pool[m].serial  BY DEF Ticket
    <2>5. Room!HangUp(c)  BY <1>1, <2>2, ReturnHangsUp
    <2>6. handed' = [handed EXCEPT ![Ticket(m).ticket] = @ \union {c}]  BY <2>1, <2>4
    <2>7. Room!Hand(c)  BY <2>2, <2>3, <2>5, <2>6 DEF Room!Hand
    <2>8. QED  BY <2>7 DEF Room!RoomNext
<1>4. CASE MatchReplyLost(c)
    <2>1. PICK m \in FirstFits(arg[c], clock[c]) :
             pool' = Without(Expired(clock[c]) \union {m})
        BY <1>4 DEF MatchReplyLost
    <2>2. /\ pc[c] = "eval" /\ (Return(c) \/ UNCHANGED caller)
          /\ UNCHANGED <<now, serial, handed>>
        BY <1>4 DEF MatchReplyLost
    <2>3. /\ Ticket(m) \in Room!Fitting(c)
          /\ \E gone \in SUBSET Room!Due : Waiting' = Waiting \ (gone \union {Ticket(m)})
        BY <2>1, <2>2, ScriptTakes
    <2>4. Room!HangUp(c) \/ UNCHANGED Room!calls
        <3>1. CASE Return(c)  BY <1>1, <3>1, ReturnHangsUp
        <3>2. CASE UNCHANGED caller  BY <3>2, SameCalls DEF caller
        <3>3. QED  BY <2>2, <3>1, <3>2
    <2>5. Room!Mislay(c)  BY <2>2, <2>3, <2>4 DEF Room!Mislay
    <2>6. QED  BY <2>5 DEF Room!RoomNext
<1>5. CASE Miss(c) \/ CountCleanup(c) \/ SweepIdle(c)
    <2>1. /\ pc[c] \in {"eval", "zremrange", "sweep"} /\ pool' = Without(Expired(clock[c]))
          /\ Return(c) /\ UNCHANGED <<now, serial, handed>>
        BY <1>5 DEF Miss, CountCleanup, SweepIdle
    <2>2. clock[c] \in Nat /\ clock[c] <= now
        BY <1>1, <2>1 DEF RoomInv, CallerType, ClockShape
    <2> DEFINE gone == {Ticket(x) : x \in DOMAIN pool \intersect Expired(clock[c])}
    <2>3. gone \in SUBSET Room!Due  BY <1>1, <2>2, ExpiredAreDue
    <2>4. Waiting' = Waiting \ gone  BY <2>1, RoomShrinks
    <2> HIDE DEF gone
    <2>5. Room!HangUp(c)  BY <1>1, <2>1, ReturnHangsUp
    <2>6. Room!Lapse  BY <2>1, <2>3, <2>4, <2>5 DEF Room!Lapse
    <2>7. QED  BY <2>6 DEF Room!RoomNext
<1>6. CASE DeleteReturns(c) \/ CommandFails(c)
    <2>1. Return(c) /\ UNCHANGED <<pool, now, serial, handed>>
        BY <1>6 DEF DeleteReturns, CommandFails
    <2>2. Waiting' = Waiting \ {} /\ {} \in SUBSET Room!Due  BY <2>1 DEF Waiting
    <2>3. Room!HangUp(c)  BY <1>1, <2>1, ReturnHangsUp
    <2>4. Room!Lapse  BY <2>1, <2>2, <2>3 DEF Room!Lapse
    <2>5. QED  BY <2>4 DEF Room!RoomNext
<1>7. CASE DeleteScan(c)
    <2>1. /\ pc[c] = "zrange" /\ pc'[c] = "zrem"
          /\ \A x \in Callers \ {c} : pc'[x] = pc[x]
          /\ UNCHANGED <<pool, now, serial, handed, arg, clock>>
        BY <1>1, <1>7 DEF CallerType, DeleteScan
    <2>2. {pc[c], pc'[c]} \subseteq {"zrange", "zrem"} /\ arg'[c] = arg[c]  BY <2>1
    <2>3. UNCHANGED Room!calls  BY <2>1, <2>2, SameCalls
    <2>4. Waiting' = Waiting  BY <2>1 DEF Waiting
    <2>5. QED  BY <2>1, <2>3, <2>4 DEF Room!roomVars
<1>8. CASE DeleteMember(c)
    <2>1. PICK m \in todo[c] : pool' = Without({m})  BY <1>8 DEF DeleteMember
    <2>2. pc[c] = "zrem" /\ UNCHANGED <<now, serial, handed, pc, arg, clock>>
        BY <1>8 DEF DeleteMember
    <2>3. UNCHANGED Room!calls  BY <2>2, SameCalls
    <2>4. m \in Member /\ m.hash = arg[c]
        BY <1>1, <2>2 DEF RoomInv, TodoShape, CallerType
    <2>5. m \in Erasing[c]  BY <2>2, <2>4 DEF Erasing
    <2> DEFINE gone == {Ticket(x) : x \in DOMAIN pool \intersect {m}}
    <2>6. Waiting' = Waiting \ gone  BY <2>1, RoomShrinks
    <2>7. CASE m \in DOMAIN pool
        <3>1. gone = {Ticket(m)}
            <4>1. \A e : e \in gone <=> e = Ticket(m)  BY <2>7
            <4> HIDE DEF gone
            <4>2. QED  BY <4>1
        <3> HIDE DEF gone
        <3>2. Ticket(m) \in Waiting /\ Ticket(m).who = m  BY <2>7, WaitingIs DEF Ticket
        <3>3. Room!Dismiss(c)  BY <2>2, <2>3, <2>5, <2>6, <3>1, <3>2 DEF Room!Dismiss
        <3>4. QED  BY <3>3 DEF Room!RoomNext
    <2>8. CASE m \notin DOMAIN pool
        <3>1. gone = {}  BY <2>8
        <3> HIDE DEF gone
        <3>2. Waiting' = Waiting  BY <2>6, <3>1
        <3>3. QED  BY <2>2, <2>3, <3>2 DEF Room!roomVars
    <2>9. QED  BY <2>7, <2>8
<1>9. QED
    BY <1>2, <1>3, <1>4, <1>5, <1>6, <1>7, <1>8 DEF Command

\* Every step of the pool is a step of the room, or changes nothing the room tells
\* apart.
LEMMA RoomStep == RoomInv /\ [Next]_vars => [Room!RoomNext]_(Room!roomVars)
<1> SUFFICES ASSUME RoomInv, [Next]_vars
             PROVE  Room!RoomNext \/ UNCHANGED Room!roomVars
    OBVIOUS
<1>1. CASE Tick \/ UNCHANGED vars
    <2>1. /\ UNCHANGED <<pool, serial, handed, caller>>
          /\ now' = now + 1 \/ now' = now
        BY <1>1 DEF Tick, vars
    <2>2. UNCHANGED Room!calls  BY <2>1, SameCalls DEF caller
    <2>3. Waiting' = Waiting  BY <2>1 DEF Waiting
    <2>4. CASE now' = now + 1
        BY <2>1, <2>2, <2>3, <2>4 DEF Room!RoomNext, Room!Pass
    <2>5. CASE now' = now  BY <2>1, <2>2, <2>3, <2>5 DEF Room!roomVars
    <2>6. QED  BY <2>1, <2>4, <2>5
<1>2. ASSUME NEW c \in Callers, Begin(c) PROVE Room!RoomNext \/ UNCHANGED Room!roomVars
    BY <1>2, BeginRoom
<1>3. ASSUME NEW c \in Callers, Command(c) PROVE Room!RoomNext \/ UNCHANGED Room!roomVars
    BY <1>3, CommandRoom
<1>4. QED  BY <1>1, <1>2, <1>3 DEF Next

\* The empty pool is an empty room.
LEMMA RoomInitial == Init => Room!RoomInit
<1> SUFFICES ASSUME Init PROVE Room!RoomInit  OBVIOUS
<1>1. Waiting = {}  BY DEF Init, Waiting
<1>2. Wanted = [c \in Callers |-> {}]  BY DEF Init, Wanted
<1>3. AskedAt = [c \in Callers |-> 0]  BY DEF Init, AskedAt
<1>4. Erasing = [c \in Callers |-> {}]  BY DEF Init, Erasing
<1>5. QED  BY <1>1, <1>2, <1>3, <1>4 DEF Init, Room!RoomInit

\* A sorted set of expiry times, a script that removes what it returns, commands that
\* are sent again and callers whose clocks and replies grow old implement the simple
\* waiting room that WaitingRoom describes.
THEOREM PoolImplementsRoom == Spec => RoomSpec
<1>1. Spec => Room!RoomInit  BY RoomInitial DEF Spec
<1>2. Spec => [][Room!RoomNext]_(Room!roomVars)  BY RoomInvHolds, RoomStep, PTL DEF Spec
<1>3. QED  BY <1>1, <1>2 DEF RoomSpec, Room!RoomSpec
=============================================================================
