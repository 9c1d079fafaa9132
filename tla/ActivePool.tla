----------------------------- MODULE ActivePool -----------------------------
(***************************************************************************)
(* backend/internal/matching/pool.go: the Active Pool of waiting           *)
(* receivers, a Redis sorted set whose members are the encoded receivers   *)
(* and whose scores are their expiry times.  Callers (request goroutines,  *)
(* of any number of backend processes, and the sweeper) run concurrently;  *)
(* a Redis command or script is atomic, and everything a caller read       *)
(* before it (its own clock, an earlier reply) may be old by the time the  *)
(* command runs.  So every operation is one step that reads the clock,     *)
(* and one step per command.                                               *)
(*                                                                         *)
(* Each ZADD gets a serial number, kept beside the score, so that the      *)
(* properties can tell one registration of a receiver from the next.       *)
(***************************************************************************)
EXTENDS Naturals, FiniteSets, Functions

CONSTANTS
    Callers,
    Sweeper,     \* the caller that is RunSweeper's goroutine
    Hashes,      \* device hashes
    Operators, Countries, Apps,
    Blank,       \* an empty field: "-" in a member, no filter in a criterion
    TTLs,        \* the lifetimes receivers register for, in clock ticks
    ScanLimit,   \* p.scanLimit
    MaxTime,     \* bound on the clock
    MaxSerial,   \* bound on the number of registrations
    Nothing      \* no argument

Criteria == [operator : Operators \union {Blank}, country : Countries \union {Blank},
             app : Apps \union {Blank}]

\* ReceiverInfo as encodeMember packs it.
Member == [operator : Operators \union {Blank}, country : Countries \union {Blank},
           app : Apps \union {Blank}, hash : Hashes]

ASSUME PoolAssumption ==
    /\ Sweeper \in Callers
    /\ Blank \notin Operators \union Countries \union Apps
    /\ TTLs \subseteq Nat \ {0}
    /\ ScanLimit \in Nat \ {0} /\ MaxTime \in Nat /\ MaxSerial \in Nat
    /\ Nothing \notin Member \union Criteria \union Hashes

VARIABLES
    pool,     \* the sorted set: for every member its score and serial
    now,      \* the wall clock
    serial,   \* registrations so far
    handed,   \* handed[n]: the callers MatchSender gave registration n to
    pc,       \* where each caller is
    arg,      \* its argument
    clock,    \* the clock it read; for a registration, the score
    todo,     \* DeleteByHash: members of the ZRANGE reply still to remove
    since     \* DeleteByHash: serial at the time of the ZRANGE

caller == <<pc, arg, clock, todo, since>>
vars   == <<pool, now, serial, handed, caller>>

Init ==
    /\ pool = [m \in {} |-> 0]
    /\ now = 1
    /\ serial = 0
    /\ handed = [n \in 1..MaxSerial |-> {}]
    /\ pc = [c \in Callers |-> "idle"]
    /\ arg = [c \in Callers |-> Nothing]
    /\ clock = [c \in Callers |-> 0]
    /\ todo = [c \in Callers |-> {}]
    /\ since = [c \in Callers |-> 0]

-----------------------------------------------------------------------------
\* What the Redis commands do to the sorted set.

Without(members) == Restrict(pool, DOMAIN pool \ members)

\* Slip: the range ends before `time`.
ExpiredBefore(time) == {m \in DOMAIN pool : pool[m].score < time}

\* ZREMRANGEBYSCORE 0 time.
Expired(time) == {m \in DOMAIN pool : pool[m].score <= time}

\* A "" or "*" filter accepts any value; "-" (no value) only passes such a filter.
Fits(m, criteria) ==
    /\ criteria.operator \in {Blank, m.operator}
    /\ criteria.country \in {Blank, m.country}
    /\ criteria.app \in {Blank, m.app}

\* The members the script sees ahead of m, in the order of their scores.  Redis
\* breaks ties by the bytes of the members: either order, here.
Ahead(m, time) ==
    {x \in DOMAIN pool \ Expired(time) : pool[x].score < pool[m].score}

\* The members matchScript may find first among its ScanLimit candidates.
FirstFits(criteria, time) ==
    {m \in DOMAIN pool \ Expired(time) :
        /\ Fits(m, criteria)
        /\ Cardinality(Ahead(m, time)) < ScanLimit
        /\ \A x \in Ahead(m, time) : ~Fits(x, criteria)}

\* No candidate fits: none at all, or none among the first ScanLimit.
MayMiss(criteria, time) ==
    \A m \in DOMAIN pool \ Expired(time) : Fits(m, criteria) =>
        ScanLimit <= Cardinality({x \in DOMAIN pool \ Expired(time) :
                                    ~Fits(x, criteria) /\ pool[x].score <= pool[m].score})

-----------------------------------------------------------------------------
\* Callers.

\* A call is made and reads its clock.
Start(c, label, argument, time) ==
    /\ pc[c] = "idle"
    /\ pc' = [pc EXCEPT ![c] = label]
    /\ arg' = [arg EXCEPT ![c] = argument]
    /\ clock' = [clock EXCEPT ![c] = time]
    /\ UNCHANGED <<pool, now, serial, handed, todo, since>>

Return(c) ==
    /\ pc' = [pc EXCEPT ![c] = "idle"]
    /\ arg' = [arg EXCEPT ![c] = Nothing]
    /\ clock' = [clock EXCEPT ![c] = 0]
    /\ todo' = [todo EXCEPT ![c] = {}]
    /\ since' = [since EXCEPT ![c] = 0]

StartRegister(c) == \E m \in Member, ttl \in TTLs : Start(c, "zadd", m, now + ttl)
StartMatch(c)    == \E k \in Criteria : Start(c, "eval", k, now)
StartDelete(c)   == \E h \in Hashes : Start(c, "zrange", h, 0)
StartCount(c)    == Start(c, "zremrange", Nothing, now)

\* SweepIdle: from RunSweeper's ticker, or called by hand.
StartSweep(c)    == Start(c, "sweep", Nothing, now)

\* ZADD: an upsert by member.  Its reply may be lost, and the client library then
\* sends it again.  Bound: MaxSerial registrations.
ZAdd(c) ==
    /\ pc[c] = "zadd"
    /\ serial < MaxSerial
    /\ serial' = serial + 1
    /\ pool' = [m \in DOMAIN pool \union {arg[c]} |->
                  IF m = arg[c] THEN [score |-> clock[c], serial |-> serial + 1]
                  ELSE pool[m]]
    /\ Return(c) \/ UNCHANGED caller
    /\ UNCHANGED <<now, handed>>

\* Slip: the script only reads, and the ZREM is left for later.
MatchPeek(c) ==
    /\ pc[c] = "eval"
    /\ \E m \in FirstFits(arg[c], clock[c]) :
         /\ pool' = Without(Expired(clock[c]))
         /\ handed' = [handed EXCEPT ![pool[m].serial] = @ \union {c}]
    /\ Return(c)
    /\ UNCHANGED <<now, serial>>

\* matchScript finds a receiver, removes it and returns it.
Match(c) ==
    /\ pc[c] = "eval"
    /\ \E m \in FirstFits(arg[c], clock[c]) :
         /\ pool' = Without(Expired(clock[c]) \union {m})
         /\ handed' = [handed EXCEPT ![pool[m].serial] = @ \union {c}]
    /\ Return(c)
    /\ UNCHANGED <<now, serial>>

\* matchScript finds nothing: ErrNotFound.
Miss(c) ==
    /\ pc[c] = "eval"
    /\ MayMiss(arg[c], clock[c])
    /\ pool' = Without(Expired(clock[c]))
    /\ Return(c)
    /\ UNCHANGED <<now, serial, handed>>

\* The script ran but its reply was lost on the way.  The client library sends
\* the script again, or MatchSender returns the error: the receiver is gone.
MatchReplyLost(c) ==
    /\ pc[c] = "eval"
    /\ \E m \in FirstFits(arg[c], clock[c]) :
         pool' = Without(Expired(clock[c]) \union {m})
    /\ Return(c) \/ UNCHANGED caller
    /\ UNCHANGED <<now, serial, handed>>

\* Count: ZREMRANGEBYSCORE, then ZCARD (which only reads) and the return.
CountCleanup(c) ==
    /\ pc[c] = "zremrange"
    /\ pool' = Without(Expired(clock[c]))
    /\ Return(c)
    /\ UNCHANGED <<now, serial, handed>>

SweepIdle(c) ==
    /\ pc[c] = "sweep"
    /\ pool' = Without(Expired(clock[c]))
    /\ Return(c)
    /\ UNCHANGED <<now, serial, handed>>

\* Slip: one member per hash is taken for granted.
DeleteScanOne(c) ==
    /\ pc[c] = "zrange"
    /\ LET mine == {m \in DOMAIN pool : m.hash = arg[c]}
       IN  todo' = [todo EXCEPT ![c] = IF mine = {} THEN {} ELSE {CHOOSE m \in mine : TRUE}]
    /\ since' = [since EXCEPT ![c] = serial]
    /\ pc' = [pc EXCEPT ![c] = "zrem"]
    /\ UNCHANGED <<pool, now, serial, handed, arg, clock>>

\* Slip: what is kept for the ZREMs is the hash, not the encoded member.
DeleteScanHash(c) ==
    /\ pc[c] = "zrange"
    /\ todo' = [todo EXCEPT ![c] = {m.hash : m \in {x \in DOMAIN pool : x.hash = arg[c]}}]
    /\ since' = [since EXCEPT ![c] = serial]
    /\ pc' = [pc EXCEPT ![c] = "zrem"]
    /\ UNCHANGED <<pool, now, serial, handed, arg, clock>>

\* DeleteByHash: the members of the ZRANGE reply that carry the hash.
DeleteScan(c) ==
    /\ pc[c] = "zrange"
    /\ todo' = [todo EXCEPT ![c] = {m \in DOMAIN pool : m.hash = arg[c]}]
    /\ since' = [since EXCEPT ![c] = serial]
    /\ pc' = [pc EXCEPT ![c] = "zrem"]
    /\ UNCHANGED <<pool, now, serial, handed, arg, clock>>

\* One ZREM, of a member that may be gone or registered again by now.
DeleteMember(c) ==
    /\ pc[c] = "zrem"
    /\ \E m \in todo[c] :
         /\ pool' = Without({m})
         /\ todo' = [todo EXCEPT ![c] = @ \ {m}]
    /\ UNCHANGED <<now, serial, handed, pc, arg, clock, since>>

\* A command fails before it reaches Redis, and the operation gives up: an error
\* to its caller, a skipped tick for the sweeper, a DeleteByHash half done.
CommandFails(c) ==
    /\ pc[c] # "idle"
    /\ pc[c] = "zrem" => todo[c] # {}
    /\ Return(c)
    /\ UNCHANGED <<pool, now, serial, handed>>

DeleteReturns(c) ==
    /\ pc[c] = "zrem"
    /\ todo[c] = {}
    /\ Return(c)
    /\ UNCHANGED <<pool, now, serial, handed>>

Tick ==
    /\ now < MaxTime
    /\ now' = now + 1
    /\ UNCHANGED <<pool, serial, handed, caller>>

-----------------------------------------------------------------------------
Begin(c) ==
    \/ StartSweep(c)
    \/ /\ c # Sweeper
       /\ StartRegister(c) \/ StartMatch(c) \/ StartDelete(c) \/ StartCount(c)

Command(c) ==
    \/ ZAdd(c)
    \/ Match(c) \/ Miss(c) \/ MatchReplyLost(c)
    \/ CountCleanup(c) \/ SweepIdle(c)
    \/ DeleteScan(c) \/ DeleteMember(c) \/ DeleteReturns(c)
    \/ CommandFails(c)

Next == Tick \/ \E c \in Callers : Begin(c) \/ Command(c)

Spec == Init /\ [][Next]_vars

\* The sweeper's ticker keeps firing, and Redis answers it again and again: "a
\* transient Redis hiccup should not kill the sweeper" (pool.go:495).
FairSpec == Spec /\ WF_vars(StartSweep(Sweeper)) /\ SF_vars(SweepIdle(Sweeper))

-----------------------------------------------------------------------------
\* The pool as WaitingRoom tells it: a call asks for a match until its script has
\* run, and a deletion erases until it returns.
Waiting == {[ticket |-> pool[m].serial, who |-> m, until |-> pool[m].score] :
              m \in DOMAIN pool}
Wanted  == [c \in Callers |->
              IF pc[c] = "eval" THEN {m \in Member : Fits(m, arg[c])} ELSE {}]
AskedAt == [c \in Callers |-> IF pc[c] = "eval" THEN clock[c] ELSE 0]
Erasing == [c \in Callers |->
              IF pc[c] \in {"zrange", "zrem"} THEN {m \in Member : m.hash = arg[c]} ELSE {}]

Room == INSTANCE WaitingRoom WITH
    Receivers <- Member, Tickets <- 1..MaxSerial,
    room <- Waiting, issued <- serial, holder <- handed, time <- now,
    wants <- Wanted, asked <- AskedAt, erasing <- Erasing

\* To receivers and senders, all the clocks, scripts, retries and deletions that run
\* at once are a waiting room: a receiver goes to one sender that it fits and that
\* asked in time, and it leaves for no reason but those WaitingRoom names.
RoomSpec == Room!RoomSpec

-----------------------------------------------------------------------------
\* Properties.

Entry == [score : Nat, serial : 1..MaxSerial]

\* The types of the variables.
TypeOK ==
    /\ DOMAIN pool \subseteq Member
    /\ \A m \in DOMAIN pool : pool[m] \in Entry
    /\ now \in Nat
    /\ serial \in 0..MaxSerial
    /\ handed \in [1..MaxSerial -> SUBSET Callers]
    /\ pc \in [Callers -> {"idle", "zadd", "eval", "zrange", "zrem", "zremrange", "sweep"}]
    /\ arg \in [Callers -> Member \union Criteria \union Hashes \union {Nothing}]
    /\ clock \in [Callers -> Nat]
    /\ todo \in [Callers -> SUBSET Member]
    /\ since \in [Callers -> 0..MaxSerial]

\* "two concurrent callers cannot receive the same ReceiverInfo" (pool.go:126):
\* whatever runs in between, a registration is given to one sender at most, and
\* one that was given away is out of the pool for good.
HandedOnce ==
    /\ \A n \in 1..MaxSerial : \A c, d \in handed[n] : c = d
    /\ \A m \in DOMAIN pool : handed[pool[m].serial] = {}

\* When DeleteByHash returns without an error, the pool holds nothing of the
\* device but what was registered after the deletion took its snapshot, however
\* many entries the device had and whatever other callers did meanwhile.
DeleteIsThorough ==
    \A c \in Callers : pc[c] = "zrem" /\ todo[c] = {} =>
        \A m \in DOMAIN pool : m.hash = arg[c] => pool[m].serial > since[c]

\* The sweeper bounds the pool in the cold case: with nobody matching or
\* counting, an entry whose time has come leaves the pool.
ExpiredLeave ==
    \A m \in Member :
        m \in DOMAIN pool /\ pool[m].score <= now
          ~> m \notin DOMAIN pool \/ pool[m].score > now
=============================================================================
