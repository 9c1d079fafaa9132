------------------------------ MODULE UserData ------------------------------
(***************************************************************************)
(* The rows that the REST handlers keep of a device, and their erasure.    *)
(*                                                                         *)
(* Requests run concurrently; a step is one call of the store, that is one *)
(* statement in PostgreSQL or one command in Redis, and each may fail.     *)
(* DeleteSession and DeleteUser are transactions at the isolation level    *)
(* READ COMMITTED: a statement sees what was committed when it ran, locks  *)
(* the rows it changes, and waits for those another transaction has        *)
(* locked; nothing shows until the commit.                                 *)
(***************************************************************************)
EXTENDS Naturals, FiniteSets, Functions

CONSTANTS
    Requests,    \* the request goroutines
    Hashes,      \* device_id_hash of the devices
    Sessions,    \* ids of test sessions
    Menu,        \* the calls that clients make
    NoHash,      \* NULL in a column that holds a hash
    Synthetic,   \* the hash that is made up for a batch that carries none
    BatchSize,   \* packets in a telemetry batch
    MaxCalls     \* bound on the calls ever made

\* What a client asks for.  A batch may come without its device's hash.
Call ==
    [op : {"create"}, session : Sessions, sender : Hashes, receiver : Hashes \union {NoHash},
     key : BOOLEAN]
    \union [op : {"batch"}, session : Sessions, owner : Hashes, named : BOOLEAN]
    \union [op : {"close", "delete"}, session : Sessions]
    \union [op : {"erase"}, hash : Hashes]

ASSUME UserDataAssumption ==
    /\ Menu \subseteq Call
    /\ NoHash \notin Hashes /\ Synthetic \notin Hashes \union {NoHash}
    /\ BatchSize \in Nat \ {0} /\ MaxCalls \in Nat

VARIABLES
    devices,     \* the rows of devices
    sessions,    \* the rows of sessions, by id
    telemetry,   \* the rows of telemetry, by id
    aggregates,  \* telemetry_aggregates: the packets counted, by session
    pool,        \* the devices that wait in the Active Pool
    pc, call,    \* what each request does, and for which call
    sent,        \* ids of the rows a batch has inserted so far
    counted,     \* the count a close has computed and not stored yet
    edits,       \* what a request's transaction has changed and not committed
    doomed,      \* requests whose transaction PostgreSQL will refuse to commit
    answer,      \* the answer to each request's last call
    rows, calls, \* rows and calls so far
    accepted,    \* history: the rows of the batches answered with 202
    erased,      \* history: the rows that an erasure of their device removed
    old          \* history: facts about the device an erasure found and that still stand

store == <<devices, sessions, telemetry, aggregates, pool>>
vars ==
    <<store, pc, call, sent, counted, edits, doomed, answer, rows, calls, accepted, erased, old>>

Row == [device : Hashes \union {Synthetic}, owner : Hashes, session : Sessions]
Session ==
    [sender : Hashes \union {NoHash}, receiver : Hashes \union {NoHash},
     status : {"pending", "completed"}]
Labels == {"idle", "UpsertDevice", "InsertSession", "InsertTelemetry", "UpdateSessionStatus",
           "GetTelemetryAggregate", "ComputeTelemetryAggregate", "UpsertTelemetryAggregate",
           "delete aggregate", "delete session", "commit delete-session", "delete telemetry",
           "null sender", "null receiver", "delete device", "delete aggregates",
           "commit delete-user", "hook"}

NoCall == [op |-> "none"]
Empty == [x \in {} |-> x]

\* The table f with the row v under key x, written over the one that stood there.
With(f, x, v) == [y \in DOMAIN f \union {x} |-> IF y = x THEN v ELSE f[y]]

\* The facts about a device that stand in the stores.
FactsOf(h) ==
    {<<"telemetry", i>> : i \in {i \in DOMAIN telemetry : telemetry[i].device = h}}
    \union {<<"sender", s>> : s \in {s \in DOMAIN sessions : sessions[s].sender = h}}
    \union {<<"receiver", s>> : s \in {s \in DOMAIN sessions : sessions[s].receiver = h}}
    \union {<<"device", h>> : d \in devices \intersect {h}}
    \union {<<"pool", h>> : d \in pool \intersect {h}}

\* The rows a device has sent, under whichever hash they are stored.
SentBy(h) == {<<"sent", i>> : i \in {i \in DOMAIN telemetry : telemetry[i].owner = h}}

\* The row in which an uncommitted change stands, and the rows others have locked.
RowOf(e) == IF e[1] \in {"sender", "receiver", "session"} THEN <<"session", e[2]>> ELSE e
Locked(r) == {RowOf(e) : e \in UNION {edits[q] : q \in Requests \ {r}}}

Init ==
    /\ devices = {} /\ pool = {}
    /\ sessions = Empty /\ telemetry = Empty /\ aggregates = Empty
    /\ pc = [r \in Requests |-> "idle"] /\ call = [r \in Requests |-> NoCall]
    /\ sent = [r \in Requests |-> {}] /\ counted = [r \in Requests |-> 0]
    /\ edits = [r \in Requests |-> {}] /\ doomed = {}
    /\ answer = [r \in Requests |-> "none"]
    /\ rows = 0 /\ calls = 0
    /\ accepted = {} /\ erased = {} /\ old = [r \in Requests |-> {}]
-----------------------------------------------------------------------------
(* Steps of a request.                                                     *)

Goto(r, label) == pc' = [pc EXCEPT ![r] = label]

\* Mutant of Answer: the deferred Rollback is missing, and the transaction keeps its locks.
AnswerWithoutRollback(r, a) ==
    /\ Goto(r, "idle")
    /\ answer' = [answer EXCEPT ![r] = a]
    /\ sent' = [sent EXCEPT ![r] = {}] /\ counted' = [counted EXCEPT ![r] = 0]
    /\ UNCHANGED edits /\ doomed' = doomed \ {r}

\* The handler answers; its variables are gone, and its transaction, if it has one, is over.
Answer(r, a) ==
    /\ Goto(r, "idle")
    /\ answer' = [answer EXCEPT ![r] = a]
    /\ sent' = [sent EXCEPT ![r] = {}] /\ counted' = [counted EXCEPT ![r] = 0]
    /\ edits' = [edits EXCEPT ![r] = {}] /\ doomed' = doomed \ {r}

\* The facts an erasure found when it began, as long as they stand without a break.
Track ==
    old' = [r \in Requests |->
              IF call'[r].op # "erase" \/ {pc[r], pc'[r]} = {"idle"} \/ answer'[r] = "error"
              THEN {}
              ELSE IF pc[r] = "idle" THEN FactsOf(call'[r].hash) \union SentBy(call'[r].hash)
              ELSE old[r] \intersect (FactsOf(call[r].hash) \union SentBy(call[r].hash))']

\* The rows that a request's next statement changes.
Needs(r) ==
    LET c == call[r]
        Of(h, role) == {<<"session", s>> : s \in {s \in DOMAIN sessions : sessions[s][role] = h}}
    IN  CASE pc[r] = "UpsertDevice" -> {<<"device", c.sender>>}
          [] pc[r] \in {"InsertSession", "UpdateSessionStatus", "delete session"} ->
                {<<"session", c.session>>}
          [] pc[r] \in {"UpsertTelemetryAggregate", "delete aggregate"} ->
                {<<"aggregate", c.session>>}
          [] pc[r] = "delete telemetry" ->
                {<<"telemetry", i>> : i \in {i \in DOMAIN telemetry : telemetry[i].device = c.hash}}
          [] pc[r] = "null sender" -> Of(c.hash, "sender")
          [] pc[r] = "null receiver" -> Of(c.hash, "receiver")
          [] pc[r] = "delete device" -> {<<"device", c.hash>>}
          [] pc[r] = "delete aggregates" ->
                {<<"aggregate", s>> : s \in DOMAIN aggregates \intersect DOMAIN sessions}
          [] OTHER -> {}

\* Mutant of At: a statement that does not wait for the rows it changes.
AtOnce(r, label) == pc[r] = label

\* The statement at label runs once nobody else has its rows locked.
At(r, label) == pc[r] = label /\ Needs(r) \intersect Locked(r) = {}

Begin(r) ==
    /\ pc[r] = "idle" /\ calls < MaxCalls
    /\ calls' = calls + 1
    /\ \E c \in Menu :
        /\ call' = [call EXCEPT ![r] = c]
        /\ Goto(r, CASE c.op = "create" /\ c.key -> "UpsertDevice"
                     [] c.op = "create" /\ ~c.key -> "InsertSession"
                     [] c.op = "batch" -> "InsertTelemetry"
                     [] c.op = "close" -> "UpdateSessionStatus"
                     [] c.op = "delete" -> "delete aggregate"
                     [] c.op = "erase" -> "delete telemetry")
    /\ answer' = [answer EXCEPT ![r] = "none"]
    /\ UNCHANGED <<store, sent, counted, edits, doomed, rows, accepted, erased>>
    /\ Track

UpsertDevice(r) ==
    /\ At(r, "UpsertDevice")
    /\ devices' = devices \union {call[r].sender}
    /\ Goto(r, "InsertSession")
    /\ UNCHANGED <<sessions, telemetry, aggregates, pool, call, sent, counted, edits, doomed,
                   answer, rows, calls, accepted, erased>>
    /\ Track

\* The primary key refuses a second row under one id.
InsertSession(r) ==
    LET c == call[r] IN
    /\ At(r, "InsertSession")
    /\ IF c.session \in DOMAIN sessions
       THEN Answer(r, "error") /\ UNCHANGED sessions
       ELSE /\ sessions' = With(sessions, c.session,
                    [sender |-> c.sender, receiver |-> c.receiver, status |-> "pending"])
            /\ Answer(r, "ok")
    /\ UNCHANGED <<devices, telemetry, aggregates, pool, call, rows, calls,
                   accepted, erased>>
    /\ Track

\* One row of the batch, outside a transaction; the last one accepts it.
InsertTelemetry(r) ==
    LET c == call[r]
        row == [device |-> IF c.named THEN c.owner ELSE Synthetic, owner |-> c.owner,
                session |-> c.session]
        ids == sent[r] \union {rows + 1}
    IN  /\ At(r, "InsertTelemetry")
        /\ telemetry' = With(telemetry, rows + 1, row)
        /\ rows' = rows + 1
        /\ IF Cardinality(ids) = BatchSize
           THEN Answer(r, "ok") /\ accepted' = accepted \union {ids}
           ELSE /\ sent' = [sent EXCEPT ![r] = ids]
                /\ UNCHANGED <<pc, counted, answer, edits, doomed, accepted>>
        /\ UNCHANGED <<devices, sessions, aggregates, pool, call, calls, erased>>
        /\ Track

\* The result is ignored, a session that is not there included.
UpdateSessionStatus(r) ==
    LET s == call[r].session IN
    /\ At(r, "UpdateSessionStatus")
    /\ sessions' = [t \in DOMAIN sessions |->
                        IF t = s THEN [sessions[t] EXCEPT !.status = "completed"] ELSE sessions[t]]
    /\ Goto(r, "GetTelemetryAggregate")
    /\ UNCHANGED <<devices, telemetry, aggregates, pool, call, sent, counted, edits, doomed,
                   answer, rows, calls, accepted, erased>>
    /\ Track

\* A cached aggregate is the answer, whatever came in since.
GetTelemetryAggregate(r) ==
    /\ At(r, "GetTelemetryAggregate")
    /\ IF call[r].session \in DOMAIN aggregates
       THEN Answer(r, "ok")
       ELSE /\ Goto(r, "ComputeTelemetryAggregate")
            /\ UNCHANGED <<sent, counted, answer, edits, doomed>>
    /\ UNCHANGED <<store, call, rows, calls, accepted, erased>>
    /\ Track

ComputeTelemetryAggregate(r) ==
    /\ At(r, "ComputeTelemetryAggregate")
    /\ counted' = [counted EXCEPT ![r] = Cardinality(
                      {i \in DOMAIN telemetry : telemetry[i].session = call[r].session})]
    /\ Goto(r, "UpsertTelemetryAggregate")
    /\ UNCHANGED <<store, call, sent, edits, doomed, answer, rows, calls, accepted, erased>>
    /\ Track

UpsertTelemetryAggregate(r) ==
    LET s == call[r].session IN
    /\ At(r, "UpsertTelemetryAggregate")
    /\ aggregates' = With(aggregates, s, counted[r])
    /\ Answer(r, "ok")
    /\ UNCHANGED <<devices, sessions, telemetry, pool, call, rows, calls, accepted, erased>>
    /\ Track

\* A statement of a transaction; the changes wait for the commit.
Statement(r, label, changes, next) ==
    /\ At(r, label)
    /\ edits' = [edits EXCEPT ![r] = @ \union changes]
    /\ Goto(r, next)
    /\ UNCHANGED <<store, call, sent, counted, doomed, answer, rows, calls, accepted, erased>>
    /\ Track

\* The changes of a transaction come true.
Apply(r) ==
    LET kept(t, f) == Restrict(f, {x \in DOMAIN f : <<t, x>> \notin edits[r]})
        null(role, s) == IF <<role, s>> \in edits[r] THEN NoHash ELSE sessions[s][role]
    IN  /\ telemetry' = kept("telemetry", telemetry)
        /\ aggregates' = kept("aggregate", aggregates)
        /\ sessions' = [s \in DOMAIN kept("session", sessions) |->
                          [sessions[s] EXCEPT !.sender = null("sender", s),
                                              !.receiver = null("receiver", s)]]
        /\ devices' = {d \in devices : <<"device", d>> \notin edits[r]}

\* Mutant of DeleteAggregate: the session's telemetry goes with it.
DeleteAggregateAndRows(r) ==
    Statement(r, "delete aggregate",
              {<<"aggregate", s>> : s \in DOMAIN aggregates \intersect {call[r].session}}
              \union {<<"telemetry", i>> :
                  i \in {i \in DOMAIN telemetry : telemetry[i].session = call[r].session}},
              "delete session")

\* DeleteSession: the aggregate first; without a row of the session all is rolled back.
DeleteAggregate(r) ==
    Statement(r, "delete aggregate",
              {<<"aggregate", s>> : s \in DOMAIN aggregates \intersect {call[r].session}},
              "delete session")

DeleteSession(r) ==
    LET s == call[r].session IN
    \/ DeleteAggregate(r)
    \/ /\ Statement(r, "delete session", {<<"session", s>>}, "commit delete-session")
       /\ s \in DOMAIN sessions
    \/ /\ At(r, "delete session") /\ s \notin DOMAIN sessions
       /\ Answer(r, "ok")
       /\ UNCHANGED <<store, call, rows, calls, accepted, erased>> /\ Track
    \/ /\ pc[r] = "commit delete-session"
       /\ Apply(r) /\ Answer(r, "ok")
       /\ UNCHANGED <<pool, call, rows, calls, accepted, erased>> /\ Track

\* Mutants of NullReceiver: the statement is missing, or its WHERE names the other column.
NullNobody(r) == Statement(r, "null receiver", {}, "delete device")

NullReceiverOfSender(r) ==
    Statement(r, "null receiver",
              {<<"receiver", s>> :
                  s \in {s \in DOMAIN sessions : sessions[s].sender = call[r].hash}},
              "delete device")

\* The receiver column of the sessions that the device received.
NullReceiver(r) ==
    Statement(r, "null receiver",
              {<<"receiver", s>> :
                  s \in {s \in DOMAIN sessions : sessions[s].receiver = call[r].hash}},
              "delete device")

\* DeleteUser, up to its commit.  The last statement spares no device's aggregates.
DeleteUser(r) ==
    LET h == call[r].hash
        Named(t, rel) == {<<t, x>> : x \in rel}
    IN  \/ Statement(r, "delete telemetry",
                     Named("telemetry", {i \in DOMAIN telemetry : telemetry[i].device = h}),
                     "null sender")
        \/ Statement(r, "null sender",
                     Named("sender", {s \in DOMAIN sessions : sessions[s].sender = h}),
                     "null receiver")
        \/ NullReceiver(r)
        \/ Statement(r, "delete device", Named("device", devices \intersect {h}),
                     "delete aggregates")
        \/ Statement(r, "delete aggregates",
                     Named("aggregate", DOMAIN aggregates \intersect DOMAIN sessions),
                     "commit delete-user")

\* History: the rows of its own device that a committed erasure removes.
Erases(r) ==
    {i \in DOMAIN telemetry : <<"telemetry", i>> \in edits[r] /\ telemetry[i].device = call[r].hash}

CommitDeleteUser(r) ==
    /\ pc[r] = "commit delete-user"
    /\ IF r \in doomed
       THEN Answer(r, "error") /\ UNCHANGED <<devices, sessions, telemetry, aggregates, erased>>
       ELSE /\ Apply(r)
            /\ erased' = erased \union Erases(r)
            /\ Goto(r, "hook")
            /\ edits' = [edits EXCEPT ![r] = {}]
            /\ UNCHANGED <<sent, counted, answer, doomed>>
    /\ UNCHANGED <<pool, call, rows, calls, accepted>>
    /\ Track

\* DeleteUserHook: DeleteByHash of the Active Pool, as one step.
DeleteUserHook(r) ==
    /\ pc[r] = "hook"
    /\ pool' = pool \ {call[r].hash}
    /\ Answer(r, "ok")
    /\ UNCHANGED <<devices, sessions, telemetry, aggregates, call, rows, calls,
                   accepted, erased>>
    /\ Track
-----------------------------------------------------------------------------
(* A store call that fails: the connection, a timeout, a deadlock's victim. *)

\* Errors that the handler logs or ignores before it goes on.
FailSoftly(r) ==
    /\ \/ pc[r] = "UpsertDevice" /\ Goto(r, "InsertSession") /\ UNCHANGED doomed
       \/ pc[r] = "UpdateSessionStatus" /\ Goto(r, "GetTelemetryAggregate") /\ UNCHANGED doomed
       \/ /\ pc[r] = "delete aggregates" /\ Goto(r, "commit delete-user")
          /\ doomed' = doomed \union {r}
    /\ UNCHANGED <<store, call, sent, counted, edits, answer, rows, calls, accepted, erased>>
    /\ Track

\* Errors after which the handler answers 200 all the same.
FailSilently(r) ==
    /\ \/ /\ pc[r] \in {"GetTelemetryAggregate", "ComputeTelemetryAggregate",
                        "UpsertTelemetryAggregate"}
          /\ Answer(r, "ok, with a placeholder")
       \/ pc[r] = "hook" /\ Answer(r, "ok, hook failed")
    /\ UNCHANGED <<store, call, rows, calls, accepted, erased>>
    /\ Track

\* Errors that end the request; a transaction is rolled back.
FailHard(r) ==
    /\ pc[r] \in {"InsertSession", "InsertTelemetry", "delete aggregate", "delete session",
                  "commit delete-session", "delete telemetry", "null sender", "null receiver",
                  "delete device", "commit delete-user"}
    /\ Answer(r, "error")
    /\ UNCHANGED <<store, call, rows, calls, accepted, erased>>
    /\ Track

\* A commit took effect, but the handler never learns of it.
CommitReplyLost(r) ==
    /\ pc[r] \in {"commit delete-session", "commit delete-user"} /\ r \notin doomed
    /\ Apply(r) /\ Answer(r, "error")
    /\ erased' = IF call[r].op = "erase" THEN erased \union Erases(r) ELSE erased
    /\ UNCHANGED <<pool, call, rows, calls, accepted>>
    /\ Track

Fail(r) == FailSoftly(r) \/ FailSilently(r) \/ FailHard(r)
-----------------------------------------------------------------------------
(* The Active Pool, as seen from here.                                     *)

\* A receiver registers; one that is matched or swept is not an erasure's doing and left out.
RegisterReceiver ==
    /\ calls < MaxCalls
    /\ calls' = calls + 1
    /\ \E h \in Hashes \ pool : pool' = pool \union {h}
    /\ UNCHANGED <<devices, sessions, telemetry, aggregates, pc, call, sent, counted, edits,
                   doomed, answer, rows, accepted, erased>>
    /\ Track
-----------------------------------------------------------------------------
Proceed(r) ==
    \/ UpsertDevice(r) \/ InsertSession(r) \/ InsertTelemetry(r) \/ UpdateSessionStatus(r)
    \/ GetTelemetryAggregate(r) \/ ComputeTelemetryAggregate(r) \/ UpsertTelemetryAggregate(r)
    \/ DeleteSession(r) \/ DeleteUser(r) \/ CommitDeleteUser(r) \/ DeleteUserHook(r)

Next ==
    \/ \E r \in Requests : Begin(r) \/ Proceed(r) \/ Fail(r) \/ CommitReplyLost(r)
    \/ RegisterReceiver

Spec == Init /\ [][Next]_vars

\* PostgreSQL aborts a statement of every circle of transactions that wait for each other.
WaitsFor(r) == {q \in Requests \ {r} : Needs(r) \intersect {RowOf(e) : e \in edits[q]} # {}}
Deadlocked(r) ==
    \E D \in SUBSET Requests : r \in D /\ \A q \in D : WaitsFor(q) \intersect D # {}

\* A statement that can run is run, and a circle is broken.
FairSpec ==
    Spec /\ \A r \in Requests : /\ WF_vars(Proceed(r))
                                /\ WF_vars(Deadlocked(r) /\ Fail(r))
-----------------------------------------------------------------------------
(* Properties.                                                             *)

\* Every variable keeps its type; only transactions hold changes, and only of rows that stand.
TypeOK ==
    /\ devices \subseteq Hashes /\ pool \subseteq Hashes
    /\ DOMAIN sessions \subseteq Sessions /\ \A s \in DOMAIN sessions : sessions[s] \in Session
    /\ DOMAIN telemetry \subseteq 1..rows /\ \A i \in DOMAIN telemetry : telemetry[i] \in Row
    /\ DOMAIN aggregates \subseteq Sessions
    /\ \A s \in DOMAIN aggregates : aggregates[s] \in 0..rows
    /\ pc \in [Requests -> Labels] /\ call \in [Requests -> Menu \union {NoCall}]
    /\ \A r \in Requests : sent[r] \subseteq 1..rows /\ counted[r] \in 0..rows
    /\ \A r \in Requests : \A e \in edits[r] :
          /\ pc[r] \notin {"idle", "hook"}
          /\ e[1] = "telemetry" => e[2] \in DOMAIN telemetry
          /\ e[1] \in {"session", "sender", "receiver"} => e[2] \in DOMAIN sessions
          /\ e[1] = "aggregate" => e[2] \in DOMAIN aggregates
          /\ e[1] = "device" => e[2] \in devices
    /\ doomed \subseteq {r \in Requests : pc[r] = "commit delete-user"}

\* An erasure that answered with success left nothing standing that the stores knew of its
\* device when it began, whatever other requests did meanwhile; only the device's place in the
\* pool may remain, and only when the hook failed.
ErasureIsThorough ==
    \A r \in Requests : pc[r] = "idle" /\ call[r].op = "erase" =>
        /\ answer[r] = "ok" => old[r] \subseteq SentBy(call[r].hash)
        /\ answer[r] = "ok, hook failed" =>
              old[r] \subseteq SentBy(call[r].hash) \union {<<"pool", call[r].hash>>}

\* Nobody loses data through somebody else's erasure: a telemetry row, a device or a party of
\* a session disappears only by an erasure of the device it names, or with its session.
OnlyItsErasureForgets ==
    [][\A h \in Hashes : \A f \in FactsOf(h) \ FactsOf(h)' :
          \/ f[1] = "pool"
          \/ \E r \in Requests : pc[r] = "commit delete-user" /\ call[r].hash = h
          \/ f[1] \in {"sender", "receiver"} /\ f[2] \notin DOMAIN sessions']_vars

\* A batch answered with 202 is in the table with all its packets, except for those that an
\* erasure of the device they name removed: no deletion of a session or of another device.
AcceptedIsStored ==
    \A ids \in accepted :
        Cardinality(ids) = BatchSize /\ ids \subseteq DOMAIN telemetry \union erased

\* Every request is answered: no transaction keeps its locks, and a circle of transactions
\* (an erasure locks sessions before aggregates, DeleteSession the other way round) is the
\* only one that another request has to be refused for.
RequestsReturn == \A r \in Requests : pc[r] # "idle" ~> pc[r] = "idle"

\* "DeleteUser hard-deletes every row belonging to a device" (postgres.go:321): after a
\* successful erasure no row remains that the device had sent before it.
ErasureIsComplete ==
    \A r \in Requests : pc[r] = "idle" /\ call[r].op = "erase" /\ answer[r] = "ok" =>
        old[r] = {}
=============================================================================
