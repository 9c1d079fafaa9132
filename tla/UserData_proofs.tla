-------------------------- MODULE UserData_proofs --------------------------
(***************************************************************************)
(* Proofs about UserData, for any number of requests, devices, sessions    *)
(* and calls, and batches of any size.                                     *)
(*                                                                         *)
(* The argument is about what a transaction holds: its changes are to rows *)
(* that stand, that nobody else has changed, and that belong to the device *)
(* it erases or to the session it deletes.                                 *)
(***************************************************************************)
EXTENDS UserData, Integers, FiniteSetTheorems, TLAPS

Creating == {"UpsertDevice", "InsertSession"}
Closing == {"UpdateSessionStatus", "GetTelemetryAggregate", "ComputeTelemetryAggregate",
            "UpsertTelemetryAggregate"}
Deleting == {"delete aggregate", "delete session", "commit delete-session"}
Erasing == {"delete telemetry", "null sender", "null receiver", "delete device",
            "delete aggregates", "commit delete-user"}
Answers == {"none", "ok", "error", "ok, hook failed", "ok, with a placeholder"}

\* The types of the tables and of their history.
StoreTypes ==
    /\ rows \in Nat
    /\ devices \subseteq Hashes /\ pool \subseteq Hashes
    /\ DOMAIN sessions \subseteq Sessions /\ \A s \in DOMAIN sessions : sessions[s] \in Session
    /\ DOMAIN telemetry \subseteq 1..rows /\ \A i \in DOMAIN telemetry : telemetry[i] \in Row
    /\ DOMAIN aggregates \subseteq Sessions
    /\ \A s \in DOMAIN aggregates : aggregates[s] \in 0..rows

\* The types of what each request holds.
RequestTypes ==
    /\ pc \in [Requests -> Labels] /\ call \in [Requests -> Menu \union {NoCall}]
    /\ sent \in [Requests -> SUBSET (1..rows)] /\ counted \in [Requests -> 0..rows]
    /\ answer \in [Requests -> Answers] /\ edits = [r \in Requests |-> edits[r]]
    /\ doomed \subseteq {r \in Requests : pc[r] = "commit delete-user"}

\* A request is where its call has led it.
LabelShape ==
    \A r \in Requests :
        /\ pc[r] \in Creating => call[r].op = "create"
        /\ pc[r] = "InsertTelemetry" => call[r].op = "batch"
        /\ pc[r] \in Closing => call[r].op = "close"
        /\ pc[r] \in Deleting => call[r].op = "delete"
        /\ pc[r] \in Erasing \union {"hook"} => call[r].op = "erase"

\* A change that request r may hold: of a row that stands, for the reason r is there.
EditOf(r, e) ==
    \/ /\ pc[r] \in Erasing
       /\ \/ \E i \in DOMAIN telemetry :
                e = <<"telemetry", i>> /\ telemetry[i].device = call[r].hash
          \/ \E s \in DOMAIN sessions : e = <<"sender", s>> /\ sessions[s].sender = call[r].hash
          \/ \E s \in DOMAIN sessions :
                e = <<"receiver", s>> /\ sessions[s].receiver = call[r].hash
          \/ e = <<"device", call[r].hash>> /\ call[r].hash \in devices
          \/ \E s \in DOMAIN aggregates : e = <<"aggregate", s>>
    \/ /\ pc[r] \in Deleting
       /\ \/ \E s \in DOMAIN sessions : e = <<"session", s>>
          \/ \E s \in DOMAIN aggregates : e = <<"aggregate", s>>

EditShape == \A r \in Requests : \A e \in edits[r] : EditOf(r, e)

\* No two transactions hold changes of one row.
Disjoint ==
    \A r, q \in Requests : r # q =>
        \A e \in edits[r], d \in edits[q] : RowOf(e) # RowOf(d)

\* The rows of a batch stand, or an erasure has removed them.
SentStands == \A r \in Requests : sent[r] \subseteq DOMAIN telemetry \union erased

\* A fact about device h that stands, as FactsOf and SentBy collect them.
FactIn(f, h) ==
    \/ \E i \in DOMAIN telemetry : f = <<"telemetry", i>> /\ telemetry[i].device = h
    \/ \E s \in DOMAIN sessions : f = <<"sender", s>> /\ sessions[s].sender = h
    \/ \E s \in DOMAIN sessions : f = <<"receiver", s>> /\ sessions[s].receiver = h
    \/ f = <<"device", h>> /\ h \in devices
    \/ f = <<"pool", h>> /\ h \in pool
    \/ \E i \in DOMAIN telemetry : f = <<"sent", i>> /\ telemetry[i].owner = h

\* What an erasure has done by now about a fact of the given kind.
Handled(r, f) ==
    /\ pc[r] \in Erasing \ {"delete telemetry"} /\ f[1] = "telemetry" => f \in edits[r]
    /\ pc[r] \in Erasing \ {"delete telemetry", "null sender"} /\ f[1] = "sender"
          => f \in edits[r]
    /\ pc[r] \in {"delete device", "delete aggregates", "commit delete-user"}
       /\ f[1] = "receiver" => f \in edits[r]
    /\ pc[r] \in {"delete aggregates", "commit delete-user"} /\ f[1] = "device"
          => f \in edits[r]
    /\ pc[r] = "hook" => f[1] \in {"sent", "pool"}
    /\ pc[r] = "idle" /\ answer[r] = "ok" => f[1] = "sent"
    /\ pc[r] = "idle" /\ answer[r] = "ok, hook failed" => f[1] \in {"sent", "pool"}

\* An erasure deals with the facts it found, statement by statement.
OldShape ==
    \A r \in Requests : call[r].op = "erase" => \A f \in old[r] :
        FactIn(f, call[r].hash) /\ Handled(r, f)

DataInv ==
    /\ StoreTypes /\ RequestTypes /\ LabelShape /\ EditShape /\ Disjoint
    /\ SentStands /\ AcceptedIsStored /\ OldShape
-----------------------------------------------------------------------------
\* What is asked for.

\* The fields of a call, by its kind.
LEMMA CallFields ==
    ASSUME NEW c \in Menu
    PROVE  /\ c.op \in {"create", "batch", "close", "delete", "erase"}
           /\ c.op = "create" => /\ c.session \in Sessions /\ c.sender \in Hashes
                                 /\ c.receiver \in Hashes \union {NoHash}
           /\ c.op = "batch" => c.session \in Sessions /\ c.owner \in Hashes
           /\ c.op \in {"close", "delete"} => c.session \in Sessions
           /\ c.op = "erase" => c.hash \in Hashes
<1>1. c \in Call  BY UserDataAssumption
<1>2. QED  BY <1>1 DEF Call

\* The same of a request at work.
LEMMA CallOf ==
    ASSUME RequestTypes, LabelShape, NEW r \in Requests, pc[r] # "idle"
    PROVE  /\ call[r] \in Menu
           /\ pc[r] \in Creating => /\ call[r].session \in Sessions /\ call[r].sender \in Hashes
                                    /\ call[r].receiver \in Hashes \union {NoHash}
           /\ pc[r] = "InsertTelemetry" => call[r].session \in Sessions /\ call[r].owner \in Hashes
           /\ pc[r] \in Closing \union Deleting => call[r].session \in Sessions
           /\ pc[r] \in Erasing \union {"hook"} => call[r].hash \in Hashes
<1>1. call[r] \in Menu \union {NoCall} /\ pc[r] \in Labels  BY DEF RequestTypes
<1>2. pc[r] \in Creating \union {"InsertTelemetry"} \union Closing \union Deleting
                \union Erasing \union {"hook"}
    BY <1>1 DEF Labels, Creating, Closing, Deleting, Erasing
<1>3. call[r].op \in {"create", "batch", "close", "delete", "erase"}
    BY <1>2 DEF LabelShape
<1>4. call[r] \in Menu  BY <1>1, <1>3 DEF NoCall
<1>5. QED  BY <1>4, CallFields DEF LabelShape

\* NULL is no hash.
LEMMA NoHashIsNone == NoHash \notin Hashes /\ Synthetic \notin Hashes \union {NoHash}
BY UserDataAssumption
-----------------------------------------------------------------------------
\* What requests do.

\* The other requests stay where they are.
OthersStay(r) ==
    \A q \in Requests \ {r} :
        /\ pc'[q] = pc[q] /\ call'[q] = call[q] /\ edits'[q] = edits[q] /\ sent'[q] = sent[q]
        /\ answer'[q] = answer[q]

Acts(r) == Begin(r) \/ Proceed(r) \/ Fail(r) \/ CommitReplyLost(r)

\* An answer ends a request and its transaction.
LEMMA AnswerEnds ==
    ASSUME RequestTypes, NEW r \in Requests, NEW a \in Answers, Answer(r, a)
    PROVE  /\ pc' = [pc EXCEPT ![r] = "idle"] /\ pc'[r] = "idle" /\ answer'[r] = a
           /\ edits'[r] = {} /\ sent'[r] = {}
           /\ pc' \in [Requests -> Labels] /\ answer' \in [Requests -> Answers]
           /\ edits' = [q \in Requests |-> edits'[q]]
           /\ doomed' \subseteq {q \in Requests : pc'[q] = "commit delete-user"}
           /\ \A q \in Requests \ {r} :
                 /\ pc'[q] = pc[q] /\ edits'[q] = edits[q] /\ sent'[q] = sent[q]
                 /\ answer'[q] = answer[q]
<1>1. "idle" \in Labels  BY DEF Labels
<1>2. /\ pc' = [pc EXCEPT ![r] = "idle"] /\ answer' = [answer EXCEPT ![r] = a]
      /\ sent' = [sent EXCEPT ![r] = {}] /\ edits' = [edits EXCEPT ![r] = {}]
      /\ doomed' = doomed \ {r}
    BY DEF Answer, Goto
<1>3. QED  BY <1>1, <1>2 DEF RequestTypes

\* Nobody moves but the request that acts.
LEMMA OneActs ==
    ASSUME RequestTypes, NEW r \in Requests, Acts(r)
    PROVE  OthersStay(r)
<1>1. CASE Begin(r)  BY <1>1 DEF Begin, Goto, OthersStay, RequestTypes
<1>2. ASSUME NEW a, Answer(r, a), call' = call
      PROVE  OthersStay(r)
    BY <1>2 DEF Answer, Goto, OthersStay, RequestTypes
<1>3. ASSUME NEW l, Goto(r, l), UNCHANGED <<call, answer>>,
             sent' = sent \/ sent' = [sent EXCEPT ![r] = sent'[r]],
             edits' = edits \/ edits' = [edits EXCEPT ![r] = edits'[r]]
      PROVE  OthersStay(r)
    BY <1>3 DEF Goto, OthersStay, RequestTypes
<1>4. CASE UpsertDevice(r) \/ UpdateSessionStatus(r) \/ ComputeTelemetryAggregate(r)
    BY <1>3, <1>4 DEF UpsertDevice, UpdateSessionStatus, ComputeTelemetryAggregate
<1>5. CASE InsertSession(r) \/ UpsertTelemetryAggregate(r) \/ DeleteUserHook(r)
    BY <1>2, <1>5 DEF InsertSession, UpsertTelemetryAggregate, DeleteUserHook
<1>6. CASE InsertTelemetry(r)
    <2>1. CASE Answer(r, "ok")  BY <1>2, <1>6, <2>1 DEF InsertTelemetry
    <2>2. CASE UNCHANGED <<pc, answer, edits>> /\ \E ids : sent' = [sent EXCEPT ![r] = ids]
        BY <1>6, <2>2 DEF InsertTelemetry, OthersStay, RequestTypes
    <2>3. QED  BY <1>6, <2>1, <2>2 DEF InsertTelemetry
<1>7. CASE GetTelemetryAggregate(r)
    BY <1>2, <1>3, <1>7 DEF GetTelemetryAggregate
<1>8. ASSUME NEW l, NEW changes, NEW n, Statement(r, l, changes, n)
      PROVE  OthersStay(r)
    BY <1>8 DEF Statement, Goto, OthersStay, RequestTypes
<1>9. CASE DeleteSession(r)
    BY <1>2, <1>8, <1>9 DEF DeleteSession, DeleteAggregate
<1>10. CASE DeleteUser(r)  BY <1>8, <1>10 DEF DeleteUser, NullReceiver
<1>11. CASE CommitDeleteUser(r)
    <2>1. CASE Answer(r, "error")  BY <1>2, <1>11, <2>1 DEF CommitDeleteUser
    <2>2. CASE Goto(r, "hook") /\ edits' = [edits EXCEPT ![r] = {}] /\ UNCHANGED <<sent, answer>>
        BY <1>11, <2>2 DEF CommitDeleteUser, Goto, OthersStay, RequestTypes
    <2>3. QED  BY <1>11, <2>1, <2>2 DEF CommitDeleteUser
<1>12. CASE FailSoftly(r)
    BY <1>12 DEF FailSoftly, Goto, OthersStay, RequestTypes
<1>13. CASE FailSilently(r) \/ FailHard(r) \/ CommitReplyLost(r)
    BY <1>2, <1>13 DEF FailSilently, FailHard, CommitReplyLost
<1>14. QED
    BY <1>1, <1>4, <1>5, <1>6, <1>7, <1>9, <1>10, <1>11, <1>12, <1>13
       DEF Acts, Proceed, Fail
-----------------------------------------------------------------------------
\* What becomes of the tables.

\* What a commit makes of the tables: the rows it deletes are gone, the columns NULL.
LEMMA ApplyFacts ==
    ASSUME StoreTypes, NEW r \in Requests, Apply(r)
    PROVE  /\ DOMAIN telemetry' = {i \in DOMAIN telemetry : <<"telemetry", i>> \notin edits[r]}
           /\ \A i \in DOMAIN telemetry' : telemetry'[i] = telemetry[i]
           /\ DOMAIN aggregates' = {s \in DOMAIN aggregates : <<"aggregate", s>> \notin edits[r]}
           /\ \A s \in DOMAIN aggregates' : aggregates'[s] = aggregates[s]
           /\ DOMAIN sessions' = {s \in DOMAIN sessions : <<"session", s>> \notin edits[r]}
           /\ \A s \in DOMAIN sessions' :
                 /\ sessions'[s].sender =
                       IF <<"sender", s>> \in edits[r] THEN NoHash ELSE sessions[s].sender
                 /\ sessions'[s].receiver =
                       IF <<"receiver", s>> \in edits[r] THEN NoHash ELSE sessions[s].receiver
                 /\ sessions'[s] \in Session
           /\ devices' = {d \in devices : <<"device", d>> \notin edits[r]}
<1>1. /\ telemetry' = [i \in {i \in DOMAIN telemetry : <<"telemetry", i>> \notin edits[r]}
                          |-> telemetry[i]]
      /\ aggregates' = [s \in {s \in DOMAIN aggregates : <<"aggregate", s>> \notin edits[r]}
                          |-> aggregates[s]]
      /\ sessions' = [s \in {s \in DOMAIN sessions : <<"session", s>> \notin edits[r]} |->
             [sessions[s] EXCEPT
                 !.sender = IF <<"sender", s>> \in edits[r] THEN NoHash ELSE sessions[s].sender,
                 !.receiver =
                     IF <<"receiver", s>> \in edits[r] THEN NoHash ELSE sessions[s].receiver]]
      /\ devices' = {d \in devices : <<"device", d>> \notin edits[r]}
    BY Zenon DEF Apply, Restrict
<1>2. ASSUME NEW s \in DOMAIN sessions, <<"session", s>> \notin edits[r]
      PROVE  /\ sessions'[s].sender =
                   IF <<"sender", s>> \in edits[r] THEN NoHash ELSE sessions[s].sender
             /\ sessions'[s].receiver =
                   IF <<"receiver", s>> \in edits[r] THEN NoHash ELSE sessions[s].receiver
             /\ sessions'[s] \in Session
    <2>1. sessions[s] \in Session  BY DEF StoreTypes
    <2>2. sessions'[s] = [sessions[s] EXCEPT
              !.sender = IF <<"sender", s>> \in edits[r] THEN NoHash ELSE sessions[s].sender,
              !.receiver =
                  IF <<"receiver", s>> \in edits[r] THEN NoHash ELSE sessions[s].receiver]
        BY <1>1, <1>2
    <2>3. QED  BY <2>1, <2>2 DEF Session
<1>3. DOMAIN sessions' = {s \in DOMAIN sessions : <<"session", s>> \notin edits[r]}
    BY <1>1
<1>4. /\ DOMAIN telemetry' = {i \in DOMAIN telemetry : <<"telemetry", i>> \notin edits[r]}
      /\ \A i \in DOMAIN telemetry' : telemetry'[i] = telemetry[i]
    BY <1>1
<1>5. /\ DOMAIN aggregates' = {s \in DOMAIN aggregates : <<"aggregate", s>> \notin edits[r]}
      /\ \A s \in DOMAIN aggregates' : aggregates'[s] = aggregates[s]
    BY <1>1
<1>6. QED  BY <1>1, <1>2, <1>3, <1>4, <1>5

\* Rows are added, and none that stands loses its place or its parties.
Grows ==
    /\ \A i \in DOMAIN telemetry : i \in DOMAIN telemetry' /\ telemetry'[i] = telemetry[i]
    /\ \A s \in DOMAIN sessions :
          /\ s \in DOMAIN sessions'
          /\ sessions'[s].sender = sessions[s].sender
          /\ sessions'[s].receiver = sessions[s].receiver
    /\ \A s \in DOMAIN aggregates : s \in DOMAIN aggregates'
    /\ devices \subseteq devices' /\ erased' = erased

\* A transaction commits.
Commits(r) ==
    /\ Apply(r) /\ pc[r] \in {"commit delete-session", "commit delete-user"}
    /\ erased' = IF call[r].op = "erase" THEN erased \union Erases(r) ELSE erased
    /\ edits'[r] = {} /\ UNCHANGED <<pool, call, rows, accepted>>

\* Whatever a request does adds rows, or is the commit of its transaction.
LEMMA TablesMove ==
    ASSUME StoreTypes, RequestTypes, LabelShape, NEW r \in Requests, Acts(r)
    PROVE  Grows \/ Commits(r)
<1>1. ASSUME UNCHANGED <<devices, sessions, telemetry, aggregates, erased>>
      PROVE  Grows
    BY <1>1 DEF Grows
<1>2. CASE Begin(r)  BY <1>1, <1>2 DEF Begin, store
<1>3. CASE UpsertDevice(r)  BY <1>3 DEF UpsertDevice, Grows
<1>4. CASE InsertSession(r)
    <2>1. CASE call[r].session \in DOMAIN sessions
        BY <1>1, <1>4, <2>1 DEF InsertSession
    <2>2. CASE call[r].session \notin DOMAIN sessions
        <3>1. PICK v : sessions' = With(sessions, call[r].session, v)
            BY <1>4, <2>2 DEF InsertSession
        <3>2. \A s \in DOMAIN sessions : s \in DOMAIN sessions' /\ sessions'[s] = sessions[s]
            BY <2>2, <3>1 DEF With
        <3>3. QED  BY <1>4, <3>2 DEF InsertSession, Grows
    <2>3. QED  BY <2>1, <2>2
<1>5. CASE InsertTelemetry(r)
    <2>1. PICK v : telemetry' = With(telemetry, rows + 1, v)
        BY <1>5 DEF InsertTelemetry
    <2>2. rows + 1 \notin DOMAIN telemetry  BY DEF StoreTypes
    <2>3. \A i \in DOMAIN telemetry : i \in DOMAIN telemetry' /\ telemetry'[i] = telemetry[i]
        BY <2>1, <2>2 DEF With
    <2>4. QED  BY <1>5, <2>3 DEF InsertTelemetry, Grows
<1>6. CASE UpdateSessionStatus(r)
    <2>1. sessions' = [t \in DOMAIN sessions |->
                IF t = call[r].session THEN [sessions[t] EXCEPT !.status = "completed"]
                ELSE sessions[t]]
        BY <1>6 DEF UpdateSessionStatus
    <2>2. \A s \in DOMAIN sessions :
              /\ s \in DOMAIN sessions' /\ sessions'[s].sender = sessions[s].sender
              /\ sessions'[s].receiver = sessions[s].receiver
        BY <2>1 DEF StoreTypes, Session
    <2>3. QED  BY <1>6, <2>2 DEF UpdateSessionStatus, Grows
<1>7. CASE GetTelemetryAggregate(r) \/ ComputeTelemetryAggregate(r)
    BY <1>1, <1>7 DEF GetTelemetryAggregate, ComputeTelemetryAggregate, store
<1>8. CASE UpsertTelemetryAggregate(r)
    <2>1. DOMAIN aggregates \subseteq DOMAIN aggregates'
        BY <1>8 DEF UpsertTelemetryAggregate, With
    <2>2. QED  BY <1>8, <2>1 DEF UpsertTelemetryAggregate, Grows
<1>9. ASSUME NEW l, NEW changes, NEW n, Statement(r, l, changes, n)
      PROVE  Grows
    BY <1>1, <1>9 DEF Statement, store
<1>10. ASSUME NEW a, Answer(r, a)
       PROVE  edits'[r] = {}
    BY <1>10 DEF Answer, RequestTypes
<1>11. CASE DeleteSession(r)
    <2>1. CASE DeleteAggregate(r)  BY <1>9, <2>1 DEF DeleteAggregate
    <2>2. CASE Statement(r, "delete session", {<<"session", call[r].session>>},
                         "commit delete-session")
        BY <1>9, <2>2
    <2>3. CASE UNCHANGED <<store, erased>>  BY <1>1, <2>3 DEF store
    <2>4. CASE /\ pc[r] = "commit delete-session" /\ Apply(r) /\ Answer(r, "ok")
               /\ UNCHANGED <<pool, call, rows, calls, accepted, erased>>
        <3>1. call[r].op = "delete"  BY <2>4 DEF LabelShape, Deleting
        <3>2. QED  BY <1>10, <2>4, <3>1 DEF Commits
    <2>5. QED  BY <1>11, <2>1, <2>2, <2>3, <2>4 DEF DeleteSession
<1>12. CASE DeleteUser(r)  BY <1>9, <1>12 DEF DeleteUser, NullReceiver
<1>13. CASE CommitDeleteUser(r)
    <2>1. CASE r \in doomed  BY <1>1, <1>13, <2>1 DEF CommitDeleteUser
    <2>2. CASE r \notin doomed
        <3>1. call[r].op = "erase"
            BY <1>13 DEF CommitDeleteUser, LabelShape, Erasing
        <3>2. edits'[r] = {}  BY <1>13, <2>2 DEF CommitDeleteUser, RequestTypes
        <3>3. QED  BY <1>13, <2>2, <3>1, <3>2 DEF CommitDeleteUser, Commits
    <2>3. QED  BY <2>1, <2>2
<1>14. CASE DeleteUserHook(r)  BY <1>1, <1>14 DEF DeleteUserHook
<1>15. CASE Fail(r)
    BY <1>1, <1>15 DEF Fail, FailSoftly, FailSilently, FailHard, store
<1>16. CASE CommitReplyLost(r)
    BY <1>10, <1>16 DEF CommitReplyLost, Commits
<1>17. QED
    BY <1>2, <1>3, <1>4, <1>5, <1>6, <1>7, <1>8, <1>11, <1>12, <1>13, <1>14, <1>15, <1>16
       DEF Acts, Proceed
-----------------------------------------------------------------------------
\* The types are kept.

\* Rows are counted upwards, one at a time, and ids and counts stay in range.
LEMMA RowsGrow ==
    ASSUME rows \in Nat, rows' \in {rows, rows + 1}
    PROVE  rows' \in Nat /\ 1..rows \subseteq 1..(rows') /\ 0..rows \subseteq 0..(rows')
OBVIOUS

\* A count of telemetry rows is within the number of rows.
LEMMA CountInRange ==
    ASSUME StoreTypes, NEW S, S \subseteq DOMAIN telemetry
    PROVE  Cardinality(S) \in 0..rows
<1>1. rows \in Nat /\ S \subseteq 1..rows  BY DEF StoreTypes
<1>2. IsFiniteSet(1..rows) /\ Cardinality(1..rows) = rows
    BY <1>1, FS_Interval
<1>3. IsFiniteSet(S) /\ Cardinality(S) <= rows
    BY <1>1, <1>2, FS_Subset
<1>4. QED  BY <1>1, <1>3, FS_CardinalityType

\* The types of the tables survive whatever a request does.
LEMMA StoreTypesStep ==
    ASSUME StoreTypes, RequestTypes, LabelShape, NEW r \in Requests, Acts(r)
    PROVE  StoreTypes' /\ rows' \in {rows, rows + 1}
<1>1. ASSUME UNCHANGED <<store, rows>>
      PROVE  StoreTypes'
    BY <1>1 DEF store, StoreTypes
<1>2. CASE Begin(r)  BY <1>1, <1>2 DEF Begin
<1>3. CASE UpsertDevice(r)
    <2>1. call[r].sender \in Hashes
        BY <1>3, CallOf DEF UpsertDevice, At, Labels, Creating
    <2>2. QED  BY <1>3, <2>1 DEF UpsertDevice, StoreTypes
<1>4. CASE InsertSession(r)
    <2>1. /\ call[r].session \in Sessions /\ call[r].sender \in Hashes
          /\ call[r].receiver \in Hashes \union {NoHash}
        BY <1>4, CallOf DEF InsertSession, At, Labels, Creating
    <2>2. CASE call[r].session \in DOMAIN sessions
        BY <1>1, <1>4, <2>2 DEF InsertSession, store
    <2>3. CASE call[r].session \notin DOMAIN sessions
        <3>1. sessions' = With(sessions, call[r].session,
                  [sender |-> call[r].sender, receiver |-> call[r].receiver,
                   status |-> "pending"])
            BY <1>4, <2>3 DEF InsertSession
        <3>2. [sender |-> call[r].sender, receiver |-> call[r].receiver, status |-> "pending"]
                  \in Session
            BY <2>1 DEF Session
        <3>3. /\ DOMAIN sessions' \subseteq Sessions
              /\ \A s \in DOMAIN sessions' : sessions'[s] \in Session
            BY <2>1, <3>1, <3>2 DEF With, StoreTypes
        <3>4. QED  BY <1>4, <3>3 DEF InsertSession, StoreTypes
    <2>4. QED  BY <1>4, <2>2, <2>3 DEF InsertSession
<1>5. CASE InsertTelemetry(r)
    <2>1. call[r].session \in Sessions /\ call[r].owner \in Hashes
        BY <1>5, CallOf DEF InsertTelemetry, At, Labels
    <2>2. PICK v \in Row : telemetry' = With(telemetry, rows + 1, v)
        BY <1>5, <2>1 DEF InsertTelemetry, Row
    <2>3. rows' = rows + 1 /\ UNCHANGED <<devices, sessions, aggregates, pool>>
        BY <1>5 DEF InsertTelemetry
    <2>4. rows' \in Nat /\ 1..rows \subseteq 1..(rows') /\ 0..rows \subseteq 0..(rows')
          /\ rows + 1 \in 1..(rows')
        BY <2>3 DEF StoreTypes
    <2>5. /\ DOMAIN telemetry' \subseteq 1..(rows')
          /\ \A i \in DOMAIN telemetry' : telemetry'[i] \in Row
        BY <2>2, <2>4 DEF With, StoreTypes
    <2>6. \A s \in DOMAIN aggregates : aggregates[s] \in 0..(rows')
        BY <2>4 DEF StoreTypes
    <2>7. QED  BY <2>3, <2>4, <2>5, <2>6 DEF StoreTypes
<1>6. CASE UpdateSessionStatus(r)
    <2>1. sessions' = [t \in DOMAIN sessions |->
                IF t = call[r].session THEN [sessions[t] EXCEPT !.status = "completed"]
                ELSE sessions[t]]
        BY <1>6 DEF UpdateSessionStatus
    <2>2. /\ DOMAIN sessions' = DOMAIN sessions
          /\ \A s \in DOMAIN sessions' : sessions'[s] \in Session
        BY <2>1 DEF StoreTypes, Session
    <2>3. QED  BY <1>6, <2>2 DEF UpdateSessionStatus, StoreTypes
<1>7. CASE GetTelemetryAggregate(r) \/ ComputeTelemetryAggregate(r)
    BY <1>1, <1>7 DEF GetTelemetryAggregate, ComputeTelemetryAggregate
<1>8. CASE UpsertTelemetryAggregate(r)
    <2>1. call[r].session \in Sessions
        BY <1>8, CallOf DEF UpsertTelemetryAggregate, At, Labels, Closing
    <2>2. counted[r] \in 0..rows  BY DEF RequestTypes
    <2>3. aggregates' = With(aggregates, call[r].session, counted[r])
        BY <1>8 DEF UpsertTelemetryAggregate
    <2>4. /\ DOMAIN aggregates' \subseteq Sessions
          /\ \A s \in DOMAIN aggregates' : aggregates'[s] \in 0..rows
        BY <2>1, <2>2, <2>3 DEF With, StoreTypes
    <2>5. QED  BY <1>8, <2>4 DEF UpsertTelemetryAggregate, StoreTypes
<1>9. ASSUME NEW l, NEW changes, NEW n, Statement(r, l, changes, n)
      PROVE  StoreTypes' /\ rows' = rows
    BY <1>1, <1>9 DEF Statement
<1>10. ASSUME Apply(r), UNCHANGED <<pool, rows>>
       PROVE  StoreTypes'
    BY <1>10, ApplyFacts DEF StoreTypes
<1>11. CASE DeleteSession(r)
    BY <1>1, <1>9, <1>10, <1>11 DEF DeleteSession, DeleteAggregate
<1>12. CASE DeleteUser(r)  BY <1>9, <1>12 DEF DeleteUser, NullReceiver
<1>13. CASE CommitDeleteUser(r)
    BY <1>1, <1>10, <1>13 DEF CommitDeleteUser, store
<1>14. CASE DeleteUserHook(r)
    BY <1>14 DEF DeleteUserHook, StoreTypes
<1>15. CASE Fail(r)
    BY <1>1, <1>15 DEF Fail, FailSoftly, FailSilently, FailHard
<1>16. CASE CommitReplyLost(r)
    BY <1>10, <1>16 DEF CommitReplyLost
<1>17. StoreTypes'
    BY <1>2, <1>3, <1>4, <1>5, <1>6, <1>7, <1>8, <1>9, <1>11, <1>12, <1>13, <1>14, <1>15, <1>16
       DEF Acts, Proceed
<1>18. rows' \in {rows, rows + 1}
    <2>1. CASE DeleteUser(r)  BY <1>9, <2>1 DEF DeleteUser, NullReceiver
    <2>2. CASE DeleteSession(r)  BY <1>9, <2>2 DEF DeleteSession, DeleteAggregate
    <2>3. CASE Fail(r)  BY <2>3 DEF Fail, FailSoftly, FailSilently, FailHard
    <2>4. QED
        BY <2>1, <2>2, <2>3
           DEF Acts, Proceed, Begin, UpsertDevice, InsertSession, InsertTelemetry,
               UpdateSessionStatus, GetTelemetryAggregate, ComputeTelemetryAggregate,
               UpsertTelemetryAggregate, CommitDeleteUser, DeleteUserHook, CommitReplyLost
<1>19. QED  BY <1>17, <1>18

\* So do the types of what the requests hold.
LEMMA RequestTypesStep ==
    ASSUME StoreTypes, RequestTypes, LabelShape, NEW r \in Requests, Acts(r)
    PROVE  RequestTypes'
<1>1. rows \in Nat /\ 1..rows \subseteq 1..(rows') /\ 0..rows \subseteq 0..(rows')
    BY StoreTypesStep, RowsGrow DEF StoreTypes
<1>2. /\ sent \in [Requests -> SUBSET (1..(rows'))] /\ counted \in [Requests -> 0..(rows')]
      /\ 0 \in 0..(rows') /\ {} \in SUBSET (1..(rows'))
    <2>1. sent \in [Requests -> SUBSET (1..rows)] /\ counted \in [Requests -> 0..rows]
        BY DEF RequestTypes
    <2>2. SUBSET (1..rows) \subseteq SUBSET (1..(rows'))  BY <1>1
    <2>3. 0 \in 0..rows  BY <1>1
    <2>4. QED  BY <1>1, <2>1, <2>2, <2>3
<1>3. ASSUME NEW a \in Answers, Answer(r, a), call' = call
      PROVE  RequestTypes'
    <2>1. /\ pc' \in [Requests -> Labels] /\ answer' \in [Requests -> Answers]
          /\ edits' = [q \in Requests |-> edits'[q]]
          /\ doomed' \subseteq {q \in Requests : pc'[q] = "commit delete-user"}
        BY <1>3, AnswerEnds
    <2>2. sent' = [sent EXCEPT ![r] = {}] /\ counted' = [counted EXCEPT ![r] = 0]
        BY <1>3 DEF Answer
    <2>3. sent' \in [Requests -> SUBSET (1..(rows'))] /\ counted' \in [Requests -> 0..(rows')]
        BY <1>2, <2>2
    <2>4. call' \in [Requests -> Menu \union {NoCall}]  BY <1>3 DEF RequestTypes
    <2>5. QED  BY <2>1, <2>3, <2>4 DEF RequestTypes
<1>4. ASSUME NEW l \in Labels, Goto(r, l), UNCHANGED <<answer, sent>>,
             counted' \in [Requests -> 0..(rows')], call' \in [Requests -> Menu \union {NoCall}],
             edits' = edits \/ edits' = [edits EXCEPT ![r] = edits'[r]],
             \/ doomed' = doomed /\ r \notin doomed
             \/ doomed' = doomed \union {r} /\ l = "commit delete-user"
      PROVE  RequestTypes'
    <2>1. pc' = [pc EXCEPT ![r] = l]  BY <1>4 DEF Goto
    <2>2. /\ pc' \in [Requests -> Labels] /\ pc'[r] = l
          /\ \A q \in Requests \ {r} : pc'[q] = pc[q]
        BY <2>1 DEF RequestTypes
    <2>3. doomed' \subseteq {q \in Requests : pc'[q] = "commit delete-user"}
        <3>1. \A q \in doomed : q \in Requests /\ pc[q] = "commit delete-user"
            BY DEF RequestTypes
        <3>2. \A q \in doomed' : (q = r /\ l = "commit delete-user") \/ q \in doomed
            BY <1>4
        <3>3. l = "commit delete-user" \/ r \notin doomed
            BY <1>4
        <3>4. QED  BY <2>2, <3>1, <3>2, <3>3
    <2>4. edits' = [q \in Requests |-> edits'[q]]
        BY <1>4 DEF RequestTypes
    <2>5. answer' \in [Requests -> Answers]  BY <1>4 DEF RequestTypes
    <2>6. sent' \in [Requests -> SUBSET (1..(rows'))]  BY <1>2, <1>4
    <2>7. QED  BY <1>4, <2>2, <2>3, <2>4, <2>5, <2>6 DEF RequestTypes
<1>5. {"ok", "error", "ok, hook failed", "ok, with a placeholder"} \subseteq Answers
    BY DEF Answers
<1>6. pc[r] # "commit delete-user" => r \notin doomed  BY DEF RequestTypes
<1>7. call' = call => call' \in [Requests -> Menu \union {NoCall}]  BY DEF RequestTypes
<1>8. counted' = counted => counted' \in [Requests -> 0..(rows')]  BY <1>2
<1>9. CASE Begin(r)
    <2>1. PICK c \in Menu :
              /\ call' = [call EXCEPT ![r] = c]
              /\ Goto(r, CASE c.op = "create" /\ c.key -> "UpsertDevice"
                           [] c.op = "create" /\ ~c.key -> "InsertSession"
                           [] c.op = "batch" -> "InsertTelemetry"
                           [] c.op = "close" -> "UpdateSessionStatus"
                           [] c.op = "delete" -> "delete aggregate"
                           [] c.op = "erase" -> "delete telemetry")
        BY <1>9 DEF Begin
    <2>2. c.op \in {"create", "batch", "close", "delete", "erase"}
        BY CallFields
    <2>3. c.op = "create" => c.key \in BOOLEAN
        BY UserDataAssumption DEF Call
    <2>4. PICK l \in Labels : Goto(r, l)
        BY <2>1, <2>2, <2>3 DEF Labels
    <2>5. call' \in [Requests -> Menu \union {NoCall}]  BY <2>1 DEF RequestTypes
    <2>6. pc' = [pc EXCEPT ![r] = l]  BY <2>4 DEF Goto
    <2>7. pc[r] = "idle"  BY <1>9 DEF Begin
    <2>8. answer' = [answer EXCEPT ![r] = "none"] /\ UNCHANGED <<sent, counted, edits, doomed>>
        BY <1>9 DEF Begin
    <2>9. answer' \in [Requests -> Answers]  BY <2>8 DEF RequestTypes, Answers
    <2>10. pc' \in [Requests -> Labels] /\ \A q \in Requests \ {r} : pc'[q] = pc[q]
        BY <2>6 DEF RequestTypes
    <2>11. doomed' \subseteq {q \in Requests : pc'[q] = "commit delete-user"}
        BY <1>6, <2>7, <2>8, <2>10 DEF RequestTypes
    <2>12. QED  BY <1>2, <2>5, <2>8, <2>9, <2>10, <2>11 DEF RequestTypes
<1>10. CASE UpsertDevice(r)
    BY <1>4, <1>6, <1>7, <1>8, <1>10 DEF UpsertDevice, At, Labels
<1>11. CASE InsertSession(r) \/ UpsertTelemetryAggregate(r) \/ DeleteUserHook(r)
    BY <1>3, <1>5, <1>11 DEF InsertSession, UpsertTelemetryAggregate, DeleteUserHook
<1>12. CASE InsertTelemetry(r)
    <2>1. CASE Answer(r, "ok")  BY <1>3, <1>5, <1>12, <2>1 DEF InsertTelemetry
    <2>2. CASE /\ sent' = [sent EXCEPT ![r] = sent[r] \union {rows + 1}]
               /\ UNCHANGED <<pc, counted, answer, edits, doomed>>
        <3>1. rows' = rows + 1 /\ call' = call  BY <1>12 DEF InsertTelemetry
        <3>2. rows + 1 \in 1..(rows')  BY <1>1, <3>1
        <3>3. sent' \in [Requests -> SUBSET (1..(rows'))]
            BY <1>2, <2>2, <3>2
        <3>4. QED  BY <1>2, <2>2, <3>1, <3>3 DEF RequestTypes
    <2>3. QED  BY <1>12, <2>1, <2>2 DEF InsertTelemetry
<1>13. CASE UpdateSessionStatus(r)
    BY <1>4, <1>6, <1>7, <1>8, <1>13 DEF UpdateSessionStatus, At, Labels
<1>14. CASE GetTelemetryAggregate(r)
    BY <1>3, <1>4, <1>5, <1>6, <1>7, <1>8, <1>14 DEF GetTelemetryAggregate, At, Labels
<1>15. CASE ComputeTelemetryAggregate(r)
    <2>1. counted' = [counted EXCEPT ![r] = Cardinality(
              {i \in DOMAIN telemetry : telemetry[i].session = call[r].session})]
        BY <1>15 DEF ComputeTelemetryAggregate
    <2>2. Cardinality({i \in DOMAIN telemetry : telemetry[i].session = call[r].session})
              \in 0..(rows')
        BY <1>1, CountInRange
    <2>3. counted' \in [Requests -> 0..(rows')]  BY <1>2, <2>1, <2>2
    <2>4. QED  BY <1>4, <1>6, <1>7, <1>15, <2>3 DEF ComputeTelemetryAggregate, At, Labels
<1>16. ASSUME NEW l, NEW changes, NEW n \in Labels, Statement(r, l, changes, n),
              l # "commit delete-user"
       PROVE  RequestTypes'
    <2>1. edits' = [edits EXCEPT ![r] = edits'[r]]  BY <1>16 DEF Statement, RequestTypes
    <2>2. QED  BY <1>4, <1>6, <1>7, <1>8, <1>16, <2>1 DEF Statement, At
<1>17. CASE DeleteSession(r)
    <2>1. CASE DeleteAggregate(r)  BY <1>16, <2>1 DEF DeleteAggregate, Labels
    <2>2. CASE Statement(r, "delete session", {<<"session", call[r].session>>},
                         "commit delete-session")
        BY <1>16, <2>2 DEF Labels
    <2>3. CASE Answer(r, "ok") /\ call' = call  BY <1>3, <1>5, <2>3
    <2>4. QED  BY <1>17, <2>1, <2>2, <2>3 DEF DeleteSession
<1>18. CASE DeleteUser(r)
    <2>1. {"null sender", "null receiver", "delete device", "delete aggregates",
           "commit delete-user"} \subseteq Labels
        BY DEF Labels
    <2>2. QED  BY <1>16, <1>18, <2>1 DEF DeleteUser, NullReceiver
<1>19. CASE CommitDeleteUser(r)
    <2>1. CASE r \in doomed  BY <1>3, <1>5, <1>19, <2>1 DEF CommitDeleteUser
    <2>2. CASE r \notin doomed
        <3>1. edits' = [edits EXCEPT ![r] = edits'[r]]
            BY <1>19, <2>2 DEF CommitDeleteUser, RequestTypes
        <3>2. "hook" \in Labels  BY DEF Labels
        <3>3. QED  BY <1>4, <1>7, <1>8, <1>19, <2>2, <3>1, <3>2 DEF CommitDeleteUser
    <2>3. QED  BY <2>1, <2>2
<1>20. CASE FailSoftly(r)
    <2>1. {"InsertSession", "GetTelemetryAggregate", "commit delete-user"} \subseteq Labels
        BY DEF Labels
    <2>2. QED  BY <1>4, <1>6, <1>7, <1>8, <1>20, <2>1 DEF FailSoftly
<1>21. CASE FailSilently(r) \/ FailHard(r) \/ CommitReplyLost(r)
    BY <1>3, <1>5, <1>21 DEF FailSilently, FailHard, CommitReplyLost
<1>22. QED
    BY <1>9, <1>10, <1>11, <1>12, <1>13, <1>14, <1>15, <1>17, <1>18, <1>19, <1>20, <1>21
       DEF Acts, Proceed, Fail

\* And a request stays on the path of its call.
LEMMA LabelShapeStep ==
    ASSUME StoreTypes, RequestTypes, LabelShape, NEW r \in Requests, Acts(r)
    PROVE  LabelShape'
<1> DEFINE Fits ==
        /\ pc'[r] \in Creating => call'[r].op = "create"
        /\ pc'[r] = "InsertTelemetry" => call'[r].op = "batch"
        /\ pc'[r] \in Closing => call'[r].op = "close"
        /\ pc'[r] \in Deleting => call'[r].op = "delete"
        /\ pc'[r] \in Erasing \union {"hook"} => call'[r].op = "erase"
<1>1. SUFFICES Fits
    BY OneActs DEF LabelShape, OthersStay
<1>2. ASSUME NEW a, Answer(r, a)
      PROVE  Fits
    <2>1. pc'[r] = "idle"  BY <1>2 DEF Answer, Goto, RequestTypes
    <2>2. QED  BY <2>1 DEF Creating, Closing, Deleting, Erasing
<1>3. ASSUME NEW l, Goto(r, l)
      PROVE  pc'[r] = l
    BY <1>3 DEF Goto, RequestTypes
<1>4. CASE Begin(r)
    <2>1. PICK c \in Menu :
              /\ call' = [call EXCEPT ![r] = c]
              /\ Goto(r, CASE c.op = "create" /\ c.key -> "UpsertDevice"
                           [] c.op = "create" /\ ~c.key -> "InsertSession"
                           [] c.op = "batch" -> "InsertTelemetry"
                           [] c.op = "close" -> "UpdateSessionStatus"
                           [] c.op = "delete" -> "delete aggregate"
                           [] c.op = "erase" -> "delete telemetry")
        BY <1>4 DEF Begin
    <2>2. c.op \in {"create", "batch", "close", "delete", "erase"}
        BY CallFields
    <2>3. c.op = "create" => c.key \in BOOLEAN
        BY UserDataAssumption DEF Call
    <2>4. call'[r] = c  BY <2>1 DEF RequestTypes
    <2>5. \/ c.op = "create" /\ pc'[r] \in {"UpsertDevice", "InsertSession"}
          \/ c.op = "batch" /\ pc'[r] = "InsertTelemetry"
          \/ c.op = "close" /\ pc'[r] = "UpdateSessionStatus"
          \/ c.op = "delete" /\ pc'[r] = "delete aggregate"
          \/ c.op = "erase" /\ pc'[r] = "delete telemetry"
        BY <1>3, <2>1, <2>2, <2>3
    <2>6. QED  BY <2>4, <2>5 DEF Creating, Closing, Deleting, Erasing
<1>5. ASSUME call' = call, NEW S \in {Creating, {"InsertTelemetry"}, Closing, Deleting,
                                      Erasing \union {"hook"}},
             pc[r] \in S, pc'[r] \in S
      PROVE  Fits
    BY <1>5 DEF LabelShape, Creating, Closing, Deleting, Erasing
<1>6. CASE UpsertDevice(r)
    BY <1>3, <1>5, <1>6 DEF UpsertDevice, At, Creating
<1>7. CASE InsertSession(r) \/ UpsertTelemetryAggregate(r) \/ DeleteUserHook(r)
    BY <1>2, <1>7 DEF InsertSession, UpsertTelemetryAggregate, DeleteUserHook
<1>8. CASE InsertTelemetry(r)
    BY <1>2, <1>5, <1>8 DEF InsertTelemetry, At
<1>9. CASE UpdateSessionStatus(r) \/ ComputeTelemetryAggregate(r)
    BY <1>3, <1>5, <1>9 DEF UpdateSessionStatus, ComputeTelemetryAggregate, At, Closing
<1>10. CASE GetTelemetryAggregate(r)
    BY <1>2, <1>3, <1>5, <1>10 DEF GetTelemetryAggregate, At, Closing
<1>11. ASSUME NEW l, NEW changes, NEW n, Statement(r, l, changes, n)
       PROVE  pc[r] = l /\ pc'[r] = n /\ call' = call
    BY <1>3, <1>11 DEF Statement, At
<1>12. CASE DeleteSession(r)
    <2>1. CASE DeleteAggregate(r)
        BY <1>5, <1>11, <2>1 DEF DeleteAggregate, Deleting
    <2>2. CASE Statement(r, "delete session", {<<"session", call[r].session>>},
                         "commit delete-session")
        BY <1>5, <1>11, <2>2 DEF Deleting
    <2>3. CASE Answer(r, "ok")  BY <1>2, <2>3
    <2>4. QED  BY <1>12, <2>1, <2>2, <2>3 DEF DeleteSession
<1>13. CASE DeleteUser(r)
    <2>1. pc[r] \in Erasing /\ pc'[r] \in Erasing /\ call' = call
        BY <1>11, <1>13 DEF DeleteUser, NullReceiver, Erasing
    <2>2. QED  BY <1>5, <2>1
<1>14. CASE CommitDeleteUser(r)
    BY <1>2, <1>3, <1>5, <1>14 DEF CommitDeleteUser, Erasing
<1>15. CASE FailSoftly(r)
    BY <1>3, <1>5, <1>15 DEF FailSoftly, Creating, Closing, Erasing
<1>16. CASE FailSilently(r) \/ FailHard(r) \/ CommitReplyLost(r)
    BY <1>2, <1>16 DEF FailSilently, FailHard, CommitReplyLost
<1>17. QED
    BY <1>4, <1>6, <1>7, <1>8, <1>9, <1>10, <1>12, <1>13, <1>14, <1>15, <1>16
       DEF Acts, Proceed, Fail
-----------------------------------------------------------------------------
\* What transactions hold.

\* The rows that changes stand in.
LEMMA RowsOfEdits ==
    ASSUME NEW x
    PROVE  /\ RowOf(<<"telemetry", x>>) = <<"telemetry", x>>
           /\ RowOf(<<"aggregate", x>>) = <<"aggregate", x>>
           /\ RowOf(<<"device", x>>) = <<"device", x>>
           /\ RowOf(<<"session", x>>) = <<"session", x>>
           /\ RowOf(<<"sender", x>>) = <<"session", x>>
           /\ RowOf(<<"receiver", x>>) = <<"session", x>>
BY DEF RowOf

\* A statement adds to a transaction changes of rows that stand and that nobody has locked.
MayEdit(r, e) == EditOf(r, e) /\ RowOf(e) \in Needs(r)

\* What a request does to its transaction.
EditsMove(r) ==
    \/ edits'[r] = {}
    \/ /\ UNCHANGED <<store, call>>
       /\ \/ pc[r] \in Erasing /\ pc'[r] \in Erasing
          \/ pc[r] \in Deleting /\ pc'[r] \in Deleting
       /\ \A e \in edits'[r] : e \in edits[r] \/ MayEdit(r, e)
       /\ edits'[r] = edits[r] \/ Needs(r) \intersect Locked(r) = {}

\* A request without a transaction holds nothing.
LEMMA NoTransaction ==
    ASSUME EditShape, NEW r \in Requests, pc[r] \notin Erasing \union Deleting
    PROVE  edits[r] = {}
BY DEF EditShape, EditOf

\* Every step of a request is such a move.
LEMMA EditsStep ==
    ASSUME RequestTypes, LabelShape, EditShape, NEW r \in Requests, Acts(r)
    PROVE  EditsMove(r)
<1>1. ASSUME pc[r] \notin Erasing \union Deleting, edits' = edits
      PROVE  EditsMove(r)
    BY <1>1, NoTransaction DEF EditsMove
<1>2. ASSUME NEW a, Answer(r, a)
      PROVE  EditsMove(r)
    BY <1>2 DEF Answer, EditsMove, RequestTypes
<1>3. ASSUME NEW l, NEW changes, NEW n, Statement(r, l, changes, n)
      PROVE  /\ pc[r] = l /\ pc'[r] = n /\ edits'[r] = edits[r] \union changes
             /\ UNCHANGED <<store, call>> /\ Needs(r) \intersect Locked(r) = {}
    BY <1>3 DEF Statement, At, Goto, RequestTypes
<1>4. CASE Begin(r)
    BY <1>1, <1>4 DEF Begin, Erasing, Deleting
<1>5. CASE UpsertDevice(r) \/ UpdateSessionStatus(r) \/ ComputeTelemetryAggregate(r)
    BY <1>1, <1>5 DEF UpsertDevice, UpdateSessionStatus, ComputeTelemetryAggregate, At,
                      Erasing, Deleting
<1>6. CASE InsertSession(r) \/ UpsertTelemetryAggregate(r) \/ DeleteUserHook(r)
    BY <1>2, <1>6 DEF InsertSession, UpsertTelemetryAggregate, DeleteUserHook
<1>7. CASE InsertTelemetry(r)
    BY <1>1, <1>2, <1>7 DEF InsertTelemetry, At, Erasing, Deleting
<1>8. CASE GetTelemetryAggregate(r)
    BY <1>1, <1>2, <1>8 DEF GetTelemetryAggregate, At, Erasing, Deleting
<1>9. CASE DeleteSession(r)
    <2> DEFINE Its == {<<"aggregate", s>> : s \in DOMAIN aggregates \intersect {call[r].session}}
    <2>1. CASE Statement(r, "delete aggregate", Its, "delete session")
        <3>1. pc[r] = "delete aggregate"  BY <2>1 DEF Statement, At
        <3>2. \A e \in Its : MayEdit(r, e)
            BY <3>1, RowsOfEdits DEF MayEdit, EditOf, Deleting, Needs
        <3> HIDE DEF Its
        <3>3. QED  BY <1>3, <2>1, <3>2 DEF EditsMove, Deleting
    <2>2. CASE /\ Statement(r, "delete session", {<<"session", call[r].session>>},
                            "commit delete-session")
               /\ call[r].session \in DOMAIN sessions
        <3>1. pc[r] = "delete session"  BY <2>2 DEF Statement, At
        <3>2. MayEdit(r, <<"session", call[r].session>>)
            BY <2>2, <3>1, RowsOfEdits DEF MayEdit, EditOf, Deleting, Needs
        <3>3. /\ pc[r] \in Deleting /\ pc'[r] \in Deleting
              /\ edits'[r] = edits[r] \union {<<"session", call[r].session>>}
              /\ UNCHANGED <<store, call>> /\ Needs(r) \intersect Locked(r) = {}
            BY <1>3, <2>2 DEF Deleting
        <3>4. \A e \in edits'[r] : e \in edits[r] \/ MayEdit(r, e)
            BY <3>2, <3>3
        <3>5. QED  BY <3>3, <3>4 DEF EditsMove
    <2>3. CASE Answer(r, "ok")  BY <1>2, <2>3
    <2>4. QED  BY <1>9, <2>1, <2>2, <2>3 DEF DeleteSession, DeleteAggregate
<1>10. CASE DeleteUser(r)
    <2> DEFINE h == call[r].hash
               Gone ==
                  {<<"telemetry", i>> : i \in {i \in DOMAIN telemetry : telemetry[i].device = h}}
               Sender == {<<"sender", s>> : s \in {s \in DOMAIN sessions : sessions[s].sender = h}}
               Receiver ==
                  {<<"receiver", s>> : s \in {s \in DOMAIN sessions : sessions[s].receiver = h}}
               Device == {<<"device", d>> : d \in devices \intersect {h}}
               Aggregates ==
                  {<<"aggregate", s>> : s \in DOMAIN aggregates \intersect DOMAIN sessions}
    <2>1. \/ Statement(r, "delete telemetry", Gone, "null sender")
          \/ Statement(r, "null sender", Sender, "null receiver")
          \/ Statement(r, "null receiver", Receiver, "delete device")
          \/ Statement(r, "delete device", Device, "delete aggregates")
          \/ Statement(r, "delete aggregates", Aggregates, "commit delete-user")
        BY <1>10, Zenon DEF DeleteUser, NullReceiver
    <2>2. CASE Statement(r, "delete telemetry", Gone, "null sender")
        <3>1. pc[r] = "delete telemetry"  BY <2>2 DEF Statement, At
        <3>2. \A e \in Gone : MayEdit(r, e)
            BY <3>1, RowsOfEdits DEF MayEdit, EditOf, Erasing, Needs
        <3> HIDE DEF Gone
        <3>3. QED  BY <1>3, <2>2, <3>2 DEF EditsMove, Erasing
    <2>3. CASE Statement(r, "null sender", Sender, "null receiver")
        <3>1. pc[r] = "null sender"  BY <2>3 DEF Statement, At
        <3>2. \A e \in Sender : MayEdit(r, e)
            BY <3>1, RowsOfEdits DEF MayEdit, EditOf, Erasing, Needs
        <3> HIDE DEF Sender
        <3>3. QED  BY <1>3, <2>3, <3>2 DEF EditsMove, Erasing
    <2>4. CASE Statement(r, "null receiver", Receiver, "delete device")
        <3>1. pc[r] = "null receiver"  BY <2>4 DEF Statement, At
        <3>2. \A e \in Receiver : MayEdit(r, e)
            BY <3>1, RowsOfEdits DEF MayEdit, EditOf, Erasing, Needs
        <3> HIDE DEF Receiver
        <3>3. QED  BY <1>3, <2>4, <3>2 DEF EditsMove, Erasing
    <2>5. CASE Statement(r, "delete device", Device, "delete aggregates")
        <3>1. pc[r] = "delete device"  BY <2>5 DEF Statement, At
        <3>2. \A e \in Device : MayEdit(r, e)
            BY <3>1, RowsOfEdits DEF MayEdit, EditOf, Erasing, Needs
        <3> HIDE DEF Device
        <3>3. QED  BY <1>3, <2>5, <3>2 DEF EditsMove, Erasing
    <2>6. CASE Statement(r, "delete aggregates", Aggregates, "commit delete-user")
        <3>1. pc[r] = "delete aggregates"  BY <2>6 DEF Statement, At
        <3>2. \A e \in Aggregates : MayEdit(r, e)
            BY <3>1, RowsOfEdits DEF MayEdit, EditOf, Erasing, Needs
        <3> HIDE DEF Aggregates
        <3>3. QED  BY <1>3, <2>6, <3>2 DEF EditsMove, Erasing
    <2>7. QED  BY <2>1, <2>2, <2>3, <2>4, <2>5, <2>6
<1>11. CASE CommitDeleteUser(r)
    <2>1. CASE r \in doomed  BY <1>2, <1>11, <2>1 DEF CommitDeleteUser
    <2>2. CASE r \notin doomed
        <3>1. edits'[r] = {}  BY <1>11, <2>2 DEF CommitDeleteUser, RequestTypes
        <3>2. QED  BY <3>1 DEF EditsMove
    <2>3. QED  BY <2>1, <2>2
<1>12. CASE FailSoftly(r)
    <2>1. CASE pc[r] = "delete aggregates" /\ Goto(r, "commit delete-user")
        <3>1. pc'[r] = "commit delete-user"  BY <2>1 DEF Goto, RequestTypes
        <3>2. edits'[r] = edits[r] /\ UNCHANGED <<store, call>>
            BY <1>12 DEF FailSoftly
        <3>3. QED  BY <2>1, <3>1, <3>2 DEF EditsMove, Erasing
    <2>2. CASE pc[r] \in {"UpsertDevice", "UpdateSessionStatus"}
        BY <1>1, <1>12, <2>2 DEF FailSoftly, Erasing, Deleting
    <2>3. QED  BY <1>12, <2>1, <2>2 DEF FailSoftly
<1>13. CASE FailSilently(r) \/ FailHard(r) \/ CommitReplyLost(r)
    BY <1>2, <1>13 DEF FailSilently, FailHard, CommitReplyLost
<1>14. QED
    BY <1>4, <1>5, <1>6, <1>7, <1>8, <1>9, <1>10, <1>11, <1>12, <1>13
       DEF Acts, Proceed, Fail

\* A change that a transaction holds survives another request's step.
LEMMA EditKept ==
    ASSUME StoreTypes, RequestTypes, LabelShape, Disjoint,
           NEW r \in Requests, Acts(r), NEW q \in Requests \ {r},
           NEW e \in edits[q], EditOf(q, e)
    PROVE  EditOf(q, e)'
<1>1. pc'[q] = pc[q] /\ call'[q] = call[q]
    BY OneActs DEF OthersStay
<1> DEFINE T(i) == e = <<"telemetry", i>> /\ telemetry[i].device = call[q].hash
           S(s) == e = <<"sender", s>> /\ sessions[s].sender = call[q].hash
           R(s) == e = <<"receiver", s>> /\ sessions[s].receiver = call[q].hash
           D == e = <<"device", call[q].hash>> /\ call[q].hash \in devices
           A(s) == e = <<"aggregate", s>>
           X(s) == e = <<"session", s>>
<1>2. \/ /\ pc[q] \in Erasing
         /\ \/ \E i \in DOMAIN telemetry : T(i)
            \/ \E s \in DOMAIN sessions : S(s)
            \/ \E s \in DOMAIN sessions : R(s)
            \/ D
            \/ \E s \in DOMAIN aggregates : A(s)
      \/ /\ pc[q] \in Deleting
         /\ \/ \E s \in DOMAIN sessions : X(s)
            \/ \E s \in DOMAIN aggregates : A(s)
    BY DEF EditOf
<1>3. SUFFICES
        /\ \A i \in DOMAIN telemetry : T(i) =>
              i \in DOMAIN telemetry' /\ telemetry'[i].device = telemetry[i].device
        /\ \A s \in DOMAIN sessions : S(s) =>
              s \in DOMAIN sessions' /\ sessions'[s].sender = sessions[s].sender
        /\ \A s \in DOMAIN sessions : R(s) =>
              s \in DOMAIN sessions' /\ sessions'[s].receiver = sessions[s].receiver
        /\ D => call[q].hash \in devices'
        /\ \A s \in DOMAIN aggregates : A(s) => s \in DOMAIN aggregates'
        /\ \A s \in DOMAIN sessions : X(s) => s \in DOMAIN sessions'
    <2>1. CASE \E i \in DOMAIN telemetry : pc[q] \in Erasing /\ T(i)
        BY <1>1, <1>3, <2>1 DEF EditOf
    <2>2. CASE \E s \in DOMAIN sessions : pc[q] \in Erasing /\ S(s)
        BY <1>1, <1>3, <2>2 DEF EditOf
    <2>3. CASE \E s \in DOMAIN sessions : pc[q] \in Erasing /\ R(s)
        BY <1>1, <1>3, <2>3 DEF EditOf
    <2>4. CASE pc[q] \in Erasing /\ D
        BY <1>1, <1>3, <2>4 DEF EditOf
    <2>5. CASE \E s \in DOMAIN aggregates : pc[q] \in Erasing \union Deleting /\ A(s)
        BY <1>1, <1>3, <2>5 DEF EditOf
    <2>6. CASE \E s \in DOMAIN sessions : pc[q] \in Deleting /\ X(s)
        BY <1>1, <1>3, <2>6 DEF EditOf
    <2>7. QED  BY <1>2, <2>1, <2>2, <2>3, <2>4, <2>5, <2>6
<1>4. CASE Grows  BY <1>4 DEF Grows
<1>5. CASE Commits(r)
    <2>1. \A d \in edits[r] : RowOf(e) # RowOf(d)  BY DEF Disjoint
    <2>2. Apply(r)  BY <1>5 DEF Commits
    <2>3. ASSUME NEW i \in DOMAIN telemetry, T(i)
          PROVE  i \in DOMAIN telemetry' /\ telemetry'[i].device = telemetry[i].device
        <3>1. <<"telemetry", i>> \notin edits[r]  BY <2>1, <2>3
        <3>2. QED  BY <2>2, <2>3, <3>1, ApplyFacts
    <2>4. ASSUME NEW s \in DOMAIN sessions, S(s) \/ R(s) \/ X(s)
          PROVE  /\ s \in DOMAIN sessions'
                 /\ sessions'[s].sender = sessions[s].sender
                 /\ sessions'[s].receiver = sessions[s].receiver
        <3>1. /\ <<"session", s>> \notin edits[r] /\ <<"sender", s>> \notin edits[r]
              /\ <<"receiver", s>> \notin edits[r]
            BY <2>1, <2>4, RowsOfEdits
        <3>2. QED  BY <2>2, <2>4, <3>1, ApplyFacts
    <2>5. D => call[q].hash \in devices'
        BY <2>1, <2>2, ApplyFacts
    <2>6. \A s \in DOMAIN aggregates : A(s) => s \in DOMAIN aggregates'
        BY <2>1, <2>2, ApplyFacts
    <2>7. QED  BY <2>3, <2>4, <2>5, <2>6
<1>6. QED  BY <1>4, <1>5, TablesMove

\* Transactions go on to hold changes of standing rows, for their own reason.
LEMMA EditShapeStep ==
    ASSUME StoreTypes, RequestTypes, LabelShape, EditShape, Disjoint, NEW r \in Requests, Acts(r)
    PROVE  EditShape'
<1>1. ASSUME NEW q \in Requests, NEW e \in edits'[q]
      PROVE  EditOf(q, e)'
    <2>1. CASE q # r
        <3>1. e \in edits[q]  BY <2>1, OneActs DEF OthersStay
        <3>2. EditOf(q, e)  BY <3>1 DEF EditShape
        <3>3. QED  BY <2>1, <3>1, <3>2, EditKept
    <2>2. CASE q = r
        <3>1. EditsMove(r) /\ edits'[r] # {}  BY <2>2, EditsStep
        <3>2. e \in edits[r] \/ MayEdit(r, e)  BY <2>2, <3>1 DEF EditsMove
        <3>3. EditOf(r, e)  BY <3>2 DEF MayEdit, EditShape
        <3>4. /\ UNCHANGED <<store, call>>
              /\ \/ pc[r] \in Erasing /\ pc'[r] \in Erasing
                 \/ pc[r] \in Deleting /\ pc'[r] \in Deleting
            BY <3>1 DEF EditsMove
        <3>5. pc[r] \in Erasing => pc[r] \notin Deleting  BY DEF Erasing, Deleting
        <3>6. QED  BY <2>2, <3>3, <3>4, <3>5 DEF EditOf, store
    <2>3. QED  BY <2>1, <2>2
<1>2. QED  BY <1>1 DEF EditShape

\* And no two of them changes of one row.
LEMMA DisjointStep ==
    ASSUME StoreTypes, RequestTypes, LabelShape, EditShape, Disjoint, NEW r \in Requests, Acts(r)
    PROVE  Disjoint'
<1>1. ASSUME NEW q \in Requests \ {r}, NEW e \in edits'[r], NEW d \in edits'[q]
      PROVE  RowOf(e) # RowOf(d)
    <2>1. d \in edits[q]  BY OneActs DEF OthersStay
    <2>2. RowOf(d) \in Locked(r)  BY <2>1 DEF Locked
    <2>3. EditsMove(r) /\ edits'[r] # {}  BY EditsStep
    <2>4. CASE e \in edits[r]  BY <2>1, <2>4 DEF Disjoint
    <2>5. CASE e \notin edits[r]
        <3>1. MayEdit(r, e) /\ Needs(r) \intersect Locked(r) = {}
            BY <2>3, <2>5 DEF EditsMove
        <3>2. QED  BY <2>2, <3>1 DEF MayEdit
    <2>6. QED  BY <2>4, <2>5
<1>2. ASSUME NEW p \in Requests, NEW q \in Requests, p # q, NEW e \in edits'[p], NEW d \in edits'[q]
      PROVE  RowOf(e) # RowOf(d)
    <2>1. CASE p = r  BY <1>1, <1>2, <2>1
    <2>2. CASE q = r  BY <1>1, <1>2, <2>2
    <2>3. CASE p # r /\ q # r
        BY <1>2, <2>3, OneActs DEF OthersStay, Disjoint
    <2>4. QED  BY <2>1, <2>2, <2>3
<1>3. QED  BY <1>2 DEF Disjoint
-----------------------------------------------------------------------------
\* What batches have stored.

\* A row of telemetry goes only into the hands of an erasure of its device.
LEMMA TelemetryStays ==
    ASSUME StoreTypes, RequestTypes, LabelShape, EditShape, NEW r \in Requests, Acts(r)
    PROVE  \A i \in DOMAIN telemetry \union erased : i \in DOMAIN telemetry' \union erased'
<1>1. CASE Grows  BY <1>1 DEF Grows
<1>2. CASE Commits(r)
    <2>1. erased \subseteq erased'  BY <1>2 DEF Commits
    <2>2. ASSUME NEW i \in DOMAIN telemetry
          PROVE  i \in DOMAIN telemetry' \union erased'
        <3>1. CASE <<"telemetry", i>> \notin edits[r]
            BY <1>2, <3>1, ApplyFacts DEF Commits
        <3>2. CASE <<"telemetry", i>> \in edits[r]
            <4>1. EditOf(r, <<"telemetry", i>>)  BY <3>2 DEF EditShape
            <4>2. pc[r] \in Erasing /\ telemetry[i].device = call[r].hash
                BY <4>1 DEF EditOf
            <4>3. call[r].op = "erase"  BY <4>2 DEF LabelShape
            <4>4. QED  BY <1>2, <3>2, <4>2, <4>3 DEF Commits, Erases
        <3>3. QED  BY <3>1, <3>2
    <2>3. QED  BY <2>1, <2>2
<1>3. QED  BY <1>1, <1>2, TablesMove

\* A batch counts no row but those it has stored, and is accepted with all of its packets.
LEMMA BatchStep ==
    ASSUME StoreTypes, RequestTypes, NEW r \in Requests, Acts(r)
    PROVE  /\ sent'[r] \subseteq sent[r] \union DOMAIN telemetry'
           /\ \A ids \in accepted' : ids \notin accepted =>
                 Cardinality(ids) = BatchSize /\ ids \subseteq sent[r] \union DOMAIN telemetry'
<1>1. ASSUME NEW a, Answer(r, a)
      PROVE  sent'[r] = {}
    BY <1>1 DEF Answer, RequestTypes
<1>2. CASE InsertTelemetry(r)
    <2>1. telemetry' = With(telemetry, rows + 1,
              [device |-> IF call[r].named THEN call[r].owner ELSE Synthetic,
               owner |-> call[r].owner, session |-> call[r].session])
        BY <1>2 DEF InsertTelemetry
    <2>2. rows + 1 \in DOMAIN telemetry'  BY <2>1 DEF With
    <2> DEFINE ids == sent[r] \union {rows + 1}
    <2>3. \/ Cardinality(ids) = BatchSize /\ Answer(r, "ok") /\ accepted' = accepted \union {ids}
          \/ sent' = [sent EXCEPT ![r] = ids] /\ accepted' = accepted
        BY <1>2 DEF InsertTelemetry
    <2>4. sent'[r] \subseteq ids
        BY <1>1, <2>3 DEF RequestTypes
    <2>5. ids \subseteq sent[r] \union DOMAIN telemetry'  BY <2>2
    <2> HIDE DEF ids
    <2>6. QED  BY <2>3, <2>4, <2>5
<1>3. ASSUME UNCHANGED <<sent, accepted>>
      PROVE  sent'[r] = sent[r] /\ accepted' = accepted
    BY <1>3
<1>4. ASSUME NEW l, NEW changes, NEW n, Statement(r, l, changes, n)
      PROVE  UNCHANGED <<sent, accepted>>
    BY <1>4 DEF Statement
<1>5. CASE DeleteUser(r)  BY <1>3, <1>4, <1>5 DEF DeleteUser, NullReceiver
<1>6. CASE DeleteSession(r)
    <2>1. CASE DeleteAggregate(r) \/ Statement(r, "delete session",
                  {<<"session", call[r].session>>}, "commit delete-session")
        BY <1>3, <1>4, <2>1 DEF DeleteAggregate
    <2>2. CASE Answer(r, "ok") /\ accepted' = accepted  BY <1>1, <2>2
    <2>3. QED  BY <1>6, <2>1, <2>2 DEF DeleteSession
<1>7. CASE CommitDeleteUser(r) \/ InsertSession(r) \/ UpsertTelemetryAggregate(r)
           \/ DeleteUserHook(r) \/ GetTelemetryAggregate(r)
    BY <1>1, <1>3, <1>7
       DEF CommitDeleteUser, InsertSession, UpsertTelemetryAggregate, DeleteUserHook,
           GetTelemetryAggregate
<1>8. CASE Begin(r) \/ UpsertDevice(r) \/ UpdateSessionStatus(r) \/ ComputeTelemetryAggregate(r)
           \/ FailSoftly(r)
    BY <1>3, <1>8
       DEF Begin, UpsertDevice, UpdateSessionStatus, ComputeTelemetryAggregate, FailSoftly
<1>9. CASE FailSilently(r) \/ FailHard(r) \/ CommitReplyLost(r)
    BY <1>1, <1>3, <1>9 DEF FailSilently, FailHard, CommitReplyLost
<1>10. QED
    BY <1>2, <1>5, <1>6, <1>7, <1>8, <1>9 DEF Acts, Proceed, Fail

\* So what a batch counts on stands, and so does what was accepted.
LEMMA SentAndAccepted ==
    ASSUME StoreTypes, RequestTypes, LabelShape, EditShape, SentStands, AcceptedIsStored,
           NEW r \in Requests, Acts(r)
    PROVE  SentStands' /\ AcceptedIsStored'
<1> DEFINE Stored == DOMAIN telemetry \union erased
<1>1. Stored \subseteq Stored'  BY TelemetryStays
<1>2. sent[r] \subseteq Stored'  BY <1>1 DEF SentStands
<1>3. ASSUME NEW q \in Requests
      PROVE  sent'[q] \subseteq Stored'
    <2>1. CASE q = r  BY <1>2, <2>1, BatchStep
    <2>2. CASE q # r  BY <1>1, <2>2, OneActs DEF OthersStay, SentStands
    <2>3. QED  BY <2>1, <2>2
<1>4. ASSUME NEW ids \in accepted'
      PROVE  Cardinality(ids) = BatchSize /\ ids \subseteq Stored'
    <2>1. CASE ids \in accepted  BY <1>1, <2>1 DEF AcceptedIsStored
    <2>2. CASE ids \notin accepted  BY <1>2, <2>2, BatchStep
    <2>3. QED  BY <2>1, <2>2
<1>5. QED  BY <1>3, <1>4 DEF SentStands, AcceptedIsStored
-----------------------------------------------------------------------------
\* What erasures have found.

\* The facts about a device, one by one, before and after a step.
LEMMA FactCases ==
    ASSUME NEW h, NEW f
    PROVE  /\ f \in FactsOf(h) \union SentBy(h) <=> FactIn(f, h)
           /\ f \in FactsOf(h)' \union SentBy(h)' <=> FactIn(f, h)'
<1>1. f \in FactsOf(h) \union SentBy(h) <=> FactIn(f, h)
    BY DEF FactsOf, SentBy, FactIn
<1>2. f \in FactsOf(h)' \union SentBy(h)' <=> FactIn(f, h)'
    BY DEF FactsOf, SentBy, FactIn
<1>3. QED  BY <1>1, <1>2

\* Every step keeps the record of what erasures found.
LEMMA Tracks ==
    ASSUME NEW r \in Requests, Acts(r)
    PROVE  Track
<1>1. CASE DeleteUser(r)
    BY <1>1 DEF DeleteUser, NullReceiver, Statement
<1>2. CASE DeleteSession(r)
    BY <1>2 DEF DeleteSession, DeleteAggregate, Statement
<1>3. CASE Fail(r)  BY <1>3 DEF Fail, FailSoftly, FailSilently, FailHard
<1>4. QED
    BY <1>1, <1>2, <1>3
       DEF Acts, Proceed, Begin, UpsertDevice, InsertSession, InsertTelemetry,
           UpdateSessionStatus, GetTelemetryAggregate, ComputeTelemetryAggregate,
           UpsertTelemetryAggregate, CommitDeleteUser, DeleteUserHook, CommitReplyLost

\* A fact on record at work has been there, and still stands.
LEMMA OldFacts ==
    ASSUME Track, NEW q \in Requests, call'[q].op = "erase", NEW f \in old'[q]
    PROVE  /\ ~ (pc[q] = "idle" /\ pc'[q] = "idle") /\ answer'[q] # "error"
           /\ pc[q] = "idle" => FactIn(f, call'[q].hash)
           /\ pc[q] # "idle" => f \in old[q] /\ FactIn(f, call[q].hash)'
<1>1. old'[q] = IF call'[q].op # "erase" \/ {pc[q], pc'[q]} = {"idle"} \/ answer'[q] = "error"
                THEN {}
                ELSE IF pc[q] = "idle" THEN FactsOf(call'[q].hash) \union SentBy(call'[q].hash)
                ELSE old[q] \intersect (FactsOf(call[q].hash)' \union SentBy(call[q].hash)')
    BY DEF Track
<1>2. {pc[q], pc'[q]} # {"idle"} /\ answer'[q] # "error"
    BY <1>1
<1>3. ASSUME pc[q] = "idle"
      PROVE  FactIn(f, call'[q].hash)
    <2>1. f \in FactsOf(call'[q].hash) \union SentBy(call'[q].hash)
        BY <1>1, <1>2, <1>3
    <2>2. QED  BY <2>1, FactCases
<1>4. ASSUME pc[q] # "idle"
      PROVE  f \in old[q] /\ FactIn(f, call[q].hash)'
    <2>1. f \in old[q] /\ f \in FactsOf(call[q].hash)' \union SentBy(call[q].hash)'
        BY <1>1, <1>2, <1>4
    <2>2. FactIn(f, call[q].hash)'
        BY <2>1 DEF FactsOf, SentBy, FactIn
    <2>3. QED  BY <2>1, <2>2
<1>5. QED  BY <1>2, <1>3, <1>4

\* The record of a request that somebody else's step leaves alone.
LEMMA OldOfOthers ==
    ASSUME OldShape, Track, NEW q \in Requests, call'[q].op = "erase", NEW f \in old'[q],
           pc'[q] = pc[q], call'[q] = call[q], edits'[q] = edits[q], answer'[q] = answer[q]
    PROVE  (FactIn(f, call[q].hash) /\ Handled(q, f))'
<1>1. pc[q] # "idle"  BY OldFacts
<1>2. f \in old[q] /\ FactIn(f, call[q].hash)'  BY <1>1, OldFacts
<1>3. Handled(q, f)  BY <1>2 DEF OldShape
<1>4. QED  BY <1>2, <1>3 DEF Handled

\* An erasure handles what it found, with every statement of its own.
LEMMA OldOfItsOwn ==
    ASSUME RequestTypes, StoreTypes, LabelShape, EditShape, OldShape,
           NEW r \in Requests, Acts(r), call'[r].op = "erase", NEW f \in old'[r]
    PROVE  (FactIn(f, call[r].hash) /\ Handled(r, f))'
<1>1. Track  BY Tracks
<1>2. CASE Begin(r)
    <2>1. pc[r] = "idle" /\ UNCHANGED store  BY <1>2 DEF Begin
    <2>2. FactIn(f, call'[r].hash)  BY <1>1, <2>1, OldFacts
    <2>3. FactIn(f, call[r].hash)'  BY <2>1, <2>2 DEF FactIn, store
    <2>4. PICK c \in Menu :
              /\ call' = [call EXCEPT ![r] = c]
              /\ Goto(r, CASE c.op = "create" /\ c.key -> "UpsertDevice"
                           [] c.op = "create" /\ ~c.key -> "InsertSession"
                           [] c.op = "batch" -> "InsertTelemetry"
                           [] c.op = "close" -> "UpdateSessionStatus"
                           [] c.op = "delete" -> "delete aggregate"
                           [] c.op = "erase" -> "delete telemetry")
        BY <1>2 DEF Begin
    <2>5. call'[r] = c  BY <2>4 DEF RequestTypes
    <2>6. pc'[r] = "delete telemetry"  BY <2>4, <2>5 DEF Goto, RequestTypes
    <2>7. Handled(r, f)'  BY <2>6 DEF Handled, Erasing
    <2>8. QED  BY <2>3, <2>7
<1>3. CASE ~ Begin(r)
    <2>1. pc[r] # "idle" /\ call' = call
        <3>1. CASE DeleteUser(r)
            BY <3>1 DEF DeleteUser, NullReceiver, Statement, At
        <3>2. CASE DeleteSession(r)
            BY <3>2 DEF DeleteSession, DeleteAggregate, Statement, At
        <3>3. CASE Fail(r)  BY <3>3 DEF Fail, FailSoftly, FailSilently, FailHard
        <3>4. QED
            BY <1>3, <3>1, <3>2, <3>3
               DEF Acts, Proceed, UpsertDevice, InsertSession, InsertTelemetry,
                   UpdateSessionStatus, GetTelemetryAggregate, ComputeTelemetryAggregate,
                   UpsertTelemetryAggregate, CommitDeleteUser, DeleteUserHook, CommitReplyLost, At
    <2>2. pc[r] \in Erasing \union {"hook"}
        <3>1. pc[r] \in Labels /\ call[r].op = "erase"  BY <2>1 DEF RequestTypes
        <3>2. pc[r] \notin Creating \union {"InsertTelemetry"} \union Closing \union Deleting
            BY <3>1 DEF LabelShape
        <3>3. QED  BY <2>1, <3>1, <3>2 DEF Labels, Creating, Closing, Deleting, Erasing
    <2>3. /\ f \in old[r] /\ FactIn(f, call[r].hash)' /\ Handled(r, f)
          /\ answer'[r] # "error"
        BY <1>1, <2>1, OldFacts DEF OldShape
    <2>4. SUFFICES Handled(r, f)'  BY <2>3
    <2> DEFINE h == call[r].hash
               Gone ==
                  {<<"telemetry", i>> : i \in {i \in DOMAIN telemetry : telemetry[i].device = h}}
               Sender == {<<"sender", s>> : s \in {s \in DOMAIN sessions : sessions[s].sender = h}}
               Receiver ==
                  {<<"receiver", s>> : s \in {s \in DOMAIN sessions : sessions[s].receiver = h}}
               Device == {<<"device", d>> : d \in devices \intersect {h}}
               Aggregates ==
                  {<<"aggregate", s>> : s \in DOMAIN aggregates \intersect DOMAIN sessions}
    <2>5. ASSUME NEW l, NEW changes, NEW n, Statement(r, l, changes, n)
          PROVE  /\ pc[r] = l /\ pc'[r] = n /\ edits'[r] = edits[r] \union changes
                 /\ FactIn(f, h)
        <3>1. /\ pc[r] = l /\ pc'[r] = n /\ edits'[r] = edits[r] \union changes
              /\ UNCHANGED store
            BY <2>5 DEF Statement, At, Goto, RequestTypes
        <3>2. FactIn(f, h)  BY <2>1, <2>3, <3>1 DEF FactIn, store
        <3>3. QED  BY <3>1, <3>2
    <2>6. CASE Statement(r, "delete telemetry", Gone, "null sender")
        <3>1. pc[r] = "delete telemetry" /\ pc'[r] = "null sender" /\ FactIn(f, h)
              /\ edits'[r] = edits[r] \union Gone
            BY <2>5, <2>6
        <3>2. f[1] = "telemetry" => f \in Gone
            <4>1. FactIn(f, h)  BY <3>1
            <4>2. f[1] = "telemetry" => \E i \in DOMAIN telemetry :
                      f = <<"telemetry", i>> /\ telemetry[i].device = h
                BY <4>1 DEF FactIn
            <4>3. QED  BY <4>2
        <3> HIDE DEF Gone
        <3>3. QED  BY <3>1, <3>2 DEF Handled, Erasing
    <2>7. CASE Statement(r, "null sender", Sender, "null receiver")
        <3>1. pc[r] = "null sender" /\ pc'[r] = "null receiver" /\ FactIn(f, h)
              /\ edits'[r] = edits[r] \union Sender
            BY <2>5, <2>7
        <3>2. f[1] = "sender" => f \in Sender
            <4>1. FactIn(f, h)  BY <3>1
            <4>2. f[1] = "sender" => \E s \in DOMAIN sessions :
                      f = <<"sender", s>> /\ sessions[s].sender = h
                BY <4>1 DEF FactIn
            <4>3. QED  BY <4>2
        <3> HIDE DEF Sender
        <3>3. QED  BY <2>3, <3>1, <3>2 DEF Handled, Erasing
    <2>8. CASE Statement(r, "null receiver", Receiver, "delete device")
        <3>1. pc[r] = "null receiver" /\ pc'[r] = "delete device" /\ FactIn(f, h)
              /\ edits'[r] = edits[r] \union Receiver
            BY <2>5, <2>8
        <3>2. f[1] = "receiver" => f \in Receiver
            <4>1. FactIn(f, h)  BY <3>1
            <4>2. f[1] = "receiver" => \E s \in DOMAIN sessions :
                      f = <<"receiver", s>> /\ sessions[s].receiver = h
                BY <4>1 DEF FactIn
            <4>3. QED  BY <4>2
        <3> HIDE DEF Receiver
        <3>3. QED  BY <2>3, <3>1, <3>2 DEF Handled, Erasing
    <2>9. CASE Statement(r, "delete device", Device, "delete aggregates")
        <3>1. pc[r] = "delete device" /\ pc'[r] = "delete aggregates" /\ FactIn(f, h)
              /\ edits'[r] = edits[r] \union Device
            BY <2>5, <2>9
        <3>2. f[1] = "device" => f \in Device
            <4>1. FactIn(f, h)  BY <3>1
            <4>2. f[1] = "device" => f = <<"device", h>> /\ h \in devices
                BY <4>1 DEF FactIn
            <4>3. QED  BY <4>2
        <3> HIDE DEF Device
        <3>3. QED  BY <2>3, <3>1, <3>2 DEF Handled, Erasing
    <2>10. CASE Statement(r, "delete aggregates", Aggregates, "commit delete-user")
        <3>1. pc[r] = "delete aggregates" /\ pc'[r] = "commit delete-user"
              /\ edits'[r] = edits[r] \union Aggregates
            BY <2>5, <2>10
        <3> HIDE DEF Aggregates
        <3>2. QED  BY <2>3, <3>1 DEF Handled, Erasing
    <2>11. CASE CommitDeleteUser(r)
        <3>1. r \notin doomed
            BY <2>3, <2>11 DEF CommitDeleteUser, Answer, RequestTypes
        <3>2. pc[r] = "commit delete-user" /\ pc'[r] = "hook" /\ Apply(r)
            BY <2>11, <3>1 DEF CommitDeleteUser, Goto, RequestTypes
        <3>3. h = call'[r].hash /\ h # NoHash
            BY <2>1, <3>2, CallOf, NoHashIsNone DEF Erasing
        <3>4. f[1] \in {"telemetry", "sender", "receiver", "device"} => f \in edits[r]
            BY <2>3, <3>2 DEF Handled, Erasing
        <3>5. f[1] \in {"sent", "pool"}
            <4>1. ASSUME NEW i \in DOMAIN telemetry', f = <<"telemetry", i>>
                  PROVE  FALSE
                BY <3>2, <3>4, <4>1, ApplyFacts
            <4>2. ASSUME NEW s \in DOMAIN sessions', f = <<"sender", s>>, sessions'[s].sender = h
                  PROVE  FALSE
                BY <3>2, <3>3, <3>4, <4>2, ApplyFacts
            <4>3. ASSUME NEW s \in DOMAIN sessions', f = <<"receiver", s>>,
                         sessions'[s].receiver = h
                  PROVE  FALSE
                BY <3>2, <3>3, <3>4, <4>3, ApplyFacts
            <4>4. ASSUME f = <<"device", h>>, h \in devices'
                  PROVE  FALSE
                BY <3>2, <3>4, <4>4, ApplyFacts
            <4>5. QED  BY <2>3, <3>3, <4>1, <4>2, <4>3, <4>4 DEF FactIn
        <3>6. QED  BY <3>2, <3>5 DEF Handled, Erasing
    <2>12. CASE DeleteUserHook(r)
        <3>1. /\ pc[r] = "hook" /\ pc'[r] = "idle" /\ answer'[r] = "ok"
              /\ pool' = pool \ {h} /\ h = call'[r].hash
            BY <2>1, <2>12 DEF DeleteUserHook, Answer, Goto, RequestTypes
        <3>2. f[1] \in {"sent", "pool"}  BY <2>3, <3>1 DEF Handled
        <3>3. f[1] = "sent"  BY <2>3, <3>1, <3>2 DEF FactIn
        <3>4. QED  BY <3>1, <3>3 DEF Handled, Erasing
    <2>13. CASE FailSoftly(r)
        <3>1. /\ pc[r] = "delete aggregates" /\ pc'[r] = "commit delete-user"
              /\ edits' = edits
            BY <2>2, <2>13 DEF FailSoftly, Goto, Erasing, RequestTypes
        <3>2. QED  BY <2>3, <3>1 DEF Handled, Erasing
    <2>14. CASE FailSilently(r)
        <3>1. /\ pc[r] = "hook" /\ pc'[r] = "idle" /\ answer'[r] = "ok, hook failed"
            BY <2>2, <2>14 DEF FailSilently, Answer, Goto, Erasing, RequestTypes
        <3>2. QED  BY <2>3, <3>1 DEF Handled, Erasing
    <2>15. CASE FailHard(r) \/ CommitReplyLost(r)
        BY <2>3, <2>15 DEF FailHard, CommitReplyLost, Answer, RequestTypes
    <2>16. CASE UpsertDevice(r) \/ InsertSession(r) \/ InsertTelemetry(r)
                \/ UpdateSessionStatus(r) \/ GetTelemetryAggregate(r)
                \/ ComputeTelemetryAggregate(r) \/ UpsertTelemetryAggregate(r)
        BY <2>2, <2>16
           DEF UpsertDevice, InsertSession, InsertTelemetry, UpdateSessionStatus,
               GetTelemetryAggregate, ComputeTelemetryAggregate, UpsertTelemetryAggregate, At,
               Erasing
    <2>17. CASE DeleteSession(r)
        BY <2>2, <2>17 DEF DeleteSession, DeleteAggregate, Statement, At, Erasing
    <2>18. CASE DeleteUser(r)
        BY <2>6, <2>7, <2>8, <2>9, <2>10, <2>18, Zenon DEF DeleteUser, NullReceiver
    <2>19. QED
        BY <1>3, <2>11, <2>12, <2>13, <2>14, <2>15, <2>16, <2>17, <2>18
           DEF Acts, Proceed, Fail
<1>4. QED  BY <1>2, <1>3

\* So the record stays true, whoever acts.
LEMMA OldShapeStep ==
    ASSUME RequestTypes, StoreTypes, LabelShape, EditShape, OldShape, NEW r \in Requests, Acts(r)
    PROVE  OldShape'
<1>1. ASSUME NEW q \in Requests, call'[q].op = "erase", NEW f \in old'[q]
      PROVE  (FactIn(f, call[q].hash) /\ Handled(q, f))'
    <2>1. CASE q = r  BY <1>1, <2>1, OldOfItsOwn
    <2>2. CASE q # r
        BY <1>1, <2>2, Tracks, OneActs, OldOfOthers DEF OthersStay
    <2>3. QED  BY <2>1, <2>2
<1>2. QED  BY <1>1 DEF OldShape
-----------------------------------------------------------------------------
\* The invariant.

\* Nothing is stored and nobody is at work.
LEMMA InvInit == Init => DataInv
<1> SUFFICES ASSUME Init PROVE DataInv
    OBVIOUS
<1>1. /\ DOMAIN sessions = {} /\ DOMAIN telemetry = {} /\ DOMAIN aggregates = {}
      /\ devices = {} /\ pool = {} /\ rows = 0 /\ accepted = {} /\ doomed = {}
    BY DEF Init, Empty
<1>2. /\ pc = [r \in Requests |-> "idle"] /\ call = [r \in Requests |-> NoCall]
      /\ sent = [r \in Requests |-> {}] /\ counted = [r \in Requests |-> 0]
      /\ edits = [r \in Requests |-> {}] /\ answer = [r \in Requests |-> "none"]
      /\ old = [r \in Requests |-> {}]
    BY DEF Init
<1>3. StoreTypes  BY <1>1 DEF StoreTypes
<1>4. RequestTypes  BY <1>1, <1>2 DEF RequestTypes, Labels, Answers
<1>5. LabelShape  BY <1>2 DEF LabelShape, Creating, Closing, Deleting, Erasing
<1>6. EditShape /\ Disjoint  BY <1>2 DEF EditShape, Disjoint
<1>7. SentStands /\ AcceptedIsStored  BY <1>1, <1>2 DEF SentStands, AcceptedIsStored
<1>8. OldShape  BY <1>2 DEF OldShape
<1>9. QED  BY <1>3, <1>4, <1>5, <1>6, <1>7, <1>8 DEF DataInv

\* A registration in the Active Pool touches nothing of this but the pool.
LEMMA RegisterStep == DataInv /\ RegisterReceiver => DataInv'
<1> SUFFICES ASSUME DataInv, RegisterReceiver PROVE DataInv'
    OBVIOUS
<1>1. /\ UNCHANGED <<devices, sessions, telemetry, aggregates, pc, call, sent, counted, edits,
                     doomed, answer, rows, accepted, erased>>
      /\ Track
    BY DEF RegisterReceiver
<1>2. pool' \subseteq Hashes /\ StoreTypes'
    <2>1. PICK h \in Hashes : pool' = pool \union {h}  BY DEF RegisterReceiver
    <2>2. QED  BY <1>1, <2>1 DEF DataInv, StoreTypes
<1>3. RequestTypes' /\ LabelShape'  BY <1>1 DEF DataInv, RequestTypes, LabelShape
<1>4. EditShape'  BY <1>1 DEF DataInv, EditShape, EditOf
<1>5. Disjoint'
    <2>1. \A r, q \in Requests : r # q => \A e \in edits'[r], d \in edits'[q] : RowOf(e) # RowOf(d)
        BY <1>1 DEF DataInv, Disjoint
    <2>2. QED  BY <2>1 DEF Disjoint
<1>6. SentStands' /\ AcceptedIsStored'  BY <1>1 DEF DataInv, SentStands, AcceptedIsStored
<1>7. OldShape'
    <2>1. ASSUME NEW q \in Requests, call'[q].op = "erase", NEW f \in old'[q]
          PROVE  (FactIn(f, call[q].hash) /\ Handled(q, f))'
        BY <1>1, <2>1, OldOfOthers DEF DataInv
    <2>2. QED  BY <2>1 DEF OldShape
<1>8. QED  BY <1>2, <1>3, <1>4, <1>5, <1>6, <1>7 DEF DataInv

\* Every step keeps the invariant.
LEMMA InvStep == DataInv /\ [Next]_vars => DataInv'
<1> SUFFICES ASSUME DataInv, [Next]_vars PROVE DataInv'
    OBVIOUS
<1>1. CASE \E r \in Requests : Acts(r)
    <2>1. PICK r \in Requests : Acts(r)  BY <1>1
    <2>2. /\ StoreTypes /\ RequestTypes /\ LabelShape /\ EditShape /\ Disjoint
          /\ SentStands /\ AcceptedIsStored /\ OldShape
        BY DEF DataInv
    <2>3. StoreTypes' /\ RequestTypes' /\ LabelShape'
        BY <2>1, <2>2, StoreTypesStep, RequestTypesStep, LabelShapeStep
    <2>4. EditShape' /\ Disjoint'  BY <2>1, <2>2, EditShapeStep, DisjointStep
    <2>5. SentStands' /\ AcceptedIsStored'  BY <2>1, <2>2, SentAndAccepted
    <2>6. OldShape'  BY <2>1, <2>2, OldShapeStep
    <2>7. QED  BY <2>3, <2>4, <2>5, <2>6 DEF DataInv
<1>2. CASE RegisterReceiver  BY <1>2, RegisterStep
<1>3. CASE UNCHANGED vars
    <2>1. UNCHANGED <<devices, sessions, telemetry, aggregates, pool, pc, call, sent, counted,
                      edits, doomed, answer, rows, accepted, erased, old>>
        BY <1>3 DEF vars, store
    <2>2. StoreTypes' /\ RequestTypes' /\ LabelShape'
        BY <2>1 DEF DataInv, StoreTypes, RequestTypes, LabelShape
    <2>3. EditShape'  BY <2>1 DEF DataInv, EditShape, EditOf
    <2>4. \A r, q \in Requests : r # q => \A e \in edits'[r], d \in edits'[q] : RowOf(e) # RowOf(d)
        BY <2>1 DEF DataInv, Disjoint
    <2>5. SentStands' /\ AcceptedIsStored'  BY <2>1 DEF DataInv, SentStands, AcceptedIsStored
    <2>6. OldShape'
        <3>1. ASSUME NEW q \in Requests, call'[q].op = "erase", NEW f \in old'[q]
              PROVE  FactIn(f, call[q].hash)' /\ Handled(q, f)'
            <4>1. FactIn(f, call[q].hash) /\ Handled(q, f)
                BY <2>1, <3>1 DEF DataInv, OldShape
            <4>2. FactIn(f, call[q].hash)'  BY <2>1, <4>1 DEF FactIn
            <4>3. Handled(q, f)'  BY <2>1, <4>1 DEF Handled
            <4>4. QED  BY <4>2, <4>3
        <3>2. QED  BY <3>1 DEF OldShape
    <2>7. QED  BY <2>2, <2>3, <2>4, <2>5, <2>6 DEF DataInv, Disjoint
<1>4. QED  BY <1>1, <1>2, <1>3 DEF Next, Acts

\* The types, the locks and the books of batches and erasures hold for ever.
THEOREM InvHolds == Spec => []DataInv
BY InvInit, InvStep, PTL DEF Spec

\* The parts of the invariant that the model checker looks at.
LEMMA InvMeans == DataInv => TypeOK /\ AcceptedIsStored /\ ErasureIsThorough
<1> SUFFICES ASSUME DataInv PROVE TypeOK /\ AcceptedIsStored /\ ErasureIsThorough
    OBVIOUS
<1>1. ASSUME NEW r \in Requests, NEW e \in edits[r]
      PROVE  /\ pc[r] \notin {"idle", "hook"}
             /\ e[1] = "telemetry" => e[2] \in DOMAIN telemetry
             /\ e[1] \in {"session", "sender", "receiver"} => e[2] \in DOMAIN sessions
             /\ e[1] = "aggregate" => e[2] \in DOMAIN aggregates
             /\ e[1] = "device" => e[2] \in devices
    <2>1. EditOf(r, e)  BY DEF DataInv, EditShape
    <2>2. pc[r] \notin {"idle", "hook"}  BY <2>1 DEF EditOf, Erasing, Deleting
    <2>3. \/ \E i \in DOMAIN telemetry : e = <<"telemetry", i>>
          \/ \E s \in DOMAIN sessions : e = <<"sender", s>>
          \/ \E s \in DOMAIN sessions : e = <<"receiver", s>>
          \/ \E s \in DOMAIN sessions : e = <<"session", s>>
          \/ \E s \in DOMAIN aggregates : e = <<"aggregate", s>>
          \/ e = <<"device", call[r].hash>> /\ call[r].hash \in devices
        BY <2>1 DEF EditOf
    <2>4. QED  BY <2>2, <2>3
<1>2. \A r \in Requests : sent[r] \subseteq 1..rows /\ counted[r] \in 0..rows
    BY DEF DataInv, RequestTypes
<1>3. TypeOK
    BY <1>1, <1>2 DEF DataInv, StoreTypes, RequestTypes, TypeOK
<1>4. ASSUME NEW r \in Requests, pc[r] = "idle", call[r].op = "erase", NEW f \in old[r]
      PROVE  /\ answer[r] = "ok" => f \in SentBy(call[r].hash)
             /\ answer[r] = "ok, hook failed" =>
                   f \in SentBy(call[r].hash) \union {<<"pool", call[r].hash>>}
    <2>1. FactIn(f, call[r].hash) /\ Handled(r, f)  BY <1>4 DEF DataInv, OldShape
    <2>2. f[1] = "sent" => f \in SentBy(call[r].hash)
        <3>1. f[1] = "sent" => \E i \in DOMAIN telemetry :
                  f = <<"sent", i>> /\ telemetry[i].owner = call[r].hash
            BY <2>1 DEF FactIn
        <3>2. QED  BY <3>1 DEF SentBy
    <2>3. f[1] = "pool" => f = <<"pool", call[r].hash>>
        BY <2>1 DEF FactIn
    <2>4. /\ answer[r] = "ok" => f[1] = "sent"
          /\ answer[r] = "ok, hook failed" => f[1] \in {"sent", "pool"}
        BY <1>4, <2>1 DEF Handled
    <2>5. QED  BY <2>2, <2>3, <2>4
<1>5. ErasureIsThorough  BY <1>4 DEF ErasureIsThorough
<1>6. QED  BY <1>3, <1>5 DEF DataInv

\* Every variable keeps its type, and only transactions at work hold changes, of standing rows.
THEOREM TypeCorrect == Spec => []TypeOK
BY InvHolds, InvMeans, PTL

\* What a batch was answered 202 for is in the table, unless an erasure of the device removed it.
THEOREM AcceptedStaysStored == Spec => []AcceptedIsStored
BY InvHolds, InvMeans, PTL

\* An erasure that answered with success has left nothing of what it found by the device's hash.
THEOREM ErasureRemovesWhatItFound == Spec => []ErasureIsThorough
BY InvHolds, InvMeans, PTL
-----------------------------------------------------------------------------
\* Nobody's facts go away by the request of somebody else.

\* A step that takes a fact from the tables is an erasure of its device, or takes its session.
LEMMA FactsGo ==
    ASSUME DataInv, NEW r \in Requests, Acts(r), NEW h,
           NEW f \in FactsOf(h), f \notin FactsOf(h)'
    PROVE  \/ f[1] = "pool"
           \/ pc[r] = "commit delete-user" /\ call[r].hash = h
           \/ f[1] \in {"sender", "receiver"} /\ f[2] \notin DOMAIN sessions'
<1>1. \/ \E i \in DOMAIN telemetry : f = <<"telemetry", i>> /\ telemetry[i].device = h
      \/ \E s \in DOMAIN sessions : f = <<"sender", s>> /\ sessions[s].sender = h
      \/ \E s \in DOMAIN sessions : f = <<"receiver", s>> /\ sessions[s].receiver = h
      \/ f = <<"device", h>> /\ h \in devices
      \/ f = <<"pool", h>>
    BY DEF FactsOf
<1>2. /\ \A i \in DOMAIN telemetry' : telemetry'[i].device = h => <<"telemetry", i>> \in FactsOf(h)'
      /\ \A s \in DOMAIN sessions' : sessions'[s].sender = h => <<"sender", s>> \in FactsOf(h)'
      /\ \A s \in DOMAIN sessions' : sessions'[s].receiver = h => <<"receiver", s>> \in FactsOf(h)'
      /\ h \in devices' => <<"device", h>> \in FactsOf(h)'
    BY DEF FactsOf
<1>3. CASE Grows
    <2>1. ASSUME NEW i \in DOMAIN telemetry, f = <<"telemetry", i>>, telemetry[i].device = h
          PROVE  FALSE
        BY <1>2, <1>3, <2>1 DEF Grows
    <2>2. ASSUME NEW s \in DOMAIN sessions,
                 \/ f = <<"sender", s>> /\ sessions[s].sender = h
                 \/ f = <<"receiver", s>> /\ sessions[s].receiver = h
          PROVE  FALSE
        BY <1>2, <1>3, <2>2 DEF Grows
    <2>3. ASSUME f = <<"device", h>>, h \in devices
          PROVE  FALSE
        BY <1>2, <1>3, <2>3 DEF Grows
    <2>4. f = <<"pool", h>>  BY <1>1, <2>1, <2>2, <2>3
    <2>5. QED  BY <2>4
<1>4. CASE Commits(r)
    <2>1. StoreTypes /\ EditShape  BY DEF DataInv
    <2>2. Apply(r) /\ pc[r] \in {"commit delete-session", "commit delete-user"}
        BY <1>4 DEF Commits
    <2>3. ASSUME f \in edits[r], f[1] \in {"telemetry", "sender", "receiver", "device"}
          PROVE  pc[r] \in Erasing
        <3>1. EditOf(r, f)  BY <2>1, <2>3 DEF EditShape
        <3>2. QED  BY <2>3, <3>1 DEF EditOf
    <2>4. pc[r] \in Erasing => pc[r] = "commit delete-user"
        BY <2>2 DEF Erasing
    <2>5. ASSUME NEW i \in DOMAIN telemetry, f = <<"telemetry", i>>, telemetry[i].device = h
          PROVE  pc[r] = "commit delete-user" /\ call[r].hash = h
        <3>1. f \in edits[r]
            BY <1>2, <2>1, <2>2, <2>5, ApplyFacts
        <3>2. EditOf(r, f)  BY <2>1, <3>1 DEF EditShape
        <3>3. telemetry[i].device = call[r].hash  BY <2>5, <3>2 DEF EditOf
        <3>4. QED  BY <2>3, <2>4, <2>5, <3>1, <3>3
    <2>6. ASSUME NEW s \in DOMAIN sessions', f = <<"sender", s>>, sessions[s].sender = h
          PROVE  pc[r] = "commit delete-user" /\ call[r].hash = h
        <3>1. f \in edits[r]
            BY <1>2, <2>1, <2>2, <2>6, ApplyFacts
        <3>2. EditOf(r, f)  BY <2>1, <3>1 DEF EditShape
        <3>3. sessions[s].sender = call[r].hash  BY <2>6, <3>2 DEF EditOf
        <3>4. QED  BY <2>3, <2>4, <2>6, <3>1, <3>3
    <2>7. ASSUME NEW s \in DOMAIN sessions', f = <<"receiver", s>>, sessions[s].receiver = h
          PROVE  pc[r] = "commit delete-user" /\ call[r].hash = h
        <3>1. f \in edits[r]
            BY <1>2, <2>1, <2>2, <2>7, ApplyFacts
        <3>2. EditOf(r, f)  BY <2>1, <3>1 DEF EditShape
        <3>3. sessions[s].receiver = call[r].hash  BY <2>7, <3>2 DEF EditOf
        <3>4. QED  BY <2>3, <2>4, <2>7, <3>1, <3>3
    <2>8. ASSUME f = <<"device", h>>, h \in devices
          PROVE  pc[r] = "commit delete-user" /\ call[r].hash = h
        <3>1. f \in edits[r]
            BY <1>2, <2>1, <2>2, <2>8, ApplyFacts
        <3>2. EditOf(r, f)  BY <2>1, <3>1 DEF EditShape
        <3>3. h = call[r].hash  BY <2>8, <3>2 DEF EditOf
        <3>4. QED  BY <2>3, <2>4, <2>8, <3>1, <3>3
    <2>9. CASE \E s \in DOMAIN sessions : f = <<"sender", s>> /\ sessions[s].sender = h
        <3>1. PICK s \in DOMAIN sessions : f = <<"sender", s>> /\ sessions[s].sender = h
            BY <2>9
        <3>2. CASE s \in DOMAIN sessions'  BY <2>6, <3>1, <3>2
        <3>3. CASE s \notin DOMAIN sessions'
            <4>1. f[1] \in {"sender", "receiver"} /\ f[2] = s  BY <3>1
            <4>2. QED  BY <3>3, <4>1
        <3>4. QED  BY <3>2, <3>3
    <2>10. CASE \E s \in DOMAIN sessions : f = <<"receiver", s>> /\ sessions[s].receiver = h
        <3>1. PICK s \in DOMAIN sessions : f = <<"receiver", s>> /\ sessions[s].receiver = h
            BY <2>10
        <3>2. CASE s \in DOMAIN sessions'  BY <2>7, <3>1, <3>2
        <3>3. CASE s \notin DOMAIN sessions'
            <4>1. f[1] \in {"sender", "receiver"} /\ f[2] = s  BY <3>1
            <4>2. QED  BY <3>3, <4>1
        <3>4. QED  BY <3>2, <3>3
    <2>11. CASE \E i \in DOMAIN telemetry : f = <<"telemetry", i>> /\ telemetry[i].device = h
        BY <2>5, <2>11
    <2>12. CASE f = <<"pool", h>>
        <3>1. f[1] = "pool"  BY <2>12
        <3>2. QED  BY <3>1
    <2>13. QED  BY <1>1, <2>8, <2>9, <2>10, <2>11, <2>12
<1>5. QED  BY <1>3, <1>4, TablesMove DEF DataInv

\* A telemetry row, a device or a party of a session disappears only by an erasure of the device
\* it names, or with its session.
THEOREM OnlyOwnErasureForgets == Spec => OnlyItsErasureForgets
<1> DEFINE Forgets ==
        \A h \in Hashes : \A f \in FactsOf(h) \ FactsOf(h)' :
            \/ f[1] = "pool"
            \/ \E r \in Requests : pc[r] = "commit delete-user" /\ call[r].hash = h
            \/ f[1] \in {"sender", "receiver"} /\ f[2] \notin DOMAIN sessions'
<1>1. ASSUME DataInv, [Next]_vars
      PROVE  [Forgets]_vars
    <2>1. CASE \E r \in Requests : Acts(r)
        <3>1. PICK r \in Requests : Acts(r)  BY <2>1
        <3>2. Forgets  BY <1>1, <3>1, FactsGo
        <3>3. QED  BY <3>2
    <2>2. CASE RegisterReceiver
        <3>1. /\ telemetry' = telemetry /\ sessions' = sessions /\ devices' = devices
              /\ pool \subseteq pool'
            BY <2>2 DEF RegisterReceiver
        <3>2. \A h \in Hashes : FactsOf(h) \subseteq FactsOf(h)'
            BY <3>1 DEF FactsOf
        <3>3. QED  BY <3>2
    <2>3. CASE UNCHANGED vars  BY <2>3
    <2>4. QED  BY <1>1, <2>1, <2>2, <2>3 DEF Next, Acts
<1>2. QED  BY <1>1, InvHolds, PTL DEF Spec, OnlyItsErasureForgets
=============================================================================
