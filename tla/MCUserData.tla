---------------------------- MODULE MCUserData ----------------------------
(***************************************************************************)
(* Two devices, one test session between them, two requests at a time.     *)
(***************************************************************************)
EXTENDS UserData

CONSTANTS alice, bob, s1

Create(k) == [op |-> "create", session |-> s1, sender |-> alice, receiver |-> bob, key |-> k]
Batch(h, named) == [op |-> "batch", session |-> s1, owner |-> h, named |-> named]
Close == [op |-> "close", session |-> s1]
Delete == [op |-> "delete", session |-> s1]
Erase(h) == [op |-> "erase", hash |-> h]

\* Whatever the two devices may ask for; both send batches with their hash.
MCMenu == {Create(TRUE), Batch(alice, TRUE), Close, Delete, Erase(alice), Erase(bob)}

\* One device, whose telemetry service posts batches without a hash.
AnonymousMenu == {Create(TRUE), Batch(alice, FALSE), Erase(alice)}
=============================================================================
