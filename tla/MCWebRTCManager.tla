-------------------------- MODULE MCWebRTCManager --------------------------
(***************************************************************************)
(* Small instances of WebRTCManager.                                       *)
(***************************************************************************)
EXTENDS WebRTCManager, TLC

CONSTANTS alice, bob, s1, s2

Offers(id, peers, sdps) == [kind : {"offer"}, id : id, peer : peers, good : sdps]
Plain(kinds, id, peers) == [kind : kinds, id : id, peer : peers, good : {TRUE}]

\* What the HTTP routes reach: fresh and repeated offers, with good and bad SDP
\* and from either device, answers and candidates.
WireCalls ==
    Offers({NoSession}, {alice}, BOOLEAN) \union Offers({s1}, {alice}, BOOLEAN)
    \union Offers({s1}, {bob}, {TRUE})
    \union Plain({"answer"}, {s1}, {alice, bob}) \union Plain({"ice"}, {s1}, {bob})

\* ... and the methods that only other callers use: hang-ups, failures, expiry.
AllCalls ==
    WireCalls
    \union Plain({"close", "fail"}, {s1}, {alice})
    \union Plain({"expire"}, {NoSession}, {alice})

\* The requests of a well-behaved pair of devices on two sessions: nothing here
\* makes a handler remove a session while it holds ws.mu.
HandshakeCalls ==
    Offers({NoSession}, {alice}, {TRUE})
    \union Plain({"answer"}, {s1, s2}, {bob})
    \union Plain({"expire"}, {NoSession}, {alice})

ThreadSymmetry == Permutations(Threads)
=============================================================================
