-------------------------- MODULE SessionLifecycle --------------------------
(***************************************************************************)
(* What the WebRTC session manager promises about the life of a session,   *)
(* with no thread, lock or clock in sight: a session is created once, is   *)
(* offered and answered at most once and in that order, ends once, and is  *)
(* forgotten by the registry only after it ended.  WebRTCManager (the Go   *)
(* code with its two levels of mutexes) is shown to implement it.          *)
(***************************************************************************)
CONSTANT Sessions

VARIABLES
    life,        \* life[s]: "unborn", "new", "connecting", "connected" or "done"
    registered   \* the sessions a lookup by id can find

lifecycleVars == <<life, registered>>

Live == {"new", "connecting", "connected"}

LifecycleInit ==
    /\ life = [s \in Sessions |-> "unborn"]
    /\ registered = {}

Create(s) ==
    /\ life[s] = "unborn"
    /\ life' = [life EXCEPT ![s] = "new"]
    /\ registered' = registered \union {s}

Offer(s) ==
    /\ life[s] = "new"
    /\ life' = [life EXCEPT ![s] = "connecting"]
    /\ UNCHANGED registered

Answer(s) ==
    /\ life[s] = "connecting"
    /\ life' = [life EXCEPT ![s] = "connected"]
    /\ UNCHANGED registered

\* A hang-up, a failure or a rejected offer ends the session.
Finish(s) ==
    /\ life[s] \in Live
    /\ life' = [life EXCEPT ![s] = "done"]
    /\ UNCHANGED registered

\* The registry lets go of a session that has ended.
Forget(s) ==
    /\ life[s] = "done"
    /\ s \in registered
    /\ registered' = registered \ {s}
    /\ UNCHANGED life

\* Expiry ends a session and forgets it in one step.
Lapse(s) ==
    /\ life[s] \in Live
    /\ life' = [life EXCEPT ![s] = "done"]
    /\ registered' = registered \ {s}

LifecycleNext ==
    \E s \in Sessions :
        Create(s) \/ Offer(s) \/ Answer(s) \/ Finish(s) \/ Forget(s) \/ Lapse(s)

LifecycleSpec == LifecycleInit /\ [][LifecycleNext]_lifecycleVars
=============================================================================
