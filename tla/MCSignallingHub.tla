-------------------------- MODULE MCSignallingHub --------------------------
(***************************************************************************)
(* Two devices, one of which reconnects.                                   *)
(***************************************************************************)
EXTENDS SignallingHub, TLC

CONSTANTS alice, bob, a1, a2, b1

FrameLimit == (a1 :> 1) @@ (a2 :> 0) @@ (b1 :> 2)
DeviceOf == (a1 :> alice) @@ (a2 :> alice) @@ (b1 :> bob)
=============================================================================
