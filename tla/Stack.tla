------------------------------- MODULE Stack --------------------------------
(***************************************************************************)
(* The two halves of the network stack: the endpoint that joins it to the  *)
(* device (LinkEndpoint), and its creation and handlers (NetStack).  What  *)
(* the endpoint injects is a packet of NetStack; neither looks into the    *)
(* other's state.                                                          *)
(***************************************************************************)
EXTENDS LinkEndpoint

CONSTANTS Configs, MinSize, MaxSize, DefaultSize, Packets, MaxConnAttempts, MaxPackets   \* of NetStack

VARIABLES cfg, opts, setting, result, requests, inFlight, busy

netstack == <<cfg, opts, setting, result, requests, inFlight, busy>>

Net == INSTANCE NetStack

ASSUME PartAssumption == Net!StackAssumption

-----------------------------------------------------------------------------
(* The properties of NetStack. *)

\* stack.go:64: no packet meets a stack that is configured by halves.
ConfiguredFirst == Net!ConfiguredFirst

\* Every TCP request that withTCPHandler's forwarder counts is completed once.
AttemptsCounted == Net!AttemptsCounted
=============================================================================
