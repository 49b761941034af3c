---------------------------- MODULE MCSupervisor -----------------------------
(* Instances of Supervisor for TLC.                                        *)
EXTENDS Supervisor

CONSTANTS h1, h2

OneHandler == {h1}
TwoHandlers == {h1, h2}

AllCommands == {"start", "stop", "switch", "reload"}
StopOnly == {"stop"}
SwitchOnly == {"switch"}
=============================================================================
