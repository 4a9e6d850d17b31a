----------------------- MODULE MCConnectionRuntime -----------------------
(***************************************************************************)
(* Instances of ConnectionRuntime for TLC.                                  *)
(***************************************************************************)
EXTENDS ConnectionRuntime

CONSTANTS r1, r2

Scenario(p, o, f) == [platform |-> p, ops |-> o, faults |-> f]
\* Two requests of any kind, or one and a fault.
MCScenarios ==
  UNION {{Scenario(p, 2, 0), Scenario(p, 1, 1)} : p \in {"lark", "wecom_ilink", "websocket"}}
============================================================================
