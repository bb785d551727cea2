------------------------------- MODULE MCLive -------------------------------
(* Instances of LiveRun for TLC.                                           *)
EXTENDS LiveProperties, TLC

Words == 0 .. Total - 1
SomeValid == {0, 1, 3}
SomeHolding == [c \in Words |-> CASE c = 1 -> {2} [] c = 3 -> {1, 2} [] OTHER -> {}]

Scenario(m, o, s) ==
    [mode |-> m, observer |-> o, start |-> s]

(* Upstream sees a run from its first candidate, the screen one that was   *)
(* resumed.                                                                *)
UpstreamAndScreen ==
    {Scenario("sweep", "upstream", 0), Scenario("walk", "upstream", 0),
     Scenario("sweep", "screen", 2), Scenario("walk", "screen", 2)}
=============================================================================
