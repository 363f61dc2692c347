---------------------------- MODULE ReconcilerMC ----------------------------
(***************************************************************************)
(* Instances of Reconciler: requests over a gateway source and a ledger    *)
(* source, and jobs and commands that name no source.                      *)
(***************************************************************************)
EXTENDS Reconciler

Names == {"", "A", "B"}
AsIs == [s \in Names |-> s]
LeastAmount == -8

Row(source, amount, day, counterparty) ==
    [source |-> source, amount |-> amount, currency |-> "EUR",
     occurredAt |-> day, counterparty |-> counterparty,
     ref |-> "", mentions |-> {}]

\* Two servers.  Both gateway transactions prefer l1, and g2 fits it exactly.
TwoSided == [g1 |-> Row("gw", 5, 0, ""), g2 |-> Row("gw", 5, 1, "A"),
             l1 |-> Row("lg", 5, 1, ""), l2 |-> Row("lg", -4, 1, "B")]
SidedRequest == [gw |-> "gw", lg |-> "lg", from |-> 0, to |-> 1]
TwoCalls == {"c1", "c2"}
TwoProcesses == {"p1", "p2"}
OneProcess == {"p1"}
OneEach == [c1 |-> "p1", c2 |-> "p2"]
Together == [c1 |-> "p1", c2 |-> "p1"]
BothHTTP == [c \in TwoCalls |-> "http"]
BothSided == [c \in TwoCalls |-> SidedRequest]
ThreeStored == {"g1", "g2", "l1"}
LateGateway == {"g2", "l1", "l2"}
AllStored == {"g1", "g2", "l1", "l2"}

\* A server with a scheduler, a command, and a server whose Redis was down.  None
\* names a source.
Unsided == [t1 |-> Row("gw", 5, 0, ""), t2 |-> Row("lg", 5, 0, ""),
            t3 |-> Row("lg", 4, 2, "B")]
MixedCalls == {"tick1", "tick2", "command", "request"}
MixedProcesses == {"server", "bare", "cli"}
MixedProcess == [tick1 |-> "server", tick2 |-> "server",
                 command |-> "cli", request |-> "bare"]
MixedOrigin == [tick1 |-> "scheduled", tick2 |-> "scheduled",
                command |-> "cli", request |-> "http"]
MixedRequest == [c \in MixedCalls |-> [gw |-> "", lg |-> "", from |-> 0, to |-> 2]]
UnsidedTxns == {"t1", "t2", "t3"}
UnsidedStored == {"t1", "t3"}
MixedNoRedis == {"cli", "bare"}
=============================================================================
