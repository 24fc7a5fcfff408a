---------------------------- MODULE MCSwarmMonitor ----------------------------
(***************************************************************************)
(* Two DefraDB nodes, of which only the first is a seed, and two brokers,  *)
(* of which one is a seed and the other is derived from the second node.   *)
(* Both addresses of DefraDB are of one node at first; what comes back at  *)
(* the second may be another.  The second broker may come back under the   *)
(* id the first one had.                                                   *)
(***************************************************************************)
EXTENDS SwarmMonitor

CONSTANTS d1, d2, b1, b2, i1, i2, i3

MCDefraSeeds == {d1}
MCBrokerSeeds == {<<b1, "root">>}
MCPeers == [d \in Defra |-> IF d = d1 THEN {d2} ELSE {}]
MCColocated == [d \in Defra |-> IF d = d2 THEN {b2} ELSE {}]
MCIds == [a \in Address |->
            CASE a = d1 -> {i1} [] a = d2 -> {i1, i2} [] a = b1 -> {i1, i3} [] a = b2 -> {i1, i2}]
MCFirstId == [a \in Address |-> IF a = b2 THEN i2 ELSE i1]
===============================================================================
