-------------------------- MODULE MCProdConsMonitor --------------------------
(* Module ProdConsMonitor for TLC. *)
EXTENDS ProdConsMonitor

CONSTANTS prod1, prod2, cons1, cons2

MCProducers == {prod1, prod2}
MCConsumers == {cons1, cons2}
MCProcs == MCProducers \cup MCConsumers
MCConds == {PRODUCER, CONSUMER}
MCSems == {mutex, next, PRODUCER, CONSUMER}
=============================================================================
