-------------------------------- MODULE MCVpa ---------------------------------
(* Two pods that are resized in place, three of which two may be away, and *)
(* two that the updater sees through a lister that lags behind.            *)
EXTENDS VpaUpdater

CONSTANTS p1, p2, p3

MCControllers ==
  {[pods |-> {p1, p2}, tolerance |-> 0, inPlace |-> TRUE, fresh |-> TRUE],
   [pods |-> {p1, p2, p3}, tolerance |-> 2, inPlace |-> FALSE, fresh |-> TRUE],
   [pods |-> {p1, p2}, tolerance |-> 0, inPlace |-> FALSE, fresh |-> FALSE]}
=============================================================================
