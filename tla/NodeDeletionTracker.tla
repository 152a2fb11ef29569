------------------------ MODULE NodeDeletionTracker ------------------------
(***************************************************************************)
(* deletiontracker.NodeDeletionTracker: the record of the node deletions   *)
(* in progress that the actuator's goroutines keep and that the main loop  *)
(* reads, live in CropNodes and as a snapshot in the planner.  Each method *)
(* holds the tracker's mutex, so each operator below is one step of a      *)
(* module that extends this one.                                           *)
(*                                                                         *)
(* A missing key of the counter map is the value 0 here.  The two expiring *)
(* lists the tracker also keeps, of deletion results and of evictions, are *)
(* never read back by the actuator and are left out.                       *)
(***************************************************************************)
EXTENDS NodeGroups

VARIABLES
  deletionsPerNodeGroup,  \* [Groups -> Nat], deletions in progress
  emptyNodeDeletions,     \* empty nodes under deletion
  drainedNodeDeletions    \* nodes under drain and deletion

trackerVars == <<deletionsPerNodeGroup, emptyNodeDeletions, drainedNodeDeletions>>

TrackerTypeOK ==
  /\ deletionsPerNodeGroup \in [Groups -> Nat]
  /\ emptyNodeDeletions \subseteq Nodes
  /\ drainedNodeDeletions \subseteq Nodes

TrackerInit ==
  /\ deletionsPerNodeGroup = [g \in Groups |-> 0]
  /\ emptyNodeDeletions = {}
  /\ drainedNodeDeletions = {}

(* DeletionsInProgress, both lists together. *)
InProgress == emptyNodeDeletions \cup drainedNodeDeletions

(* Mutant of CountStarted: one per list of nodes instead of one per node.  *)
CountGroupOnce(started) ==
  deletionsPerNodeGroup' =
    [g \in Groups |-> deletionsPerNodeGroup[g]
                       + (IF started \cap NodesOf(g) = {} THEN 0 ELSE 1)]

CountStarted(started) ==
  deletionsPerNodeGroup' =
    [g \in Groups |-> deletionsPerNodeGroup[g] + Cardinality(started \cap NodesOf(g))]

(* The main loop calls StartDeletion for each node of a list before it     *)
(* starts any of their goroutines; the calls are one step here.            *)
TrackStart(started) ==
  /\ CountStarted(started)
  /\ emptyNodeDeletions' = emptyNodeDeletions \cup started
  /\ UNCHANGED drainedNodeDeletions

TrackStartWithDrain(started) ==
  /\ CountStarted(started)
  /\ drainedNodeDeletions' = drainedNodeDeletions \cup started
  /\ UNCHANGED emptyNodeDeletions

(* Mutant of TrackEnd: the early return is off by one.                     *)
TrackEndKeepsLast(n) ==
  LET g == GroupOf[n]
  IN  IF deletionsPerNodeGroup[g] <= 1
        THEN UNCHANGED trackerVars
        ELSE /\ deletionsPerNodeGroup' = [deletionsPerNodeGroup EXCEPT ![g] = @ - 1]
             /\ emptyNodeDeletions' = emptyNodeDeletions \ {n}
             /\ drainedNodeDeletions' = drainedNodeDeletions \ {n}

(* EndDeletion: without a counter for the group the call returns early and *)
(* leaves the two sets alone.                                              *)
TrackEnd(n) ==
  LET g == GroupOf[n]
  IN  IF deletionsPerNodeGroup[g] = 0
        THEN UNCHANGED trackerVars
        ELSE /\ deletionsPerNodeGroup' = [deletionsPerNodeGroup EXCEPT ![g] = @ - 1]
             /\ emptyNodeDeletions' = emptyNodeDeletions \ {n}
             /\ drainedNodeDeletions' = drainedNodeDeletions \ {n}

(***************************************************************************)
(* The counter of a group, which the planner subtracts from the group's    *)
(* size, agrees with the two sets, which the budgets and the candidate     *)
(* filter read: StartDeletion, StartDeletionWithDrain and EndDeletion keep *)
(* them in step although each only adjusts them by one.                    *)
(***************************************************************************)
TrackerConsistent ==
  /\ \A g \in Groups :
       deletionsPerNodeGroup[g] = Cardinality(InProgress \cap NodesOf(g))
  /\ emptyNodeDeletions \cap drainedNodeDeletions = {}

=============================================================================
