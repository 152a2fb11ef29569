----------------------------- MODULE NodeRemoval -----------------------------
(***************************************************************************)
(* What the main loop and the planner may rely on, without any of the      *)
(* goroutines, queues and batches that bring it about: a node's instance   *)
(* disappears only while the node is reported as being deleted and carries *)
(* the ToBeDeleted taint, a group that is deleted as a whole disappears in *)
(* one step, and a deletion that did not remove the node ends untainting   *)
(* at most that node.  A process that dies reports nothing any more, but   *)
(* what its calls still remove was reported and tainted before.            *)
(***************************************************************************)
EXTENDS NodeGroups

CONSTANT whole   \* groups whose nodes are only removed together

VARIABLES
  deleting,      \* nodes reported as under deletion
  toBeDeleted,   \* nodes with the ToBeDeleted taint
  instances      \* nodes that exist

removalVars == <<deleting, toBeDeleted, instances>>

Init ==
  /\ deleting = {}
  /\ toBeDeleted = {}
  /\ instances = Nodes

(* Nodes that nothing is reported for may be tainted, or untainted again.  *)
Taint ==
  /\ \E changed \in SUBSET (Nodes \ deleting) :
       toBeDeleted' \in SUBSET (toBeDeleted \cup changed)
  /\ toBeDeleted \cap deleting \subseteq toBeDeleted'
  /\ UNCHANGED <<deleting, instances>>

(* Tainted nodes are reported as being deleted. *)
Begin ==
  /\ \E started \in SUBSET (Nodes \ deleting) :
       /\ deleting' = deleting \cup started
       /\ toBeDeleted' = toBeDeleted \cup started
  /\ UNCHANGED instances

(* Instances of one group disappear. *)
Remove(g) ==
  /\ \E gone \in SUBSET (NodesOf(g) \cap deleting \cap toBeDeleted) :
       /\ g \in whole => NodesOf(g) \cap instances \subseteq gone
       /\ instances' = instances \ gone
  /\ UNCHANGED <<deleting, toBeDeleted>>

(* A deletion that is given up: the taint goes first. *)
Untaint(n) ==
  /\ n \in deleting
  /\ toBeDeleted' = toBeDeleted \ {n}
  /\ UNCHANGED <<deleting, instances>>

End(n) ==
  /\ n \in deleting
  /\ deleting' = deleting \ {n}
  /\ UNCHANGED <<toBeDeleted, instances>>

(***************************************************************************)
(* The process dies: nothing is reported any more, the taints stay, and of *)
(* the tainted nodes under deletion any may be gone, of a whole group all  *)
(* or none.                                                                *)
(***************************************************************************)
Restart ==
  /\ \E gone \in SUBSET (deleting \cap toBeDeleted) :
       /\ \A g \in whole :
            gone \cap NodesOf(g) = {} \/ NodesOf(g) \cap instances \subseteq gone
       /\ instances' = instances \ gone
  /\ deleting' = {}
  /\ UNCHANGED toBeDeleted

Next ==
  \/ Taint
  \/ Begin
  \/ \E g \in Groups : Remove(g)
  \/ \E n \in Nodes : Untaint(n) \/ End(n)

Spec == Init /\ [][Next]_removalVars

SpecWithRestarts == Init /\ [][Next \/ Restart]_removalVars

=============================================================================
