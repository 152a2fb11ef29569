-------------------------- MODULE BasicSnapshotStore --------------------------
(***************************************************************************)
(* The store of a cluster snapshot as basic.go has it: a stack of full     *)
(* copies.  Its comment calls it the simple reference implementation.      *)
(*                                                                         *)
(* A node is Absent or the set of its pods.  Of the pods only the use of   *)
(* one volume claim (UsesClaim) and their affinity matter.                 *)
(***************************************************************************)
EXTENDS Naturals, Sequences

CONSTANTS
  Nodes, Pods, Absent,
  UsesClaim,            \* the pods that use the claim
  MaxForks              \* bound on the copies on top of the first

VARIABLES
  data,                 \* the stack, the current copy last
  ok                    \* whether the last operation returned no error

basicVars == <<data, ok>>

NodeInfos == SUBSET Pods
NodeMaps == [Nodes -> NodeInfos \union {Absent}]

Empty == [nodeInfoMap |-> [n \in Nodes |-> Absent], pvcPods |-> {}]

Top == Len(data)
Infos == data[Top].nodeInfoMap

(* getInternalData is written back with new nodes and users of the claim. *)
Becomes(infos, users) ==
  data' = [data EXCEPT ![Top] = [nodeInfoMap |-> infos, pvcPods |-> users]]

Fails == ok' = FALSE /\ UNCHANGED data
Works == ok' = TRUE

(* The callers place a pod that is on no node. *)
Placed(m) == UNION {m[n] : n \in {x \in Nodes : m[x] # Absent}}

Init == data = <<Empty>> /\ ok = TRUE

StoreNodeInfo(n, pods) ==
  /\ pods \intersect Placed(Infos) = {}
  /\ \/ Infos[n] # Absent /\ Fails
     \/ /\ Infos[n] = Absent
        /\ Becomes([Infos EXCEPT ![n] = pods],
                   data[Top].pvcPods \union (pods \intersect UsesClaim))
        /\ Works

RemoveNodeInfo(n) ==
  \/ Infos[n] = Absent /\ Fails
  \/ /\ Infos[n] # Absent
     /\ Becomes([Infos EXCEPT ![n] = Absent], data[Top].pvcPods \ Infos[n])
     /\ Works

StorePodInfo(p, n) ==
  /\ p \notin Placed(Infos)
  /\ \/ Infos[n] = Absent /\ Fails
     \/ /\ Infos[n] # Absent
        /\ Becomes([Infos EXCEPT ![n] = @ \union {p}],
                   data[Top].pvcPods \union ({p} \intersect UsesClaim))
        /\ Works

RemovePodInfo(p, n) ==
  \/ (Infos[n] = Absent \/ p \notin Infos[n]) /\ Fails
  \/ /\ Infos[n] # Absent /\ p \in Infos[n]
     /\ Becomes([Infos EXCEPT ![n] = @ \ {p}], data[Top].pvcPods \ {p})
     /\ Works

Fork ==
  /\ Top <= MaxForks
  /\ data' = Append(data, data[Top])
  /\ UNCHANGED ok

Revert ==
  /\ data' = IF Top = 1 THEN data ELSE SubSeq(data, 1, Top - 1)
  /\ UNCHANGED ok

Commit ==
  /\ data' = IF Top = 1 THEN data ELSE Append(SubSeq(data, 1, Top - 2), data[Top])
  /\ Works

Clear == data' = <<Empty>> /\ UNCHANGED ok

Next ==
  \/ \E n \in Nodes, pods \in NodeInfos : StoreNodeInfo(n, pods)
  \/ \E n \in Nodes : RemoveNodeInfo(n)
  \/ \E n \in Nodes, p \in Pods : StorePodInfo(p, n) \/ RemovePodInfo(p, n)
  \/ Fork \/ Revert \/ Commit \/ Clear

Spec == Init /\ [][Next]_basicVars
=============================================================================
