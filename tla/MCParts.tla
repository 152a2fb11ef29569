------------------------------- MODULE MCParts --------------------------------
(***************************************************************************)
(* Four parts of the Cluster Autoscaler that keep to themselves, side by   *)
(* side: the balancing of a scale-up (ScaleUpBalancing), the backoff of a  *)
(* node group (ExponentialBackoff), the results of node deletions          *)
(* (DeletionReports) and the resource claims of a snapshot (DraSnapshot).  *)
(* They share no state, and every behaviour works on one of them, so that  *)
(* the states of the run are the sum of theirs.                            *)
(***************************************************************************)
EXTENDS ScaleUpBalancing, ExponentialBackoff, DeletionReports, DraSnapshot

CONSTANTS
  a, b,                 \* pods
  own, shared           \* claims

(* Two pods share a claim, and the first has one of its own. *)
MCRefs == [p \in {a, b} |-> IF p = a THEN {own, shared} ELSE {shared}]
MCOwned == {<<a, own>>}

VARIABLE part           \* what the behaviour works on

partVars == <<vars, backoff, reportVars, draVars, part>>

(* There is nothing to balance, and no claim, where the behaviour is not   *)
(* about that.                                                             *)
PartsInit ==
  /\ part \in {"balancing", "backoff", "reports", "claims"}
  /\ Init
  /\ part # "balancing" => newNodes = 0 /\ \A g \in Groups : currentSize[g] + maxSize[g] = 0
  /\ BackoffInit
  /\ ReportsInit
  /\ DraInit
  /\ part # "claims" => \A c \in Claims : Find(c) = Absent /\ ~heap[c][InformerObject].allocated

PartsNext ==
  \/ part = "balancing" /\ Next /\ UNCHANGED <<backoff, reportVars, draVars, part>>
  \/ part = "backoff" /\ BackoffNext /\ UNCHANGED <<vars, reportVars, draVars, part>>
  \/ part = "reports" /\ ReportsNext /\ UNCHANGED <<vars, backoff, draVars, part>>
  \/ part = "claims" /\ DraNext /\ UNCHANGED <<vars, backoff, reportVars, part>>

PartsSpec ==
  /\ PartsInit /\ [][PartsNext]_partVars
  /\ WF_partVars(Next /\ UNCHANGED <<backoff, reportVars, draVars, part>>)

-----------------------------------------------------------------------------
(* The shape of the state, with durations between the initial and the      *)
(* maximal, results in the order of time and as many levels of claims as   *)
(* of pods.                                                                *)
PartsInvariant ==
  /\ BalancingTypeOK
  /\ BackoffTypeOK
  /\ ReportsTypeOK
  /\ DraTypeOK
=============================================================================
