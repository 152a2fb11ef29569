----------------------------- MODULE MCBudgets -----------------------------
(***************************************************************************)
(* Instance of Budgets: two atomic groups and a group whose nodes are      *)
(* deleted one by one.                                                     *)
(***************************************************************************)
EXTENDS Budgets

CONSTANTS
  a1, a2, b1, p1, p2,          \* nodes
  atomicA, atomicB, plain          \* groups

MCNodes == {a1, a2, b1, p1, p2}
MCGroups == {atomicA, atomicB, plain}
MCAtomicGroups == {atomicA, atomicB}
MCGroupOf == [n \in MCNodes |-> CASE n \in {a1, a2} -> atomicA
                                  [] n = b1 -> atomicB
                                  [] OTHER -> plain]

Symmetry == Permutations({a1, a2}) \cup Permutations({p1, p2})

=============================================================================
