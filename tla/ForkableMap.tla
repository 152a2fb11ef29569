---------------------------- MODULE ForkableMap ------------------------------
(***************************************************************************)
(* What a Forkable promises (simulator/clustersnapshot): a map of which    *)
(* copies are put on a stack.  Fork copies it, Revert goes back to the     *)
(* copy below, and Commit makes the copy below like the one on top.        *)
(***************************************************************************)
EXTENDS Naturals, Sequences

CONSTANTS Keys, Values, Absent

VARIABLE copies

Maps == [Keys -> Values \union {Absent}]

CopiesTypeOK == copies \in Seq(Maps) /\ Len(copies) > 0

Init == copies \in {<<m>> : m \in Maps}

Top == Len(copies)
Visible == copies[Top]

(* The map changes from now on, but not what Revert goes back to. *)
Change(m) == copies' = [copies EXCEPT ![Top] = m]

Set(k, v) == Change([Visible EXCEPT ![k] = v])

Delete(k) == Change([Visible EXCEPT ![k] = Absent])

Fork == copies' = Append(copies, Visible)

Revert == /\ Top > 1
          /\ copies' = SubSeq(copies, 1, Top - 1)

Commit == /\ Top > 1
          /\ copies' = Append(SubSeq(copies, 1, Top - 2), Visible)

Next ==
  \/ \E k \in Keys, v \in Values : Set(k, v)
  \/ \E k \in Keys : Delete(k)
  \/ Fork \/ Revert \/ Commit

Spec == Init /\ [][Next]_copies
=============================================================================
