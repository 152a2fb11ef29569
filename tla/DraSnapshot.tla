----------------------------- MODULE DraSnapshot ------------------------------
(***************************************************************************)
(* The resource claims of a cluster snapshot: dynamicresources/snapshot    *)
(* under PredicateSnapshot, which keeps them in step with the pods of its  *)
(* store.  Claims are objects that are changed in place, and the objects   *)
(* of the first patch are those of the informer (provider.go copies none). *)
(*                                                                         *)
(* The patches are those of PatchSet; that its cache agrees with them is   *)
(* proved in PatchProofs, so that they are read directly here.  An         *)
(* operation goes through the claims of a pod one by one; as an object is  *)
(* of one claim only, whatever their order, they are changed together.     *)
(***************************************************************************)
EXTENDS Naturals, SequencesExt

CONSTANTS
  Pods, Claims,
  Refs,                 \* pod -> the claims that it references
  Owned,                \* the pairs <<pod, claim>> of a claim made for the pod
  Untouched, Deleted,   \* what a patch may say of a claim
  Absent,
  MaxReserved,          \* ResourceClaimReservedForMaxSize
  MaxForks              \* bound on the patches on top of the first

ASSUME DraAssumption ==
  /\ Refs \in [Pods -> SUBSET Claims]
  /\ MaxForks \in Nat /\ IsFiniteSet(Pods)
  /\ {Untouched, Deleted, Absent} \intersect Nat = {}
  /\ Untouched # Deleted

VARIABLES
  patches,              \* claim -> which of its objects, the topmost patch last
  heap,                 \* claim -> object -> its reservations and whether it is allocated
  placed,               \* the pods in the store, at every level
  unmatched,            \* history: the pods whose reservations do not match it
  panicked

draVars == <<patches, heap, placed, unmatched, panicked>>

(* The objects of a claim: that of the informer, and copies, which are     *)
(* collected when nothing refers to them any more.                         *)
InformerObject == 0
Copies == 1..(MaxForks + 1)
Objects == {InformerObject} \union Copies

ClaimStates == [reserved : SUBSET Pods, allocated : BOOLEAN]
Blank == [reserved |-> {}, allocated |-> FALSE]

Refers(ps, c, o) == \E i \in DOMAIN ps : ps[i][c] = o

Collected(ps, h) ==
  [c \in Claims |-> [o \in Objects |->
    IF o = InformerObject \/ Refers(ps, c, o) THEN h[c][o] ELSE Blank]]

Level == Len(patches)

-----------------------------------------------------------------------------
(* What the patches ps say of a claim, from the most recent to the oldest. *)
Effective(ps, c) ==
  LET says == {i \in DOMAIN ps : ps[i][c] # Untouched}
  IN  IF says = {} \/ ps[Max(says)][c] = Deleted THEN Absent ELSE ps[Max(says)][c]

Find(c) == Effective(patches, c)
ClaimOf(c) == heap[c][Find(c)]
Found(p) == \A c \in Refs[p] : Find(c) # Absent

InCurrentPatch(c) == patches[Level][c] \notin {Untouched, Deleted}

(* A new copy, for the topmost patch: a copy that it had itself is free.   *)
Fresh(c) == CHOOSE o \in Copies : \A i \in 1..(Level - 1) : patches[i][c] # o

(* Mutant of Writable: a claim of a lower patch is not copied.             *)
WritableInPlace(c) == Find(c)

(* ensureClaimWritable: the object of the current patch itself, or a copy. *)
Writable(c) == IF InCurrentPatch(c) THEN patches[Level][c] ELSE Fresh(c)

(* SetCurrent, or DeleteCurrent, of the claims that entry is about, and    *)
(* what was written into their objects.                                    *)
Becomes(entry, object, claim) ==
  LET top == [c \in Claims |-> IF c \in DOMAIN entry THEN entry[c] ELSE patches[Level][c]]
      h == [c \in Claims |-> IF c \in DOMAIN entry THEN [heap[c] EXCEPT ![object[c]] = claim[c]]
                             ELSE heap[c]]
  IN  /\ patches' = [patches EXCEPT ![Level] = top]
      /\ heap' = Collected(patches', h)

(* The pods of the store, and those whose reservations do not match it: a  *)
(* pod in the store without its reservations, or out of it with them.      *)
Place(ps, us) ==
  /\ placed' = [placed EXCEPT ![Level] = ps]
  /\ unmatched' = [unmatched EXCEPT ![Level] = us]

-----------------------------------------------------------------------------
(* A snapshot of a cluster in which scheduled pods reserve allocated       *)
(* claims; a claim that no scheduled pod needs may not exist yet.          *)
DraInit ==
  /\ \E scheduled \in SUBSET Pods : \E missing \in SUBSET Claims, unused \in SUBSET Claims :
       LET users(c) == {p \in scheduled : c \in Refs[p]}
       IN  /\ \A c \in missing \union unused : users(c) = {}
           /\ placed = <<scheduled>> /\ unmatched = <<{}>>
           /\ patches = <<[c \in Claims |-> IF c \in missing THEN Untouched ELSE InformerObject]>>
           /\ heap = [c \in Claims |-> [o \in Objects |->
                IF o = InformerObject THEN [reserved |-> users(c), allocated |-> c \notin unused]
                ELSE Blank]]
  /\ panicked = FALSE

(* The scheduler's Reserve phase gives a claim that is not allocated a     *)
(* copy that is (SignalClaimPendingAllocation).                            *)
Allocated(c) == IF ClaimOf(c).allocated THEN Writable(c) ELSE Fresh(c)

Reserved(p, x) == [reserved |-> x.reserved \union {p}, allocated |-> TRUE]

(* The filters refuse a claim that has all its reservations, but for a pod *)
(* that has one of them.                                                   *)
PassesFilters(p) ==
  /\ ~panicked
  /\ p \notin placed[Level] /\ Found(p)
  /\ \A c \in Refs[p] : p \in ClaimOf(c).reserved \/ Cardinality(ClaimOf(c).reserved) < MaxReserved

(* RunReserveOnNode and ReservePodClaims. *)
ModifyResourceClaims(p) ==
  LET object == [c \in Refs[p] |-> Allocated(c)]
  IN  Becomes(object, object, [c \in Refs[p] |-> Reserved(p, ClaimOf(c))])

SchedulePod(p) ==
  /\ PassesFilters(p)
  /\ ModifyResourceClaims(p)
  /\ Place(placed[Level] \union {p}, unmatched[Level] \ {p})
  /\ UNCHANGED panicked

(* An error once the filters have passed is not cleaned up after: Reserve  *)
(* may have allocated some of the claims, and with an error of the check   *)
(* of the claims or of the store all are allocated and reserved.           *)
SchedulePodFails(p) ==
  /\ PassesFilters(p)
  /\ \/ /\ \E some \in SUBSET {c \in Refs[p] : ~ClaimOf(c).allocated} :
             LET object == [c \in some |-> Allocated(c)]
             IN  Becomes(object, object, [c \in some |-> [ClaimOf(c) EXCEPT !.allocated = TRUE]])
        /\ UNCHANGED <<placed, unmatched>>
     \/ /\ ModifyResourceClaims(p)
        /\ Place(placed[Level], unmatched[Level] \union {p})
  /\ UNCHANGED panicked

(* The pod p enters or leaves the store, and its reservations stay.        *)
Flipped(p) == IF p \in unmatched[Level] THEN unmatched[Level] \ {p} ELSE unmatched[Level] \union {p}

(* A pod that waits for preemption is added without reservations for it.   *)
ForceAddPod(p) ==
  /\ ~panicked
  /\ p \notin placed[Level] /\ Found(p)
  /\ Place(placed[Level] \union {p}, Flipped(p))
  /\ UNCHANGED <<patches, heap, panicked>>

(* Of the interface of the snapshot, though only tests call it.            *)
ForceRemovePod(p) ==
  /\ ~panicked
  /\ p \in placed[Level]
  /\ Place(placed[Level] \ {p}, Flipped(p))
  /\ UNCHANGED <<patches, heap, panicked>>

Unreserved(p, c, x) ==
  [reserved |-> x.reserved \ {p},
   allocated |-> x.allocated /\ <<p, c>> \notin Owned /\ x.reserved \ {p} # {}]

UnschedulePod(p) ==
  /\ ~panicked
  /\ p \in placed[Level] /\ Found(p)
  /\ LET object == [c \in Refs[p] |-> Writable(c)]
     IN  Becomes(object, object, [c \in Refs[p] |-> Unreserved(p, c, ClaimOf(c))])
  /\ Place(placed[Level] \ {p}, unmatched[Level] \ {p})
  /\ UNCHANGED panicked

OwnClaims(p) == {c \in Refs[p] : <<p, c>> \in Owned}
OtherClaims(p) == Refs[p] \ OwnClaims(p)

(* Whether findPodClaims leaves no nil among the claims that it returns    *)
(* for each of the pods, one after the other.                              *)
TracksAll(pods) ==
  \A i \in DOMAIN pods :
    Found(pods[i]) /\ \A j \in 1..(i - 1) : Refs[pods[i]] \intersect OwnClaims(pods[j]) = {}

(* RemovePodOwnedClaims of the pods ps: a claim that was made for one of   *)
(* them goes, in others the pods have no reservation any more.             *)
RemovePodOwnedClaims(ps) ==
  LET claims == UNION {Refs[p] : p \in ps}
      removed == UNION {OwnClaims(p) : p \in ps}
      users(c) == {p \in ps : c \in OtherClaims(p)}
  IN  Becomes([c \in claims |-> IF c \in removed THEN Deleted ELSE Writable(c)],
              [c \in claims |-> Writable(c)],
              [c \in claims |-> [ClaimOf(c) EXCEPT !.reserved = @ \ users(c)]])

(* RemoveNodeInfo of a node with the pods of the sequence.  GetClaimId of  *)
(* a claim that findPodClaims left nil panics.                             *)
RemoveNodeInfo(pods) ==
  /\ ~panicked
  /\ panicked' = ~TracksAll(pods)
  /\ IF TracksAll(pods)
       THEN /\ RemovePodOwnedClaims(ToSet(pods))
            /\ Place(placed[Level] \ ToSet(pods), unmatched[Level] \ ToSet(pods))
       ELSE UNCHANGED <<patches, heap, placed, unmatched>>

Fork ==
  /\ ~panicked
  /\ Level <= MaxForks
  /\ patches' = Append(patches, [c \in Claims |-> Untouched])
  /\ placed' = Append(placed, placed[Level])
  /\ unmatched' = Append(unmatched, unmatched[Level])
  /\ UNCHANGED <<heap, panicked>>

(* mergePatchesInPlace. *)
Merged(lower, upper) == [c \in Claims |-> IF upper[c] = Untouched THEN lower[c] ELSE upper[c]]

MergedPatches ==
  Append(SubSeq(patches, 1, Level - 2), Merged(patches[Level - 1], patches[Level]))

(* Mutant of Revert: what happened to the claims is kept.                  *)
RevertPodsOnly ==
  /\ ~panicked
  /\ Level > 1
  /\ patches' = MergedPatches
  /\ placed' = SubSeq(placed, 1, Level - 1)
  /\ unmatched' = SubSeq(unmatched, 1, Level - 1)
  /\ heap' = Collected(patches', heap)
  /\ UNCHANGED panicked

Revert ==
  /\ ~panicked
  /\ Level > 1
  /\ patches' = SubSeq(patches, 1, Level - 1)
  /\ placed' = SubSeq(placed, 1, Level - 1)
  /\ unmatched' = SubSeq(unmatched, 1, Level - 1)
  /\ heap' = Collected(patches', heap)
  /\ UNCHANGED panicked

Commit ==
  /\ ~panicked
  /\ Level > 1
  /\ patches' = MergedPatches
  /\ placed' = Append(SubSeq(placed, 1, Level - 2), placed[Level])
  /\ unmatched' = Append(SubSeq(unmatched, 1, Level - 2), unmatched[Level])
  /\ heap' = Collected(patches', heap)
  /\ UNCHANGED panicked

RemoveNode == \E ps \in (SUBSET placed[Level]) \ {{}} : \E pods \in SetToSeqs(ps) : RemoveNodeInfo(pods)

DraNext ==
  \/ \E p \in Pods : SchedulePod(p) \/ SchedulePodFails(p) \/ UnschedulePod(p)
  \/ \E p \in Pods : ForceAddPod(p) \/ ForceRemovePod(p)
  \/ RemoveNode \/ Fork \/ Revert \/ Commit

DraSpec == DraInit /\ [][DraNext]_draVars

-----------------------------------------------------------------------------
DraTypeOK ==
  /\ Level \in 1..(MaxForks + 1)
  /\ \A i \in DOMAIN patches : patches[i] \in [Claims -> Objects \union {Untouched, Deleted}]
  /\ heap \in [Claims -> [Objects -> ClaimStates]]
  /\ Len(placed) = Level /\ \A i \in DOMAIN placed : placed[i] \subseteq Pods
  /\ Len(unmatched) = Level /\ \A i \in DOMAIN unmatched : unmatched[i] \subseteq Pods
  /\ panicked \in BOOLEAN

Below(i) == SubSeq(patches, 1, i)
Value(ps, h, c) == IF Effective(ps, c) = Absent THEN Absent ELSE h[c][Effective(ps, c)]

Holders(ps, us) == (ps \ us) \union (us \ ps)

(* At every level, what Revert would go back to included, a claim is       *)
(* reserved for exactly the pods of the store that reference it, but for   *)
(* those that ForceAddPod placed, and for pods out of the store that a     *)
(* failed SchedulePod, or ForceRemovePod, left their reservations.  Such   *)
(* a pod is an exception only until it is scheduled, unscheduled or        *)
(* removed with its node.  A reserved claim is allocated, and a claim that *)
(* a pod of either kind references is there.                               *)
ReservedByPlaced ==
  \A i \in DOMAIN patches : \A c \in Claims :
    LET o == Effective(Below(i), c)
    IN  IF o = Absent THEN \A p \in placed[i] \union unmatched[i] : c \notin Refs[p]
        ELSE /\ heap[c][o].reserved = {p \in Holders(placed[i], unmatched[i]) : c \in Refs[p]}
             /\ heap[c][o].reserved # {} => heap[c][o].allocated

(* No operation changes what a lower level says of a claim, nor, while the *)
(* snapshot is forked, an object of the informer.                          *)
LowerLevelsKept ==
  [][/\ \A i \in 1..(Level - 1) : i < Len(patches') =>
          \A c \in Claims : Value(Below(i), heap, c) = Value(SubSeq(patches', 1, i), heap', c)
     /\ Level > 1 => \A c \in Claims : heap'[c][InformerObject] = heap[c][InformerObject]]_draVars

(* RemovePodOwnedClaims always finds the claims of the pods it is called   *)
(* for, because forks, reverts and removals keep the claims in step with   *)
(* the pods of the store.  The comment of the function, "doesn't error out *)
(* if any of the claims are missing", goes further, and is wrong: with a   *)
(* pod that references the claim made for another pod of its node          *)
(* (Refs[b] = {own, shared}) the claim is missing when its turn comes.     *)
NeverPanics == ~panicked

(* Not kept: the claims of the snapshot are reserved for the pods that are *)
(* in it.  A pod waiting for preemption is added by ForceAddPod, without.  *)
ReservedForEachPlaced ==
  \A c \in Claims : Find(c) # Absent =>
    ClaimOf(c).reserved = {p \in placed[Level] : c \in Refs[p]}

(* Not kept: the snapshot is modified to simulate scheduling, what the     *)
(* informer has of the cluster is not.  Without a fork a claim of the      *)
(* informer is InCurrentPatch, and changed in place; README, section 4.    *)
InformerUntouched ==
  [][\A c \in Claims : heap'[c][InformerObject] = heap[c][InformerObject]]_draVars
=============================================================================
