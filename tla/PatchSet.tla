------------------------------ MODULE PatchSet -------------------------------
(***************************************************************************)
(* PatchSet of simulator/common: a map that can be forked, kept as a stack *)
(* of patches with a cache over it.  The snapshots of dynamic resources    *)
(* and of CSI nodes are made of it.                                        *)
(*                                                                         *)
(* A patch leaves a key Untouched, has it Deleted, or has a value for it.  *)
(* The cache knows nothing of a key, or its value, or that it has NoValue. *)
(***************************************************************************)
EXTENDS Naturals, Sequences

CONSTANTS
  Keys, Values,
  Untouched, Deleted,   \* what a patch may say of a key instead of a value
  NoValue, Uncached,    \* what the cache may say of a key instead of a value
  MaxPatchForks         \* bound on the patches on top of the first

ASSUME PatchAssumption ==
  /\ Untouched \notin Values /\ Deleted \notin Values /\ Untouched # Deleted
  /\ NoValue \notin Values /\ Uncached \notin Values /\ NoValue # Uncached
  /\ MaxPatchForks \in Nat

VARIABLES patches, cache, cacheInSync

patchVars == <<patches, cache, cacheInSync>>

Patches == [Keys -> Values \union {Untouched, Deleted}]
NewPatch == [k \in Keys |-> Untouched]

-----------------------------------------------------------------------------
(* What a patch says is what is seen. *)
Seen(x) == IF x = Deleted THEN NoValue ELSE x

(* v is what the patches ps say of k, from the most recent to the oldest. *)
IsEffective(ps, k, v) ==
  \/ \E i \in 1..Len(ps) :
       /\ ps[i][k] # Untouched
       /\ \A j \in (i + 1)..Len(ps) : ps[j][k] = Untouched
       /\ v = Seen(ps[i][k])
  \/ /\ \A i \in 1..Len(ps) : ps[i][k] = Untouched
     /\ v = NoValue

PatchTop == Len(patches)

(* Set and Delete of the topmost patch. *)
WithCurrent(ps, k, x) == [ps EXCEPT ![Len(ps)] = [@ EXCEPT ![k] = x]]

(* Mutant of Merged: a key that the upper patch deletes is kept.           *)
MergedWithoutDeletions(a, b) ==
  [k \in Keys |-> IF b[k] \in {Untouched, Deleted} THEN a[k] ELSE b[k]]

(* mergePatchesInPlace *)
Merged(a, b) == [k \in Keys |-> IF b[k] = Untouched THEN a[k] ELSE b[k]]

-----------------------------------------------------------------------------
PatchInit ==
  /\ patches \in {<<base>> : base \in [Keys -> Values \union {Untouched}]}
  /\ cache = [k \in Keys |-> Uncached]
  /\ cacheInSync = FALSE

SetCurrent(k, v) ==
  /\ patches' = WithCurrent(patches, k, v)
  /\ cache' = [cache EXCEPT ![k] = v]
  /\ UNCHANGED cacheInSync

(* The nil pointer that stands for a key without a value. *)
CachedDeletion == NoValue

DeleteCurrent(k) ==
  /\ patches' = WithCurrent(patches, k, Deleted)
  /\ cache' = [cache EXCEPT ![k] = CachedDeletion]
  /\ UNCHANGED cacheInSync

PatchFork ==
  /\ PatchTop <= MaxPatchForks
  /\ patches' = Append(patches, NewPatch)
  /\ UNCHANGED <<cache, cacheInSync>>

PatchCommit ==
  /\ PatchTop > 1
  /\ patches' = [SubSeq(patches, 1, PatchTop - 1) EXCEPT
                   ![PatchTop - 1] = Merged(patches[PatchTop - 1], patches[PatchTop])]
  /\ UNCHANGED <<cache, cacheInSync>>

(* Mutant of Forgets: only the values are forgotten, not the deletions.    *)
ForgetsValues(x) == x \notin {Untouched, Deleted}

(* What Revert takes out of the cache. *)
Forgets(x) == x # Untouched

InSyncAfterRevert == FALSE

PatchRevert ==
  /\ PatchTop > 1
  /\ patches' = SubSeq(patches, 1, PatchTop - 1)
  /\ cache' = [k \in Keys |-> IF Forgets(patches[PatchTop][k]) THEN Uncached ELSE cache[k]]
  /\ cacheInSync' = InSyncAfterRevert

(* FindValue of a key that is not cached; otherwise it changes nothing. *)
FindValue(k) ==
  /\ cache[k] = Uncached
  /\ \E v \in Values \union {NoValue} :
       /\ IsEffective(patches, k, v)
       /\ cache' = [cache EXCEPT ![k] = v]
  /\ UNCHANGED <<patches, cacheInSync>>

(* AsMap when the cache is not in sync: keys without a value stay as they  *)
(* are in the cache.                                                       *)
AsMap ==
  /\ ~cacheInSync
  /\ \E m \in [Keys -> Values \union {NoValue}] :
       /\ \A k \in Keys : IsEffective(patches, k, m[k])
       /\ cache' = [k \in Keys |-> IF m[k] # NoValue THEN m[k] ELSE cache[k]]
  /\ cacheInSync' = TRUE
  /\ UNCHANGED patches

PatchNext ==
  \/ \E k \in Keys, v \in Values : SetCurrent(k, v)
  \/ \E k \in Keys : DeleteCurrent(k) \/ FindValue(k)
  \/ PatchFork \/ PatchCommit \/ PatchRevert \/ AsMap

PatchSpec == PatchInit /\ [][PatchNext]_patchVars

-----------------------------------------------------------------------------
PatchTypeOK ==
  /\ patches \in Seq(Patches) /\ Len(patches) \in 1..(MaxPatchForks + 1)
  /\ cache \in [Keys -> Values \union {NoValue, Uncached}]
  /\ cacheInSync \in BOOLEAN

(* FindValue answers from the cache what the patches would answer, however *)
(* often they were forked, reverted and committed since.                   *)
CacheSound == \A k \in Keys : cache[k] # Uncached => IsEffective(patches, k, cache[k])

(* AsMap answers from a cache in sync with all keys that have a value.     *)
CacheComplete ==
  cacheInSync =>
    \A k \in Keys : \A v \in Values : IsEffective(patches, k, v) => cache[k] = v

(* The cache keeps its shape and answers as the patches would, one key or  *)
(* all of them.                                                            *)
CacheCorrect == PatchTypeOK /\ CacheSound /\ CacheComplete

(* The copies of the map are what the patches up to each level say.        *)
PatchView(ps) ==
  [k \in Keys |-> CHOOSE v \in Values \union {NoValue} : IsEffective(ps, k, v)]

Copies == [i \in 1..Len(patches) |-> PatchView(SubSeq(patches, 1, i))]

Map == INSTANCE ForkableMap WITH copies <- Copies, Absent <- NoValue

(* A PatchSet is a map that can be forked: it implements ForkableMap, and  *)
(* reading it through the cache is a step that changes nothing.            *)
PatchesImplementMap == Map!Spec
=============================================================================
