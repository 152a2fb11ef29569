----------------------------- MODULE PatchProofs -----------------------------
(***************************************************************************)
(* The cache of a PatchSet agrees with its patches, for any keys, values   *)
(* and number of forks.                                                    *)
(***************************************************************************)
EXTENDS PatchSet, SequenceTheorems, NaturalsInduction, WellFoundedInduction, TLAPS

PatchInv == PatchTypeOK /\ CacheSound /\ CacheComplete

-----------------------------------------------------------------------------
(* What a patch set says of a key, for a stack ps of n patches of which    *)
(* only what they say of the key matters.                                  *)
Says(n, col, v) ==
  \/ \E i \in 1..n : /\ col[i] # Untouched
                     /\ \A j \in (i + 1)..n : col[j] = Untouched
                     /\ v = Seen(col[i])
  \/ (\A i \in 1..n : col[i] = Untouched) /\ v = NoValue

Column(ps, k) == [i \in 1..Len(ps) |-> ps[i][k]]

LEMMA EffectiveIsSays ==
  ASSUME NEW ps \in Seq(Patches), NEW k, NEW v
  PROVE  IsEffective(ps, k, v) <=> Says(Len(ps), Column(ps, k), v)
<1>1. Len(ps) \in Nat
  OBVIOUS
<1>2. \A i \in 1..Len(ps) : Column(ps, k)[i] = ps[i][k]
  BY DEF Column
<1>3. \A i \in 1..Len(ps) : \A j \in (i + 1)..Len(ps) : j \in 1..Len(ps)
  BY <1>1
<1> QED
  BY <1>2, <1>3 DEF IsEffective, Says

(* No two values are effective at once. *)
LEMMA SaysOneThing ==
  ASSUME NEW n \in Nat, NEW col, NEW v, NEW w, Says(n, col, v), Says(n, col, w)
  PROVE  v = w
<1>1. CASE \A i \in 1..n : col[i] = Untouched
  BY <1>1 DEF Says
<1>2. CASE \E i \in 1..n : col[i] # Untouched
  <2>1. PICK i \in 1..n : /\ col[i] # Untouched /\ v = Seen(col[i])
                          /\ \A j \in (i + 1)..n : col[j] = Untouched
    BY <1>2 DEF Says
  <2>2. PICK m \in 1..n : /\ col[m] # Untouched /\ w = Seen(col[m])
                          /\ \A j \in (m + 1)..n : col[j] = Untouched
    BY <1>2 DEF Says
  <2>3. i = m
    BY <2>1, <2>2
  <2> QED
    BY <2>1, <2>2, <2>3
<1> QED
  BY <1>1, <1>2

LEMMA OneEffective ==
  ASSUME NEW ps \in Seq(Patches), NEW k, NEW v, NEW w,
         IsEffective(ps, k, v), IsEffective(ps, k, w)
  PROVE  v = w
<1>1. Len(ps) \in Nat
  OBVIOUS
<1> QED
  BY <1>1, EffectiveIsSays, SaysOneThing

(* An untouched patch on top changes nothing. *)
LEMMA UntouchedTop ==
  ASSUME NEW n \in Nat, NEW col, NEW down, NEW v,
         col[n + 1] = Untouched, \A i \in 1..n : col[i] = down[i]
  PROVE  Says(n + 1, col, v) <=> Says(n, down, v)
<1>1. 1..(n + 1) = (1..n) \union {n + 1}
  OBVIOUS
<1>2. \A i \in 1..n : (i + 1)..(n + 1) = ((i + 1)..n) \union {n + 1}
  OBVIOUS
<1>3. \A i \in 1..n : \A j \in (i + 1)..n : j \in 1..n
  OBVIOUS
<1>4. ASSUME Says(n + 1, col, v) PROVE Says(n, down, v)
  BY <1>1, <1>2, <1>3, <1>4 DEF Says
<1>5. ASSUME Says(n, down, v) PROVE Says(n + 1, col, v)
  BY <1>1, <1>2, <1>3, <1>5 DEF Says
<1> QED
  BY <1>4, <1>5

(* Two patches say together what the merged one says. *)
LEMMA MergedTop ==
  ASSUME NEW n \in Nat \ {0}, NEW col, NEW down, NEW v,
         \A i \in 1..(n - 1) : col[i] = down[i],
         down[n] = IF col[n + 1] = Untouched THEN col[n] ELSE col[n + 1]
  PROVE  Says(n + 1, col, v) <=> Says(n, down, v)
<1>1. CASE col[n + 1] = Untouched
  <2>1. \A i \in 1..n : col[i] = down[i]
    BY <1>1
  <2> QED
    BY <1>1, <2>1, UntouchedTop
<1>2. CASE col[n + 1] # Untouched
  <2>1. Says(n + 1, col, v) <=> v = Seen(col[n + 1])
    BY <1>2 DEF Says
  <2>2. Says(n, down, v) <=> v = Seen(down[n])
    <3>1. down[n] # Untouched
      BY <1>2
    <3> QED
      BY <3>1 DEF Says
  <2> QED
    BY <1>2, <2>1, <2>2
<1> QED
  BY <1>1, <1>2

(* What a change of the topmost patch changes. *)
LEMMA ChangedTop ==
  ASSUME NEW ps \in Seq(Patches), Len(ps) > 0, NEW k \in Keys,
         NEW x \in Values \union {Deleted}
  PROVE  /\ WithCurrent(ps, k, x) \in Seq(Patches)
         /\ Len(WithCurrent(ps, k, x)) = Len(ps)
         /\ \A v : IsEffective(WithCurrent(ps, k, x), k, v) <=> v = Seen(x)
         /\ \A h \in Keys \ {k} : \A v :
              IsEffective(WithCurrent(ps, k, x), h, v) <=> IsEffective(ps, h, v)
<1> DEFINE qs == WithCurrent(ps, k, x)
           n == Len(ps)
<1>1. n \in Nat /\ n >= 1 /\ ps[n] \in Patches
  OBVIOUS
<1>2. [ps[n] EXCEPT ![k] = x] \in Patches
  BY <1>1 DEF Patches
<1>3. qs \in Seq(Patches) /\ Len(qs) = n
      /\ qs[n] = [ps[n] EXCEPT ![k] = x]
      /\ \A i \in 1..n : i # n => qs[i] = ps[i]
  BY <1>1, <1>2 DEF WithCurrent
<1>4. qs[n][k] = x /\ \A h \in Keys \ {k} : qs[n][h] = ps[n][h]
  BY <1>1, <1>3 DEF Patches
<1> HIDE DEF qs
<1>5. x # Untouched
  BY PatchAssumption
<1>6. ASSUME NEW v PROVE IsEffective(qs, k, v) <=> v = Seen(x)
  <2>1. \A j \in 1..n : j = n \/ n \in (j + 1)..n
    BY <1>1
  <2>2. n \in 1..n /\ (n + 1)..n = {}
    BY <1>1
  <2> QED
    BY <1>3, <1>4, <1>5, <2>1, <2>2 DEF IsEffective
<1>7. ASSUME NEW h \in Keys \ {k}, NEW v PROVE IsEffective(qs, h, v) <=> IsEffective(ps, h, v)
  <2>1. \A i \in 1..n : qs[i][h] = ps[i][h]
    BY <1>3, <1>4
  <2>2. \A i \in 1..n : \A j \in (i + 1)..n : j \in 1..n
    BY <1>1
  <2> HIDE DEF n
  <2> QED
    BY <1>3, <2>1, <2>2 DEF IsEffective, n
<1> QED
  BY <1>3, <1>6, <1>7 DEF qs

(* A new patch on top says nothing. *)
LEMMA ForkedTop ==
  ASSUME NEW ps \in Seq(Patches)
  PROVE  /\ Append(ps, NewPatch) \in Seq(Patches)
         /\ \A k \in Keys : \A v :
              IsEffective(Append(ps, NewPatch), k, v) <=> IsEffective(ps, k, v)
<1> DEFINE qs == Append(ps, NewPatch)
           n == Len(ps)
<1>1. NewPatch \in Patches /\ \A k \in Keys : NewPatch[k] = Untouched
  BY DEF NewPatch, Patches
<1>2. /\ n \in Nat /\ qs \in Seq(Patches) /\ Len(qs) = n + 1
      /\ qs[n + 1] = NewPatch
      /\ \A i \in 1..n : qs[i] = ps[i]
  BY <1>1
<1>3. ASSUME NEW k \in Keys, NEW v PROVE IsEffective(qs, k, v) <=> IsEffective(ps, k, v)
  <2> HIDE DEF qs
  <2>1. /\ Column(qs, k)[n + 1] = Untouched
        /\ \A i \in 1..n : Column(qs, k)[i] = Column(ps, k)[i]
    BY <1>1, <1>2 DEF Column
  <2>2. Says(n + 1, Column(qs, k), v) <=> Says(n, Column(ps, k), v)
    BY <1>2, <2>1, UntouchedTop
  <2> QED
    BY <1>2, <2>2, EffectiveIsSays
<1> QED
  BY <1>2, <1>3

(* The two patches on top, merged, say what they said. *)
LEMMA CommittedTop ==
  ASSUME NEW ps \in Seq(Patches), NEW n \in Nat \ {0}, Len(ps) = n + 1,
         NEW qs, qs = [SubSeq(ps, 1, n) EXCEPT ![n] = Merged(ps[n], ps[n + 1])]
  PROVE  /\ qs \in Seq(Patches) /\ Len(qs) = n
         /\ \A i \in 1..(n - 1) : qs[i] = ps[i]
         /\ \A k \in Keys : \A v : IsEffective(qs, k, v) <=> IsEffective(ps, k, v)
<1> DEFINE m == Merged(ps[n], ps[n + 1])
           low == SubSeq(ps, 1, n)
<1>1. m \in Patches
      /\ \A k \in Keys : m[k] = IF ps[n + 1][k] = Untouched THEN ps[n][k] ELSE ps[n + 1][k]
  <2>1. ps[n] \in Patches /\ ps[n + 1] \in Patches
    OBVIOUS
  <2> QED
    BY <2>1 DEF Merged, Patches
<1>2. /\ low \in Seq(Patches) /\ Len(low) = n /\ n \in 1..Len(low)
      /\ \A i \in 1..n : low[i] = ps[i]
      /\ qs = [low EXCEPT ![n] = m]
  OBVIOUS
<1> HIDE DEF low, m
<1>3. /\ qs \in Seq(Patches) /\ Len(qs) = n /\ qs[n] = m
      /\ \A i \in 1..n : i # n => qs[i] = low[i]
  BY <1>1, <1>2
<1>4. \A i \in 1..(n - 1) : qs[i] = ps[i]
  BY <1>2, <1>3
<1>5. ASSUME NEW k \in Keys, NEW v PROVE IsEffective(qs, k, v) <=> IsEffective(ps, k, v)
  <2>1. /\ \A i \in 1..(n - 1) : Column(ps, k)[i] = Column(qs, k)[i]
        /\ Column(qs, k)[n] = IF Column(ps, k)[n + 1] = Untouched
                                THEN Column(ps, k)[n] ELSE Column(ps, k)[n + 1]
    BY <1>1, <1>3, <1>4 DEF Column
  <2>2. Says(n + 1, Column(ps, k), v) <=> Says(n, Column(qs, k), v)
    BY <2>1, MergedTop
  <2> QED
    BY <1>3, <2>2, EffectiveIsSays
<1> QED
  BY <1>3, <1>4, <1>5

-----------------------------------------------------------------------------
LEMMA InitPatchInv == PatchInit => PatchInv
<1> SUFFICES ASSUME PatchInit PROVE PatchInv
  OBVIOUS
<1> USE PatchAssumption
<1>1. PICK base \in [Keys -> Values \union {Untouched}] : patches = <<base>>
  BY DEF PatchInit
<1>2. base \in Patches
  BY DEF Patches
<1>3. patches \in Seq(Patches) /\ Len(patches) \in 1..(MaxPatchForks + 1)
  BY <1>1, <1>2
<1> QED
  BY <1>3 DEF PatchInit, PatchInv, PatchTypeOK, CacheSound, CacheComplete

LEMMA SetCurrentInv ==
  ASSUME PatchInv, NEW k \in Keys, NEW v \in Values, SetCurrent(k, v) PROVE PatchInv'
<1> USE PatchAssumption
<1>1. patches \in Seq(Patches) /\ Len(patches) > 0 /\ Len(patches) \in 1..(MaxPatchForks + 1)
      /\ cache \in [Keys -> Values \union {NoValue, Uncached}] /\ cacheInSync \in BOOLEAN
  BY DEF PatchInv, PatchTypeOK
<1>2. /\ patches' = WithCurrent(patches, k, v)
      /\ cache' = [cache EXCEPT ![k] = v]
      /\ cacheInSync' = cacheInSync
  BY DEF SetCurrent
<1>3. Seen(v) = v
  BY DEF Seen
<1>4. PatchTypeOK'
  BY <1>1, <1>2, ChangedTop DEF PatchTypeOK
<1>5. /\ \A w : IsEffective(patches', k, w) <=> w = v
      /\ \A h \in Keys \ {k} : \A w : IsEffective(patches', h, w) <=> IsEffective(patches, h, w)
  BY <1>1, <1>2, <1>3, ChangedTop
<1>6. cache'[k] = v /\ \A h \in Keys \ {k} : cache'[h] = cache[h]
  BY <1>1, <1>2
<1>7. CacheSound'
  BY <1>5, <1>6 DEF PatchInv, CacheSound
<1>8. CacheComplete'
  BY <1>2, <1>5, <1>6 DEF PatchInv, CacheComplete
<1> QED
  BY <1>4, <1>7, <1>8 DEF PatchInv

LEMMA DeleteCurrentInv ==
  ASSUME PatchInv, NEW k \in Keys, DeleteCurrent(k) PROVE PatchInv'
<1> USE PatchAssumption
<1>1. patches \in Seq(Patches) /\ Len(patches) > 0 /\ Len(patches) \in 1..(MaxPatchForks + 1)
      /\ cache \in [Keys -> Values \union {NoValue, Uncached}] /\ cacheInSync \in BOOLEAN
  BY DEF PatchInv, PatchTypeOK
<1>2. /\ patches' = WithCurrent(patches, k, Deleted)
      /\ cache' = [cache EXCEPT ![k] = NoValue]
      /\ cacheInSync' = cacheInSync
  BY DEF DeleteCurrent, CachedDeletion
<1>3. Seen(Deleted) = NoValue
  BY DEF Seen
<1>4. PatchTypeOK'
  BY <1>1, <1>2, ChangedTop DEF PatchTypeOK
<1>5. /\ \A w : IsEffective(patches', k, w) <=> w = NoValue
      /\ \A h \in Keys \ {k} : \A w : IsEffective(patches', h, w) <=> IsEffective(patches, h, w)
  BY <1>1, <1>2, <1>3, ChangedTop
<1>6. cache'[k] = NoValue /\ \A h \in Keys \ {k} : cache'[h] = cache[h]
  BY <1>1, <1>2
<1>7. CacheSound'
  BY <1>5, <1>6 DEF PatchInv, CacheSound
<1>8. CacheComplete'
  BY <1>2, <1>5, <1>6 DEF PatchInv, CacheComplete
<1> QED
  BY <1>4, <1>7, <1>8 DEF PatchInv

LEMMA ForkInv == PatchInv /\ PatchFork => PatchInv'
<1> SUFFICES ASSUME PatchInv, PatchFork PROVE PatchInv'
  OBVIOUS
<1>1. patches \in Seq(Patches) /\ Len(patches) \in 1..(MaxPatchForks + 1) /\ Len(patches) \in Nat
  BY DEF PatchInv, PatchTypeOK
<1>2. /\ patches' = Append(patches, NewPatch) /\ Len(patches) <= MaxPatchForks
      /\ cache' = cache /\ cacheInSync' = cacheInSync
  BY DEF PatchFork, PatchTop
<1>3. patches' \in Seq(Patches) /\ Len(patches') = Len(patches) + 1
  BY <1>1, <1>2, ForkedTop
<1>4. \A k \in Keys : \A v : IsEffective(patches', k, v) <=> IsEffective(patches, k, v)
  BY <1>1, <1>2, ForkedTop
<1>5. PatchTypeOK'
  BY <1>1, <1>2, <1>3, PatchAssumption DEF PatchInv, PatchTypeOK
<1> QED
  BY <1>2, <1>4, <1>5 DEF PatchInv, CacheSound, CacheComplete

LEMMA CommitInv == PatchInv /\ PatchCommit => PatchInv'
<1> SUFFICES ASSUME PatchInv, PatchCommit PROVE PatchInv'
  OBVIOUS
<1> DEFINE n == Len(patches) - 1
<1>1. patches \in Seq(Patches) /\ n \in 1..MaxPatchForks /\ n \in Nat \ {0} /\ Len(patches) = n + 1
      /\ MaxPatchForks \in Nat
  BY PatchAssumption DEF PatchInv, PatchTypeOK, PatchCommit, PatchTop
<1>2. /\ patches' = [SubSeq(patches, 1, n) EXCEPT ![n] = Merged(patches[n], patches[n + 1])]
      /\ cache' = cache /\ cacheInSync' = cacheInSync
  BY <1>1 DEF PatchCommit, PatchTop
<1> HIDE DEF n
<1>3. /\ patches' \in Seq(Patches) /\ Len(patches') = n
      /\ \A k \in Keys : \A v : IsEffective(patches', k, v) <=> IsEffective(patches, k, v)
  BY <1>1, <1>2, CommittedTop
<1>4. PatchTypeOK'
  BY <1>1, <1>2, <1>3 DEF PatchInv, PatchTypeOK
<1> QED
  BY <1>2, <1>3, <1>4 DEF PatchInv, CacheSound, CacheComplete

LEMMA RevertInv == PatchInv /\ PatchRevert => PatchInv'
<1> SUFFICES ASSUME PatchInv, PatchRevert PROVE PatchInv'
  OBVIOUS
<1> DEFINE n == Len(patches) - 1
<1>1. patches \in Seq(Patches) /\ n \in 1..MaxPatchForks /\ n \in Nat /\ Len(patches) = n + 1
      /\ MaxPatchForks \in Nat
      /\ cache \in [Keys -> Values \union {NoValue, Uncached}]
  BY PatchAssumption DEF PatchInv, PatchTypeOK, PatchRevert, PatchTop
<1>2. /\ patches' = SubSeq(patches, 1, n)
      /\ cache' = [k \in Keys |-> IF patches[n + 1][k] # Untouched THEN Uncached ELSE cache[k]]
      /\ cacheInSync' = FALSE
  BY <1>1 DEF PatchRevert, PatchTop, Forgets, InSyncAfterRevert
<1>3. /\ patches' \in Seq(Patches) /\ Len(patches') = n
      /\ \A i \in 1..n : patches'[i] = patches[i]
  BY <1>1, <1>2
<1>4. ASSUME NEW k \in Keys, NEW v, patches[n + 1][k] = Untouched
      PROVE  IsEffective(patches', k, v) <=> IsEffective(patches, k, v)
  <2>1. /\ Column(patches, k)[n + 1] = Untouched
        /\ \A i \in 1..n : Column(patches, k)[i] = Column(patches', k)[i]
    <3> HIDE DEF n
    <3> QED
      BY <1>1, <1>3, <1>4 DEF Column
  <2>2. Says(n + 1, Column(patches, k), v) <=> Says(n, Column(patches', k), v)
    <3> HIDE DEF n
    <3> QED
      BY <1>1, <2>1, UntouchedTop
  <2> QED
    BY <1>1, <1>3, <2>2, EffectiveIsSays
<1>5. PatchTypeOK'
  <2>1. Len(patches') \in 1..(MaxPatchForks + 1)
    BY <1>1, <1>3
  <2>2. cache' \in [Keys -> Values \union {NoValue, Uncached}]
    BY <1>1, <1>2
  <2> QED
    BY <2>1, <2>2, <1>2, <1>3 DEF PatchTypeOK
<1>6. CacheSound'
  <2> SUFFICES ASSUME NEW k \in Keys, cache'[k] # Uncached
               PROVE  IsEffective(patches', k, cache'[k])
    BY DEF CacheSound
  <2>1. patches[n + 1][k] = Untouched /\ cache'[k] = cache[k]
    BY <1>2
  <2> QED
    BY <1>4, <2>1 DEF PatchInv, CacheSound
<1>7. CacheComplete'
  BY <1>2 DEF CacheComplete
<1> QED
  BY <1>5, <1>6, <1>7 DEF PatchInv

LEMMA FindValueInv ==
  ASSUME PatchInv, NEW k \in Keys, FindValue(k) PROVE PatchInv'
<1> USE PatchAssumption
<1>1. PICK v \in Values \union {NoValue} :
        IsEffective(patches, k, v) /\ cache' = [cache EXCEPT ![k] = v]
  BY DEF FindValue
<1>2. cache[k] = Uncached /\ patches' = patches /\ cacheInSync' = cacheInSync
      /\ cache \in [Keys -> Values \union {NoValue, Uncached}]
  BY DEF FindValue, PatchInv, PatchTypeOK
<1>3. PatchTypeOK'
  BY <1>1, <1>2 DEF PatchInv, PatchTypeOK
<1>4. cache'[k] = v /\ \A h \in Keys \ {k} : cache'[h] = cache[h]
  BY <1>1, <1>2
<1>5. CacheSound'
  BY <1>1, <1>2, <1>4 DEF PatchInv, CacheSound
<1>6. CacheComplete'
  BY <1>2, <1>4 DEF PatchInv, CacheComplete
<1> QED
  BY <1>3, <1>5, <1>6 DEF PatchInv

LEMMA AsMapInv == PatchInv /\ AsMap => PatchInv'
<1> SUFFICES ASSUME PatchInv, AsMap PROVE PatchInv'
  OBVIOUS
<1> USE PatchAssumption
<1>1. PICK m \in [Keys -> Values \union {NoValue}] :
        /\ \A k \in Keys : IsEffective(patches, k, m[k])
        /\ cache' = [k \in Keys |-> IF m[k] # NoValue THEN m[k] ELSE cache[k]]
  BY DEF AsMap
<1>2. patches' = patches /\ cacheInSync' = TRUE
      /\ patches \in Seq(Patches)
      /\ cache \in [Keys -> Values \union {NoValue, Uncached}]
  BY DEF AsMap, PatchInv, PatchTypeOK
<1>3. PatchTypeOK'
  BY <1>1, <1>2 DEF PatchInv, PatchTypeOK
<1>4. CacheSound'
  BY <1>1, <1>2 DEF PatchInv, CacheSound
<1>5. CacheComplete'
  <2> SUFFICES ASSUME NEW k \in Keys, NEW v \in Values, IsEffective(patches, k, v)
               PROVE  cache'[k] = v
    BY <1>2 DEF CacheComplete
  <2>1. m[k] = v
    BY <1>1, <1>2, OneEffective
  <2> QED
    BY <1>1, <2>1
<1> QED
  BY <1>3, <1>4, <1>5 DEF PatchInv

LEMMA PatchInvariant == PatchSpec => []PatchInv
<1>1. PatchInv /\ [PatchNext]_patchVars => PatchInv'
  <2> SUFFICES ASSUME PatchInv, [PatchNext]_patchVars PROVE PatchInv'
    OBVIOUS
  <2>1. ASSUME NEW k \in Keys, NEW v \in Values, SetCurrent(k, v) PROVE PatchInv'
    BY <2>1, SetCurrentInv
  <2>2. ASSUME NEW k \in Keys, DeleteCurrent(k) PROVE PatchInv'
    BY <2>2, DeleteCurrentInv
  <2>3. ASSUME NEW k \in Keys, FindValue(k) PROVE PatchInv'
    BY <2>3, FindValueInv
  <2>4. CASE PatchFork
    BY <2>4, ForkInv
  <2>5. CASE PatchCommit
    BY <2>5, CommitInv
  <2>6. CASE PatchRevert
    BY <2>6, RevertInv
  <2>7. CASE AsMap
    BY <2>7, AsMapInv
  <2>8. CASE UNCHANGED patchVars
    BY <2>8 DEF patchVars, PatchInv, PatchTypeOK, CacheSound, CacheComplete
  <2> QED
    BY <2>1, <2>2, <2>3, <2>4, <2>5, <2>6, <2>7, <2>8 DEF PatchNext
<1> QED
  BY InitPatchInv, <1>1, PTL DEF PatchSpec

-----------------------------------------------------------------------------
(* Neither FindValue nor AsMap ever answers anything from the cache that   *)
(* the patches would not answer, or leaves out a key, whatever was forked, *)
(* reverted and committed.                                                 *)
THEOREM CacheIsCorrect == PatchSpec => []CacheCorrect
BY PatchInvariant, PTL DEF PatchInv, CacheCorrect

-----------------------------------------------------------------------------
(* A PatchSet implements a map that can be forked.  View chooses a value:  *)
(* there is one, and only one.                                             *)

(* A set of numbers that is not empty has a least one. *)
LEMMA LeastNumber ==
  ASSUME NEW T \in SUBSET Nat, T # {}
  PROVE  \E x \in T : \A y \in T : x <= y
<1> DEFINE R == {ss \in Nat \X Nat : ss[1] < ss[2]}
<1>1. IsWellFoundedOn(R, Nat)
  BY NatLessThanWellFounded DEF OpToRel
<1>2. \A x \in Nat, y \in Nat : y < x => <<y, x>> \in R
  OBVIOUS
<1> HIDE DEF R
<1>3. PICK x \in T : \A y \in T : ~ (<<y, x>> \in R)
  BY <1>1, WFMin
<1>4. ASSUME NEW y \in T PROVE x <= y
  <2>1. x \in Nat /\ y \in Nat
    OBVIOUS
  <2>2. ~(y < x)
    BY <1>2, <1>3, <2>1
  <2> QED
    BY <2>1, <2>2
<1> QED
  BY <1>4

(* Of the patches that touch a key there is a most recent one. *)
LEMMA SomethingEffective ==
  ASSUME NEW ps \in Seq(Patches), NEW k \in Keys
  PROVE  \E v \in Values \cup {NoValue} : IsEffective(ps, k, v)
<1> DEFINE n == Len(ps)
           touching == {i \in 1..n : ps[i][k] # Untouched}
<1>1. n \in Nat
  OBVIOUS
<1>2. CASE touching = {}
  BY <1>2 DEF IsEffective
<1>3. CASE touching # {}
  <2> DEFINE above == {j \in 0..n : n - j \in touching}
  <2>1. PICK i0 \in touching : TRUE
    BY <1>3
  <2>2. n - i0 \in above /\ above \in SUBSET Nat
    BY <1>1, <2>1
  <2> HIDE DEF above
  <2>3. PICK x \in above : \A y \in above : x <= y
    BY <2>2, LeastNumber
  <2>4. x \in 0..n /\ n - x \in touching /\ \A y \in 0..n : n - y \in touching => x <= y
    BY <2>3 DEF above
  <2> DEFINE i == n - x
  <2>5. i \in 1..n /\ ps[i][k] # Untouched
    BY <2>4
  <2>6. ASSUME NEW j \in (i + 1)..n PROVE ps[j][k] = Untouched
    <3> DEFINE y == n - j
    <3>1. n \in Nat /\ x \in 0..n /\ i \in 1..n
      BY <1>1, <2>4, <2>5
    <3> HIDE DEF n, touching
    <3>2. j \in 1..n /\ y \in 0..n /\ ~(x <= y) /\ n - y = j
      BY <3>1
    <3> HIDE DEF y
    <3>3. n - y \notin touching
      BY <2>4, <3>2
    <3>4. j \notin touching
      BY <3>2, <3>3
    <3> QED
      BY <3>2, <3>4 DEF touching
  <2>7. IsEffective(ps, k, Seen(ps[i][k]))
    BY <2>5, <2>6 DEF IsEffective
  <2>8. ps[i][k] \in Values \cup {Deleted}
    <3>1. ps[i] \in Patches
      BY <2>5
    <3> QED
      BY <2>5, <3>1 DEF Patches
  <2>9. Seen(ps[i][k]) \in Values \cup {NoValue}
    BY <2>8 DEF Seen
  <2> QED
    BY <2>7, <2>9
<1> QED
  BY <1>2, <1>3

LEMMA ViewIsEffective ==
  ASSUME NEW ps \in Seq(Patches)
  PROVE  /\ PatchView(ps) \in [Keys -> Values \cup {NoValue}]
         /\ \A k \in Keys : \A v : IsEffective(ps, k, v) <=> v = PatchView(ps)[k]
<1>1. ASSUME NEW k \in Keys
      PROVE  PatchView(ps)[k] \in Values \cup {NoValue} /\ IsEffective(ps, k, PatchView(ps)[k])
  <2>1. \E v \in Values \cup {NoValue} : IsEffective(ps, k, v)
    BY SomethingEffective
  <2>2. PatchView(ps)[k] = CHOOSE v \in Values \cup {NoValue} : IsEffective(ps, k, v)
    BY DEF PatchView
  <2> QED
    BY <2>1, <2>2
<1>2. PatchView(ps) \in [Keys -> Values \cup {NoValue}]
  <2>1. PatchView(ps) = [k \in Keys |-> PatchView(ps)[k]]
    BY DEF PatchView
  <2> QED
    BY <1>1, <2>1
<1>3. \A k \in Keys : \A v : IsEffective(ps, k, v) => v = PatchView(ps)[k]
  BY <1>1, OneEffective
<1> QED
  BY <1>1, <1>2, <1>3

(* Patches that say the same are viewed as the same map. *)
LEMMA SameView ==
  ASSUME NEW ps \in Seq(Patches), NEW m \in [Keys -> Values \cup {NoValue}],
         \A k \in Keys : IsEffective(ps, k, m[k])
  PROVE  PatchView(ps) = m
<1>1. PatchView(ps) \in [Keys -> Values \cup {NoValue}] /\ \A k \in Keys : m[k] = PatchView(ps)[k]
  BY ViewIsEffective
<1> QED
  BY <1>1

CopiesOf(ps) == [i \in 1..Len(ps) |-> PatchView(SubSeq(ps, 1, i))]

LEMMA CopiesAreMaps ==
  ASSUME NEW ps \in Seq(Patches), Len(ps) > 0
  PROVE  /\ CopiesOf(ps) \in Seq([Keys -> Values \cup {NoValue}])
         /\ Len(CopiesOf(ps)) = Len(ps)
         /\ CopiesOf(ps)[Len(ps)] = PatchView(ps)
         /\ \A i \in 1..Len(ps) : CopiesOf(ps)[i] = PatchView(SubSeq(ps, 1, i))
<1>1. Len(ps) \in Nat /\ Len(ps) \in 1..Len(ps)
  OBVIOUS
<1>2. \A i \in 1..Len(ps) : SubSeq(ps, 1, i) \in Seq(Patches)
  OBVIOUS
<1>3. \A i \in 1..Len(ps) : PatchView(SubSeq(ps, 1, i)) \in [Keys -> Values \cup {NoValue}]
  BY <1>2, ViewIsEffective
<1>4. SubSeq(ps, 1, Len(ps)) = ps
  OBVIOUS
<1> DEFINE maps == [Keys -> Values \cup {NoValue}]
           level(i) == PatchView(SubSeq(ps, 1, i))
<1>5. CopiesOf(ps) = [i \in 1..Len(ps) |-> level(i)] /\ \A i \in 1..Len(ps) : level(i) \in maps
  BY <1>3 DEF CopiesOf
<1>6. level(Len(ps)) = PatchView(ps)
  BY <1>4
<1> HIDE DEF maps, level
<1>7. CopiesOf(ps) \in Seq(maps) /\ Len(CopiesOf(ps)) = Len(ps)
  BY <1>1, <1>5
<1>8. \A i \in 1..Len(ps) : CopiesOf(ps)[i] = level(i)
  BY <1>5
<1> QED
  BY <1>1, <1>6, <1>7, <1>8 DEF maps, level

(* Patches that agree up to a level have the same copies up to it. *)
LEMMA SameCopies ==
  ASSUME NEW ps \in Seq(Patches), NEW qs \in Seq(Patches), NEW n \in Nat,
         n <= Len(ps), n <= Len(qs), \A j \in 1..n : ps[j] = qs[j]
  PROVE  \A i \in 1..n : CopiesOf(ps)[i] = CopiesOf(qs)[i]
<1> SUFFICES ASSUME NEW i \in 1..n PROVE CopiesOf(ps)[i] = CopiesOf(qs)[i]
  OBVIOUS
<1>1. i \in 1..Len(ps) /\ i \in 1..Len(qs)
  OBVIOUS
<1>2. SubSeq(ps, 1, i) = SubSeq(qs, 1, i)
  <2>1. \A j \in 1..i : ps[j] = qs[j]
    OBVIOUS
  <2>2. SubSeq(ps, 1, i) = [j \in 1..i |-> ps[j]] /\ SubSeq(qs, 1, i) = [j \in 1..i |-> qs[j]]
    BY <1>1
  <2> QED
    BY <2>1, <2>2
<1> QED
  BY <1>1, <1>2 DEF CopiesOf

LEMMA CopiesFacts ==
  ASSUME PatchInv
  PROVE  /\ patches \in Seq(Patches) /\ Len(patches) \in Nat \ {0} /\ Len(patches) > 0
         /\ Copies \in Seq([Keys -> Values \cup {NoValue}]) /\ Len(Copies) = Len(patches)
         /\ Copies = CopiesOf(patches) /\ Copies' = CopiesOf(patches')
         /\ Map!Top = Len(patches) /\ Map!Visible = PatchView(patches)
         /\ PatchView(patches) \in [Keys -> Values \cup {NoValue}]
         /\ \A k \in Keys : IsEffective(patches, k, PatchView(patches)[k])
<1>1. patches \in Seq(Patches) /\ Len(patches) \in Nat \ {0} /\ Len(patches) > 0
  BY PatchAssumption DEF PatchInv, PatchTypeOK
<1>2. Copies = CopiesOf(patches) /\ Copies' = CopiesOf(patches')
  BY DEF Copies, CopiesOf
<1>3. /\ CopiesOf(patches) \in Seq([Keys -> Values \cup {NoValue}])
      /\ Len(CopiesOf(patches)) = Len(patches)
      /\ CopiesOf(patches)[Len(patches)] = PatchView(patches)
  BY <1>1, CopiesAreMaps
<1>4. Map!Top = Len(patches) /\ Map!Visible = PatchView(patches)
  BY <1>2, <1>3 DEF Map!Top, Map!Visible
<1> QED
  BY <1>1, <1>2, <1>3, <1>4, ViewIsEffective

(* Two sequences of one length with the same elements are the same. *)
LEMMA SameElements ==
  ASSUME NEW S, NEW s \in Seq(S), NEW T, NEW t \in Seq(T),
         NEW n \in Nat, Len(s) = n, Len(t) = n, \A i \in 1..n : s[i] = t[i]
  PROVE  s = t
OBVIOUS

(* A change of the topmost patch changes the copy on top, and no other. *)
LEMMA ChangeIsMapped ==
  ASSUME PatchInv, NEW k \in Keys, NEW x \in Values \cup {Deleted},
         patches' = WithCurrent(patches, k, x)
  PROVE  Map!Change([Map!Visible EXCEPT ![k] = Seen(x)])
<1> DEFINE maps == [Keys -> Values \cup {NoValue}]
           n == Len(patches)
           m == [PatchView(patches) EXCEPT ![k] = Seen(x)]
<1>1. /\ patches \in Seq(Patches) /\ n \in Nat \ {0} /\ n > 0
      /\ Copies \in Seq(maps) /\ Len(Copies) = n
      /\ Copies = CopiesOf(patches) /\ Copies' = CopiesOf(patches')
      /\ Map!Top = n /\ Map!Visible = PatchView(patches)
      /\ PatchView(patches) \in maps
      /\ \A h \in Keys : IsEffective(patches, h, PatchView(patches)[h])
  BY CopiesFacts
<1>2. /\ patches' \in Seq(Patches) /\ Len(patches') = n
      /\ IsEffective(patches', k, Seen(x))
      /\ \A h \in Keys \ {k} : IsEffective(patches', h, PatchView(patches)[h])
  BY <1>1, ChangedTop
<1>3. m \in maps /\ \A h \in Keys : IsEffective(patches', h, m[h])
  <2>1. Seen(x) \in Values \cup {NoValue}
    BY DEF Seen
  <2> QED
    BY <1>1, <1>2, <2>1
<1> HIDE DEF m
<1>4. PatchView(patches') = m
  BY <1>2, <1>3, SameView
<1>5. \A i \in 1..(n - 1) : patches'[i] = patches[i]
  BY <1>1 DEF WithCurrent
<1>6. /\ Copies' \in Seq(maps) /\ Len(Copies') = n /\ Copies'[n] = m
  BY <1>1, <1>2, <1>4, CopiesAreMaps
<1>7. \A i \in 1..(n - 1) : Copies'[i] = Copies[i]
  <2> DEFINE low == n - 1
  <2>1. low \in Nat /\ low <= Len(patches') /\ low <= Len(patches)
    BY <1>1, <1>2
  <2>2. \A i \in 1..low : patches'[i] = patches[i]
    BY <1>5
  <2> HIDE DEF low
  <2>3. \A i \in 1..low : CopiesOf(patches')[i] = CopiesOf(patches)[i]
    BY <1>1, <1>2, <2>1, <2>2, SameCopies
  <2> QED
    BY <1>1, <2>3 DEF low
<1>8. Copies' = [Copies EXCEPT ![n] = m]
  <2> HIDE DEF maps, n
  <2>1. /\ [Copies EXCEPT ![n] = m] \in Seq(maps) /\ Len([Copies EXCEPT ![n] = m]) = n
        /\ [Copies EXCEPT ![n] = m][n] = m
        /\ \A i \in 1..(n - 1) : [Copies EXCEPT ![n] = m][i] = Copies[i]
    BY <1>1, <1>3 DEF maps
  <2>2. \A i \in 1..n : i = n \/ i \in 1..(n - 1)
    BY <1>1
  <2>3. \A i \in 1..n : Copies'[i] = [Copies EXCEPT ![n] = m][i]
    BY <1>6, <1>7, <2>1, <2>2
  <2> QED
    BY <1>1, <1>6, <2>1, <2>3, SameElements
<1> QED
  BY <1>1, <1>8 DEF Map!Change, m

LEMMA ForkIsMapped == PatchInv /\ PatchFork => Map!Fork
<1> SUFFICES ASSUME PatchInv, PatchFork PROVE Map!Fork
  OBVIOUS
<1> DEFINE maps == [Keys -> Values \cup {NoValue}]
           n == Len(patches)
           m == PatchView(patches)
<1>1. /\ patches \in Seq(Patches) /\ n \in Nat \ {0} /\ n > 0
      /\ Copies \in Seq(maps) /\ Len(Copies) = n
      /\ Copies = CopiesOf(patches) /\ Copies' = CopiesOf(patches')
      /\ Map!Visible = m /\ m \in maps
      /\ \A k \in Keys : IsEffective(patches, k, m[k])
  BY CopiesFacts
<1>2. patches' = Append(patches, NewPatch) /\ NewPatch \in Patches
  BY DEF PatchFork, NewPatch, Patches
<1>3. /\ patches' \in Seq(Patches) /\ Len(patches') = n + 1
      /\ \A k \in Keys : IsEffective(patches', k, m[k])
  BY <1>1, <1>2, ForkedTop
<1>4. \A i \in 1..n : patches'[i] = patches[i]
  BY <1>1, <1>2
<1> HIDE DEF m, n, maps
<1>5. PatchView(patches') = m
  BY <1>1, <1>3, SameView DEF maps
<1>6. Copies' \in Seq(maps) /\ Len(Copies') = n + 1 /\ Copies'[n + 1] = m
  BY <1>1, <1>3, <1>5, CopiesAreMaps DEF maps
<1>7. \A i \in 1..n : Copies'[i] = Copies[i]
  <2>1. n \in Nat /\ n <= Len(patches) /\ n <= Len(patches')
    BY <1>1, <1>3 DEF n
  <2> QED
    BY <1>1, <1>3, <1>4, <2>1, SameCopies
<1>8. /\ Append(Copies, m) \in Seq(maps) /\ Len(Append(Copies, m)) = n + 1
      /\ Append(Copies, m)[n + 1] = m
      /\ \A i \in 1..n : Append(Copies, m)[i] = Copies[i]
  BY <1>1
<1>9. \A i \in 1..(n + 1) : Copies'[i] = Append(Copies, m)[i]
  <2>1. \A i \in 1..(n + 1) : i = n + 1 \/ i \in 1..n
    BY <1>1
  <2> QED
    BY <1>6, <1>7, <1>8, <2>1
<1>10. Copies' = Append(Copies, m)
  <2>1. n + 1 \in Nat
    BY <1>1
  <2> QED
    BY <1>6, <1>8, <1>9, <2>1, SameElements
<1> QED
  BY <1>1, <1>10 DEF Map!Fork

LEMMA CommitIsMapped == PatchInv /\ PatchCommit => Map!Commit
<1> SUFFICES ASSUME PatchInv, PatchCommit PROVE Map!Commit
  OBVIOUS
<1> DEFINE maps == [Keys -> Values \cup {NoValue}]
           n == Len(patches) - 1
           m == PatchView(patches)
<1>1. /\ patches \in Seq(Patches) /\ n \in Nat \ {0} /\ Len(patches) = n + 1
      /\ Copies \in Seq(maps) /\ Len(Copies) = n + 1
      /\ Copies = CopiesOf(patches) /\ Copies' = CopiesOf(patches')
      /\ Map!Top = n + 1 /\ Map!Visible = m /\ m \in maps
      /\ \A k \in Keys : IsEffective(patches, k, m[k])
  BY CopiesFacts DEF PatchCommit, PatchTop
<1>2. patches' = [SubSeq(patches, 1, n) EXCEPT ![n] = Merged(patches[n], patches[n + 1])]
  BY <1>1 DEF PatchCommit, PatchTop
<1> HIDE DEF m, n, maps
<1>3. /\ patches' \in Seq(Patches) /\ Len(patches') = n
      /\ \A i \in 1..(n - 1) : patches'[i] = patches[i]
      /\ \A k \in Keys : IsEffective(patches', k, m[k])
  <2>1. patches \in Seq(Patches) /\ n \in Nat \ {0} /\ Len(patches) = n + 1
    BY <1>1
  <2>2. /\ patches' \in Seq(Patches) /\ Len(patches') = n
        /\ \A i \in 1..(n - 1) : patches'[i] = patches[i]
        /\ \A k \in Keys : \A v : IsEffective(patches', k, v) <=> IsEffective(patches, k, v)
    BY <1>2, <2>1, CommittedTop
  <2> QED
    BY <1>1, <2>2
<1>4. PatchView(patches') = m
  BY <1>1, <1>3, SameView DEF maps
<1>5. n > 0 /\ n - 1 \in Nat /\ n - 1 <= n /\ n - 1 <= n + 1
  BY <1>1
<1>6. Copies' \in Seq(maps) /\ Len(Copies') = n /\ Copies'[n] = m
  BY <1>1, <1>3, <1>4, <1>5, CopiesAreMaps DEF maps
<1>7. \A i \in 1..(n - 1) : Copies'[i] = Copies[i]
  BY <1>1, <1>3, <1>5, SameCopies
<1> DEFINE below == SubSeq(Copies, 1, n - 1)
<1>8. /\ below \in Seq(maps) /\ Len(below) = n - 1
      /\ \A i \in 1..(n - 1) : below[i] = Copies[i]
  BY <1>1, <1>5
<1> HIDE DEF below
<1>9. /\ Append(below, m) \in Seq(maps) /\ Len(Append(below, m)) = n
      /\ Append(below, m)[n] = m
      /\ \A i \in 1..(n - 1) : Append(below, m)[i] = below[i]
  BY <1>1, <1>5, <1>8
<1>10. \A i \in 1..n : Copies'[i] = Append(below, m)[i]
  <2>1. \A i \in 1..n : i = n \/ i \in 1..(n - 1)
    BY <1>1
  <2> QED
    BY <1>6, <1>7, <1>8, <1>9, <2>1
<1>11. Copies' = Append(below, m)
  BY <1>1, <1>6, <1>9, <1>10, SameElements
<1>12. Map!Top - 2 = n - 1 /\ Map!Top > 1
  BY <1>1
<1> QED
  BY <1>1, <1>11, <1>12 DEF Map!Commit, below

LEMMA RevertIsMapped == PatchInv /\ PatchRevert => Map!Revert
<1> SUFFICES ASSUME PatchInv, PatchRevert PROVE Map!Revert
  OBVIOUS
<1> DEFINE maps == [Keys -> Values \cup {NoValue}]
           n == Len(patches) - 1
<1>1. /\ patches \in Seq(Patches) /\ n \in Nat \ {0} /\ Len(patches) = n + 1
      /\ Copies \in Seq(maps) /\ Len(Copies) = n + 1
      /\ Copies = CopiesOf(patches) /\ Copies' = CopiesOf(patches')
      /\ Map!Top = n + 1
  BY CopiesFacts DEF PatchRevert, PatchTop
<1>2. patches' = SubSeq(patches, 1, n)
  BY <1>1 DEF PatchRevert, PatchTop
<1> HIDE DEF n, maps
<1>3. /\ patches' \in Seq(Patches) /\ Len(patches') = n
      /\ \A i \in 1..n : patches'[i] = patches[i]
  BY <1>1, <1>2
<1>4. Copies' \in Seq(maps) /\ Len(Copies') = n
  BY <1>1, <1>3, CopiesAreMaps DEF maps
<1>5. \A i \in 1..n : Copies'[i] = Copies[i]
  BY <1>1, <1>3, SameCopies
<1>6. /\ SubSeq(Copies, 1, n) \in Seq(maps) /\ Len(SubSeq(Copies, 1, n)) = n
      /\ \A i \in 1..n : SubSeq(Copies, 1, n)[i] = Copies[i]
  BY <1>1
<1>7. Copies' = SubSeq(Copies, 1, n)
  BY <1>1, <1>4, <1>5, <1>6, SameElements
<1>8. Map!Top - 1 = n /\ Map!Top > 1
  BY <1>1
<1> QED
  BY <1>7, <1>8 DEF Map!Revert

LEMMA InitIsMapped == PatchInit => Map!Init
<1> SUFFICES ASSUME PatchInit PROVE Map!Init
  OBVIOUS
<1>1. PatchInv
  BY InitPatchInv
<1>2. Len(patches) = 1
  BY DEF PatchInit
<1>3. /\ Copies \in Seq([Keys -> Values \cup {NoValue}]) /\ Len(Copies) = 1
  BY <1>1, <1>2, CopiesFacts
<1>4. Copies = <<Copies[1]>> /\ Copies[1] \in [Keys -> Values \cup {NoValue}]
  BY <1>3
<1> QED
  BY <1>4 DEF Map!Init, Map!Maps

(* Setting, deleting, forking, committing and reverting a PatchSet do to   *)
(* what is seen of it what they do to a map of which copies are put on a   *)
(* stack, at every level that Revert may go back to; reading it, and so    *)
(* filling the cache, changes nothing.                                     *)
THEOREM PatchesAreAMap == PatchSpec => PatchesImplementMap
<1>1. PatchInv /\ [PatchNext]_patchVars => [Map!Next]_Copies
  <2> SUFFICES ASSUME PatchInv, [PatchNext]_patchVars PROVE [Map!Next]_Copies
    OBVIOUS
  <2>1. ASSUME NEW k \in Keys, NEW v \in Values, SetCurrent(k, v) PROVE Map!Set(k, v)
    <3>1. Seen(v) = v
      BY PatchAssumption DEF Seen
    <3>2. Map!Change([Map!Visible EXCEPT ![k] = Seen(v)])
      BY <2>1, ChangeIsMapped DEF SetCurrent
    <3> QED
      BY <3>1, <3>2 DEF Map!Set
  <2>2. ASSUME NEW k \in Keys, DeleteCurrent(k) PROVE Map!Delete(k)
    <3>1. Seen(Deleted) = NoValue
      BY DEF Seen
    <3>2. Map!Change([Map!Visible EXCEPT ![k] = Seen(Deleted)])
      BY <2>2, ChangeIsMapped DEF DeleteCurrent
    <3> QED
      BY <3>1, <3>2 DEF Map!Delete
  <2>3. ASSUME UNCHANGED patches PROVE UNCHANGED Copies
    BY <2>3 DEF Copies
  <2>4. CASE UNCHANGED patchVars \/ AsMap \/ \E k \in Keys : FindValue(k)
    BY <2>3, <2>4 DEF patchVars, AsMap, FindValue
  <2> QED
    BY <2>1, <2>2, <2>4, ForkIsMapped, CommitIsMapped, RevertIsMapped DEF PatchNext, Map!Next
<1> QED
  BY InitIsMapped, PatchInvariant, <1>1, PTL DEF PatchSpec, Map!Spec, PatchesImplementMap
=============================================================================
