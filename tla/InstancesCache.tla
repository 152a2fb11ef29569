--------------------------- MODULE InstancesCache ----------------------------
(***************************************************************************)
(* CloudProviderNodeInstancesCache for one node group: the loop reads the  *)
(* instances of the group through it and invalidates it when it knows of a *)
(* change, while a goroutine refreshes it every other minute.              *)
(***************************************************************************)
EXTENDS CloudGroup

CONSTANTS
  BackgroundRefresh,  \* the refreshing goroutine runs (Start)
  ListingFails        \* NodeGroup.Nodes may fail

ASSUME CacheAssumption ==
  BackgroundRefresh \in BOOLEAN /\ ListingFails \in BOOLEAN

VARIABLES
  cached,   \* at most one listing, the entry of the group
  fetched   \* at most one listing, which Refresh got and has not stored yet

cacheVars == <<cached, fetched>>

(* All instances of a listing, and those with a creation error. *)
Listings == [all: SUBSET Instances, failed: SUBSET Instances]
Nodes == [all |-> Existing, failed |-> InState("failed")]
NilListing == [all |-> {}, failed |-> {}]

CacheTypeOK ==
  /\ cached \subseteq Listings /\ Cardinality(cached) <= 1
  /\ fetched \subseteq Listings /\ Cardinality(fetched) <= 1

CacheInit == cached = {} /\ fetched = {}

-----------------------------------------------------------------------------
(* InvalidateCacheEntry. *)
Invalidate == cached' = {}

(* GetCloudProviderNodeInstances returning listing: the entry, however old *)
(* it is, and without an entry what the provider answers.                  *)
GetInstances(listing) ==
  IF cached # {}
    THEN listing \in cached /\ UNCHANGED cached
    ELSE listing = Nodes /\ cached' = {listing}

(* GetCloudProviderNodeInstances returning an error. *)
GetFails == ListingFails /\ cached = {}

(* Refresh asks the provider outside of the lock, and stores what it has   *)
(* got: an error is logged, and leaves an entry without instances.         *)
RefreshAsks ==
  /\ BackgroundRefresh
  /\ fetched = {}
  /\ \/ fetched' = {Nodes}
     \/ ListingFails /\ fetched' = {NilListing}
  /\ UNCHANGED cached

RefreshStores ==
  /\ fetched # {}
  /\ cached' = fetched
  /\ fetched' = {}

=============================================================================
