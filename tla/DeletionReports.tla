--------------------------- MODULE DeletionReports ----------------------------
(***************************************************************************)
(* How the results of node deletions get from the deletion goroutines to   *)
(* the status of the main loop: the expiring list of the deletion tracker, *)
(* to which EndDeletion appends and which RunOnce reads and then clears up *)
(* to the time of what it read, two calls with the tracker unlocked in     *)
(* between.                                                                *)
(***************************************************************************)
EXTENDS Naturals, SequencesExt

CONSTANTS
  Nodes,
  SameTime,             \* whether two calls of the clock may return the same
  MaxResults            \* bound on the deletions that end

ASSUME ReportsAssumption == SameTime \in BOOLEAN /\ MaxResults \in Nat

NoTime == 0

VARIABLES
  results,              \* deletionResults: what RegisterElement added, and when
  now,                  \* the last time that the clock returned
  loop,                 \* "idle", or "read" between the two calls of RunOnce
  asOf,                 \* NodeDeleteResultsAsOf
  ended,                \* how many deletions have ended; numbers their results
  reported              \* the results that the status was given

reportVars == <<results, now, loop, asOf, ended, reported>>

Results == [id : 1..MaxResults, node : Nodes, added : Nat]

(* clock.Now: time does not go back.  A time that nobody saw is not told   *)
(* from the one before it.                                                 *)
ClockReturns(t) == t = now + 1 \/ (SameTime /\ t = now /\ now > NoTime)

-----------------------------------------------------------------------------
ReportsInit ==
  /\ results = << >> /\ now = NoTime
  /\ loop = "idle" /\ asOf = NoTime
  /\ ended = 0 /\ reported = {}

Registered(r) == Append(results, r)

(* EndDeletion registers the result of a node; a node may be deleted again *)
(* after it failed. *)
EndDeletion(n) ==
  /\ ended < MaxResults
  /\ \E t \in {now, now + 1} :
       /\ ClockReturns(t)
       /\ results' = Registered([id |-> ended + 1, node |-> n, added |-> t])
       /\ now' = t
  /\ ended' = ended + 1
  /\ UNCHANGED <<loop, asOf, reported>>

(* ToSliceWithTimestamp: the time of the last result, or that of the clock.*)
ReadUpTo(t) == IF results = << >> THEN ClockReturns(t) ELSE t = Last(results).added

(* DeletionResults: of several results of a node the map has the last. *)
InMap == {i \in DOMAIN results : \A j \in (i + 1)..Len(results) : results[j].node # results[i].node}

DeletionResults ==
  /\ loop = "idle"
  /\ \E t \in 1..(now + 1) :
       /\ ReadUpTo(t)
       /\ asOf' = t
       /\ now' = IF t > now THEN t ELSE now
  /\ reported' = reported \union {results[i].id : i \in InMap}
  /\ loop' = "read"
  /\ UNCHANGED <<results, ended>>

(* Mutant of NotNewer: everything is cleared.                              *)
Anything(r, expiry) == TRUE

NotNewer(r, expiry) == r.added <= expiry

(* DropNotNewerThan stops at the first result that is newer. *)
ClearResultsNotNewerThan ==
  /\ loop = "read"
  /\ results' = LET keep == {i \in DOMAIN results : ~NotNewer(results[i], asOf)}
                IN  IF keep = {} THEN << >> ELSE SubSeq(results, Min(keep), Len(results))
  /\ loop' = "idle"
  /\ UNCHANGED <<now, asOf, ended, reported>>

ReportsNext ==
  \/ \E n \in Nodes : EndDeletion(n)
  \/ DeletionResults
  \/ ClearResultsNotNewerThan

ReportsSpec == ReportsInit /\ [][ReportsNext]_reportVars

(* The clock is bounded like the results.                                  *)
ClockBound == now <= MaxResults + 2

-----------------------------------------------------------------------------
(* The oldest result is the first, on which DropNotNewerThan relies.       *)
ReportsTypeOK ==
  /\ results \in Seq(Results)
  /\ \A i, j \in DOMAIN results : i < j => results[i].added <= results[j].added
  /\ loop \in {"idle", "read"}
  /\ reported \subseteq 1..ended

Waiting == {results[i].id : i \in DOMAIN results}

LaterOfSameNode(i) == \E j \in DOMAIN results : j > i /\ results[j].node = results[i].node

(* A result that is gone was in the status of a loop: one that a goroutine *)
(* registers between the two calls of RunOnce is kept for the next loop.   *)
(* And no loop gets a result that an earlier one was given.  (Of two       *)
(* results of a node in one loop the status has only the later.)           *)
(* Not so with SameTime: a result registered at the time of the last that  *)
(* was read is cleared with it, unread.                                    *)
ReportedExactlyOnce ==
  [][/\ \A i \in DOMAIN results :
          results[i].id \in Waiting' \union reported \/ LaterOfSameNode(i)
     /\ loop = "idle" /\ loop' = "read" => Waiting \intersect reported = {}]_reportVars
=============================================================================
