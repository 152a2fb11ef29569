-------------------------- MODULE ExponentialBackoff --------------------------
(***************************************************************************)
(* utils/backoff/exponential_backoff.go for one node group: for how long   *)
(* the group is left alone after a scale-up that failed.                   *)
(*                                                                         *)
(* An entry has no clock times but the time since the last failure, so     *)
(* that backoffUntil.Before(now) is since > duration; since stops at one   *)
(* unit past BackoffReset, the longest time it is compared with.           *)
(***************************************************************************)
EXTENDS Integers

CONSTANTS
  InitialBackoff,  \* initialBackoffDuration
  MaxBackoff,      \* maxBackoffDuration
  BackoffReset     \* backoffResetTimeout

ASSUME BackoffAssumption ==
  /\ InitialBackoff \in Nat \ {0}
  /\ MaxBackoff \in Nat
  /\ BackoffReset \in Nat
  /\ InitialBackoff <= MaxBackoff
  /\ MaxBackoff <= BackoffReset

VARIABLE backoff  \* the entry of the group in backoffInfo

NoBackoff == [duration |-> 0, since |-> 0]

BackoffEntries ==
  [duration: InitialBackoff..MaxBackoff, since: 0..(BackoffReset + 1)]

(* Type invariant: a group has no entry, or one whose duration is between  *)
(* the initial and the maximal one.                                        *)
BackoffTypeOK == backoff \in BackoffEntries \union {NoBackoff}

-----------------------------------------------------------------------------
IsOver(entry) == entry.since > entry.duration

(* BackoffStatus. *)
IsBackedOff(entry) == entry # NoBackoff /\ ~IsOver(entry)

NoMoreThan(d, max) == IF d > max THEN max ELSE d

NextDuration(entry) ==
  IF entry = NoBackoff THEN InitialBackoff
  ELSE IF IsOver(entry) THEN NoMoreThan(2 * entry.duration, MaxBackoff)
  ELSE entry.duration

(* Backoff: the entry after a failure. *)
AfterFailure(entry) == [duration |-> NextDuration(entry), since |-> 0]

(* Mutant of WithoutStale: the timeout is compared with the duration.      *)
WithoutStaleEarly(entry) == IF entry.since >= entry.duration THEN NoBackoff ELSE entry

(* RemoveStaleBackoffData. *)
WithoutStale(entry) == IF entry.since > BackoffReset THEN NoBackoff ELSE entry

(* The entry one unit of time later. *)
Later(entry) ==
  IF entry = NoBackoff THEN entry
  ELSE [entry EXCEPT !.since = NoMoreThan(@ + 1, BackoffReset + 1)]

-----------------------------------------------------------------------------
BackoffInit == backoff = NoBackoff

Fail == backoff' = AfterFailure(backoff)
RemoveStale == backoff' = WithoutStale(backoff)
TimePasses == backoff' = Later(backoff)

BackoffNext == Fail \/ RemoveStale \/ TimePasses

BackoffSpec == BackoffInit /\ [][BackoffNext]_backoff

-----------------------------------------------------------------------------
(* A group that is backed off stays so until as much time has passed since *)
(* its last failure as the entry says; neither a clean-up nor another      *)
(* failure ends it earlier.  Several scale-ups that fail while the group   *)
(* is backed off do not make the duration grow (the comment in Backoff),   *)
(* and no failure makes it shorter: only a time without failures does.     *)
BackoffIsServed ==
  [][/\ IsBackedOff(backoff) /\ ~IsBackedOff(backoff') =>
          backoff.since = backoff.duration /\ backoff' = Later(backoff)
     /\ backoff' # NoBackoff /\ backoff'.since = 0 =>
          /\ IsBackedOff(backoff) => backoff'.duration = backoff.duration
          /\ backoff'.duration >= backoff.duration]_backoff

=============================================================================
