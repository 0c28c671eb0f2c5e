------------------------------ MODULE Conntrack ------------------------------
(***************************************************************************)
(* The expiring hash table that dnsredir.c and ttltrack.c each keep: a     *)
(* record per key, stamped with the time it was added, and a cleanup that  *)
(* runs when a packet is handled, at most once per Interval seconds.       *)
(*                                                                         *)
(* The code compares only differences of time(NULL) with the interval, so  *)
(* a time stamp is modelled by its age: the seconds since the record was   *)
(* added, and `since`, the seconds since the last cleanup.  Ages saturate  *)
(* at AgeCap, beyond which every comparison made by the code is decided.   *)
(* A table is a function whose domain is the set of keys in the hash.      *)
(***************************************************************************)
EXTENDS Integers

CONSTANT Interval      \* *_CLEANUP_INTERVAL_SEC (30 in both files)

ASSUME IntervalAssumption == Interval \in Nat \ {0}

AgeCap == 2 * Interval
Ages   == 0..AgeCap

Never  == -1           \* last_cleanup == 0: no packet handled yet

-----------------------------------------------------------------------------
(* Cleanup: the first call only starts the clock; later ones, once per     *)
(* Interval, delete the records that are at least Interval old.            *)

CleanupDue(since) == since >= Interval

(* Slip: a record of exactly Interval seconds is kept.                     *)
KeepsBoundary(table, since) ==
    IF CleanupDue(since)
    THEN [k \in {j \in DOMAIN table : table[j].age <= Interval} |-> table[k]]
    ELSE table

(* Slip: a due cleanup deletes every record.                               *)
WipesAll(table, since) == IF CleanupDue(since) THEN << >> ELSE table

Cleaned(table, since) ==
    IF CleanupDue(since)
    THEN [k \in {j \in DOMAIN table : table[j].age < Interval} |-> table[k]]
    ELSE table

(* Slip: last_cleanup stays 0.                                             *)
NeverStarts(since) == IF CleanupDue(since) THEN 0 ELSE since

(* Slip: last_cleanup is set on every packet, due or not.                  *)
AlwaysRestarts(since) == 0

SinceCleaned(since) ==
    IF since = Never \/ CleanupDue(since) THEN 0 ELSE since

(* HASH_ADD_STR and HASH_DEL. *)
With(table, key, record) ==
    [k \in DOMAIN table \cup {key} |-> IF k = key THEN record ELSE table[k]]

Without(table, key) == [k \in DOMAIN table \ {key} |-> table[k]]

(* One second passes. *)
Older(age)       == IF age < AgeCap THEN age + 1 ELSE age
OlderTable(table) ==
    [k \in DOMAIN table |-> [table[k] EXCEPT !.age = Older(@)]]
OlderSince(since) == IF since = Never THEN Never ELSE Older(since)

(* What the cleanup discipline guarantees: a record is less than Interval  *)
(* older than the last cleanup, which in turn bounds how stale the record  *)
(* can be when the next packet finds it.                                   *)
Young(table, since) ==
    \A k \in DOMAIN table :
        /\ since # Never
        /\ table[k].age < since + Interval
=============================================================================
