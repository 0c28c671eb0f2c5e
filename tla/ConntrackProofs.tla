--------------------------- MODULE ConntrackProofs ----------------------------
(***************************************************************************)
(* What the cleanup discipline of Conntrack guarantees, as lemmas for the  *)
(* proofs about the two tables built on it.                                *)
(***************************************************************************)
EXTENDS Conntrack, TLAPS

(* A table whose records carry an age, as far as the lemmas look at it.    *)
Aged(table) == \A k \in DOMAIN table : table[k].age \in Ages

(* Cleaning only removes records, and only records at least Interval old.  *)
LEMMA CleanedKeeps ==
    ASSUME NEW table, NEW since
    PROVE  /\ DOMAIN Cleaned(table, since) \subseteq DOMAIN table
           /\ \A k \in DOMAIN Cleaned(table, since) :
                 Cleaned(table, since)[k] = table[k]
           /\ \A k \in DOMAIN table :
                 table[k].age < Interval => k \in DOMAIN Cleaned(table, since)
BY DEF Cleaned

(* After the cleanup a packet triggers, the clock runs and every record is *)
(* young again, and so less than two intervals old.                        *)
LEMMA CleanedYoung ==
    ASSUME NEW table, NEW since \in Ages \cup {Never},
           Aged(table), Young(table, since)
    PROVE  /\ SinceCleaned(since) \in Ages
           /\ \A k \in DOMAIN Cleaned(table, since) :
                 /\ table[k].age < SinceCleaned(since) + Interval
                 /\ table[k].age < 2 * Interval
<1>1. CASE since = Never
  BY <1>1, IntervalAssumption DEF Young, SinceCleaned, Cleaned, CleanupDue, Ages, AgeCap
<1>2. CASE since # Never /\ CleanupDue(since)
  BY <1>2, IntervalAssumption
     DEF Aged, SinceCleaned, Cleaned, CleanupDue, Ages, AgeCap, Never
<1>3. CASE since # Never /\ ~CleanupDue(since)
  BY <1>3, IntervalAssumption
     DEF Aged, Young, SinceCleaned, Cleaned, CleanupDue, Ages, AgeCap, Never
<1> QED  BY <1>1, <1>2, <1>3

(* A second passing keeps ages in range.                                   *)
LEMMA OlderInRange ==
    ASSUME NEW age \in Ages
    PROVE  Older(age) \in Ages
BY IntervalAssumption DEF Older, Ages, AgeCap

(* A second passing keeps a young table young: records and the clock age   *)
(* together until both have saturated.                                     *)
LEMMA OlderYoung ==
    ASSUME NEW table, NEW since \in Ages \cup {Never},
           Aged(table), Young(table, since)
    PROVE  /\ OlderSince(since) \in Ages \cup {Never}
           /\ \A k \in DOMAIN table :
                 /\ OlderSince(since) # Never
                 /\ Older(table[k].age) < OlderSince(since) + Interval
<1>1. OlderSince(since) \in Ages \cup {Never}
  BY OlderInRange DEF OlderSince
<1>2. ASSUME NEW k \in DOMAIN table
      PROVE  /\ OlderSince(since) # Never
             /\ Older(table[k].age) < OlderSince(since) + Interval
  BY <1>2, IntervalAssumption
     DEF Aged, Young, OlderSince, Older, Ages, AgeCap, Never
<1> QED  BY <1>1, <1>2
=============================================================================
