----------------------------- MODULE CachedSLEs -----------------------------
(***************************************************************************)
(* The cache of ledger entries of src/mtchain/ledger/impl/CachedSLEs.cpp.  *)
(* map_ is an aged container: besides the key lookup it keeps its entries  *)
(* in a chronological list, oldest first, each stamped with the time it    *)
(* was inserted or last touched.  expire() walks that list under the mutex *)
(* and drops each entry old enough whose shared_ptr nobody else holds.     *)
(*                                                                         *)
(* The lookups that fill and touch the cache (CachedSLEs::fetch) and the   *)
(* callers that hold and release entries are the environment.              *)
(***************************************************************************)
EXTENDS Integers, Sequences, SequencesExt

CONSTANTS
    Keys,         \* ledger entry keys
    TimeToLive,   \* timeToLive_
    MaxTime,      \* bound: the clock
    MaxHolders    \* bound: callers holding one entry at a time

VARIABLES
    chron,        \* map_.chronological: <<[key, when]>>, oldest first
    holders,      \* holders[k]: shared_ptrs to k's entry outside the cache
    now           \* map_.clock().now()

vars == <<chron, holders, now>>

InCache(k) == \E i \in 1..Len(chron) : chron[i].key = k

(* iter->second.unique(): the cache holds the only reference. *)
unique(k) == holders[k] = 0

(* iter.when() > expireTime: the walk stops at the first young entry. *)
Young(e, t) == e.when > t

(* Mutant of Walk: the loop breaks at the first entry still held. *)
RECURSIVE WalkStopAtHeld(_, _, _)
WalkStopAtHeld(s, i, t) ==
    IF i > Len(s) \/ Young(s[i], t) \/ ~unique(s[i].key) THEN {s}
    ELSE LET s2 == RemoveAt(s, i) IN
         IF i > Len(s2)
         THEN {s2} \cup WalkStopAtHeld(s2, 1, t)
         ELSE WalkStopAtHeld(s2, i + 1, t)

(* The for loop of expire() from position i of s: an erased entry's      *)
(* successor is what erase() returns, and the loop's ++iter then steps   *)
(* past it.  When erase() returns end(), ++iter increments end(): the     *)
(* list is circular, so the build either lands on begin() and walks on,  *)
(* or (with checked iterators) stops; both outcomes are possible.        *)
RECURSIVE Walk(_, _, _)
Walk(s, i, t) ==
    IF i > Len(s) \/ Young(s[i], t) THEN {s}
    ELSE IF ~unique(s[i].key) THEN Walk(s, i + 1, t)
    ELSE LET s2 == RemoveAt(s, i) IN
         IF i > Len(s2)
         THEN {s2} \cup Walk(s2, 1, t)
         ELSE Walk(s2, i + 1, t)

(* CachedSLEs::expire: expireTime = now - timeToLive_, then the walk. *)
Expire ==
    /\ \E s \in Walk(chron, 1, now - TimeToLive) : chron' = s
    /\ UNCHANGED <<holders, now>>

-----------------------------------------------------------------------------
(* The environment.                                                        *)

(* fetch: a hit touches the entry (it moves to the young end with the     *)
(* current time); a miss inserts the entry read from the ledger.  Either  *)
(* way the caller now holds it.                                           *)
Fetch(k) ==
    /\ holders[k] < MaxHolders
    /\ chron' = Append(SelectSeq(chron, LAMBDA e : e.key # k), [key |-> k, when |-> now])
    /\ holders' = [holders EXCEPT ![k] = @ + 1]
    /\ UNCHANGED now

Release(k) ==
    /\ holders[k] > 0
    /\ holders' = [holders EXCEPT ![k] = @ - 1]
    /\ UNCHANGED <<chron, now>>

Tick ==
    /\ now < MaxTime
    /\ now' = now + 1
    /\ UNCHANGED <<chron, holders>>

Init ==
    /\ chron = <<>>
    /\ holders = [k \in Keys |-> 0]
    /\ now = 0

Next ==
    \/ Expire
    \/ \E k \in Keys : Fetch(k) \/ Release(k)
    \/ Tick

Spec == Init /\ [][Next]_vars

(* The sweep timer calls expire() periodically. *)
FairSpec == Spec /\ WF_vars(Expire)

-----------------------------------------------------------------------------
Stale(k) ==
    \E i \in 1..Len(chron) :
        chron[i].key = k /\ chron[i].when <= now - TimeToLive /\ holders[k] = 0

(* An entry past its time to live that nobody holds is eventually dropped *)
(* (or touched, or taken again) while expire() keeps being called.        *)
StaleEventuallyEvicted ==
    \A k \in Keys : Stale(k) ~> ~Stale(k)

(* One call of expire() leaves no entry past its time to live that nobody *)
(* holds: every such entry is older than the first young one.             *)
ExpireSweepsAll ==
    [][Expire => \A k \in Keys : ~Stale(k)']_vars

=============================================================================
