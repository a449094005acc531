------------------------------ MODULE Bootcache ------------------------------
(***************************************************************************)
(* The peer finder's bootstrap cache, src/mtchain/peerfinder/impl/        *)
(* Bootcache.cpp: the addresses this server has tried, each with a        *)
(* valence that counts consecutive successes (positive) or failures       *)
(* (negative).  m_map is a bimap whose right view is ordered by Entry,    *)
(* highest valence first (Bootcache.h, not in the repository); entries of *)
(* equal valence keep their insertion order.  prune() erases from the end *)
(* of that view.  Changes are written to the Store (a database that       *)
(* survives restarts) at most once per cooldown period, and by the        *)
(* destructor; a crash loses what was not yet written.                    *)
(*                                                                         *)
(* The clock is abstracted to whether the cooldown since the last write   *)
(* is still running.                                                      *)
(***************************************************************************)
EXTENDS Integers, Sequences, SequencesExt, FiniteSets, Functions

CONSTANTS
    Endpoints,       \* addresses
    BootcacheSize,   \* Tuning::bootcacheSize
    PrunePercent,    \* Tuning::bootcachePrunePercent
    MaxValence,      \* bound: |valence|
    MaxRestarts      \* bound: crashes and orderly stops

VARIABLES
    map,             \* m_map's right view: <<[ep, val]>>, highest valence first
    needsUpdate,     \* m_needsUpdate
    cooling,         \* m_clock.now() <= m_whenUpdate
    store,           \* the Store's rows: a set of [ep, val]
    up,              \* the Bootcache object exists
    restarts,        \* crashes and stops so far (bound)
    readErased       \* an entry was read through an iterator prune() erased (history)

vars == <<map, needsUpdate, cooling, store, up, restarts, readErased>>

Keys(m) == {m[i].ep : i \in 1..Len(m)}
ValOf(m, ep) == (CHOOSE i \in 1..Len(m) : m[i].ep = ep) \* index of ep
Without(m, ep) == SelectSeq(m, LAMBDA e : e.ep # ep)

(* multiset_of<Entry>::insert: after every entry of at least the same     *)
(* valence.                                                               *)
InsertSorted(m, e) ==
    InsertAt(m, Cardinality({i \in 1..Len(m) : m[i].val >= e.val}) + 1, e)

(* Mutant of prune: the entries are erased from the front of the view. *)
pruneFront(m) ==
    IF Len(m) <= BootcacheSize THEN m
    ELSE LET count == (Len(m) * PrunePercent) \div 100
         IN SubSeq(m, Min({count, Len(m)}) + 1, Len(m))

(* prune: over the size limit, erase PrunePercent of the entries walking  *)
(* back from the end of the view, the lowest valences.                    *)
prune(m) ==
    IF Len(m) <= BootcacheSize THEN m
    ELSE LET count == (Len(m) * PrunePercent) \div 100
         IN SubSeq(m, 1, Len(m) - Min({count, Len(m)}))

(* Mutant of flagForUpdate: the flag is not raised when the write waits. *)
FlaggedNoMark(m) ==
    /\ map' = m
    /\ IF cooling
       THEN UNCHANGED <<needsUpdate, store, cooling>>
       ELSE /\ store' = Range(m)
            /\ needsUpdate' = FALSE
            /\ cooling' = TRUE

(* flagForUpdate: mark the store stale, then checkUpdate: write at once   *)
(* unless the cooldown still runs.  update() saves every entry, clears    *)
(* the flag and starts the cooldown.                                      *)
Flagged(m) ==
    /\ map' = m
    /\ IF cooling
       THEN /\ needsUpdate' = TRUE
            /\ UNCHANGED <<store, cooling>>
       ELSE /\ store' = Range(m)
            /\ needsUpdate' = FALSE
            /\ cooling' = TRUE

-----------------------------------------------------------------------------
(* The constructor and load(): clear() flags the store, each row of the   *)
(* store is inserted in the order the store returns them, and prune runs  *)
(* if any row was loaded.  m_whenUpdate starts at now.                    *)
Start ==
    /\ ~up
    /\ \E order \in SetToSeqs(store) :
          LET m == FoldLeft(InsertSorted, <<>>, order)
          IN map' = IF Len(order) > 0 THEN prune(m) ELSE m
    /\ needsUpdate' = TRUE /\ cooling' = TRUE /\ up' = TRUE
    /\ UNCHANGED <<store, restarts, readErased>>

(* Mutant of insert: the new entry is not followed by prune(). *)
insertNoPrune(ep) ==
    /\ up /\ ep \notin Keys(map)
    /\ Flagged(InsertSorted(map, [ep |-> ep, val |-> 0]))
    /\ UNCHANGED <<up, restarts, readErased>>

(* insert: a new address enters with valence 0, then prune and flag; a    *)
(* known address is left alone.                                           *)
insert(ep) ==
    /\ up /\ ep \notin Keys(map)
    /\ Flagged(prune(InsertSorted(map, [ep |-> ep, val |-> 0])))
    /\ UNCHANGED <<up, restarts, readErased>>

(* Mutant of on_success/on_failure: the old entry is not erased before  *)
(* the re-insert.                                                         *)
RecordNoErase(ep, first, step) ==
    /\ up
    /\ IF ep \notin Keys(map)
       THEN LET m == prune(InsertSorted(map, [ep |-> ep, val |-> first]))
            IN /\ Flagged(m)
               /\ readErased' = (readErased \/ ep \notin Keys(m))
       ELSE LET old == map[ValOf(map, ep)].val
                v == (IF old * step < 0 THEN 0 ELSE old) + step
            IN /\ v \in -MaxValence..MaxValence
               /\ Flagged(InsertSorted(map, [ep |-> ep, val |-> v]))
               /\ UNCHANGED readErased
    /\ UNCHANGED <<up, restarts>>

(* on_success and on_failure: a new address enters with valence 1 or -1   *)
(* and prune runs, after which the entry is read through the insert's     *)
(* iterator; a known address has its valence reset to 0 if of the other   *)
(* sign, moved one step, and is erased and re-inserted.  Then flag.       *)
Record(ep, first, step) ==
    /\ up
    /\ IF ep \notin Keys(map)
       THEN LET m == prune(InsertSorted(map, [ep |-> ep, val |-> first]))
            IN /\ Flagged(m)
               /\ readErased' = (readErased \/ ep \notin Keys(m))
       ELSE LET old == map[ValOf(map, ep)].val
                v == (IF old * step < 0 THEN 0 ELSE old) + step
            IN /\ v \in -MaxValence..MaxValence
               /\ Flagged(InsertSorted(Without(map, ep), [ep |-> ep, val |-> v]))
               /\ UNCHANGED readErased
    /\ UNCHANGED <<up, restarts>>

on_success(ep) == Record(ep, 1, 1)
on_failure(ep) == Record(ep, -1, -1)

(* Mutant of checkUpdate: the flag test is inverted. *)
checkUpdateFlagInverted ==
    /\ up /\ ~needsUpdate /\ ~cooling
    /\ store' = Range(map) /\ needsUpdate' = FALSE /\ cooling' = TRUE
    /\ UNCHANGED <<map, up, restarts, readErased>>

(* periodicActivity: checkUpdate writes the store once the cooldown has   *)
(* passed.                                                                *)
checkUpdate ==
    /\ up /\ needsUpdate /\ ~cooling
    /\ store' = Range(map) /\ needsUpdate' = FALSE /\ cooling' = TRUE
    /\ UNCHANGED <<map, up, restarts, readErased>>

(* The clock passes m_whenUpdate. *)
Tick ==
    /\ cooling /\ cooling' = FALSE
    /\ UNCHANGED <<map, needsUpdate, store, up, restarts, readErased>>

(* The destructor calls update(), whatever the cooldown. *)
Stop ==
    /\ up /\ restarts < MaxRestarts
    /\ store' = IF needsUpdate THEN Range(map) ELSE store
    /\ map' = <<>> /\ needsUpdate' = FALSE /\ up' = FALSE
    /\ restarts' = restarts + 1
    /\ UNCHANGED <<cooling, readErased>>

(* The process dies: the cache is lost, the store keeps its last write. *)
Crash ==
    /\ up /\ restarts < MaxRestarts
    /\ map' = <<>> /\ needsUpdate' = FALSE /\ up' = FALSE
    /\ restarts' = restarts + 1
    /\ UNCHANGED <<cooling, store, readErased>>

Init ==
    /\ map = <<>> /\ needsUpdate = FALSE /\ cooling = TRUE
    /\ store = {} /\ up = FALSE /\ restarts = 0 /\ readErased = FALSE

Next ==
    \/ Start
    \/ \E ep \in Endpoints : insert(ep) \/ on_success(ep) \/ on_failure(ep)
    \/ checkUpdate
    \/ Tick
    \/ Stop
    \/ Crash

Spec == Init /\ [][Next]_vars

(* The peer finder's timer calls periodicActivity, and time passes. *)
FairSpec == Spec /\ WF_vars(checkUpdate) /\ WF_vars(Tick)

-----------------------------------------------------------------------------
Entry == [ep : Endpoints, val : -MaxValence..MaxValence]

(* The cache is a bimap: each address has one entry, whatever sequence of *)
(* on_success and on_failure re-ranks it (erase, then insert), and the    *)
(* right view stays ordered by valence.                                   *)
TypeOK ==
    /\ map \in Seq(Entry) /\ Len(map) <= Cardinality(Endpoints)
    /\ \A i, j \in 1..Len(map) : i < j => map[i].ep # map[j].ep /\ map[i].val >= map[j].val
    /\ store \subseteq Entry
    /\ needsUpdate \in BOOLEAN /\ cooling \in BOOLEAN /\ up \in BOOLEAN
    /\ restarts \in 0..MaxRestarts /\ readErased \in BOOLEAN

(* prune() keeps the cache within Tuning::bootcacheSize after every       *)
(* insert, on_success, on_failure and load, although it erases a share of *)
(* the entries computed in integer arithmetic.                            *)
CacheBounded == Len(map) <= BootcacheSize

(* Whenever m_needsUpdate is clear, the Store holds exactly the cache: no *)
(* change made during a cooldown is forgotten by flagForUpdate.           *)
StoreMirrorsCache == up /\ ~needsUpdate => store = Range(map)

(* prune() only ever drops entries of a valence no higher than any entry  *)
(* it keeps: the addresses that worked best survive.                      *)
PruneKeepsBest ==
    [][up /\ up' =>
        \A d \in Range(map), k \in Range(map') :
            d.ep \notin Keys(map') => d.val <= k.val]_vars

(* A change flagged for the Store is written by periodicActivity once the *)
(* cooldown passes, unless the process stops or crashes first.            *)
EventuallySaved == (up /\ needsUpdate) ~> (~up \/ ~needsUpdate)

(* The entry on_success and on_failure log (Bootcache.cpp:143, 171) is    *)
(* still in the cache: prune() has not erased it.                         *)
PrunedEntryNotRead == ~readErased

=============================================================================
