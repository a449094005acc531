------------------------------- MODULE Cluster -------------------------------
(***************************************************************************)
(* Cluster membership of src/mtchain/overlay/impl/Cluster.cpp: the set of  *)
(* cluster nodes, each with a name, a load fee and the time of the report  *)
(* that set them.  Cluster::load reads the [cluster_nodes] configuration   *)
(* at startup; Cluster::update then applies the status reports that       *)
(* cluster peers send, which arrive in any order, late, or more than once. *)
(***************************************************************************)
EXTENDS Integers, Sequences

CONSTANTS
    Ids,         \* node public keys
    Names,       \* node names; "" is the empty name
    Fees,        \* load fees a report may carry
    Times,       \* report times (positive; 0 is the default time_point)
    Configs,     \* possible [cluster_nodes] sections: lines in order
    Malformed,   \* a line the regular expression rejects
    Invalid,     \* a line whose identity does not parse as a node key
    None         \* no entry for an identity

VARIABLES
    nodes,       \* nodes_: for each identity its ClusterNode or None
    phase,       \* "config" before load, "running" after, "stopped" on failure
    delivered,   \* the reports update() has been given (history)
    section      \* the [cluster_nodes] lines load() was given (history)

vars == <<nodes, phase, delivered, section>>

Node(name, fee, time) == [name |-> name, fee |-> fee, time |-> time]

(* Mutant of update: the report time is not compared. *)
updateAnyTime(ns, id, name, fee, time) ==
    LET keep == IF ns[id] # None /\ name = "" THEN ns[id].name ELSE name
    IN [ok |-> TRUE, nodes |-> [ns EXCEPT ![id] = Node(keep, fee, time)]]

(* Cluster::update: a known node takes a report only if it is strictly    *)
(* newer than the one it holds, and an empty name keeps the stored name;  *)
(* an unknown identity is inserted.  Returns whether it was taken.        *)
update(ns, id, name, fee, time) ==
    IF ns[id] # None /\ time <= ns[id].time
    THEN [ok |-> FALSE, nodes |-> ns]
    ELSE LET keep == IF ns[id] # None /\ name = "" THEN ns[id].name ELSE name
         IN [ok |-> TRUE, nodes |-> [ns EXCEPT ![id] = Node(keep, fee, time)]]

(* Cluster::load: each line in order; a malformed line or an identity     *)
(* that does not parse ends the load with false (the lines before it are  *)
(* already in), a duplicate identity is skipped, any other line is       *)
(* update(id, comment) with load fee 0 and the default report time 0.     *)
(* Mutant of load: a bad line is skipped like a duplicate. *)
RECURSIVE loadSkipBad(_, _)
loadSkipBad(ns, lines) ==
    IF lines = <<>> THEN [ok |-> TRUE, nodes |-> ns]
    ELSE LET l == Head(lines) IN
         IF l = Malformed \/ l = Invalid THEN loadSkipBad(ns, Tail(lines))
         ELSE IF ns[l.id] # None THEN loadSkipBad(ns, Tail(lines))
         ELSE loadSkipBad(update(ns, l.id, l.name, 0, 0).nodes, Tail(lines))

RECURSIVE load(_, _)
load(ns, lines) ==
    IF lines = <<>> THEN [ok |-> TRUE, nodes |-> ns]
    ELSE LET l == Head(lines) IN
         IF l = Malformed \/ l = Invalid THEN [ok |-> FALSE, nodes |-> ns]
         ELSE IF ns[l.id] # None THEN load(ns, Tail(lines))
         ELSE load(update(ns, l.id, l.name, 0, 0).nodes, Tail(lines))

-----------------------------------------------------------------------------
(* Startup: the configuration is loaded; a false result stops the server. *)
Load(config) ==
    /\ phase = "config"
    /\ LET r == load(nodes, config) IN
       /\ nodes' = r.nodes
       /\ phase' = IF r.ok THEN "running" ELSE "stopped"
    /\ section' = config
    /\ UNCHANGED delivered

(* A TMCluster report from a cluster peer reaches update(). *)
Receive(id, name, fee, time) ==
    /\ phase = "running"
    /\ nodes' = update(nodes, id, name, fee, time).nodes
    /\ delivered' = delivered \cup {[id |-> id, name |-> name, fee |-> fee, time |-> time]}
    /\ UNCHANGED <<phase, section>>

Init ==
    /\ nodes = [id \in Ids |-> None]
    /\ phase = "config"
    /\ delivered = {}
    /\ section = <<>>

Next ==
    \/ \E config \in Configs : Load(config)
    \/ \E id \in Ids, name \in Names, fee \in Fees, time \in Times :
          Receive(id, name, fee, time)

Spec == Init /\ [][Next]_vars

-----------------------------------------------------------------------------
(* However the reports of a node are reordered or repeated, its entry     *)
(* holds a report of the newest time delivered: a late report never       *)
(* rolls its load fee back.                                               *)
LatestReportWins ==
    \A id \in Ids :
        LET mine == {r \in delivered : r.id = id} IN
        mine # {} =>
            /\ nodes[id] # None
            /\ \A r \in mine : r.time <= nodes[id].time
            /\ \E r \in mine : r.time = nodes[id].time /\ r.fee = nodes[id].fee

(* The line of the section that first names identity id. *)
FirstLine(id) ==
    section[CHOOSE i \in 1..Len(section) :
               /\ section[i] \notin {Malformed, Invalid}
               /\ section[i].id = id
               /\ \A j \in 1..(i - 1) : section[j] \notin {Malformed, Invalid}
                                        => section[j].id # id]

(* A server runs only on the whole configuration: once load() has        *)
(* returned true, no line of the section was malformed or unparsable,     *)
(* and every configured identity is a member; until a report about it     *)
(* arrives, a node holds the name of the first line that names it (a      *)
(* later duplicate is skipped, Cluster.cpp:124-128), load fee 0 and the   *)
(* default report time.  load() inserts each line as it goes              *)
(* (Cluster.cpp:131), so a bad line after good ones leaves a part of the  *)
(* section loaded.                                                        *)
ConfigLoadedWhole ==
    phase = "running" =>
        \A i \in 1..Len(section) :
            /\ section[i] \notin {Malformed, Invalid}
            /\ nodes[section[i].id] # None
            /\ (\A r \in delivered : r.id # section[i].id)
                => nodes[section[i].id] = Node(FirstLine(section[i].id).name, 0, 0)

=============================================================================
