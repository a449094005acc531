----------------------------- MODULE MCCluster -----------------------------
EXTENDS Cluster

MCIds == {"n1", "n2"}
MCNames == {"", "x"}

(* Sections: a named node then a duplicate without a name, and the other  *)
(* order; one unnamed node; a bad line after a good one; an unparsable    *)
(* identity; nothing.                                                     *)
MCConfigs ==
    { << [id |-> "n1", name |-> "x"], [id |-> "n1", name |-> ""] >>,
      << [id |-> "n1", name |-> ""], [id |-> "n1", name |-> "x"] >>,
      << [id |-> "n1", name |-> ""] >>,
      << [id |-> "n2", name |-> "x"], Malformed, [id |-> "n1", name |-> "x"] >>,
      << Invalid >>,
      << >> }
=============================================================================
