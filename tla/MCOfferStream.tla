--------------------------- MODULE MCOfferStream ---------------------------
EXTENDS OfferStream

(* Three offers in one book, two owners, one of whom issues the currency. *)
(* alice placed offers with sequences 1 and 3 (2 went to another          *)
(* transaction), gw with sequence 2.                                      *)
MCKeys == {"k1", "k2", "k3"}
MCOwners == {"alice", "gw"}
MCOfferId == ("k1" :> <<"alice", 1>>) @@ ("k2" :> <<"alice", 3>>) @@ ("k3" :> <<"gw", 2>>)
=============================================================================
