----------------------------- MODULE MCPayChan -----------------------------
(* PayChan instantiated for TLC: three accounts (a channel's owner, its   *)
(* destination and a third party), one missing account, two channel ids. *)
EXTENDS PayChan

MCAccounts == {"alice", "bob", "carol"}
MCChannels == {"c1"}

(* a transaction Amount field can carry a negative drop count *)
MCSignedAmounts == {-1, 1}
=============================================================================
