---------------------------- MODULE EscrowChannel ----------------------------
(***************************************************************************)
(* What a payment channel promises, without fees, reserves, directories,  *)
(* signatures or time (spec section 3, "Payment Channel"): the owner      *)
(* escrows funds for one destination, the amount paid out only grows and  *)
(* never exceeds the amount escrowed, the escrow only grows while open,   *)
(* the parties never change, and a closed channel stays closed, its id    *)
(* never reused.                                                          *)
(***************************************************************************)
EXTENDS Integers

CONSTANTS
    Channels,
    Accounts,
    NoParty      \* the owner and destination of a channel not open

VARIABLES
    status,      \* status[c]: "none", "open" or "closed"
    owner,       \* owner[c], dst[c]: the parties of an open channel
    dst,
    funded,      \* funded[c]: the escrowed amount of an open channel
    paid         \* paid[c]: the amount paid out of it so far

vars == <<status, owner, dst, funded, paid>>

(* Only channel c's entries change. *)
Only(c) ==
    \A x \in Channels \ {c} :
        /\ status'[x] = status[x] /\ owner'[x] = owner[x] /\ dst'[x] = dst[x]
        /\ funded'[x] = funded[x] /\ paid'[x] = paid[x]

Init ==
    /\ status = [c \in Channels |-> "none"]
    /\ owner = [c \in Channels |-> NoParty] /\ dst = owner
    /\ funded = [c \in Channels |-> 0] /\ paid = funded

(* The owner opens a channel to another account with some funds. *)
OpenChannel(c) ==
    /\ status[c] = "none" /\ status'[c] = "open"
    /\ owner'[c] \in Accounts /\ dst'[c] \in Accounts /\ owner'[c] # dst'[c]
    /\ funded'[c] \in Nat /\ paid'[c] = 0
    /\ Only(c)

(* The owner adds funds. *)
Deposit(c) ==
    /\ status[c] = "open" /\ status'[c] = "open"
    /\ owner'[c] = owner[c] /\ dst'[c] = dst[c]
    /\ funded'[c] > funded[c] /\ paid'[c] = paid[c]
    /\ Only(c)

(* The destination is paid up to a new total, within the escrow. *)
Pay(c) ==
    /\ status[c] = "open" /\ status'[c] = "open"
    /\ owner'[c] = owner[c] /\ dst'[c] = dst[c] /\ funded'[c] = funded[c]
    /\ paid[c] < paid'[c] /\ paid'[c] <= funded[c]
    /\ Only(c)

(* The channel closes; what was not paid goes back to the owner. *)
Close(c) ==
    /\ status[c] = "open" /\ status'[c] = "closed"
    /\ owner'[c] = NoParty /\ dst'[c] = NoParty
    /\ funded'[c] = 0 /\ paid'[c] = 0
    /\ Only(c)

Next == \E c \in Channels : OpenChannel(c) \/ Deposit(c) \/ Pay(c) \/ Close(c)

Spec == Init /\ [][Next]_vars

=============================================================================
