------------------------------ MODULE PayChan ------------------------------
(***************************************************************************)
(* The payment-channel transactions of src/mtchain/app/tx/impl/PayChan.cpp *)
(* (PaymentChannelCreate, PaymentChannelFund, PaymentChannelClaim and the  *)
(* shared closeChannel routine) applied one at a time to a ledger, under   *)
(* the transactor's commit rule: a tes result keeps every change of the    *)
(* apply view, a tec result keeps only the fee, any other result keeps     *)
(* nothing.                                                                *)
(*                                                                         *)
(* The ledger is one record, the apply view: native balances, owner counts *)
(* and owner directories of the accounts, and the channel objects.         *)
(* Each doApply is an operator from a view to [ter, view], so that the     *)
(* discard of a failed transaction is exactly "keep the old view".         *)
(***************************************************************************)
EXTENDS Integers, FiniteSets, Functions, FiniteSetsExt, TER

CONSTANTS
    Accounts,       \* accounts present in the ledger
    Ghost,          \* an account id with no account root
    Channels,       \* channel ids keylet::payChan(account, dst, seq) can yield
    Amounts,        \* drop amounts a transaction may carry
    Delays,         \* settle delays a create may carry
    MaxTime,        \* last parentCloseTime the model reaches
    Fee,            \* base fee charged to every tes/tec transaction
    ReserveBase,    \* accountReserve(n) = ReserveBase + n * ReserveInc
    ReserveInc,
    InitBalance,    \* every account's balance in the initial ledger
    RequireDestTag, \* accounts with lsfRequireDestTag
    DisallowM,      \* accounts with lsfDisallowM
    MaxFees,        \* bound: fees burned, i.e. transactions applied x Fee
    None,           \* an absent optional field
    BadKey          \* a PublicKey field publicKeyType() rejects

ASSUME Ghost \notin Accounts /\ None \notin Int /\ BadKey \notin Accounts
ASSUME RequireDestTag \subseteq Accounts /\ DisallowM \subseteq Accounts
ASSUME MaxTime \in Nat /\ Fee \in Nat /\ InitBalance \in Nat /\ MaxFees \in Nat

VARIABLES
    ledger,   \* the apply view: [bal, ownerCount, dir, chan]
    now,      \* parentCloseTime of the open ledger
    burned,   \* drops destroyed as fees
    used,     \* channel ids already taken (a sequence is never reused)
    authorized, \* authorized[c]: the largest balance of c its payer has
              \* authorized, signed off-ledger with c's key or claimed by the owner
    notice,   \* notice[c]: close time at which c's current expiration was first set
    submitter \* the account of the last transaction that was applied

vars == <<ledger, now, burned, used, authorized, notice, submitter>>

Keys == Accounts               \* a public key, named by the account holding it
Times == 0..MaxTime
NoChan == [open |-> FALSE]
Opt(S) == S \cup {None}
TotalDrops == InitBalance * Cardinality(Accounts)

accountReserve(n) == ReserveBase + n * ReserveInc

Open(v, c) == v.chan[c].open

Result(t, v) == [ter |-> t, view |-> v]

-----------------------------------------------------------------------------
(* Mutants of closeChannel: the refund forgets what was already paid; the  *)
(* directory unlink is dropped; the owner count of the destination is      *)
(* decremented instead of the owner's.                                     *)
closeChannelRefundAll(v, c) ==
    LET ch == v.chan[c] IN
    IF c \notin v.dir[ch.owner] THEN Result("tefBAD_LEDGER", v)
    ELSE Result("tesSUCCESS",
           [v EXCEPT !.dir[ch.owner] = @ \ {c}, !.bal[ch.owner] = @ + ch.amount,
                     !.ownerCount[ch.owner] = @ - 1, !.chan[c] = NoChan])
closeChannelKeepDir(v, c) ==
    LET ch == v.chan[c] IN
    IF c \notin v.dir[ch.owner] THEN Result("tefBAD_LEDGER", v)
    ELSE Result("tesSUCCESS",
           [v EXCEPT !.bal[ch.owner] = @ + ch.amount - ch.balance,
                     !.ownerCount[ch.owner] = @ - 1, !.chan[c] = NoChan])
closeChannelWrongCount(v, c) ==
    LET ch == v.chan[c] IN
    IF c \notin v.dir[ch.owner] THEN Result("tefBAD_LEDGER", v)
    ELSE Result("tesSUCCESS",
           [v EXCEPT !.dir[ch.owner] = @ \ {c}, !.bal[ch.owner] = @ + ch.amount - ch.balance,
                     !.ownerCount[ch.dst] = @ - 1, !.chan[c] = NoChan])

(* closeChannel: unlink from the owner directory, return Amount - Balance  *)
(* to the owner, decrement the owner count, erase the channel.             *)
closeChannel(v, c) ==
    LET ch  == v.chan[c]
        src == ch.owner
    IN IF c \notin v.dir[src]
       THEN Result("tefBAD_LEDGER", v)
       ELSE Result("tesSUCCESS",
              [v EXCEPT !.dir[src]        = @ \ {c},
                        !.bal[src]        = @ + ch.amount - ch.balance,
                        !.ownerCount[src] = @ - 1,
                        !.chan[c]         = NoChan])

(* The close-time check both Fund and Claim make before anything else.    *)
PastCancel(ch) ==
    \/ ch.cancelAfter # None /\ now >= ch.cancelAfter
    \/ ch.expiration # None /\ now >= ch.expiration

-----------------------------------------------------------------------------
(* PayChanCreate *)
CreatePreflight(a, dst, pk) ==
    IF a = dst THEN "temDST_IS_SRC"
    ELSE IF pk \notin Keys THEN "temMALFORMED"
    ELSE "tesSUCCESS"

(* Mutant of preclaim: the amount is not added to the reserve test. *)
CreatePreclaimNoAmount(v, a, dst, amt, destTag) ==
    LET balance == v.bal[a]
        reserve == accountReserve(v.ownerCount[a] + 1)
    IN IF balance < reserve THEN "tecINSUFFICIENT_RESERVE"
       ELSE IF dst \notin Accounts THEN "tecNO_DST"
       ELSE IF dst \in RequireDestTag /\ ~destTag THEN "tecDST_TAG_NEEDED"
       ELSE IF dst \in DisallowM THEN "tecNO_TARGET"
       ELSE "tesSUCCESS"

CreatePreclaim(v, a, dst, amt, destTag) ==
    LET balance == v.bal[a]
        reserve == accountReserve(v.ownerCount[a] + 1)
    IN IF balance < reserve THEN "tecINSUFFICIENT_RESERVE"
       ELSE IF balance < reserve + amt THEN "tecUNFUNDED"
       ELSE IF dst \notin Accounts THEN "tecNO_DST"
       ELSE IF dst \in RequireDestTag /\ ~destTag THEN "tecDST_TAG_NEEDED"
       ELSE IF dst \in DisallowM THEN "tecNO_TARGET"
       ELSE "tesSUCCESS"

(* dirAdd (View.cpp, not under src/): link c into a's owner directory,   *)
(* or tecDIR_FULL when the directory has no room for another page.  What  *)
(* fills a directory (offers, trust lines) is outside this model, so      *)
(* whether it is full is an input of the transaction.                     *)
dirAdd(v, a, c, full) ==
    IF full THEN Result("tecDIR_FULL", v)
    ELSE Result("tesSUCCESS", [v EXCEPT !.dir[a] = @ \cup {c}])

(* Mutant of CreateDoApply: dirAdd's failure is not returned.            *)
CreateDoApplyIgnoreDirAdd(v, a, c, dst, amt, delay, pk, cancelAfter, full) ==
    LET v1 == (dirAdd([v EXCEPT !.chan[c] = [open |-> TRUE, owner |-> a, dst |-> dst,
                                 amount |-> amt, balance |-> 0,
                                 settleDelay |-> delay, pk |-> pk,
                                 cancelAfter |-> cancelAfter, expiration |-> None]],
                      a, c, full)).view
    IN Result("tesSUCCESS", [v1 EXCEPT !.bal[a] = @ - amt, !.ownerCount[a] = @ + 1])

(* The channel object is inserted, then linked into the owner directory;  *)
(* a failing dirAdd returns its result with the insert still in the view, *)
(* which the transactor's tec rule then discards.                         *)
CreateDoApply(v, a, c, dst, amt, delay, pk, cancelAfter, full) ==
    LET inserted == [v EXCEPT !.chan[c] = [open |-> TRUE, owner |-> a, dst |-> dst,
                                           amount |-> amt, balance |-> 0,
                                           settleDelay |-> delay, pk |-> pk,
                                           cancelAfter |-> cancelAfter,
                                           expiration |-> None]]
        added == dirAdd(inserted, a, c, full)
    IN IF ~isTesSuccess(added.ter) THEN added
       ELSE Result("tesSUCCESS",
                   [added.view EXCEPT !.bal[a] = @ - amt, !.ownerCount[a] = @ + 1])

-----------------------------------------------------------------------------
(* PayChanFund *)
FundPreflight(amt) ==
    IF amt <= 0 THEN "temBAD_AMOUNT" ELSE "tesSUCCESS"

(* Mutant of FundDoApply: an Expiration below minExpiration is accepted.  *)
FundDoApplyNoMinExpiration(v, a, c, amt, extend) ==
    IF ~Open(v, c) THEN Result("tecNO_ENTRY", v)
    ELSE LET ch == v.chan[c] IN
    IF PastCancel(ch) THEN closeChannel(v, c)
    ELSE IF ch.owner # a THEN Result("tecNO_PERMISSION", v)
    ELSE LET v1 == IF extend = None THEN v
                   ELSE [v EXCEPT !.chan[c].expiration = extend]
         IN IF v1.bal[a] < accountReserve(v1.ownerCount[a])
                THEN Result("tecINSUFFICIENT_RESERVE", v1)
            ELSE IF v1.bal[a] < accountReserve(v1.ownerCount[a]) + amt
                THEN Result("tecUNFUNDED", v1)
            ELSE Result("tesSUCCESS",
                   [v1 EXCEPT !.chan[c].amount = @ + amt, !.bal[a] = @ - amt])

FundDoApply(v, a, c, amt, extend) ==
    IF ~Open(v, c) THEN Result("tecNO_ENTRY", v)
    ELSE LET ch == v.chan[c] IN
    IF PastCancel(ch) THEN closeChannel(v, c)
    ELSE IF ch.owner # a THEN Result("tecNO_PERMISSION", v)
    ELSE LET minExpiration ==
                 IF ch.expiration # None /\ ch.expiration < now + ch.settleDelay
                 THEN ch.expiration ELSE now + ch.settleDelay
             v1 == IF extend = None THEN v
                   ELSE [v EXCEPT !.chan[c].expiration = extend]
             balance == v1.bal[a]
             reserve == accountReserve(v1.ownerCount[a])
         IN IF extend # None /\ extend < minExpiration
            THEN Result("temBAD_EXPIRATION", v)
            ELSE IF balance < reserve THEN Result("tecINSUFFICIENT_RESERVE", v1)
            ELSE IF balance < reserve + amt THEN Result("tecUNFUNDED", v1)
            ELSE Result("tesSUCCESS",
                   [v1 EXCEPT !.chan[c].amount = @ + amt,
                              !.bal[a]         = @ - amt])

-----------------------------------------------------------------------------
(* PayChanClaim.  A signature over (c, authAmt) verifies for key pk when   *)
(* pk is the submitter's own key (anyone can sign with their own key) or   *)
(* when the holder of c's key has authorized a balance of at least authAmt.*)
Verified(a, c, pk, authAmt) ==
    \/ pk = a
    \/ /\ Open(ledger, c)
       /\ pk = ledger.chan[c].pk
       /\ authAmt <= authorized[c]

ClaimPreflight(a, c, bal, amt, sig, pk, close, renew) ==
    IF bal # None /\ bal <= 0 THEN "temBAD_AMOUNT"
    ELSE IF amt # None /\ amt <= 0 THEN "temBAD_AMOUNT"
    ELSE IF bal # None /\ amt # None /\ bal > amt THEN "tecNO_PERMISSION"
    ELSE IF close /\ renew THEN "temMALFORMED"
    ELSE IF sig /\ (pk = None \/ bal = None) THEN "temMALFORMED"
    ELSE IF sig /\ ~Verified(a, c, pk, IF amt = None THEN bal ELSE amt)
         THEN "temBAD_SIGNATURE"
    ELSE "tesSUCCESS"

(* Mutants of ClaimBalance: the signer check is dropped; the check        *)
(* against the channel's funds is dropped.                                 *)
ClaimBalanceAnySigner(v, a, c, bal, sig, pk) ==
    LET ch == v.chan[c] IN
    IF bal = None THEN Result("tesSUCCESS", v)
    ELSE IF a = ch.dst /\ ~sig THEN Result("temBAD_SIGNATURE", v)
    ELSE IF bal > ch.amount \/ bal <= ch.balance THEN Result("tecUNFUNDED_PAYMENT", v)
    ELSE IF a = ch.owner /\ ch.dst \in DisallowM THEN Result("tecNO_TARGET", v)
    ELSE Result("tesSUCCESS", [v EXCEPT !.chan[c].balance = bal,
                                        !.bal[ch.dst] = @ + (bal - ch.balance)])
ClaimBalanceUnfunded(v, a, c, bal, sig, pk) ==
    LET ch == v.chan[c] IN
    IF bal = None THEN Result("tesSUCCESS", v)
    ELSE IF a = ch.dst /\ ~sig THEN Result("temBAD_SIGNATURE", v)
    ELSE IF sig /\ pk # ch.pk THEN Result("temBAD_SIGNER", v)
    ELSE IF bal <= ch.balance THEN Result("tecUNFUNDED_PAYMENT", v)
    ELSE IF a = ch.owner /\ ch.dst \in DisallowM THEN Result("tecNO_TARGET", v)
    ELSE Result("tesSUCCESS", [v EXCEPT !.chan[c].balance = bal,
                                        !.bal[ch.dst] = @ + (bal - ch.balance)])

(* The Balance branch: pay reqBalance - chanBalance to the destination.   *)
ClaimBalance(v, a, c, bal, sig, pk) ==
    LET ch == v.chan[c] IN
    IF bal = None THEN Result("tesSUCCESS", v)
    ELSE IF a = ch.dst /\ ~sig THEN Result("temBAD_SIGNATURE", v)
    ELSE IF sig /\ pk # ch.pk THEN Result("temBAD_SIGNER", v)
    ELSE IF bal > ch.amount THEN Result("tecUNFUNDED_PAYMENT", v)
    ELSE IF bal <= ch.balance THEN Result("tecUNFUNDED_PAYMENT", v)
    ELSE IF ch.dst \notin Accounts THEN Result("terNO_ACCOUNT", v)
    ELSE IF a = ch.owner /\ ch.dst \in DisallowM THEN Result("tecNO_TARGET", v)
    ELSE Result("tesSUCCESS",
           [v EXCEPT !.chan[c].balance = bal,
                     !.bal[ch.dst]     = @ + (bal - ch.balance)])

(* The tfRenew and tfClose branches, on the view the Balance branch left. *)
ClaimFlags(v, a, c, close, renew, curExpiration) ==
    LET ch == v.chan[c] IN
    IF renew /\ ch.owner # a THEN Result("tecNO_PERMISSION", v)
    ELSE LET v1 == IF renew THEN [v EXCEPT !.chan[c].expiration = None] ELSE v
             settleExpiration == now + ch.settleDelay
         IN IF ~close THEN Result("tesSUCCESS", v1)
            ELSE IF ch.dst = a \/ ch.balance = ch.amount THEN closeChannel(v1, c)
            ELSE IF curExpiration = None \/ curExpiration > settleExpiration
                 THEN Result("tesSUCCESS",
                        [v1 EXCEPT !.chan[c].expiration = settleExpiration])
                 ELSE Result("tesSUCCESS", v1)

ClaimDoApply(v, a, c, bal, sig, pk, close, renew) ==
    IF ~Open(v, c) THEN Result("tecNO_TARGET", v)
    ELSE LET ch == v.chan[c] IN
    IF PastCancel(ch) THEN closeChannel(v, c)
    ELSE IF a # ch.owner /\ a # ch.dst THEN Result("tecNO_PERMISSION", v)
    ELSE LET r == ClaimBalance(v, a, c, bal, sig, pk) IN
         IF ~isTesSuccess(r.ter) THEN r
         ELSE ClaimFlags(r.view, a, c, close, renew, ch.expiration)

-----------------------------------------------------------------------------
(* The transactor around every doApply (not under src/): a failed          *)
(* preflight changes nothing; a source that cannot pay the fee changes     *)
(* nothing; preclaim reads the view before the fee is taken, doApply runs  *)
(* on the view after it; tes keeps doApply's view, tec keeps only the fee, *)
(* every other result keeps nothing.                                       *)
(* pf is preflight's result, pc preclaim's on the ledger, r doApply's on  *)
(* Charged(a), the ledger with the fee taken from the source a.           *)
Charged(a) == [ledger EXCEPT !.bal[a] = @ - Fee]

Transact(a, pf, pc, r) ==
    LET ter == IF ~isTesSuccess(pf) THEN pf
               ELSE IF ledger.bal[a] < Fee THEN "terINSUF_FEE_B"
               ELSE IF ~isTesSuccess(pc) THEN pc
               ELSE r.ter
        applied == isTesSuccess(pf) /\ ledger.bal[a] >= Fee
        feeTaken == applied /\ (isTesSuccess(ter) \/ isTecClaim(ter))
        next == IF ~feeTaken THEN ledger
                ELSE IF isTesSuccess(ter) THEN r.view
                ELSE Charged(a)
    IN /\ feeTaken => burned + Fee <= MaxFees
       /\ ledger' = next
       /\ burned' = IF feeTaken THEN burned + Fee ELSE burned
       /\ notice' = [c \in Channels |->
                       IF ~Open(next, c) \/ next.chan[c].expiration = None THEN None
                       ELSE IF Open(ledger, c) /\ ledger.chan[c].expiration # None
                            THEN notice[c]
                            ELSE now]
       /\ submitter' = IF feeTaken THEN a ELSE submitter

PayChanCreate(a, dst, amt, delay, pk, cancelAfter, destTag, full) ==
    /\ used # Channels
    /\ LET c == CHOOSE x \in Channels \ used : TRUE IN
       /\ Transact(a, CreatePreflight(a, dst, pk),
                   CreatePreclaim(ledger, a, dst, amt, destTag),
                   CreateDoApply(Charged(a), a, c, dst, amt, delay, pk, cancelAfter, full))
       /\ used' = IF Open(ledger', c) THEN used \cup {c} ELSE used
       /\ UNCHANGED <<now, authorized>>

PayChanFund(a, c, amt, extend) ==
    /\ Transact(a, FundPreflight(amt),
                "tesSUCCESS",
                FundDoApply(Charged(a), a, c, amt, extend))
    /\ UNCHANGED <<now, used, authorized>>

PayChanClaim(a, c, bal, amt, sig, pk, close, renew) ==
    /\ Transact(a, ClaimPreflight(a, c, bal, amt, sig, pk, close, renew),
                "tesSUCCESS",
                ClaimDoApply(Charged(a), a, c, bal, sig, pk, close, renew))
    \* a balance the owner claims itself is one it authorized
    /\ authorized' =
         IF Open(ledger, c) /\ a = ledger.chan[c].owner /\ bal # None
            /\ Open(ledger', c) /\ ledger'.chan[c].balance = bal
            /\ bal > authorized[c]
         THEN [authorized EXCEPT ![c] = bal] ELSE authorized
    /\ UNCHANGED <<now, used>>

(* Off ledger: the holder of c's key signs a claim for balance amt.        *)
SignClaim(c, amt) ==
    /\ Open(ledger, c)
    /\ amt > authorized[c]
    /\ authorized' = [authorized EXCEPT ![c] = amt]
    /\ UNCHANGED <<ledger, now, burned, used, notice, submitter>>

(* The network closes a ledger: parentCloseTime advances.                  *)
CloseLedger ==
    /\ now < MaxTime
    /\ now' = now + 1
    /\ UNCHANGED <<ledger, burned, used, authorized, notice, submitter>>

-----------------------------------------------------------------------------
ExpTimes == 0..(MaxTime + 1)
Flags == {<<FALSE, FALSE>>, <<TRUE, FALSE>>, <<FALSE, TRUE>>, <<TRUE, TRUE>>}

Init ==
    /\ ledger = [bal        |-> [a \in Accounts |-> InitBalance],
                 ownerCount |-> [a \in Accounts |-> 0],
                 dir        |-> [a \in Accounts |-> {}],
                 chan       |-> [c \in Channels |-> NoChan]]
    /\ now = 0
    /\ burned = 0
    /\ used = {}
    /\ authorized = [c \in Channels |-> 0]
    /\ notice = [c \in Channels |-> None]
    /\ submitter = None

Next ==
    \/ \E a \in Accounts, dst \in Accounts \cup {Ghost}, amt \in Amounts,
          delay \in Delays, cancelAfter \in Opt(Times \ {0}) :
          \* a key held by a third party acts as the owner's would; a
          \* DestinationTag only matters to a destination requiring one
          \E pk \in ({a, dst} \cap Keys) \cup {BadKey},
             destTag \in IF dst \in RequireDestTag THEN BOOLEAN ELSE {FALSE},
             full \in BOOLEAN :
             PayChanCreate(a, dst, amt, delay, pk, cancelAfter, destTag, full)
    \/ \E a \in Accounts, c \in used, amt \in Amounts, extend \in Opt(ExpTimes) :
          PayChanFund(a, c, amt, extend)
    \/ \E a \in Accounts, c \in used, bal \in Opt(Amounts \ {0}), sig \in BOOLEAN,
          f \in Flags :
          \* without a signature, Amount only feeds a preflight check, and a
          \* preflight failure changes nothing
          \E pk \in IF sig THEN Keys ELSE {None},
             amt \in IF sig THEN Opt(Amounts \ {0}) ELSE {None} :
             PayChanClaim(a, c, bal, amt, sig, pk, f[1], f[2])
    \/ \E c \in Channels, amt \in Amounts : SignClaim(c, amt)
    \/ CloseLedger

Spec == Init /\ [][Next]_vars

-----------------------------------------------------------------------------
ChanRec == [open : {TRUE}, owner : Accounts, dst : Accounts, amount : Int,
            balance : Int, settleDelay : Delays, pk : Keys,
            cancelAfter : Opt(Times), expiration : Opt(Int)]

TypeOK ==
    /\ ledger.bal \in [Accounts -> Int]
    /\ ledger.ownerCount \in [Accounts -> Nat]
    /\ ledger.dir \in [Accounts -> SUBSET Channels]
    /\ ledger.chan \in [Channels -> ChanRec \cup {NoChan}]
    /\ now \in Times /\ burned \in Nat /\ used \subseteq Channels
    /\ authorized \in [Channels -> Nat]
    /\ notice \in [Channels -> Opt(Times)]

OpenChannels == {c \in Channels : Open(ledger, c)}

(* Drops are neither created nor destroyed except as fees: the account     *)
(* balances, the unclaimed funds held by open channels and the fees burned *)
(* always add up to the initial supply (Create/Fund debits, Claim's        *)
(* reqDelta, closeChannel's refund of Amount - Balance).                   *)
ValueConserved ==
    SumFunction(ledger.bal)
      + MapThenSumSet(LAMBDA c : ledger.chan[c].amount - ledger.chan[c].balance,
                      OpenChannels)
      + burned
    = TotalDrops

(* The amount a channel has paid out never exceeds the amount it holds,    *)
(* and never goes below zero (Claim's reqBalance > chanFunds check, the    *)
(* spec's channel invariant).                                              *)
ClaimWithinFunds ==
    \A c \in OpenChannels : 0 <= ledger.chan[c].balance
                            /\ ledger.chan[c].balance <= ledger.chan[c].amount

(* The destination is paid only what the payer authorized: an open        *)
(* channel whose key is not the destination's own never has a Balance      *)
(* above the largest balance signed with the channel's key or claimed by   *)
(* its owner (Claim's signature, signer and destination-needs-signature    *)
(* checks together).                                                       *)
PaidOnlyAuthorized ==
    \A c \in OpenChannels :
        ledger.chan[c].pk # ledger.chan[c].dst
        => ledger.chan[c].balance <= authorized[c]

(* Every open channel is in its owner's directory and counted in its       *)
(* owner count, and nothing else is (Create's dirAdd and count increment,  *)
(* closeChannel's dirDelete and decrement).                                *)
OwnerRecordsConsistent ==
    \A a \in Accounts :
        /\ ledger.dir[a] = {c \in OpenChannels : ledger.chan[c].owner = a}
        /\ ledger.ownerCount[a] = Cardinality(ledger.dir[a])

PaidTo(d) == ledger'.bal[d] - ledger.bal[d]

(* The destination always gets its settle delay: a channel is closed with  *)
(* funds still unpaid to its destination, by someone other than it,        *)
(* only after its CancelAfter, or at least SettleDelay after the close     *)
(* time at which its expiration was first set (Fund's minExpiration,       *)
(* Claim's tfClose scheduling, the close-time check).                      *)
SettleDelayHonoured ==
    [][\A c \in OpenChannels :
         ( /\ ~Open(ledger', c)
           /\ submitter' # ledger.chan[c].dst
           /\ ledger.chan[c].balance + PaidTo(ledger.chan[c].dst)
                < ledger.chan[c].amount )
         => \/ ledger.chan[c].cancelAfter # None /\ now >= ledger.chan[c].cancelAfter
            \/ notice[c] # None /\ now >= notice[c] + ledger.chan[c].settleDelay
      ]_vars


(* The owner keeps its reserve, less at most one fee: a transaction that  *)
(* opens a channel or adds to one leaves the owner's balance at least the *)
(* reserve for its new owner count minus Fee.  Create's preclaim reads the *)
(* balance before the fee is taken (PayChan.cpp:186), Fund's doApply after *)
(* it; both add the amount to the reserve they test.                      *)
ReserveAfterFunding ==
    [][\A c \in Channels :
         ( /\ Open(ledger', c)
           /\ \/ ~Open(ledger, c)
              \/ ledger'.chan[c].amount > ledger.chan[c].amount )
         => LET o == ledger'.chan[c].owner
            IN ledger'.bal[o] >= accountReserve(ledger'.ownerCount[o]) - Fee
      ]_vars

-----------------------------------------------------------------------------
(* The refinement mapping: an open channel object is an open escrow of     *)
(* Amount with Balance paid; an id taken and no longer open is closed.     *)
AbsStatus ==
    [c \in Channels |-> IF Open(ledger, c) THEN "open"
                        ELSE IF c \in used THEN "closed" ELSE "none"]
AbsField(f, default) ==
    [c \in Channels |-> IF Open(ledger, c) THEN ledger.chan[c][f] ELSE default]

Escrow == INSTANCE EscrowChannel
            WITH NoParty <- None, status <- AbsStatus,
                 owner <- AbsField("owner", None), dst <- AbsField("dst", None),
                 funded <- AbsField("amount", 0), paid <- AbsField("balance", 0)

(* Every sequence of Create, Fund and Claim transactions, failed ones and  *)
(* implicit closes included, is a behaviour of the abstract escrow: the   *)
(* paid balance only grows and stays within the escrow, the escrow only   *)
(* grows, and a closed channel never reopens.                             *)
EscrowRefined == Escrow!Spec

=============================================================================
