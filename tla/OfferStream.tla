---------------------------- MODULE OfferStream ----------------------------
(***************************************************************************)
(* The offer stream of src/mtchain/app/tx/impl/OfferStream.cpp: one        *)
(* matching session walks one order book in a live view (view_) beside a   *)
(* pristine cancel view (cancelView_), both sandboxes over the same        *)
(* ledger.  Each pass of the for(;;) loop in step() is one action; the     *)
(* taker that consumes the offers the stream yields, and the commit of one *)
(* of the two views when the session ends, are the environment.            *)
(*                                                                         *)
(* A view is [book, offer, funds]: the keys the book directory indexes in  *)
(* quality order, the offer object of each key (Missing when the directory *)
(* index dangles), and what each owner holds of the book's out currency.   *)
(* The ledger also holds each account's Sequence, which CancelOffer       *)
(* (src/mtchain/app/tx/impl/CancelOffer.cpp) checks between sessions.     *)
(***************************************************************************)
EXTENDS Integers, Sequences, SequencesExt, FiniteSets

CONSTANTS
    Keys,       \* offer keys in the book, in quality order
    Owners,     \* offer owners
    Issuer,     \* the owner that issues the book's out currency
    Outs,       \* TakerGets amounts an offer may carry (TakerPays = TakerGets)
    Funds,      \* holdings an owner may start with
    Now,        \* expire_: the close time the session runs at
    OfferId,    \* OfferId[k]: the <<account, sequence>> getOfferIndex hashes to k
    MaxSeq,     \* the highest sequence an account has used when the model starts
    MaxCancels, \* bound: CancelOffer transactions applied
    MaxSteps,   \* bound: the StepCounter limit of one session
    Missing,    \* no ledger object behind a directory index
    None        \* an absent Expiration

ASSUME Issuer \in Owners /\ OfferId \in [Keys -> Owners \X (1..MaxSeq)]
ASSUME MaxSteps \in Nat /\ Now \in Nat

VARIABLES
    ledger,        \* the ledger both views are sandboxes over
    live,          \* view_
    cancel,        \* cancelView_
    tip,           \* BookTip: the key it is at, None before the first step
    counter,       \* StepCounter: steps taken this session
    phase,         \* "idle", "stepping", "yielded" or "done"
    policy,        \* the session's stream: "Immediate" for OfferStream (the
                   \* Taker's), "Deferred" for FlowOfferStream (the flow's)
    permToRemove,  \* FlowOfferStream::permToRemove_
    examined       \* keys the loop passed over this session (history)

vars == <<ledger, live, cancel, tip, counter, phase, policy, permToRemove, examined>>

Policies == {"Immediate", "Deferred"}

Entries == [owner : Owners, in : Outs, out : Outs, expiration : {None, Now}]

Present(v, k) == v.offer[k] # Missing

(* TAmounts::empty: either side not positive *)
empty(e) == e.in <= 0 \/ e.out <= 0

(* the Expiration test of step(): at or before expire_ *)
Expired(e) == e.expiration # None /\ e.expiration <= Now

(* accountFundsHelper: an owner issuing the out currency is funded up to   *)
(* the offer's out; any other owner has what accountHolds reports.        *)
accountFunds(v, e) ==
    IF e.owner = Issuer THEN e.out ELSE v.funds[e.owner]

(* An offer the stream would yield when examined in view v. *)
Valid(v, k) ==
    /\ Present(v, k)
    /\ ~Expired(v.offer[k])
    /\ ~empty(v.offer[k])
    /\ accountFunds(v, v.offer[k]) > 0

(* Mutants of the found-unfunded test below. *)
FoundUnfundedAlways(v, e) == TRUE
FoundUnfundedNever(v, e) == FALSE

(* The owner's funds in the pristine cancel view equal those in v: the    *)
(* offer was found unfunded, not made unfunded by this transaction.       *)
FoundUnfunded(v, e) == accountFunds(cancel, e) = accountFunds(v, e)

(* offerDelete (View.cpp, not under src/): unlink from the book, erase.   *)
offerDelete(v, k) ==
    [v EXCEPT !.book = Remove(@, k), !.offer[k] = Missing]

(* OfferStream::erase: drop the dangling index from the directory page,   *)
(* leaving the page itself in place.                                      *)
erase(v, k) ==
    [v EXCEPT !.book = Remove(@, k)]

-----------------------------------------------------------------------------
(* permRmOffer: OfferStream deletes from cancelView_ at once;             *)
(* FlowOfferStream records the key for removal after the flow commits.    *)
permRmOffer(k) ==
    IF policy = "Immediate"
    THEN /\ cancel' = offerDelete(cancel, k)
         /\ UNCHANGED permToRemove
    ELSE /\ permToRemove' = permToRemove \cup {k}
         /\ UNCHANGED cancel

(* StepCounter::step (not under src/): another step is within the limit. *)
StepCounterAllowsOneMore(n) == n <= MaxSteps
StepCounterAllows(n) == n < MaxSteps

(* BookTip::step (not under src/): delete the offer it was at from view_  *)
(* unless its object is missing, then move to the first entry of the book.*)
BookTipStep(v) ==
    IF tip # None /\ Present(v, tip) THEN offerDelete(v, tip) ELSE v

(* One pass of the for(;;) loop of TOfferStreamBase::step: what the pass *)
(* does to the offer e at key k, with view_ already moved past the tip.  *)
Examine(v, k, e) ==
    /\ counter' = counter + 1
    /\ \/ /\ e = Missing
          /\ live' = erase(v, k) /\ cancel' = erase(cancel, k)
          /\ examined' = examined \cup {k}
          /\ UNCHANGED <<phase, permToRemove>>
       \/ /\ e # Missing /\ (Expired(e) \/ empty(e))
          /\ live' = v /\ permRmOffer(k)
          /\ examined' = examined \cup {k}
          /\ UNCHANGED phase
       \/ /\ e # Missing /\ ~Expired(e) /\ ~empty(e)
          /\ accountFunds(v, e) <= 0
          /\ live' = v
          /\ IF FoundUnfunded(v, e) THEN permRmOffer(k)
                                    ELSE UNCHANGED <<cancel, permToRemove>>
          /\ examined' = examined \cup {k}
          /\ UNCHANGED phase
       \/ /\ e # Missing /\ ~Expired(e) /\ ~empty(e)
          /\ accountFunds(v, e) > 0
          /\ live' = v /\ phase' = "yielded"
          /\ UNCHANGED <<cancel, permToRemove, examined>>

StepIteration ==
    /\ phase = "stepping"
    /\ LET v == BookTipStep(live) IN
       \/ \* tip_.step() found no more offers
          /\ v.book = <<>>
          /\ live' = v /\ phase' = "done"
          /\ UNCHANGED <<cancel, tip, counter, permToRemove, examined>>
       \/ /\ v.book # <<>>
          /\ tip' = Head(v.book)
          /\ \/ \* counter_.step() refused: the session's budget is spent
                /\ ~StepCounterAllows(counter)
                /\ live' = v /\ phase' = "done"
                /\ UNCHANGED <<cancel, counter, permToRemove, examined>>
             \/ /\ StepCounterAllows(counter)
                /\ Examine(v, Head(v.book), v.offer[Head(v.book)])
    /\ UNCHANGED <<ledger, policy>>

-----------------------------------------------------------------------------
(* The environment (Taker and the transactors, not under src/).           *)

(* A transaction opens a matching session over the ledger, through an    *)
(* OfferStream (offer crossing by the Taker) or a FlowOfferStream         *)
(* (payments and crossing by the flow).                                   *)
Begin(pol) ==
    /\ phase = "idle"
    /\ policy' = pol
    /\ live' = ledger /\ cancel' = ledger
    /\ tip' = None /\ counter' = 0 /\ phase' = "stepping"
    /\ permToRemove' = {} /\ examined' = {}
    /\ UNCHANGED <<ledger>>

(* The taker crosses f of the yielded offer; the owner delivers f unless  *)
(* it issues the currency.  A fully consumed offer asks for the next.     *)
Consume(f) ==
    /\ phase = "yielded"
    /\ LET e == live.offer[tip] IN
       /\ f <= e.out /\ f <= accountFunds(live, e)
       /\ live' = [live EXCEPT !.offer[tip].in = @ - f, !.offer[tip].out = @ - f,
                               !.funds = IF e.owner = Issuer THEN @
                                         ELSE [@ EXCEPT ![e.owner] = @ - f]]
       /\ phase' = IF f = e.out THEN "stepping" ELSE "done"
    /\ UNCHANGED <<ledger, cancel, tip, counter, policy, permToRemove, examined>>

(* The taker needs nothing more. *)
Stop ==
    /\ phase = "yielded"
    /\ phase' = "done"
    /\ UNCHANGED <<ledger, live, cancel, tip, counter, policy, permToRemove, examined>>

(* The transaction ends: the crossing is kept (view_) or discarded         *)
(* (cancelView_); FlowOfferStream's removals are applied either way.      *)
ApplyRemovals(v) ==
    [v EXCEPT !.book = SelectSeq(@, LAMBDA k : k \notin permToRemove),
              !.offer = [k \in Keys |-> IF k \in permToRemove THEN Missing ELSE @[k]]]

Commit(keep) ==
    /\ phase = "done"
    /\ ledger' = ApplyRemovals(IF keep THEN live ELSE cancel)
    /\ phase' = "idle"
    /\ UNCHANGED <<live, cancel, tip, counter, policy, permToRemove, examined>>

-----------------------------------------------------------------------------
(* CancelOffer, applied between sessions.                                 *)

(* getOfferIndex(account, sequence) names one of the keys, or none.       *)
OfferKeys(a, seq) == {k \in Keys : OfferId[k] = <<a, seq>>}
CancelSeqs == 0..(MaxSeq + MaxCancels + 1)

(* CancelOffer::preflight: universal flags, then a zero OfferSequence.   *)
CancelPreflight(flags, seq) ==
    IF flags THEN "temINVALID_FLAG"
    ELSE IF seq = 0 THEN "temBAD_SEQUENCE"
    ELSE "tesSUCCESS"

(* Mutant of CancelPreclaim: a sequence equal to Sequence passes. *)
CancelPreclaimOffByOne(v, a, seq) ==
    IF v.sequence[a] < seq THEN "temBAD_SEQUENCE" ELSE "tesSUCCESS"

(* CancelOffer::preclaim: the account must already have used the sequence. *)
CancelPreclaim(v, a, seq) ==
    IF v.sequence[a] <= seq THEN "temBAD_SEQUENCE" ELSE "tesSUCCESS"

(* CancelOffer::doApply: offerDelete when peek finds the offer; an offer  *)
(* that is not there is tesSUCCESS with nothing changed.                  *)
CancelDoApply(v, a, seq) ==
    IF \E k \in OfferKeys(a, seq) : Present(v, k)
    THEN offerDelete(v, CHOOSE k \in OfferKeys(a, seq) : Present(v, k))
    ELSE v

(* The Transactor (not under src/): a tem result applies nothing; an      *)
(* applied transaction consumes the account's Sequence.                   *)
CancelResult(v, a, seq, flags) ==
    IF CancelPreflight(flags, seq) # "tesSUCCESS" THEN CancelPreflight(flags, seq)
    ELSE CancelPreclaim(v, a, seq)

CancelOffer(a, seq, flags) ==
    /\ phase = "idle"
    /\ ledger.sequence[a] <= MaxSeq + MaxCancels
    /\ ledger' = IF CancelResult(ledger, a, seq, flags) = "tesSUCCESS"
                 THEN [CancelDoApply(ledger, a, seq) EXCEPT !.sequence[a] = @ + 1]
                 ELSE ledger
    /\ UNCHANGED <<live, cancel, tip, counter, phase, policy, permToRemove, examined>>

-----------------------------------------------------------------------------
(* Any book of Keys in quality order with any offers behind its indexes,  *)
(* a dangling index among them, and any holdings of the owners.           *)
Init ==
    /\ \E offer \in [Keys -> {Missing} \cup {e \in Entries : e.in = e.out}],
          funds \in [Owners -> Funds] :
          /\ \A k \in Keys : offer[k] \in {Missing} \cup
                {e \in Entries : e.in = e.out /\ e.owner = OfferId[k][1]}
          /\ ledger = [book |-> SetToSeq(Keys), offer |-> offer, funds |-> funds,
                       sequence |-> [a \in Owners |-> MaxSeq + 1]]
    /\ live = ledger /\ cancel = ledger
    /\ tip = None /\ counter = 0 /\ phase = "idle" /\ policy = "Immediate"
    /\ permToRemove = {} /\ examined = {}

Next ==
    \/ StepIteration
    \/ \E pol \in Policies : Begin(pol)
    \/ \E f \in Outs \ {0} : Consume(f)
    \/ Stop
    \/ \E keep \in BOOLEAN : Commit(keep)
    \/ \E a \in Owners, seq \in CancelSeqs, flags \in BOOLEAN : CancelOffer(a, seq, flags)

Spec == Init /\ [][Next]_vars

-----------------------------------------------------------------------------
TypeOK ==
    /\ ledger.book \in Seq(Keys) /\ live.book \in Seq(Keys) /\ cancel.book \in Seq(Keys)
    /\ \A v \in {ledger, live, cancel} :
          /\ v.offer \in [Keys -> {Missing} \cup Entries]
          /\ v.funds \in [Owners -> Nat] /\ v.sequence \in [Owners -> Nat]
    /\ tip \in Keys \cup {None}
    /\ counter \in 0..MaxSteps
    /\ phase \in {"idle", "stepping", "yielded", "done"} /\ policy \in Policies
    /\ permToRemove \subseteq Keys /\ examined \subseteq Keys

(* The found-unfunded versus became-unfunded test: an offer that was      *)
(* valid when the transaction began, and that the stream passes over only *)
(* because this transaction spent its owner's funds in view_, is never    *)
(* removed permanently: it is intact in cancelView_ and not in            *)
(* permToRemove_, so a failed transaction leaves it on the books.         *)
PristineFundedOffersSurvive ==
    phase # "idle" =>
        \A k \in Keys :
            Valid(ledger, k) => /\ cancel.offer[k] = ledger.offer[k]
                                /\ k \notin permToRemove

(* Every offer the loop passed over that was already invalid when the     *)
(* transaction began (dangling, expired, empty or found unfunded) is gone *)
(* from view_ and gone from, or marked for removal from, cancelView_: it  *)
(* leaves the ledger whichever view the transaction commits.              *)
ExaminedInvalidRemoved ==
    phase \in {"yielded", "done"} =>
        \A k \in examined :
            /\ k \notin ToSet(live.book)
            /\ ~Valid(ledger, k) => k \notin ToSet(cancel.book) \/ k \in permToRemove


(* CancelOffer removes exactly the offer it names, and only when the      *)
(* account has already used that sequence and no flag is set; a cancel of *)
(* an offer that does not exist succeeds and leaves every offer as it     *)
(* was; the account's Sequence advances exactly when the cancel applies.  *)
CancelRemovesOnlyNamed ==
    [][\A a \in Owners, seq \in CancelSeqs, flags \in BOOLEAN :
         CancelOffer(a, seq, flags) =>
            LET ok == ~flags /\ 0 < seq /\ seq < ledger.sequence[a]
                live0 == {k \in Keys : Present(ledger, k)}
            IN /\ {k \in Keys : Present(ledger', k)} =
                     IF ok THEN live0 \ OfferKeys(a, seq) ELSE live0
               /\ ToSet(ledger'.book) =
                     IF ok THEN ToSet(ledger.book) \ (OfferKeys(a, seq) \cap live0)
                     ELSE ToSet(ledger.book)
               /\ ledger'.sequence[a] = IF ok THEN ledger.sequence[a] + 1
                                        ELSE ledger.sequence[a]]_vars

=============================================================================
