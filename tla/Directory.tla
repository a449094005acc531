----------------------------- MODULE Directory -----------------------------
(***************************************************************************)
(* A paginated directory and its forward iterator: Dir and                *)
(* Dir::const_iterator of src/mtchain/ledger/impl/Directory.cpp, with the *)
(* repair OfferStream::erase (src/mtchain/app/tx/impl/OfferStream.cpp)    *)
(* that removes a dangling index from its page in place.                  *)
(*                                                                         *)
(* Page p of the directory is pages[p]; page 1 is the root and the        *)
(* sfIndexNext link of page p is p + 1, or 0 on the last page.  An        *)
(* iterator is [page, pos, index]: page_ as a page number, it_ as a       *)
(* position in that page's sfIndexes (0 when it points at none), and      *)
(* index_ (Zero for the zero hash).  NoIter is "no iterator in use".      *)
(***************************************************************************)
EXTENDS Integers, Sequences, SequencesExt

CONSTANTS
    Keys,       \* ledger object keys a directory may index
    MaxPages,   \* bound: pages of a directory
    MaxErase,   \* bound: repairs applied
    Zero,       \* the zero uint256
    NoIter      \* no iterator in use

VARIABLES
    pages,      \* the sfIndexes of each page, root first
    it,         \* the iterator the reader holds
    from,       \* the position in the whole directory where it started,
                \* 0 when find() found nothing
    visited,    \* the indexes it has produced (history)
    erased      \* repairs applied so far

vars == <<pages, it, from, visited, erased>>

Iters == [page : 1..MaxPages, pos : 0..Cardinality(Keys), index : Keys \cup {Zero}]

(* The entries in traversal order, and the position of page p's first.   *)
Entries == FlattenSeq(pages)
Offset(p) == Len(FlattenSeq(SubSeq(pages, 1, p - 1)))

(* sfIndexNext of page p; 0 ends the chain. *)
NextPageNone(p) == 0
NextPage(p) == IF p < Len(pages) THEN p + 1 ELSE 0

(* Dir::end(): page_ at the root, index_ zero. *)
End == [page |-> 1, pos |-> 0, index |-> Zero]

(* const_iterator::operator==: same page and same index_. *)
IsEnd(i) == i.page = End.page /\ i.index = End.index

(* An iterator at position pos of page p (index_ zero on an empty page). *)
At(p, pos) ==
    [page |-> p, pos |-> pos,
     index |-> IF pos = 0 THEN Zero ELSE pages[p][pos]]

(* Dir::begin(): the root's first index, or end() when the root is empty. *)
begin == At(1, IF pages[1] = <<>> THEN 0 ELSE 1)

(* Dir::find(pageKey, key): the root's own indexes or a page read from    *)
(* the view; a page that cannot be read yields page_ = root_ with a zero  *)
(* index_, and a key not on the page yields end().                        *)
findKeepPage(p, k) ==
    IF p > Len(pages) THEN [page |-> p, pos |-> 0, index |-> Zero]
    ELSE IF k \notin ToSet(pages[p]) THEN End
    ELSE At(p, CHOOSE j \in 1..Len(pages[p]) : pages[p][j] = k)
find(p, k) ==
    IF p > Len(pages) THEN [page |-> 1, pos |-> 0, index |-> Zero]
    ELSE IF k \notin ToSet(pages[p]) THEN End
    ELSE At(p, CHOOSE j \in 1..Len(pages[p]) : pages[p][j] = k)

(* operator++ within a page: ++it_, index_ = *it_. *)
StepInPageStale(i) == [i EXCEPT !.pos = @ + 1, !.index = pages[i.page][i.pos]]
StepInPage(i) == [i EXCEPT !.pos = @ + 1, !.index = pages[i.page][i.pos + 1]]

(* operator++ off the last page: page_ back to the root, index_ zero. *)
OffLastPageKeep(i) == [i EXCEPT !.pos = 0, !.index = Zero]
OffLastPage(i) == End

(* const_iterator::operator++: the next index on this page, else the     *)
(* first index of the page sfIndexNext links to, with index_ left zero   *)
(* when that page is empty.                                              *)
Advance(i) ==
    IF i.pos < Len(pages[i.page]) THEN StepInPage(i)
    ELSE IF NextPage(i.page) = 0 THEN OffLastPage(i)
    ELSE At(NextPage(i.page), IF pages[NextPage(i.page)] = <<>> THEN 0 ELSE 1)

Produced(i) == IF i.index = Zero THEN <<>> ELSE <<i.index>>

-----------------------------------------------------------------------------
Begin ==
    /\ it' = begin
    /\ from' = 1
    /\ visited' = Produced(begin)
    /\ UNCHANGED <<pages, erased>>

Find(p, k) ==
    /\ it' = find(p, k)
    /\ from' = IF find(p, k).index = Zero THEN 0 ELSE Offset(p) + find(p, k).pos
    /\ visited' = Produced(find(p, k))
    /\ UNCHANGED <<pages, erased>>

(* operator++ asserts index_ != zero: it is not taken from end(), nor    *)
(* from an iterator left with a zero index_.                              *)
Increment ==
    /\ it # NoIter /\ it.index # Zero
    /\ it' = Advance(it)
    /\ visited' = visited \o Produced(Advance(it))
    /\ UNCHANGED <<pages, from, erased>>

(* OfferStream::erase on page p for the dangling index k: a page that    *)
(* cannot be read, or that lacks k, is logged and left; otherwise k is   *)
(* removed from sfIndexes and the page kept even when it is now empty.   *)
(* Iterators over the directory are not used across the update.          *)
Erase(p, k) ==
    /\ erased < MaxErase
    /\ p <= Len(pages) /\ k \in ToSet(pages[p])
    /\ pages' = [pages EXCEPT ![p] = Remove(@, k)]
    /\ erased' = erased + 1
    /\ it' = NoIter /\ visited' = <<>> /\ from' = 1

(* A directory as dirAdd builds it: one to MaxPages pages, none empty,   *)
(* each key on at most one page.                                          *)
Init ==
    /\ \E n \in 1..MaxPages, pageOf \in [Keys -> 1..MaxPages] :
          /\ \A q \in 1..n : \E k \in Keys : pageOf[k] = q
          /\ pages = [q \in 1..n |-> SetToSeq({k \in Keys : pageOf[k] = q})]
    /\ it = NoIter /\ from = 1 /\ visited = <<>> /\ erased = 0

Next ==
    \/ Begin
    \/ \E p \in 1..MaxPages, k \in Keys : Find(p, k)
    \/ Increment
    \/ \E p \in 1..MaxPages, k \in Keys : Erase(p, k)

Spec == Init /\ [][Next]_vars

-----------------------------------------------------------------------------
TypeOK ==
    /\ pages \in Seq(Seq(Keys)) /\ Len(pages) \in 1..MaxPages
    /\ it \in Iters \cup {NoIter}
    /\ it # NoIter => it.page <= Len(pages)
    /\ visited \in Seq(Keys) /\ from \in 0..Cardinality(Keys)
    /\ erased \in 0..MaxErase

(* Every iterator begin(), find() or operator++ hands out is either      *)
(* end() or points at an index on its page, so it can be dereferenced or *)
(* advanced: operator* and operator++ both assert index_ != zero.         *)
IteratorValid ==
    it # NoIter =>
        \/ IsEnd(it)
        \/ it.pos \in 1..Len(pages[it.page]) /\ it.index = pages[it.page][it.pos]

(* The indexes produced since begin() or find() are the directory's      *)
(* entries in page order from where the iteration started, without a     *)
(* repeat or a gap.                                                       *)
VisitedInOrder ==
    visited = SubSeq(Entries, from, from + Len(visited) - 1)

(* An iteration that reaches end() has produced every entry from where   *)
(* it started: Dir skips empty pages and stops only after the last.      *)
AtEndAllVisited ==
    it # NoIter /\ IsEnd(it) /\ from > 0 =>
        visited = SubSeq(Entries, from, Len(Entries))

(* The two statements above, while no page of the directory is empty:    *)
(* as long as every repair leaves each page holding an index, begin(),    *)
(* find() and operator++ behave.                                          *)
NoEmptyPage == \A p \in 1..Len(pages) : pages[p] # <<>>

IteratorValidNoEmpty == NoEmptyPage => IteratorValid

AtEndAllVisitedNoEmpty == NoEmptyPage => AtEndAllVisited

(* Both statements whatever the repairs left: the iteration neither stops *)
(* on an undereferenceable iterator nor ends before the last entry.       *)
IterationComplete == IteratorValid /\ AtEndAllVisited

=============================================================================
