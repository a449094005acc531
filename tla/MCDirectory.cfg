\* Directories as dirAdd builds them (no empty page), iterated with begin(),
\* find() and operator++, with up to two OfferStream::erase repairs between
\* iterations: the order of what is produced survives any repair, and the
\* iterator behaves while every page still holds an index.
CONSTANTS
    Keys <- MCKeys
    MaxPages = 3
    MaxErase = 2
    Zero = Zero
    NoIter = NoIter
SPECIFICATION Spec
INVARIANTS
    TypeOK
    IteratorValidNoEmpty
    VisitedInOrder
    AtEndAllVisitedNoEmpty
