\* After a repair empties a page, the iterator no longer behaves: an emptied
\* root makes begin() equal end() with entries left, an emptied later page
\* stops operator++ on a zero index_ (Directory.cpp begin(), operator++).
CONSTANTS
    Keys <- MCKeys
    MaxPages = 3
    MaxErase = 1
    Zero = Zero
    NoIter = NoIter
SPECIFICATION Spec
INVARIANT IterationComplete
