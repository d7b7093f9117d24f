\* The private pool: two workers, two slots each, three temporary files of
\* two pages, one pin per worker.  The tensor pool: one client, 3 slots, a
\* file of 2 to 4 pages, 2 pins.
CONSTANTS
    f1 = f1
    f2 = f2
    f3 = f3
SPECIFICATION MCSpec
INVARIANT PPTypeOK
INVARIANT PPPinsMatchHolders
INVARIANT PPPrivateIsolation
INVARIANT PPMapMatchesPool
INVARIANT PPNeverHangs
INVARIANT TBTypeOK
INVARIANT TBPinsMatchHolders
INVARIANT TBNeverHangs
PROPERTY PPImplementsPageStore
PROPERTY TBPinnedNeverReassigned
\* Each pool stops once its client is done with it.
CHECK_DEADLOCK FALSE
