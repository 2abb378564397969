\* Two tabs of one browser: one was restored and works on, one is being restored;
\* their requests expire together, an answer is lost, the reader logs out
\* or signs in once more, over the session or after it.
\* The bounds stop the last rotation and the last sign-in.
SPECIFICATION SessionSpec
CONSTANTS
    t1 = t1  t2 = t2
    Tabs <- MCTabs
    Makes <- OneRestored
    MaxPairs = 3
    MaxSignIns = 2
    MaxMisses = 1
INVARIANTS OneLivePerSignIn RotatesOnce LoggedOutStaysOut StoredIsUsable
PROPERTIES OnlyFetchMeOversteps
CHECK_DEADLOCK FALSE
