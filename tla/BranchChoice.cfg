\* Three chapters and three requests of any kind in flight at once.
SPECIFICATION Spec
CONSTANTS
    r1 = r1  r2 = r2  r3 = r3
    Requests <- MCRequests
    LastChapter = 3
    Source = Source
    Nothing = Nothing
SYMMETRY Symmetric
INVARIANTS ChosenOnItsPast ChoiceStands NoGaps
PROPERTIES RewritesWhatItReplaces
CHECK_DEADLOCK FALSE
