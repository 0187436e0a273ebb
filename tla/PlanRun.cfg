SPECIFICATION Spec
CONSTANTS
    t1 = t1
    t2 = t2
    t3 = t3
    ghost = ghost
    Answers <- Drafts
    Name <- Names
    MaxAmends = 2
INVARIANTS CheckFindsCycles OrderIsSound PlannedGraphSound
           SweepIsTheLoop FirstIsSortedHead OneSweepSuffices
CHECK_DEADLOCK FALSE
