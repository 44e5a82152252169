\* Writers that race, or not, and fail half-way; stored rows are edited and
\* deleted between writes.
SPECIFICATION Spec
CONSTANTS
    Writers = {w1, w2, w3}
    Ids = {1, 2, 3, 4}
    Damage <- EditsAndDeletions
    MayFail = TRUE
    OldRows <- OneOldRow
    MaxClock = 2
    MaxDamage = 2
INVARIANT TypeOK
INVARIANT SoundWhenUndamaged
INVARIANT BlamesTheEdited
INVARIANT OrphansExplained
PROPERTY LiveChainGoesOn
PROPERTY AlarmStands
PROPERTY VerifiedStays
CHECK_DEADLOCK FALSE
