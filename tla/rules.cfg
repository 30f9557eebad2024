CONSTANTS
    Blank = Blank
    NoFilter = NoFilter
    NoOutcome = NoOutcome
    hash = hash
    slash = slash
    word = word
    bad = bad
    pat = pat
    Word <- MCWord
    Pattern <- MCPattern
    Valid <- MCValid
    Match <- MCMatch
    RuleSets <- MCRuleSets
    Frames <- MCFrames
SPECIFICATION Spec
INVARIANTS
    VerdictAsMeant
    EventsTellWhy
    
CHECK_DEADLOCK FALSE
