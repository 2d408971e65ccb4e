SPECIFICATION FairSpec
CONSTANTS
    Operators = {o1, o2}
    Files = {helper, context}
    Pinned = {context}
    Builds = {b1, b2}
    Views = {v1, v2}
    None = none
    MaxFaults = 1
    MaxEdits = 1
INVARIANTS StartedReviewed StartedOnce FailedStopped AnswersAccepted
PROPERTIES OutcomeTrue Decided
