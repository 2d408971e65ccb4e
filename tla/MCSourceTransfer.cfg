SPECIFICATION Spec
CONSTANTS
    Targets = {t1}
    Chunks = 2
    MaxEdits = 3
    Gone = gone
    Other = other
INVARIANTS ReviewedOnly EndsClean
PROPERTY SourceStillReviewed
