SPECIFICATION Spec
CONSTANTS
    Builtins <- TwoBuiltins
    Entries <- ThreeEntries
    TypeOf <- Types
    Documents <- SomeDocuments
    DriverIds = {"homewizard_p1", "aurora_rs485", "acme"}
    Counts = {0, 1, 2}
    MaxReads = 2
INVARIANT TypeOK
INVARIANT LoadingIsRight
INVARIANT ReadingIsRight
INVARIANT VerdictIsRight
