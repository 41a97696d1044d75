CONSTANTS
    s1 = s1
    s2 = s2
    r1 = r1
    Old = Old
    NoId = NoId
    MaxEdits = 2
    Seeds <- MCSeeds
    Readers <- MCReaders
    Locales <- MCLocales
SPECIFICATION SeedSpec
SYMMETRY SeedSymmetry
INVARIANTS NamesAfterSeed
PROPERTIES SeedConverges DefaultStays RefusedOnlyByDeletion CyclesThroughAdministration
\* The runs and the requests end.
CHECK_DEADLOCK FALSE
