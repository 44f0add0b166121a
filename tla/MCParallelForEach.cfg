\* One call of parallelForEach, with the arguments MCParallelForEach lists.
CONSTANTS
    Counts <- MCCounts
    Concurrencies <- MCConcurrencies
SPECIFICATION Spec
INVARIANTS
    TypeOK
    AtMostOneLateBody
PROPERTIES
    ImplementsBatch
    EventuallyReturns
