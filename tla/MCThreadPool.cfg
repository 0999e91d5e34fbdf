CONSTANTS
    NThreads = 4
    MinParallelRows = 2
    MaxRows = 5
    Generations = 3
SPECIFICATION Spec
INVARIANTS TypeOK NoStragglers
PROPERTIES ImplementsParallelFor CallReturns
