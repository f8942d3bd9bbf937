SPECIFICATION FairSpec
CONSTANTS
    StepCounts <- MCStepCounts
    NumSymbols = 2
    MaxInstances = 5
    MaxCombinations = 5
    IntRange = 16
    Fits = {0, 10, 30}
    MaxGenerations = 6
    MaxOptimizations = 2
INVARIANT SetsComplete
INVARIANT ReportsInOrder
INVARIANT ConvergesOnItsOwn
PROPERTY EndsComplete
PROPERTY OptimizationEnds
CHECK_DEADLOCK FALSE
