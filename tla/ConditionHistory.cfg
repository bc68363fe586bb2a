SPECIFICATION Spec
CONSTANTS
    Calls <- MCCalls
    MaxTime = 3
INVARIANTS
    UniqueConditionTypes
    LastConditionIsLoopResult
PROPERTIES
    TransitionIsLast
    OthersUntouched
