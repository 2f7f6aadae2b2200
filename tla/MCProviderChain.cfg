SPECIFICATION Spec
CONSTANTS
    calculator = calculator
    searchWeb = searchWeb
    Unheard = Unheard
    None = None
    Tools = {calculator, searchWeb}
    Deployments <- MCDeployments
    MaxTurns = 3
    MaxText = 1
    MaxUses = 2
INVARIANTS EveryUseIsAnswered NoRequestAfterAbort
PROPERTIES KeepsContract CallsEnd
CHECK_DEADLOCK FALSE
