SPECIFICATION Spec
CONSTANTS
    f = f
    g = g
    MaxInt64 = 9
    PerMillion = 2
    NotReported = NotReported
    FunctionNames <- Functions
    Price <- MCPrice
    InputText <- MCInputText
    MaxOutput = 2
    Budgets <- MCBudgets
    NoBudget = NoBudget
    Chunks <- MCChunks
    Calls <- MCCalls
    Usages <- MCUsages
    MaxChunks = 2
    MaxItems = 2
SYMMETRY Symmetry
INVARIANT MissingCountIsEstimated
