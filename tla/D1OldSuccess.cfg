SPECIFICATION Spec
CONSTANTS
    MaxCalls = 2
    MaxForeign = 0
PROPERTY SuccessIsOfThisSession
