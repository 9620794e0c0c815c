\* The API loop and one GlobalCache socket task; checks StopHonoured alone.
CONSTANTS
    api = api
    gc1 = gc1
    codeA = codeA
    codeB = codeB
    NoCode = NoCode
    Callers <- MCApiAndGc
    GcCallers <- MCGcCallers
    Codes <- MCCodes
    ValidCodes <- MCValidCodes
    Repeats = {0, 1}
    RespCap = 1
    MaxCalls = 3
SPECIFICATION Spec
PROPERTY StopHonoured
