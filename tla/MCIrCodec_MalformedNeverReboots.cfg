\* GlobalCache codes of up to 4 fields, "sendir" lines among them.
CONSTANTS
    ProntoValues <- MCProntoSmall
    GcValues <- MCGcValues
    ProntoMaxFields = 0
    GcMaxFields = 4
    SafeAlloc = 1000
INIT Init
NEXT Next
CHECK_DEADLOCK FALSE
INVARIANT MalformedNeverReboots
