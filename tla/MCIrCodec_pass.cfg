\* PRONTO and GlobalCache codes of up to 7 and 9 fields, no uint16_t wrap
\* of a pair count.
CONSTANTS
    ProntoValues <- MCProntoSmall
    GcValues <- MCGcValues
    ProntoMaxFields = 7
    GcMaxFields = 9
    SafeAlloc = 1000
INIT Init
NEXT Next
\* After its decode the send task waits on m_queue for a message that
\* need never come.
CHECK_DEADLOCK FALSE
INVARIANT TypeOK
INVARIANT WellFormedDecoded
