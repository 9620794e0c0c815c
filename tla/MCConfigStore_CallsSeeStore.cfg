\* A Config call of one task runs while the other task's call holds m_preferences.
CONSTANTS
    Values = {v1}
    Dflt = Dflt
    Absent = Absent
    NoHandle = NoHandle
    NoCall = NoCall
SPECIFICATION Spec
PROPERTY CallsSeeStore
