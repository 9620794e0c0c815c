--------------------------- MODULE MCConfigStore ---------------------------
EXTENDS ConfigStore
=============================================================================
