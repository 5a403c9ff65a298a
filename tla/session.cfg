\* Two sessions of a pool with a startup script that may open a transaction.
CONSTANTS
    Sessions = {s1, s2}
    QueryTimeout = TRUE
    Script = TRUE
    ScriptBegins = TRUE
SPECIFICATION Spec
PROPERTIES CleanHandout ClientFaultsDiscarded
