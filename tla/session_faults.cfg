\* One session without a startup script.
CONSTANTS
    Sessions = {s1}
    QueryTimeout = TRUE
    Script = FALSE
    ScriptBegins = FALSE
SPECIFICATION Spec
PROPERTY FaultsDiscarded
