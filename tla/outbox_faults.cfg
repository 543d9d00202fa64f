\* One event for a webhook and a script: anything may go wrong, the server starts three times.
CONSTANTS
    Events = {e1}
    Apprise = {}
    Webhooks = {w}
    Scripts = {s}
    MaxAttempts = 2
    BatchSize = 2
    MaxBoots = 3
    Disturbances = {"stop", "cancel", "kill", "busy", "delete"}

SPECIFICATION Spec
\* No event is left to publish.
CHECK_DEADLOCK FALSE

PROPERTIES
    FinalStays

INVARIANTS
    TypeOK
    Accounted
    ScriptsOnce
    OutcomeTrue
