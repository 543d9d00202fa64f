\* Two events for one service, no disturbance: every row gets its verdict.
CONSTANTS
    Events = {e1, e2}
    Apprise = {a}
    Webhooks = {}
    Scripts = {}
    MaxAttempts = 3
    BatchSize = 1
    MaxBoots = 1
    Disturbances = {}

SPECIFICATION FairSpec
\* No event is left to publish.
CHECK_DEADLOCK FALSE

PROPERTIES
    Settles
