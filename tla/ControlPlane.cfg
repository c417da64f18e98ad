\* parts "webhooks" and "redeliveries": two webhooks and two routes, a death, a raising write, a loss or a change;
\* part "groups": a connection, two registrations at once; part "alerts": two connections
\* that may fail together; part "automations": one automation, a timer and an event.
SPECIFICATION MCSpec
CONSTANTS
    Hooks = {h1, h2}
    Quiet = h2
    WhRoutes = {r1, r2}
    WhKeys = {k1, k2}
    Urls = {u1}
    Secrets = {x1}
    NoHook = NoHook
    NoSecret = NoSecret
    Payloads = {"long"}
    Retention = 1
    ActionsKept = 1
    Attempts = 2
    Writes = 1
    Dispatches = 2
    WhCrashes = 2
    WhFaults = 2
    WhLosses = 2
    Conns = {c1}
    Calls = {g1, g2}
    Channels = {x1, x2}
    Bindings = {b1, b2}
    CoreUrls = {u1}
    NoRecord = NoRecord
    NoChannel = NoChannel
    NoBinding = NoBinding
    NoUrl = NoUrl
    NoPolicy = NoPolicy
    NoCall = NoCall
    Revisions = 2
    Changes = 1
    Fetches = 1
    AlConns = {c1, c2}
    Evolution = {c1}
    AlCalls = {q1, q2}
    Situations <- MCSituations
    AlertLimit = 2
    Turns = 2
    Autos = {a1}
    Recipes <- MCRecipes
    Ticker = ticker
    Dispatchers = {d1}
    Executions = 2
    Occurrences = 1
    Commands = 2
SYMMETRY Symmetry
INVARIANTS SecretsAreReadable ManualActionsAreTrue CountsAreEvidenced BindingIsWhole OneAlertPerIncident AutomationsTell
PROPERTIES DispatchesOncePerKey EvidenceIsRetained
CHECK_DEADLOCK FALSE
