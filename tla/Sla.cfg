\* An instance and a caller scan an incident that a request stamps.
CONSTANTS
    Instances = {x1}
    Callers = {c1}
    Requests = {r1}
    Incidents = {i1}
    Milestones = {"onsite", "temp_restore"}
    Kinds = {"critical", "minor"}
    Instants <- Clock
    MaxScans = 1
    MaxFailures = 1
    Null = Null
SPECIFICATION MCSpec
CHECK_DEADLOCK FALSE
INVARIANTS
    SlaTypeOK
    AlertedWasMissed
    AgreementKept
PROPERTY BreachAlerted
