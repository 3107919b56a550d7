\* Two requests and a worker on one incident, its milestones and its notices; two
\* requests on the reports of an incident.
CONSTANTS
    Incidents = {i1}
    Reports = {p1, p2}
    Requests = {r1, r2}
    Workers = {w1}
    Photos = {f1, f2}
    MaxPhotos = 2
    Milestones = {"responded_at", "arrived_on_site_at"}
    Kinds = {"start", "resolve"}
    Null = Null
SYMMETRY Symmetry
SPECIFICATION MCSpec
CHECK_DEADLOCK FALSE
INVARIANTS
    TypeOK
    OneActiveReport
    ReportMeansStarted
    PhotosKept
    NoticeUnderway
PROPERTY MilestoneStands
