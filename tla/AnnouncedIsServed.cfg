\* One administrator and two lookups; a copy that lives for one second.
CONSTANTS
    Parts = {"settings"}
    Requests = {r1, r2}
    Submissions = {s1}
    Types = {"vehicle-daily", "journey-management", "daily-risk-assessment"}
    Contents = {"damaged", "roster", "acked", "unacked"}
    Roles = {"employee", "supervisor"}
    MaxSignatures = 2
    Null = Null
    Sessioners = {r1, r2}
    Second = 2
    MaxMoments = 4
    Ceremonies = {x1, x2}
    Credentials = {p1, p2}
    Answerers = {r1, r2}
    Nothing = Nothing
    Users = {x1, x2}
    Profiles = {p1, p2}
    Identities = {n1}
    Clerks = {r1, r2}
    Nobody = Nobody
    Operators = {o1}
    Callers = {r1, r2}
    Tabs = {x1, x2}
    Window = 0
    MaxTime = 1
    Never = Never
    Lookups = {r1, r2}
    Admins = {a1}
    Ttl = 1
    MaxNow = 3
    MaxChanges = 1
    Default = Default
    Unset = Unset
    Templates = {t1}
    Filings = {x1, x2}
    Editors = {r1, r2}
    Structures <- MCStructures
    Payloads <- MCPayloads
    MaxVersion = 2
    Refused = Refused
    Inspections = {i1}
    AccessRequests = {q1}
    Handlers = {r1, r2}
    MaxText = 1
    Nopaper = Nopaper
    Visits = {x1, x2}
    Places = {t1, t2}
    Fillups <- MCFillups
    MaxDay = 1
    NoTime = NoTime
    HeaderFields = {"site_name"}
    CheckKeys = {"combustibles", "lighting"}
    Blocks = {"rectifier"}
    MaxCabinets = 1
    MaxExtras = 1
    Checklists = {x1, x2}
    Jobs = {t1}
    Crew = {k1, k2}
    Regions = {g1}
    Kinds = {"vehicle-daily", "technician-master-safety"}
    SignoffDays = 0
    MaxDate = 1
    Anyone = Anyone
    Clients = {p1, p2}
    Names <- MCNames
    Askers = {r1, r2}
    Fresh = Fresh
    Nowhere = Nowhere
    Notices = {x1, x2}
    Recipients = {k1, k2, a1}
    Chiefs = {a1}
    OnDuty = {k2, a1}
    Openers = {r1, r2}
    NoReader = NoReader
SYMMETRY Symmetry
VIEW View
SPECIFICATION ServicesSpec
CHECK_DEADLOCK FALSE
INVARIANT AnnouncedIsServed
