\* One request on one submission: no interleaving is needed.
CONSTANTS
    Submissions = {s1}
    Requests = {r1}
    Types = {"vehicle-daily"}
    Contents = {"plain", "failing", "damaged"}
    Roles = {"employee", "supervisor"}
    MaxSignatures = 1
    Null = Null
SPECIFICATION Spec
CHECK_DEADLOCK FALSE
INVARIANT SignedOffBySignature
