SPECIFICATION Spec
CONSTANTS
    Endpoints = {e1, e2, e3}
    Uuids = {u1, u2}
    Cards = {c1, c2, c3}
    None = None
    max_age = 2
    MaxTime = 3
SYMMETRY Symmetry
INVARIANTS CrossReferenced ReportsReplay MembersAreRecent
