SPECIFICATION CaptureSpec
CONSTANTS
    t = t
    u = u
    i = i
    v1 = v1
    v2 = v2
    v3 = v3
    absent = absent
    Tracked = {t}
    Untracked = {u}
    Ignored = {}
    Nested = {}
    Versions = {v1, v2, v3}
    Absent = absent
    Unread = unread
    Initial <- MCInitial
    EditSets <- MCEditSets
    MaxEdits = 2
INVARIANTS
    OneEditIsRetried
SYMMETRY VersionSymmetry
