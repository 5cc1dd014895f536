\* Releases: two, two administrators, a desktop that asks for them and one that
\* does not.  Commands: two panel sessions and a desktop.  Access: two staff
\* sessions, a computer and three addresses, so that two lists can lead with its
\* primary address and differ in the other.
CONSTANTS
    Admins = {a1, a2}
    d1 = d1
    d2 = d2
    Desktops = {d1}
    Resting = {d2}
    Kinds = {"application", "component"}
    Releases = {1, 2}
    Scopes <- RolloutScopes
    MaxReleaseOps = 3
    Panels = {p1, p2}
    Machines = {m1}
    MaxCommandOps = 3
    Staff = {s1, s2}
    Computers = {c1}
    Addresses = {i1, i2, i3}
    MaxAccessOps = 2
SPECIFICATION Spec
INVARIANTS FleetTypeOK PublishedIsSigned AckIsForThisCommand RotationEndsSessions
           AdmittedAsDecided
PROPERTIES ReleaseLifecycle BuildsInOrder DesktopsCatchUp RemovalIsAcknowledged
CHECK_DEADLOCK FALSE
