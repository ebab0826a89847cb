\* Two jobs, no failing call: the poll of a job that is over, answered late, takes the other
\* job out of the banner.
SPECIFICATION Spec
CONSTANTS
    Jobs = {j1, j2}
    Clicks = {c1}
    Polls = {p1}
    NoJob = NoJob
    Users = {u1}
    Admins = {}
    Owner <- MCOwner
    Nobody = Nobody
    First = u1
    Faults = {}
PROPERTIES
    BannerKeptForItsJob
