\* Two jobs of u1; u2 logs in too.  Two polls on the wire at a time, failing calls.
SPECIFICATION FairSpec
CONSTANTS
    Jobs = {j1, j2}
    Clicks = {c1}
    Polls = {p1, p2}
    NoJob = NoJob
    Users = {u1, u2}
    Admins = {}
    Owner <- MCOwner
    Nobody = Nobody
    First = u1
    Faults = {"lost"}
PROPERTIES
    BannerDropsOnlyEnded
    EndedLeavesBanner
    ForeignBannerLeaves
