SPECIFICATION FairSpec
CONSTANTS
    None = None
    Books = {b1}
    Uploads = {u1}
    Admins = {}
    Loop = loop
    AdHoc = {}
    Mapped0 = {{b1}}
    UploadPercents = {6000}
    ReaderPercents = {4046, 8046}
    Policy = "furthest"
    Exact = TRUE
    Limits <- ExactLimits
INVARIANTS
    QueueCoherent
    WarningHonest
PROPERTIES
    Converges
