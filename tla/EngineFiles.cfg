SPECIFICATION Spec
CONSTANTS
    None = None
    Books = {b1}
    Uploads = {u1, u2}
    Admins = {}
    Loop = loop
    AdHoc = {}
    Mapped0 = {{b1}}
    UploadPercents = {2000, 6000}
    ReaderPercents = {8000}
    Policy = "furthest"
    Exact = FALSE
    Limits <- StaleLimits
SYMMETRY UploadSymmetry
INVARIANTS
    FileKeepsUp
