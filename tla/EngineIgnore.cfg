SPECIFICATION Spec
CONSTANTS
    None = None
    Books = {b1}
    Uploads = {u1}
    Admins = {a1}
    Loop = loop
    AdHoc = {}
    Mapped0 = {{b1}}
    UploadPercents = {6000}
    ReaderPercents = {8000}
    Policy = "furthest"
    Exact = FALSE
    Limits <- IgnoreLimits
PROPERTIES
    IgnoreIsKept
