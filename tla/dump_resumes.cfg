SPECIFICATION FairSpec
CONSTANTS
    Downloaders = {d1}
    Files = {1, 2}
    Size <- Shrinking
    Validator = "etag"
    Compliant = FALSE
    TagOn416 = FALSE
    HonorsRange = TRUE
    MaxStops = 1
    MaxEvictions = 0
PROPERTIES EventuallyDownloaded
CHECK_DEADLOCK FALSE
