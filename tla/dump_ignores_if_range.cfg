SPECIFICATION Spec
CONSTANTS
    Downloaders = {d1}
    Files = {1, 2}
    Size <- TwoWeeks
    Validator = "etag"
    Compliant = FALSE
    TagOn416 = TRUE
    HonorsRange = FALSE
    MaxStops = 1
    MaxEvictions = 1
INVARIANTS DestIsOneVersion MetaDescribesDest
PROPERTIES CompletesFresh
CHECK_DEADLOCK FALSE
