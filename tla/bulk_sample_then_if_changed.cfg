SPECIFICATION Spec
CONSTANTS
    l1 = l1
    l2 = l2
    Loaders = {l1}
    Workloads <- Sampling
    Lines <- TwoWeeks
    Tag <- Tags
    Date <- Dates
    None = None
    LongLinesPass = TRUE
    Threshold = 1
    MaxLoads = 3
PROPERTIES SampleIsNeverCurrent
CHECK_DEADLOCK FALSE
