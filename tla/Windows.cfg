\* Rings of three and two buckets wrap more than once; the clock crosses several buckets.
SPECIFICATION WindowsSpec
CONSTANTS
    XSamples = {0, 1, 3}
    YSamples = {0, 2}
    Capacity = 3
    Window = 2
    BucketCount = 2
    BucketNanos = 2
    StartTime = 7
    LastTime = 10
    MaxSamples = 5
INVARIANTS
    CorrelationExact
    OrderStatisticsExact
    CountsExact
