\* Two phones that list their sessions at the same time, a server of the
\* user's that comes and goes, serves that die and probes that fail.
SPECIFICATION FairServerSpec
CONSTANTS
    Listings = {l1, l2}
    ListingsOverlap = TRUE
    Restarts = TRUE
    MaxServes = 4
    MaxFaults = 2
PROPERTY SessionsComeBack
CHECK_DEADLOCK FALSE
