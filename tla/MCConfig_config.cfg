SPECIFICATION FairSpec
CONSTANTS
    Primaries = {p}
    Spaces = {x}
    Sessions = {s1, s2}
    Worker = w
    Limits = {1, 2}
    Ratios = {1}
    MaxCalls = 3
    MaxEvents = 1
INVARIANTS TargetHasConfig RatioFollowsTablespace QuotaIsAnOutcome NoWaitCycle
PROPERTIES TablesSettle
