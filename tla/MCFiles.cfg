SPECIFICATION FilesSpec
CONSTANTS
    Facts = {f1, f2}
    MaxAppends = 2
    MaxKills = 1
    once = once
    interval = interval
    cron = cron
    OnceJobs = {once}
    IntervalJobs = {}
    CronJobs = {cron}
    SoftJobs = {cron}
    Interval = 2
    Grace = 1
    Leads = {0, 2}
    MaxTime = 4
    MaxCrashes = 2
INVARIANTS
    FilesTypeOK
    NoFactLost
    JobsSurviveCrashes
PROPERTIES
    ImplementsLedger
    FactsReachMemory
    OccurrencesPass
CHECK_DEADLOCK FALSE
