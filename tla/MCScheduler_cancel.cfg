SPECIFICATION SchedulerSpec
CONSTANTS
    once = once
    interval = interval
    cron = cron
    OnceJobs = {}
    IntervalJobs = {interval}
    CronJobs = {}
    SoftJobs = {}
    Interval = 2
    Grace = 1
    Leads = {0, 2}
    MaxTime = 4
    MaxCrashes = 0
INVARIANT CancelledStaysAway
CHECK_DEADLOCK FALSE
