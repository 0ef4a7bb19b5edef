\* A report that is taken by a first heartbeat reaches nobody.
SPECIFICATION HostReportsSpec
CONSTANTS
    Beats = {b1, b2}
    Outcomes = {failed}
    MaxBytes = 1
    MaxReports = 1
    MaxReportFaults = 1
INVARIANTS TakenIsTold
CHECK_DEADLOCK FALSE
