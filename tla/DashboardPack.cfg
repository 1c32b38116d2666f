\* The dashboards of the builder and all small ones; validation of up to three panels.
SPECIFICATION PackSpec
CONSTANTS
    Dashboards <- MCDashboards
    Others <- MCOthers
    SampleSets <- MCSampleSets
    MaxExpressions = 3
INVARIANTS PackTypeOK PanelsDoNotOverlap RowsStaySeparate PassMeansData ReportAddsUp
CHECK_DEADLOCK FALSE
