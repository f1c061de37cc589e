SPECIFICATION Spec
CONSTANTS
    Positions = {p1, p2}
    Stations = {s1, s2}
    None = None
    Feeds <- MCFeeds
    Lags = {0, 1, 5}
    RefreshInterval = 2
    MaxFetch = 1
    StaleFloor = 7
    Interval = 2
    MaxAnswer = 3
    MaxHistory = 2
    Bad = Bad
    Readings <- MCReadings
    Fields <- MCFields
    Logs <- MCLogs
    Reports <- MCReports
    Skies <- MCSkies
INVARIANT
    NextPhaseIsAhead
