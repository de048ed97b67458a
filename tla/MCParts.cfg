\* Every part at the smallest size at which its hazards happen.
SPECIFICATION Spec
CONSTANTS
    NULL = NULL
    \* Speech: two speakers, three instants, a text that is blank
    SpeechTexts = {"a", "b", " "}
    Speakers = {"S0", "S1"}
    Horizon = 2
    \* Attempt
    MaxBytes = 1
    MaxJobs = 2
    MaxKills = 1
    \* Intake
    IDLE = IDLE
    ApiProcesses = {p1, p2}
    Recordings = {r1, r2}
    Anonymous = {r2}
    MaxDeliveries = 2
    MaxOutages = 2
    \* Evidence
    Chars = {"a", "b", "A", "^", ".", " "}
    MaxText = 3
    MAX_WINDOWS = 2
    DANGLING = 2
    \* Preferences
    POLL_CHOICES = {2, 5}
    StoredPolls = {0, 1, 5, 900}
    \* Boards
    VISIBLE = 2
    MaxRows = 3
    \* Coachmark
    PAD = 1
    GAP = 2
    MARGIN = 2
    POP_WIDTH = 40
    SHEET_BELOW = 72
    \* Health
    Servers = {"s1", "s2"}
    HealthSlots = {1, 2, 3}
    MaxChecks = 2
    MaxMoves = 2
    \* Ingestion
    MaxSubmits = 3
    \* ApiSettings
    MaxSaves = 2
    \* Windowing: two rows and a bit on screen, windows from five rows on
    Threshold = 4
    RowHeight = 3
    ViewportHeight = 7
    Overscan = 2
    MaxItems = 7
    \* Polling: the first interval the settings screen offers, and the usual one
    ActivePolls = {2, 5}
    MaxCalls = 2
    MaxTurns = 5
    \* Messages
    MaxEvaluations = 2
INVARIANTS
    MergeIsFaithful
    SettingsReadAlike
    ResourcesAccounted
    ModelSeesItsMistakes
    EveryChannelTried
    OneInterviewPerRecording
    QuotesAreRead
    AnswersAreUnderstood
    AddressesHold
    PreferencesHold
    SettingsScreenIsTrue
    ScreensAgree
    TargetAndCoachmarkAreUsable
    HealthIsOfTheLastAsked
    PreviewIsTrue
    RowsOnScreenAreRendered
    OpenInterviewKeepsUp
PROPERTIES
    StoredIsEnqueued
    SubmissionsAreTrue
    WhatBeginsEnds
CHECK_DEADLOCK FALSE
