SPECIFICATION Spec
CONSTANTS
    t1 = t1  t2 = t2  t3 = t3  g = g  c = c  d = d  me = me  other = other
    Task = {t1, t2, t3}
    Goal = {g}
    Skill = {t1, t2, t3, g}
    Authored = {}
    MinSuccesses = 2
    MinAttempts = 3
    Course <- Courses
    Options <- OptionsOf
    Approver = {me, other}
    MaxDay = 1
    MaxDeaths = 1
    Item <- OneItem
    Instance <- Instances
    Me = me
INVARIANTS
    TypeOK
    OneEntryPerCause
    ManifestIsMemory
    PromotedWasEarned
    AuditsAreTrue
    AgendaTellsOutcome
    DoneWasPassed
PROPERTIES
    ReflectionResumes
CONSTRAINT Alone
CHECK_DEADLOCK FALSE
