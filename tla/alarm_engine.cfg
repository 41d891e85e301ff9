SPECIFICATION Spec
CONSTANTS
    RuleName = {r1, r2}
    Tag = {t1}
    Handler = {h1, h2}
    Condition <- Conditions
    Value = {0, 1}
    Ts = {0, 1, 2}
    Window = 2
    EventLimit = 1
    MaxEvaluations = 3
    MaxChanges = 3
CHECK_DEADLOCK FALSE
INVARIANTS DeduplicatedUnlessOverlapped EventsAreTheFirst
