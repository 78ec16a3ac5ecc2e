SPECIFICATION Spec
CONSTANTS
    Id = {t1, t2}
    Grid = {1, 2}
    Pane = {1, 2}
    Face = {0, 1}
    None = None
    NoPane = 0
    PromptRender = TRUE
    FIT_MIN_FONT = 1
    FIT_MAX_FONT = 4
    MIN_FONT = 2
    MAX_FONT = 3
    DEFAULT_FONT = 2
    Room <- MCRoom
INVARIANT Fitted
CHECK_DEADLOCK FALSE
