CONSTANTS
    Nodes = {a, b, c}
    Surveyors = {a}
    Older = {a, b}
    Bounds <- MCBounds
    Nil = Nil
    Err = Err
    Operations <- MCOperations
    Newer <- MCNewer
    Self <- MCSelf
    Other <- MCOther
    MaxCut = 12
SPECIFICATION MCSpec
CHECK_DEADLOCK FALSE
INVARIANTS
    SurveyIsExact
    AllOrNothing
    Relayed
    RemoteDoesTheSame
PROPERTIES
    SurveyEnds
    RegistriesSettle
