CONSTANTS
    Undefined = Undefined
    Unchanged = Unchanged
    NoneV = NoneV
    PyNone = PyNone
    NOTHING = NOTHING
    Absent = Absent
    NFields = 2
    FieldShapes <- SourceShapes
    Tokens = {"t_none", "t_undef", "t_unch", "t_num", "t_jlist", "t_quoted", "t_ip", "t_ipnc", "t_word"}
    ParserClasses = {"attr", "input"}
SPECIFICATION Spec
CHECK_DEADLOCK FALSE
INVARIANTS
    TypeOK
    RoundTrip
    ResidualForeign
