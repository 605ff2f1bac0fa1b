CONSTANTS
    Undefined = Undefined
    Unchanged = Unchanged
    NoneV = NoneV
    PyNone = PyNone
    NOTHING = NOTHING
    Releases = {r1, r2}
    TargetBuilds = {tb}
    Urls = {url}
    VERSION1 = VERSION1
    VERSION2 = VERSION2
    OS_ISO_DIR = OS_ISO_DIR
    CORTX_ISO_DIR = CORTX_ISO_DIR
    CORTX_3RD_PARTY_ISO_DIR = CORTX_3RD_PARTY_ISO_DIR
    CORTX_PYTHON_ISO_DIR = CORTX_PYTHON_ISO_DIR
    FW = FW
    OS = OS
    SW = SW
    EXTERNAL = EXTERNAL
    PYTHON = PYTHON
    RPM = RPM
    CORTX = CORTX
    EPEL_7 = EPEL_7
    COMMONS = COMMONS
    PERFORMANCE = PERFORMANCE
    REPOS_DIR = REPOS_DIR
    NoField = NoField
    Absent = Absent
    Removed = Removed
SPECIFICATION Spec
INVARIANT
    RemovalClearsRelease
