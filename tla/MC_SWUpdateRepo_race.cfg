CONSTANTS
    r1 = r1
    undef = undef
    url = url
    p_iso = p_iso
    p_img = p_img
    prm = prm
    NoParams = NoParams
    NoInst = NoInst
    Absent = Absent
    Releases = {r1}
    Specials = {undef}
    Urls = {url}
    LocalPaths = {p_iso, p_img}
    Suffix <- MCSuffix
    Params = {prm}
    FsChanges = TRUE
SPECIFICATION Spec
INVARIANT LocalKindValidated
