---------------------------- MODULE SWUpgradeRepo ----------------------------
(***************************************************************************)
(* The SW-upgrade repository inputs, inputs.py 1122-1393, and what their   *)
(* pillar items do to the pillar over a series of CLI invocations.         *)
(*                                                                         *)
(* SWUpgradeRepo(source, release, source_version, target_build, enabled)  *)
(* redefines source (1124-1135) with a converter and no validator, so no  *)
(* source is refused; it is normalised (__attrs_post_init__, 1062-1070)   *)
(* and yields one pillar item whose key                                    *)
(* is swupgrade/repo/<release> and whose value pillar_value (1320-1361)    *)
(* derives: a removal map for a special source, the remote layout for a   *)
(* URL, the version-1 or version-2 local layout otherwise.                 *)
(* SWUpgradeRemoveRepo(release) (1364-1393) yields the removal map.        *)
(*                                                                         *)
(* The pillar is external.  The model takes the store semantics spec 6     *)
(* gives it: a mapping written at a key is merged into what is stored      *)
(* there, and a None value deletes its sub-key.                            *)
(***************************************************************************)
EXTENDS Values, Naturals, Sequences, FiniteSets

CONSTANTS
    Releases,          \* release versions ("2.0.0-1")
    TargetBuilds,      \* target_build directories
    Urls,              \* http(s) repository URLs
    VERSION1, VERSION2,  \* config.ISOVersion
    \* config.py names of the version-1 (and remote) layout components
    OS_ISO_DIR, CORTX_ISO_DIR, CORTX_3RD_PARTY_ISO_DIR, CORTX_PYTHON_ISO_DIR,
    \* config.ISOKeywordsVer2 and config.UpgradeReposVer2 members
    FW, OS, SW, EXTERNAL, PYTHON, RPM, CORTX, EPEL_7, COMMONS, PERFORMANCE,
    REPOS_DIR,         \* config.PRVSNR_USER_FILES_SWUPGRADE_REPOS_DIR
    NoField,           \* a field an entry does not have
    Absent,            \* nothing stored under a sub-key
    Removed            \* the None a removal map carries

Versions == {VERSION1, VERSION2}

V1Components == {OS_ISO_DIR, CORTX_ISO_DIR, CORTX_3RD_PARTY_ISO_DIR, CORTX_PYTHON_ISO_DIR}
V2Components == {FW, OS, CORTX, PYTHON, EPEL_7, COMMONS, PERFORMANCE}
Components == V1Components \cup V2Components

(* Local sources by what is on the file system.  SWUpgradeRepo accepts   *)
(* each of them: its source has no _check_source validator.               *)
LocalPaths == {"iso_file", "dir", "other_file", "missing"}
Sources == {Undefined, Unchanged} \cup Urls \cup LocalPaths

(* A sub-key of swupgrade/repo/<r>: a component, or the release marker r. *)
Keys == Components \cup Releases

ASSUME SWUpgradeAssumption ==
    /\ IsFiniteSet(Releases) /\ Releases # {}
    /\ TargetBuilds # {}
    /\ VERSION1 # VERSION2
    \* spec 4.6: the version-1 and version-2 layouts share no component key
    /\ V1Components \cap V2Components = {}
    /\ Cardinality(V1Components) = 4 /\ Cardinality(V2Components) = 7
    /\ Releases \cap Components = {}
    /\ NoField \notin BOOLEAN \cup Versions
    /\ (Urls \cup LocalPaths) \cap {Undefined, Unchanged} = {}

(* The parts a repository source path or URL is made of.                  *)
PathParts == Components \cup Releases \cup TargetBuilds \cup Urls
                 \cup {SW, EXTERNAL, RPM, REPOS_DIR, "file://", "salt://", ".iso"}

Entry == [source : Seq(PathParts),
          is_repo : BOOLEAN, enabled : BOOLEAN \cup {NoField},
          version : Versions \cup {NoField}]

ASSUME MarkersAssumption ==
    /\ Absent \notin Entry /\ Removed \notin Entry /\ Absent # Removed

VARIABLES
    pillar,     \* pillar[r][c]: what swupgrade/repo/<r>/<c> holds
    lastOp,     \* the last invocation (history, for the properties)
    lastSet     \* lastSet[r]: source_version of the last local or remote
                \* set of r since its last removal, or NoField (history)

vars == <<pillar, lastOp, lastSet>>

-----------------------------------------------------------------------------
Ent(source, is_repo, enabled, version) ==
    [source |-> source, is_repo |-> is_repo, enabled |-> enabled, version |-> version]

(* The path  file://<target_build>/<release>/<segments>.                  *)
FilePath(tb, r, segs) == <<"file://", tb, r>> \o segs

(* Mutant: the marker records the release instead of the version.         *)
MarkerEntryRelease(r, v) == Ent(<<"salt://", REPOS_DIR, r, ".iso">>, FALSE, NoField, r)

(* The release marker both local layouts start with.                      *)
MarkerEntry(r, v) == Ent(<<"salt://", REPOS_DIR, r, ".iso">>, FALSE, NoField, v)

(* _pillar_values_ver1 (inputs.py 1210-1245).                              *)
PillarValuesVer1(r, tb, en) ==
    [c \in V1Components \cup {r} |->
        IF c = r THEN MarkerEntry(r, VERSION1)
        \* FIXME in the source: upgrade ISO may lack repodata
        ELSE IF c = OS_ISO_DIR THEN Ent(FilePath(tb, r, <<c>>), TRUE, FALSE, NoField)
        ELSE IF c = CORTX_PYTHON_ISO_DIR THEN Ent(FilePath(tb, r, <<c>>), FALSE, NoField, NoField)
        ELSE Ent(FilePath(tb, r, <<c>>), TRUE, en, NoField)]

(* _pillar_values_ver2 (inputs.py 1247-1313).                              *)
PillarValuesVer2(r, tb, en) ==
    [c \in V2Components \cup {r} |->
        IF c = r THEN MarkerEntry(r, VERSION2)
        ELSE IF c \in {FW, OS} THEN Ent(FilePath(tb, r, <<c>>), FALSE, en, NoField)
        ELSE IF c = CORTX THEN Ent(FilePath(tb, r, <<SW, c>>), TRUE, en, NoField)
        ELSE IF c = PYTHON THEN Ent(FilePath(tb, r, <<SW, EXTERNAL, c>>), FALSE, NoField, NoField)
        ELSE Ent(FilePath(tb, r, <<SW, EXTERNAL, RPM, c>>), TRUE, NoField, NoField)]

(* The remote branch of pillar_value (inputs.py 1333-1357).                *)
RemoteValues(u, en) ==
    [c \in V1Components |->
        IF c = CORTX_PYTHON_ISO_DIR THEN Ent(<<u, c>>, FALSE, NoField, NoField)
                                    ELSE Ent(<<u, c>>, TRUE, en, NoField)]

(* Mutant: the removal list misses the python component.                  *)
RemovalValuesNoPython(r) ==
    [c \in {OS_ISO_DIR, CORTX_ISO_DIR, CORTX_3RD_PARTY_ISO_DIR} \cup {r} |-> Removed]

(* The removal map of pillar_value for a special source (1322-1332) and of *)
(* SWUpgradeRemoveRepo.pillar_value (1382-1393).                           *)
RemovalValues(r) == [c \in V1Components \cup {r} |-> Removed]

(* is_special / is_local / is_remote (inputs.py 1062-1120): after         *)
(* __attrs_post_init__ a string that is not a URL is a Path, so a source  *)
(* is special, remote (a URL) or local.                                    *)
SourceKind(s) ==
    IF is_special(s) THEN "remove" ELSE IF s \in Urls THEN "remote" ELSE "local"

(* pillar_value (inputs.py 1320-1361) after __attrs_post_init__ has made  *)
(* a non-URL string a Path: is_special, is_remote, else the version.      *)
PillarValue(s, r, v, tb, en) ==
    IF SourceKind(s) = "remove" THEN RemovalValues(r)
    ELSE IF SourceKind(s) = "remote" THEN RemoteValues(s, en)
    ELSE IF v = VERSION1 THEN PillarValuesVer1(r, tb, en)
    ELSE PillarValuesVer2(r, tb, en)

(* The store merges the map written at swupgrade/repo/<r>.                *)
MergeAt(p, r, m) ==
    [p EXCEPT ![r] = [c \in Keys |->
        IF c \in DOMAIN m THEN (IF m[c] = Removed THEN Absent ELSE m[c])
        ELSE p[r][c]]]

-----------------------------------------------------------------------------
Init ==
    /\ pillar = [r \in Releases |-> [c \in Keys |-> Absent]]
    /\ lastOp = [op |-> "none", rel |-> CHOOSE r \in Releases : TRUE,
                  enabled |-> FALSE, input |-> "SWUpgradeRepo"]
    /\ lastSet = [r \in Releases |-> NoField]

(* An SWUpgradeRepo invocation: its one pillar item                       *)
(* (ParamDictItemInputBase.pillar_items, 967-979) is written.             *)
SetRepo(s, r, v, tb, en) ==
    /\ pillar' = MergeAt(pillar, r, PillarValue(s, r, v, tb, en))
    /\ lastOp' = [op |-> SourceKind(s),
                  rel |-> r, enabled |-> en, input |-> "SWUpgradeRepo"]
    /\ lastSet' = [lastSet EXCEPT ![r] =
                      IF SourceKind(s) = "remove" THEN NoField ELSE v]

(* An SWUpgradeRemoveRepo invocation (release matches the version regex). *)
RemoveRepo(r) ==
    /\ pillar' = MergeAt(pillar, r, RemovalValues(r))
    /\ lastOp' = [op |-> "remove", rel |-> r, enabled |-> FALSE,
                  input |-> "SWUpgradeRemoveRepo"]
    /\ lastSet' = [lastSet EXCEPT ![r] = NoField]

Next ==
    \/ \E s \in Sources, r \in Releases, v \in Versions, tb \in TargetBuilds,
          en \in BOOLEAN : SetRepo(s, r, v, tb, en)
    \/ \E r \in Releases : RemoveRepo(r)

Spec == Init /\ [][Next]_vars

-----------------------------------------------------------------------------
TypeOK ==
    /\ pillar \in [Releases -> [Keys -> Entry \cup {Absent}]]
    /\ lastOp \in [op : {"none", "local", "remote", "remove"},
                   rel : Releases, enabled : BOOLEAN,
                   input : {"SWUpgradeRepo", "SWUpgradeRemoveRepo"}]
    /\ lastSet \in [Releases -> Versions \cup {NoField}]

(* A reader of swupgrade/repo/<r> never finds a layout half written or   *)
(* spliced from two sources, whatever sequence of local, remote and       *)
(* special sets and removals of r came before: each of the version-1 and  *)
(* version-2 component sets is stored whole or not at all, and the        *)
(* version-1 components all come from the same source (the same file://  *)
(* tree or the same URL).  It holds only while the special-source map,    *)
(* SWUpgradeRemoveRepo's map, the remote layout and _pillar_values_ver1   *)
(* list the same four directories.                                         *)
LayoutsWhole ==
    \A r \in Releases :
        /\ \A L \in {V1Components, V2Components} :
              \/ \A c \in L : pillar[r][c] = Absent
              \/ \A c \in L : pillar[r][c] # Absent
        /\ \A c, d \in V1Components :
              pillar[r][c] # Absent /\ pillar[r][d] # Absent
                  => pillar[r][c].source[1] = pillar[r][d].source[1]
=============================================================================
