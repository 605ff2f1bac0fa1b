------------------------- MODULE SWUpgradeRepoProofs -------------------------
(***************************************************************************)
(* Proofs about the SW-upgrade repository inputs, for every set of        *)
(* releases, target builds and URLs: the pillar only ever holds well-formed *)
(* repository entries, a removal clears the legacy layout and the release  *)
(* marker, and no layout is ever left half written or spliced.            *)
(***************************************************************************)
EXTENDS SWUpgradeRepo, TLAPS

-----------------------------------------------------------------------------
(* A path built by FilePath is a sequence of path parts.                   *)
LEMMA FilePathType ==
    ASSUME NEW tb \in TargetBuilds, NEW r \in Releases,
           NEW segs \in Seq(PathParts)
    PROVE  FilePath(tb, r, segs) \in Seq(PathParts)
BY DEF FilePath, PathParts

(* Every value pillar_value can yield maps some keys of swupgrade/repo/<r> *)
(* to entries or to the None of a removal.                                 *)
LEMMA PillarValueType ==
    ASSUME NEW s \in Sources, NEW r \in Releases, NEW v \in Versions,
           NEW tb \in TargetBuilds, NEW en \in BOOLEAN
    PROVE  /\ DOMAIN PillarValue(s, r, v, tb, en) \subseteq Keys
           /\ \A c \in DOMAIN PillarValue(s, r, v, tb, en) :
                 PillarValue(s, r, v, tb, en)[c] \in Entry \cup {Removed}
<1>1. MarkerEntry(r, VERSION1) \in Entry /\ MarkerEntry(r, VERSION2) \in Entry
    BY DEF MarkerEntry, Ent, Entry, PathParts, Versions
<1>2. ASSUME NEW c \in Components
      PROVE  /\ FilePath(tb, r, <<c>>) \in Seq(PathParts)
             /\ FilePath(tb, r, <<SW, c>>) \in Seq(PathParts)
             /\ FilePath(tb, r, <<SW, EXTERNAL, c>>) \in Seq(PathParts)
             /\ FilePath(tb, r, <<SW, EXTERNAL, RPM, c>>) \in Seq(PathParts)
    <2>1. c \in PathParts /\ SW \in PathParts /\ EXTERNAL \in PathParts /\ RPM \in PathParts
        BY DEF PathParts
    <2>2. /\ <<c>> \in Seq(PathParts) /\ <<SW, c>> \in Seq(PathParts)
          /\ <<SW, EXTERNAL, c>> \in Seq(PathParts)
          /\ <<SW, EXTERNAL, RPM, c>> \in Seq(PathParts)
        BY <2>1
    <2> QED BY <2>2, FilePathType
<1>3. CASE SourceKind(s) = "remove"
    <2>1. PillarValue(s, r, v, tb, en) = RemovalValues(r)
        BY <1>3 DEF PillarValue
    <2> QED BY <2>1 DEF RemovalValues, Keys, Components
<1>4. CASE SourceKind(s) = "remote"
    <2>1. s \in Urls /\ ~ is_special(s)
        BY <1>4 DEF SourceKind
    <2>2. \A c \in V1Components : <<s, c>> \in Seq(PathParts)
        BY <2>1 DEF PathParts, Components
    <2>3. PillarValue(s, r, v, tb, en) = RemoteValues(s, en)
        BY <1>4 DEF PillarValue
    <2> QED BY <2>2, <2>3 DEF RemoteValues, Ent, Entry, Keys, Components
<1>5. CASE SourceKind(s) = "local" /\ v = VERSION1
    <2>1. PillarValue(s, r, v, tb, en) = PillarValuesVer1(r, tb, en)
        BY <1>5 DEF PillarValue
    <2>2. ASSUME NEW c \in V1Components \cup {r}
          PROVE  PillarValuesVer1(r, tb, en)[c] \in Entry
        <3>1. CASE c = r
            BY <3>1, <1>1, SWUpgradeAssumption DEF PillarValuesVer1, Components, V1Components
        <3>2. CASE c # r
            <4>1. c \in Components
                BY <3>2 DEF Components
            <4>2. FilePath(tb, r, <<c>>) \in Seq(PathParts)
                BY <4>1, <1>2
            <4> QED BY <4>2, <3>2 DEF PillarValuesVer1, Ent, Entry
        <3> QED BY <3>1, <3>2
    <2> QED BY <2>1, <2>2 DEF PillarValuesVer1, Keys, Components
<1>6. CASE SourceKind(s) = "local" /\ v # VERSION1
    <2>1. PillarValue(s, r, v, tb, en) = PillarValuesVer2(r, tb, en)
        BY <1>6 DEF PillarValue
    <2>2. ASSUME NEW c \in V2Components \cup {r}
          PROVE  PillarValuesVer2(r, tb, en)[c] \in Entry
        <3>1. CASE c = r
            BY <3>1, <1>1, SWUpgradeAssumption DEF PillarValuesVer2, Components, V2Components
        <3>2. CASE c # r
            <4>1. c \in Components
                BY <3>2 DEF Components
            <4>2. /\ FilePath(tb, r, <<c>>) \in Seq(PathParts)
                  /\ FilePath(tb, r, <<SW, c>>) \in Seq(PathParts)
                  /\ FilePath(tb, r, <<SW, EXTERNAL, c>>) \in Seq(PathParts)
                  /\ FilePath(tb, r, <<SW, EXTERNAL, RPM, c>>) \in Seq(PathParts)
                BY <4>1, <1>2
            <4> QED BY <4>2, <3>2 DEF PillarValuesVer2, Ent, Entry
        <3> QED BY <3>1, <3>2
    <2> QED BY <2>1, <2>2 DEF PillarValuesVer2, Keys, Components
<1> QED BY <1>3, <1>4, <1>5, <1>6 DEF SourceKind

(* Merging such a map into a well-typed pillar keeps it well typed.        *)
LEMMA MergeAtType ==
    ASSUME NEW p \in [Releases -> [Keys -> Entry \cup {Absent}]],
           NEW r \in Releases, NEW m,
           DOMAIN m \subseteq Keys,
           \A c \in DOMAIN m : m[c] \in Entry \cup {Removed}
    PROVE  MergeAt(p, r, m) \in [Releases -> [Keys -> Entry \cup {Absent}]]
BY DEF MergeAt

-----------------------------------------------------------------------------
(* The pillar holds nothing but well-formed repository entries, whatever   *)
(* sequence of SWUpgradeRepo and SWUpgradeRemoveRepo invocations wrote it. *)
THEOREM TypeCorrect == Spec => []TypeOK
<1>1. Init => TypeOK
    BY SWUpgradeAssumption DEF Init, TypeOK
<1>2. TypeOK /\ [Next]_vars => TypeOK'
    <2> SUFFICES ASSUME TypeOK, [Next]_vars PROVE TypeOK'
        OBVIOUS
    <2>1. ASSUME NEW s \in Sources, NEW r \in Releases, NEW v \in Versions,
                 NEW tb \in TargetBuilds, NEW en \in BOOLEAN,
                 SetRepo(s, r, v, tb, en)
          PROVE  TypeOK'
        <3>1. pillar' \in [Releases -> [Keys -> Entry \cup {Absent}]]
            BY <2>1, PillarValueType, MergeAtType DEF SetRepo, TypeOK
        <3>2. lastOp'.op \in {"none", "local", "remote", "remove"}
            BY <2>1 DEF SetRepo, SourceKind
        <3>3. lastSet' \in [Releases -> Versions \cup {NoField}]
            BY <2>1 DEF SetRepo, TypeOK
        <3> QED BY <2>1, <3>1, <3>2, <3>3 DEF SetRepo, TypeOK
    <2>3. ASSUME NEW r \in Releases, RemoveRepo(r)
          PROVE  TypeOK'
        <3>1. /\ DOMAIN RemovalValues(r) \subseteq Keys
              /\ \A c \in DOMAIN RemovalValues(r) : RemovalValues(r)[c] \in Entry \cup {Removed}
            BY DEF RemovalValues, Keys, Components
        <3>2. pillar' \in [Releases -> [Keys -> Entry \cup {Absent}]]
            BY <2>3, <3>1, MergeAtType DEF RemoveRepo, TypeOK
        <3> QED BY <2>3, <3>2 DEF RemoveRepo, TypeOK
    <2>4. CASE UNCHANGED vars
        BY <2>4 DEF vars, TypeOK
    <2> QED BY <2>1, <2>3, <2>4 DEF Next
<1> QED BY <1>1, <1>2, PTL DEF Spec
-----------------------------------------------------------------------------
(* What the pillar holds after a merge at r.                               *)
LEMMA MergeAtValue ==
    ASSUME NEW p \in [Releases -> [Keys -> Entry \cup {Absent}]],
           NEW r \in Releases, NEW m, NEW q \in Releases, NEW c \in Keys
    PROVE  MergeAt(p, r, m)[q][c] =
              IF q = r /\ c \in DOMAIN m
              THEN (IF m[c] = Removed THEN Absent ELSE m[c])
              ELSE p[q][c]
BY DEF MergeAt

-----------------------------------------------------------------------------
(* LayoutsWhole, stated of any pillar p.                                   *)
Whole(p) ==
    \A r \in Releases :
        /\ \A L \in {V1Components, V2Components} :
              \/ \A c \in L : p[r][c] = Absent
              \/ \A c \in L : p[r][c] # Absent
        /\ \A c, d \in V1Components :
              p[r][c] # Absent /\ p[r][d] # Absent
                  => p[r][c].source[1] = p[r][d].source[1]

(* An entry built from well-typed fields is an entry.                    *)
LEMMA EntType ==
    ASSUME NEW src \in Seq(PathParts), NEW ir \in BOOLEAN,
           NEW en \in BOOLEAN \cup {NoField}, NEW ver \in Versions \cup {NoField}
    PROVE  Ent(src, ir, en, ver) \in Entry
BY DEF Ent, Entry

(* A map m leaves the version-1 components alone, removes all of them, or *)
(* writes all of them from one source.                                     *)
V1Whole(m) ==
    \/ V1Components \cap DOMAIN m = {}
    \/ /\ V1Components \subseteq DOMAIN m
       /\ \A c \in V1Components : m[c] = Removed
    \/ /\ V1Components \subseteq DOMAIN m
       /\ \A c \in V1Components : m[c] \in Entry
       /\ \A c, d \in V1Components : m[c].source[1] = m[d].source[1]

(* A map m leaves the version-2 components alone or writes all of them.   *)
V2Whole(m) ==
    \/ V2Components \cap DOMAIN m = {}
    \/ /\ V2Components \subseteq DOMAIN m
       /\ \A c \in V2Components : m[c] \in Entry

(* Every map pillar_value yields treats each layout as a whole: the        *)
(* special map, the remote layout and _pillar_values_ver1 name the same   *)
(* four directories, and _pillar_values_ver2 all seven of its own.        *)
LEMMA PillarValueWhole ==
    ASSUME NEW s \in Sources, NEW r \in Releases, NEW v \in Versions,
           NEW tb \in TargetBuilds, NEW en \in BOOLEAN
    PROVE  V1Whole(PillarValue(s, r, v, tb, en)) /\ V2Whole(PillarValue(s, r, v, tb, en))
<1>0. /\ V1Components \cap V2Components = {}
      /\ r \notin V1Components /\ r \notin V2Components
    BY SWUpgradeAssumption DEF Components
<1>1. CASE SourceKind(s) = "remove"
    <2>1. PillarValue(s, r, v, tb, en) = RemovalValues(r)
        BY <1>1 DEF PillarValue
    <2> QED BY <1>0, <2>1 DEF RemovalValues, V1Whole, V2Whole
<1>2. CASE SourceKind(s) = "remote"
    <2>1. PillarValue(s, r, v, tb, en) = RemoteValues(s, en)
        BY <1>2 DEF PillarValue
    <2>2. \A c \in V1Components : RemoteValues(s, en)[c] \in Entry
        <3>1. s \in Urls
            BY <1>2 DEF SourceKind
        <3>2. \A c \in V1Components : <<s, c>> \in Seq(PathParts)
            BY <3>1 DEF PathParts, Components
        <3> QED BY <3>2 DEF RemoteValues, Ent, Entry
    <2> QED BY <1>0, <2>1, <2>2 DEF RemoteValues, Ent, V1Whole, V2Whole
<1>3. CASE SourceKind(s) = "local" /\ v = VERSION1
    <2>1. PillarValue(s, r, v, tb, en) = PillarValuesVer1(r, tb, en)
        BY <1>3 DEF PillarValue
    <2>2. \A c \in V1Components : PillarValuesVer1(r, tb, en)[c] \in Entry
        <3> SUFFICES ASSUME NEW c \in V1Components
                     PROVE  PillarValuesVer1(r, tb, en)[c] \in Entry
            OBVIOUS
        <3>1. <<c>> \in Seq(PathParts)
            BY DEF PathParts, Components
        <3>2. FilePath(tb, r, <<c>>) \in Seq(PathParts)
            BY <3>1, FilePathType
        <3>3. c # r
            BY <1>0
        <3> QED BY <3>2, <3>3, EntType DEF PillarValuesVer1
    <2>3. \A c \in V1Components :
             PillarValuesVer1(r, tb, en)[c].source[1] = "file://"
        BY <1>0 DEF PillarValuesVer1, Ent, FilePath
    <2> QED BY <1>0, <2>1, <2>2, <2>3 DEF PillarValuesVer1, V1Whole, V2Whole
<1>4. CASE SourceKind(s) = "local" /\ v # VERSION1
    <2>1. PillarValue(s, r, v, tb, en) = PillarValuesVer2(r, tb, en)
        BY <1>4 DEF PillarValue
    <2>2. \A c \in V2Components : PillarValuesVer2(r, tb, en)[c] \in Entry
        <3> SUFFICES ASSUME NEW c \in V2Components
                     PROVE  PillarValuesVer2(r, tb, en)[c] \in Entry
            OBVIOUS
        <3>1. /\ FilePath(tb, r, <<c>>) \in Seq(PathParts)
                     /\ FilePath(tb, r, <<SW, c>>) \in Seq(PathParts)
                     /\ FilePath(tb, r, <<SW, EXTERNAL, c>>) \in Seq(PathParts)
                     /\ FilePath(tb, r, <<SW, EXTERNAL, RPM, c>>) \in Seq(PathParts)
            <4>1. c \in PathParts /\ SW \in PathParts /\ EXTERNAL \in PathParts
                  /\ RPM \in PathParts
                BY DEF PathParts, Components
            <4>2. /\ <<c>> \in Seq(PathParts) /\ <<SW, c>> \in Seq(PathParts)
                  /\ <<SW, EXTERNAL, c>> \in Seq(PathParts)
                  /\ <<SW, EXTERNAL, RPM, c>> \in Seq(PathParts)
                BY <4>1
            <4> QED BY <4>2, FilePathType
        <3>2. c # r
            BY <1>0
        <3> QED BY <3>1, <3>2, EntType DEF PillarValuesVer2
    <2> QED BY <1>0, <2>1, <2>2 DEF PillarValuesVer2, V1Whole, V2Whole
<1> QED BY <1>1, <1>2, <1>3, <1>4 DEF SourceKind

(* Merging a map that treats each layout as a whole keeps every layout of *)
(* every release whole.                                                    *)
LEMMA MergeKeepsWhole ==
    ASSUME NEW p \in [Releases -> [Keys -> Entry \cup {Absent}]], Whole(p),
           NEW r \in Releases, NEW m, V1Whole(m), V2Whole(m),
           DOMAIN m \subseteq Keys
    PROVE  Whole(MergeAt(p, r, m))
<1> DEFINE p2 == MergeAt(p, r, m)
<1> SUFFICES ASSUME NEW q \in Releases
             PROVE  /\ \A L \in {V1Components, V2Components} :
                          \/ \A c \in L : p2[q][c] = Absent
                          \/ \A c \in L : p2[q][c] # Absent
                    /\ \A c, d \in V1Components :
                          p2[q][c] # Absent /\ p2[q][d] # Absent
                              => p2[q][c].source[1] = p2[q][d].source[1]
    BY DEF Whole
<1>0. /\ \A e \in Entry : e # Absent /\ e # Removed
      /\ V1Components \subseteq Keys /\ V2Components \subseteq Keys
    BY MarkersAssumption DEF Keys, Components
<1>1. \A c \in Keys : p2[q][c] = IF q = r /\ c \in DOMAIN m
                                 THEN (IF m[c] = Removed THEN Absent ELSE m[c])
                                 ELSE p[q][c]
    BY MergeAtValue
<1>2. CASE q # r
    BY <1>0, <1>1, <1>2 DEF Whole
<1>3. CASE q = r
    <2>1. \/ \A c \in V1Components : p2[q][c] = p[q][c]
          \/ \A c \in V1Components : p2[q][c] = Absent
          \/ /\ \A c \in V1Components : p2[q][c] = m[c] /\ m[c] \in Entry
             /\ \A c, d \in V1Components : m[c].source[1] = m[d].source[1]
        BY <1>0, <1>1, <1>3 DEF V1Whole
    <2>2. \/ \A c \in V2Components : p2[q][c] = p[q][c]
          \/ \A c \in V2Components : p2[q][c] = m[c] /\ m[c] \in Entry
        BY <1>0, <1>1, <1>3 DEF V2Whole
    <2>3. \/ \A c \in V1Components : p2[q][c] = Absent
          \/ \A c \in V1Components : p2[q][c] # Absent
        BY <2>1, <1>0 DEF Whole
    <2>4. \/ \A c \in V2Components : p2[q][c] = Absent
          \/ \A c \in V2Components : p2[q][c] # Absent
        BY <2>2, <1>0 DEF Whole
    <2>5. \A c, d \in V1Components :
             p2[q][c] # Absent /\ p2[q][d] # Absent
                 => p2[q][c].source[1] = p2[q][d].source[1]
        BY <2>1 DEF Whole
    <2> QED BY <2>3, <2>4, <2>5
<1> QED BY <1>2, <1>3

(* No sequence of SWUpgradeRepo and SWUpgradeRemoveRepo invocations, on    *)
(* any releases, ever leaves a release's version-1 or version-2 layout   *)
(* half written, or its version-1 directories taken from two sources.    *)
THEOREM LayoutsWholeHolds == Spec => []LayoutsWhole
<1>1. Init => LayoutsWhole
    BY DEF Init, LayoutsWhole, Keys, Components
<1>2. TypeOK /\ LayoutsWhole /\ [Next]_vars => LayoutsWhole'
    <2> SUFFICES ASSUME TypeOK, Whole(pillar), [Next]_vars
                 PROVE  Whole(pillar')
        BY DEF LayoutsWhole, Whole
    <2>0. pillar \in [Releases -> [Keys -> Entry \cup {Absent}]]
        BY DEF TypeOK
    <2>1. ASSUME NEW s \in Sources, NEW r \in Releases, NEW v \in Versions,
                 NEW tb \in TargetBuilds, NEW en \in BOOLEAN,
                 SetRepo(s, r, v, tb, en)
          PROVE  Whole(pillar')
        <3>1. pillar' = MergeAt(pillar, r, PillarValue(s, r, v, tb, en))
            BY <2>1 DEF SetRepo
        <3>2. V1Whole(PillarValue(s, r, v, tb, en)) /\ V2Whole(PillarValue(s, r, v, tb, en))
              /\ DOMAIN PillarValue(s, r, v, tb, en) \subseteq Keys
            BY PillarValueWhole, PillarValueType
        <3> QED BY <2>0, <3>1, <3>2, MergeKeepsWhole
    <2>2. ASSUME NEW r \in Releases, RemoveRepo(r)
          PROVE  Whole(pillar')
        <3>1. pillar' = MergeAt(pillar, r, RemovalValues(r))
            BY <2>2 DEF RemoveRepo
        <3>2. /\ V1Whole(RemovalValues(r)) /\ V2Whole(RemovalValues(r))
              /\ DOMAIN RemovalValues(r) \subseteq Keys
            <4>1. V2Components \cap (V1Components \cup {r}) = {}
                BY SWUpgradeAssumption DEF Components
            <4> QED BY <4>1 DEF RemovalValues, V1Whole, V2Whole, Keys, Components
        <3> QED BY <2>0, <3>1, <3>2, MergeKeepsWhole
    <2>3. CASE UNCHANGED vars
        BY <2>3 DEF vars
    <2> QED BY <2>1, <2>2, <2>3 DEF Next
<1> QED BY <1>1, <1>2, TypeCorrect, PTL DEF Spec
=============================================================================
