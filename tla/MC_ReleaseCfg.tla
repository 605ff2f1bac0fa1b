---------------------------- MODULE MC_ReleaseCfg ----------------------------
(* ReleaseCfg: the section eos_release with target_build and one more     *)
(* option, a second top-level section, two values.  The release files are *)
(* a full eos_release section, one with target_build only, one with extra *)
(* only, one with only the other section, and an empty file.              *)
EXTENDS ComponentCfg

CONSTANTS eos_release, other, target_build, extra, v0, v1

MCSections == {eos_release, other}
MCOptKeys == {target_build, extra}
MCPrompts == << target_build >>
MCVals == {v0, v1}

MCDefaults ==
    { [s \in MCSections |-> IF s = eos_release THEN [k \in MCOptKeys |-> v0] ELSE Missing] }

(* The section that holds v1 at the keys ks and nothing else.             *)
Sec(ks) == [k \in MCOptKeys |-> IF k \in ks THEN v1 ELSE Missing]

(* The document holding sec at eos_release and osec at other.            *)
DocOf(sec, osec) == [s \in MCSections |-> IF s = eos_release THEN sec ELSE osec]

MCFiles ==
    { DocOf(Sec(MCOptKeys), Missing), DocOf(Sec({target_build}), Missing),
      DocOf(Sec({extra}), Missing), DocOf(Missing, Sec({target_build})), NullDoc }
=============================================================================
