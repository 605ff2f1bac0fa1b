-------------------------- MODULE MC_SWUpgradeRepo --------------------------
(***************************************************************************)
(* Model-checking instance of SWUpgradeRepo: two releases (so that a set  *)
(* or removal of one can be seen not to touch the other), one target      *)
(* build, one URL, every kind of local source.                             *)
(***************************************************************************)
EXTENDS SWUpgradeRepo

(* Spec 8, removal scenario: removing a release maps every known component *)
(* key and the release key to None, so nothing of the release is left in  *)
(* the pillar after SWUpgradeRemoveRepo or a special source, whichever    *)
(* layout was set before.                                                  *)
RemovalClearsRelease ==
    lastOp.op = "remove" => \A c \in Keys : pillar[lastOp.rel][c] = Absent

(* Spec 4.6: the enabled flag applies uniformly to every "is a repository" *)
(* component of one derivation: after a set, each repository entry of the *)
(* layout it wrote carries the enabled value the caller passed.            *)
EnabledUniform ==
    lastOp.op \in {"local", "remote"} =>
        \A c \in Components :
            pillar[lastOp.rel][c] # Absent /\ pillar[lastOp.rel][c].is_repo
                => pillar[lastOp.rel][c].enabled = lastOp.enabled

(* TODO EOS-20669 in pillar_value (inputs.py 1334-1335): the version of a *)
(* remote repository structure needs to be saved, as a local set saves it *)
(* in the release marker.  Stated as what the pillar should then say:     *)
(* whenever swupgrade/repo/<r> holds a release marker, the marker names   *)
(* the source_version of the last set of r.                                *)
MarkerNamesLastSet ==
    \A r \in Releases :
        pillar[r][r] # Absent => pillar[r][r].version = lastSet[r]
=============================================================================
