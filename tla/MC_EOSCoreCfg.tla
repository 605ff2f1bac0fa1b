---------------------------- MODULE MC_EOSCoreCfg ----------------------------
(* EOSCoreCfg: the section eoscore with the three sizes it prompts for,    *)
(* in the code's order, a second top-level section, two values and no     *)
(* --release.  The eoscore files are a full section, one with the RPC size *)
(* only, and an empty file.                                                *)
EXTENDS ComponentCfg

CONSTANTS eoscore, other, rpc_size, belog_size, beseg_size, v0, v1

MCSections == {eoscore, other}
MCOptKeys == {rpc_size, belog_size, beseg_size}
MCPrompts == << rpc_size, belog_size, beseg_size >>
MCVals == {v0, v1}

MCDefaults ==
    { [s \in MCSections |-> IF s = eoscore THEN [k \in MCOptKeys |-> v0] ELSE Missing] }

(* The document holding sec at eoscore and nothing at other.             *)
DocOf(sec) == [s \in MCSections |-> IF s = eoscore THEN sec ELSE Missing]

MCFiles ==
    { DocOf([k \in MCOptKeys |-> v1]),
      DocOf([k \in MCOptKeys |-> IF k = rpc_size THEN v1 ELSE Missing]),
      NullDoc }
=============================================================================
