--------------------------- MODULE MC_ParserFiller ---------------------------
(***************************************************************************)
(* Model-checking instance of ParserFiller.  KeyShape to FlagShape are    *)
(* shapes the schema classes of inputs.py declare, each named after an     *)
(* attribute that has it.  BoolShape to PrivateKeyShape are declared by no *)
(* class under src: they are the inputs the parser code has branches for  *)
(* (the store_bool action at inputs.py 252, a store_bool entry without a   *)
(* default, names with leading underscores), which a schema class or cli  *)
(* spec outside the repository may pass.                                   *)
(***************************************************************************)
EXTENDS ParserFiller

Attr(lead, default, type, action, conv, valid) ==
    [lead |-> lead, default |-> default, type |-> type, action |-> action,
     conv |-> conv, valid |-> valid]

\* PillarInputBase.keypath, SWUpdateRepo.release: mandatory
KeyShape     == Attr(0, NOTHING, "str", "store", "id", "none")
\* PillarInputBase.value: mandatory, json-typed
JsonShape    == Attr(0, NOTHING, "list", "store", "id", "none")
\* MgmtNetwork.mgmt_gateway and the other check_ip4 attributes
IpShape      == Attr(0, Unchanged, "str", "store", "id", "ip4")
\* MgmtNetwork.mgmt_interfaces, Network.dns_servers: List typed
ListShape    == Attr(0, Unchanged, "list", "store", "id", "none")
\* MgmtNetwork.mgmt_mtu: a literal default (1500)
MtuShape     == Attr(0, Literal, "str", "store", "id", "none")
\* SWUpdateRepo.source: the None-to-UNCHANGED converter
SourceShape  == Attr(0, Unchanged, "str", "store", "source", "none")
\* SWUpgradeRepo.release, SWUpgradeRepo.hash: default None
OptShape     == Attr(0, PyNone, "str", "store", "id", "none")
\* SWUpgradeRepo.import_pub_key: bool without an action (store_true)
FlagShape    == Attr(0, PyFalse, "bool", "store", "id", "none")
\* no class under src: an entry with action store_bool (inputs.py 252)
BoolShape    == Attr(0, PyFalse, "bool", "store_bool", "id", "none")
\* no class under src: a store_bool entry without a default
BoolKeyShape == Attr(0, NOTHING, "bool", "store_bool", "id", "none")
\* no class under src: a name AttrParserArgs rejects ("__x")
DunderShape  == Attr(2, Unchanged, "str", "store", "id", "none")
\* no class under src: a private attribute with parser metadata ("_x")
PrivateShape == Attr(1, Unchanged, "str", "store", "id", "none")

(* Every shape above but the private ones.                                *)
SourceShapes == {KeyShape, JsonShape, IpShape, ListShape, MtuShape,
                 SourceShape, OptShape, FlagShape, BoolShape, BoolKeyShape,
                 DunderShape}

\* no class under src: a private mandatory attribute with parser metadata
PrivateKeyShape == Attr(1, NOTHING, "str", "store", "id", "none")

PrivateShapes == {KeyShape, JsonShape, IpShape, PrivateShape, PrivateKeyShape}
=============================================================================
