--------------------------- MODULE ParamGroupCache ---------------------------
(***************************************************************************)
(* ParamGroupInputBase.pillar_items and its class-level cache param_spec   *)
(* (inputs.py 516-557), over the calls one Python process makes.           *)
(*                                                                         *)
(* _spec is a class attribute: reading cls._spec finds the first class of  *)
(* the MRO that has one (ParamGroupInputBase has None), and the assignment *)
(* cls._spec = {} creates an attribute of cls itself.  The dict created by *)
(* class c is named c.  cls._spec[attr_name] = ... writes into whatever   *)
(* dict the read found, which may belong to a parent class.               *)
(*                                                                         *)
(* The registry param_spec maps a full path to a Param; a Param is        *)
(* represented by its full path.                                           *)
(***************************************************************************)
EXTENDS Naturals, Sequences, FiniteSets

CONSTANTS
    Classes,   \* ParamGroupInputBase and the schema classes
    Root,      \* ParamGroupInputBase
    MRO,       \* MRO[c]: c, its parents, ..., Root
    Attrs,     \* attribute names
    Fields,    \* Fields[c]: attr.fields_dict(c), in order
    Groups,    \* METADATA_PARAM_GROUP_KEY values
    NoGroup,   \* the empty group ''
    GroupOf,   \* GroupOf[c][a]: the group in the metadata of c's attribute a
    Known,     \* the full paths the registry holds
    NoneV,     \* None
    Unset,     \* the class has no _spec attribute of its own
    Absent     \* no entry in a dict

FieldNames(c) == {Fields[c][i] : i \in DOMAIN Fields[c]}

(* "{}/{}".format(param_group, attr_name) if param_group else attr_name   *)
FullPath(g, a) == IF g = NoGroup THEN << a >> ELSE << g, a >>

Paths == {FullPath(g, a) : g \in Groups \cup {NoGroup}, a \in Attrs}

ASSUME ParamGroupAssumption ==
    /\ Root \in Classes
    /\ \A c \in Classes : MRO[c] \in Seq(Classes) /\ Len(MRO[c]) > 0
                          /\ MRO[c][1] = c /\ MRO[c][Len(MRO[c])] = Root
    /\ \A c \in Classes : Fields[c] \in Seq(Attrs)
    /\ \A c \in Classes : GroupOf[c] \in [Attrs -> Groups \cup {NoGroup}]
    /\ Known \subseteq Paths
    /\ NoGroup \notin Groups
    /\ \A c \in Classes : \A i, j \in DOMAIN Fields[c] : Fields[c][i] = Fields[c][j] => i = j
    /\ Fields[Root] = << >>
    /\ {NoneV, Unset} \cap Classes = {} /\ NoneV # Unset
    /\ Absent \notin Paths

VARIABLES
    own,    \* own[c]: the _spec attribute of class c itself
    dicts,  \* dicts[d]: the contents of the dict created by class d
    last    \* the outcome of the last pillar_items call (history)

vars == <<own, dicts, last>>

Outcome == [cls : Classes, ok : BOOLEAN, items : SUBSET (Paths \X Attrs)]

-----------------------------------------------------------------------------
(* cls._spec as Python reads it, in a state where own is o.                *)
SpecOf(o, c) ==
    LET i == CHOOSE i \in DOMAIN MRO[c] :
                 /\ o[MRO[c][i]] # Unset
                 /\ \A j \in 1..(i - 1) : o[MRO[c][j]] = Unset
    IN  o[MRO[c][i]]

(* A cache whose "cls._spec = {}" sets the attribute on the base class.   *)
FreshSpecOnRoot(o, c) ==
    IF SpecOf(o, c) = NoneV THEN [o EXCEPT ![Root] = Root] ELSE o

(* if cls._spec is None: cls._spec = {}                                    *)
FreshSpec(o, c) ==
    IF SpecOf(o, c) = NoneV THEN [o EXCEPT ![c] = c] ELSE o

(* param_spec(cls, attr_name) from own o and dicts ds: the own and dicts   *)
(* after the call, the Param returned, and whether it returned (ValueError *)
(* on an unknown attribute, KeyError on a path the registry lacks).        *)
ParamSpec(o, ds, c, a) ==
    LET o1 == FreshSpec(o, c)
        d  == SpecOf(o1, c)
        p  == FullPath(GroupOf[c][a], a)
    IN  IF ds[d][a] # Absent
        THEN [own |-> o1, dicts |-> ds, val |-> ds[d][a], ok |-> TRUE]
        ELSE IF a \notin FieldNames(c) \/ p \notin Known
        THEN [own |-> o1, dicts |-> ds, val |-> p, ok |-> FALSE]
        ELSE [own |-> o1, dicts |-> [ds EXCEPT ![d][a] = p], val |-> p, ok |-> TRUE]

(* The dict param_spec uses when cls is c and own is o: cls._spec after    *)
(* the "if cls._spec is None" of the first call.  Later calls find it      *)
(* unchanged, since nothing in pillar_items assigns _spec again.           *)
CallDict(o, c) == SpecOf(FreshSpec(o, c), c)

(* What param_spec returns for a: the cached Param if the dict has one,    *)
(* otherwise the one at the path the metadata of c gives.                  *)
CachedPath(o, ds, c, a) ==
    IF ds[CallDict(o, c)][a] # Absent THEN ds[CallDict(o, c)][a]
    ELSE FullPath(GroupOf[c][a], a)

(* param_spec raises for a: not cached, and unknown or not in the registry *)
Raises(o, ds, c, a) ==
    /\ ds[CallDict(o, c)][a] = Absent
    /\ a \notin FieldNames(c) \/ FullPath(GroupOf[c][a], a) \notin Known

(* The fields among the first i whose param_spec call returned: those      *)
(* before the first that raises.                                           *)
Returned(o, ds, c, i) ==
    {j \in 1..i : \A l \in 1..j : ~ Raises(o, ds, c, Fields[c][l])}

(* res[param] = ...: a later field with the same Param overwrites the key. *)
Kept(o, ds, c, i) ==
    {j \in Returned(o, ds, c, i) :
        \A l \in Returned(o, ds, c, i) :
            l > j => CachedPath(o, ds, c, Fields[c][l]) # CachedPath(o, ds, c, Fields[c][j])}

(* The state after the loop of pillar_items has run over the first i      *)
(* fields, from own o and dicts ds: the own and dicts, res, and whether no *)
(* call raised.  The first call may create c's own dict; every returned    *)
(* call caches its Param.  The lemma ItemsPrefixStep of ParamGroupCache-  *)
(* Proofs shows it is the loop: one more field is ItemsStep.               *)
ItemsPrefix(o, ds, c, i) ==
    [own   |-> IF i = 0 THEN o ELSE FreshSpec(o, c),
     dicts |-> IF i = 0 THEN ds
               ELSE [ds EXCEPT ![CallDict(o, c)] =
                       [a \in Attrs |->
                          IF \E j \in Returned(o, ds, c, i) : Fields[c][j] = a
                          THEN CachedPath(o, ds, c, a)
                          ELSE ds[CallDict(o, c)][a]]],
     res   |-> {<< CachedPath(o, ds, c, Fields[c][j]), Fields[c][j] >> :
                   j \in Kept(o, ds, c, i)},
     ok    |-> \A l \in 1..i : ~ Raises(o, ds, c, Fields[c][l])]

(* One iteration of "for attr_name in ...: res[self.param_spec(attr_name)] *)
(* = getattr(self, attr_name)" on the i-th field, after the state prev; an *)
(* exception ends the loop.                                                *)
ItemsStep(prev, c, i) ==
    LET a == Fields[c][i]
        r == ParamSpec(prev.own, prev.dicts, c, a)
    IN  IF ~ prev.ok THEN prev
        ELSE [own |-> r.own, dicts |-> r.dicts, ok |-> r.ok,
              res |-> IF r.ok
                      THEN {q \in prev.res : q[1] # r.val} \cup {<< r.val, a >>}
                      ELSE prev.res]

(* pillar_items with key and value exchanged: res[value] = param_spec(a). *)
ItemsSwapped(c) ==
    [ItemsPrefix(own, dicts, c, Len(Fields[c])) EXCEPT !.res =
        {<< Fields[c][j], CachedPath(own, dicts, c, Fields[c][j]) >> :
            j \in Returned(own, dicts, c, Len(Fields[c]))}]

(* pillar_items: the loop over every field of c.                           *)
Items(c) == ItemsPrefix(own, dicts, c, Len(Fields[c]))

-----------------------------------------------------------------------------
Init ==
    /\ own = [c \in Classes |-> IF c = Root THEN NoneV ELSE Unset]
    /\ dicts = [d \in Classes |-> [a \in Attrs |-> Absent]]
    /\ last = [cls |-> Root, ok |-> TRUE, items |-> {}]

(* An instance of class c is asked for its pillar items.                   *)
PillarItems(c) ==
    /\ c # Root
    /\ LET r == Items(c) IN
          /\ own' = r.own
          /\ dicts' = r.dicts
          /\ last' = [cls |-> c, ok |-> r.ok, items |-> r.res]

Next == \E c \in Classes : PillarItems(c)

Spec == Init /\ [][Next]_vars

-----------------------------------------------------------------------------
TypeOK ==
    /\ own \in [Classes -> Classes \cup {NoneV, Unset}]
    /\ dicts \in [Classes -> [Attrs -> Paths \cup {Absent}]]
    /\ last \in Outcome

(* Spec 4.5: the storage path of a field is memoized per class, which is  *)
(* safe because it is derived purely from class metadata.  Whatever calls *)
(* of other classes came before, a pillar_items call that returns yields   *)
(* exactly one item per field, at the path its own metadata gives.         *)
ItemsFaithful ==
    last.ok =>
        last.items = {<< FullPath(GroupOf[last.cls][a], a), a >> :
                          a \in FieldNames(last.cls)}
=============================================================================
