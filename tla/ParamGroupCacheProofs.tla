----------------------- MODULE ParamGroupCacheProofs -----------------------
(***************************************************************************)
(* Proofs about the param_spec cache of ParamGroupInputBase, for the       *)
(* hierarchy the repository has: every schema class (NTP, Hostname,        *)
(* Firewall, the three networks, Release, StorageEnclosure, Network,       *)
(* inputs.py 602-906) subclasses ParamGroupInputBase directly.             *)
(***************************************************************************)
EXTENDS ParamGroupCache, TLAPS

(* Every class but the base has the MRO c, ParamGroupInputBase.            *)
FlatHierarchy ==
    /\ MRO[Root] = << Root >>
    /\ \A c \in Classes \ {Root} : MRO[c] = << c, Root >>

(* The own _spec attributes Python can hold in a flat hierarchy: the base  *)
(* keeps None, a schema class has none or the dict it created.             *)
OwnOK(o) ==
    /\ o \in [Classes -> Classes \cup {NoneV, Unset}]
    /\ o[Root] = NoneV
    /\ \A c \in Classes \ {Root} : o[c] \in {Unset, c}

(* A dict caches, for an attribute, only the Param its class's metadata    *)
(* names.                                                                  *)
DictsOK(ds) ==
    /\ ds \in [Classes -> [Attrs -> Paths \cup {Absent}]]
    /\ \A d \in Classes, a \in Attrs : ds[d][a] \in {Absent, FullPath(GroupOf[d][a], a)}

(* The inductive invariant.                                                *)
IInv ==
    /\ TypeOK
    /\ OwnOK(own)
    /\ DictsOK(dicts)
    /\ ItemsFaithful

-----------------------------------------------------------------------------
(* A full path ends with the attribute name.                               *)
LEMMA FullPathAttr ==
    ASSUME NEW g, NEW a, NEW g2, NEW a2, FullPath(g, a) = FullPath(g2, a2)
    PROVE  a = a2
<1>1. CASE g = NoGroup /\ g2 = NoGroup
  BY <1>1 DEF FullPath
<1>2. CASE g # NoGroup /\ g2 # NoGroup
  BY <1>2 DEF FullPath
<1>3. CASE g = NoGroup /\ g2 # NoGroup
  <2>1. << a >> = << g2, a2 >>
    BY <1>3 DEF FullPath
  <2>. QED  BY <2>1
<1>4. CASE g # NoGroup /\ g2 = NoGroup
  <2>1. << g, a >> = << a2 >>
    BY <1>4 DEF FullPath
  <2>. QED  BY <2>1
<1>. QED  BY <1>1, <1>2, <1>3, <1>4

LEMMA FullPathType ==
    ASSUME ParamGroupAssumption, NEW c \in Classes, NEW a \in Attrs
    PROVE  FullPath(GroupOf[c][a], a) \in Paths
<1>1. GroupOf[c][a] \in Groups \cup {NoGroup}
  BY DEF ParamGroupAssumption
<1>. QED  BY <1>1 DEF Paths

(* cls._spec in a flat hierarchy: the class's own dict, or the base's None.*)
LEMMA SpecOfFlat ==
    ASSUME ParamGroupAssumption, FlatHierarchy, NEW o, OwnOK(o),
           NEW c \in Classes \ {Root}
    PROVE  SpecOf(o, c) = IF o[c] # Unset THEN o[c] ELSE NoneV
<1>1. MRO[c] = << c, Root >> /\ DOMAIN MRO[c] = 1..2
  BY DEF FlatHierarchy
<1>. DEFINE P(i) == /\ o[MRO[c][i]] # Unset
                    /\ \A j \in 1..(i - 1) : o[MRO[c][j]] = Unset
             i0 == CHOOSE i \in DOMAIN MRO[c] : P(i)
<1>2. SpecOf(o, c) = o[MRO[c][i0]]
  BY DEF SpecOf
<1>3. CASE o[c] # Unset
  <2>1. P(1)
    BY <1>1, <1>3
  <2>2. i0 \in 1..2 /\ P(i0)
    <3>0. 1 \in DOMAIN MRO[c]
      BY <1>1
    <3>1. \E i \in DOMAIN MRO[c] : P(i)
      BY <3>0, <2>1, Zenon
    <3>2. i0 \in DOMAIN MRO[c] /\ P(i0)
      BY <3>1, Zenon DEF i0
    <3>. QED  BY <1>1, <3>2
  <2>3. i0 = 1
    BY <1>1, <1>3, <2>2
  <2>. QED  BY <1>1, <1>2, <1>3, <2>3
<1>4. CASE o[c] = Unset
  <2>1. NoneV # Unset /\ o[Root] = NoneV
    BY DEF ParamGroupAssumption, OwnOK
  <2>2. P(2)
    BY <1>1, <1>4, <2>1
  <2>3. i0 \in 1..2 /\ P(i0)
    <3>1. \E i \in DOMAIN MRO[c] : P(i)
      BY <1>1, <2>2
    <3>2. i0 \in DOMAIN MRO[c] /\ P(i0)
      BY <3>1, Zenon DEF i0
    <3>. QED  BY <1>1, <3>2
  <2>4. i0 = 2
    BY <1>1, <1>4, <2>3
  <2>. QED  BY <1>1, <1>2, <1>4, <2>1, <2>4
<1>. QED  BY <1>3, <1>4

(* The first call of param_spec gives c its own dict, and every call uses  *)
(* it.                                                                     *)
LEMMA CallDictFlat ==
    ASSUME ParamGroupAssumption, FlatHierarchy, NEW o, OwnOK(o),
           NEW c \in Classes \ {Root}
    PROVE  /\ FreshSpec(o, c) = [o EXCEPT ![c] = c]
           /\ OwnOK(FreshSpec(o, c))
           /\ CallDict(o, c) = c
<1>1. NoneV \notin Classes /\ Unset \notin Classes /\ NoneV # Unset
  BY DEF ParamGroupAssumption
<1>2. FreshSpec(o, c) = [o EXCEPT ![c] = c]
  <2>1. CASE o[c] = Unset
    BY <2>1, SpecOfFlat DEF FreshSpec
  <2>2. CASE o[c] # Unset
    <3>1. o[c] = c
      BY <2>2 DEF OwnOK
    <3>2. SpecOf(o, c) = c
      BY <2>2, <3>1, SpecOfFlat
    <3>. QED  BY <3>1, <3>2, <1>1 DEF FreshSpec, OwnOK
  <2>. QED  BY <2>1, <2>2
<1>3. OwnOK(FreshSpec(o, c))
  BY <1>2 DEF OwnOK
<1>4. FreshSpec(o, c)[c] = c
  BY <1>2 DEF OwnOK
<1>5. SpecOf(FreshSpec(o, c), c) = c
  BY <1>1, <1>3, <1>4, SpecOfFlat
<1>. QED  BY <1>2, <1>3, <1>5 DEF CallDict

(* In a flat hierarchy param_spec returns, cached or not, the Param at the *)
(* path c's own metadata gives.                                            *)
LEMMA CachedFlat ==
    ASSUME ParamGroupAssumption, FlatHierarchy, NEW o, OwnOK(o), NEW ds, DictsOK(ds),
           NEW c \in Classes \ {Root}, NEW a \in Attrs
    PROVE  CachedPath(o, ds, c, a) = FullPath(GroupOf[c][a], a)
<1>1. CallDict(o, c) = c
  BY CallDictFlat
<1>2. ds[c][a] \in {Absent, FullPath(GroupOf[c][a], a)}
  BY DEF DictsOK
<1>. QED  BY <1>1, <1>2 DEF CachedPath

(* No two fields of a class share a Param, so res keeps every returned one.*)
LEMMA KeptFlat ==
    ASSUME ParamGroupAssumption, FlatHierarchy, NEW o, OwnOK(o), NEW ds, DictsOK(ds),
           NEW c \in Classes \ {Root}, NEW i \in 0..Len(Fields[c])
    PROVE  Kept(o, ds, c, i) = Returned(o, ds, c, i)
<1>1. Fields[c] \in Seq(Attrs)
  BY DEF ParamGroupAssumption
<1>2. ASSUME NEW j \in Returned(o, ds, c, i), NEW l \in Returned(o, ds, c, i), l > j
      PROVE  CachedPath(o, ds, c, Fields[c][l]) # CachedPath(o, ds, c, Fields[c][j])
  <2>1. j \in 1..Len(Fields[c]) /\ l \in 1..Len(Fields[c])
    BY DEF Returned
  <2>2. Fields[c][l] \in Attrs /\ Fields[c][j] \in Attrs
    BY <1>1, <2>1
  <2>3. Fields[c][l] # Fields[c][j]
    BY <1>1, <2>1, <1>2 DEF ParamGroupAssumption
  <2>4. CachedPath(o, ds, c, Fields[c][l]) = FullPath(GroupOf[c][Fields[c][l]], Fields[c][l])
        /\ CachedPath(o, ds, c, Fields[c][j]) = FullPath(GroupOf[c][Fields[c][j]], Fields[c][j])
    BY <2>2, CachedFlat
  <2>. QED  BY <2>3, <2>4, FullPathAttr
<1>. QED  BY <1>2 DEF Kept

(* What pillar_items computes in a flat hierarchy.                         *)
LEMMA ItemsFlat ==
    ASSUME ParamGroupAssumption, FlatHierarchy, NEW o, OwnOK(o), NEW ds, DictsOK(ds),
           NEW c \in Classes \ {Root}
    PROVE  LET R == ItemsPrefix(o, ds, c, Len(Fields[c])) IN
           /\ OwnOK(R.own)
           /\ DictsOK(R.dicts)
           /\ R.ok \in BOOLEAN
           /\ R.res \in SUBSET (Paths \X Attrs)
           /\ R.ok => R.res = {<< FullPath(GroupOf[c][a], a), a >> : a \in FieldNames(c)}
<1>. DEFINE n == Len(Fields[c])
            R == ItemsPrefix(o, ds, c, n)
            F == Fields[c]
<1>1. F \in Seq(Attrs) /\ n \in Nat
  BY DEF ParamGroupAssumption
<1>2. OwnOK(R.own)
  BY CallDictFlat DEF ItemsPrefix
<1>3. DictsOK(R.dicts)
  <2>1. CASE n = 0
    BY <2>1 DEF ItemsPrefix
  <2>2. CASE n # 0
    <3>3. CallDict(o, c) = c
      BY CallDictFlat
    <3>4. R.dicts = [ds EXCEPT ![c] =
                       [a \in Attrs |->
                          IF \E j \in Returned(o, ds, c, n) : F[j] = a
                          THEN CachedPath(o, ds, c, a) ELSE ds[c][a]]]
      BY <2>2, <3>3 DEF ItemsPrefix
    <3>5. \A a \in Attrs : CachedPath(o, ds, c, a) = FullPath(GroupOf[c][a], a)
      BY CachedFlat
    <3>6. \A a \in Attrs : FullPath(GroupOf[c][a], a) \in Paths
      BY FullPathType
    <3>. QED  BY <3>4, <3>5, <3>6 DEF DictsOK
  <2>. QED  BY <2>1, <2>2
<1>4. R.ok \in BOOLEAN
  BY DEF ItemsPrefix
<1>5. R.res = {<< FullPath(GroupOf[c][F[j]], F[j]), F[j] >> : j \in Returned(o, ds, c, n)}
  <2>1. \A j \in Returned(o, ds, c, n) :
            CachedPath(o, ds, c, F[j]) = FullPath(GroupOf[c][F[j]], F[j])
    BY <1>1, CachedFlat DEF Returned
  <2>2. Kept(o, ds, c, n) = Returned(o, ds, c, n)
    BY <1>1, KeptFlat
  <2>. QED  BY <2>1, <2>2 DEF ItemsPrefix
<1>6. R.res \in SUBSET (Paths \X Attrs)
  <2>1. \A j \in Returned(o, ds, c, n) : F[j] \in Attrs
    BY <1>1 DEF Returned
  <2>. QED  BY <1>5, <2>1, FullPathType
<1>7. ASSUME R.ok
      PROVE  R.res = {<< FullPath(GroupOf[c][a], a), a >> : a \in FieldNames(c)}
  <2>1. Returned(o, ds, c, n) = 1..n
    <3>1. \A l \in 1..n : ~ Raises(o, ds, c, F[l])
      BY <1>7 DEF ItemsPrefix
    <3>. QED  BY <1>1, <3>1 DEF Returned
  <2>2. FieldNames(c) = {F[j] : j \in 1..n}
    BY <1>1 DEF FieldNames
  <2>. DEFINE G(a) == << FullPath(GroupOf[c][a], a), a >>
  <2>3. {G(F[j]) : j \in 1..n} = {G(a) : a \in {F[j] : j \in 1..n}}
    <3>1. ASSUME NEW x \in {G(F[j]) : j \in 1..n} PROVE x \in {G(a) : a \in {F[j] : j \in 1..n}}
      BY <3>1, ZenonT(60)
    <3>2. ASSUME NEW x \in {G(a) : a \in {F[j] : j \in 1..n}} PROVE x \in {G(F[j]) : j \in 1..n}
      <4>1. PICK a \in {F[j] : j \in 1..n} : x = G(a)
        BY <3>2
      <4>2. PICK j \in 1..n : a = F[j]
        BY <4>1
      <4>. QED  BY <4>1, <4>2
    <3>. HIDE DEF G
    <3>. QED  BY <3>1, <3>2
  <2>. HIDE DEF G
  <2>. QED  BY <1>5, <2>1, <2>2, <2>3 DEF G
<1>. QED  BY <1>2, <1>3, <1>4, <1>6, <1>7
-----------------------------------------------------------------------------
LEMMA InitIInv ==
    ASSUME ParamGroupAssumption
    PROVE  Init => IInv
<1>. SUFFICES ASSUME Init PROVE IInv
  OBVIOUS
<1>1. NoneV \notin Classes /\ Unset \notin Classes
  BY DEF ParamGroupAssumption
<1>2. FieldNames(Root) = {}
  BY DEF ParamGroupAssumption, FieldNames
<1>3. TypeOK
  BY <1>1 DEF Init, TypeOK, Outcome, ParamGroupAssumption
<1>4. OwnOK(own) /\ DictsOK(dicts)
  BY DEF Init, OwnOK, DictsOK
<1>5. ItemsFaithful
  BY <1>2 DEF Init, ItemsFaithful
<1>. QED  BY <1>3, <1>4, <1>5 DEF IInv

LEMMA IInvStep ==
    ASSUME ParamGroupAssumption, FlatHierarchy
    PROVE  IInv /\ [Next]_vars => IInv'
<1>. SUFFICES ASSUME IInv, [Next]_vars PROVE IInv'
  OBVIOUS
<1>1. ASSUME NEW c \in Classes, PillarItems(c)
      PROVE  IInv'
  <2>. DEFINE R == ItemsPrefix(own, dicts, c, Len(Fields[c]))
  <2>1. c \in Classes \ {Root}
    BY <1>1 DEF PillarItems
  <2>2. own' = R.own /\ dicts' = R.dicts /\ last' = [cls |-> c, ok |-> R.ok, items |-> R.res]
    BY <1>1 DEF PillarItems, Items
  <2>3. /\ OwnOK(R.own)
        /\ DictsOK(R.dicts)
        /\ R.ok \in BOOLEAN
        /\ R.res \in SUBSET (Paths \X Attrs)
        /\ R.ok => R.res = {<< FullPath(GroupOf[c][a], a), a >> : a \in FieldNames(c)}
    BY <2>1, ItemsFlat DEF IInv
  <2>4. TypeOK'
    BY <2>2, <2>3 DEF TypeOK, OwnOK, DictsOK, Outcome
  <2>5. ItemsFaithful'
    BY <2>2, <2>3 DEF ItemsFaithful
  <2>. QED  BY <2>2, <2>3, <2>4, <2>5 DEF IInv
<1>2. CASE UNCHANGED vars
  BY <1>2 DEF IInv, TypeOK, OwnOK, DictsOK, ItemsFaithful, vars
<1>. QED  BY <1>1, <1>2 DEF Next

(* In a flat hierarchy, every state the cache of param_spec reaches is an *)
(* invariant state.                                                        *)
LEMMA AlwaysIInv ==
    ASSUME ParamGroupAssumption, FlatHierarchy
    PROVE  Spec => []IInv
BY InitIInv, IInvStep, PTL DEF Spec

(* Type correctness of pillar_items and the param_spec cache: whatever     *)
(* sequence of schema classes asks for its pillar items, own _spec         *)
(* attributes, dict contents and results keep their types.                 *)
THEOREM TypeCorrect ==
    ASSUME ParamGroupAssumption, FlatHierarchy
    PROVE  Spec => []TypeOK
<1>1. IInv => TypeOK
  BY DEF IInv
<1>. QED  BY AlwaysIInv, <1>1, PTL

(* Spec 4.5, the memoization of param_spec per class is safe: for every    *)
(* flat hierarchy, registry and metadata, and whatever calls of other      *)
(* classes came before, a pillar_items call that returns gives exactly one *)
(* item per field, at the path the field's own metadata names.             *)
THEOREM MemoizationSafe ==
    ASSUME ParamGroupAssumption, FlatHierarchy
    PROVE  Spec => []ItemsFaithful
<1>1. IInv => ItemsFaithful
  BY DEF IInv
<1>. QED  BY AlwaysIInv, <1>1, PTL

-----------------------------------------------------------------------------
(* The dicts after the first k fields of c all returned.                  *)
CachedUpto(o, ds, c, k) ==
    [ds EXCEPT ![c] = [x \in Attrs |->
        IF \E j \in 1..k : Fields[c][j] = x THEN CachedPath(o, ds, c, x) ELSE ds[c][x]]]

(* The fields among the first k whose Param no later one of them repeats. *)
LastOf(o, ds, c, k) ==
    {j \in 1..k : \A l \in 1..k :
        l > j => CachedPath(o, ds, c, Fields[c][l]) # CachedPath(o, ds, c, Fields[c][j])}

(* When the first m fields returned, the dicts and res of the closed form. *)
LEMMA PrefixFromReturned ==
    ASSUME NEW o, NEW ds, NEW c, NEW k \in Nat, k # 0, CallDict(o, c) = c,
           NEW m \in Nat, Returned(o, ds, c, k) = 1..m
    PROVE  /\ ItemsPrefix(o, ds, c, k).dicts = CachedUpto(o, ds, c, m)
           /\ Kept(o, ds, c, k) = LastOf(o, ds, c, m)
<1>1. ItemsPrefix(o, ds, c, k).dicts =
        [ds EXCEPT ![c] = [x \in Attrs |->
           IF \E j \in Returned(o, ds, c, k) : Fields[c][j] = x
           THEN CachedPath(o, ds, c, x) ELSE ds[c][x]]]
  BY DEF ItemsPrefix
<1>2. \A x \in Attrs : (\E j \in Returned(o, ds, c, k) : Fields[c][j] = x)
                       <=> (\E j \in 1..m : Fields[c][j] = x)
  OBVIOUS
<1>3. [x \in Attrs |-> IF \E j \in Returned(o, ds, c, k) : Fields[c][j] = x
                       THEN CachedPath(o, ds, c, x) ELSE ds[c][x]]
      = [x \in Attrs |-> IF \E j \in 1..m : Fields[c][j] = x
                       THEN CachedPath(o, ds, c, x) ELSE ds[c][x]]
  BY <1>2
<1>4. ASSUME NEW j PROVE j \in Kept(o, ds, c, k) <=> j \in LastOf(o, ds, c, m)
  BY DEF Kept, LastOf
<1>. QED  BY <1>1, <1>3, <1>4 DEF CachedUpto

(* One more returned field: it is last, and it hides the earlier fields   *)
(* with the same Param.                                                    *)
LEMMA LastOfStep ==
    ASSUME NEW o, NEW ds, NEW c, NEW i \in Nat \ {0}
    PROVE  LastOf(o, ds, c, i) =
             {i} \cup {j \in LastOf(o, ds, c, i - 1) :
                         CachedPath(o, ds, c, Fields[c][j]) # CachedPath(o, ds, c, Fields[c][i])}
<1>. DEFINE CPF(j) == CachedPath(o, ds, c, Fields[c][j])
<1>1. ASSUME NEW j \in LastOf(o, ds, c, i), j # i
      PROVE  j \in LastOf(o, ds, c, i - 1) /\ CPF(j) # CPF(i)
  BY <1>1 DEF LastOf
<1>2. i \in LastOf(o, ds, c, i)
  BY DEF LastOf
<1>3. ASSUME NEW j \in LastOf(o, ds, c, i - 1), CPF(j) # CPF(i)
      PROVE  j \in LastOf(o, ds, c, i)
  <2>1. j \in 1..i /\ \A l \in 1..(i - 1) : l > j => CPF(l) # CPF(j)
    BY <1>3 DEF LastOf
  <2>2. \A l \in 1..i : l > j => CPF(l) # CPF(j)
    BY <1>3, <2>1
  <2>. QED  BY <2>1, <2>2 DEF LastOf
<1>. QED  BY <1>1, <1>2, <1>3

(* The res of the code's loop body, over the closed form's fields.         *)
LEMMA ResStep ==
    ASSUME NEW o, NEW ds, NEW c, NEW i \in Nat \ {0}
    PROVE  LET G(j) == << CachedPath(o, ds, c, Fields[c][j]), Fields[c][j] >>
           IN  {G(j) : j \in LastOf(o, ds, c, i)} =
                 {q \in {G(j) : j \in LastOf(o, ds, c, i - 1)} :
                    q[1] # CachedPath(o, ds, c, Fields[c][i])} \cup {G(i)}
<1>. DEFINE G(j) == << CachedPath(o, ds, c, Fields[c][j]), Fields[c][j] >>
            L == LastOf(o, ds, c, i)
            L1 == LastOf(o, ds, c, i - 1)
            v == CachedPath(o, ds, c, Fields[c][i])
<1>1. L = {i} \cup {j \in L1 : G(j)[1] # v}
  BY LastOfStep
<1>2. ASSUME NEW x \in {G(j) : j \in L} PROVE x \in {q \in {G(j) : j \in L1} : q[1] # v} \cup {G(i)}
  <2>1. PICK j \in L : x = G(j)
    BY <1>2
  <2>. QED  BY <1>1, <2>1
<1>3. ASSUME NEW x \in {q \in {G(j) : j \in L1} : q[1] # v} \cup {G(i)} PROVE x \in {G(j) : j \in L}
  <2>1. CASE x = G(i)
    BY <1>1, <2>1
  <2>2. CASE x # G(i)
    <3>1. PICK j \in L1 : x = G(j) /\ G(j)[1] # v
      BY <1>3, <2>2
    <3>. QED  BY <1>1, <3>1
  <2>. QED  BY <2>1, <2>2
<1>. QED  BY <1>2, <1>3

(* The closed form ItemsPrefix is the loop of pillar_items: with no field  *)
(* it is the state before the loop, and one more field is one iteration of *)
(* the code's loop body ItemsStep, whatever the dicts cache.                *)
LEMMA ItemsPrefixFields ==
    ASSUME NEW o, NEW ds, NEW c, NEW i
    PROVE  ItemsPrefix(o, ds, c, i) =
             [own |-> ItemsPrefix(o, ds, c, i).own, dicts |-> ItemsPrefix(o, ds, c, i).dicts,
              res |-> ItemsPrefix(o, ds, c, i).res, ok |-> ItemsPrefix(o, ds, c, i).ok]
BY DEF ItemsPrefix

LEMMA ItemsPrefixZero ==
    ASSUME NEW o, NEW ds, NEW c
    PROVE  ItemsPrefix(o, ds, c, 0) = [own |-> o, dicts |-> ds, res |-> {}, ok |-> TRUE]
<1>1. Returned(o, ds, c, 0) = {}
  BY DEF Returned
<1>2. Kept(o, ds, c, 0) = {}
  BY <1>1, Zenon DEF Kept
<1>3. ItemsPrefix(o, ds, c, 0).res = {}
  BY <1>2 DEF ItemsPrefix
<1>4. /\ ItemsPrefix(o, ds, c, 0).own = o
      /\ ItemsPrefix(o, ds, c, 0).dicts = ds
      /\ ItemsPrefix(o, ds, c, 0).ok = TRUE
  BY DEF ItemsPrefix
<1>. QED  BY <1>3, <1>4, ItemsPrefixFields

LEMMA ItemsPrefixStep ==
    ASSUME ParamGroupAssumption, FlatHierarchy, NEW o, OwnOK(o),
           NEW ds \in [Classes -> [Attrs -> Paths \cup {Absent}]],
           NEW c \in Classes \ {Root}, NEW i \in 1..Len(Fields[c])
    PROVE  ItemsPrefix(o, ds, c, i) = ItemsStep(ItemsPrefix(o, ds, c, i - 1), c, i)
<1>. DEFINE F == Fields[c]
            fa == F[i]
            P == ItemsPrefix(o, ds, c, i - 1)
            Q == ItemsPrefix(o, ds, c, i)
            call == ParamSpec(P.own, P.dicts, c, fa)
            S == ItemsStep(P, c, i)
<1>1. /\ F \in Seq(Attrs) /\ fa \in Attrs /\ i - 1 \in 0..Len(F)
      /\ \A j \in 1..(i - 1) : F[j] # fa
  BY DEF ParamGroupAssumption
<1>2. CallDict(o, c) = c /\ OwnOK(FreshSpec(o, c)) /\ FreshSpec(o, c)[c] = c
  <2>1. /\ FreshSpec(o, c) = [o EXCEPT ![c] = c]
        /\ OwnOK(FreshSpec(o, c))
        /\ CallDict(o, c) = c
    BY CallDictFlat
  <2>2. c \in DOMAIN o
    BY DEF OwnOK
  <2>. QED  BY <2>1, <2>2
<1>3. FreshSpec(FreshSpec(o, c), c) = FreshSpec(o, c) /\ SpecOf(FreshSpec(o, c), c) = c
  <2>1. /\ FreshSpec(FreshSpec(o, c), c) = [FreshSpec(o, c) EXCEPT ![c] = c]
        /\ CallDict(FreshSpec(o, c), c) = c
    BY <1>2, CallDictFlat
  <2>2. FreshSpec(o, c) \in [Classes -> Classes \cup {NoneV, Unset}]
    BY <1>2 DEF OwnOK
  <2>3. FreshSpec(FreshSpec(o, c), c) = FreshSpec(o, c)
    BY <2>1, <2>2, <1>2
  <2>. QED  BY <2>1, <2>3 DEF CallDict
<1>4. FreshSpec(P.own, c) = FreshSpec(o, c) /\ SpecOf(FreshSpec(o, c), c) = c
  <2>1. P.own = IF i - 1 = 0 THEN o ELSE FreshSpec(o, c)
    BY <1>2 DEF ItemsPrefix
  <2>. QED  BY <1>2, <1>3, <2>1
<1>5. ASSUME P.ok PROVE Returned(o, ds, c, i - 1) = 1..(i - 1)
  <2>1. \A l \in 1..(i - 1) : ~ Raises(o, ds, c, F[l])
    BY <1>5 DEF ItemsPrefix
  <2>. QED  BY <2>1 DEF Returned
<1>6. ASSUME P.ok PROVE P.dicts = CachedUpto(o, ds, c, i - 1)
  <2>1. CASE i - 1 = 0
    <3>1. \A x \in Attrs : ~ \E j \in 1..(i - 1) : F[j] = x
      BY <2>1
    <3>2. [x \in Attrs |-> IF \E j \in 1..(i - 1) : F[j] = x THEN CachedPath(o, ds, c, x) ELSE ds[c][x]] = ds[c]
      BY <3>1
    <3>3. CachedUpto(o, ds, c, i - 1) = ds
      BY <3>2 DEF CachedUpto
    <3>. QED  BY <2>1, <3>3 DEF ItemsPrefix
  <2>2. CASE i - 1 # 0
    <3>1. Returned(o, ds, c, i - 1) = 1..(i - 1)
      BY <1>5, <1>6
    <3>2. P.dicts = [ds EXCEPT ![c] = [x \in Attrs |->
                       IF \E j \in Returned(o, ds, c, i - 1) : F[j] = x
                       THEN CachedPath(o, ds, c, x) ELSE ds[c][x]]]
      BY <2>2, <1>2 DEF ItemsPrefix
    <3>3. \A x \in Attrs : (\E j \in Returned(o, ds, c, i - 1) : F[j] = x)
                         <=> (\E j \in 1..(i - 1) : Fields[c][j] = x)
      BY <3>1
    <3>4. [x \in Attrs |-> IF \E j \in Returned(o, ds, c, i - 1) : F[j] = x
                          THEN CachedPath(o, ds, c, x) ELSE ds[c][x]]
          = [x \in Attrs |-> IF \E j \in 1..(i - 1) : Fields[c][j] = x
                          THEN CachedPath(o, ds, c, x) ELSE ds[c][x]]
      BY <3>3
    <3>. QED  BY <3>2, <3>4 DEF CachedUpto
  <2>. QED  BY <2>1, <2>2
<1>7. /\ DOMAIN P.dicts = Classes /\ DOMAIN P.dicts[c] = Attrs
      /\ P.dicts[c][fa] = ds[c][fa]
  <2>1. CASE i - 1 = 0
    BY <2>1 DEF ItemsPrefix
  <2>2. CASE i - 1 # 0
    <3>1. \A j \in Returned(o, ds, c, i - 1) : F[j] # fa
      BY <1>1 DEF Returned
    <3>. QED  BY <2>2, <1>1, <1>2, <3>1 DEF ItemsPrefix
  <2>. QED  BY <2>1, <2>2
<1>8. call = IF P.dicts[c][fa] # Absent
          THEN [own |-> FreshSpec(o, c), dicts |-> P.dicts, val |-> P.dicts[c][fa], ok |-> TRUE]
          ELSE IF fa \notin FieldNames(c) \/ FullPath(GroupOf[c][fa], fa) \notin Known
          THEN [own |-> FreshSpec(o, c), dicts |-> P.dicts, val |-> FullPath(GroupOf[c][fa], fa), ok |-> FALSE]
          ELSE [own |-> FreshSpec(o, c), dicts |-> [P.dicts EXCEPT ![c][fa] = FullPath(GroupOf[c][fa], fa)],
                val |-> FullPath(GroupOf[c][fa], fa), ok |-> TRUE]
  BY <1>4 DEF call, ParamSpec
<1>9. /\ Raises(o, ds, c, fa) <=> (P.dicts[c][fa] = Absent /\ (fa \notin FieldNames(c) \/ FullPath(GroupOf[c][fa], fa) \notin Known))
      /\ CachedPath(o, ds, c, fa) = IF P.dicts[c][fa] # Absent THEN P.dicts[c][fa] ELSE FullPath(GroupOf[c][fa], fa)
  BY <1>2, <1>7 DEF Raises, CachedPath
<1>10. /\ call.own = FreshSpec(o, c)
       /\ ~ Raises(o, ds, c, fa) =>
            (call.ok = TRUE /\ call.val = CachedPath(o, ds, c, fa)
             /\ call.dicts = IF P.dicts[c][fa] # Absent THEN P.dicts
                             ELSE [P.dicts EXCEPT ![c][fa] = CachedPath(o, ds, c, fa)])
       /\ Raises(o, ds, c, fa) => (call.ok = FALSE /\ call.dicts = P.dicts)
  <2>1. CASE P.dicts[c][fa] # Absent
    <3>1. call = [own |-> FreshSpec(o, c), dicts |-> P.dicts, val |-> P.dicts[c][fa], ok |-> TRUE]
      BY <2>1, <1>8
    <3>2. ~ Raises(o, ds, c, fa) /\ CachedPath(o, ds, c, fa) = P.dicts[c][fa]
      BY <2>1, <1>9
    <3>3. call.own = FreshSpec(o, c) /\ call.ok = TRUE /\ call.dicts = P.dicts
      BY <3>1
    <3>4. call.val = CachedPath(o, ds, c, fa)
      BY <3>1, <3>2
    <3>. QED  BY <2>1, <3>2, <3>3, <3>4
  <2>2. CASE P.dicts[c][fa] = Absent /\ Raises(o, ds, c, fa)
    <3>1. fa \notin FieldNames(c) \/ FullPath(GroupOf[c][fa], fa) \notin Known
      BY <2>2, <1>9
    <3>2. call = [own |-> FreshSpec(o, c), dicts |-> P.dicts, val |-> FullPath(GroupOf[c][fa], fa), ok |-> FALSE]
      BY <2>2, <3>1, <1>8
    <3>. QED  BY <2>2, <3>2
  <2>3. CASE P.dicts[c][fa] = Absent /\ ~ Raises(o, ds, c, fa)
    <3>1. ~ (fa \notin FieldNames(c) \/ FullPath(GroupOf[c][fa], fa) \notin Known) /\ CachedPath(o, ds, c, fa) = FullPath(GroupOf[c][fa], fa)
      BY <2>3, <1>9
    <3>2. call = [own |-> FreshSpec(o, c), dicts |-> [P.dicts EXCEPT ![c][fa] = FullPath(GroupOf[c][fa], fa)],
                  val |-> FullPath(GroupOf[c][fa], fa), ok |-> TRUE]
      BY <2>3, <3>1, <1>8
    <3>3. call.ok = TRUE /\ call.val = CachedPath(o, ds, c, fa)
      BY <3>1, <3>2
    <3>4. call.dicts = [P.dicts EXCEPT ![c][fa] = CachedPath(o, ds, c, fa)]
      BY <3>1, <3>2, SMTT(60)
    <3>5. call.own = FreshSpec(o, c)
      BY <3>2
    <3>. QED  BY <2>3, <3>3, <3>4, <3>5
  <2>. QED  BY <2>1, <2>2, <2>3, ZenonT(60)
<1>11. S = IF ~ P.ok THEN P
          ELSE [own |-> call.own, dicts |-> call.dicts, ok |-> call.ok,
                res |-> IF call.ok
                        THEN {q \in P.res : q[1] # call.val} \cup {<< call.val, fa >>}
                        ELSE P.res]
  BY DEF S, ItemsStep, call, fa, F
<1>12. Q.own = FreshSpec(o, c) /\ (i - 1 # 0 => P.own = FreshSpec(o, c))
  BY DEF ItemsPrefix
<1>13. i \in Nat /\ i - 1 \in Nat /\ i # 0
  OBVIOUS
<1>14. Q = [own |-> Q.own, dicts |-> Q.dicts, res |-> Q.res, ok |-> Q.ok]
       /\ P = [own |-> P.own, dicts |-> P.dicts, res |-> P.res, ok |-> P.ok]
  BY ItemsPrefixFields
<1>15. CASE ~ P.ok
  <2>1. i - 1 # 0 /\ \E l \in 1..(i - 1) : Raises(o, ds, c, F[l])
    BY <1>15 DEF ItemsPrefix
  <2>2. Returned(o, ds, c, i) = Returned(o, ds, c, i - 1)
    BY <2>1, SMTT(60) DEF Returned
  <2>3. Kept(o, ds, c, i) = Kept(o, ds, c, i - 1)
    BY <2>2 DEF Kept
  <2>4. Q.dicts = P.dicts /\ Q.res = P.res
    BY <2>1, <2>2, <2>3, SMTT(60) DEF ItemsPrefix
  <2>5. Q.ok = FALSE /\ P.ok = FALSE
    BY <1>15, <2>1, SMTT(60) DEF ItemsPrefix
  <2>. QED  BY <1>11, <1>12, <1>14, <1>15, <2>1, <2>4, <2>5
<1>16. CASE P.ok /\ Raises(o, ds, c, fa)
  <2>1. Returned(o, ds, c, i) = 1..(i - 1)
    BY <1>5, <1>16 DEF Returned
  <2>2. Q.dicts = CachedUpto(o, ds, c, i - 1) /\ Kept(o, ds, c, i) = LastOf(o, ds, c, i - 1)
    BY <1>2, <1>13, <2>1, PrefixFromReturned
  <2>3. CASE i - 1 = 0
    <3>1. LastOf(o, ds, c, i - 1) = {}
      BY <2>3 DEF LastOf
    <3>2. P = [own |-> o, dicts |-> ds, res |-> {}, ok |-> TRUE]
      BY <2>3, ItemsPrefixZero
    <3>3. Q.res = {}
      BY <2>2, <3>1 DEF ItemsPrefix
    <3>4. Q.ok = FALSE
      BY <1>16 DEF ItemsPrefix
    <3>5. S = [own |-> FreshSpec(o, c), dicts |-> P.dicts, ok |-> FALSE, res |-> {}]
      <4>1. S = [own |-> call.own, dicts |-> call.dicts, ok |-> call.ok,
                 res |-> IF call.ok
                         THEN {q \in P.res : q[1] # call.val} \cup {<< call.val, fa >>}
                         ELSE P.res]
        BY <1>11, <1>16
      <4>2. call.own = FreshSpec(o, c) /\ call.ok = FALSE /\ call.dicts = P.dicts
        BY <1>10, <1>16
      <4>3. (IF call.ok THEN {q \in P.res : q[1] # call.val} \cup {<< call.val, fa >>}
             ELSE P.res) = {}
        BY <4>2, <3>2
      <4>. QED  BY <4>1, <4>2, <4>3
    <3>6. Q.dicts = P.dicts
      BY <1>6, <1>16, <2>2
    <3>. QED  BY <1>12, <1>14, <3>3, <3>4, <3>5, <3>6
  <2>4. CASE i - 1 # 0
    <3>1. Kept(o, ds, c, i - 1) = LastOf(o, ds, c, i - 1)
      BY <1>2, <1>5, <1>13, <1>16, <2>4, PrefixFromReturned, SMTT(60)
    <3>2. Q.res = P.res
      BY <2>2, <3>1 DEF ItemsPrefix
    <3>3. Q.ok = FALSE
      BY <1>16 DEF ItemsPrefix
    <3>. QED  BY <1>6, <1>10, <1>11, <1>12, <1>14, <1>16, <2>2, <3>2, <3>3
  <2>. QED  BY <2>3, <2>4
<1>17. CASE P.ok /\ ~ Raises(o, ds, c, fa)
  <2>. DEFINE G(j) == << CachedPath(o, ds, c, F[j]), F[j] >>
              v == CachedPath(o, ds, c, fa)
  <2>1. Returned(o, ds, c, i) = 1..i
    BY <1>5, <1>17 DEF Returned
  <2>2. Q.dicts = CachedUpto(o, ds, c, i) /\ Kept(o, ds, c, i) = LastOf(o, ds, c, i)
    BY <1>2, <1>13, <2>1, PrefixFromReturned
  <2>3. P.res = {G(j) : j \in LastOf(o, ds, c, i - 1)}
    <3>1. CASE i - 1 = 0
      <4>1. LastOf(o, ds, c, i - 1) = {}
        BY <3>1 DEF LastOf
      <4>2. P.res = {}
        BY <3>1, ItemsPrefixZero
      <4>. QED  BY <4>1, <4>2
    <3>2. CASE i - 1 # 0
      <4>1. Kept(o, ds, c, i - 1) = LastOf(o, ds, c, i - 1)
        BY <1>2, <1>5, <1>13, <1>17, <3>2, PrefixFromReturned
      <4>. QED  BY <4>1 DEF ItemsPrefix
    <3>. QED  BY <3>1, <3>2
  <2>4. Q.res = {q \in P.res : q[1] # v} \cup {G(i)}
    <3>1. Q.res = {G(j) : j \in LastOf(o, ds, c, i)}
      BY <2>2 DEF ItemsPrefix
    <3>. QED  BY <1>13, <2>3, <3>1, ResStep
  <2>5. Q.ok = TRUE
    BY <1>17 DEF ItemsPrefix
  <2>6. call.dicts = CachedUpto(o, ds, c, i)
    <3>1. P.dicts = CachedUpto(o, ds, c, i - 1)
      BY <1>6, <1>17
    <3>2. /\ CachedUpto(o, ds, c, i - 1) = [ds EXCEPT ![c] = [x \in Attrs |->
                 IF \E j \in 1..(i - 1) : F[j] = x THEN CachedPath(o, ds, c, x) ELSE ds[c][x]]]
          /\ CachedUpto(o, ds, c, i) = [ds EXCEPT ![c] = [x \in Attrs |->
                 IF \E j \in 1..i : F[j] = x THEN CachedPath(o, ds, c, x) ELSE ds[c][x]]]
      BY DEF CachedUpto
    <3>3. [CachedUpto(o, ds, c, i - 1)[c] EXCEPT ![fa] = CachedPath(o, ds, c, fa)]
          = [x \in Attrs |-> IF \E j \in 1..i : F[j] = x THEN CachedPath(o, ds, c, x) ELSE ds[c][x]]
      <4>1. \A x \in Attrs : x # fa =>
              ((\E j \in 1..i : F[j] = x) <=> (\E j \in 1..(i - 1) : F[j] = x))
        BY <1>13
      <4>2. \E j \in 1..i : F[j] = fa
        BY <1>13
      <4>3. CachedUpto(o, ds, c, i - 1)[c] = [x \in Attrs |->
                 IF \E j \in 1..(i - 1) : F[j] = x THEN CachedPath(o, ds, c, x) ELSE ds[c][x]]
        BY <3>2
      <4>4. ASSUME NEW x \in Attrs
            PROVE  [CachedUpto(o, ds, c, i - 1)[c] EXCEPT ![fa] = CachedPath(o, ds, c, fa)][x]
                   = IF \E j \in 1..i : F[j] = x THEN CachedPath(o, ds, c, x) ELSE ds[c][x]
        <5>1. CASE x = fa
          BY <1>1, <4>2, <4>3, <5>1
        <5>2. CASE x # fa
          BY <1>1, <4>1, <4>3, <5>2
        <5>. QED  BY <5>1, <5>2
      <4>. QED  BY <1>1, <4>3, <4>4
    <3>4. [CachedUpto(o, ds, c, i - 1) EXCEPT ![c][fa] = CachedPath(o, ds, c, fa)]
          = CachedUpto(o, ds, c, i)
      BY <3>2, <3>3
    <3>5. CASE P.dicts[c][fa] # Absent
      <4>1. CachedPath(o, ds, c, fa) = CachedUpto(o, ds, c, i - 1)[c][fa]
        BY <1>9, <3>1, <3>5
      <4>2. [CachedUpto(o, ds, c, i - 1) EXCEPT ![c][fa] = CachedPath(o, ds, c, fa)]
            = CachedUpto(o, ds, c, i - 1)
        BY <1>1, <3>2, <4>1
      <4>. QED  BY <1>10, <1>17, <3>1, <3>4, <3>5, <4>2
    <3>6. CASE P.dicts[c][fa] = Absent
      BY <1>10, <1>17, <3>1, <3>4, <3>6
    <3>. QED  BY <3>5, <3>6
  <2>7. S = [own |-> FreshSpec(o, c), dicts |-> call.dicts, ok |-> TRUE,
             res |-> {q \in P.res : q[1] # v} \cup {G(i)}]
    <3>1. S = [own |-> call.own, dicts |-> call.dicts, ok |-> call.ok,
               res |-> IF call.ok
                       THEN {q \in P.res : q[1] # call.val} \cup {<< call.val, fa >>}
                       ELSE P.res]
      BY <1>11, <1>17
    <3>2. call.own = FreshSpec(o, c) /\ call.ok = TRUE /\ call.val = v
      BY <1>10, <1>17
    <3>3. (IF call.ok THEN {q \in P.res : q[1] # call.val} \cup {<< call.val, fa >>}
           ELSE P.res) = {q \in P.res : q[1] # v} \cup {G(i)}
      BY <3>2
    <3>. QED  BY <3>1, <3>2, <3>3
  <2>. QED  BY <1>12, <1>14, <2>2, <2>4, <2>5, <2>6, <2>7
<1>. QED  BY <1>15, <1>16, <1>17

=============================================================================
