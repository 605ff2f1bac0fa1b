------------------------- MODULE SWUpdateRepoProofs -------------------------
(***************************************************************************)
(* Proofs about SWUpdateRepo for every set of releases, sources and repo   *)
(* params: swupdate/repo only holds well-formed values, and, as long as    *)
(* the file system does not change while an invocation is handled, what   *)
(* it says of a local source is what _check_source accepted.               *)
(***************************************************************************)
EXTENDS SWUpdateRepo, TLAPS

(* The inputs an accepted construction can build.                          *)
Inst == [release : Releases, source : Sources, params : Params \cup {NoParams},
         node : Nodes]

(* The input being handled was built by Construct: its node is what the   *)
(* path was when it was validated, and the validation passed on it.        *)
InstValidated ==
    inst # NoInst =>
        /\ inst \in Inst
        /\ inst.source \in LocalPaths =>
               inst.node = fs[inst.source] /\ CheckSource(inst.source, fs)

(* The typing part of the inductive invariants.                            *)
TInv == TypeOK /\ (inst # NoInst => inst \in Inst)

IInv == TypeOK /\ InstValidated /\ LocalKindValidated

-----------------------------------------------------------------------------
(* pillar_value of a built input is a value of swupdate/repo.              *)
LEMMA PillarValueType ==
    ASSUME NEW i \in Inst, NEW f \in [LocalPaths -> Nodes]
    PROVE  PillarValue(i, f) \in Value
BY DEF PillarValue, Value, Inst, Sources

(* Every step keeps the input and swupdate/repo typed.                    *)
LEMMA TInvStep == TInv /\ [Next]_vars => TInv'
<1> SUFFICES ASSUME TInv, [Next]_vars PROVE TInv'
    OBVIOUS
<1>1. ASSUME NEW r \in Releases, NEW s \in Sources, Construct(r, s)
      PROVE  TInv'
    BY <1>1 DEF Construct, TInv, TypeOK, Inst, Nodes
<1>2. ASSUME NEW p \in Params, SetRepoParams(p) PROVE TInv'
    BY <1>2 DEF SetRepoParams, TInv, TypeOK, Inst
<1>3. ASSUME WriteItems PROVE TInv'
    <2>1. inst \in Inst /\ fs \in [LocalPaths -> Nodes]
        BY <1>3 DEF WriteItems, TInv, TypeOK
    <2>2. PillarValue(inst, fs) \in Value
        BY <2>1, PillarValueType
    <2> QED BY <1>3, <2>1, <2>2 DEF WriteItems, TInv, TypeOK, Inst
<1>4. ASSUME NEW p \in LocalPaths, NEW n \in Nodes, FsChange(p, n)
      PROVE  TInv'
    BY <1>4 DEF FsChange, TInv, TypeOK
<1>5. CASE UNCHANGED vars
    BY <1>5 DEF vars, TInv, TypeOK
<1> QED BY <1>1, <1>2, <1>3, <1>4, <1>5 DEF Next

(* Type correctness: every write of pillar_items, whatever the file system *)
(* does, leaves swupdate/repo holding well-formed values.                  *)
THEOREM TypeCorrect == Spec => []TypeOK
<1>1. Init => TInv
    BY DEF Init, TInv, TypeOK, Nodes
<1>2. TInv => TypeOK
    BY DEF TInv
<1> QED BY <1>1, <1>2, TInvStep, PTL DEF Spec

-----------------------------------------------------------------------------
(* A write of a validated local source: its kind is the validated node's. *)
LEMMA LocalWrite ==
    ASSUME NEW i \in Inst, NEW f \in [LocalPaths -> Nodes],
           i.source \in LocalPaths, i.node = f[i.source], CheckSource(i.source, f)
    PROVE  /\ PillarValue(i, f).kind = "iso" => i.node = "file" /\ Suffix[i.source] = "iso"
           /\ PillarValue(i, f).kind # "iso" => i.node = "dir"
           /\ PillarValue(i, f).kind # "verbatim"
           /\ PillarValue(i, f).src = i.source
<1>1. i.source \notin Specials \cup Urls
    BY SWUpdateAssumption
<1> QED BY <1>1 DEF PillarValue, CheckSource

(* Spec 7, validation before the store write: while nothing changes the  *)
(* file system during an invocation, swupdate/repo says 'iso' of a local  *)
(* source only when it was validated as an .iso file and 'dir' only when  *)
(* it was validated as a directory.  The invariant alone is not           *)
(* inductive: the write step needs the input to carry the node its        *)
(* validation saw, and that node to still be the path's (InstValidated).  *)
THEOREM ValidatedKindWritten ==
    ASSUME ~ FsChanges
    PROVE  Spec => []LocalKindValidated
<1>1. Init => IInv
    BY DEF Init, IInv, TypeOK, Nodes, InstValidated, LocalKindValidated
<1>2. IInv /\ [Next]_vars => IInv'
    <2> SUFFICES ASSUME IInv, [Next]_vars PROVE IInv'
        OBVIOUS
    <2>0. TInv /\ TInv'
        <3>1. TInv
            BY DEF IInv, InstValidated, TInv
        <3> QED BY <3>1, TInvStep
    <2>1. ASSUME NEW r \in Releases, NEW s \in Sources, Construct(r, s)
          PROVE  IInv'
        <3>1. InstValidated'
            BY <2>1 DEF Construct, IInv, TypeOK, InstValidated, Inst, Nodes
        <3>2. LocalKindValidated'
            BY <2>1 DEF Construct, IInv, LocalKindValidated
        <3> QED BY <2>0, <3>1, <3>2 DEF IInv, TInv
    <2>2. ASSUME NEW p \in Params, SetRepoParams(p) PROVE IInv'
        <3>1. InstValidated'
            BY <2>2 DEF SetRepoParams, IInv, InstValidated, Inst
        <3>2. LocalKindValidated'
            BY <2>2 DEF SetRepoParams, IInv, LocalKindValidated
        <3> QED BY <2>0, <3>1, <3>2 DEF IInv, TInv
    <2>3. ASSUME WriteItems PROVE IInv'
        <3>1. InstValidated'
            BY <2>3 DEF WriteItems, InstValidated
        <3>2. ASSUME NEW r \in Releases, pillar'[r] # Absent, pillar'[r].kind # "verbatim"
              PROVE  IF pillar'[r].kind = "iso"
                     THEN wrote'[r] = "file" /\ Suffix[pillar'[r].src] = "iso"
                     ELSE wrote'[r] = "dir"
            <4>1. CASE r = inst.release
                <5>1. inst \in Inst /\ fs \in [LocalPaths -> Nodes]
                    BY <2>3 DEF WriteItems, IInv, InstValidated, TypeOK
                <5>2. pillar'[r] = PillarValue(inst, fs) /\ wrote'[r] = inst.node
                    BY <2>3, <4>1, <5>1 DEF WriteItems, IInv, TypeOK, Inst
                <5>3. inst.source \in LocalPaths
                    BY <3>2, <5>1, <5>2 DEF PillarValue, Inst, Sources
                <5>4. inst.node = fs[inst.source] /\ CheckSource(inst.source, fs)
                    BY <2>3, <5>3 DEF WriteItems, IInv, InstValidated
                <5> QED BY <5>1, <5>2, <5>3, <5>4, LocalWrite
            <4>2. CASE r # inst.release
                BY <2>3, <3>2, <4>2 DEF WriteItems, IInv, LocalKindValidated
            <4> QED BY <4>1, <4>2
        <3>3. LocalKindValidated'
            BY <3>2 DEF LocalKindValidated
        <3> QED BY <2>0, <3>1, <3>3 DEF IInv, TInv
    <2>4. ASSUME NEW p \in LocalPaths, NEW n \in Nodes, FsChange(p, n)
          PROVE  IInv'
        <3>1. inst = NoInst
            BY <2>4 DEF FsChange
        <3>2. InstValidated'
            BY <2>4, <3>1 DEF FsChange, InstValidated
        <3>3. LocalKindValidated'
            BY <2>4 DEF FsChange, IInv, LocalKindValidated
        <3> QED BY <2>0, <3>2, <3>3 DEF IInv, TInv
    <2>5. CASE UNCHANGED vars
        BY <2>5 DEF vars, IInv, TypeOK, InstValidated, LocalKindValidated
    <2> QED BY <2>1, <2>2, <2>3, <2>4, <2>5 DEF Next
<1>3. IInv => LocalKindValidated
    BY DEF IInv
<1> QED BY <1>1, <1>2, <1>3, PTL DEF Spec
=============================================================================
