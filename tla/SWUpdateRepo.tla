---------------------------- MODULE SWUpdateRepo ----------------------------
(***************************************************************************)
(* SWUpdateRepo (inputs.py 1010-1120) and its write to swupdate/repo       *)
(* through ParamDictItemInputBase.pillar_items (963-979), with the file    *)
(* system the local source lives in.                                       *)
(*                                                                         *)
(* One invocation constructs the input (the source converter, the          *)
(* _check_source validator, __attrs_post_init__), may set its repo params, *)
(* and writes pillar_value under the release.  _check_source looks at the  *)
(* path when the input is built; pillar_value asks source.is_file() again  *)
(* when the value is written.  The file system may change in between when  *)
(* FsChanges holds (an operator unmounting, replacing or deleting the      *)
(* source); between invocations it may change in any case.                 *)
(***************************************************************************)
EXTENDS Naturals

CONSTANTS
    Releases,   \* release names (the key field)
    Specials,   \* the special values (UNDEFINED: remove the repo)
    Urls,       \* http:// and https:// sources
    LocalPaths, \* local sources
    Suffix,     \* Suffix[p]: ".iso" or another suffix of the path name
    Params,     \* non-empty repo params dicts
    NoParams,   \* the empty dict attr.Factory(dict) starts with
    NoInst,     \* no input is being handled
    Absent,     \* swupdate/repo/<release> holds nothing
    FsChanges   \* the file system may change during an invocation

Sources == Specials \cup Urls \cup LocalPaths
Nodes == {"file", "dir", "none"}

ASSUME SWUpdateAssumption ==
    /\ Suffix \in [LocalPaths -> {"iso", "other"}]
    /\ FsChanges \in BOOLEAN
    /\ Specials \cap Urls = {} /\ (Specials \cup Urls) \cap LocalPaths = {}
    /\ NoParams \notin Params

(* A value written to the pillar: the source itself (special, remote), or *)
(* 'iso' / 'dir', wrapped with the params when there are any.             *)
Value == [kind : {"verbatim"}, src : Specials \cup Urls, params : {NoParams}]
         \cup [kind : {"iso", "dir"}, src : LocalPaths, params : Params \cup {NoParams}]

VARIABLES
    fs,      \* fs[p]: what the path p is on the file system
    inst,    \* the SWUpdateRepo being handled, or NoInst
    pillar,  \* pillar[r]: swupdate/repo/<r>
    wrote    \* wrote[r]: the node the written source was validated as (history)

vars == <<fs, inst, pillar, wrote>>

-----------------------------------------------------------------------------
(* _check_source with the suffix test left out.                            *)
CheckSourceNoSuffix(s, f) ==
    \/ s \in Specials \cup Urls
    \/ s \in LocalPaths /\ f[s] \in {"file", "dir"}

(* _check_source: special and http(s) sources pass; a path must exist and *)
(* be an .iso file or a directory.                                         *)
CheckSource(s, f) ==
    \/ s \in Specials \cup Urls
    \/ s \in LocalPaths /\ f[s] = "file" /\ Suffix[s] = "iso"
    \/ s \in LocalPaths /\ f[s] = "dir"

(* pillar_value with the params attached to special and remote sources.  *)
PillarValueParamsAll(i, f) ==
    IF i.source \in Specials \cup Urls
    THEN [kind |-> "verbatim", src |-> i.source, params |-> i.params]
    ELSE [kind |-> IF f[i.source] = "file" THEN "iso" ELSE "dir",
          src |-> i.source, params |-> i.params]

(* pillar_value, asking the file system f.                                *)
PillarValue(i, f) ==
    IF i.source \in Specials \cup Urls
    THEN [kind |-> "verbatim", src |-> i.source, params |-> NoParams]
    ELSE [kind |-> IF f[i.source] = "file" THEN "iso" ELSE "dir",
          src |-> i.source, params |-> i.params]

-----------------------------------------------------------------------------
Init ==
    /\ fs \in [LocalPaths -> Nodes]
    /\ inst = NoInst
    /\ pillar = [r \in Releases |-> Absent]
    /\ wrote = [r \in Releases |-> "none"]

(* SWUpdateRepo(release, source): the validator and post-init run; a      *)
(* rejected source raises SWUpdateRepoSourceError and nothing is built.   *)
Construct(r, s) ==
    /\ inst = NoInst
    /\ inst' = IF CheckSource(s, fs)
               THEN [release |-> r, source |-> s, params |-> NoParams,
                     node |-> IF s \in LocalPaths THEN fs[s] ELSE "none"]
               ELSE NoInst
    /\ UNCHANGED <<fs, pillar, wrote>>

(* The repo_params setter.                                                 *)
SetRepoParams(p) ==
    /\ inst # NoInst
    /\ inst' = [inst EXCEPT !.params = p]
    /\ UNCHANGED <<fs, pillar, wrote>>

(* pillar_items: one item, swupdate/repo/<release> = pillar_value.         *)
WriteItems ==
    /\ inst # NoInst
    /\ pillar' = [pillar EXCEPT ![inst.release] = PillarValue(inst, fs)]
    /\ wrote' = [wrote EXCEPT ![inst.release] = inst.node]
    /\ inst' = NoInst
    /\ UNCHANGED fs

(* The file system changes: between invocations, and while one is being  *)
(* handled when FsChanges holds.                                           *)
FsChange(p, n) ==
    /\ FsChanges \/ inst = NoInst
    /\ fs[p] # n
    /\ fs' = [fs EXCEPT ![p] = n]
    /\ UNCHANGED <<inst, pillar, wrote>>

Next ==
    \/ \E r \in Releases, s \in Sources : Construct(r, s)
    \/ \E p \in Params : SetRepoParams(p)
    \/ WriteItems
    \/ \E p \in LocalPaths, n \in Nodes : FsChange(p, n)

Spec == Init /\ [][Next]_vars

-----------------------------------------------------------------------------
TypeOK ==
    /\ fs \in [LocalPaths -> Nodes]
    /\ pillar \in [Releases -> Value \cup {Absent}]
    /\ wrote \in [Releases -> Nodes]

(* Spec 7: validation happens when the input is built, before any store   *)
(* write.  What swupdate/repo says of a local source is what _check_source *)
(* accepted: 'iso' only for a path that was an .iso file, 'dir' only for a *)
(* path that was a directory.                                              *)
LocalKindValidated ==
    \A r \in Releases :
        pillar[r] # Absent /\ pillar[r].kind # "verbatim" =>
            IF pillar[r].kind = "iso"
            THEN wrote[r] = "file" /\ Suffix[pillar[r].src] = "iso"
            ELSE wrote[r] = "dir"
=============================================================================
