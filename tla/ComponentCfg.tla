---------------------------- MODULE ComponentCfg ----------------------------
(***************************************************************************)
(* The component configuration scripts ReleaseCfg (release_cfg.py) and     *)
(* EOSCoreCfg (eoscore_cfg.py), over a series of invocations that share    *)
(* the YAML file at cfg_path.                                              *)
(*                                                                         *)
(* One invocation: __init__ adds the arguments and loads the file          *)
(* (__load_defaults); process_inputs parses the command line and takes the *)
(* first branch that applies: show the format, merge a file, ask           *)
(* interactively, set the release (ReleaseCfg only), or nothing; the       *)
(* caller then saves the options when process_inputs returned True.       *)
(*                                                                         *)
(* A YAML document is a mapping from top-level sections to sections, a     *)
(* section a mapping from option keys to values; Missing marks a key that  *)
(* is not there.  An empty file loads as None (NullDoc).                   *)
(***************************************************************************)
EXTENDS Naturals, Sequences, FiniteSets

CONSTANTS
    Sections,    \* top-level keys of the document
    Main,        \* the section the component reads ("eos_release", "eoscore")
    OptKeys,     \* option keys a section may hold
    Prompts,     \* the keys process_inputs asks for interactively, in order
    Vals,        \* option values
    HasRelease,  \* the component has a --release argument (ReleaseCfg)
    ReleaseKey,  \* the key --release sets ("target_build")
    Defaults,    \* possible contents of the file when the first run starts
    Files,       \* documents a --release-file / --eoscore-file may hold
    Missing,     \* no such key
    NullDoc,     \* what yaml.load returns for an empty file
    NoFile,      \* a file argument naming a file that does not exist
    Blank        \* the empty answer to input()

Section == [OptKeys -> Vals \cup {Missing}]
Doc == [Sections -> Section \cup {Missing}] \cup {NullDoc}

ASSUME CfgAssumption ==
    /\ Main \in Sections
    /\ Prompts \in Seq(OptKeys) /\ Len(Prompts) > 0
    /\ \A i, j \in 1..Len(Prompts) : Prompts[i] = Prompts[j] => i = j
    /\ HasRelease \in BOOLEAN /\ ReleaseKey \in OptKeys
    /\ Defaults \subseteq Doc /\ Defaults # {} /\ Files \subseteq Doc
    /\ {Missing, NullDoc, NoFile, Blank} \cap Vals = {}
    /\ NullDoc \notin [Sections -> Section \cup {Missing}] /\ Missing \notin Section

(* The command-line arguments process_inputs looks at.  interactive is    *)
(* added to the parser by the caller.                                      *)
Args == [show : BOOLEAN, file : Files \cup {NoFile, Missing},
         interactive : BOOLEAN, release : IF HasRelease THEN Vals \cup {Missing}
                                                          ELSE {Missing},
         answers : [1..Len(Prompts) -> Vals \cup {Blank}]]

VARIABLES
    disk,     \* the contents of the file at cfg_path
    options,  \* self.__options of the running invocation
    phase,    \* "idle", "loaded", "true", "false" (returned), "error" (raised)
    branch    \* the branch of process_inputs the invocation took (history)

vars == <<disk, options, phase, branch>>

-----------------------------------------------------------------------------
(* self.__options.update(new_options): a shallow, top-level merge.         *)
Update(o, new) == [s \in Sections |-> IF new[s] # Missing THEN new[s] ELSE o[s]]

(* options[Main][k] can be read: the document is a mapping, Main is in it *)
(* and so is k.                                                            *)
Readable(o, k) == o # NullDoc /\ o[Main] # Missing /\ o[Main][k] # Missing

(* An assignment that replaces the whole section.                         *)
SetKeySection(o, k, v) ==
    [o EXCEPT ![Main] = [j \in OptKeys |-> IF j = k THEN v ELSE Missing]]

SetKey(o, k, v) == [o EXCEPT ![Main][k] = v]

(* One statement pair of the interactive branch, for the i-th prompt, from *)
(* the outcome r of the ones before it: the current value is read for the *)
(* message (KeyError, TypeError if it is not there), then replaced by the *)
(* answer unless the answer is empty.                                      *)
PromptStep(r, answers, i) ==
    IF ~ r.ok \/ ~ Readable(r.opts, Prompts[i])
    THEN [opts |-> r.opts, ok |-> FALSE]
    ELSE [opts |-> IF answers[i] = Blank THEN r.opts
                   ELSE SetKey(r.opts, Prompts[i], answers[i]),
          ok |-> TRUE]

(* The position of a prompted key in Prompts.                              *)
PromptIndex(k) == CHOOSE i \in 1..Len(Prompts) : Prompts[i] = k

(* The prompts among the first i whose statements all ran: every prompt   *)
(* up to them found its key.                                               *)
Reached(o, i) == {j \in 1..i : \A l \in 1..j : Readable(o, Prompts[l])}

(* Key k was asked among the first i prompts and given a non-empty answer. *)
Answered(o, answers, i, k) ==
    \E j \in Reached(o, i) : Prompts[j] = k /\ answers[j] # Blank

(* The outcome of the first i prompts, in closed form: each reached prompt *)
(* with a non-empty answer has set its key; the branch completes when all  *)
(* i keys were there.  Lemma AskPrefixStep (ComponentCfgProofs) shows it   *)
(* is the outcome of PromptStep applied to the prompts one after another.  *)
AskPrefix(o, answers, i) ==
    [opts |-> IF o # NullDoc /\ o[Main] # Missing
              THEN [o EXCEPT ![Main] =
                      [k \in OptKeys |-> IF Answered(o, answers, i, k)
                                         THEN answers[PromptIndex(k)]
                                         ELSE o[Main][k]]]
              ELSE o,
     ok |-> \A l \in 1..i : Readable(o, Prompts[l])]

(* The interactive branch without the "or" fallback to the current value. *)
AskNoFallback(o, answers) ==
    [AskPrefix(o, answers, Len(Prompts)) EXCEPT !.opts =
        IF o # NullDoc /\ o[Main] # Missing
        THEN [o EXCEPT ![Main] =
                [k \in OptKeys |-> IF \E j \in Reached(o, Len(Prompts)) : Prompts[j] = k
                                   THEN answers[PromptIndex(k)]
                                   ELSE o[Main][k]]]
        ELSE o]

(* The interactive branch: every prompt in turn.  Returns the options      *)
(* reached and whether every prompt was answered.                          *)
Ask(o, answers) == AskPrefix(o, answers, Len(Prompts))

-----------------------------------------------------------------------------
Init ==
    /\ disk \in Defaults
    /\ options = disk
    /\ phase = "idle"
    /\ branch = "none"

(* A construction that keeps the options of the previous invocation.      *)
LoadStale ==
    /\ phase # "loaded"
    /\ phase' = "loaded"
    /\ branch' = "none"
    /\ UNCHANGED <<disk, options>>

(* __init__: the arguments are added and the file is loaded.               *)
Load ==
    /\ phase # "loaded"
    /\ options' = disk
    /\ phase' = "loaded"
    /\ branch' = "none"
    /\ UNCHANGED disk

(* --show-...-file-format: the options are printed, False is returned.    *)
ProcessShow(a) ==
    /\ phase = "loaded" /\ a.show
    /\ phase' = "false" /\ branch' = "show"
    /\ UNCHANGED <<disk, options>>

(* --release-file / --eoscore-file: the file is loaded and merged.  A     *)
(* missing file, an empty file (update(None)) or an empty cfg file         *)
(* (None.update) raises.                                                   *)
ProcessFile(a) ==
    /\ phase = "loaded" /\ ~ a.show /\ a.file # Missing
    /\ branch' = "file"
    /\ IF a.file # NoFile /\ a.file # NullDoc /\ options # NullDoc
       THEN options' = Update(options, a.file) /\ phase' = "true"
       ELSE phase' = "error" /\ UNCHANGED options
    /\ UNCHANGED disk

(* --interactive: the prompts are answered in order.                       *)
ProcessInteractive(a) ==
    /\ phase = "loaded" /\ ~ a.show /\ a.file = Missing /\ a.interactive
    /\ branch' = "interactive"
    /\ LET r == Ask(options, a.answers) IN
          /\ options' = r.opts
          /\ phase' = IF r.ok THEN "true" ELSE "error"
    /\ UNCHANGED disk

(* --release (ReleaseCfg): options[Main][ReleaseKey] is set; the section  *)
(* itself must be there.                                                   *)
ProcessRelease(a) ==
    /\ phase = "loaded" /\ ~ a.show /\ a.file = Missing /\ ~ a.interactive
    /\ a.release # Missing
    /\ branch' = "release"
    /\ IF options # NullDoc /\ options[Main] # Missing
       THEN options' = SetKey(options, ReleaseKey, a.release) /\ phase' = "true"
       ELSE phase' = "error" /\ UNCHANGED options
    /\ UNCHANGED disk

(* No usable input: False.                                                 *)
ProcessNothing(a) ==
    /\ phase = "loaded" /\ ~ a.show /\ a.file = Missing /\ ~ a.interactive
    /\ a.release = Missing
    /\ phase' = "false" /\ branch' = "nothing"
    /\ UNCHANGED <<disk, options>>

(* save: the options are dumped to cfg_path.                               *)
Save ==
    /\ phase = "true"
    /\ disk' = options
    /\ phase' = "idle"
    /\ UNCHANGED <<options, branch>>

(* A crash during save: open(cfg_path, 'w') has truncated the file and    *)
(* the dump, buffered until the file is closed, never reaches it.          *)
SaveCrash ==
    /\ phase = "true"
    /\ disk' = NullDoc
    /\ phase' = "idle"
    /\ UNCHANGED <<options, branch>>

Process(a) ==
    \/ ProcessShow(a) \/ ProcessFile(a) \/ ProcessInteractive(a)
    \/ ProcessRelease(a) \/ ProcessNothing(a)

Next == Load \/ (\E a \in Args : Process(a)) \/ Save \/ SaveCrash

Spec == Init /\ [][Next]_vars

-----------------------------------------------------------------------------
TypeOK ==
    /\ disk \in Doc
    /\ options \in Doc
    /\ phase \in {"idle", "loaded", "true", "false", "error"}
    /\ branch \in {"none", "show", "file", "interactive", "release", "nothing"}

(* An option present in the file disappears from it only through a file   *)
(* merge or a save cut off by a crash: the interactive and --release branches change single values and *)
(* the show and no-input branches write nothing, so a save after them      *)
(* keeps every key the file had.                                           *)
Present(d, k) == d # NullDoc /\ d[Main] # Missing /\ d[Main][k] # Missing

KeysOnlyLostThroughFile ==
    [][(\E k \in OptKeys : Present(disk, k) /\ ~ Present(disk', k)) => branch = "file" \/ disk' = NullDoc]_vars

(* An interactive invocation raises KeyError only when the file it loaded *)
(* lacks one of the prompted keys: process_inputs reads each value before  *)
(* asking, so what the previous invocations saved decides whether the      *)
(* prompts can run, and an options dict that is not the file's contents    *)
(* (one kept from an unsaved invocation) would break this.                 *)
InteractiveErrorMeansIncompleteFile ==
    (phase = "error" /\ branch = "interactive")
        => \E i \in 1..Len(Prompts) : ~ Present(disk, Prompts[i])

(* The comment at release_cfg.py:59 and eoscore_cfg.py:54, "Load release  *)
(* file and merge options": a save after a file merge keeps every option   *)
(* of the component's section that the file had.  The premise is a save  *)
(* that completes, not one cut off by a crash.                             *)
MergeKeepsOptions ==
    [][(Save /\ branch = "file")
         => \A k \in OptKeys : Present(disk, k) => Present(disk', k)]_vars

=============================================================================
