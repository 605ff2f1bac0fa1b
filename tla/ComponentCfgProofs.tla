------------------------- MODULE ComponentCfgProofs -------------------------
(***************************************************************************)
(* Proofs about ComponentCfg for every section, key set, prompt sequence   *)
(* and set of files: the interactive branch's closed form is the code's    *)
(* statements one after another, the file is always a YAML document, a    *)
(* key leaves it only by a merge or a crash, and a failed prompt means    *)
(* the file lacked a key.                                                  *)
(***************************************************************************)
EXTENDS ComponentCfg, TLAPS

(* The keys the script may change in place (the prompted ones) and the   *)
(* key it may add (--release sets target_build whether it is there).      *)
EditableKeys == {Prompts[i] : i \in 1..Len(Prompts)}
CreatableKeys == IF HasRelease THEN {ReleaseKey} ELSE {}

(* Options a file merge of d can leave: d with the sections of a document  *)
(* replaced.                                                               *)
MergedFrom(d, o) ==
    d # NullDoc /\ \E f \in Files \ {NullDoc} : o = Update(d, f)

(* Key k of the section may go from d's value to o's: unchanged, edited   *)
(* in place when the script may edit it, or added when it may add it.      *)
KeyEdit(d, o, k) ==
    \/ o[Main][k] = d[Main][k]
    \/ k \in EditableKeys /\ d[Main][k] # Missing /\ o[Main][k] \in Vals
    \/ k \in CreatableKeys /\ o[Main][k] \in Vals

(* Options the interactive or the --release branch can leave: d with its  *)
(* own section edited key by key.                                          *)
EditedFrom(d, o) ==
    /\ d # NullDoc /\ d[Main] # Missing
    /\ o[Main] \in Section
    /\ o = [d EXCEPT ![Main] = o[Main]]
    /\ \A k \in OptKeys : KeyEdit(d, o, k)

(* The inductive invariant: what the options hold at each phase of an     *)
(* invocation, relative to the file they were loaded from.                 *)
IInv ==
    /\ TypeOK
    /\ phase = "loaded" => options = disk
    /\ phase = "true" =>
           \/ branch = "file" /\ MergedFrom(disk, options)
           \/ branch \in {"interactive", "release"} /\ EditedFrom(disk, options)
    /\ InteractiveErrorMeansIncompleteFile
-----------------------------------------------------------------------------
(* The answers a session can give.                                         *)
Answers == [1..Len(Prompts) -> Vals \cup {Blank}]

(* A top-level merge of two mappings is a mapping.                         *)
LEMMA UpdateType ==
    ASSUME NEW o \in Doc \ {NullDoc}, NEW f \in Doc \ {NullDoc}
    PROVE  Update(o, f) \in Doc \ {NullDoc}
BY CfgAssumption DEF Update, Doc

(* Setting a key of the component's section to a value keeps a mapping.  *)
LEMMA SetKeyType ==
    ASSUME NEW o \in Doc, o # NullDoc, o[Main] # Missing,
           NEW k \in OptKeys, NEW v \in Vals
    PROVE  SetKey(o, k, v) \in Doc \ {NullDoc}
BY CfgAssumption DEF SetKey, Doc, Section

(* The interactive branch leaves a document, whatever the answers.        *)
LEMMA AskType ==
    ASSUME NEW o \in Doc, NEW ans \in Answers
    PROVE  /\ Ask(o, ans).opts \in Doc
           /\ Ask(o, ans).ok \in BOOLEAN
<1>1. CASE o # NullDoc /\ o[Main] # Missing
    <2>1. \A k \in OptKeys :
             Answered(o, ans, Len(Prompts), k) => ans[PromptIndex(k)] \in Vals
        <3> SUFFICES ASSUME NEW k \in OptKeys, Answered(o, ans, Len(Prompts), k)
                     PROVE  ans[PromptIndex(k)] \in Vals
            OBVIOUS
        <3>1. PICK j \in 1..Len(Prompts) : Prompts[j] = k /\ ans[j] # Blank
            BY DEF Answered, Reached
        <3>2. PromptIndex(k) = j
            BY <3>1, CfgAssumption DEF PromptIndex
        <3> QED BY <3>1, <3>2 DEF Answers
    <2>2. o[Main] \in Section
        BY <1>1, CfgAssumption DEF Doc
    <2> QED BY <1>1, <2>1, <2>2 DEF Ask, AskPrefix, Doc, Section
<1>2. CASE ~ (o # NullDoc /\ o[Main] # Missing)
    BY <1>2 DEF Ask, AskPrefix
<1> QED BY <1>1, <1>2

(* The outcome of the prompts is a record of its two fields.             *)
LEMMA AskPrefixFields ==
    ASSUME NEW o, NEW ans, NEW i
    PROVE  AskPrefix(o, ans, i) = [opts |-> AskPrefix(o, ans, i).opts,
                                   ok |-> AskPrefix(o, ans, i).ok]
BY DEF AskPrefix

(* A non-empty answer to a prompt reached within the first n is a value.  *)
LEMMA AnsweredValue ==
    ASSUME NEW o, NEW ans \in Answers, NEW n \in 0..Len(Prompts),
           NEW k \in OptKeys, Answered(o, ans, n, k)
    PROVE  ans[PromptIndex(k)] \in Vals
<1>1. PICK j \in 1..n : Prompts[j] = k /\ ans[j] # Blank
    BY DEF Answered, Reached
<1>2. PromptIndex(k) = j
    BY <1>1, CfgAssumption DEF PromptIndex
<1> QED BY <1>1, <1>2, CfgAssumption DEF Answers

(* No prompt has run yet: the options are those loaded.                    *)
LEMMA AskPrefixZero ==
    ASSUME NEW o \in Doc, NEW ans \in Answers
    PROVE  AskPrefix(o, ans, 0) = [opts |-> o, ok |-> TRUE]
<1>1. AskPrefix(o, ans, 0).ok = TRUE
    BY DEF AskPrefix
<1>2. AskPrefix(o, ans, 0).opts = o
    <2>1. CASE o # NullDoc /\ o[Main] # Missing
        <3>1. o \in [Sections -> Section \cup {Missing}] /\ o[Main] \in Section
            BY <2>1, CfgAssumption DEF Doc
        <3>2. \A k \in OptKeys : ~ Answered(o, ans, 0, k)
            BY DEF Answered, Reached
        <3>3. [k \in OptKeys |-> IF Answered(o, ans, 0, k) THEN ans[PromptIndex(k)]
                                                          ELSE o[Main][k]] = o[Main]
            BY <3>1, <3>2 DEF Section
        <3> QED BY <2>1, <3>1, <3>3, CfgAssumption DEF AskPrefix
    <2>2. CASE ~ (o # NullDoc /\ o[Main] # Missing)
        BY <2>2 DEF AskPrefix
    <2> QED BY <2>1, <2>2
<1> QED BY <1>1, <1>2, AskPrefixFields

(* The closed form is the code's statements one after another: the         *)
(* outcome of the first i prompts is the i-th statement pair (PromptStep)  *)
(* applied to the outcome of the first i - 1.                              *)
LEMMA AskPrefixStep ==
    ASSUME NEW o \in Doc, NEW ans \in Answers, NEW i \in 1..Len(Prompts)
    PROVE  AskPrefix(o, ans, i) = PromptStep(AskPrefix(o, ans, i - 1), ans, i)
<1> DEFINE P == AskPrefix(o, ans, i - 1)
           Q == AskPrefix(o, ans, i)
           k0 == Prompts[i]
           Sec(n) == [k \in OptKeys |-> IF Answered(o, ans, n, k)
                                        THEN ans[PromptIndex(k)] ELSE o[Main][k]]
<1>0. k0 \in OptKeys /\ Len(Prompts) \in Nat /\ i - 1 \in 0..Len(Prompts)
    BY CfgAssumption
<1>1. Q = [opts |-> Q.opts, ok |-> Q.ok]
    BY AskPrefixFields
<1>2. CASE ~ (o # NullDoc /\ o[Main] # Missing)
    <2>1. P.opts = o /\ Q.opts = o
        BY <1>2 DEF AskPrefix
    <2>2. Q.ok = FALSE
        BY <1>2, CfgAssumption DEF AskPrefix, Readable
    <2>3. PromptStep(P, ans, i) = [opts |-> P.opts, ok |-> FALSE]
        BY <1>2, <2>1 DEF PromptStep, Readable
    <2> QED BY <1>1, <2>1, <2>2, <2>3
<1>3. CASE o # NullDoc /\ o[Main] # Missing
    <2>1. o \in [Sections -> Section \cup {Missing}] /\ o[Main] \in Section
        BY <1>3, CfgAssumption DEF Doc
    <2>2. P.opts = [o EXCEPT ![Main] = Sec(i - 1)] /\ Q.opts = [o EXCEPT ![Main] = Sec(i)]
        BY <1>3 DEF AskPrefix
    <2>3. Sec(i - 1) \in Section
        BY <1>0, <2>1, AnsweredValue DEF Section
    <2>4. Readable(P.opts, k0) <=> o[Main][k0] # Missing
        <3>1. P.opts \in [Sections -> Section \cup {Missing}] /\ P.opts[Main] = Sec(i - 1)
            BY <2>1, <2>2, <2>3, CfgAssumption
        <3>2. P.opts # NullDoc /\ Sec(i - 1) # Missing
            BY <2>3, <3>1, CfgAssumption DEF Section
        <3>3. ~ Answered(o, ans, i - 1, k0)
            BY <1>0, CfgAssumption DEF Answered, Reached
        <3>4. Sec(i - 1)[k0] = o[Main][k0]
            BY <1>0, <3>3
        <3> QED BY <3>1, <3>2, <3>4 DEF Readable
    <2>5. Readable(o, k0) <=> o[Main][k0] # Missing
        BY <1>3 DEF Readable
    <2>6. CASE ~ P.ok \/ ~ Readable(o, k0)
        <3>1. i \notin Reached(o, i)
            BY <2>6 DEF AskPrefix, Reached
        <3>2. \A k \in OptKeys : Answered(o, ans, i, k) <=> Answered(o, ans, i - 1, k)
            BY <3>1 DEF Answered, Reached
        <3>3. Q.opts = P.opts
            BY <2>2, <3>2
        <3>4. Q.ok = FALSE
            BY <2>6 DEF AskPrefix
        <3>5. PromptStep(P, ans, i) = [opts |-> P.opts, ok |-> FALSE]
            BY <2>4, <2>5, <2>6 DEF PromptStep
        <3> QED BY <1>1, <3>3, <3>4, <3>5
    <2>7. CASE P.ok /\ Readable(o, k0)
        <3>1. Reached(o, i) = Reached(o, i - 1) \cup {i} /\ Q.ok
            BY <2>7, <1>0 DEF AskPrefix, Reached
        <3>2. \A k \in OptKeys \ {k0} : Answered(o, ans, i, k) <=> Answered(o, ans, i - 1, k)
            BY <3>1 DEF Answered
        <3>3. PromptStep(P, ans, i) =
                  [opts |-> IF ans[i] = Blank THEN P.opts ELSE SetKey(P.opts, k0, ans[i]),
                   ok |-> TRUE]
            BY <2>4, <2>5, <2>7 DEF PromptStep
        <3>4. CASE ans[i] = Blank
            <4>1. Answered(o, ans, i, k0) <=> Answered(o, ans, i - 1, k0)
                BY <3>1, <3>4 DEF Answered
            <4>2. Sec(i) = Sec(i - 1)
                BY <3>2, <4>1
            <4>3. Q.opts = P.opts
                BY <2>2, <4>2
            <4> QED BY <1>1, <3>1, <3>3, <3>4, <4>3
        <3>5. CASE ans[i] # Blank
            <4>1. Answered(o, ans, i, k0) /\ PromptIndex(k0) = i
                BY <3>1, <3>5, <1>0, CfgAssumption DEF Answered, PromptIndex
            <4>2. Sec(i) = [Sec(i - 1) EXCEPT ![k0] = ans[i]]
                BY <3>2, <4>1, <1>0
            <4>3. SetKey(P.opts, k0, ans[i]) = Q.opts
                BY <2>1, <2>2, <4>2, CfgAssumption DEF SetKey
            <4> QED BY <1>1, <3>1, <3>3, <3>5, <4>3
        <3> QED BY <3>4, <3>5
    <2> QED BY <2>6, <2>7
<1> QED BY <1>2, <1>3

-----------------------------------------------------------------------------
(* A completed interactive session edits prompted keys that were there.   *)
LEMMA AskEdits ==
    ASSUME NEW o \in Doc, NEW ans \in Answers, Ask(o, ans).ok
    PROVE  EditedFrom(o, Ask(o, ans).opts)
<1> DEFINE n == Len(Prompts)
           S == [k \in OptKeys |-> IF Answered(o, ans, n, k)
                                  THEN ans[PromptIndex(k)] ELSE o[Main][k]]
<1>0. n \in Nat /\ n > 0 /\ n \in 0..Len(Prompts)
    BY CfgAssumption
<1>1. \A l \in 1..n : Readable(o, Prompts[l])
    BY DEF Ask, AskPrefix
<1>2. o # NullDoc /\ o[Main] # Missing
    BY <1>0, <1>1 DEF Readable
<1>3. o \in [Sections -> Section \cup {Missing}] /\ o[Main] \in Section
    BY <1>2, CfgAssumption DEF Doc
<1>4. Ask(o, ans).opts = [o EXCEPT ![Main] = S]
    BY <1>2 DEF Ask, AskPrefix
<1>5. S \in Section
    BY <1>0, <1>3, AnsweredValue DEF Section
<1>6. Ask(o, ans).opts[Main] = S
    BY <1>3, <1>4, CfgAssumption
<1>7. ASSUME NEW k \in OptKeys PROVE KeyEdit(o, Ask(o, ans).opts, k)
    <2>1. CASE Answered(o, ans, n, k)
        <3>1. PICK j \in Reached(o, n) : Prompts[j] = k /\ ans[j] # Blank
            BY <2>1 DEF Answered
        <3>2. j \in 1..n /\ Readable(o, Prompts[j])
            BY <3>1 DEF Reached
        <3>3. o[Main][k] # Missing /\ k \in EditableKeys
            BY <3>1, <3>2 DEF Readable, EditableKeys
        <3>4. S[k] \in Vals
            BY <2>1, <1>0, AnsweredValue
        <3> QED BY <1>6, <3>3, <3>4 DEF KeyEdit
    <2>2. CASE ~ Answered(o, ans, n, k)
        BY <1>6, <2>2 DEF KeyEdit
    <2> QED BY <2>1, <2>2
<1> QED BY <1>2, <1>3, <1>4, <1>5, <1>6, <1>7 DEF EditedFrom

(* An interactive session that raised met a prompted key the file lacked. *)
LEMMA AskFails ==
    ASSUME NEW o, NEW ans, ~ Ask(o, ans).ok
    PROVE  \E i \in 1..Len(Prompts) : ~ Present(o, Prompts[i])
BY DEF Ask, AskPrefix, Readable, Present

(* --release on a file with the component's section edits one key, the   *)
(* one the script may add.                                                 *)
LEMMA SetKeyEdits ==
    ASSUME NEW o \in Doc, o # NullDoc, o[Main] # Missing, NEW v \in Vals,
           HasRelease
    PROVE  EditedFrom(o, SetKey(o, ReleaseKey, v))
<1>1. o \in [Sections -> Section \cup {Missing}] /\ o[Main] \in Section
    BY CfgAssumption DEF Doc
<1>2. SetKey(o, ReleaseKey, v)[Main] = [o[Main] EXCEPT ![ReleaseKey] = v]
    BY <1>1, CfgAssumption DEF SetKey
<1>3. [o[Main] EXCEPT ![ReleaseKey] = v] \in Section
    BY <1>1, CfgAssumption DEF Section
<1>4. SetKey(o, ReleaseKey, v) = [o EXCEPT ![Main] = SetKey(o, ReleaseKey, v)[Main]]
    BY <1>1, <1>2, CfgAssumption DEF SetKey
<1>5. ReleaseKey \in CreatableKeys
    BY DEF CreatableKeys
<1>6. \A k \in OptKeys : KeyEdit(o, SetKey(o, ReleaseKey, v), k)
    BY <1>1, <1>2, <1>5, CfgAssumption DEF KeyEdit, Section
<1> QED BY <1>2, <1>3, <1>4, <1>6 DEF EditedFrom

-----------------------------------------------------------------------------
(* The invocations start from the shipped file, with nothing loaded.      *)
LEMMA InitIInv == Init => IInv
BY CfgAssumption DEF Init, IInv, TypeOK, InteractiveErrorMeansIncompleteFile

(* Every step of any invocation keeps the inductive invariant.            *)
LEMMA IInvStep == IInv /\ [Next]_vars => IInv'
<1> SUFFICES ASSUME IInv, [Next]_vars PROVE IInv'
    OBVIOUS
<1>0. disk \in Doc /\ options \in Doc
    BY DEF IInv, TypeOK
<1>1. CASE Load
    BY <1>0, <1>1 DEF Load, IInv, TypeOK, InteractiveErrorMeansIncompleteFile
<1>2. ASSUME NEW a \in Args, Process(a) PROVE IInv'
    <2>0. a.file \in Files \cup {NoFile, Missing} /\ a.answers \in Answers
          /\ a.release \in (IF HasRelease THEN Vals \cup {Missing} ELSE {Missing})
        BY DEF Args, Answers
    <2>1. CASE ProcessShow(a)
        BY <1>0, <2>1 DEF ProcessShow, IInv, TypeOK, InteractiveErrorMeansIncompleteFile
    <2>2. CASE ProcessFile(a)
        <3>1. options = disk
            BY <2>2 DEF ProcessFile, IInv
        <3>2. CASE a.file # NoFile /\ a.file # NullDoc /\ options # NullDoc
            <4>1. a.file \in Files \ {NullDoc} /\ a.file \in Doc
                BY <2>0, <2>2, <3>2, CfgAssumption DEF ProcessFile
            <4>2. options' = Update(disk, a.file) /\ phase' = "true" /\ branch' = "file"
                BY <2>2, <3>1, <3>2 DEF ProcessFile
            <4>3. options' \in Doc
                BY <1>0, <3>1, <3>2, <4>1, <4>2, UpdateType
            <4>4. MergedFrom(disk, options')
                BY <3>1, <3>2, <4>1, <4>2 DEF MergedFrom
            <4> QED BY <1>0, <2>2, <4>2, <4>3, <4>4
                    DEF ProcessFile, IInv, TypeOK, InteractiveErrorMeansIncompleteFile
        <3>3. CASE ~ (a.file # NoFile /\ a.file # NullDoc /\ options # NullDoc)
            BY <1>0, <2>2, <3>3 DEF ProcessFile, IInv, TypeOK, InteractiveErrorMeansIncompleteFile
        <3> QED BY <3>2, <3>3
    <2>3. CASE ProcessInteractive(a)
        <3> DEFINE r == Ask(disk, a.answers)
        <3>1. options = disk /\ options' = r.opts /\ branch' = "interactive"
              /\ phase' = (IF r.ok THEN "true" ELSE "error") /\ disk' = disk
            BY <2>3 DEF ProcessInteractive, IInv
        <3>2. r.opts \in Doc /\ r.ok \in BOOLEAN
            BY <1>0, <2>0, AskType
        <3>3. r.ok => EditedFrom(disk, r.opts)
            BY <1>0, <2>0, AskEdits
        <3>4. ~ r.ok => \E i \in 1..Len(Prompts) : ~ Present(disk, Prompts[i])
            BY AskFails
        <3> QED BY <2>3, <3>1, <3>2, <3>3, <3>4
                DEF ProcessInteractive, IInv, TypeOK, InteractiveErrorMeansIncompleteFile
    <2>4. CASE ProcessRelease(a)
        <3>1. options = disk
            BY <2>4 DEF ProcessRelease, IInv
        <3>2. HasRelease /\ a.release \in Vals
            BY <2>0, <2>4 DEF ProcessRelease
        <3>3. CASE options # NullDoc /\ options[Main] # Missing
            <4>1. options' = SetKey(disk, ReleaseKey, a.release) /\ phase' = "true"
                  /\ branch' = "release" /\ disk' = disk
                BY <2>4, <3>1, <3>3 DEF ProcessRelease
            <4>2. options' \in Doc
                BY <1>0, <3>1, <3>2, <3>3, <4>1, CfgAssumption, SetKeyType
            <4>3. EditedFrom(disk, options')
                BY <1>0, <3>1, <3>2, <3>3, <4>1, SetKeyEdits
            <4> QED BY <1>0, <4>1, <4>2, <4>3 DEF IInv, TypeOK, InteractiveErrorMeansIncompleteFile
        <3>4. CASE ~ (options # NullDoc /\ options[Main] # Missing)
            BY <1>0, <2>4, <3>4 DEF ProcessRelease, IInv, TypeOK, InteractiveErrorMeansIncompleteFile
        <3> QED BY <3>3, <3>4
    <2>5. CASE ProcessNothing(a)
        BY <1>0, <2>5 DEF ProcessNothing, IInv, TypeOK, InteractiveErrorMeansIncompleteFile
    <2> QED BY <1>2, <2>1, <2>2, <2>3, <2>4, <2>5 DEF Process
<1>3. CASE Save
    BY <1>0, <1>3 DEF Save, IInv, TypeOK, InteractiveErrorMeansIncompleteFile
<1>4. CASE SaveCrash
    BY <1>0, <1>4, CfgAssumption DEF SaveCrash, IInv, TypeOK, Doc,
       InteractiveErrorMeansIncompleteFile
<1>5. CASE UNCHANGED vars
    BY <1>5 DEF vars, IInv, TypeOK, InteractiveErrorMeansIncompleteFile, MergedFrom,
       EditedFrom, KeyEdit, Present
<1> QED BY <1>1, <1>2, <1>3, <1>4, <1>5 DEF Next

LEMMA AlwaysIInv == Spec => []IInv
BY InitIInv, IInvStep, PTL DEF Spec

(* Type correctness: whatever the arguments, the files merged, the answers *)
(* given and the crashes, the file and the loaded options are YAML         *)
(* documents (a mapping of sections, or None).                             *)
THEOREM TypeCorrect == Spec => []TypeOK
<1>1. IInv => TypeOK
    BY DEF IInv
<1> QED BY <1>1, AlwaysIInv, PTL

(* An interactive invocation of process_inputs raises only when the file  *)
(* it loaded lacks one of the prompted keys.                               *)
THEOREM InteractiveErrorExplained == Spec => []InteractiveErrorMeansIncompleteFile
<1>1. IInv => InteractiveErrorMeansIncompleteFile
    BY DEF IInv
<1> QED BY <1>1, AlwaysIInv, PTL

-----------------------------------------------------------------------------
(* Options an interactive or --release branch leaves form a mapping that  *)
(* still holds every key of the section the file had.                      *)
LEMMA EditKeepsKeys ==
    ASSUME NEW d \in Doc, NEW o, EditedFrom(d, o), NEW k \in OptKeys, Present(d, k)
    PROVE  Present(o, k)
<1>1. d \in [Sections -> Section \cup {Missing}]
    BY CfgAssumption DEF EditedFrom, Doc
<1>2. o \in [Sections -> Section \cup {Missing}] /\ o[Main] \in Section
    BY <1>1, CfgAssumption DEF EditedFrom
<1>3. o # NullDoc /\ o[Main] # Missing
    BY <1>2, CfgAssumption
<1>4. o[Main][k] # Missing
    BY CfgAssumption DEF EditedFrom, KeyEdit, Present
<1> QED BY <1>3, <1>4 DEF Present

(* An option leaves the file only through a file merge or a crash during  *)
(* save: the interactive and --release branches keep every key.            *)
THEOREM KeysLostOnlyThroughFile == Spec => KeysOnlyLostThroughFile
<1>1. IInv /\ [Next]_vars =>
          [(\E k \in OptKeys : Present(disk, k) /\ ~ Present(disk', k))
              => branch = "file" \/ disk' = NullDoc]_vars
    <2> SUFFICES ASSUME IInv, [Next]_vars,
                        \E k \in OptKeys : Present(disk, k) /\ ~ Present(disk', k)
                 PROVE  branch = "file" \/ disk' = NullDoc
        OBVIOUS
    <2>1. disk' # disk
        BY DEF Present
    <2>2. CASE Save /\ branch # "file"
        <3>1. EditedFrom(disk, options) /\ disk' = options /\ disk \in Doc
            BY <2>2 DEF Save, IInv, TypeOK
        <3> QED BY <3>1, EditKeepsKeys
    <2>3. CASE SaveCrash
        BY <2>3 DEF SaveCrash
    <2>4. CASE ~ Save /\ ~ SaveCrash
        BY <2>1, <2>4 DEF Next, Load, Process, ProcessShow, ProcessFile,
           ProcessInteractive, ProcessRelease, ProcessNothing, vars
    <2> QED BY <2>2, <2>3, <2>4
<1> QED BY <1>1, AlwaysIInv, PTL DEF KeysOnlyLostThroughFile, Spec
=============================================================================
