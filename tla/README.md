# Formal models of the provisioner CLI inputs

These TLA+ modules model `src/api/python/provisioner/inputs.py` and the component
configuration scripts `src/utils/components/release_cfg.py` and `eoscore_cfg.py`.
`inputs.py` holds the input schemas of the provisioner CLI and API, and the machinery
that turns them into argparse parsers and back into objects. It also derives the pillar
values of the software-update and software-upgrade repository inputs. The two scripts
read a YAML configuration file, change it from the command line and write it back.

The code is sequential. One CLI invocation is a single Python call chain. What
survives from one invocation to the next is:

- the pillar (the salt key-value store the inputs write to);
- the class-level `_spec` cache of the group inputs, for the life of the process;
- the configuration file of the component scripts;
- the file system a local repository source lives on.

 The hard behaviours are therefore not thread interleavings. They are:

- the order of steps inside one invocation;
- names computed in two places that must agree;
- sentinel values (`UNDEFINED`, `UNCHANGED`, `NONE`) crossing conversions;
- what a sequence of invocations leaves in the pillar or the configuration file;
- the file system changing between a check and a use;
- a save cut off by a crash.

## Inventory

| Part | Source | State | Operations | Model |
|---|---|---|---|---|
| Sentinels and decoders | `values.py` (not under src/), inputs.py 215-230 | none | `value_from_str`, `loads`, the two `value_from_str` of the parser classes | `Values` |
| AttrParserArgs | 120-213 | name, action, type, default, dest of one argparse argument | `__attrs_post_init__`, `kwargs` | `ParserFiller` (`PlainArg`, `Name`, `RejectName`) |
| ParserFiller | 233-345 | the prepared arguments, the namespace, the extracted args | `prepare_args` (with store_bool expansion), `fill_parser`, `extract_args`, `from_args` | `ParserFiller` |
| argparse | library | namespace | `parse_args` | `ParserFiller` (`NamespaceOf`, `ParseArgs`, `RejectArgs`), from its documented semantics |
| attrs `__init__` | library, converters and validators from the source | instance | binding, converters, `Validation.check_ip4` (575-598) | `ParserFiller` (`Construct`, `RejectValue`, `RejectCall`) |
| SWUpgradeRepo, SWUpgradeRemoveRepo | 1010-1120, 1122-1393 | pillar `swupgrade/repo/<release>` | the source converter (no validator), source kind, `pillar_value` (removal, remote, local v1, local v2) | `SWUpgradeRepo` |
| ParamDictItemInputBase | 963-1008 | `_param` cache | `pillar_items` | the write of `SetRepo` and `RemoveRepo`; the cache is not modelled |
| ParamGroupInputBase | 516-573 | class-level `_spec` cache | `pillar_items`, `param_spec` | `ParamGroupCache` |
| SWUpdateRepo | 1010-1120 | pillar `swupdate/repo`, the file system | construction, `repo_params` setter, `pillar_value` | `SWUpdateRepo` |
| ParamsList, PillarKeysList, NoParams, PillarInputBase, ParserMixin | 347-515 | none | `from_args` resolution, thin wrappers | not modelled |
| load_cli_spec, copy_attr | 49-117 | none | YAML loading, attribute copies | not modelled; copy_attr's effect is inside `StoreBoolArgs` |
| Schema declarations (NTP, Network, Release, ...) | 602-962 | none | declarations | their attribute shapes are `FieldShapes` in `MC_ParserFiller` |
| ReleaseCfg, EOSCoreCfg | release_cfg.py, eoscore_cfg.py | the YAML file at `cfg_path`, `__options` | `__init__`, every branch of `process_inputs`, `save` | `ComponentCfg` |

## Modules

### `Values`

`Values` has no variables. It holds:

- the sentinels as model values;
- Python values as records `[ty, tok]`;
- the decoders.

A typed string is one of a small set of token classes. Examples are `t_none` (the text
`None`), `t_num`, `t_jlist` (a JSON list), `t_quoted` (a JSON string) and `t_ip` (a
canonical IPv4 address). The decoders map each class to what the code returns for
it:

- `value_from_str` and `loads` come from `provisioner.values` and `utils`, which are
  not under src/. They are modelled from the spec and marked `spec_modelled`.
- `AttrValueFromStr` models `AttrParserArgs.value_from_str`. A string is passed
  through `loads` for list and json attributes.
- `InputValueFromStr` models `InputAttrParserArgs.value_from_str`, where None becomes
  UNCHANGED, the behaviour spec section 4.3 gives the input decoder.
- `check_ip4` and `source_converter` are translated from the source.

### `ParserFiller`

`ParserFiller` models one invocation of a schema class. It has these variables:

- `schema` and `klass` are chosen in Init: every two-attribute class over `FieldShapes`
  allowed by attrs' ordering rule, with either parser class.
- `phase` is the step of the invocation.
- `k` is the loop index of `prepare_args` and `extract_args`.
- `res` holds the prepared arguments.
- `cmd` is the command line, per argument.
- `ns` is `vars(parsed_args)`.
- `pargs` and `kw` are the extracted `_args` and `_kwargs`.
- `inst` is the built instance.

Its actions and the code they model:

| Action | Code |
|---|---|
| `PrepareArg` | one iteration of `prepare_args`, through `TranslateAttr` |
| `RejectName` | the ValueError on a double underscore |
| `FillParser` | `fill_parser` |
| `RejectParser` | `add_argument` raising ValueError in `fill_parser` |
| `ParseArgs`, `RejectArgs` | argparse accepting or exiting |
| `ExtractArg` | one iteration of `extract_args` with `pop=True` |
| `Construct` | `cls(*_args, **_kwargs)` with converters and validators |
| `RejectValue` | a validator raising |
| `RejectCall` | `__init__` raising TypeError |

`TranslateAttr` is `PlainArg` for a plain attribute and `StoreBoolArgs` for the two
store_const copies of a store_bool attribute.

A `store_bool` attribute without a default is prepared as a positional `store_const`
argument with a dest. argparse's `add_argument` refuses that with ValueError ("dest
supplied twice for positional argument"). `BadPositional` detects it, and
`RejectParser` ends the invocation in `parser_error` before any command line is read.
`Put` is the dict store `_dest[_attr.name] = ...` of `extract_args`.

### `SWUpgradeRepo`

`SWUpgradeRepo` models the pillar across invocations:

- `pillar[r][c]` is what `swupgrade/repo/<r>/<c>` holds.
- `lastOp` and `lastSet` are history variables, used only by the properties.
  `lastSet[r]` is the `source_version` of the last local or remote set of `r` since
  its last removal.

Its actions and the code they model:

| Action | Code |
|---|---|
| `SetRepo` | an SWUpgradeRepo: `pillar_value` is derived and written through `pillar_items` |
| `RemoveRepo` | SWUpgradeRemoveRepo |

`pillar_value` branches on the source in the code's if/elif order:

- a special source gives the removal map;
- a URL gives the remote layout;
- otherwise the ISO version picks the version-1 or the version-2 local layout.

It is modelled as an IF chain, so the first matching branch wins, as in the code.

SWUpgradeRepo redefines `source` (1124-1135) with a converter and no validator. The
`_check_source` validator of SWUpdateRepo is attached to the parent's attribute and
does not apply. So no source is refused: a missing path or a file that is not an ISO
is taken as a local source like any other.

Writing into the pillar (`MergeAt`) follows the store semantics of spec section 6. A
mapping is merged into what is stored at the key, and a None value deletes its
sub-key. The pillar itself is not in this repository, so `MergeAt` is
`spec_modelled`.

`SWUpgradeRepoProofs` holds the TLAPS proofs.

### `ParamGroupCache`

`ParamGroupCache` models `pillar_items` and `param_spec` of the group inputs for the
life of one Python process. Its variables are:

- `own[c]` is the `_spec` attribute class `c` has of its own. It is `None` for
  ParamGroupInputBase and unset for the schema classes.
- `dicts[d]` is the content of the dict created by class `d`.
- `last` is the outcome of the last `pillar_items` call, a history variable.

`SpecOf` is Python's attribute lookup: the first class of the MRO that has a `_spec`
of its own. `FreshSpec` is `if cls._spec is None: cls._spec = {}`. `ParamSpec` is the
whole classmethod. It first looks in the dict found through the MRO. Then it raises
ValueError for an unknown attribute, or KeyError when the registry lacks the full
path. Otherwise it stores the path in that dict, which may be a parent's.
`PillarItems(c)` is the whole `pillar_items` loop. Each field is one `ParamSpec` call,
and an exception ends the loop with the cache as far as it got. The registry maps a
full path to a Param, and a Param is represented by its path.

The loop is not written as a recursion. `ItemsPrefix(o, ds, c, i)` is its state after
the first `i` fields, in closed form:

- `Returned` is the fields whose `param_spec` call returns. They are the fields before
  the first one that `Raises`.
- `Kept` is the fields whose result is not overwritten in the set by a later field
  with the same path.
- The dict written is the one `CallDict` finds through the MRO after
  `FreshSpec`.

`ItemsStep(prev, c, i)` is one iteration of the code's loop body. The lemma
`ItemsPrefixStep` proves `ItemsPrefix(i) = ItemsStep(ItemsPrefix(i-1), i)`, so the
closed form is the loop. TLC also found the closed form equal to the earlier
recursive definition in every reachable state of the flat hierarchy.

### `SWUpdateRepo`

`SWUpdateRepo` models one input at a time and the `swupdate/repo` pillar. Its
variables are:

- `fs[p]` is what the path `p` is on disk: a file, a directory or nothing.
- `inst` is the input being handled.
- `pillar[r]` is what `swupdate/repo/<r>` holds.
- `wrote[r]` is a history variable: the node the written source was validated as.

| Action | Code |
|---|---|
| `Construct` | attrs `__init__`: the converter, `_check_source` on the current `fs`, `__attrs_post_init__`; a rejected source raises |
| `SetRepoParams` | the `repo_params` setter |
| `WriteItems` | `ParamDictItemInputBase.pillar_items` with `pillar_value`, which asks `is_file()` again |
| `FsChange` | the environment: between invocations always, during one when `FsChanges` holds |

### `ComponentCfg`

`ComponentCfg` models both component scripts. The constants are what differs between
them:

- the section the script reads (`eos_release` or `eoscore`);
- its option keys;
- the interactive prompts, in order (one, or three);
- whether a `--release` argument exists.

A YAML document is a function from top-level sections to sections, and a section a
function from keys to values. `Missing` marks an absent key, and `NullDoc` is what an
empty file loads as. Its variables are:

- `disk` is the file at `cfg_path`;
- `options` is `self.__options`;
- `phase` is the step of the invocation;
- `branch` is a history variable: the branch of `process_inputs` taken.

| Action | Code |
|---|---|
| `Load` | `__init__`: `__setup_args` and `__load_defaults` |
| `ProcessShow` | `--show-...-file-format`: print, return False |
| `ProcessFile` | `--release-file`/`--eoscore-file`: `self.__options.update(yaml.load(...))`; a missing file, an empty file or an empty configuration raises |
| `ProcessInteractive` | `--interactive`: each prompt reads the current value (KeyError if it is missing), then `input() or` the current value (`Ask`) |

The prompts run in order. `PromptStep` is one prompt exactly as the code writes it:
read, `input() or` the current value, store. `Ask` is the whole sequence in closed
form, `AskPrefix(o, answers, Len(Prompts))`. After `i` prompts:

- the call succeeded iff every prompt up to `i` found its key (`Reached`);
- a key holds the answer of its prompt if that prompt was reached and answered
  non-empty (`Answered`), and its loaded value otherwise.

The lemma `AskPrefixStep` in `ComponentCfgProofs` proves
`AskPrefix(o, a, i) = PromptStep(AskPrefix(o, a, i-1), a, i)` for every `i`, so the
closed form is the code's loop. Writing it this way lets TLAPS reason about it.
| `ProcessRelease` | `--release`: `options[section]["target_build"] = release` |
| `ProcessNothing` | no usable input: return False |
| `Save` | `save()` after a True return |
| `SaveCrash` | `save()` cut off after `open(cfg_path, 'w')` truncated the file |

The branch actions carry the guards of the if/elif chain, so the first argument given
wins. The caller that builds the parser with `interactive` and calls `save` is not in
the repository. `Save` is taken to follow a True return.

There is no abstract specification of the file and no refinement. The only
documented promise is the comment "Load release file and merge options" on the merge
branch, and the merge breaks it (the `cfg_merge_drops` run). An abstract
specification whose merge is the code's `dict.update` would restate the code, and
one whose merge is the documented one is that same violation.

## Runs

| Run | Expect | What it shows |
|---|---|---|
| `parser_roundtrip` (`MC_ParserFiller.cfg`) | pass, 32,028 states | **RoundTrip**: an acceptable command line always ends in an instance holding exactly the typed values or the defaults, for both parser classes, store_bool in either form, json/list decoding, the source converter and the ip4 validator. **ResidualForeign**: the namespace is fully consumed. |
| `parser_private_binding` (`MC_ParserFiller_privbind.cfg`) | pass, 12,688 states | **PositionalBinding**: with private attributes present, an instance is still only built with the mandatory attributes bound, in order, to what was typed for them. Without private attributes `RoundTrip` implies it, so it is checked only here. |
| `parser_private_dropped` | violation of RoundTrip | A value typed for a private optional attribute is lost (see findings). |
| `swupgrade_pillar` (`MC_SWUpgradeRepo.cfg`) | pass, 5,359 states | **LayoutsWhole**: over any sequence of special, remote and local sets and removals on two releases, each layout of a release is stored whole or not at all, and its version-1 directories come from one source. It holds because the special-source map, `SWUpgradeRemoveRepo`, the remote layout and `_pillar_values_ver1` list the same four directories. |
| `swupgrade_removal_v2` | violation of RemovalClearsRelease | Removing a release set from a version-2 ISO leaves its version-2 repositories. |
| `swupgrade_enabled` | violation of EnabledUniform | `enabled` is not applied to every repository. |
| `swupgrade_stale_marker` | violation of MarkerNamesLastSet | TODO EOS-20669 (1334-1335): a remote set records no version. After a local set with one `source_version` and a remote set with the other, the release marker still names the local set's version. |
| `paramgroup_cache` (`MC_ParamGroupCache.cfg`) | pass, 257 states | **ItemsFaithful**: for the flat hierarchy of the code, in any order of calls, each field comes out at its own group's path. This holds even where two classes share attribute names (`data_mtu`, `data_gateway`) in different groups, and after StorageEnclosure's KeyError on its second field has left its first field cached. |
| `swupdate_source` (`MC_SWUpdateRepo.cfg`) | pass, 567 states | **LocalKindValidated**: with the file system changing only between invocations, 'iso' is written only for a validated .iso file and 'dir' only for a validated directory. |
| `swupdate_toctou` | violation of LocalKindValidated | A source changed between `_check_source` and `pillar_value` is written with a kind that was never validated. |
| `cfg_release` (`MC_ReleaseCfg.cfg`) | pass, 238 states | **KeysOnlyLostThroughFile**: an option leaves the file only by a merge or a crash. **InteractiveErrorMeansIncompleteFile**: the prompt raises only when the saved file lacks a prompted key. |
| `cfg_merge_drops` (`MC_EOSCoreCfg_merge.cfg`) | violation of MergeKeepsOptions | A completed `Save` after a merge of the eoscore file that holds only the RPC size. TLC's trace is Load, ProcessFile, Save: the file's `eoscore` section is replaced and loses the two log sizes, against the comment "merge options". A save cut off by a crash is not a premise of the property. The same code is at `release_cfg.py:63`. |

Every property of a passing run has a mutant in PROJECT.json: a plausible bug in the
mapped code that TLC shows breaks it. The mutants are:

- the store_bool copies registered in the other order;
- positionals prepended instead of appended;
- no pop;
- a positional keeping its attrs default;
- the marker recording the release instead of the version;
- python missing from the removal list;
- `cls._spec = {}` landing on the base class (all classes share one cache);
- `res[value] = param` in `pillar_items`;
- `_check_source` without the suffix test;
- params attached to remote values;
- `--release` replacing the whole section;
- the prompt without its `or` fallback;
- a construction that keeps the previous options.

## Bounds

**ParserFiller.** The bounds are two attributes, all nine token classes and both
parser classes.

- Two attributes are enough to have a mandatory attribute before an optional one,
  two positionals whose order matters, and two store_const copies sharing a dest.
- `KeyShape` to `FlagShape` are shapes the schema classes declare: keys, json, an
  ip4-validated value, a list, a literal default, a source with the source
  converter, an optional with default None, a bool flag.
- `BoolShape`, `BoolKeyShape`, `DunderShape` and the private shapes are declared by
  no class under src. They are the inputs the parser code has branches for: the
  `store_bool` action (252), a `store_bool` attribute without a default (the shape
  that makes `fill_parser` fail and the only way to reach `RejectParser`), a double
  underscore name (`RejectName`) and a private attribute. Private attributes have
  their own cfgs, because every round trip through them fails.

**SWUpgradeRepo.** The bounds are two releases, one target build and one URL. Every
source (both specials, the URL, an iso file, a directory, another file, a missing
path) and both versions are enumerated. Two steps on one release reach every pair
of layouts, so the stale marker and the half-removed layouts are within reach.

- Two releases show that one release's writes leave the other's alone.
- The state space is finite without counters, because pillar values depend only on
  the inputs.

**ParamGroupCache.** The bounds are the classes that matter for the cache, taken from
the source:

- NTP, Hostname and Firewall (Firewall has no fields);
- the two data networks, which share attribute names in different groups and in a
  different order;
- Release and StorageEnclosure, whose attributes come from `*Params` holder classes;
  the registry lacks StorageEnclosure's second path, so its call raises KeyError
  after caching the first field, and later calls start from that half-filled cache.

No class of the repository subclasses a schema class, so the hierarchy is flat.

**SWUpdateRepo.** The bounds are one release, one special value and one URL, plus two
paths: one named `*.iso` and one with another suffix. Each path may be a file, a
directory or nothing. One params dict is used. Every branch of `_check_source` and of
`pillar_value` is reached.

**ComponentCfg.** Each script has its section plus one other section, and two values.

- ReleaseCfg has two keys. Its release files are: a full section, `target_build`
  only, `extra` only, only the other section, and an empty file.
- EOSCoreCfg has its three size keys. Its files are: a full section, the RPC size
  only, and an empty file. It is used for the merge violation run.
- A missing file is also given to both.

Every argument combination and every answer (a value or empty) is enumerated. The
state space is finite because documents are drawn from these files.

## Fairness

No module assumes fairness, and no property is a liveness property. Invocations
come from an operator or a caller, and nothing obliges one to come. An invocation of
ParserFiller is one Python call chain whose every loop is over the attributes, so it
ends; that it ends is not a question the model asks.

The ParserFiller configurations disable deadlock checking: an invocation really ends
in a terminal phase, and then no step is possible. The other runs never stop.

## Proofs (TLAPS)

### `SWUpgradeRepoProofs`

Each theorem holds for every value of the constants. The assumptions are
`SWUpgradeAssumption` and `MarkersAssumption`:

- the release names are not component names;
- the two layouts share no key;
- the markers Absent and Removed are not entries.

- **TypeCorrect**, `Spec => []TypeOK`. It rests on three lemmas.
  `FilePathType`: a built path is a sequence of path parts. `PillarValueType`:
  every pillar value maps keys to entries or to None, with one case per branch of
  `pillar_value` and per key of each layout. `MergeAtType`: merging keeps the
  pillar typed.
- **LayoutsWholeHolds**, `Spec => []LayoutsWhole`. The inductive invariant is
  `TypeOK /\ LayoutsWhole`. `LayoutsWhole` alone is not inductive: the merge step
  needs the pillar's type to know what each key holds after it. `Whole(p)` states
  `LayoutsWhole` of any pillar `p`. Lemma `PillarValueWhole`: every map
  `pillar_value` gives treats each layout as a whole (`V1Whole`, `V2Whole`): it
  leaves the four version-1 directories alone, removes all of them, or writes all of
  them from one source, and the same for the version-2 set. Lemma `MergeKeepsWhole`:
  merging such a map into a pillar that is whole keeps it whole. Lemma `EntType`: an
  entry built from typed fields is an entry.

### `SWUpdateRepoProofs`

It holds two theorems, from `SWUpdateAssumption`: the special
values, the URLs and the local paths are disjoint, and the empty params dict is not one
of `Params`.

- **TypeCorrect**, `Spec => []TypeOK`. The inductive invariant is `TInv`, which is
  `TypeOK` plus the type of the input being handled. Lemma `PillarValueType` shows
  that `pillar_value` of a built input is a value.
- **ValidatedKindWritten**, `~FsChanges => (Spec => []LocalKindValidated)`. The
  inductive invariant is `TypeOK /\ InstValidated /\ LocalKindValidated`.
  `InstValidated` says the input being handled carries the node `_check_source` saw,
  and the path is still that node. The write step needs it. It is preserved because,
  without `FsChanges`, the file system changes only when no input is being handled.
  Lemma `LocalWrite` derives the written kind from the validated node. The theorem
  needs `~FsChanges`: the `swupdate_toctou` run shows it fails without it.

### `ComponentCfgProofs`

It proves every property of the `cfg_release` run, for every section layout, prompt
list, value set and choice of `--release`. The assumptions are in `CfgAssumption`:

- the prompts name distinct keys;
- `NullDoc` is not a document, and `Missing` is not a section.

The first holds for both scripts. Without it, two prompts of one key would make the
second answer override the first, which the closed form must account for. The second
keeps the markers apart from real content.

The inductive invariant is `IInv`. It says:

- `TypeOK`;
- after `Load`, the options are the file;
- after a successful branch, the options are one permitted change of the file:
  - after a file merge, `MergedFrom`: an update of the file by some document;
  - after an interactive or `--release` edit, `EditedFrom`: only the component's
    section changed, and each key is unchanged, is an editable key that was present,
    or is a creatable key;
- `InteractiveErrorMeansIncompleteFile`.

`TypeOK` alone is not inductive. `Save` writes `options` to the file, and only this
relation between `options` and `disk` tells what the write can remove. The lemmas:

- `AskPrefixZero` and `AskPrefixStep` tie the closed form to the code's prompts;
- `AskEdits` and `AskFails` give what a finished prompt sequence edits and when it
  raises;
- `UpdateType`, `SetKeyType` and `AskType` give the types of the three writes.

The theorems:

- **TypeCorrect**, `Spec => []TypeOK`.
- **InteractiveErrorExplained**, `Spec => []InteractiveErrorMeansIncompleteFile`.
- **KeysLostOnlyThroughFile**, `Spec => KeysOnlyLostThroughFile`. This is an action
  property, from `IInv`. Lemma `EditKeepsKeys`: an edit removes no key.

### `ParamGroupCacheProofs`

Both theorems assume `ParamGroupAssumption` and `FlatHierarchy`. `FlatHierarchy`
says the MRO of every schema class is the class itself followed by
ParamGroupInputBase. That is the hierarchy of the code: every schema class of
`inputs.py` (lines 602-906) subclasses `ParamGroupInputBase` directly.
`ParamGroupAssumption` also requires three more things:

- the fields of a class are distinct, since they are the keys of a dict;
- ParamGroupInputBase has no fields;
- the markers `None`, unset and absent are distinct from the classes and the paths.

`ItemsFaithful` is not inductive on its own. A later call reads the dicts that earlier
calls filled, so the proof needs those dicts to hold only correct paths. The inductive
invariant is `IInv == TypeOK /\ OwnOK(own) /\ DictsOK(dicts) /\ ItemsFaithful`:

- `OwnOK`: ParamGroupInputBase keeps `None`, and a schema class's own `_spec` is
  either unset or its own dict;
- `DictsOK`: every entry of a dict `d` is either absent or the full path of the
  attribute in `d`'s own metadata.

TLC checked `IInv` as an invariant of the model run first.

The lemmas:

- under a flat hierarchy, `SpecOf`, `CallDict` and `CachedPath` resolve to the
  class's own dict and its own paths (`SpecOfFlat`, `CallDictFlat`, `CachedFlat`);
- `KeptFlat` and `ItemsFlat` give the result of a whole `pillar_items` call;
- `ItemsPrefixStep` proves that the closed form follows the loop body one field at a
  time. It rests on `PrefixFromReturned`, `LastOfStep` and `ResStep`.

The theorems:

- `TypeCorrect`: `Spec => []TypeOK`;
- `MemoizationSafe`: `Spec => []ItemsFaithful`. In any order of calls, and after any
  KeyError that left a partial cache, every field comes out at its own group's path.
  The `paramgroup_cache` run reaches such a cache too.

A hierarchy that is not flat is not proved. No class of the repository has one (see
Bounds), and there a subclass would read and fill its parent's dict. A proof
for a general MRO would have to find the first class of the MRO that has a `_spec`.
That needs the least-number principle, and the library's `SmallestNatural` takes an
operator parameter, which the installed provers cannot instantiate.

### `ParserFillerProofs`

It proves every invariant of the `parser_roundtrip` run, and `PositionalBinding`
for schemas without private attributes (1,259 obligations).

- **TypeCorrect**, `Spec => []TypeOK`, from `ConstantsAssumption` alone: for any
  attribute shapes, the private ones and `store_bool` without a default included.
  The inductive invariant is `TInv == TypeOK /\ ResShape`. `ResShape` says that every
  prepared argument is one that `TranslateAttr` makes for an attribute already
  covered by `prepare_args`. It also says that two arguments with one dest are the
  adjacent store_bool copies, `--x` then `--nox`. The namespace argparse builds is
  typed only because each dest's first argument carries a Python default.
- The three other theorems rest on one more hypothesis, `NoPrivateArgs`: no
  attribute has a single leading underscore. Every schema class of `inputs.py`
  (602-1393) meets it. With a private attribute, `extract_args` looks a value up
  under a name argparse never used (the `parser_private_dropped` finding).
  - **ResidualForeignHolds**, `Spec => []ResidualForeign`.
  - **PositionalBindingHolds**, `Spec => []PositionalBinding`.
- **RoundTripHolds**, `Spec => []RoundTrip`, also assumes `FlagsDefaultFalse`: a
  plain bool attribute, which becomes `store_true`, declares False as its default.
  That is what the one such attribute of the source does (`import_pub_key`, 1186).
  argparse stores False for an absent `store_true` flag, whatever attrs declares.

The inductive invariant is `IInv == TInv /\ ResCover /\ CmdShape /\ Extraction`.
TLC checked it as an invariant of the `parser_roundtrip` instance first; the shapes of that instance meet both hypotheses.

- `ResCover`: every argument of a covered attribute is registered.
- `CmdShape`: what each phase knows of the command line. A parsed line is accepted.
  A `parse_error` line is rejected. A filled parser has no bad positional.
- `Extraction`: during `extract_args`, the namespace holds exactly the keys of the
  attributes from `k` on, each with argparse's value. `_args` and `_kwargs` hold the
  earlier mandatory and optional attributes under their argparse values. After the
  loop, `__init__` never raises TypeError, and the phase records the built instance
  or the failed validation.

`RoundTrip` alone is not inductive. It speaks only of terminal phases, while the
values it compares are fixed at `parse_args` and carried through every iteration of
`extract_args`.

The lemmas:

- `LeadsZero`, `ArgOfShape`, `DestIsKey`, `DestsKeys` and `FirstArg` describe the
  filled parser. Every dest is its attribute's lookup key. A dest's default comes
  from the attribute's first argument.
- `TypedKey`, `TypedValue`, `OrigTyped`, `OrigUntyped` and `MandatoryTyped` show
  that argparse's namespace holds, for every attribute, the value the operator meant
  (`Intended`).
- `MandatoryPrefix` (attrs puts mandatory attributes first) and `FS_Interval` give
  `ExtractedBinds`: once every attribute is extracted, `__init__` accepts the call.
- `ParseErrorUnacceptable` and `ParserErrorUnacceptable` show that argparse and
  `fill_parser` fail only on a command line or schema that `AcceptableCall`
  excludes. The first needs `AtMostOne` (one typed argument per dest).

`parser_private_binding` checks `PositionalBinding` with private attributes present.
There it holds because `__init__` rejects the call, a different argument, so that
run stays with TLC.

### What stays with TLC

- `PositionalBinding` with private attributes present (`parser_private_binding`).
- Everything the violation runs show, and the `EOSCore` instance's `MergeKeepsOptions`.
- No liveness property is checked (see Fairness). One would stay with TLC: TLAPS does
  not prove liveness under fairness or ENABLED.

## Not modelled, and why

- ParamsList resolution (483-502) is not modelled. It is a loop of registry lookups
  with a parent-path fallback.
- The `_param` instance cache of ParamDictItemInputBase (972-979) is not modelled.
  The key it is built from is never reassigned.
- The metadata setter of SWUpdateRepo is not modelled: nothing in `pillar_value`
  reads it.
- `load` and `validate` of the component scripts are empty (`pass`).
- A non-mapping YAML document in the configuration file is not modelled.
- load_cli_spec and the schema declarations are data with no state.
- Logging, help texts and the printed YAML format are left out.

## Plan

1. ParamsList.from_args resolution against the registry, with its
   `UnknownParamError`.
2. A composition of `ParserFiller` with `ParamGroupCache`: an instance built from the
   command line gives its pillar items.
3. An abstract "CLI round trip" spec that ParserFiller refines.
5. ParserFiller's termination under weak fairness, if a question about it arises.
4. PositionalBinding proved with private attributes, through an invariant that
   counts the positionals `extract_args` found.
