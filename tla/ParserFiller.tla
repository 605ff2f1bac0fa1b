---------------------------- MODULE ParserFiller ----------------------------
(***************************************************************************)
(* One CLI invocation of an input schema class, inputs.py 119-343:        *)
(*                                                                         *)
(*   prepare_args   loop over the attributes, AttrParserArgs translates    *)
(*                  each one (store_bool expands into two flags)           *)
(*   fill_parser    registers the prepared arguments                       *)
(*   parse_args     argparse fills a namespace (library semantics)         *)
(*   extract_args   loop over the attributes, moves each value found in    *)
(*                  the namespace into the positional list or the keyword  *)
(*                  map and pops it                                        *)
(*   cls(...)       attrs __init__: binding, converters, validators        *)
(*                                                                         *)
(* The schema class and the parser class (AttrParserArgs for              *)
(* PillarInputBase, InputAttrParserArgs for the ParamGroup and            *)
(* ParamDictItem inputs) are chosen in Init; the command line is chosen   *)
(* when argparse runs.  parser_prefix is '' for every class in the source *)
(* and is left out.                                                        *)
(***************************************************************************)
EXTENDS Values, Naturals, Sequences, FiniteSets

CONSTANTS
    FieldShapes,   \* attribute declarations a schema class may contain
    NFields,       \* number of attributes of the schema class
    Tokens,        \* raw strings the operator may type
    ParserClasses, \* subset of {"attr", "input"}
    Absent         \* an argument left off the command line

(* A parser name as the code builds it: its leading underscores, the      *)
(* attribute it comes from, and whether store_bool prefixed it with "no".  *)
Name(lead, i, no) == [lead |-> lead, field |-> i, no |-> no]

Fields == 1..NFields

(* Defaults seen in the source: none (attr.NOTHING), UNCHANGED, None,      *)
(* False and a literal such as mgmt_mtu's 1500.                           *)
Literal == PyVal("int", "lit")
Defaults == {NOTHING, Unchanged, PyNone, PyFalse, Literal}

Shape == [lead : 0..2, default : Defaults, type : {"str", "list", "bool"},
          action : {"store", "store_bool"}, conv : {"id", "source"},
          valid : {"none", "ip4"}]

ASSUME ConstantsAssumption ==
    /\ NFields \in Nat \ {0}
    /\ FieldShapes \subseteq Shape
    /\ Tokens \subseteq AllTokens
    /\ ParserClasses \subseteq {"attr", "input"}
    /\ Absent \notin AllTokens \cup {"flag"}

(* attrs refuses a mandatory attribute after one with a default.          *)
AttrsOrdered(s) ==
    \A i, j \in Fields : i < j /\ s[j].default = NOTHING => s[i].default = NOTHING

Schemas == {s \in [Fields -> FieldShapes] : AttrsOrdered(s)}

Terminal == {"done", "schema_error", "parser_error", "parse_error", "type_error",
             "invalid"}

VARIABLES
    schema,  \* the attributes of the class, attr.fields(cls)
    klass,   \* the AttrParserArgs class passed to fill_parser
    phase,   \* the step of the invocation
    k,       \* loop index over the attributes (prepare_args, extract_args)
    res,     \* prepared argparse arguments, in registration order
    cmd,     \* the command line: per registered argument, what was typed
    ns,      \* the argparse namespace, vars(parsed_args): dest -> value
    pargs,   \* positional constructor arguments (_args.values())
    kw,      \* keyword constructor arguments, by attribute
    inst     \* the constructed instance's attribute values

vars == <<schema, klass, phase, k, res, cmd, ns, pargs, kw, inst>>

Arg == [field : Fields, name : [lead : 0..2, field : Fields, no : BOOLEAN],
        positional : BOOLEAN, action : {"store", "store_true", "store_const"},
        dest : [lead : 0..2, field : Fields, no : BOOLEAN],
        default : PyValues, const : PyValues,
        vtype : {"str", "list", "bool"}]

-----------------------------------------------------------------------------
(* Python's "not v".                                                       *)
PyNot(v) == IF Truthy(v) THEN PyFalse ELSE PyTrue

(* Mutant: the attribute's default is passed even for a positional.      *)
PlainArgDefaultAlways(f, i) ==
    LET action == IF f.type = "bool" THEN "store_true" ELSE "store"
    IN  [field |-> i, name |-> Name(0, i, FALSE), positional |-> f.default = NOTHING,
         action |-> action, dest |-> Name(0, i, FALSE),
         default |-> IF action = "store_true" THEN PyFalse ELSE f.default,
         const |-> PyNone, vtype |-> f.type]

(* AttrParserArgs for an attribute without store_bool: the flag name loses *)
(* its leading underscore, an attribute with a default is an option, a bool *)
(* attribute without an action is store_true, and kwargs drops default and *)
(* type for store_true (argparse then defaults it to False).  No dest is   *)
(* given, so argparse derives it from the name.                            *)
PlainArg(f, i) ==
    LET positional == f.default = NOTHING
        action == IF f.type = "bool" THEN "store_true" ELSE "store"
    IN  [field |-> i, name |-> Name(0, i, FALSE), positional |-> positional,
         action |-> action, dest |-> Name(0, i, FALSE),
         default |-> IF action = "store_true" THEN PyFalse
                     ELSE IF positional THEN PyNone
                     ELSE f.default,
         const |-> PyNone, vtype |-> f.type]

(* Mutant: the two store_bool copies registered in the other order.       *)
StoreBoolArgsSwapped(f, i) ==
    << [field |-> i, name |-> Name(0, i, TRUE), positional |-> FALSE,
        action |-> "store_const", dest |-> Name(f.lead, i, FALSE),
        default |-> PyNot(f.default), const |-> PyFalse, vtype |-> f.type],
       [field |-> i, name |-> Name(0, i, FALSE), positional |-> f.default = NOTHING,
        action |-> "store_const", dest |-> Name(f.lead, i, FALSE),
        default |-> IF f.default = NOTHING THEN PyNone ELSE f.default,
        const |-> PyTrue, vtype |-> f.type] >>

(* prepare_args' store_bool expansion: "--x" stores True and "--nox"      *)
(* stores False, both into dest _attr.name; the second copy's default is   *)
(* "not default".  Without a default the first copy is, to AttrParserArgs, *)
(* a positional whose default stays None.  (bool(attr.NOTHING) depends on  *)
(* the attrs release; the second copy is never registered then, see       *)
(* RejectParser, so the model takes NOTHING as truthy.)                    *)
StoreBoolArgs(f, i) ==
    << [field |-> i, name |-> Name(0, i, FALSE), positional |-> f.default = NOTHING,
        action |-> "store_const", dest |-> Name(f.lead, i, FALSE),
        default |-> IF f.default = NOTHING THEN PyNone ELSE f.default,
        const |-> PyTrue, vtype |-> f.type],
       [field |-> i, name |-> Name(0, i, TRUE), positional |-> FALSE,
        action |-> "store_const", dest |-> Name(f.lead, i, FALSE),
        default |-> PyNot(f.default), const |-> PyFalse, vtype |-> f.type] >>

TranslateAttr(f, i) ==
    IF f.action = "store_bool" THEN StoreBoolArgs(f, i) ELSE << PlainArg(f, i) >>

(* The value argparse stores for a typed argument.                         *)
ArgValue(a, typed) ==
    IF a.action = "store" THEN Decode(klass, typed, a.vtype)
    ELSE IF a.action = "store_const" THEN a.const
    ELSE PyTrue

Dests == {res[j].dest : j \in DOMAIN res}

(* argparse sets each dest to the default of the first argument with it,  *)
(* then to the value of the argument typed on the command line.           *)
FirstWithDest(d) ==
    CHOOSE j \in DOMAIN res : res[j].dest = d /\ \A i \in 1..(j - 1) : res[i].dest # d

TypedWithDest(c, d) == {j \in DOMAIN res : res[j].dest = d /\ c[j] # Absent}

NamespaceOf(c) ==
    [d \in Dests |->
        IF TypedWithDest(c, d) = {} THEN res[FirstWithDest(d)].default
        ELSE LET j == CHOOSE j \in TypedWithDest(c, d) : TRUE
             IN  ArgValue(res[j], c[j])]

(* Command lines: a token for a value argument, "flag" for a flag, and at *)
(* most one argument per dest (of two flags typed, the last one wins).     *)
CommandLines ==
    {c \in [DOMAIN res -> Tokens \cup {Absent, "flag"}] :
        /\ \A j \in DOMAIN res :
              c[j] # Absent => (c[j] = "flag" <=> res[j].action # "store")
        /\ \A d \in Dests : Cardinality(TypedWithDest(c, d)) <= 1}

(* argparse exits with an error on a missing positional or on a type      *)
(* callable that raises.                                                   *)
ParseFails(c) ==
    \E j \in DOMAIN res :
        \/ res[j].positional /\ c[j] = Absent
        \/ c[j] # Absent /\ ArgValue(res[j], c[j]) = DecodeError

(* argparse's add_argument raises ValueError ("dest supplied twice for    *)
(* positional argument") for a positional that is given a dest; of the     *)
(* prepared arguments only the store_bool copies give one.  fill_parser    *)
(* then fails before any command line is read.                            *)
BadPositional == \E j \in DOMAIN res : res[j].positional /\ res[j].action = "store_const"

(* Mutant: extract_args does not pop what it consumed.                    *)
WithoutNoPop(f, d) == f

(* d[key] = v on a dict.                                                   *)
Put(f, key, v) == [x \in DOMAIN f \cup {key} |-> IF x = key THEN v ELSE f[x]]

(* ns without key d (kwargs.pop).                                          *)
Without(f, d) == [x \in DOMAIN f \ {d} |-> f[x]]

Mandatory == {i \in Fields : schema[i].default = NOTHING}

(* attrs __init__: positionals bind to the mandatory attributes in order, *)
(* keyword arguments by name; an extracted keyword keyed by a name with a *)
(* leading underscore is not an __init__ parameter.                        *)
BindsCleanly ==
    /\ Len(pargs) = Cardinality(Mandatory)
    /\ \A i \in DOMAIN kw : schema[i].lead = 0

InitValue(i) ==
    IF i \in Mandatory THEN pargs[i]
    ELSE IF i \in DOMAIN kw THEN kw[i]
    ELSE schema[i].default

Converted(i) ==
    IF schema[i].conv = "source" THEN source_converter(InitValue(i)) ELSE InitValue(i)

Validates(v) == \A i \in Fields : schema[i].valid = "ip4" => check_ip4(v[i])

-----------------------------------------------------------------------------
Init ==
    /\ schema \in Schemas
    /\ klass \in ParserClasses
    /\ phase = "prepare"
    /\ k = 1
    /\ res = << >>
    /\ cmd = << >>
    /\ ns = << >>
    /\ pargs = << >>
    /\ kw = << >>
    /\ inst = << >>

(* prepare_args, one attribute (inputs.py 239-277 with 136-213).           *)
PrepareArg ==
    /\ phase = "prepare"
    /\ k <= NFields
    /\ schema[k].lead < 2
    /\ res' = res \o TranslateAttr(schema[k], k)
    /\ k' = k + 1
    /\ UNCHANGED <<schema, klass, phase, cmd, ns, pargs, kw, inst>>

(* AttrParserArgs raises ValueError on a name with two leading underscores *)
(* (inputs.py 139-142), aborting prepare_args.                            *)
RejectName ==
    /\ phase = "prepare"
    /\ k <= NFields
    /\ schema[k].lead >= 2
    /\ phase' = "schema_error"
    /\ UNCHANGED <<schema, klass, k, res, cmd, ns, pargs, kw, inst>>

(* fill_parser: every prepared argument is added (inputs.py 282-285).      *)
FillParser ==
    /\ phase = "prepare"
    /\ k > NFields
    /\ ~ BadPositional
    /\ phase' = "parse"
    /\ UNCHANGED <<schema, klass, k, res, cmd, ns, pargs, kw, inst>>

RejectParser ==
    /\ phase = "prepare"
    /\ k > NFields
    /\ BadPositional
    /\ phase' = "parser_error"
    /\ UNCHANGED <<schema, klass, k, res, cmd, ns, pargs, kw, inst>>

(* parse_args on a command line that argparse accepts.                     *)
ParseArgs ==
    /\ phase = "parse"
    /\ \E c \in CommandLines :
          /\ ~ ParseFails(c)
          /\ cmd' = c
          /\ ns' = NamespaceOf(c)
    /\ phase' = "extract"
    /\ k' = 1
    /\ UNCHANGED <<schema, klass, res, pargs, kw, inst>>

(* parse_args on a command line that argparse rejects.                     *)
RejectArgs ==
    /\ phase = "parse"
    /\ \E c \in CommandLines : ParseFails(c) /\ cmd' = c
    /\ phase' = "parse_error"
    /\ UNCHANGED <<schema, klass, k, res, ns, pargs, kw, inst>>

(* Mutant: positionals collected in reverse order.                        *)
ExtractArgPrepend ==
    /\ phase = "extract"
    /\ k <= NFields
    /\ LET arg == Name(schema[k].lead, k, FALSE) IN
       IF arg \in DOMAIN ns
       THEN /\ IF schema[k].default = NOTHING
                 THEN pargs' = << ns[arg] >> \o pargs /\ UNCHANGED kw
                 ELSE kw' = Put(kw, k, ns[arg]) /\ UNCHANGED pargs
            /\ ns' = Without(ns, arg)
       ELSE UNCHANGED <<ns, pargs, kw>>
    /\ k' = k + 1
    /\ UNCHANGED <<schema, klass, phase, res, cmd, inst>>

(* extract_args with positional, optional and pop all True, one attribute *)
(* (inputs.py 296-313): the value is looked up under _attr.name.          *)
ExtractArg ==
    /\ phase = "extract"
    /\ k <= NFields
    /\ LET arg == Name(schema[k].lead, k, FALSE) IN
       IF arg \in DOMAIN ns
       THEN /\ IF schema[k].default = NOTHING
                 THEN pargs' = Append(pargs, ns[arg]) /\ UNCHANGED kw
                 ELSE kw' = Put(kw, k, ns[arg]) /\ UNCHANGED pargs
            /\ ns' = Without(ns, arg)
       ELSE UNCHANGED <<ns, pargs, kw>>
    /\ k' = k + 1
    /\ UNCHANGED <<schema, klass, phase, res, cmd, inst>>

(* from_args' cls(_args, _kwargs) call (inputs.py 343): converters, then    *)
(* validators, all pass.                                                   *)
Construct ==
    /\ phase = "extract"
    /\ k > NFields
    /\ BindsCleanly
    /\ LET v == [i \in Fields |-> Converted(i)] IN
          /\ Validates(v)
          /\ inst' = v
    /\ phase' = "done"
    /\ UNCHANGED <<schema, klass, k, res, cmd, ns, pargs, kw>>

(* A validator raises (Validation.check_ip4, inputs.py 577-598).          *)
RejectValue ==
    /\ phase = "extract"
    /\ k > NFields
    /\ BindsCleanly
    /\ ~ Validates([i \in Fields |-> Converted(i)])
    /\ phase' = "invalid"
    /\ UNCHANGED <<schema, klass, k, res, cmd, ns, pargs, kw, inst>>

(* __init__ raises TypeError: a missing positional or an unknown keyword.  *)
RejectCall ==
    /\ phase = "extract"
    /\ k > NFields
    /\ ~ BindsCleanly
    /\ phase' = "type_error"
    /\ UNCHANGED <<schema, klass, k, res, cmd, ns, pargs, kw, inst>>

Next ==
    \/ PrepareArg \/ RejectName \/ FillParser \/ RejectParser
    \/ ParseArgs \/ RejectArgs
    \/ ExtractArg \/ Construct \/ RejectValue \/ RejectCall

(* The invocation is one sequential Python call chain: it never stops     *)
(* while a step is possible.                                               *)
Spec == Init /\ [][Next]_vars

-----------------------------------------------------------------------------
TypeOK ==
    /\ schema \in Schemas
    /\ klass \in ParserClasses
    /\ phase \in {"prepare", "parse", "extract"} \cup Terminal
    /\ k \in 1..(NFields + 1)
    /\ res \in Seq(Arg)
    /\ cmd \in Seq(Tokens \cup {Absent, "flag"})
    /\ pargs \in Seq(PyValues)
    /\ \A d \in DOMAIN ns : ns[d] \in PyValues
    /\ DOMAIN kw \subseteq Fields

(* What the operator meant for attribute i: the value typed for it, the   *)
(* flag typed for it, or the attribute's declared default.                *)
Typed(i) == {j \in DOMAIN cmd : res[j].field = i /\ cmd[j] # Absent}

Intended(i) ==
    IF Typed(i) = {} THEN schema[i].default
    ELSE LET j == CHOOSE j \in Typed(i) : TRUE IN
         IF schema[i].action = "store_bool" THEN (IF res[j].name.no THEN PyFalse ELSE PyTrue)
         ELSE IF schema[i].type = "bool" THEN PyTrue
         ELSE Decode(klass, cmd[j], schema[i].type)

Expected(i) ==
    IF schema[i].conv = "source" THEN source_converter(Intended(i)) ELSE Intended(i)

(* A call the class should accept: well-formed names, every mandatory     *)
(* attribute supplied, every value decodable and valid.                    *)
AcceptableCall ==
    \A i \in Fields :
        /\ schema[i].lead < 2
        /\ schema[i].default = NOTHING => Typed(i) # {}
        /\ Intended(i) # DecodeError
        /\ schema[i].valid = "ip4" => check_ip4(Expected(i))

(* Round trip (spec 8): fill_parser, parse_args and from_args rebuild the *)
(* object the operator described.  Once the invocation has parsed an      *)
(* acceptable command line and ended, it ended by constructing the        *)
(* instance, and every attribute holds the value typed for it, or its      *)
(* default when nothing was typed.  Breaking it takes a mismatch between  *)
(* the flag and dest names of AttrParserArgs, the defaults argparse       *)
(* keeps, the lookup and pop in extract_args and the binding in __init__. *)
RoundTrip ==
    phase \in Terminal /\ phase # "schema_error" /\ AcceptableCall
        => phase = "done" /\ inst = [i \in Fields |-> Expected(i)]

(* Positional binding (spec 4.4): an instance is only ever built with each *)
(* mandatory attribute bound to the value typed for it, in declaration    *)
(* order, whatever else goes wrong: extract_args collects the positionals  *)
(* in attribute order and __init__ binds them in parameter order.         *)
PositionalBinding ==
    phase = "done" => \A i \in Mandatory : Typed(i) # {} /\ inst[i] = Expected(i)

(* from_args consumes every value argparse stored for the schema: nothing *)
(* of the class is left in the residual namespace that is handed on to    *)
(* the command dispatch.                                                   *)
ResidualForeign == phase = "done" => DOMAIN ns = {}
=============================================================================
