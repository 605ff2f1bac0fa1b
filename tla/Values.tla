------------------------------- MODULE Values -------------------------------
(***************************************************************************)
(* Python values as the provisioner's CLI layer sees them, and the three   *)
(* decoders a raw command-line string goes through:                        *)
(*   values.value_from_str       (values.py, not under src/: spec 4.1)     *)
(*   AttrParserArgs.value_from_str       inputs.py 215-223                 *)
(*   InputAttrParserArgs.value_from_str  inputs.py 226-230                 *)
(* plus the sentinel test is_special and the ip4 validator                 *)
(* Validation.check_ip4 (inputs.py 575-598).                               *)
(*                                                                         *)
(* A raw string is abstracted to the class of strings that the decoders    *)
(* tell apart (a token); an ordinary decoded value is a record naming its  *)
(* Python type and the token it came from, so that two values are equal    *)
(* exactly when the Python values are.                                     *)
(***************************************************************************)
EXTENDS Naturals

CONSTANTS
    Undefined,   \* values.UNDEFINED
    Unchanged,   \* values.UNCHANGED (a TLA+ keyword, hence the case)
    NoneV,       \* values.NONE (explicit null on the command line)
    PyNone,      \* Python None
    NOTHING      \* attr.NOTHING: an attribute with no default

Sentinels == {Undefined, Unchanged, NoneV}

ASSUME SentinelsAssumption ==
    /\ Sentinels \cap {PyNone, NOTHING} = {}
    /\ Undefined # Unchanged /\ Undefined # NoneV /\ Unchanged # NoneV
    /\ PyNone # NOTHING

(* Classes of raw command-line strings.                                    *)
(*   t_none, t_undef, t_unch : the literal tokens of NoneV, Undefined,      *)
(*                             Unchanged                                   *)
(*   t_num    : a JSON number ("1500")                                     *)
(*   t_jlist  : a JSON list ('["eth0"]')                                   *)
(*   t_quoted : a JSON string ('"eth0"')                                   *)
(*   t_ip     : a canonical dotted IPv4 address ("10.0.0.1")               *)
(*   t_ipnc   : a non-canonical one ("10.0.0.01")                          *)
(*   t_word   : any other bare word ("eth0")                               *)
AllTokens == {"t_none", "t_undef", "t_unch", "t_num", "t_jlist",
              "t_quoted", "t_ip", "t_ipnc", "t_word"}

(* Ordinary Python values: a type tag and the token they were read from.   *)
PyVal(ty, tok) == [ty |-> ty, tok |-> tok]
PyTrue  == PyVal("bool", "true")
PyFalse == PyVal("bool", "false")
Str(t)  == PyVal("str", t)
(* The raised exception of a decoder (argparse turns it into an error).    *)
DecodeError == PyVal("error", "loads")

PyValues == Sentinels \cup {PyNone}
              \cup [ty : {"str", "int", "list", "bool"},
                    tok : AllTokens \cup {"true", "false", "lit"}]

IsStr(v) == v \notin Sentinels \cup {PyNone} /\ v.ty = "str"

(* values.value_from_str: the sentinel tokens give the singletons, JSON    *)
(* literals are parsed, anything else is kept as the raw string.           *)
value_from_str(t) ==
    IF t = "t_none" THEN NoneV
    ELSE IF t = "t_undef" THEN Undefined
    ELSE IF t = "t_unch" THEN Unchanged
    ELSE IF t = "t_num" THEN PyVal("int", t)
    ELSE IF t = "t_jlist" THEN PyVal("list", t)
    ELSE Str(t)

(* serialize.loads of the raw string: only a JSON string literal is left  *)
(* for it to parse once value_from_str has produced a str.                 *)
loads(t) == IF t = "t_quoted" THEN Str(t) ELSE DecodeError

(* AttrParserArgs.value_from_str: NoneV becomes None; a string for a list   *)
(* or json typed attribute is JSON-decoded.                                *)
AttrValueFromStr(t, vtype) ==
    LET v == value_from_str(t) IN
    IF v = NoneV THEN PyNone
    ELSE IF IsStr(v) /\ vtype \in {"list", "json"} THEN loads(t)
    ELSE v

(* InputAttrParserArgs.value_from_str: a None result becomes Unchanged.   *)
InputValueFromStr(t, vtype) ==
    LET v == AttrValueFromStr(t, vtype) IN
    IF v = PyNone THEN Unchanged ELSE v

(* The decoder a parser class installs as the argparse type callable.     *)
Decode(klass, t, vtype) ==
    IF klass = "input" THEN InputValueFromStr(t, vtype)
                       ELSE AttrValueFromStr(t, vtype)

(* values.is_special (spec 4.1): Undefined and Unchanged.                  *)
is_special(v) == v \in {Undefined, Unchanged}

(* Python truthiness of the values above: None and False are falsy, the   *)
(* sentinel objects and every decoded token are not.                       *)
Truthy(v) == v \notin {PyNone, PyFalse}

(* Validation.check_ip4 accepts a falsy value, Unchanged and a canonical  *)
(* IPv4 string; ipaddress rejects the rest, or str(ip) differs from it.    *)
check_ip4(v) ==
    \/ ~ Truthy(v)
    \/ v = Unchanged
    \/ v = Str("t_ip")

(* The converter of SWUpdateRepo.source (inputs.py 1024-1028): None means *)
(* Unchanged, a special value is kept, anything else goes through str().   *)
source_converter(v) ==
    IF v = PyNone THEN Unchanged
    ELSE IF is_special(v) \/ v = NoneV THEN v
    ELSE Str(v.tok)
=============================================================================
