------------------------- MODULE ParserFillerProofs -------------------------
(***************************************************************************)
(* TLAPS proofs about ParserFiller: the type invariant for every schema    *)
(* over any attribute shapes, and the round trip of fill_parser,          *)
(* parse_args and from_args for the attribute shapes the schema classes    *)
(* of inputs.py declare.                                                   *)
(***************************************************************************)
EXTENDS ParserFiller, FiniteSetTheorems, SequenceTheorems, TLAPS

(* No attribute with parser metadata has one leading underscore: the     *)
(* schema classes of inputs.py (602-1393) give metadata only to public    *)
(* attributes.  A private one loses its value (run parser_private_dropped).*)
NoPrivateArgs == \A f \in FieldShapes : f.lead # 1

(* A bool attribute without an action defaults to False, as the one such  *)
(* attribute of the source does (SWUpgradeRepo.import_pub_key, 1186).     *)
(* argparse's store_true default is False whatever attrs declares.        *)
FlagsDefaultFalse ==
    \A f \in FieldShapes : f.action = "store" /\ f.type = "bool" => f.default = PyFalse

(* The name extract_args looks an attribute up under, once leads are 0.  *)
Key(i) == Name(0, i, FALSE)

(* The arguments prepare_args registers for attribute i.                   *)
ArgsOf(i) == TranslateAttr(schema[i], i)

IsArgOf(a, i) == \E e \in DOMAIN ArgsOf(i) : a = ArgsOf(i)[e]

(* The attributes prepare_args has translated so far.                      *)
Covered == IF phase \in {"prepare", "schema_error"} THEN 1..(k - 1) ELSE Fields

Filled == {"parse", "parse_error", "extract", "done", "invalid", "type_error"}
Parsed == {"extract", "done", "invalid", "type_error"}

(* The prepared arguments are those of the covered attributes, and two    *)
(* with one dest are the adjacent store_bool copies, "--x" first.          *)
ResShape ==
    /\ \A j \in DOMAIN res : res[j].field \in Covered /\ IsArgOf(res[j], res[j].field)
    /\ \A j, l \in DOMAIN res :
          l < j /\ res[l].dest = res[j].dest =>
              j = l + 1 /\ res[l].name.no = FALSE /\ res[j].name.no = TRUE

(* Every argument of a covered attribute is registered, and its name was  *)
(* accepted.                                                               *)
ResCover ==
    \A i \in Covered :
        /\ schema[i].lead < 2
        /\ \A e \in DOMAIN ArgsOf(i) : \E j \in DOMAIN res : res[j] = ArgsOf(i)[e]

(* What each phase knows of the command line.                              *)
CmdShape ==
    /\ phase \in Parsed => cmd \in CommandLines /\ ~ ParseFails(cmd)
    /\ phase = "parse_error" => cmd \in CommandLines /\ ParseFails(cmd)
    /\ phase \notin Parsed \cup {"parse_error"} => cmd = << >>
    /\ phase \notin Parsed => ns = << >> /\ pargs = << >> /\ kw = << >>
    /\ phase \in Filled => ~ BadPositional
    /\ phase = "parser_error" => BadPositional

(* The namespace argparse produced.                                        *)
Orig == NamespaceOf(cmd)

(* extract_args so far: the keys of the attributes from k on are still in *)
(* the namespace, the earlier ones have moved to _args or _kwargs.        *)
Extraction ==
    phase \in Parsed =>
        /\ DOMAIN ns = {Key(i) : i \in k..NFields}
        /\ \A d \in DOMAIN ns : ns[d] = Orig[d]
        /\ DOMAIN pargs = {i \in Mandatory : i < k}
        /\ \A i \in DOMAIN pargs : pargs[i] = Orig[Key(i)]
        /\ DOMAIN kw = {i \in Fields \ Mandatory : i < k}
        /\ \A i \in DOMAIN kw : kw[i] = Orig[Key(i)]
        /\ phase # "extract" => k = NFields + 1
        /\ phase # "type_error"
        /\ phase = "done" => inst = [i \in Fields |-> Converted(i)]
        /\ phase = "invalid" => ~ Validates([i \in Fields |-> Converted(i)])

TInv == TypeOK /\ ResShape

IInv == TInv /\ ResCover /\ CmdShape /\ Extraction
-----------------------------------------------------------------------------
(* What a decoder returns for a token: a Python value, or the exception    *)
(* argparse reports.                                                       *)
LEMMA DecodeType ==
    ASSUME NEW kl, NEW t \in AllTokens, NEW vt
    PROVE  Decode(kl, t, vt) \in PyValues \cup {DecodeError}
PROOF
<1>1. value_from_str(t) \in PyValues
  BY DEF value_from_str, PyValues, Sentinels, PyVal, Str, AllTokens
<1>2. AttrValueFromStr(t, vt) \in PyValues \cup {DecodeError}
  BY <1>1 DEF AttrValueFromStr, loads, Str, PyVal, PyValues, Sentinels
<1>3. InputValueFromStr(t, vt) \in PyValues \cup {DecodeError}
  BY <1>2 DEF InputValueFromStr, PyValues, Sentinels
<1>4. QED
  BY <1>2, <1>3 DEF Decode

(* A pair is a sequence of length 2.                                      *)
LEMMA PairSeq ==
    ASSUME NEW S, NEW x \in S, NEW y \in S
    PROVE  << x, y >> \in Seq(S) /\ Len(<< x, y >>) = 2 /\ DOMAIN << x, y >> = {1, 2}
PROOF
<1>1. << x, y >> \in [1..2 -> S]
  OBVIOUS
<1>2. QED
  BY <1>1, SeqDef

(* The arguments prepare_args makes of one attribute: one, or the two     *)
(* store_bool copies "--x" then "--nox" with one dest; all of them carry   *)
(* the attribute's index.                                                  *)
LEMMA TranslateAttrFacts ==
    ASSUME NEW f \in Shape, NEW i \in Fields
    PROVE  /\ TranslateAttr(f, i) \in Seq(Arg)
           /\ Len(TranslateAttr(f, i)) \in {1, 2}
           /\ \A e \in DOMAIN TranslateAttr(f, i) :
                 TranslateAttr(f, i)[e].field = i /\ TranslateAttr(f, i)[e].dest.field = i
           /\ Len(TranslateAttr(f, i)) = 2 =>
                 /\ TranslateAttr(f, i)[1].dest = TranslateAttr(f, i)[2].dest
                 /\ TranslateAttr(f, i)[1].name.no = FALSE
                 /\ TranslateAttr(f, i)[2].name.no = TRUE
PROOF
<1>1. f.default \in Defaults /\ f.lead \in 0..2 /\ f.type \in {"str", "list", "bool"}
  BY DEF Shape
<1>2. Defaults \ {NOTHING} \subseteq PyValues /\ {PyNone, PyTrue, PyFalse} \subseteq PyValues
  BY DEF Defaults, Literal, PyValues, PyVal, PyTrue, PyFalse, Sentinels
<1>3. PyNot(f.default) \in PyValues
  BY <1>2 DEF PyNot
<1>4. CASE f.action = "store_bool"
  <2>1. TranslateAttr(f, i) = StoreBoolArgs(f, i)
    BY <1>4 DEF TranslateAttr
  <2>2. (IF f.default = NOTHING THEN PyNone ELSE f.default) \in PyValues
    BY <1>1, <1>2
  <2>3. Name(0, i, FALSE) \in [lead : 0..2, field : Fields, no : BOOLEAN]
         /\ Name(0, i, TRUE) \in [lead : 0..2, field : Fields, no : BOOLEAN]
         /\ Name(f.lead, i, FALSE) \in [lead : 0..2, field : Fields, no : BOOLEAN]
    BY <1>1 DEF Name
  <2>4. StoreBoolArgs(f, i)[1] \in Arg /\ StoreBoolArgs(f, i)[2] \in Arg
    BY <2>2, <2>3, <1>1, <1>2, <1>3 DEF StoreBoolArgs, Arg
  <2>5. StoreBoolArgs(f, i) = << StoreBoolArgs(f, i)[1], StoreBoolArgs(f, i)[2] >>
    BY DEF StoreBoolArgs
  <2>6. \A e \in {1, 2} : StoreBoolArgs(f, i)[e].field = i /\ StoreBoolArgs(f, i)[e].dest.field = i
    BY DEF StoreBoolArgs, Name
  <2>7. /\ StoreBoolArgs(f, i)[1].dest = StoreBoolArgs(f, i)[2].dest
        /\ StoreBoolArgs(f, i)[1].name.no = FALSE
        /\ StoreBoolArgs(f, i)[2].name.no = TRUE
    BY DEF StoreBoolArgs, Name
  <2>8. /\ << StoreBoolArgs(f, i)[1], StoreBoolArgs(f, i)[2] >> \in Seq(Arg)
        /\ Len(<< StoreBoolArgs(f, i)[1], StoreBoolArgs(f, i)[2] >>) = 2
        /\ DOMAIN << StoreBoolArgs(f, i)[1], StoreBoolArgs(f, i)[2] >> = {1, 2}
    BY <2>4, PairSeq
  <2>9. StoreBoolArgs(f, i) \in Seq(Arg) /\ Len(StoreBoolArgs(f, i)) = 2
         /\ DOMAIN StoreBoolArgs(f, i) = {1, 2}
    BY <2>5, <2>8, Zenon
  <2>10. QED
    BY <2>1, <2>6, <2>7, <2>9
<1>5. CASE f.action # "store_bool"
  <2>1. TranslateAttr(f, i) = << PlainArg(f, i) >>
    BY <1>5 DEF TranslateAttr
  <2>2. PlainArg(f, i) \in Arg /\ PlainArg(f, i).field = i /\ PlainArg(f, i).dest.field = i
    BY <1>1, <1>2 DEF PlainArg, Arg, Name
  <2>3. QED
    BY <2>1, <2>2
<1>6. QED
  BY <1>4, <1>5

(* With the store_bool copies adjacent, argparse's first argument of a    *)
(* dest exists: the CHOOSE of FirstWithDest is well defined.               *)
LEMMA FirstWithDestProp ==
    ASSUME res \in Seq(Arg),
           \A j, l \in DOMAIN res : l < j /\ res[l].dest = res[j].dest => j = l + 1,
           NEW d \in Dests
    PROVE  /\ FirstWithDest(d) \in DOMAIN res
           /\ res[FirstWithDest(d)].dest = d
           /\ \A i \in 1..(FirstWithDest(d) - 1) : res[i].dest # d
PROOF
<1>1. PICK j0 \in DOMAIN res : res[j0].dest = d
  BY DEF Dests
<1>2. DOMAIN res = 1..Len(res)
  BY LenProperties
<1>3. \E j \in DOMAIN res : res[j].dest = d /\ \A i \in 1..(j - 1) : res[i].dest # d
  <2>1. CASE j0 > 1 /\ res[j0 - 1].dest = d
    <3>1. \A i \in 1..(j0 - 2) : res[i].dest # d
      BY <1>1, <1>2, <2>1
    <3>2. QED
      BY <1>1, <1>2, <2>1, <3>1
  <2>2. CASE ~ (j0 > 1 /\ res[j0 - 1].dest = d)
    <3>1. \A i \in 1..(j0 - 1) : res[i].dest # d
      BY <1>1, <1>2, <2>2
    <3>2. QED
      BY <1>1, <3>1
  <2>3. QED
    BY <2>1, <2>2
<1>4. QED
  BY <1>3 DEF FirstWithDest

(* The namespace argparse builds from an accepted command line holds     *)
(* Python values only.                                                     *)
LEMMA NamespaceType ==
    ASSUME ConstantsAssumption,
           res \in Seq(Arg),
           \A j, l \in DOMAIN res : l < j /\ res[l].dest = res[j].dest => j = l + 1,
           NEW c \in CommandLines, ~ ParseFails(c)
    PROVE  \A d \in DOMAIN NamespaceOf(c) : NamespaceOf(c)[d] \in PyValues
PROOF
<1> SUFFICES ASSUME NEW d \in Dests PROVE NamespaceOf(c)[d] \in PyValues
  BY DEF NamespaceOf
<1>1. CASE TypedWithDest(c, d) = {}
  <2>1. FirstWithDest(d) \in DOMAIN res
    BY FirstWithDestProp
  <2>2. res[FirstWithDest(d)] \in Arg
    BY <2>1, LenProperties
  <2>3. QED
    BY <1>1, <2>2 DEF NamespaceOf, Arg
<1>2. CASE TypedWithDest(c, d) # {}
  <2> DEFINE j == CHOOSE j \in TypedWithDest(c, d) : TRUE
  <2>1. j \in DOMAIN res /\ c[j] # Absent
    BY <1>2 DEF TypedWithDest
  <2>2. res[j] \in Arg
    BY <2>1, LenProperties
  <2>3. ArgValue(res[j], c[j]) # DecodeError
    BY <2>1 DEF ParseFails
  <2>4. res[j].action = "store" => c[j] \in AllTokens
    BY <2>1, ConstantsAssumption DEF CommandLines
  <2>5. ArgValue(res[j], c[j]) \in PyValues
    BY <2>2, <2>3, <2>4, DecodeType DEF ArgValue, Arg, PyTrue, PyVal, PyValues
  <2>6. QED
    BY <1>2, <2>5 DEF NamespaceOf
<1>3. QED
  BY <1>1, <1>2

-----------------------------------------------------------------------------
(* The typing invariant.                                                   *)

(* A schema attribute has one of the shapes of the model.                  *)
LEMMA SchemaShape ==
    ASSUME ConstantsAssumption, schema \in Schemas, NEW i \in Fields
    PROVE  schema[i] \in Shape
BY DEF Schemas

(* TranslateAttrFacts for the attributes of the schema.                    *)
LEMMA ArgsOfFacts ==
    ASSUME ConstantsAssumption, schema \in Schemas, NEW i \in Fields
    PROVE  /\ ArgsOf(i) \in Seq(Arg)
           /\ Len(ArgsOf(i)) \in {1, 2}
           /\ DOMAIN ArgsOf(i) = 1..Len(ArgsOf(i))
           /\ \A e \in DOMAIN ArgsOf(i) : ArgsOf(i)[e].field = i /\ ArgsOf(i)[e].dest.field = i
           /\ Len(ArgsOf(i)) = 2 =>
                 /\ ArgsOf(i)[1].dest = ArgsOf(i)[2].dest
                 /\ ArgsOf(i)[1].name.no = FALSE
                 /\ ArgsOf(i)[2].name.no = TRUE
PROOF
<1>1. schema[i] \in Shape
  BY SchemaShape
<1>2. QED
  BY <1>1, TranslateAttrFacts, LenProperties DEF ArgsOf

LEMMA InitTInv ==
    ASSUME ConstantsAssumption
    PROVE  Init => TInv
PROOF
<1> SUFFICES ASSUME Init PROVE TInv
  OBVIOUS
<1>1. TypeOK
  BY EmptySeq DEF Init, TypeOK
<1>2. ResShape
  BY DEF Init, ResShape
<1>3. QED
  BY <1>1, <1>2 DEF TInv

(* prepare_args appends the arguments of attribute k after those of the   *)
(* earlier attributes.                                                     *)
LEMMA PrepareArgTInv ==
    ASSUME ConstantsAssumption, TInv, PrepareArg
    PROVE  TInv'
PROOF
<1>1. k \in Fields /\ schema[k] \in Shape
  <2>1. k \in Fields
    BY DEF PrepareArg, TInv, TypeOK, Fields
  <2>2. QED
    BY <2>1, SchemaShape DEF TInv, TypeOK
<1>2. /\ ArgsOf(k) \in Seq(Arg)
      /\ Len(ArgsOf(k)) \in {1, 2}
      /\ \A e \in DOMAIN ArgsOf(k) : ArgsOf(k)[e].field = k /\ ArgsOf(k)[e].dest.field = k
      /\ Len(ArgsOf(k)) = 2 => ArgsOf(k)[1].dest = ArgsOf(k)[2].dest /\ ArgsOf(k)[1].name.no = FALSE /\ ArgsOf(k)[2].name.no = TRUE
  BY <1>1, TranslateAttrFacts DEF ArgsOf
<1>3. /\ res' \in Seq(Arg)
      /\ Len(res') = Len(res) + Len(ArgsOf(k))
      /\ \A j \in 1..Len(res') : res'[j] = IF j <= Len(res) THEN res[j] ELSE ArgsOf(k)[j - Len(res)]
  BY <1>2, ConcatProperties DEF PrepareArg, TInv, TypeOK, ArgsOf
<1>4. DOMAIN res = 1..Len(res) /\ DOMAIN res' = 1..Len(res') /\ DOMAIN ArgsOf(k) = 1..Len(ArgsOf(k))
  BY <1>2, <1>3, LenProperties DEF TInv, TypeOK
<1>5. Covered = 1..(k - 1) /\ Covered' = 1..k
  BY <1>1 DEF PrepareArg, Covered, Fields
<1>6. \A j \in DOMAIN res : res[j].field \in 1..(k - 1) /\ res[j].dest.field = res[j].field
  <2> SUFFICES ASSUME NEW j \in DOMAIN res
               PROVE  res[j].field \in 1..(k - 1) /\ res[j].dest.field = res[j].field
    OBVIOUS
  <2>1. res[j].field \in 1..(k - 1) /\ IsArgOf(res[j], res[j].field)
    BY <1>5 DEF TInv, ResShape
  <2>2. res[j].field \in Fields
    BY <2>1, <1>1 DEF Fields
  <2>3. PICK e \in DOMAIN ArgsOf(res[j].field) : res[j] = ArgsOf(res[j].field)[e]
    BY <2>1 DEF IsArgOf
  <2>4. ArgsOf(res[j].field)[e].field = res[j].field
        /\ ArgsOf(res[j].field)[e].dest.field = res[j].field
    BY <2>2, ArgsOfFacts DEF TInv, TypeOK
  <2>5. QED
    BY <2>1, <2>3, <2>4
<1>7. TypeOK'
  BY <1>1, <1>3 DEF PrepareArg, TInv, TypeOK, Fields
<1>8. (\A j \in DOMAIN res : res[j].field \in Covered /\ IsArgOf(res[j], res[j].field))'
  <2>0. schema' = schema
    BY DEF PrepareArg
  <2> SUFFICES ASSUME NEW j \in DOMAIN res'
               PROVE  res'[j].field \in Covered' /\ IsArgOf(res'[j], res'[j].field)
    BY <2>0 DEF IsArgOf, ArgsOf
  <2>1. CASE j <= Len(res)
    <3>1. res'[j] = res[j] /\ j \in DOMAIN res
      BY <1>3, <1>4, <2>1
    <3>2. res[j].field \in 1..(k - 1) /\ IsArgOf(res[j], res[j].field)
      BY <3>1, <1>5 DEF TInv, ResShape
    <3>3. QED
      BY <3>1, <3>2, <1>1, <1>5 DEF Fields
  <2>2. CASE j > Len(res)
    <3>1. res'[j] = ArgsOf(k)[j - Len(res)] /\ j - Len(res) \in DOMAIN ArgsOf(k)
      BY <1>3, <1>4, <2>2
    <3>2. res'[j].field = k
      BY <3>1, <1>2
    <3>3. QED
      BY <3>1, <3>2, <1>1, <1>5 DEF IsArgOf, Fields
  <2>3. QED
    BY <2>1, <2>2, <1>4
<1>9. (\A j, l \in DOMAIN res :
          l < j /\ res[l].dest = res[j].dest =>
              j = l + 1 /\ res[l].name.no = FALSE /\ res[j].name.no = TRUE)'
  <2> SUFFICES ASSUME NEW j \in DOMAIN res', NEW l \in DOMAIN res',
                      l < j, res'[l].dest = res'[j].dest
               PROVE  j = l + 1 /\ res'[l].name.no = FALSE /\ res'[j].name.no = TRUE
    OBVIOUS
  <2>1. CASE j <= Len(res)
    BY <2>1, <1>3, <1>4 DEF TInv, ResShape
  <2>2. CASE l <= Len(res) /\ j > Len(res)
    <3>1. res'[l] = res[l] /\ l \in DOMAIN res /\ res'[j] = ArgsOf(k)[j - Len(res)] /\ j - Len(res) \in DOMAIN ArgsOf(k)
      BY <2>2, <1>3, <1>4
    <3>2. res'[l].dest.field \in 1..(k - 1) /\ res'[j].dest.field = k
      BY <3>1, <1>6, <1>2
    <3>3. QED
      BY <3>2
  <2>3. CASE l > Len(res)
    <3>1. res'[l] = ArgsOf(k)[l - Len(res)] /\ res'[j] = ArgsOf(k)[j - Len(res)]
          /\ l - Len(res) \in DOMAIN ArgsOf(k) /\ j - Len(res) \in DOMAIN ArgsOf(k)
      BY <2>3, <1>3, <1>4
    <3>2. l - Len(res) = 1 /\ j - Len(res) = 2 /\ Len(ArgsOf(k)) = 2
      BY <2>3, <3>1, <1>2, <1>4
    <3>3. res'[l] = ArgsOf(k)[1] /\ res'[j] = ArgsOf(k)[2] /\ j = l + 1
      BY <3>1, <3>2
    <3>4. QED
      BY <3>2, <3>3, <1>2
  <2>4. j \in Nat /\ l \in Nat /\ Len(res) \in Nat
    BY <1>3, <1>4, LenProperties DEF TInv, TypeOK
  <2>5. j <= Len(res) \/ (l <= Len(res) /\ j > Len(res)) \/ l > Len(res)
    BY <2>4
  <2>6. QED
    BY <2>1, <2>2, <2>3, <2>5, Zenon
<1>10. QED
  BY <1>7, <1>8, <1>9 DEF TInv, ResShape

(* A step that leaves the schema, the prepared arguments and the covered  *)
(* attributes alone keeps their shape.                                     *)
LEMMA ResShapeKeep ==
    ASSUME ResShape, res' = res, schema' = schema, Covered' = Covered
    PROVE  ResShape'
BY DEF ResShape, IsArgOf, ArgsOf

(* Every step but prepare_args' keeps the covered attributes.              *)
LEMMA CoveredKeep ==
    ASSUME ConstantsAssumption, TInv,
           \/ RejectName \/ FillParser \/ RejectParser \/ ParseArgs \/ RejectArgs
           \/ ExtractArg \/ Construct \/ RejectValue \/ RejectCall
    PROVE  Covered' = Covered
PROOF
<1>1. CASE RejectName
  BY <1>1 DEF RejectName, Covered
<1>2. CASE FillParser \/ RejectParser
  <2>1. k = NFields + 1 /\ k' = k /\ phase = "prepare"
        /\ phase' \notin {"prepare", "schema_error"}
    BY <1>2, ConstantsAssumption DEF TInv, TypeOK, FillParser, RejectParser
  <2>2. QED
    BY <2>1 DEF Covered, Fields
<1>3. CASE ParseArgs \/ RejectArgs \/ ExtractArg \/ Construct \/ RejectValue \/ RejectCall
  <2>1. phase \notin {"prepare", "schema_error"} /\ phase' \notin {"prepare", "schema_error"}
    BY <1>3 DEF ParseArgs, RejectArgs, ExtractArg, Construct, RejectValue, RejectCall
  <2>2. QED
    BY <2>1 DEF Covered
<1>4. QED
  BY <1>1, <1>2, <1>3

(* An accepted or rejected command line is a sequence.                     *)
LEMMA CommandLineSeq ==
    ASSUME TInv, NEW c \in CommandLines
    PROVE  c \in Seq(Tokens \cup {Absent, "flag"})
PROOF
<1>1. DOMAIN res = 1..Len(res) /\ Len(res) \in Nat
  BY LenProperties DEF TInv, TypeOK
<1>2. c \in [1..Len(res) -> Tokens \cup {Absent, "flag"}]
  BY <1>1 DEF CommandLines
<1>3. QED
  BY <1>1, <1>2, SeqDef

(* extract_args moves one namespace value and pops its key.               *)
LEMMA ExtractArgTypeOK ==
    ASSUME ConstantsAssumption, TInv, ExtractArg
    PROVE  TypeOK'
PROOF
<1> DEFINE arg == Name(schema[k].lead, k, FALSE)
<1>1. k \in Fields /\ k' = k + 1
  BY DEF ExtractArg, TInv, TypeOK, Fields
<1>2. CASE arg \in DOMAIN ns
  <2>1. ns[arg] \in PyValues
    BY <1>2 DEF TInv, TypeOK
  <2>2. ns' = Without(ns, arg)
    BY <1>2 DEF ExtractArg
  <2>3. \A d \in DOMAIN ns' : ns'[d] \in PyValues
    BY <2>2 DEF Without, TInv, TypeOK
  <2>4. pargs' \in Seq(PyValues) /\ DOMAIN kw' \subseteq Fields
    <3>1. CASE schema[k].default = NOTHING
      <4>1. pargs' = Append(pargs, ns[arg]) /\ kw' = kw
        BY <1>2, <3>1 DEF ExtractArg
      <4>2. QED
        BY <4>1, <2>1, AppendProperties DEF TInv, TypeOK
    <3>2. CASE schema[k].default # NOTHING
      <4>1. kw' = Put(kw, k, ns[arg]) /\ pargs' = pargs
        BY <1>2, <3>2 DEF ExtractArg
      <4>2. DOMAIN Put(kw, k, ns[arg]) = DOMAIN kw \cup {k}
        BY DEF Put
      <4>3. QED
        BY <4>1, <4>2, <1>1 DEF TInv, TypeOK
    <3>3. QED
      BY <3>1, <3>2
  <2>5. QED
    BY <1>1, <2>3, <2>4 DEF ExtractArg, TInv, TypeOK, Fields
<1>3. CASE arg \notin DOMAIN ns
  BY <1>1, <1>3 DEF ExtractArg, TInv, TypeOK, Fields
<1>4. QED
  BY <1>2, <1>3

LEMMA TInvStep ==
    ASSUME ConstantsAssumption
    PROVE  TInv /\ [Next]_vars => TInv'
PROOF
<1> SUFFICES ASSUME TInv, [Next]_vars PROVE TInv'
  OBVIOUS
<1>1. CASE PrepareArg
  BY <1>1, PrepareArgTInv
<1>2. CASE RejectName \/ FillParser \/ RejectParser \/ Construct \/ RejectValue \/ RejectCall
  <2>1. ResShape'
    BY <1>2, CoveredKeep, ResShapeKeep
       DEF TInv, RejectName, FillParser, RejectParser, Construct, RejectValue, RejectCall
  <2>2. TypeOK'
    BY <1>2 DEF TInv, TypeOK, Terminal, RejectName, FillParser, RejectParser, Construct,
                RejectValue, RejectCall
  <2>3. QED
    BY <2>1, <2>2 DEF TInv
<1>3. CASE ParseArgs
  <2>1. ResShape'
    BY <1>3, CoveredKeep, ResShapeKeep DEF TInv, ParseArgs
  <2>2. PICK c \in CommandLines : ~ ParseFails(c) /\ cmd' = c /\ ns' = NamespaceOf(c)
    BY <1>3 DEF ParseArgs
  <2>3. cmd' \in Seq(Tokens \cup {Absent, "flag"})
    BY <2>2, CommandLineSeq
  <2>4. \A d \in DOMAIN ns' : ns'[d] \in PyValues
    BY <2>2, NamespaceType DEF TInv, TypeOK, ResShape
  <2>5. TypeOK'
    BY <1>3, <2>3, <2>4 DEF ParseArgs, TInv, TypeOK, Fields
  <2>6. QED
    BY <2>1, <2>5 DEF TInv
<1>4. CASE RejectArgs
  <2>1. ResShape'
    BY <1>4, CoveredKeep, ResShapeKeep DEF TInv, RejectArgs
  <2>2. PICK c \in CommandLines : ParseFails(c) /\ cmd' = c
    BY <1>4 DEF RejectArgs
  <2>3. cmd' \in Seq(Tokens \cup {Absent, "flag"})
    BY <2>2, CommandLineSeq
  <2>4. TypeOK'
    BY <1>4, <2>3 DEF RejectArgs, TInv, TypeOK, Terminal
  <2>5. QED
    BY <2>1, <2>4 DEF TInv
<1>5. CASE ExtractArg
  <2>1. ResShape'
    BY <1>5, CoveredKeep, ResShapeKeep DEF TInv, ExtractArg
  <2>2. QED
    BY <1>5, <2>1, ExtractArgTypeOK DEF TInv
<1>6. CASE UNCHANGED vars
  BY <1>6 DEF vars, TInv, TypeOK, ResShape, Covered, IsArgOf, ArgsOf
<1>7. QED
  BY <1>1, <1>2, <1>3, <1>4, <1>5, <1>6 DEF Next

(* The type invariant holds in every state of every invocation, for any   *)
(* attribute shapes: prepare_args only registers well-formed arguments,    *)
(* and the namespace argparse builds holds only Python values.            *)
THEOREM TypeCorrect ==
    ASSUME ConstantsAssumption
    PROVE  Spec => []TypeOK
PROOF
<1>1. Init => TInv
  BY InitTInv
<1>2. TInv /\ [Next]_vars => TInv'
  BY TInvStep
<1>3. TInv => TypeOK
  BY DEF TInv
<1>4. QED
  BY <1>1, <1>2, <1>3, PTL DEF Spec

-----------------------------------------------------------------------------
(* The arguments of the schema once prepare_args has run.                  *)

(* Without private attributes, every accepted attribute name has no       *)
(* leading underscore.                                                     *)
LEMMA LeadsZero ==
    ASSUME ConstantsAssumption, NoPrivateArgs, TInv, ResCover, phase \in Filled
    PROVE  \A i \in Fields : schema[i].lead = 0
PROOF
<1> SUFFICES ASSUME NEW i \in Fields PROVE schema[i].lead = 0
  OBVIOUS
<1>1. Covered = Fields
  BY DEF Covered, Filled
<1>2. schema[i].lead < 2
  BY <1>1 DEF ResCover
<1>3. schema[i] \in FieldShapes /\ schema[i].lead \in 0..2
  BY SchemaShape DEF TInv, TypeOK, Schemas, Shape
<1>4. QED
  BY <1>2, <1>3 DEF NoPrivateArgs

(* What an argument registered for attribute i carries.                    *)
LEMMA ArgOfShape ==
    ASSUME ConstantsAssumption, schema \in Schemas, NEW i \in Fields, schema[i].lead = 0,
           NEW a, IsArgOf(a, i)
    PROVE  /\ a.field = i
           /\ a.dest = Key(i)
           /\ a.vtype = schema[i].type
           /\ a.positional => schema[i].default = NOTHING
           /\ schema[i].action = "store_bool" =>
                 /\ a.action = "store_const"
                 /\ a.const = IF a.name.no THEN PyFalse ELSE PyTrue
           /\ schema[i].action # "store_bool" => a = PlainArg(schema[i], i)
PROOF
<1>1. PICK e \in DOMAIN ArgsOf(i) : a = ArgsOf(i)[e]
  BY DEF IsArgOf
<1>2. CASE schema[i].action = "store_bool"
  <2>1. ArgsOf(i) = StoreBoolArgs(schema[i], i)
    BY <1>2 DEF ArgsOf, TranslateAttr
  <2>2. e \in {1, 2}
    BY <1>1, <2>1 DEF StoreBoolArgs
  <2>3. CASE e = 1
    <3>1. a = StoreBoolArgs(schema[i], i)[1]
      BY <1>1, <2>1, <2>3
    <3>2. /\ a.field = i /\ a.name.no = FALSE /\ a.positional = (schema[i].default = NOTHING)
          /\ a.action = "store_const" /\ a.dest = Name(schema[i].lead, i, FALSE)
          /\ a.const = PyTrue /\ a.vtype = schema[i].type
      BY <3>1 DEF StoreBoolArgs, Name
    <3>3. QED
      BY <3>2, <1>2 DEF Key, Name
  <2>4. CASE e = 2
    <3>1. a = StoreBoolArgs(schema[i], i)[2]
      BY <1>1, <2>1, <2>4
    <3>2. /\ a.field = i /\ a.name.no = TRUE /\ a.positional = FALSE
          /\ a.action = "store_const" /\ a.dest = Name(schema[i].lead, i, FALSE)
          /\ a.const = PyFalse /\ a.vtype = schema[i].type
      BY <3>1 DEF StoreBoolArgs, Name
    <3>3. QED
      BY <3>2, <1>2 DEF Key, Name
  <2>5. QED
    BY <2>2, <2>3, <2>4
<1>3. CASE schema[i].action # "store_bool"
  <2>1. ArgsOf(i) = << PlainArg(schema[i], i) >>
    BY <1>3 DEF ArgsOf, TranslateAttr
  <2>2. a = PlainArg(schema[i], i)
    BY <1>1, <2>1
  <2>3. QED
    BY <1>3, <2>2 DEF PlainArg, Key, Name
<1>4. QED
  BY <1>2, <1>3

(* The lookup key of extract_args tells the attributes apart.              *)
LEMMA KeyInjective ==
    ASSUME NEW i, NEW l, Key(i) = Key(l)
    PROVE  i = l
BY DEF Key, Name

(* The context of the lemmas below: the parser is filled, no name is      *)
(* private.                                                                *)
Filled0 == ConstantsAssumption /\ NoPrivateArgs /\ TInv /\ ResCover /\ phase \in Filled

(* Every registered argument's dest is its attribute's lookup key.        *)
LEMMA DestIsKey ==
    ASSUME Filled0, NEW j \in DOMAIN res
    PROVE  res[j].field \in Fields /\ res[j].dest = Key(res[j].field)
           /\ IsArgOf(res[j], res[j].field)
PROOF
<1>1. res[j].field \in Fields /\ IsArgOf(res[j], res[j].field)
  BY DEF Filled0, TInv, ResShape, Covered, Filled
<1>2. schema[res[j].field].lead = 0
  BY <1>1, LeadsZero DEF Filled0
<1>3. QED
  BY <1>1, <1>2, ArgOfShape DEF Filled0, TInv, TypeOK

(* argparse's dests are the lookup keys of the attributes.                 *)
LEMMA DestsKeys ==
    ASSUME Filled0
    PROVE  Dests = {Key(i) : i \in Fields}
PROOF
<1>1. \A j \in DOMAIN res : res[j].dest \in {Key(i) : i \in Fields}
  BY DestIsKey
<1>2. ASSUME NEW i \in Fields PROVE Key(i) \in Dests
  <2>0. ConstantsAssumption /\ schema \in Schemas
    BY DEF Filled0, TInv, TypeOK
  <2>1. 1 \in DOMAIN ArgsOf(i) /\ ArgsOf(i)[1].field = i
    <3>1. Len(ArgsOf(i)) \in {1, 2} /\ DOMAIN ArgsOf(i) = 1..Len(ArgsOf(i))
          /\ \A e \in DOMAIN ArgsOf(i) : ArgsOf(i)[e].field = i
      BY <2>0, ArgsOfFacts
    <3>2. QED
      BY <3>1
  <2>2. PICK j \in DOMAIN res : res[j] = ArgsOf(i)[1]
    BY <2>1 DEF Filled0, ResCover, Covered, Filled
  <2>3. res[j].field = i
    BY <2>1, <2>2
  <2>4. res[j].dest = Key(i)
    BY <2>3, DestIsKey
  <2>5. QED
    BY <2>4 DEF Dests
<1>3. QED
  BY <1>1, <1>2 DEF Dests

(* The first argument argparse takes a dest's default from is the first  *)
(* one prepare_args registered for the attribute ("--x" of a store_bool). *)
LEMMA FirstArg ==
    ASSUME Filled0, NEW i \in Fields
    PROVE  res[FirstWithDest(Key(i))] = ArgsOf(i)[1]
PROOF
<1> DEFINE f1 == FirstWithDest(Key(i))
<1>1. Key(i) \in Dests
  BY DestsKeys
<1>2. f1 \in DOMAIN res /\ res[f1].dest = Key(i) /\ \A l \in 1..(f1 - 1) : res[l].dest # Key(i)
  BY <1>1, FirstWithDestProp DEF Filled0, TInv, TypeOK, ResShape
<1>3. res[f1].field = i /\ IsArgOf(res[f1], i)
  BY <1>2, DestIsKey, KeyInjective
<1>4. PICK e \in DOMAIN ArgsOf(i) : res[f1] = ArgsOf(i)[e]
  BY <1>3 DEF IsArgOf
<1>0. ConstantsAssumption /\ schema \in Schemas
  BY DEF Filled0, TInv, TypeOK
<1>5. /\ DOMAIN ArgsOf(i) = 1..Len(ArgsOf(i)) /\ Len(ArgsOf(i)) \in {1, 2}
      /\ Len(ArgsOf(i)) = 2 => ArgsOf(i)[1].dest = ArgsOf(i)[2].dest
                               /\ ArgsOf(i)[1].name.no = FALSE
                               /\ ArgsOf(i)[2].name.no = TRUE
  BY <1>0, ArgsOfFacts
<1>6. CASE e = 1
  BY <1>4, <1>6
<1>7. CASE e = 2
  <2>0. 1 \in DOMAIN ArgsOf(i)
    BY <1>5
  <2>1. PICK j1 \in DOMAIN res : res[j1] = ArgsOf(i)[1]
    BY <2>0 DEF Filled0, ResCover, Covered, Filled
  <2>2. res[j1].dest = res[f1].dest /\ res[f1].name.no = TRUE /\ res[j1].name.no = FALSE
    BY <1>4, <1>5, <1>7, <2>1
  <2>3. DOMAIN res = 1..Len(res)
    BY LenProperties DEF Filled0, TInv, TypeOK
  <2>4. CASE j1 < f1
    BY <1>2, <2>2, <2>3, <2>4
  <2>5. CASE f1 < j1
    <3>1. res[f1].name.no = FALSE
      BY <1>2, <2>1, <2>2, <2>5 DEF Filled0, TInv, ResShape
    <3>2. QED
      BY <3>1, <2>2
  <2>6. j1 # f1
    BY <2>2
  <2>7. j1 < f1 \/ f1 < j1
    BY <2>3, <2>6, <1>2
  <2>8. QED
    BY <2>7, <2>4, <2>5
<1>8. QED
  BY <1>4, <1>5, <1>6, <1>7

-----------------------------------------------------------------------------
(* The inductive invariant.                                                *)

(* prepare_args keeps the arguments it registered and adds all of         *)
(* attribute k's.                                                          *)
LEMMA PrepareArgCover ==
    ASSUME ConstantsAssumption, TInv, ResCover, PrepareArg
    PROVE  ResCover'
PROOF
<1>1. k \in Fields /\ schema[k] \in Shape /\ Covered = 1..(k - 1) /\ Covered' = 1..k
  BY SchemaShape DEF PrepareArg, TInv, TypeOK, Fields, Covered
<1>2. /\ ArgsOf(k) \in Seq(Arg) /\ DOMAIN ArgsOf(k) = 1..Len(ArgsOf(k))
      /\ res \in Seq(Arg) /\ res' = res \o ArgsOf(k)
  BY <1>1, ArgsOfFacts DEF TInv, TypeOK, PrepareArg, ArgsOf
<1>3. /\ DOMAIN res' = 1..(Len(res) + Len(ArgsOf(k)))
      /\ \A j \in DOMAIN res : res'[j] = res[j]
      /\ \A e \in DOMAIN ArgsOf(k) : res'[Len(res) + e] = ArgsOf(k)[e]
  BY <1>2, ConcatProperties
<1>4. schema' = schema
  BY DEF PrepareArg
<1> SUFFICES ASSUME NEW i \in 1..k
             PROVE  /\ schema[i].lead < 2
                    /\ \A e \in DOMAIN ArgsOf(i) : \E j \in DOMAIN res' : res'[j] = ArgsOf(i)[e]
  BY <1>1, <1>4 DEF ResCover, ArgsOf
<1>5. CASE i < k
  <2>1. i \in Covered
    BY <1>1, <1>5, ConstantsAssumption DEF Fields
  <2>2. DOMAIN res = 1..Len(res)
    BY <1>2, LenProperties
  <2>3. QED
    BY <2>1, <2>2, <1>3 DEF ResCover
<1>6. CASE i = k
  <2>1. schema[k].lead < 2
    BY DEF PrepareArg
  <2>2. ASSUME NEW e \in DOMAIN ArgsOf(k)
        PROVE  Len(res) + e \in DOMAIN res' /\ res'[Len(res) + e] = ArgsOf(k)[e]
    BY <1>2, <1>3, LenProperties
  <2>3. QED
    BY <1>6, <2>1, <2>2
<1>7. QED
  BY <1>1, <1>5, <1>6, ConstantsAssumption DEF Fields

(* Every other step keeps the schema, the registered arguments and the    *)
(* covered attributes.                                                     *)
LEMMA CoverStep ==
    ASSUME ConstantsAssumption, TInv, ResCover, [Next]_vars
    PROVE  ResCover'
PROOF
<1>1. CASE PrepareArg
  BY <1>1, PrepareArgCover
<1>2. CASE \/ RejectName \/ FillParser \/ RejectParser \/ ParseArgs \/ RejectArgs
           \/ ExtractArg \/ Construct \/ RejectValue \/ RejectCall
  <2>1. Covered' = Covered /\ schema' = schema /\ res' = res
    BY <1>2, CoveredKeep DEF RejectName, FillParser, RejectParser, ParseArgs, RejectArgs,
                              ExtractArg, Construct, RejectValue, RejectCall
  <2>2. QED
    BY <2>1 DEF ResCover, ArgsOf
<1>3. CASE UNCHANGED vars
  BY <1>3 DEF vars, ResCover, Covered, ArgsOf
<1>4. QED
  BY <1>1, <1>2, <1>3 DEF Next

(* Which command lines argparse accepts depends only on the registered    *)
(* arguments and the parser class.                                         *)
LEMMA ParseKeep ==
    ASSUME res' = res, klass' = klass, NEW c
    PROVE  /\ (c \in CommandLines)' <=> c \in CommandLines
           /\ ParseFails(c)' <=> ParseFails(c)
           /\ BadPositional' <=> BadPositional
           /\ NamespaceOf(c)' = NamespaceOf(c)
BY DEF CommandLines, ParseFails, ArgValue, TypedWithDest, Dests, BadPositional,
       NamespaceOf, FirstWithDest

LEMMA CmdStep ==
    ASSUME TInv, CmdShape, [Next]_vars
    PROVE  CmdShape'
PROOF
<1>1. CASE PrepareArg \/ RejectName
  <2>1. phase' \in {"prepare", "schema_error"} /\ phase = "prepare"
        /\ UNCHANGED <<cmd, ns, pargs, kw>>
    BY <1>1 DEF PrepareArg, RejectName
  <2>2. QED
    BY <2>1 DEF CmdShape, Parsed, Filled
<1>2. CASE FillParser \/ RejectParser
  <2>1. phase = "prepare" /\ UNCHANGED <<cmd, ns, pargs, kw, res, klass>>
    BY <1>2 DEF FillParser, RejectParser
  <2>2. BadPositional' <=> BadPositional
    BY <2>1, ParseKeep
  <2>3. CASE FillParser
    BY <2>1, <2>2, <2>3 DEF FillParser, CmdShape, Parsed, Filled
  <2>4. CASE RejectParser
    BY <2>1, <2>2, <2>4 DEF RejectParser, CmdShape, Parsed, Filled
  <2>5. QED
    BY <1>2, <2>3, <2>4
<1>3. CASE ParseArgs
  <2>1. PICK c \in CommandLines : ~ ParseFails(c) /\ cmd' = c /\ ns' = NamespaceOf(c)
    BY <1>3 DEF ParseArgs
  <2>2. phase = "parse" /\ phase' = "extract" /\ UNCHANGED <<res, klass>>
    BY <1>3 DEF ParseArgs
  <2>3. (c \in CommandLines)' /\ ~ ParseFails(c)' /\ (BadPositional' <=> BadPositional)
    BY <2>1, <2>2, ParseKeep
  <2>4. QED
    BY <2>1, <2>2, <2>3 DEF CmdShape, Parsed, Filled
<1>4. CASE RejectArgs
  <2>1. PICK c \in CommandLines : ParseFails(c) /\ cmd' = c
    BY <1>4 DEF RejectArgs
  <2>2. phase = "parse" /\ phase' = "parse_error" /\ UNCHANGED <<res, klass, ns, pargs, kw>>
    BY <1>4 DEF RejectArgs
  <2>3. (c \in CommandLines)' /\ ParseFails(c)' /\ (BadPositional' <=> BadPositional)
    BY <2>1, <2>2, ParseKeep
  <2>4. QED
    BY <2>1, <2>2, <2>3 DEF CmdShape, Parsed, Filled
<1>5. CASE ExtractArg \/ Construct \/ RejectValue \/ RejectCall
  <2>1. phase \in Parsed /\ phase' \in Parsed /\ UNCHANGED <<res, klass, cmd>>
    BY <1>5 DEF ExtractArg, Construct, RejectValue, RejectCall, Parsed
  <2>2. (cmd \in CommandLines)' /\ ~ ParseFails(cmd)' /\ (BadPositional' <=> BadPositional)
    BY <2>1, ParseKeep DEF CmdShape
  <2>3. QED
    BY <2>1, <2>2 DEF CmdShape, Parsed, Filled
<1>6. CASE UNCHANGED vars
  <2>1. UNCHANGED <<phase, res, klass, cmd, ns, pargs, kw>>
    BY <1>6 DEF vars
  <2>2. /\ (cmd \in CommandLines)' <=> cmd \in CommandLines
        /\ ParseFails(cmd)' <=> ParseFails(cmd)
        /\ BadPositional' <=> BadPositional
    BY <2>1 DEF CommandLines, ParseFails, ArgValue, TypedWithDest, Dests, BadPositional
  <2>3. QED
    BY <2>1, <2>2 DEF CmdShape
<1>7. QED
  BY <1>1, <1>2, <1>3, <1>4, <1>5, <1>6 DEF Next

(* The namespace of the parsed command line depends only on it, the       *)
(* registered arguments and the parser class.                              *)
LEMMA OrigKeep ==
    ASSUME res' = res, klass' = klass, cmd' = cmd
    PROVE  Orig' = Orig
BY DEF Orig, NamespaceOf, ArgValue, TypedWithDest, Dests, FirstWithDest

(* attrs only lets mandatory attributes precede the others, so the        *)
(* mandatory ones before a mandatory attribute are all those before it.   *)
LEMMA MandatoryPrefix ==
    ASSUME ConstantsAssumption, schema \in Schemas, NEW m \in Fields,
           schema[m].default = NOTHING
    PROVE  {i \in Mandatory : i < m} = 1..(m - 1)
BY DEF Schemas, AttrsOrdered, Mandatory, Fields

ICtx == ConstantsAssumption /\ NoPrivateArgs /\ IInv

(* parse_args hands extract_args the whole namespace.                      *)
LEMMA ParseArgsExtraction ==
    ASSUME ICtx, ParseArgs
    PROVE  Extraction'
PROOF
<1>1. PICK c \in CommandLines : ~ ParseFails(c) /\ cmd' = c /\ ns' = NamespaceOf(c)
  BY DEF ParseArgs
<1>2. phase = "parse" /\ phase' = "extract" /\ k' = 1
      /\ UNCHANGED <<schema, res, klass, pargs, kw>>
  BY DEF ParseArgs
<1>3. Filled0
  BY <1>2 DEF ICtx, IInv, Filled0, Filled
<1>4. DOMAIN ns' = {Key(i) : i \in k'..NFields}
  <2>1. DOMAIN NamespaceOf(c) = Dests
    BY DEF NamespaceOf
  <2>2. QED
    BY <1>1, <1>2, <1>3, <2>1, DestsKeys DEF Fields
<1>5. Orig' = ns'
  BY <1>1, <1>2, ParseKeep DEF Orig
<1>6. pargs = << >> /\ kw = << >>
  BY <1>2 DEF ICtx, IInv, CmdShape, Parsed
<1>7. {i \in Mandatory : i < 1} = {} /\ {i \in Fields \ Mandatory : i < 1} = {}
  BY DEF Mandatory, Fields
<1>8. Mandatory' = Mandatory
  BY <1>2 DEF Mandatory
<1>9. QED
  BY <1>2, <1>4, <1>5, <1>6, <1>7, <1>8 DEF Extraction

(* extract_args moves attribute k's value out of the namespace into       *)
(* _args (mandatory) or _kwargs.                                           *)
LEMMA ExtractArgExtraction ==
    ASSUME ICtx, ExtractArg
    PROVE  Extraction'
PROOF
<1>c. ConstantsAssumption /\ NFields \in Nat
  BY DEF ICtx
<1>0. /\ phase = "extract" /\ phase' = "extract" /\ k \in Fields /\ k' = k + 1
      /\ UNCHANGED <<schema, res, klass, cmd, inst>>
  BY DEF ExtractArg, ICtx, IInv, TInv, TypeOK, Fields
<1>1. Filled0 /\ schema \in Schemas /\ pargs \in Seq(PyValues)
  BY <1>0 DEF ICtx, IInv, Filled0, Filled, TInv, TypeOK
<1>2. Name(schema[k].lead, k, FALSE) = Key(k)
  BY <1>0, <1>1, LeadsZero DEF Key, Filled0
<1>3. Orig' = Orig /\ Mandatory' = Mandatory
  BY <1>0, OrigKeep DEF Mandatory
<1>e. /\ DOMAIN ns = {Key(i) : i \in k..NFields}
      /\ \A d \in DOMAIN ns : ns[d] = Orig[d]
      /\ DOMAIN pargs = {i \in Mandatory : i < k}
      /\ \A i \in DOMAIN pargs : pargs[i] = Orig[Key(i)]
      /\ DOMAIN kw = {i \in Fields \ Mandatory : i < k}
      /\ \A i \in DOMAIN kw : kw[i] = Orig[Key(i)]
  BY <1>0 DEF ICtx, IInv, Extraction, Parsed
<1>4. Key(k) \in DOMAIN ns
  BY <1>0, <1>e DEF Fields
<1>5. ns' = Without(ns, Key(k))
  BY <1>2, <1>4 DEF ExtractArg
<1>6. DOMAIN ns' = {Key(i) : i \in k'..NFields} /\ \A d \in DOMAIN ns' : ns'[d] = Orig'[d]
  <2>1. DOMAIN ns' = {Key(i) : i \in k..NFields} \ {Key(k)}
        /\ \A d \in DOMAIN ns' : ns'[d] = ns[d]
    BY <1>e, <1>5 DEF Without
  <2>2. {Key(i) : i \in k..NFields} \ {Key(k)} = {Key(i) : i \in (k + 1)..NFields}
    BY <1>0, <1>c, KeyInjective DEF Fields
  <2>3. QED
    BY <1>0, <1>3, <1>e, <2>1, <2>2
<1>7. CASE schema[k].default = NOTHING
  <2>1. pargs' = Append(pargs, ns[Key(k)]) /\ kw' = kw
    BY <1>2, <1>4, <1>7 DEF ExtractArg
  <2>2. DOMAIN pargs = 1..(k - 1) /\ Len(pargs) = k - 1
    <3>1. DOMAIN pargs = 1..(k - 1)
      BY <1>c, <1>0, <1>1, <1>e, <1>7, MandatoryPrefix
    <3>2. QED
      BY <1>c, <1>0, <1>1, <3>1, LenProperties DEF Fields
  <2>3. DOMAIN pargs' = 1..k /\ pargs'[k] = ns[Key(k)]
        /\ \A i \in 1..(k - 1) : pargs'[i] = pargs[i]
    <3>1. ns[Key(k)] \in PyValues
      BY <1>4 DEF ICtx, IInv, TInv, TypeOK
    <3>2. Len(pargs') = k /\ pargs' \in Seq(PyValues)
      BY <1>c, <1>0, <1>1, <2>1, <2>2, <3>1, AppendProperties DEF Fields
    <3>3. QED
      BY <1>c, <1>0, <1>1, <2>1, <2>2, <3>1, <3>2, AppendProperties, LenProperties DEF Fields
  <2>4. {i \in Mandatory : i < k + 1} = 1..k
    <3>1. {i \in Mandatory : i < k} = 1..(k - 1)
      BY <1>c, <1>0, <1>1, <1>7, MandatoryPrefix
    <3>2. QED
      BY <3>1, <1>c, <1>0, <1>7 DEF Mandatory, Fields
  <2>5. {i \in Fields \ Mandatory : i < k + 1} = {i \in Fields \ Mandatory : i < k}
    BY <1>0, <1>7 DEF Mandatory, Fields
  <2>6. \A i \in DOMAIN pargs' : pargs'[i] = Orig'[Key(i)]
    BY <1>c, <1>0, <1>3, <1>e, <2>2, <2>3 DEF Fields
  <2>7. QED
    BY <1>0, <1>3, <1>6, <1>e, <2>1, <2>3, <2>4, <2>5, <2>6 DEF Extraction, Parsed
<1>8. CASE schema[k].default # NOTHING
  <2>1. kw' = Put(kw, k, ns[Key(k)]) /\ pargs' = pargs
    BY <1>2, <1>4, <1>8 DEF ExtractArg
  <2>2. DOMAIN kw' = DOMAIN kw \cup {k}
        /\ \A i \in DOMAIN kw' : kw'[i] = IF i = k THEN ns[Key(k)] ELSE kw[i]
    BY <2>1 DEF Put
  <2>3. {i \in Mandatory : i < k + 1} = {i \in Mandatory : i < k}
    BY <1>0, <1>8 DEF Mandatory, Fields
  <2>4. {i \in Fields \ Mandatory : i < k + 1} = {i \in Fields \ Mandatory : i < k} \cup {k}
    BY <1>0, <1>8 DEF Mandatory, Fields
  <2>5. \A i \in DOMAIN kw' : kw'[i] = Orig'[Key(i)]
    BY <1>3, <1>4, <1>e, <2>2
  <2>6. QED
    BY <1>0, <1>3, <1>6, <1>e, <2>1, <2>2, <2>3, <2>4, <2>5 DEF Extraction, Parsed
<1>9. QED
  BY <1>7, <1>8

(* Once every attribute is extracted, _args holds one value per mandatory *)
(* attribute and _kwargs only public names: __init__ accepts the call.     *)
LEMMA ExtractedBinds ==
    ASSUME ICtx, phase = "extract", k = NFields + 1
    PROVE  BindsCleanly
PROOF
<1>c. ConstantsAssumption /\ NFields \in Nat
  BY DEF ICtx
<1>1. DOMAIN pargs = {i \in Mandatory : i < NFields + 1} /\ DOMAIN kw \subseteq Fields
      /\ pargs \in Seq(PyValues)
  BY DEF ICtx, IInv, Extraction, Parsed, TInv, TypeOK
<1>2. DOMAIN pargs = Mandatory
  BY <1>1, <1>c DEF Mandatory, Fields
<1>3. Mandatory = 1..Len(pargs) /\ Len(pargs) \in Nat
  BY <1>1, <1>2, LenProperties
<1>4. Cardinality(Mandatory) = Len(pargs)
  <2>a. 1 \in Int /\ Len(pargs) \in Int
    BY <1>3
  <2>0. Cardinality(1..Len(pargs)) = IF 1 > Len(pargs) THEN 0 ELSE Len(pargs) - 1 + 1
    BY <2>a, FS_Interval, Zenon
  <2>1. Cardinality(1..Len(pargs)) = Len(pargs)
    BY <1>3, <2>0
  <2>2. QED
    BY <1>3, <2>1
<1>5. \A i \in DOMAIN kw : schema[i].lead = 0
  BY <1>1, LeadsZero DEF ICtx, IInv, Filled0, Filled
<1>6. QED
  BY <1>4, <1>5 DEF BindsCleanly

(* from_args ends once extract_args has run over every attribute.          *)
LEMMA FinishExtraction ==
    ASSUME ICtx, Construct \/ RejectValue \/ RejectCall
    PROVE  Extraction'
PROOF
<1>c. ConstantsAssumption /\ NFields \in Nat
  BY DEF ICtx
<1>0. /\ phase = "extract" /\ k > NFields /\ k \in 1..(NFields + 1)
      /\ UNCHANGED <<schema, klass, k, res, cmd, ns, pargs, kw>>
  BY DEF Construct, RejectValue, RejectCall, ICtx, IInv, TInv, TypeOK
<1>1. k = NFields + 1
  BY <1>0, <1>c
<1>2. ~ RejectCall
  BY <1>0, <1>1, ExtractedBinds DEF RejectCall
<1>3. Orig' = Orig /\ Mandatory' = Mandatory
  BY <1>0, OrigKeep DEF Mandatory
<1>4. Extraction
  BY DEF ICtx, IInv
<1>5. phase' \in {"done", "invalid"}
  BY <1>2 DEF Construct, RejectValue
<1>6. [i \in Fields |-> Converted(i)'] = [i \in Fields |-> Converted(i)]
  BY <1>0, <1>3 DEF Converted, InitValue, Mandatory
<1>7. phase' = "done" => inst' = [i \in Fields |-> Converted(i)']
  BY <1>2, <1>6 DEF Construct, RejectValue
<1>8. phase' = "invalid" => (~ Validates([i \in Fields |-> Converted(i)]))'
  <2>1. Validates([i \in Fields |-> Converted(i)])' <=> Validates([i \in Fields |-> Converted(i)])
    BY <1>0, <1>6 DEF Validates
  <2>2. QED
    BY <1>2, <2>1 DEF Construct, RejectValue
<1>9. QED
  BY <1>0, <1>1, <1>3, <1>4, <1>5, <1>7, <1>8 DEF Extraction, Parsed

LEMMA ExtractionStep ==
    ASSUME ICtx, [Next]_vars
    PROVE  Extraction'
PROOF
<1>1. CASE PrepareArg \/ RejectName \/ FillParser \/ RejectParser \/ RejectArgs
  BY <1>1 DEF PrepareArg, RejectName, FillParser, RejectParser, RejectArgs, Extraction, Parsed
<1>2. CASE ParseArgs
  BY <1>2, ParseArgsExtraction
<1>3. CASE ExtractArg
  BY <1>3, ExtractArgExtraction
<1>4. CASE Construct \/ RejectValue \/ RejectCall
  BY <1>4, FinishExtraction
<1>5. CASE UNCHANGED vars
  <2>1. Orig' = Orig
    BY <1>5, OrigKeep DEF vars
  <2>2. QED
    BY <1>5, <2>1 DEF vars, ICtx, IInv, Extraction, Mandatory, Converted, InitValue,
                      Validates
<1>6. QED
  BY <1>1, <1>2, <1>3, <1>4, <1>5 DEF Next

LEMMA InitIInv ==
    ASSUME ConstantsAssumption
    PROVE  Init => IInv
PROOF
<1> SUFFICES ASSUME Init PROVE IInv
  OBVIOUS
<1>1. TInv
  BY InitTInv
<1>2. ResCover /\ CmdShape /\ Extraction
  BY DEF Init, ResCover, Covered, CmdShape, Parsed, Filled, Extraction
<1>3. QED
  BY <1>1, <1>2 DEF IInv

LEMMA IInvStep ==
    ASSUME ConstantsAssumption, NoPrivateArgs
    PROVE  IInv /\ [Next]_vars => IInv'
PROOF
<1> SUFFICES ASSUME IInv, [Next]_vars PROVE IInv'
  OBVIOUS
<1>1. TInv'
  BY TInvStep DEF IInv
<1>2. ResCover'
  BY CoverStep DEF IInv
<1>3. CmdShape'
  BY CmdStep DEF IInv
<1>4. Extraction'
  BY ExtractionStep DEF ICtx
<1>5. QED
  BY <1>1, <1>2, <1>3, <1>4 DEF IInv

-----------------------------------------------------------------------------
(* What argparse stores for each attribute.                                *)

(* A finite set with at most one element has no two distinct ones.         *)
LEMMA AtMostOne ==
    ASSUME NEW S, IsFiniteSet(S), Cardinality(S) <= 1, NEW x \in S, NEW y \in S
    PROVE  x = y
PROOF
<1>1. Cardinality(S) \in Nat /\ Cardinality(S) # 0
  BY FS_CardinalityType, FS_EmptySet
<1>2. Cardinality(S) = 1
  BY <1>1
<1>3. PICK z : S = {z}
  BY <1>2, FS_Singleton
<1>4. QED
  BY <1>3

(* The value typed for attribute i at position j.                           *)
IntendedAt(i, j) ==
    IF schema[i].action = "store_bool" THEN (IF res[j].name.no THEN PyFalse ELSE PyTrue)
    ELSE IF schema[i].type = "bool" THEN PyTrue
    ELSE Decode(klass, cmd[j], schema[i].type)

(* The positions typed for an attribute are those typed for its dest.      *)
LEMMA TypedKey ==
    ASSUME Filled0, cmd \in CommandLines, NEW i \in Fields
    PROVE  /\ Typed(i) = TypedWithDest(cmd, Key(i))
           /\ IsFiniteSet(Typed(i)) /\ Cardinality(Typed(i)) <= 1
PROOF
<1>1. DOMAIN cmd = DOMAIN res
  BY DEF CommandLines
<1>2. \A j \in DOMAIN res : res[j].field = i <=> res[j].dest = Key(i)
  BY DestIsKey, KeyInjective
<1>3. Typed(i) = TypedWithDest(cmd, Key(i))
  BY <1>1, <1>2 DEF Typed, TypedWithDest
<1>4. Key(i) \in Dests
  BY DestsKeys
<1>5. Cardinality(TypedWithDest(cmd, Key(i))) <= 1
  BY <1>4 DEF CommandLines
<1>6. IsFiniteSet(DOMAIN res)
  <2>1. DOMAIN res = 1..Len(res) /\ Len(res) \in Nat
    BY LenProperties DEF Filled0, TInv, TypeOK
  <2>2. QED
    BY <2>1, FS_Interval
<1>7. IsFiniteSet(TypedWithDest(cmd, Key(i)))
  BY <1>6, FS_Subset DEF TypedWithDest
<1>8. QED
  BY <1>3, <1>5, <1>7

(* argparse stores for a typed argument the value the operator meant.      *)
LEMMA TypedValue ==
    ASSUME Filled0, cmd \in CommandLines, NEW i \in Fields, NEW j \in Typed(i)
    PROVE  ArgValue(res[j], cmd[j]) = IntendedAt(i, j)
PROOF
<1>1. j \in DOMAIN res /\ res[j].field = i
  BY DEF Typed, CommandLines
<1>2. IsArgOf(res[j], i) /\ schema[i].lead = 0 /\ schema \in Schemas /\ ConstantsAssumption
  BY <1>1, DestIsKey, LeadsZero DEF Filled0, TInv, TypeOK
<1>3. CASE schema[i].action = "store_bool"
  <2>1. res[j].action = "store_const" /\ res[j].const = IF res[j].name.no THEN PyFalse ELSE PyTrue
    BY <1>2, <1>3, ArgOfShape
  <2>2. QED
    BY <1>3, <2>1 DEF ArgValue, IntendedAt
<1>4. CASE schema[i].action # "store_bool"
  <2>1. res[j] = PlainArg(schema[i], i)
    BY <1>2, <1>4, ArgOfShape
  <2>2. QED
    BY <1>4, <2>1 DEF ArgValue, IntendedAt, PlainArg
<1>5. QED
  BY <1>3, <1>4

(* An attribute something was typed for gets that value.                    *)
LEMMA OrigTyped ==
    ASSUME Filled0, cmd \in CommandLines, NEW i \in Fields, Typed(i) # {}
    PROVE  Orig[Key(i)] = Intended(i)
PROOF
<1>1. Typed(i) = TypedWithDest(cmd, Key(i)) /\ Key(i) \in Dests
  BY TypedKey, DestsKeys
<1> DEFINE j0 == CHOOSE j \in Typed(i) : TRUE
<1>2. j0 \in Typed(i)
  OBVIOUS
<1>3. Orig[Key(i)] = ArgValue(res[j0], cmd[j0])
  BY <1>1 DEF Orig, NamespaceOf
<1>4. Intended(i) = IntendedAt(i, j0)
  BY DEF Intended, IntendedAt
<1>5. QED
  BY <1>2, <1>3, <1>4, TypedValue

(* An attribute nothing was typed for: its first argument is an option     *)
(* (a positional left out fails the parse), so argparse stores the         *)
(* option's default, which AttrParserArgs took from the attribute.         *)
LEMMA OrigUntyped ==
    ASSUME Filled0, FlagsDefaultFalse, cmd \in CommandLines, ~ ParseFails(cmd),
           NEW i \in Fields, Typed(i) = {}
    PROVE  /\ schema[i].default # NOTHING
           /\ Orig[Key(i)] = Intended(i)
PROOF
<1>0. schema \in Schemas /\ ConstantsAssumption /\ schema[i].lead = 0 /\ schema[i] \in FieldShapes
  BY LeadsZero DEF Filled0, TInv, TypeOK, Schemas
<1>1. Typed(i) = TypedWithDest(cmd, Key(i)) /\ Key(i) \in Dests
  BY TypedKey, DestsKeys
<1> DEFINE j1 == FirstWithDest(Key(i))
<1>2. j1 \in DOMAIN res /\ res[j1].dest = Key(i)
  BY <1>1, FirstWithDestProp DEF Filled0, TInv, TypeOK, ResShape
<1>3. res[j1] = ArgsOf(i)[1] /\ IsArgOf(res[j1], i)
  <2>1. res[j1] = ArgsOf(i)[1]
    BY FirstArg
  <2>2. 1 \in DOMAIN ArgsOf(i)
    <3>1. Len(ArgsOf(i)) \in {1, 2} /\ DOMAIN ArgsOf(i) = 1..Len(ArgsOf(i))
      BY <1>0, ArgsOfFacts
    <3>2. QED
      BY <3>1
  <2>3. QED
    BY <2>1, <2>2 DEF IsArgOf
<1>4. cmd[j1] = Absent
  BY <1>1, <1>2 DEF TypedWithDest
<1>5. ~ res[j1].positional
  BY <1>2, <1>4 DEF ParseFails
<1>6. Orig[Key(i)] = res[j1].default
  BY <1>1 DEF Orig, NamespaceOf
<1>7. CASE schema[i].action = "store_bool"
  <2>1. res[j1] = StoreBoolArgs(schema[i], i)[1]
    BY <1>3, <1>7 DEF ArgsOf, TranslateAttr
  <2>2. res[j1].positional = (schema[i].default = NOTHING)
        /\ res[j1].default = IF schema[i].default = NOTHING THEN PyNone ELSE schema[i].default
    BY <2>1 DEF StoreBoolArgs
  <2>3. schema[i].default # NOTHING /\ res[j1].default = schema[i].default
    BY <1>5, <2>2
  <2>4. QED
    BY <1>6, <2>3 DEF Intended
<1>8. CASE schema[i].action # "store_bool"
  <2>1. res[j1] = PlainArg(schema[i], i)
    BY <1>3, <1>8 DEF ArgsOf, TranslateAttr
  <2>2. schema[i].default # NOTHING
    <3>1. res[j1].positional = (schema[i].default = NOTHING)
      BY <2>1 DEF PlainArg
    <3>2. QED
      BY <1>5, <3>1, Zenon
  <2>3. schema[i].action = "store"
    BY <1>0, <1>8 DEF Shape, ConstantsAssumption
  <2>4. schema[i].type = "bool" => schema[i].default = PyFalse
    BY <1>0, <2>3 DEF FlagsDefaultFalse
  <2>5. res[j1].default = schema[i].default
    BY <2>1, <2>2, <2>4 DEF PlainArg
  <2>6. QED
    BY <1>6, <2>2, <2>5 DEF Intended
<1>9. QED
  BY <1>7, <1>8

(* A mandatory attribute was typed: its positional would be missing        *)
(* otherwise.                                                              *)
LEMMA MandatoryTyped ==
    ASSUME Filled0, cmd \in CommandLines, ~ ParseFails(cmd), NEW i \in Mandatory
    PROVE  Typed(i) # {}
PROOF
<1>0. i \in Fields /\ schema \in Schemas /\ ConstantsAssumption /\ schema[i].lead = 0
  BY LeadsZero DEF Filled0, TInv, TypeOK, Mandatory
<1> SUFFICES ASSUME Typed(i) = {} PROVE FALSE
  OBVIOUS
<1>1. 1 \in DOMAIN ArgsOf(i)
  <2>1. Len(ArgsOf(i)) \in {1, 2} /\ DOMAIN ArgsOf(i) = 1..Len(ArgsOf(i))
    BY <1>0, ArgsOfFacts
  <2>2. QED
    BY <2>1
<1>2. PICK j \in DOMAIN res : res[j] = ArgsOf(i)[1]
  BY <1>0, <1>1 DEF Filled0, ResCover, Covered, Filled
<1>3. res[j].field = i /\ res[j].positional
  <2>1. IsArgOf(res[j], i)
    BY <1>1, <1>2 DEF IsArgOf
  <2>2. res[j].field = i
    BY <1>0, <2>1, ArgOfShape
  <2>3. ArgsOf(i)[1].positional
    BY <1>0 DEF ArgsOf, TranslateAttr, StoreBoolArgs, PlainArg, Mandatory
  <2>4. QED
    BY <1>2, <2>2, <2>3
<1>4. cmd[j] = Absent
  BY <1>3 DEF Typed, CommandLines
<1>5. QED
  BY <1>3, <1>4 DEF ParseFails

(* Once extract_args is done, __init__ receives for a mandatory attribute  *)
(* the value typed for it.                                                 *)
LEMMA MandatoryValue ==
    ASSUME ICtx, phase \in Parsed \ {"extract"}, NEW i \in Mandatory
    PROVE  Typed(i) # {} /\ InitValue(i) = Intended(i)
PROOF
<1>1. Filled0 /\ cmd \in CommandLines /\ ~ ParseFails(cmd) /\ k = NFields + 1 /\ i \in Fields
  BY DEF ICtx, IInv, Filled0, Filled, Parsed, CmdShape, Extraction, Mandatory
<1>2. Typed(i) # {}
  BY <1>1, MandatoryTyped
<1>3. i \in DOMAIN pargs /\ pargs[i] = Orig[Key(i)]
  BY <1>1 DEF ICtx, IInv, Extraction, Parsed, Fields
<1>4. QED
  BY <1>1, <1>2, <1>3, OrigTyped DEF InitValue

(* ... and for any other the value typed for it, or its default.           *)
LEMMA OptionalValue ==
    ASSUME ICtx, FlagsDefaultFalse, phase \in Parsed \ {"extract"},
           NEW i \in Fields \ Mandatory
    PROVE  InitValue(i) = Intended(i)
PROOF
<1>1. Filled0 /\ cmd \in CommandLines /\ ~ ParseFails(cmd) /\ k = NFields + 1
  BY DEF ICtx, IInv, Filled0, Filled, Parsed, CmdShape, Extraction
<1>2. i \in DOMAIN kw /\ kw[i] = Orig[Key(i)]
  BY <1>1 DEF ICtx, IInv, Extraction, Parsed, Fields
<1>3. Orig[Key(i)] = Intended(i)
  BY <1>1, OrigTyped, OrigUntyped
<1>4. QED
  BY <1>2, <1>3 DEF InitValue

(* The inductive invariant holds in every state.                           *)
LEMMA IInvInvariant ==
    ASSUME ConstantsAssumption, NoPrivateArgs
    PROVE  Spec => []IInv
PROOF
<1>1. Init => IInv
  BY InitIInv
<1>2. IInv /\ [Next]_vars => IInv'
  BY IInvStep
<1>3. QED
  BY <1>1, <1>2, PTL DEF Spec

(* from_args leaves nothing of the class in the namespace it hands on:     *)
(* extract_args pops every attribute's key (inputs.py 296-313), for any     *)
(* schema of public attributes.                                            *)
THEOREM ResidualForeignHolds ==
    ASSUME ConstantsAssumption, NoPrivateArgs
    PROVE  Spec => []ResidualForeign
PROOF
<1>1. IInv => ResidualForeign
  <2> SUFFICES ASSUME IInv, phase = "done" PROVE DOMAIN ns = {}
    BY DEF ResidualForeign
  <2>1. DOMAIN ns = {Key(i) : i \in k..NFields} /\ k = NFields + 1
    BY DEF IInv, Extraction, Parsed
  <2>2. QED
    BY <2>1, ConstantsAssumption
<1>2. QED
  BY <1>1, IInvInvariant, PTL

(* Every instance from_args builds binds each mandatory attribute to the  *)
(* value typed for its positional, for any schema of public attributes:   *)
(* extract_args collects the positionals in attribute order and attrs      *)
(* places the mandatory attributes first.                                  *)
THEOREM PositionalBindingHolds ==
    ASSUME ConstantsAssumption, NoPrivateArgs
    PROVE  Spec => []PositionalBinding
PROOF
<1>1. IInv => PositionalBinding
  <2> SUFFICES ASSUME IInv, phase = "done", NEW i \in Mandatory
               PROVE  Typed(i) # {} /\ inst[i] = Expected(i)
    BY DEF PositionalBinding
  <2>1. Typed(i) # {} /\ InitValue(i) = Intended(i)
    BY MandatoryValue DEF ICtx, Parsed
  <2>2. inst[i] = Converted(i)
    BY DEF IInv, Extraction, Parsed, Mandatory
  <2>3. QED
    BY <2>1, <2>2 DEF Converted, Expected
<1>2. QED
  BY <1>1, IInvInvariant, PTL

(* A positional argument belongs to an attribute without a default.        *)
LEMMA PositionalMandatory ==
    ASSUME ConstantsAssumption, NoPrivateArgs, TInv, ResCover,
           phase \notin {"prepare", "schema_error"}, NEW j \in DOMAIN res, res[j].positional
    PROVE  /\ res[j].field \in Fields /\ IsArgOf(res[j], res[j].field)
           /\ schema[res[j].field].lead = 0
           /\ schema[res[j].field].default = NOTHING
PROOF
<1>1. res[j].field \in Fields /\ IsArgOf(res[j], res[j].field)
  BY DEF TInv, ResShape, Covered
<1>2. schema[res[j].field].lead = 0
  <2>1. schema[res[j].field].lead < 2 /\ schema[res[j].field] \in FieldShapes
        /\ schema[res[j].field].lead \in 0..2
    BY <1>1, SchemaShape DEF ResCover, Covered, TInv, TypeOK, Schemas, Shape
  <2>2. QED
    BY <2>1 DEF NoPrivateArgs
<1>3. QED
  BY <1>1, <1>2, ArgOfShape DEF TInv, TypeOK

(* A rejected command line is one the operator could not have meant: a     *)
(* missing mandatory value or an undecodable one.                           *)
LEMMA ParseErrorUnacceptable ==
    ASSUME ICtx, phase = "parse_error", AcceptableCall
    PROVE  FALSE
PROOF
<1>1. Filled0 /\ cmd \in CommandLines /\ ParseFails(cmd) /\ ~ BadPositional
  BY DEF ICtx, IInv, Filled0, Filled, CmdShape, Parsed
<1>2. PICK j \in DOMAIN res :
        \/ res[j].positional /\ cmd[j] = Absent
        \/ cmd[j] # Absent /\ ArgValue(res[j], cmd[j]) = DecodeError
  BY <1>1 DEF ParseFails
<1>0. res[j].field \in Fields
  BY <1>1, DestIsKey
<1>i. PICK i \in Fields : i = res[j].field
  BY <1>0
<1>3. IsArgOf(res[j], i) /\ schema[i].lead = 0
      /\ schema \in Schemas /\ ConstantsAssumption
  BY <1>1, <1>i, DestIsKey, LeadsZero DEF Filled0, TInv, TypeOK
<1>4. CASE res[j].positional /\ cmd[j] = Absent
  <2>1. schema[i].default = NOTHING
    BY <1>i, <1>4, PositionalMandatory DEF ICtx, IInv, Filled0, Filled
  <2>2. PICK j2 \in Typed(i) : TRUE
    BY <2>1 DEF AcceptableCall
  <2>3. j2 \in DOMAIN res /\ res[j2].field = i /\ j2 # j /\ IsArgOf(res[j2], i)
    BY <1>1, <1>4, <2>2, DestIsKey DEF Typed, CommandLines
  <2>4. schema[i].action # "store_bool"
    BY <1>3, <1>4, <1>1, ArgOfShape DEF BadPositional
  <2>5. res[j2] = res[j]
    BY <1>3, <2>3, <2>4, ArgOfShape
  <2>6. DOMAIN res \subseteq Int /\ res[j2].dest = res[j].dest
    BY <2>5, LenProperties DEF Filled0, TInv, TypeOK
  <2>7. CASE j < j2
    <3>1. res[j].name.no = FALSE /\ res[j2].name.no = TRUE
      BY <1>1, <2>3, <2>6, <2>7 DEF Filled0, TInv, ResShape
    <3>2. QED
      BY <2>5, <3>1
  <2>8. CASE j2 < j
    <3>1. res[j2].name.no = FALSE /\ res[j].name.no = TRUE
      BY <1>1, <2>3, <2>6, <2>8 DEF Filled0, TInv, ResShape
    <3>2. QED
      BY <2>5, <3>1
  <2>9. QED
    BY <2>3, <2>6, <2>7, <2>8
<1>5. CASE cmd[j] # Absent /\ ArgValue(res[j], cmd[j]) = DecodeError
  <2>1. j \in Typed(i)
    BY <1>1, <1>i, <1>5 DEF Typed, CommandLines
  <2>2. Typed(i) = TypedWithDest(cmd, Key(i)) /\ IsFiniteSet(Typed(i))
        /\ Cardinality(Typed(i)) <= 1
    BY <1>1, <1>3, TypedKey
  <2> DEFINE j0 == CHOOSE l \in Typed(i) : TRUE
  <2>3. j0 \in Typed(i)
    BY <2>1
  <2>4. j0 = j
    BY <2>1, <2>2, <2>3, AtMostOne
  <2>5. Intended(i) = IntendedAt(i, j)
    BY <2>1, <2>4 DEF Intended, IntendedAt
  <2>6. IntendedAt(i, j) = DecodeError
    BY <1>1, <1>3, <1>5, <2>1, TypedValue
  <2>7. QED
    BY <1>3, <2>5, <2>6 DEF AcceptableCall
<1>6. QED
  BY <1>2, <1>4, <1>5

(* fill_parser can only fail on a store_bool attribute without a default,  *)
(* for which nothing can be typed on the command line it never reads.      *)
LEMMA ParserErrorUnacceptable ==
    ASSUME ICtx, phase = "parser_error", AcceptableCall
    PROVE  FALSE
PROOF
<1>1. BadPositional /\ cmd = << >>
  BY DEF ICtx, IInv, CmdShape, Parsed
<1>2. PICK j \in DOMAIN res : res[j].positional /\ res[j].action = "store_const"
  BY <1>1 DEF BadPositional
<1>3. res[j].field \in Fields /\ schema[res[j].field].default = NOTHING
  BY <1>2, PositionalMandatory DEF ICtx, IInv
<1>4. Typed(res[j].field) = {}
  BY <1>1 DEF Typed
<1>5. QED
  BY <1>3, <1>4 DEF AcceptableCall

(* After extract_args, every attribute reaches __init__ with the value the *)
(* operator meant, so the converters produce the expected values.          *)
LEMMA ConvertedExpected ==
    ASSUME ICtx, FlagsDefaultFalse, phase \in Parsed \ {"extract"}
    PROVE  [i \in Fields |-> Converted(i)] = [i \in Fields |-> Expected(i)]
PROOF
<1> SUFFICES ASSUME NEW i \in Fields PROVE Converted(i) = Expected(i)
  OBVIOUS
<1>1. InitValue(i) = Intended(i)
  <2>1. CASE i \in Mandatory
    BY <2>1, MandatoryValue
  <2>2. CASE i \notin Mandatory
    BY <2>2, OptionalValue
  <2>3. QED
    BY <2>1, <2>2
<1>2. QED
  BY <1>1 DEF Converted, Expected

(* Round trip (spec 8) for every schema of public attributes: an           *)
(* invocation on a command line the class should accept ends by building   *)
(* the instance the operator described.  fill_parser, parse_args and       *)
(* from_args agree on names, dests, defaults, positional order and         *)
(* conversion (inputs.py 136-213, 239-343).                                 *)
THEOREM RoundTripHolds ==
    ASSUME ConstantsAssumption, NoPrivateArgs, FlagsDefaultFalse
    PROVE  Spec => []RoundTrip
PROOF
<1>1. IInv => RoundTrip
  <2> SUFFICES ASSUME IInv, phase \in Terminal, phase # "schema_error", AcceptableCall
               PROVE  phase = "done" /\ inst = [i \in Fields |-> Expected(i)]
    BY DEF RoundTrip
  <2>0. ICtx
    BY DEF ICtx
  <2>1. phase \in {"done", "parser_error", "parse_error", "type_error", "invalid"}
    BY DEF Terminal
  <2>2. phase # "parser_error"
    BY <2>0, ParserErrorUnacceptable
  <2>3. phase # "parse_error"
    BY <2>0, ParseErrorUnacceptable
  <2>4. phase # "type_error"
    BY DEF IInv, Extraction, Parsed
  <2>5. [i \in Fields |-> Converted(i)] = [i \in Fields |-> Expected(i)]
    BY <2>0, <2>1, <2>2, <2>3, <2>4, ConvertedExpected DEF Parsed
  <2>6. phase # "invalid"
    <3>1. phase = "invalid" => ~ Validates([i \in Fields |-> Converted(i)])
      BY DEF IInv, Extraction, Parsed
    <3>2. Validates([i \in Fields |-> Expected(i)])
      BY DEF AcceptableCall, Validates
    <3>3. QED
      BY <2>5, <3>1, <3>2
  <2>7. inst = [i \in Fields |-> Converted(i)]
    BY <2>1, <2>2, <2>3, <2>4, <2>6 DEF IInv, Extraction, Parsed
  <2>8. QED
    BY <2>1, <2>2, <2>3, <2>4, <2>5, <2>6, <2>7
<1>2. QED
  BY <1>1, IInvInvariant, PTL
=============================================================================
