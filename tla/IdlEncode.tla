------------------------------ MODULE IdlEncode ------------------------------
(***************************************************************************)
(* extensions/idl-synth.ts: how a command synthesized from an Anchor IDL   *)
(* turns its flags into an instruction.  A flag is what the shell passes,  *)
(* a string; a string is the sequence of its comma-separated pieces, and a *)
(* piece is a decimal integer, a base58 public key or a word.  The data of *)
(* the instruction is read back as an Anchor program reads it.             *)
(***************************************************************************)
EXTENDS Integers, Sequences

CONSTANTS
  Base,      \* values of a byte; 256 in the code
  KeyBytes,  \* bytes of a public key; 32 in the code
  Types,     \* the types arguments are declared with
  Raws       \* strings a flag may be given, single pieces included

ASSUME BaseAssumption == Base \in Nat \ {0, 1} /\ KeyBytes \in Nat

\* A type is a name in any number of wraps, the innermost first: every type that
\* wraps another wraps one.  A defined or malformed type is a name like any other
\* that is not supported.
Wraps == [shape : {"option", "vec", "array"}, len : Nat]
ASSUME TypesAssumption == \A t \in Types : t.wraps \in Seq(Wraps)

Byte == 0..Base - 1
\* No integer has more than eight bytes.
Power[k \in 0..8] == IF k = 0 THEN 1 ELSE Base * Power[k - 1]

Piece(kind, n, bytes) == [kind |-> kind, value |-> n, bytes |-> bytes]
Empty == Piece("word", 0, <<>>)
IsInt(raw) == Len(raw) = 1 /\ raw[1].kind = "int"

SUPPORTED_PRIMITIVES == {"u8", "u16", "u32", "u64", "i8", "i16", "i32", "i64",
                         "bool", "string", "publicKey", "pubkey"}
Integral == {"u8", "u16", "u32", "u64", "i8", "i16", "i32", "i64"}
Signed == {"i8", "i16", "i32", "i64"}
Width(name) == CASE name \in {"u8", "i8"} -> 1
                 [] name \in {"u16", "i16"} -> 2
                 [] name \in {"u32", "i32"} -> 4
                 [] OTHER -> 8

-----------------------------------------------------------------------------
(* Types to tags. *)

normalizePrimitiveName(name) == IF name = "pubkey" THEN "publicKey" ELSE name
\* The wraps of a type are those of its tag.
classifyType(t) ==
  [wraps |-> t.wraps,
   leaf |-> IF t.name \in SUPPORTED_PRIMITIVES THEN normalizePrimitiveName(t.name)
                                               ELSE "unsupported"]
isUnsupportedTag(tag) == tag.leaf = "unsupported"

\* The outermost constructor of a tag.
IsOption(tag) == tag.wraps # <<>> /\ tag.wraps[Len(tag.wraps)].shape = "option"

-----------------------------------------------------------------------------
(* Values to bytes. *)

Invalid == [ok |-> FALSE, data |-> <<>>]
Bytes(data) == [ok |-> TRUE, data |-> data]

\* setUint and setBigUint of a DataView, little-endian: what does not fit the
\* width is cut off.
LE(n, width) == [i \in 1..width |-> (n \div Power[i - 1]) % Base]

\* The parts one after the other, or the first one that throws.
concatBytes(parts) ==
  LET upTo[i \in 0..Len(parts)] ==
        IF i = 0 THEN Bytes(<<>>)
        ELSE IF ~upTo[i - 1].ok THEN upTo[i - 1]
        ELSE IF ~parts[i].ok THEN parts[i]
        ELSE Bytes(upTo[i - 1].data \o parts[i].data)
  IN upTo[Len(parts)]

Min(name) == IF name \in Signed THEN -(Power[Width(name)] \div 2) ELSE 0
Limit(name) == IF name \in Signed THEN Power[Width(name)] \div 2 ELSE Power[Width(name)]
InRange(name, n) == Min(name) <= n /\ n < Limit(name)

\* Mutant: an off-by-one in a bound.
readIntLoosely(name, n) ==
  CASE name = "i64" -> TRUE
    [] name = "u64" -> n >= 0
    [] OTHER -> Min(name) <= n /\ n <= Limit(name)

\* readInt checks the range of up to four bytes; of the eight-byte integers only
\* a negative u64 is refused.
readInt(name, n) ==
  CASE name = "i64" -> TRUE
    [] name = "u64" -> n >= 0
    [] OTHER -> InRange(name, n)

Comma == <<1>>
textBytes(raw) ==
  concatBytes([i \in 1..Len(raw) |->
                 Bytes(IF i = 1 THEN raw[1].bytes ELSE Comma \o raw[i].bytes)]).data

ASSUME RawsAssumption ==
  \A r \in Raws :
    /\ r \in Seq([kind : STRING, value : Int, bytes : Seq(Byte)]) /\ r # <<>>
    /\ \A i \in DOMAIN r : /\ <<r[i]>> \in Raws
                           /\ r[i].kind = "key" => Len(r[i].bytes) = KeyBytes
    /\ Len(r) < Power[4] /\ Len(textBytes(r)) < Power[4]

\* "true" or "1", "false" or "0".
IsTrue(raw) == Len(raw) = 1 /\ <<raw[1].kind, raw[1].value>> \in {<<"true", 0>>, <<"int", 1>>}
IsFalse(raw) == Len(raw) = 1 /\ <<raw[1].kind, raw[1].value>> \in {<<"false", 0>>, <<"int", 0>>}

\* A string for a boolean.
Said(on) == CHOOSE raw \in Raws : IF on THEN IsTrue(raw) ELSE IsFalse(raw)
ASSUME SaidAssumption == (\E raw \in Raws : IsTrue(raw)) /\ (\E raw \in Raws : IsFalse(raw))

encodePrimitive(name, raw) ==
  CASE name \in Integral ->
         IF IsInt(raw) /\ readInt(name, raw[1].value)
           THEN Bytes(LE(raw[1].value, Width(name))) ELSE Invalid
    [] name = "bool" -> IF IsTrue(raw) THEN Bytes(<<1>>)
                        ELSE IF IsFalse(raw) THEN Bytes(<<0>>) ELSE Invalid
    [] name = "string" -> Bytes(LE(Len(textBytes(raw)), 4) \o textBytes(raw))
    [] name = "publicKey" -> IF Len(raw) = 1 /\ raw[1].kind = "key"
                               THEN Bytes(raw[1].bytes) ELSE Invalid
    [] OTHER -> Invalid

readArray(raw) == IF raw = <<Empty>> THEN <<>> ELSE [i \in 1..Len(raw) |-> <<raw[i]>>]

\* A part after what precedes it, unless it throws.
Prefixed(head, part) == IF part.ok THEN Bytes(head \o part.data) ELSE part

\* A value in one more wrap, "inner" being the encodings of what it wraps.
encodeWrapped(wrap, inner, raw) ==
  LET items == readArray(raw)
      body == concatBytes([i \in 1..Len(items) |-> inner[items[i]]])
  IN CASE wrap.shape = "option" -> Prefixed(<<1>>, inner[raw])
       [] wrap.shape = "vec" -> Prefixed(LE(Len(items), 4), body)
       [] OTHER -> IF Len(items) = wrap.len THEN body ELSE Invalid

\* The encodings of a tag, of each string.
encodeValue(tag) ==
  LET within[k \in 0..Len(tag.wraps)] ==
        [raw \in Raws |-> IF k = 0 THEN encodePrimitive(tag.leaf, raw)
                          ELSE encodeWrapped(tag.wraps[k], within[k - 1], raw)]
  IN within[Len(tag.wraps)]

\* encodeValue of undefined: a flag that was not given.
encodeMissing(tag) ==
  IF IsOption(tag) \/ (tag.wraps = <<>> /\ tag.leaf = "bool")
    THEN Bytes(<<0>>) ELSE Invalid

-----------------------------------------------------------------------------
(* The flags.  They live in one namespace: an argument's flag has its name,  *)
(* an account's is --account-<name> or, failing that, its name; solcli's own *)
(* options have theirs there too.                                            *)

Flag(name) == [account |-> FALSE, name |-> name]
accountFlagName(name) == [account |-> TRUE, name |-> name]

RESERVED == {"signer", "idempotency-key", "simulate", "execute", "output", "network",
             "profile", "verbose", "quiet", "no-color", "no-input", "no-cache", "yes"}
\* Of these a call hands two on as they were given, and two as booleans.
Options == {"signer", "idempotency-key"}
Switches == {"simulate", "execute"}

\* The flags a call hands to the handler, of those on its command line.  A reserved
\* one is none of the instruction's, although an argument may have its name.
extraFlags(flags) == {f \in DOMAIN flags : f.account \/ f.name \notin RESERVED}
callFlags(flags, mode) ==
  LET options == {f \in DOMAIN flags : f \in {Flag(n) : n \in Options} /\ flags[f] # <<Empty>>}
      switches == {Flag(n) : n \in Switches}
  IN [f \in extraFlags(flags) \cup options \cup switches |->
        IF f \in switches THEN Said(f.name = mode) ELSE flags[f]]

-----------------------------------------------------------------------------
(* The instruction. *)

\* The types a boolean that is no string can be encoded as.
TakesBoolean(tag) ==
  tag.leaf = "bool" /\ \A k \in DOMAIN tag.wraps : tag.wraps[k].shape = "option"

encodeArg(arg, flags) ==
  IF arg.name \in Switches /\ ~TakesBoolean(classifyType(arg.type)) THEN Invalid
  ELSE IF Flag(arg.name) \in DOMAIN flags
    THEN encodeValue(classifyType(arg.type))[flags[Flag(arg.name)]]
    ELSE encodeMissing(classifyType(arg.type))

\* An account is no boolean.
accountValue(account, flags) ==
  IF accountFlagName(account.name) \in DOMAIN flags
    THEN flags[accountFlagName(account.name)]
    ELSE IF Flag(account.name) \in DOMAIN flags /\ account.name \notin Switches
      THEN flags[Flag(account.name)]
    ELSE <<Empty>>

roleFor(signer, writable) ==
  CASE signer /\ writable -> "WRITABLE_SIGNER"
    [] signer -> "READONLY_SIGNER"
    [] writable -> "WRITABLE"
    [] OTHER -> "READONLY"
isSignerRole(role) == role \in {"WRITABLE_SIGNER", "READONLY_SIGNER"}

Metas(ix, flags) ==
  [i \in 1..Len(ix.accounts) |->
     [address |-> accountValue(ix.accounts[i], flags),
      role |-> roleFor(ix.accounts[i].signer, ix.accounts[i].writable)]]

\* The first account that signs, else the first account.
pickPayer(metas) ==
  LET signers == {i \in DOMAIN metas : isSignerRole(metas[i].role)}
  IN IF signers = {} THEN metas[1].address
     ELSE metas[CHOOSE i \in signers : \A j \in signers : i <= j].address

\* The first eight bytes of a digest of the name: abstractly, the name.
anchorSighash(ix) == ix.name

Refusal(code) == [ok |-> FALSE, code |-> code]

\* buildInstructionData, without the discriminator.
planData(ix, flags) ==
  concatBytes([i \in 1..Len(ix.args) |-> encodeArg(ix.args[i], flags)])

buildTransactionPlan(ix, programId, flags) ==
  LET metas == Metas(ix, flags)
      payerGiven == Flag("payer") \in DOMAIN flags /\ flags[Flag("payer")] # <<Empty>>
  IN IF \/ ~planData(ix, flags).ok
        \/ \E i \in DOMAIN metas : metas[i].address = <<Empty>>
        \/ ~payerGiven /\ metas = <<>>
       THEN Refusal("VALIDATION")
       ELSE [ok |-> TRUE, code |-> "none", program |-> programId,
             sighash |-> anchorSighash(ix), data |-> planData(ix, flags).data,
             accounts |-> metas,
             payer |-> IF payerGiven THEN flags[Flag("payer")] ELSE pickPayer(metas)]

\* The handler of a synthesized command.  ctx.ops of context.ts has no txExecute,
\* so a call that wants more than the plan is refused once the plan is built.
Handle(ix, programId, flags) ==
  IF \E i \in DOMAIN ix.args : isUnsupportedTag(classifyType(ix.args[i].type))
    THEN Refusal("IDL_NOT_FOUND")
  ELSE LET plan == buildTransactionPlan(ix, programId, flags)
       IN IF plan.ok /\ \E n \in Switches : IsTrue(flags[Flag(n)])
            THEN Refusal("VALIDATION") ELSE plan

-----------------------------------------------------------------------------
(* What the schema of a synthesized command asks for. *)

RequiredFlags(ix) ==
  {Flag(ix.args[i].name) : i \in DOMAIN ix.args}
  \cup {accountFlagName(ix.accounts[i].name) : i \in DOMAIN ix.accounts}

\* primitiveProperty: integers, or decimal strings for 64 bits; booleans; text.
primitiveAdmits(name, raw) ==
  CASE name \in Integral -> IsInt(raw)
    [] name = "bool" -> IsTrue(raw) \/ IsFalse(raw)
    [] name = "string" -> TRUE
    [] OTHER -> Len(raw) = 1 /\ raw[1].kind = "key"

\* propertyForTag: the strings it admits.  An option has the schema of what it wraps.
propertyAdmits(tag) ==
  LET within[k \in 0..Len(tag.wraps)] ==
        IF k = 0 THEN {raw \in Raws : primitiveAdmits(tag.leaf, raw)}
        ELSE IF tag.wraps[k].shape = "option" THEN within[k - 1]
        ELSE {raw \in Raws : \A i \in DOMAIN readArray(raw) : readArray(raw)[i] \in within[k - 1]}
  IN within[Len(tag.wraps)]

buildInputSchema(ix, flags) ==
  /\ RequiredFlags(ix) \subseteq DOMAIN flags
  /\ \A i \in DOMAIN ix.args :
       flags[Flag(ix.args[i].name)] \in propertyAdmits(classifyType(ix.args[i].type))
-----------------------------------------------------------------------------
(* What an Anchor program reads from the data of an instruction. *)

FromLE(b) == LET sum[i \in 0..Len(b)] ==
                   IF i = 0 THEN 0 ELSE sum[i - 1] + b[i] * Power[i - 1]
             IN sum[Len(b)]
Take(b, n) == SubSeq(b, 1, n)
After(b, n) == SubSeq(b, n + 1, Len(b))
Read(v, rest) == [value |-> v, rest |-> rest]

ReadPrimitive(name, b) ==
  CASE name \in Integral ->
         LET w == Width(name)
             n == FromLE(Take(b, w))
         IN Read(IF name \in Signed /\ 2 * n >= Power[w] THEN n - Power[w] ELSE n,
                 After(b, w))
    [] name = "bool" -> Read(b[1] = 1, After(b, 1))
    [] name = "string" -> LET n == FromLE(Take(b, 4))
                          IN Read(Take(After(b, 4), n), After(After(b, 4), n))
    [] OTHER -> Read(Take(b, KeyBytes), After(b, KeyBytes))

\* One value after the other, each by its own reader.
ReadEach(readers, b) ==
  LET rest[i \in 0..Len(readers)] ==
        IF i = 0 THEN b ELSE readers[i][rest[i - 1]].rest
  IN Read([i \in 1..Len(readers) |-> readers[i][rest[i - 1]].value], rest[Len(readers)])

ReadWrapped(wrap, inner, b) ==
  CASE wrap.shape = "option" ->
         IF b[1] = 0 THEN Read(<<>>, After(b, 1))
                     ELSE Read(<<inner[After(b, 1)].value>>, inner[After(b, 1)].rest)
    [] wrap.shape = "vec" ->
         ReadEach([i \in 1..FromLE(Take(b, 4)) |-> inner], After(b, 4))
    [] OTHER -> ReadEach([i \in 1..wrap.len |-> inner], b)

\* The reader of a tag.
ReadValue(tag) ==
  LET within[k \in 0..Len(tag.wraps)] ==
        [b \in Seq(Byte) |-> IF k = 0 THEN ReadPrimitive(tag.leaf, b)
                             ELSE ReadWrapped(tag.wraps[k], within[k - 1], b)]
  IN within[Len(tag.wraps)]

ReadArgs(ix, data) ==
  ReadEach([i \in 1..Len(ix.args) |-> ReadValue(classifyType(ix.args[i].type))], data)

-----------------------------------------------------------------------------
(* What a caller means by the flags, if they are of the types at all. *)

MeantPrimitive(name, raw) ==
  CASE name \in Integral -> raw[1].value
    [] name = "bool" -> IsTrue(raw)
    [] name = "string" -> textBytes(raw)
    [] OTHER -> raw[1].bytes

Meant(tag) ==
  LET within[k \in 0..Len(tag.wraps)] ==
        [raw \in Raws |->
           CASE k = 0 -> MeantPrimitive(tag.leaf, raw)
             [] k # 0 /\ tag.wraps[k].shape = "option" -> <<within[k - 1][raw]>>
             [] OTHER -> [i \in 1..Len(readArray(raw)) |->
                            within[k - 1][readArray(raw)[i]]]]
  IN within[Len(tag.wraps)]

MeantArg(arg, flags) ==
  IF Flag(arg.name) \in DOMAIN flags
    THEN Meant(classifyType(arg.type))[flags[Flag(arg.name)]]
    ELSE IF IsOption(classifyType(arg.type)) THEN <<>> ELSE FALSE

\* The strings whose integers, of the types "names", are within their type's range,
\* and whose arrays have their length.
Fits(tag, names) ==
  LET within[k \in 0..Len(tag.wraps)] ==
        IF k = 0 THEN {raw \in Raws : tag.leaf \in names =>
                         IsInt(raw) /\ InRange(tag.leaf, raw[1].value)}
        ELSE IF tag.wraps[k].shape = "option" THEN within[k - 1]
        ELSE {raw \in Raws :
                /\ tag.wraps[k].shape = "array" => Len(readArray(raw)) = tag.wraps[k].len
                /\ \A i \in DOMAIN readArray(raw) : readArray(raw)[i] \in within[k - 1]}
  IN within[Len(tag.wraps)]

ArgsFit(ix, flags, names) ==
  \A i \in DOMAIN ix.args :
    LET flag == Flag(ix.args[i].name)
    IN flag \in DOMAIN flags => flags[flag] \in Fits(classifyType(ix.args[i].type), names)

Supported(ix) ==
  \A i \in DOMAIN ix.args : ~isUnsupportedTag(classifyType(ix.args[i].type))

\* An answer says what its caller meant: the values the program reads are those of
\* the caller's flags, and flags that the schema admits and that fit are not refused.
\* Only the 64-bit integers are cut to their width instead of being refused.  An
\* argument that has the name of one of solcli's options gets what is handed on of
\* that option: whatever the caller gave, it counts as not given (a bool is FALSE,
\* an option nothing), or is the signer, the key or the mode of the call.
Faithful(ix, flags, mode, answer) ==
  LET handed == callFlags(flags, mode)
      heard(arg) == IF arg.name \in RESERVED THEN handed ELSE flags
  IN Supported(ix) =>
    /\ answer.ok /\ ArgsFit(ix, handed, {"u64", "i64"}) =>
         ReadArgs(ix, answer.data).value
           = [i \in 1..Len(ix.args) |-> MeantArg(ix.args[i], heard(ix.args[i]))]
    /\ /\ ArgsFit(ix, flags, Integral) /\ buildInputSchema(ix, flags) /\ mode = "plan"
       /\ \A i \in DOMAIN ix.args : ix.args[i].name \notin RESERVED
       /\ ix.accounts # <<>>
       /\ \A i \in DOMAIN ix.accounts : accountValue(ix.accounts[i], flags) # <<Empty>>
       => answer.ok
=============================================================================
