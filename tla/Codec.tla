-------------------------------- MODULE Codec --------------------------------
(***************************************************************************)
(* The codec of transactions and PSBTs: Go marshals a packet to JSON, the  *)
(* library turns hex into bytes, a user may store the value as JSON and    *)
(* read it back, or put other representations of the same bytes into it,   *)
(* and encode() takes it to Go again.                                      *)
(*                                                                         *)
(* Fields that are treated alike are one field: "script" is any optional   *)
(* byte field of an input or output, a pair any record of byte fields (the *)
(* packet's own unknowns are like an input's), a leaf one with a number    *)
(* besides (the taproot leaf scripts and script signatures).  The spent    *)
(* transaction of an input is such a "script" too: that Go can read again  *)
(* what it serialises is taken for granted, its error has no step.  Bytes  *)
(* are short sequences; a path component, a fingerprint and a number are   *)
(* small.  A key that an object lacks, or that is undefined, is Absent.    *)
(***************************************************************************)
EXTENDS Integers, Sequences

CONSTANTS
    Packets,    \* the packets Go has parsed
    Malformed,  \* messages that are not UTF-8
    Replaced,   \* what json.Marshal() writes for each of these
    Nil,        \* Go's nil, of an optional field
    Absent,     \* a JSON object has no such key
    Hardened,   \* the first hardened path index: 2^31
    Radix,      \* of the two digits a fingerprint has here
    MaxSafe,    \* the largest number all below which JavaScript has: 2^53
    KeyLength   \* of an extended key Go can read: 78 bytes

ASSUME ConstantsAssumption ==
    /\ Nil # Absent
    /\ Hardened \in Nat \ {0} /\ Radix \in Nat \ {0} /\ MaxSafe \in Nat
    /\ KeyLength \in Nat \ {0}
    /\ Malformed \subseteq STRING
    /\ Replaced \in [Malformed -> STRING \ Malformed]

(* A packet in Go.                                                         *)
TxInput == [txid : STRING, sequence : Nat, scriptSig : Seq(Nat),
            witness : Seq(Seq(Nat))]
TxOutput == [value : Nat, scriptPubKey : Seq(Nat)]
Pair == [key : Seq(Nat), value : Seq(Nat)]
Leaf == [bytes : Seq(Nat), version : Nat]
Bip32 == [pubKey : Seq(Nat), fingerprint : Nat, path : Seq(Nat)]
Derivation == [pubKey : Seq(Nat), fingerprint : Nat, path : Seq(Nat),
               leafHashes : Seq(Seq(Nat))]
Xpub == [extendedKey : Seq(Nat), fingerprint : Nat, path : Seq(Nat)]
Input == [sighashType : Nat, script : Seq(Nat) \cup {Nil},
          witnessUtxo : [value : Nat, script : Seq(Nat)] \cup {Nil},
          pairs : Seq(Pair), leaves : Seq(Leaf), bip32 : Seq(Bip32),
          derivations : Seq(Derivation)]
Output == [script : Seq(Nat) \cup {Nil}, pairs : Seq(Pair),
           bip32 : Seq(Bip32), derivations : Seq(Derivation)]
Parsed == [unsignedTx : [inputs : Seq(TxInput), outputs : Seq(TxOutput)],
           xpubs : Seq(Xpub), message : STRING \cup {Nil},
           inputs : Seq(Input), outputs : Seq(Output)]

(* Go's parser makes an input of the packet for each of the transaction's, *)
(* and likewise outputs.                                                   *)
ASSUME PacketsAssumption ==
    /\ Nil \notin Seq(Nat)
    /\ Packets \subseteq Parsed
    /\ \A p \in Packets : /\ DOMAIN p.inputs = DOMAIN p.unsignedTx.inputs
                           /\ DOMAIN p.outputs = DOMAIN p.unsignedTx.outputs

(* The same parts in JSON and as JavaScript has them.                      *)
Represented ==
    [is : {"string", "HexBytes", "Uint8Array", "object"}, of : Seq(Nat)]
Form == Represented \cup {Absent}
Digits == [index : Nat, prime : BOOLEAN]
OptionalSeq(S) == Seq(S) \cup {Absent}
TxInputForm == [txid : STRING, sequence : Nat, scriptSig : Form,
                witness : OptionalSeq(Form)]
TxOutputForm == [value : Nat, scriptPubKey : Form]
UtxoForm == [value : Nat, script : Form]
PairForm == [key : Form, value : Form]
LeafForm == [bytes : Form, version : Nat]
Bip32Form == [pubKey : Form, fingerprint : Seq(Nat), path : OptionalSeq(Nat),
              pathStr : Seq(Digits)]
DerivationForm == [pubKey : Form, fingerprint : Seq(Nat),
                   path : OptionalSeq(Nat), pathStr : Seq(Digits),
                   leafHashes : OptionalSeq(Form)]
XpubForm == [extendedKey : OptionalSeq(Nat), fingerprint : Seq(Nat),
             path : OptionalSeq(Nat), pathStr : Seq(Digits)]
InputForm == [sighashType : Nat \cup {Absent}, script : Form,
              witnessUtxo : UtxoForm \cup {Absent},
              pairs : OptionalSeq(PairForm), leaves : OptionalSeq(LeafForm),
              bip32 : OptionalSeq(Bip32Form),
              derivations : OptionalSeq(DerivationForm)]
OutputForm == [script : Form, pairs : OptionalSeq(PairForm),
               bip32 : OptionalSeq(Bip32Form),
               derivations : OptionalSeq(DerivationForm)]

(* What an object lacks is none of the values it may have.                 *)
ASSUME AbsentAssumption ==
    /\ Absent \notin Nat /\ Absent \notin STRING
    /\ Absent \notin Represented /\ Absent \notin UtxoForm
    /\ Absent \notin Seq(Nat) /\ Absent \notin Seq(Form)
    /\ Absent \notin Seq(TxInputForm) /\ Absent \notin Seq(TxOutputForm)
    /\ Absent \notin Seq(PairForm) /\ Absent \notin Seq(LeafForm)
    /\ Absent \notin Seq(Bip32Form) /\ Absent \notin Seq(DerivationForm)
    /\ Absent \notin Seq(XpubForm)
    /\ Absent \notin Seq(InputForm) /\ Absent \notin Seq(OutputForm)

VARIABLES
    packet,     \* what Go parsed
    at,         \* "go", "value", "retyped" or "encoded"
    value,      \* the decoded value in JavaScript, or what Go makes of it
    again       \* the packet is the outcome of an earlier round trip

vars == <<packet, at, value, again>>

Each(F(_), s) == [i \in DOMAIN s |-> F(s[i])]
EachIfAny(F(_), s) == IF s = Absent THEN Absent ELSE Each(F, s)

(* Bytes on their way: a hex string, an array the decoders made, one that  *)
(* a user made, and the object JSON makes of the latter.                   *)
Hex(b) == [is |-> "string", of |-> b]
HexBytes(b) == [is |-> "HexBytes", of |-> b]
Uint8Array(b) == [is |-> "Uint8Array", of |-> b]
Object(b) == [is |-> "object", of |-> b]

-----------------------------------------------------------------------------
(* Go to JSON: omitempty.  The empty path is written "m".                  *)
Omit(b) == IF b = Nil \/ b = << >> THEN Absent ELSE Hex(b)
OmitSeq(s) == IF s = << >> THEN Absent ELSE s

LittleEndian(n) == <<n % Radix, n \div Radix>>
FormatPath(path) ==
    [i \in DOMAIN path |-> [index |-> path[i] % Hardened,
                            prime |-> path[i] >= Hardened]]

MarshalTxInput(i) ==
    [txid |-> i.txid, sequence |-> i.sequence, scriptSig |-> Omit(i.scriptSig),
     witness |-> OmitSeq(Each(Hex, i.witness))]

MarshalTxOutput(o) ==
    [value |-> o.value, scriptPubKey |-> Omit(o.scriptPubKey)]

MarshalTx(t) ==
    [inputs |-> OmitSeq(Each(MarshalTxInput, t.inputs)),
     outputs |-> OmitSeq(Each(MarshalTxOutput, t.outputs))]

MarshalPair(e) == [key |-> Omit(e.key), value |-> Omit(e.value)]

MarshalLeaf(l) == [bytes |-> Omit(l.bytes), version |-> l.version]

MarshalBip32(d) ==
    [pubKey |-> Omit(d.pubKey), fingerprint |-> LittleEndian(d.fingerprint),
     path |-> OmitSeq(d.path), pathStr |-> FormatPath(d.path)]

MarshalDerivation(d) ==
    [pubKey |-> Omit(d.pubKey), fingerprint |-> LittleEndian(d.fingerprint),
     path |-> OmitSeq(d.path), pathStr |-> FormatPath(d.path),
     leafHashes |-> OmitSeq(Each(Hex, d.leafHashes))]

(* A malformed extended key becomes the empty string, which is omitted.    *)
MarshalXpub(x) ==
    [extendedKey |-> IF Len(x.extendedKey) = KeyLength THEN x.extendedKey
                     ELSE Absent,
     fingerprint |-> LittleEndian(x.fingerprint),
     path |-> OmitSeq(x.path), pathStr |-> FormatPath(x.path)]

MarshalInput(i) ==
    [sighashType |-> IF i.sighashType = 0 THEN Absent ELSE i.sighashType,
     script |-> Omit(i.script),
     witnessUtxo |-> IF i.witnessUtxo = Nil THEN Absent
                     ELSE [value |-> i.witnessUtxo.value,
                           script |-> Omit(i.witnessUtxo.script)],
     pairs |-> OmitSeq(Each(MarshalPair, i.pairs)),
     leaves |-> OmitSeq(Each(MarshalLeaf, i.leaves)),
     bip32 |-> OmitSeq(Each(MarshalBip32, i.bip32)),
     derivations |-> OmitSeq(Each(MarshalDerivation, i.derivations))]

MarshalOutput(o) ==
    [script |-> Omit(o.script),
     pairs |-> OmitSeq(Each(MarshalPair, o.pairs)),
     bip32 |-> OmitSeq(Each(MarshalBip32, o.bip32)),
     derivations |-> OmitSeq(Each(MarshalDerivation, o.derivations))]

(* json.Marshal() puts U+FFFD for every byte that is not UTF-8.            *)
Utf8(m) == IF m \in Malformed THEN Replaced[m] ELSE m

Marshal(p) ==
    [unsignedTx |-> MarshalTx(p.unsignedTx),
     xpubs |-> OmitSeq(Each(MarshalXpub, p.xpubs)),
     message |-> IF p.message = Nil THEN Absent ELSE Utf8(p.message),
     inputs |-> OmitSeq(Each(MarshalInput, p.inputs)),
     outputs |-> OmitSeq(Each(MarshalOutput, p.outputs))]

-----------------------------------------------------------------------------
(* What JavaScript takes for true: a present string that is not empty.     *)
Truthy(s) == s # Absent /\ s # Hex(<< >>)
IfTruthy(s) == IF Truthy(s) THEN s ELSE Absent
OrEmpty(s) == IF s = Absent THEN Hex(<< >>) ELSE s
OrNone(s) == IF s = Absent THEN << >> ELSE s

(* JSON.parse(): a larger number becomes one that a double has.            *)
Number(n) == IF n <= MaxSafe THEN n ELSE n - (n % 2)

(* Mutant: the decoders return plain arrays.                               *)
HexToBytes_Plain(s) == Uint8Array(s.of)

HexToBytes(s) == HexBytes(s.of)
FromHexOrEmpty(s) == IF Truthy(s) THEN HexToBytes(s) ELSE HexBytes(<< >>)
Optional(s) == IF Truthy(s) THEN HexToBytes(s) ELSE Absent

(* The JSON form of a plain array has no length: its hex is empty.         *)
ToHexAny(b) ==
    CASE b = Absent -> Absent
      [] b # Absent /\ b.is = "object" -> Hex(<< >>)
      [] OTHER -> IF b.of = << >> THEN Absent ELSE Hex(b.of)
ToHex(b) == OrEmpty(ToHexAny(b))

TxInputFromJson(j) ==
    [txid |-> j.txid, sequence |-> j.sequence,
     scriptSig |-> FromHexOrEmpty(j.scriptSig),
     witness |-> Each(FromHexOrEmpty, OrNone(j.witness))]

TxInputToJson(i) ==
    [txid |-> i.txid, sequence |-> i.sequence,
     scriptSig |-> ToHexAny(i.scriptSig),
     witness |-> OmitSeq(Each(ToHex, i.witness))]

TxOutputFromJson(j) ==
    [value |-> Number(j.value), scriptPubKey |-> FromHexOrEmpty(j.scriptPubKey)]
TxOutputToJson(o) ==
    [value |-> o.value, scriptPubKey |-> ToHexAny(o.scriptPubKey)]

TxFromJson(j) ==
    [inputs |-> Each(TxInputFromJson, OrNone(j.inputs)),
     outputs |-> Each(TxOutputFromJson, OrNone(j.outputs))]
TxToJson(t) ==
    [inputs |-> Each(TxInputToJson, t.inputs),
     outputs |-> Each(TxOutputToJson, t.outputs)]

PairFromJson(j) ==
    [key |-> FromHexOrEmpty(j.key), value |-> FromHexOrEmpty(j.value)]
PairToJson(e) == [key |-> ToHex(e.key), value |-> ToHex(e.value)]

LeafFromJson(j) == [bytes |-> FromHexOrEmpty(j.bytes), version |-> j.version]
LeafToJson(l) == [bytes |-> ToHex(l.bytes), version |-> l.version]

Bip32FromJson(j) ==
    [pubKey |-> FromHexOrEmpty(j.pubKey), fingerprint |-> j.fingerprint,
     path |-> OrNone(j.path), pathStr |-> j.pathStr]
Bip32ToJson(d) ==
    [pubKey |-> ToHex(d.pubKey), fingerprint |-> d.fingerprint,
     path |-> OmitSeq(d.path), pathStr |-> d.pathStr]

DerivationFromJson(j) ==
    [pubKey |-> FromHexOrEmpty(j.pubKey), fingerprint |-> j.fingerprint,
     path |-> OrNone(j.path), pathStr |-> j.pathStr,
     leafHashes |-> Each(FromHexOrEmpty, OrNone(j.leafHashes))]
DerivationToJson(d) ==
    [pubKey |-> ToHex(d.pubKey), fingerprint |-> d.fingerprint,
     path |-> OmitSeq(d.path), pathStr |-> d.pathStr,
     leafHashes |-> OmitSeq(Each(ToHex, d.leafHashes))]

XpubFromJson(j) ==
    [extendedKey |-> OrNone(j.extendedKey), fingerprint |-> j.fingerprint,
     path |-> OrNone(j.path), pathStr |-> j.pathStr]
XpubToJson(x) ==
    [extendedKey |-> x.extendedKey, fingerprint |-> x.fingerprint,
     path |-> OmitSeq(x.path), pathStr |-> x.pathStr]

PsbtInputFromJson(j) ==
    [sighashType |-> j.sighashType,
     script |-> Optional(j.script),
     witnessUtxo |-> IF j.witnessUtxo = Absent THEN Absent
                     ELSE [value |-> Number(j.witnessUtxo.value),
                           script |-> FromHexOrEmpty(j.witnessUtxo.script)],
     pairs |-> EachIfAny(PairFromJson, j.pairs),
     leaves |-> EachIfAny(LeafFromJson, j.leaves),
     bip32 |-> EachIfAny(Bip32FromJson, j.bip32),
     derivations |-> EachIfAny(DerivationFromJson, j.derivations)]

PsbtInputToJson(i) ==
    [sighashType |-> IF i.sighashType = 0 THEN Absent ELSE i.sighashType,
     script |-> IfTruthy(ToHexAny(i.script)),
     witnessUtxo |-> IF i.witnessUtxo = Absent THEN Absent
                     ELSE [value |-> i.witnessUtxo.value,
                           script |-> ToHex(i.witnessUtxo.script)],
     pairs |-> EachIfAny(PairToJson, i.pairs),
     leaves |-> EachIfAny(LeafToJson, i.leaves),
     bip32 |-> EachIfAny(Bip32ToJson, i.bip32),
     derivations |-> EachIfAny(DerivationToJson, i.derivations)]

PsbtOutputFromJson(j) ==
    [script |-> Optional(j.script),
     pairs |-> EachIfAny(PairFromJson, j.pairs),
     bip32 |-> EachIfAny(Bip32FromJson, j.bip32),
     derivations |-> EachIfAny(DerivationFromJson, j.derivations)]

PsbtOutputToJson(o) ==
    [script |-> IfTruthy(ToHexAny(o.script)),
     pairs |-> EachIfAny(PairToJson, o.pairs),
     bip32 |-> EachIfAny(Bip32ToJson, o.bip32),
     derivations |-> EachIfAny(DerivationToJson, o.derivations)]

PsbtFromJson(j) ==
    [unsignedTx |-> TxFromJson(j.unsignedTx),
     xpubs |-> Each(XpubFromJson, OrNone(j.xpubs)), message |-> j.message,
     inputs |-> Each(PsbtInputFromJson, OrNone(j.inputs)),
     outputs |-> Each(PsbtOutputFromJson, OrNone(j.outputs))]

PsbtToJson(p) ==
    [unsignedTx |-> TxToJson(p.unsignedTx),
     xpubs |-> OmitSeq(Each(XpubToJson, p.xpubs)), message |-> p.message,
     inputs |-> Each(PsbtInputToJson, p.inputs),
     outputs |-> Each(PsbtOutputToJson, p.outputs)]

-----------------------------------------------------------------------------
(* JSON to Go.  A missing key leaves the zero value; nonNilBytes() makes   *)
(* empty bytes nil.                                                        *)
Bytes(j) == IF j = Absent THEN << >> ELSE j.of
NonNilBytes(j) == IF Bytes(j) = << >> THEN Nil ELSE j.of

FromLittleEndian(d) == d[1] + Radix * d[2]
ParsePath(s) ==
    [i \in DOMAIN s |-> s[i].index + (IF s[i].prime THEN Hardened ELSE 0)]
EffectivePath(j) ==
    IF OrNone(j.path) # << >> THEN j.path ELSE ParsePath(j.pathStr)

UnmarshalTxInput(j) ==
    [txid |-> j.txid, sequence |-> j.sequence, scriptSig |-> Bytes(j.scriptSig),
     witness |-> Each(Bytes, OrNone(j.witness))]
UnmarshalTxOutput(j) ==
    [value |-> j.value, scriptPubKey |-> Bytes(j.scriptPubKey)]
TxFromData(j) ==
    [inputs |-> Each(UnmarshalTxInput, j.inputs),
     outputs |-> Each(UnmarshalTxOutput, j.outputs)]

UnmarshalPair(j) == [key |-> Bytes(j.key), value |-> Bytes(j.value)]
UnmarshalLeaf(j) == [bytes |-> Bytes(j.bytes), version |-> j.version]
UnmarshalBip32(j) ==
    [pubKey |-> Bytes(j.pubKey), fingerprint |-> FromLittleEndian(j.fingerprint),
     path |-> EffectivePath(j)]
UnmarshalDerivation(j) ==
    [pubKey |-> Bytes(j.pubKey), fingerprint |-> FromLittleEndian(j.fingerprint),
     path |-> EffectivePath(j), leafHashes |-> Each(Bytes, OrNone(j.leafHashes))]
UnmarshalXpub(j) ==
    [extendedKey |-> j.extendedKey,
     fingerprint |-> FromLittleEndian(j.fingerprint), path |-> EffectivePath(j)]

UnmarshalInput(j) ==
    [sighashType |-> IF j.sighashType = Absent THEN 0 ELSE j.sighashType,
     script |-> NonNilBytes(j.script),
     witnessUtxo |-> IF j.witnessUtxo = Absent THEN Nil
                     ELSE IF Bytes(j.witnessUtxo.script) = << >> THEN Nil
                     ELSE [value |-> j.witnessUtxo.value,
                           script |-> Bytes(j.witnessUtxo.script)],
     pairs |-> Each(UnmarshalPair, OrNone(j.pairs)),
     bip32 |-> Each(UnmarshalBip32, OrNone(j.bip32)),
     leaves |-> Each(UnmarshalLeaf, OrNone(j.leaves)),
     derivations |-> Each(UnmarshalDerivation, OrNone(j.derivations))]
UnmarshalOutput(j) ==
    [script |-> NonNilBytes(j.script),
     pairs |-> Each(UnmarshalPair, OrNone(j.pairs)),
     bip32 |-> Each(UnmarshalBip32, OrNone(j.bip32)),
     derivations |-> Each(UnmarshalDerivation, OrNone(j.derivations))]

NoInput == [sighashType |-> 0, script |-> Nil, witnessUtxo |-> Nil,
            pairs |-> << >>, leaves |-> << >>, bip32 |-> << >>,
            derivations |-> << >>]
NoOutput == [script |-> Nil, pairs |-> << >>, bip32 |-> << >>,
             derivations |-> << >>]

(* As many inputs and outputs as the transaction has.                      *)
PsbtFromData(j) ==
    [unsignedTx |-> TxFromData(j.unsignedTx),
     xpubs |-> Each(UnmarshalXpub, OrNone(j.xpubs)),
     message |-> IF j.message = Absent THEN Nil ELSE j.message,
     inputs |-> [k \in DOMAIN j.unsignedTx.inputs |->
                    IF k \in DOMAIN j.inputs THEN UnmarshalInput(j.inputs[k])
                                             ELSE NoInput],
     outputs |-> [k \in DOMAIN j.unsignedTx.outputs |->
                    IF k \in DOMAIN j.outputs THEN UnmarshalOutput(j.outputs[k])
                                              ELSE NoOutput]]

-----------------------------------------------------------------------------
(* JSON.stringify() of bytes: toJSON() of the decoders' arrays.            *)
Stringified(b) ==
    CASE b.is = "HexBytes" -> Hex(b.of)
      [] b.is = "Uint8Array" -> Object(b.of)
      [] OTHER -> b

(* Every byte field of a decoded value in another representation.          *)
As(how, b) ==
    CASE b = Absent -> Absent
      [] b # Absent /\ how = "toJSON" -> Stringified(b)
      [] OTHER -> [is |-> how, of |-> b.of]

EachAs(how, s) == [i \in DOMAIN s |-> As(how, s[i])]

PairAs(how, e) == [key |-> As(how, e.key), value |-> As(how, e.value)]
LeafAs(how, l) == [bytes |-> As(how, l.bytes), version |-> l.version]
Bip32As(how, d) ==
    [pubKey |-> As(how, d.pubKey), fingerprint |-> d.fingerprint,
     path |-> d.path, pathStr |-> d.pathStr]
DerivationAs(how, d) ==
    [pubKey |-> As(how, d.pubKey), fingerprint |-> d.fingerprint,
     path |-> d.path, pathStr |-> d.pathStr,
     leafHashes |-> EachAs(how, d.leafHashes)]

InputAs(how, i) ==
    [sighashType |-> i.sighashType,
     script |-> As(how, i.script),
     witnessUtxo |-> IF i.witnessUtxo = Absent THEN Absent
                     ELSE [value |-> i.witnessUtxo.value,
                           script |-> As(how, i.witnessUtxo.script)],
     pairs |-> EachIfAny(LAMBDA e : PairAs(how, e), i.pairs),
     leaves |-> EachIfAny(LAMBDA l : LeafAs(how, l), i.leaves),
     bip32 |-> EachIfAny(LAMBDA d : Bip32As(how, d), i.bip32),
     derivations |-> EachIfAny(LAMBDA d : DerivationAs(how, d), i.derivations)]
OutputAs(how, o) ==
    [script |-> As(how, o.script),
     pairs |-> EachIfAny(LAMBDA e : PairAs(how, e), o.pairs),
     bip32 |-> EachIfAny(LAMBDA d : Bip32As(how, d), o.bip32),
     derivations |-> EachIfAny(LAMBDA d : DerivationAs(how, d), o.derivations)]

TxInputAs(how, i) ==
    [txid |-> i.txid, sequence |-> i.sequence,
     scriptSig |-> As(how, i.scriptSig), witness |-> EachAs(how, i.witness)]
TxOutputAs(how, o) ==
    [value |-> o.value, scriptPubKey |-> As(how, o.scriptPubKey)]

Retyped(how, p) ==
    [unsignedTx |->
        [inputs |-> Each(LAMBDA i : TxInputAs(how, i), p.unsignedTx.inputs),
         outputs |-> Each(LAMBDA o : TxOutputAs(how, o), p.unsignedTx.outputs)],
     xpubs |-> p.xpubs, message |-> p.message,
     inputs |-> Each(LAMBDA i : InputAs(how, i), p.inputs),
     outputs |-> Each(LAMBDA o : OutputAs(how, o), p.outputs)]

-----------------------------------------------------------------------------
Decode ==
    /\ at = "go"
    /\ value' = PsbtFromJson(Marshal(packet))
    /\ at' = "value"
    /\ UNCHANGED <<packet, again>>

(* The user stores the value as JSON and reads it back.                    *)
Store ==
    /\ at = "value"
    /\ value' = Retyped("toJSON", value)
    /\ UNCHANGED <<packet, at, again>>

(* The user passes arrays of their own, or hex strings.                    *)
Retype ==
    /\ at = "value"
    /\ \E how \in {"Uint8Array", "string"} : value' = Retyped(how, value)
    /\ at' = "retyped"
    /\ UNCHANGED <<packet, again>>

Encode ==
    /\ at \in {"value", "retyped"}
    /\ value' = PsbtFromData(PsbtToJson(value))
    /\ at' = "encoded"
    /\ UNCHANGED <<packet, again>>

Again ==
    /\ at = "encoded"
    /\ packet' = value /\ again' = TRUE
    /\ at' = "go"
    /\ UNCHANGED value

Init ==
    /\ packet \in Packets
    /\ at = "go" /\ value = packet /\ again = FALSE

Next == Decode \/ Store \/ Retype \/ Encode \/ Again

Spec == Init /\ [][Next]_vars

-----------------------------------------------------------------------------
(* JSON has a form for everything in the packet: no optional bytes that    *)
(* are there but empty, no spent output without a script, no amount        *)
(* JavaScript cannot count, no extended key Go cannot read, no message     *)
(* that is not UTF-8.                                                      *)
Representable(p) ==
    /\ p.message \notin Malformed
    /\ \A i \in DOMAIN p.inputs :
          /\ p.inputs[i].script # << >>
          /\ p.inputs[i].witnessUtxo = Nil
             \/ /\ p.inputs[i].witnessUtxo.script # << >>
                /\ p.inputs[i].witnessUtxo.value <= MaxSafe
    /\ \A i \in DOMAIN p.outputs : p.outputs[i].script # << >>
    /\ \A i \in DOMAIN p.unsignedTx.outputs :
          p.unsignedTx.outputs[i].value <= MaxSafe
    /\ \A i \in DOMAIN p.xpubs : Len(p.xpubs[i].extendedKey) = KeyLength

(* encode() round-trips with decode() (psbt.ts:53-56): also when the value *)
(* was stored as JSON in between, any number of times, or its bytes given  *)
(* in another representation (codec.ts:37-45); what one round trip changes *)
(* in a packet that JSON has no form for, the next ones leave as it is.    *)
RoundTrips ==
    at = "encoded" /\ (Representable(packet) \/ again) => value = packet
=============================================================================
