----------------------------- MODULE CodecProofs -----------------------------
(***************************************************************************)
(* Proofs about Codec, for all packets of any size: what a value is in     *)
(* each representation of its bytes, and what one round trip makes of it.  *)
(***************************************************************************)
EXTENDS Codec, TLAPS

(* How bytes can be represented in a value that is encoded.                *)
Reps == {"string", "HexBytes", "Uint8Array"}
Rep(r, b) == [is |-> r, of |-> b]

(* A value is stored as JSON before its arrays are replaced by others.     *)
Allowed(how, r) ==
    \/ how = "toJSON" /\ r # "Uint8Array"
    \/ how \in {"Uint8Array", "string"}
Given(how) == IF how = "toJSON" THEN "string" ELSE how

(* What the decoders make of a part, its bytes represented as r says.      *)
EachOf(r, s) == [k \in DOMAIN s |-> Rep(r, s[k])]
PairOf(r, e) == [key |-> Rep(r, e.key), value |-> Rep(r, e.value)]
PairsOf(r, s) ==
    IF s = << >> THEN Absent ELSE [k \in DOMAIN s |-> PairOf(r, s[k])]
LeafOf(r, l) == [bytes |-> Rep(r, l.bytes), version |-> l.version]
LeavesOf(r, s) ==
    IF s = << >> THEN Absent ELSE [k \in DOMAIN s |-> LeafOf(r, s[k])]
Bip32Of(r, d) ==
    [pubKey |-> Rep(r, d.pubKey), fingerprint |-> LittleEndian(d.fingerprint),
     path |-> d.path, pathStr |-> FormatPath(d.path)]
Bip32sOf(r, s) ==
    IF s = << >> THEN Absent ELSE [k \in DOMAIN s |-> Bip32Of(r, s[k])]
DerivationOf(r, d) ==
    [pubKey |-> Rep(r, d.pubKey), fingerprint |-> LittleEndian(d.fingerprint),
     path |-> d.path, pathStr |-> FormatPath(d.path),
     leafHashes |-> EachOf(r, d.leafHashes)]
DerivationsOf(r, s) ==
    IF s = << >> THEN Absent ELSE [k \in DOMAIN s |-> DerivationOf(r, s[k])]
TxInputOf(r, i) ==
    [txid |-> i.txid, sequence |-> i.sequence, scriptSig |-> Rep(r, i.scriptSig),
     witness |-> EachOf(r, i.witness)]
TxOutputOf(r, o) ==
    [value |-> Number(o.value), scriptPubKey |-> Rep(r, o.scriptPubKey)]
KeyOf(x) == IF Len(x.extendedKey) = KeyLength THEN x.extendedKey ELSE << >>
XpubOf(x) ==
    [extendedKey |-> KeyOf(x), fingerprint |-> LittleEndian(x.fingerprint),
     path |-> x.path, pathStr |-> FormatPath(x.path)]
OptionalOf(r, b) == IF b = Nil \/ b = << >> THEN Absent ELSE Rep(r, b)
UtxoOf(r, u) ==
    IF u = Nil THEN Absent
    ELSE [value |-> Number(u.value), script |-> Rep(r, u.script)]
InputOf(r, i) ==
    [sighashType |-> IF i.sighashType = 0 THEN Absent ELSE i.sighashType,
     script |-> OptionalOf(r, i.script),
     witnessUtxo |-> UtxoOf(r, i.witnessUtxo),
     pairs |-> PairsOf(r, i.pairs), leaves |-> LeavesOf(r, i.leaves),
     bip32 |-> Bip32sOf(r, i.bip32),
     derivations |-> DerivationsOf(r, i.derivations)]
OutputOf(r, o) ==
    [script |-> OptionalOf(r, o.script), pairs |-> PairsOf(r, o.pairs),
     bip32 |-> Bip32sOf(r, o.bip32),
     derivations |-> DerivationsOf(r, o.derivations)]
ValueOf(r, p) ==
    [unsignedTx |->
        [inputs |-> [k \in DOMAIN p.unsignedTx.inputs |->
                        TxInputOf(r, p.unsignedTx.inputs[k])],
         outputs |-> [k \in DOMAIN p.unsignedTx.outputs |->
                        TxOutputOf(r, p.unsignedTx.outputs[k])]],
     xpubs |-> [k \in DOMAIN p.xpubs |-> XpubOf(p.xpubs[k])],
     message |-> IF p.message = Nil THEN Absent ELSE Utf8(p.message),
     inputs |-> [k \in DOMAIN p.inputs |-> InputOf(r, p.inputs[k])],
     outputs |-> [k \in DOMAIN p.outputs |-> OutputOf(r, p.outputs[k])]]

(* What a round trip makes of a packet: it loses what JSON has no form for.*)
NormalTxOutput(o) ==
    [value |-> Number(o.value), scriptPubKey |-> o.scriptPubKey]
NormalXpub(x) ==
    [extendedKey |-> KeyOf(x), fingerprint |-> x.fingerprint, path |-> x.path]
NormalBytes(b) == IF b = << >> THEN Nil ELSE b
NormalUtxo(u) ==
    IF u = Nil THEN Nil
    ELSE IF u.script = << >> THEN Nil
    ELSE [value |-> Number(u.value), script |-> u.script]
NormalInput(i) ==
    [sighashType |-> i.sighashType, script |-> NormalBytes(i.script),
     witnessUtxo |-> NormalUtxo(i.witnessUtxo), pairs |-> i.pairs,
     leaves |-> i.leaves, bip32 |-> i.bip32, derivations |-> i.derivations]
NormalOutput(o) ==
    [script |-> NormalBytes(o.script), pairs |-> o.pairs, bip32 |-> o.bip32,
     derivations |-> o.derivations]
NormalMessage(m) == IF m = Nil THEN Nil ELSE Utf8(m)
Normal(p) ==
    [unsignedTx |->
        [inputs |-> p.unsignedTx.inputs,
         outputs |-> [k \in DOMAIN p.unsignedTx.outputs |->
                        NormalTxOutput(p.unsignedTx.outputs[k])]],
     xpubs |-> [k \in DOMAIN p.xpubs |-> NormalXpub(p.xpubs[k])],
     message |-> NormalMessage(p.message),
     inputs |-> [k \in DOMAIN p.inputs |-> NormalInput(p.inputs[k])],
     outputs |-> [k \in DOMAIN p.outputs |-> NormalOutput(p.outputs[k])]]

-----------------------------------------------------------------------------
(* Sequences.                                                              *)
LEMMA AllOfSeq ==
    ASSUME NEW S, NEW n \in Nat, NEW s \in [1..n -> S]
    PROVE  s \in Seq(S)
  OBVIOUS

LEMMA SeqShape ==
    ASSUME NEW S, NEW s \in Seq(S)
    PROVE  /\ DOMAIN s = 1..Len(s) /\ Len(s) \in Nat
           /\ \A k \in DOMAIN s : s[k] \in S
           /\ s = [k \in DOMAIN s |-> s[k]]
           /\ (s = << >>) <=> (DOMAIN s = {})
  OBVIOUS

LEMMA EmptyEach ==
    ASSUME NEW s, DOMAIN s = {}
    PROVE  [k \in DOMAIN s |-> s[k]] = << >>
  OBVIOUS

-----------------------------------------------------------------------------
(* Bytes.                                                                  *)
LEMMA RepForm ==
    ASSUME NEW r \in Reps, NEW b \in Seq(Nat)
    PROVE  /\ Rep(r, b) \in Form /\ Rep(r, b) # Absent
           /\ Rep(r, b).is = r /\ Rep(r, b).of = b
<1>1. Rep(r, b) \in Represented
  BY DEF Rep, Reps, Represented
<1> QED BY <1>1, AbsentAssumption DEF Rep, Form

LEMMA OmitForm ==
    ASSUME NEW b \in Seq(Nat)
    PROVE  /\ Hex(b) \in Form /\ Omit(b) \in Form /\ Hex(b) # Absent
           /\ Hex(b).of = b
           /\ Omit(b) = IF b = << >> THEN Absent ELSE Hex(b)
<1>1. Hex(b) = Rep("string", b) /\ "string" \in Reps
  BY DEF Hex, Rep, Reps
<1>2. b # Nil
  BY PacketsAssumption
<1> QED BY <1>1, <1>2, RepForm DEF Omit, Form

LEMMA BytesDecoded ==
    ASSUME NEW b \in Seq(Nat)
    PROVE  /\ FromHexOrEmpty(Omit(b)) = Rep("HexBytes", b)
           /\ FromHexOrEmpty(Hex(b)) = Rep("HexBytes", b)
<1>1. Hex(b).of = b /\ (Hex(b) = Hex(<< >>) => b = << >>)
  BY DEF Hex
<1>2. Truthy(Hex(b)) <=> b # << >>
  BY <1>1, OmitForm DEF Truthy
<1>3. ~Truthy(Absent)
  BY DEF Truthy
<1> QED BY <1>1, <1>2, <1>3, OmitForm DEF FromHexOrEmpty, HexToBytes, HexBytes, Rep

LEMMA BytesAs ==
    ASSUME NEW how, NEW r \in Reps, Allowed(how, r), NEW b \in Seq(Nat)
    PROVE  As(how, Rep(r, b)) = Rep(Given(how), b)
<1>1. Rep(r, b) # Absent /\ Rep(r, b).is = r /\ Rep(r, b).of = b
  BY RepForm DEF Reps
<1>2. CASE how = "toJSON"
  <2>1. As(how, Rep(r, b)) = Stringified(Rep(r, b))
    BY <1>1, <1>2 DEF As
  <2>2. r \in {"string", "HexBytes"}
    BY <1>2 DEF Allowed, Reps
  <2>3. Stringified(Rep(r, b)) = Rep("string", b)
    BY <1>1, <2>2 DEF Stringified, Hex, Rep
  <2> QED BY <1>2, <2>1, <2>3 DEF Given
<1>3. CASE how # "toJSON"
  <2>1. As(how, Rep(r, b)) = [is |-> how, of |-> Rep(r, b).of]
    BY <1>1, <1>3 DEF As
  <2> QED BY <2>1, <1>1, <1>3 DEF Given, Rep
<1> QED BY <1>2, <1>3

LEMMA BytesEncoded ==
    ASSUME NEW r \in Reps, NEW b \in Seq(Nat)
    PROVE  /\ ToHexAny(Rep(r, b)) = IF b = << >> THEN Absent ELSE Hex(b)
           /\ ToHex(Rep(r, b)) = Hex(b)
           /\ ToHexAny(Rep(r, b)) \in Form /\ ToHex(Rep(r, b)) \in Form
           /\ Bytes(ToHexAny(Rep(r, b))) = b
           /\ Bytes(ToHex(Rep(r, b))) = b
<1>1. Rep(r, b) # Absent /\ Rep(r, b).is # "object" /\ Rep(r, b).of = b
  BY RepForm DEF Reps
<1>2. ToHexAny(Rep(r, b)) = IF b = << >> THEN Absent ELSE Hex(b)
  BY <1>1 DEF ToHexAny
<1>3. ToHex(Rep(r, b)) = Hex(b)
  BY <1>2, OmitForm DEF ToHex, OrEmpty
<1>4. Hex(b).of = b
  BY DEF Hex
<1> QED BY <1>2, <1>3, <1>4, OmitForm DEF Bytes, Form


-----------------------------------------------------------------------------
(* A sequence on its way: omitted when empty, and none when it is missing. *)
LEMMA OmitMapped ==
    ASSUME NEW S, Absent \notin Seq(S), NEW n \in Nat, NEW m \in [1..n -> S]
    PROVE  /\ DOMAIN m = 1..n /\ m \in Seq(S) /\ m # Absent
           /\ (m = << >>) <=> (n = 0)
           /\ OmitSeq(m) = IF n = 0 THEN Absent ELSE m
           /\ OmitSeq(m) \in OptionalSeq(S)
           /\ OrNone(OmitSeq(m)) = m
<1>1. m \in Seq(S) /\ DOMAIN m = 1..n
  OBVIOUS
<1>2. (m = << >>) <=> (n = 0)
  BY <1>1
<1> QED BY <1>1, <1>2 DEF OmitSeq, OptionalSeq, OrNone

LEMMA BytesListEncoded ==
    ASSUME NEW r \in Reps, NEW s \in Seq(Seq(Nat))
    PROVE  /\ OmitSeq(Each(ToHex, EachOf(r, s))) \in OptionalSeq(Form)
           /\ Each(Bytes, OrNone(OmitSeq(Each(ToHex, EachOf(r, s))))) = s
<1>1. DOMAIN s = 1..Len(s) /\ Len(s) \in Nat /\ \A k \in DOMAIN s : s[k] \in Seq(Nat)
  OBVIOUS
<1> DEFINE m == Each(ToHex, EachOf(r, s))
<1>2. m = [k \in DOMAIN s |-> ToHex(Rep(r, s[k]))]
  BY DEF Each, EachOf
<1>3. m \in [1..Len(s) -> Form]
  BY <1>1, <1>2, BytesEncoded
<1>4. OmitSeq(m) \in OptionalSeq(Form) /\ OrNone(OmitSeq(m)) = m
  BY <1>1, <1>3, OmitMapped, AbsentAssumption
<1>5. Each(Bytes, m) = [k \in DOMAIN s |-> Bytes(ToHex(Rep(r, s[k])))]
  BY <1>2 DEF Each
<1>6. Each(Bytes, m) = [k \in DOMAIN s |-> s[k]]
  BY <1>1, <1>5, BytesEncoded
<1> QED BY <1>4, <1>6, SeqShape

LEMMA BytesListDecoded ==
    ASSUME NEW s \in Seq(Seq(Nat))
    PROVE  /\ OmitSeq(Each(Hex, s)) \in OptionalSeq(Form)
           /\ Each(FromHexOrEmpty, OrNone(OmitSeq(Each(Hex, s))))
                = EachOf("HexBytes", s)
<1>1. DOMAIN s = 1..Len(s) /\ Len(s) \in Nat /\ \A k \in DOMAIN s : s[k] \in Seq(Nat)
  OBVIOUS
<1> DEFINE m == Each(Hex, s)
<1>2. m = [k \in DOMAIN s |-> Hex(s[k])]
  BY DEF Each
<1>3. m \in [1..Len(s) -> Form]
  BY <1>1, <1>2, OmitForm
<1>4. OmitSeq(m) \in OptionalSeq(Form) /\ OrNone(OmitSeq(m)) = m
  BY <1>1, <1>3, OmitMapped, AbsentAssumption
<1>5. Each(FromHexOrEmpty, m) = [k \in DOMAIN s |-> FromHexOrEmpty(Hex(s[k]))]
  BY <1>2 DEF Each
<1>6. Each(FromHexOrEmpty, m) = [k \in DOMAIN s |-> Rep("HexBytes", s[k])]
  BY <1>1, <1>5, BytesDecoded
<1> QED BY <1>4, <1>6 DEF EachOf

LEMMA BytesListAs ==
    ASSUME NEW how, NEW r \in Reps, Allowed(how, r), NEW s \in Seq(Seq(Nat))
    PROVE  /\ EachOf(r, s) \in Seq(Form)
           /\ EachAs(how, EachOf(r, s)) = EachOf(Given(how), s)
<1>1. DOMAIN s = 1..Len(s) /\ Len(s) \in Nat /\ \A k \in DOMAIN s : s[k] \in Seq(Nat)
  OBVIOUS
<1>2. EachOf(r, s) \in [1..Len(s) -> Form]
  BY <1>1, RepForm DEF EachOf
<1>3. EachAs(how, EachOf(r, s)) = [k \in DOMAIN s |-> As(how, Rep(r, s[k]))]
  BY DEF EachAs, EachOf
<1>4. \A k \in DOMAIN s : As(how, Rep(r, s[k])) = Rep(Given(how), s[k])
  BY <1>1, BytesAs
<1> QED BY <1>1, <1>2, <1>3, <1>4, AllOfSeq DEF EachOf

-----------------------------------------------------------------------------
(* A pair of byte fields.                                                  *)
LEMMA PairDecoded ==
    ASSUME NEW e \in Pair
    PROVE  /\ MarshalPair(e) \in PairForm
           /\ PairFromJson(MarshalPair(e)) = PairOf("HexBytes", e)
<1>1. e.key \in Seq(Nat) /\ e.value \in Seq(Nat)
  BY DEF Pair
<1> QED BY <1>1, OmitForm, BytesDecoded
        DEF MarshalPair, PairFromJson, PairOf, PairForm

LEMMA PairRetyped ==
    ASSUME NEW how, NEW r \in Reps, Allowed(how, r), NEW e \in Pair
    PROVE  /\ PairOf(r, e) \in PairForm
           /\ PairAs(how, PairOf(r, e)) = PairOf(Given(how), e)
<1>1. e.key \in Seq(Nat) /\ e.value \in Seq(Nat)
  BY DEF Pair
<1> QED BY <1>1, RepForm, BytesAs DEF PairAs, PairOf, PairForm

LEMMA PairEncoded ==
    ASSUME NEW r \in Reps, NEW e \in Pair
    PROVE  /\ PairToJson(PairOf(r, e)) \in PairForm
           /\ UnmarshalPair(PairToJson(PairOf(r, e))) = e
<1>1. e.key \in Seq(Nat) /\ e.value \in Seq(Nat)
      /\ e = [key |-> e.key, value |-> e.value]
  BY DEF Pair
<1> QED BY <1>1, BytesEncoded DEF PairToJson, UnmarshalPair, PairOf, PairForm

LEMMA PairsDecoded ==
    ASSUME NEW s \in Seq(Pair)
    PROVE  /\ OmitSeq(Each(MarshalPair, s)) \in OptionalSeq(PairForm)
           /\ EachIfAny(PairFromJson, OmitSeq(Each(MarshalPair, s)))
                = PairsOf("HexBytes", s)
<1>1. /\ DOMAIN s = 1..Len(s) /\ Len(s) \in Nat
      /\ \A k \in DOMAIN s : s[k] \in Pair
      /\ s = << >> <=> Len(s) = 0
  OBVIOUS
<1> DEFINE m == Each(MarshalPair, s)
<1>2. m = [k \in DOMAIN s |-> MarshalPair(s[k])]
  BY DEF Each
<1>3. m \in [1..Len(s) -> PairForm]
  BY <1>1, <1>2, PairDecoded
<1> HIDE DEF m
<1>4. /\ OmitSeq(m) \in OptionalSeq(PairForm) /\ m # Absent
      /\ OmitSeq(m) = IF s = << >> THEN Absent ELSE m
  BY <1>1, <1>3, OmitMapped, AbsentAssumption
<1>5. Each(PairFromJson, m)
        = [k \in DOMAIN s |-> PairFromJson(MarshalPair(s[k]))]
  BY <1>2 DEF Each
<1>6. \A k \in DOMAIN s : PairFromJson(MarshalPair(s[k])) = PairOf("HexBytes", s[k])
  BY <1>1, PairDecoded
<1>7. Each(PairFromJson, m) = [k \in DOMAIN s |-> PairOf("HexBytes", s[k])]
  BY <1>5, <1>6
<1>8. EachIfAny(PairFromJson, OmitSeq(m)) = PairsOf("HexBytes", s)
  BY <1>4, <1>7 DEF EachIfAny, PairsOf
<1> QED BY <1>4, <1>8 DEF m

LEMMA PairsRetyped ==
    ASSUME NEW how, NEW r \in Reps, Allowed(how, r), NEW s \in Seq(Pair)
    PROVE  /\ PairsOf(r, s) \in OptionalSeq(PairForm)
           /\ EachIfAny(LAMBDA x : PairAs(how, x), PairsOf(r, s))
                = PairsOf(Given(how), s)
<1>1. /\ DOMAIN s = 1..Len(s) /\ Len(s) \in Nat
      /\ \A k \in DOMAIN s : s[k] \in Pair
  OBVIOUS
<1> DEFINE m == [k \in DOMAIN s |-> PairOf(r, s[k])]
<1>2. m \in [1..Len(s) -> PairForm]
  BY <1>1, PairRetyped
<1>3. m \in Seq(PairForm) /\ m # Absent
  BY <1>1, <1>2, OmitMapped, AbsentAssumption
<1>4. [k \in DOMAIN m |-> PairAs(how, m[k])]
        = [k \in DOMAIN s |-> PairOf(Given(how), s[k])]
  BY <1>1, PairRetyped
<1>5. PairsOf(r, s) = IF s = << >> THEN Absent ELSE m
  BY DEF PairsOf
<1> HIDE DEF m
<1>6. EachIfAny(LAMBDA x : PairAs(how, x), PairsOf(r, s))
        = IF s = << >> THEN Absent ELSE [k \in DOMAIN m |-> PairAs(how, m[k])]
  BY <1>3, <1>5 DEF EachIfAny, Each
<1> QED BY <1>3, <1>4, <1>5, <1>6 DEF PairsOf, OptionalSeq

LEMMA PairsEncoded ==
    ASSUME NEW r \in Reps, NEW s \in Seq(Pair)
    PROVE  /\ EachIfAny(PairToJson, PairsOf(r, s)) \in OptionalSeq(PairForm)
           /\ Each(UnmarshalPair, OrNone(EachIfAny(PairToJson, PairsOf(r, s)))) = s
<1>1. /\ DOMAIN s = 1..Len(s) /\ Len(s) \in Nat
      /\ \A k \in DOMAIN s : s[k] \in Pair
      /\ s = [k \in DOMAIN s |-> s[k]]
  OBVIOUS
<1>2. CASE s = << >>
  <2>1. PairsOf(r, s) = Absent
    BY <1>2 DEF PairsOf
  <2>2. EachIfAny(PairToJson, PairsOf(r, s)) = Absent
    BY <2>1 DEF EachIfAny
  <2>3. Each(UnmarshalPair, << >>) = << >>
    BY DEF Each
  <2> QED BY <1>2, <2>2, <2>3 DEF OrNone, OptionalSeq
<1>3. CASE s # << >>
  <2> DEFINE m == [k \in DOMAIN s |-> PairOf(r, s[k])]
             j == [k \in DOMAIN s |-> PairToJson(PairOf(r, s[k]))]
  <2>1. Allowed("string", r)
    BY DEF Allowed
  <2>2. m \in [1..Len(s) -> PairForm]
    BY <1>1, <2>1, PairRetyped
  <2>3. m # Absent
    BY <1>1, <2>2, OmitMapped, AbsentAssumption
  <2>4. j \in [1..Len(s) -> PairForm]
    BY <1>1, PairEncoded
  <2>5. j \in Seq(PairForm) /\ j # Absent
    BY <1>1, <2>4, OmitMapped, AbsentAssumption
  <2>6. EachIfAny(PairToJson, PairsOf(r, s)) = j
    BY <1>3, <2>3 DEF PairsOf, EachIfAny, Each
  <2>7. Each(UnmarshalPair, j) = [k \in DOMAIN s |-> s[k]]
    BY <1>1, PairEncoded DEF Each
  <2> HIDE DEF j
  <2> QED BY <1>1, <2>5, <2>6, <2>7 DEF OrNone, OptionalSeq
<1> QED BY <1>2, <1>3

-----------------------------------------------------------------------------
(* A leaf: bytes and a number.                                             *)
LEMMA LeafDecoded ==
    ASSUME NEW l \in Leaf
    PROVE  /\ MarshalLeaf(l) \in LeafForm
           /\ LeafFromJson(MarshalLeaf(l)) = LeafOf("HexBytes", l)
<1>1. l.bytes \in Seq(Nat) /\ l.version \in Nat
  BY DEF Leaf
<1> QED BY <1>1, OmitForm, BytesDecoded
        DEF MarshalLeaf, LeafFromJson, LeafOf, LeafForm

LEMMA LeafRetyped ==
    ASSUME NEW how, NEW r \in Reps, Allowed(how, r), NEW l \in Leaf
    PROVE  /\ LeafOf(r, l) \in LeafForm
           /\ LeafAs(how, LeafOf(r, l)) = LeafOf(Given(how), l)
<1>1. l.bytes \in Seq(Nat) /\ l.version \in Nat
  BY DEF Leaf
<1> QED BY <1>1, RepForm, BytesAs DEF LeafAs, LeafOf, LeafForm

LEMMA LeafEncoded ==
    ASSUME NEW r \in Reps, NEW l \in Leaf
    PROVE  /\ LeafToJson(LeafOf(r, l)) \in LeafForm
           /\ UnmarshalLeaf(LeafToJson(LeafOf(r, l))) = l
<1>1. l.bytes \in Seq(Nat) /\ l.version \in Nat
      /\ l = [bytes |-> l.bytes, version |-> l.version]
  BY DEF Leaf
<1> QED BY <1>1, BytesEncoded DEF LeafToJson, UnmarshalLeaf, LeafOf, LeafForm

LEMMA LeavesDecoded ==
    ASSUME NEW s \in Seq(Leaf)
    PROVE  /\ OmitSeq(Each(MarshalLeaf, s)) \in OptionalSeq(LeafForm)
           /\ EachIfAny(LeafFromJson, OmitSeq(Each(MarshalLeaf, s)))
                = LeavesOf("HexBytes", s)
<1>1. /\ DOMAIN s = 1..Len(s) /\ Len(s) \in Nat
      /\ \A k \in DOMAIN s : s[k] \in Leaf
      /\ s = << >> <=> Len(s) = 0
  OBVIOUS
<1> DEFINE m == Each(MarshalLeaf, s)
<1>2. m = [k \in DOMAIN s |-> MarshalLeaf(s[k])]
  BY DEF Each
<1>3. m \in [1..Len(s) -> LeafForm]
  BY <1>1, <1>2, LeafDecoded
<1> HIDE DEF m
<1>4. /\ OmitSeq(m) \in OptionalSeq(LeafForm) /\ m # Absent
      /\ OmitSeq(m) = IF s = << >> THEN Absent ELSE m
  BY <1>1, <1>3, OmitMapped, AbsentAssumption
<1>5. Each(LeafFromJson, m)
        = [k \in DOMAIN s |-> LeafFromJson(MarshalLeaf(s[k]))]
  BY <1>2 DEF Each
<1>6. \A k \in DOMAIN s : LeafFromJson(MarshalLeaf(s[k])) = LeafOf("HexBytes", s[k])
  BY <1>1, LeafDecoded
<1>7. Each(LeafFromJson, m) = [k \in DOMAIN s |-> LeafOf("HexBytes", s[k])]
  BY <1>5, <1>6
<1>8. EachIfAny(LeafFromJson, OmitSeq(m)) = LeavesOf("HexBytes", s)
  BY <1>4, <1>7 DEF EachIfAny, LeavesOf
<1> QED BY <1>4, <1>8 DEF m

LEMMA LeavesRetyped ==
    ASSUME NEW how, NEW r \in Reps, Allowed(how, r), NEW s \in Seq(Leaf)
    PROVE  /\ LeavesOf(r, s) \in OptionalSeq(LeafForm)
           /\ EachIfAny(LAMBDA x : LeafAs(how, x), LeavesOf(r, s))
                = LeavesOf(Given(how), s)
<1>1. /\ DOMAIN s = 1..Len(s) /\ Len(s) \in Nat
      /\ \A k \in DOMAIN s : s[k] \in Leaf
  OBVIOUS
<1> DEFINE m == [k \in DOMAIN s |-> LeafOf(r, s[k])]
<1>2. m \in [1..Len(s) -> LeafForm]
  BY <1>1, LeafRetyped
<1>3. m \in Seq(LeafForm) /\ m # Absent
  BY <1>1, <1>2, OmitMapped, AbsentAssumption
<1>4. [k \in DOMAIN m |-> LeafAs(how, m[k])]
        = [k \in DOMAIN s |-> LeafOf(Given(how), s[k])]
  BY <1>1, LeafRetyped
<1>5. LeavesOf(r, s) = IF s = << >> THEN Absent ELSE m
  BY DEF LeavesOf
<1> HIDE DEF m
<1>6. EachIfAny(LAMBDA x : LeafAs(how, x), LeavesOf(r, s))
        = IF s = << >> THEN Absent ELSE [k \in DOMAIN m |-> LeafAs(how, m[k])]
  BY <1>3, <1>5 DEF EachIfAny, Each
<1> QED BY <1>3, <1>4, <1>5, <1>6 DEF LeavesOf, OptionalSeq

LEMMA LeavesEncoded ==
    ASSUME NEW r \in Reps, NEW s \in Seq(Leaf)
    PROVE  /\ EachIfAny(LeafToJson, LeavesOf(r, s)) \in OptionalSeq(LeafForm)
           /\ Each(UnmarshalLeaf, OrNone(EachIfAny(LeafToJson, LeavesOf(r, s)))) = s
<1>1. /\ DOMAIN s = 1..Len(s) /\ Len(s) \in Nat
      /\ \A k \in DOMAIN s : s[k] \in Leaf
      /\ s = [k \in DOMAIN s |-> s[k]]
  OBVIOUS
<1>2. CASE s = << >>
  <2>1. LeavesOf(r, s) = Absent
    BY <1>2 DEF LeavesOf
  <2>2. EachIfAny(LeafToJson, LeavesOf(r, s)) = Absent
    BY <2>1 DEF EachIfAny
  <2>3. Each(UnmarshalLeaf, << >>) = << >>
    BY DEF Each
  <2> QED BY <1>2, <2>2, <2>3 DEF OrNone, OptionalSeq
<1>3. CASE s # << >>
  <2> DEFINE m == [k \in DOMAIN s |-> LeafOf(r, s[k])]
             j == [k \in DOMAIN s |-> LeafToJson(LeafOf(r, s[k]))]
  <2>1. Allowed("string", r)
    BY DEF Allowed
  <2>2. m \in [1..Len(s) -> LeafForm]
    BY <1>1, <2>1, LeafRetyped
  <2>3. m # Absent
    BY <1>1, <2>2, OmitMapped, AbsentAssumption
  <2>4. j \in [1..Len(s) -> LeafForm]
    BY <1>1, LeafEncoded
  <2>5. j \in Seq(LeafForm) /\ j # Absent
    BY <1>1, <2>4, OmitMapped, AbsentAssumption
  <2>6. EachIfAny(LeafToJson, LeavesOf(r, s)) = j
    BY <1>3, <2>3 DEF LeavesOf, EachIfAny, Each
  <2>7. Each(UnmarshalLeaf, j) = [k \in DOMAIN s |-> s[k]]
    BY <1>1, LeafEncoded DEF Each
  <2> HIDE DEF j
  <2> QED BY <1>1, <2>5, <2>6, <2>7 DEF OrNone, OptionalSeq
<1> QED BY <1>2, <1>3

-----------------------------------------------------------------------------
(* Fingerprints and paths.                                                 *)
LEMMA FingerprintRoundTrip ==
    ASSUME NEW n \in Nat
    PROVE  /\ LittleEndian(n) \in Seq(Nat)
           /\ FromLittleEndian(LittleEndian(n)) = n
<1>1. Radix \in Nat /\ Radix > 0
  BY ConstantsAssumption
<1> DEFINE low == n % Radix
           high == n \div Radix
<1>2. low \in Nat /\ high \in Nat /\ low + Radix * high = n
  BY <1>1, SMTT(30)
<1> HIDE DEF low, high
<1>3. LittleEndian(n) = <<low, high>>
  BY DEF LittleEndian, low, high
<1> QED BY <1>2, <1>3 DEF FromLittleEndian

(* The digits of a path are only read when the path itself is missing, and *)
(* that is the empty path.                                                 *)
LEMMA PathRoundTrip ==
    ASSUME NEW path \in Seq(Nat)
    PROVE  /\ OmitSeq(path) \in OptionalSeq(Nat) /\ path # Absent
           /\ OrNone(OmitSeq(path)) = path
           /\ FormatPath(path) \in Seq(Digits)
           /\ \A j : /\ j.path = OmitSeq(path)
                     /\ j.pathStr = FormatPath(path)
                     => EffectivePath(j) = path
<1>1. DOMAIN path = 1..Len(path) /\ Len(path) \in Nat
      /\ \A k \in DOMAIN path : path[k] \in Nat
  OBVIOUS
<1>2. path # Absent
  BY AbsentAssumption
<1>3. OmitSeq(path) \in OptionalSeq(Nat) /\ OrNone(OmitSeq(path)) = path
  BY <1>2 DEF OmitSeq, OptionalSeq, OrNone
<1>4. \A k \in DOMAIN path : path[k] % Hardened \in Nat
  BY <1>1, ConstantsAssumption
<1>5. FormatPath(path) \in [1..Len(path) -> Digits]
  BY <1>1, <1>4 DEF FormatPath, Digits
<1>6. FormatPath(path) \in Seq(Digits)
  BY <1>1, <1>5, AllOfSeq
<1>7. ASSUME NEW j, j.path = OmitSeq(path), j.pathStr = FormatPath(path)
      PROVE  EffectivePath(j) = path
  <2>1. CASE path # << >>
    BY <2>1, <1>7, <1>3 DEF EffectivePath, OmitSeq
  <2>2. CASE path = << >>
    <3>1. DOMAIN FormatPath(path) = {}
      BY <2>2 DEF FormatPath
    <3>2. ParsePath(j.pathStr) = << >>
      BY <3>1, <1>7 DEF ParsePath
    <3> QED BY <2>2, <3>2, <1>3, <1>7 DEF EffectivePath
  <2> QED BY <2>1, <2>2
<1> QED BY <1>2, <1>3, <1>6, <1>7

-----------------------------------------------------------------------------
(* Derivations: with and without leaf hashes.                              *)
LEMMA Bip32Decoded ==
    ASSUME NEW d \in Bip32
    PROVE  /\ MarshalBip32(d) \in Bip32Form
           /\ Bip32FromJson(MarshalBip32(d)) = Bip32Of("HexBytes", d)
<1>1. d.pubKey \in Seq(Nat) /\ d.fingerprint \in Nat /\ d.path \in Seq(Nat)
  BY DEF Bip32
<1>2. /\ OmitSeq(d.path) \in OptionalSeq(Nat) /\ OrNone(OmitSeq(d.path)) = d.path
      /\ FormatPath(d.path) \in Seq(Digits)
      /\ LittleEndian(d.fingerprint) \in Seq(Nat)
  BY <1>1, PathRoundTrip, FingerprintRoundTrip
<1> QED BY <1>1, <1>2, OmitForm, BytesDecoded
        DEF MarshalBip32, Bip32FromJson, Bip32Of, Bip32Form

LEMMA Bip32Retyped ==
    ASSUME NEW how, NEW r \in Reps, Allowed(how, r), NEW d \in Bip32
    PROVE  /\ Bip32Of(r, d) \in Bip32Form
           /\ Bip32As(how, Bip32Of(r, d)) = Bip32Of(Given(how), d)
<1>1. d.pubKey \in Seq(Nat) /\ d.fingerprint \in Nat /\ d.path \in Seq(Nat)
  BY DEF Bip32
<1>2. /\ d.path \in OptionalSeq(Nat) /\ FormatPath(d.path) \in Seq(Digits)
      /\ LittleEndian(d.fingerprint) \in Seq(Nat)
  BY <1>1, PathRoundTrip, FingerprintRoundTrip DEF OptionalSeq
<1> QED BY <1>1, <1>2, RepForm, BytesAs DEF Bip32As, Bip32Of, Bip32Form

LEMMA Bip32Encoded ==
    ASSUME NEW r \in Reps, NEW d \in Bip32
    PROVE  /\ Bip32ToJson(Bip32Of(r, d)) \in Bip32Form
           /\ UnmarshalBip32(Bip32ToJson(Bip32Of(r, d))) = d
<1>1. /\ d.pubKey \in Seq(Nat) /\ d.fingerprint \in Nat /\ d.path \in Seq(Nat)
      /\ d = [pubKey |-> d.pubKey, fingerprint |-> d.fingerprint, path |-> d.path]
  BY DEF Bip32
<1>2. /\ OmitSeq(d.path) \in OptionalSeq(Nat) /\ FormatPath(d.path) \in Seq(Digits)
      /\ LittleEndian(d.fingerprint) \in Seq(Nat)
      /\ FromLittleEndian(LittleEndian(d.fingerprint)) = d.fingerprint
  BY <1>1, PathRoundTrip, FingerprintRoundTrip
<1> DEFINE j == Bip32ToJson(Bip32Of(r, d))
<1>3. j = [pubKey |-> ToHex(Rep(r, d.pubKey)),
           fingerprint |-> LittleEndian(d.fingerprint),
           path |-> OmitSeq(d.path), pathStr |-> FormatPath(d.path)]
  BY DEF Bip32ToJson, Bip32Of
<1>4. j \in Bip32Form
  BY <1>1, <1>2, <1>3, BytesEncoded DEF Bip32Form
<1> HIDE DEF j
<1>5. j.path = OmitSeq(d.path) /\ j.pathStr = FormatPath(d.path)
  BY <1>3
<1>6. EffectivePath(j) = d.path
  BY <1>1, <1>5, PathRoundTrip
<1>7. UnmarshalBip32(j) = d
  BY <1>1, <1>2, <1>3, <1>6, BytesEncoded DEF UnmarshalBip32
<1> QED BY <1>4, <1>7 DEF j

LEMMA Bip32sDecoded ==
    ASSUME NEW s \in Seq(Bip32)
    PROVE  /\ OmitSeq(Each(MarshalBip32, s)) \in OptionalSeq(Bip32Form)
           /\ EachIfAny(Bip32FromJson, OmitSeq(Each(MarshalBip32, s)))
                = Bip32sOf("HexBytes", s)
<1>1. /\ DOMAIN s = 1..Len(s) /\ Len(s) \in Nat
      /\ \A k \in DOMAIN s : s[k] \in Bip32
      /\ s = << >> <=> Len(s) = 0
  OBVIOUS
<1> DEFINE m == Each(MarshalBip32, s)
<1>2. m = [k \in DOMAIN s |-> MarshalBip32(s[k])]
  BY DEF Each
<1>3. m \in [1..Len(s) -> Bip32Form]
  BY <1>1, <1>2, Bip32Decoded
<1> HIDE DEF m
<1>4. /\ OmitSeq(m) \in OptionalSeq(Bip32Form) /\ m # Absent
      /\ OmitSeq(m) = IF s = << >> THEN Absent ELSE m
  BY <1>1, <1>3, OmitMapped, AbsentAssumption
<1>5. Each(Bip32FromJson, m)
        = [k \in DOMAIN s |-> Bip32FromJson(MarshalBip32(s[k]))]
  BY <1>2 DEF Each
<1>6. \A k \in DOMAIN s : Bip32FromJson(MarshalBip32(s[k])) = Bip32Of("HexBytes", s[k])
  BY <1>1, Bip32Decoded
<1>7. Each(Bip32FromJson, m) = [k \in DOMAIN s |-> Bip32Of("HexBytes", s[k])]
  BY <1>5, <1>6
<1>8. EachIfAny(Bip32FromJson, OmitSeq(m)) = Bip32sOf("HexBytes", s)
  BY <1>4, <1>7 DEF EachIfAny, Bip32sOf
<1> QED BY <1>4, <1>8 DEF m

LEMMA Bip32sRetyped ==
    ASSUME NEW how, NEW r \in Reps, Allowed(how, r), NEW s \in Seq(Bip32)
    PROVE  /\ Bip32sOf(r, s) \in OptionalSeq(Bip32Form)
           /\ EachIfAny(LAMBDA x : Bip32As(how, x), Bip32sOf(r, s))
                = Bip32sOf(Given(how), s)
<1>1. /\ DOMAIN s = 1..Len(s) /\ Len(s) \in Nat
      /\ \A k \in DOMAIN s : s[k] \in Bip32
  OBVIOUS
<1> DEFINE m == [k \in DOMAIN s |-> Bip32Of(r, s[k])]
<1>2. m \in [1..Len(s) -> Bip32Form]
  BY <1>1, Bip32Retyped
<1>3. m \in Seq(Bip32Form) /\ m # Absent
  BY <1>1, <1>2, OmitMapped, AbsentAssumption
<1>4. [k \in DOMAIN m |-> Bip32As(how, m[k])]
        = [k \in DOMAIN s |-> Bip32Of(Given(how), s[k])]
  BY <1>1, Bip32Retyped
<1>5. Bip32sOf(r, s) = IF s = << >> THEN Absent ELSE m
  BY DEF Bip32sOf
<1> HIDE DEF m
<1>6. EachIfAny(LAMBDA x : Bip32As(how, x), Bip32sOf(r, s))
        = IF s = << >> THEN Absent ELSE [k \in DOMAIN m |-> Bip32As(how, m[k])]
  BY <1>3, <1>5 DEF EachIfAny, Each
<1> QED BY <1>3, <1>4, <1>5, <1>6 DEF Bip32sOf, OptionalSeq

LEMMA Bip32sEncoded ==
    ASSUME NEW r \in Reps, NEW s \in Seq(Bip32)
    PROVE  /\ EachIfAny(Bip32ToJson, Bip32sOf(r, s)) \in OptionalSeq(Bip32Form)
           /\ Each(UnmarshalBip32, OrNone(EachIfAny(Bip32ToJson, Bip32sOf(r, s)))) = s
<1>1. /\ DOMAIN s = 1..Len(s) /\ Len(s) \in Nat
      /\ \A k \in DOMAIN s : s[k] \in Bip32
      /\ s = [k \in DOMAIN s |-> s[k]]
  OBVIOUS
<1>2. CASE s = << >>
  <2>1. Bip32sOf(r, s) = Absent
    BY <1>2 DEF Bip32sOf
  <2>2. EachIfAny(Bip32ToJson, Bip32sOf(r, s)) = Absent
    BY <2>1 DEF EachIfAny
  <2>3. Each(UnmarshalBip32, << >>) = << >>
    BY DEF Each
  <2> QED BY <1>2, <2>2, <2>3 DEF OrNone, OptionalSeq
<1>3. CASE s # << >>
  <2> DEFINE m == [k \in DOMAIN s |-> Bip32Of(r, s[k])]
             j == [k \in DOMAIN s |-> Bip32ToJson(Bip32Of(r, s[k]))]
  <2>1. Allowed("string", r)
    BY DEF Allowed
  <2>2. m \in [1..Len(s) -> Bip32Form]
    BY <1>1, <2>1, Bip32Retyped
  <2>3. m # Absent
    BY <1>1, <2>2, OmitMapped, AbsentAssumption
  <2>4. j \in [1..Len(s) -> Bip32Form]
    BY <1>1, Bip32Encoded
  <2>5. j \in Seq(Bip32Form) /\ j # Absent
    BY <1>1, <2>4, OmitMapped, AbsentAssumption
  <2>6. EachIfAny(Bip32ToJson, Bip32sOf(r, s)) = j
    BY <1>3, <2>3 DEF Bip32sOf, EachIfAny, Each
  <2>7. Each(UnmarshalBip32, j) = [k \in DOMAIN s |-> s[k]]
    BY <1>1, Bip32Encoded DEF Each
  <2> HIDE DEF j
  <2> QED BY <1>1, <2>5, <2>6, <2>7 DEF OrNone, OptionalSeq
<1> QED BY <1>2, <1>3

LEMMA DerivationDecoded ==
    ASSUME NEW d \in Derivation
    PROVE  /\ MarshalDerivation(d) \in DerivationForm
           /\ DerivationFromJson(MarshalDerivation(d)) = DerivationOf("HexBytes", d)
<1>1. d.pubKey \in Seq(Nat) /\ d.fingerprint \in Nat /\ d.path \in Seq(Nat)
      /\ d.leafHashes \in Seq(Seq(Nat))
  BY DEF Derivation
<1>2. /\ OmitSeq(d.path) \in OptionalSeq(Nat) /\ OrNone(OmitSeq(d.path)) = d.path
      /\ FormatPath(d.path) \in Seq(Digits)
      /\ LittleEndian(d.fingerprint) \in Seq(Nat)
  BY <1>1, PathRoundTrip, FingerprintRoundTrip
<1> QED BY <1>1, <1>2, OmitForm, BytesDecoded, BytesListDecoded
        DEF MarshalDerivation, DerivationFromJson, DerivationOf, DerivationForm

LEMMA DerivationRetyped ==
    ASSUME NEW how, NEW r \in Reps, Allowed(how, r), NEW d \in Derivation
    PROVE  /\ DerivationOf(r, d) \in DerivationForm
           /\ DerivationAs(how, DerivationOf(r, d)) = DerivationOf(Given(how), d)
<1>1. d.pubKey \in Seq(Nat) /\ d.fingerprint \in Nat /\ d.path \in Seq(Nat)
      /\ d.leafHashes \in Seq(Seq(Nat))
  BY DEF Derivation
<1>2. /\ d.path \in OptionalSeq(Nat) /\ FormatPath(d.path) \in Seq(Digits)
      /\ LittleEndian(d.fingerprint) \in Seq(Nat)
  BY <1>1, PathRoundTrip, FingerprintRoundTrip DEF OptionalSeq
<1> QED BY <1>1, <1>2, RepForm, BytesAs, BytesListAs
        DEF DerivationAs, DerivationOf, DerivationForm, OptionalSeq

LEMMA DerivationEncoded ==
    ASSUME NEW r \in Reps, NEW d \in Derivation
    PROVE  /\ DerivationToJson(DerivationOf(r, d)) \in DerivationForm
           /\ UnmarshalDerivation(DerivationToJson(DerivationOf(r, d))) = d
<1>1. /\ d.pubKey \in Seq(Nat) /\ d.fingerprint \in Nat /\ d.path \in Seq(Nat)
      /\ d.leafHashes \in Seq(Seq(Nat))
      /\ d = [pubKey |-> d.pubKey, fingerprint |-> d.fingerprint, path |-> d.path,
             leafHashes |-> d.leafHashes]
  BY DEF Derivation
<1>2. /\ OmitSeq(d.path) \in OptionalSeq(Nat) /\ FormatPath(d.path) \in Seq(Digits)
      /\ LittleEndian(d.fingerprint) \in Seq(Nat)
      /\ FromLittleEndian(LittleEndian(d.fingerprint)) = d.fingerprint
  BY <1>1, PathRoundTrip, FingerprintRoundTrip
<1> DEFINE j == DerivationToJson(DerivationOf(r, d))
<1>3. j = [pubKey |-> ToHex(Rep(r, d.pubKey)),
           fingerprint |-> LittleEndian(d.fingerprint),
           path |-> OmitSeq(d.path), pathStr |-> FormatPath(d.path),
           leafHashes |-> OmitSeq(Each(ToHex, EachOf(r, d.leafHashes)))]
  BY DEF DerivationToJson, DerivationOf
<1>4. j \in DerivationForm
  <2>1. OmitSeq(Each(ToHex, EachOf(r, d.leafHashes))) \in OptionalSeq(Form)
    BY <1>1, BytesListEncoded
  <2>2. ToHex(Rep(r, d.pubKey)) \in Form
    BY <1>1, BytesEncoded
  <2> DEFINE hashes == OmitSeq(Each(ToHex, EachOf(r, d.leafHashes)))
             bytes == ToHex(Rep(r, d.pubKey))
  <2> HIDE DEF hashes, bytes
  <2>3. j = [pubKey |-> bytes, fingerprint |-> LittleEndian(d.fingerprint),
             path |-> OmitSeq(d.path), pathStr |-> FormatPath(d.path),
             leafHashes |-> hashes]
    BY <1>3 DEF hashes, bytes
  <2>4. hashes \in OptionalSeq(Form) /\ bytes \in Form
    BY <2>1, <2>2 DEF hashes, bytes
  <2> HIDE DEF j
  <2> QED BY <1>2, <2>3, <2>4 DEF DerivationForm
<1> HIDE DEF j
<1>5. j.path = OmitSeq(d.path) /\ j.pathStr = FormatPath(d.path)
  BY <1>3
<1>6. EffectivePath(j) = d.path
  BY <1>1, <1>5, PathRoundTrip
<1>7. UnmarshalDerivation(j) = d
  BY <1>1, <1>2, <1>3, <1>6, BytesEncoded, BytesListEncoded
     DEF UnmarshalDerivation
<1> QED BY <1>4, <1>7 DEF j

LEMMA DerivationsDecoded ==
    ASSUME NEW s \in Seq(Derivation)
    PROVE  /\ OmitSeq(Each(MarshalDerivation, s)) \in OptionalSeq(DerivationForm)
           /\ EachIfAny(DerivationFromJson, OmitSeq(Each(MarshalDerivation, s)))
                = DerivationsOf("HexBytes", s)
<1>1. /\ DOMAIN s = 1..Len(s) /\ Len(s) \in Nat
      /\ \A k \in DOMAIN s : s[k] \in Derivation
      /\ s = << >> <=> Len(s) = 0
  OBVIOUS
<1> DEFINE m == Each(MarshalDerivation, s)
<1>2. m = [k \in DOMAIN s |-> MarshalDerivation(s[k])]
  BY DEF Each
<1>3. m \in [1..Len(s) -> DerivationForm]
  BY <1>1, <1>2, DerivationDecoded
<1> HIDE DEF m
<1>4. /\ OmitSeq(m) \in OptionalSeq(DerivationForm) /\ m # Absent
      /\ OmitSeq(m) = IF s = << >> THEN Absent ELSE m
  BY <1>1, <1>3, OmitMapped, AbsentAssumption
<1>5. Each(DerivationFromJson, m)
        = [k \in DOMAIN s |-> DerivationFromJson(MarshalDerivation(s[k]))]
  BY <1>2 DEF Each
<1>6. \A k \in DOMAIN s : DerivationFromJson(MarshalDerivation(s[k])) = DerivationOf("HexBytes", s[k])
  BY <1>1, DerivationDecoded
<1>7. Each(DerivationFromJson, m) = [k \in DOMAIN s |-> DerivationOf("HexBytes", s[k])]
  BY <1>5, <1>6
<1>8. EachIfAny(DerivationFromJson, OmitSeq(m)) = DerivationsOf("HexBytes", s)
  BY <1>4, <1>7 DEF EachIfAny, DerivationsOf
<1> QED BY <1>4, <1>8 DEF m

LEMMA DerivationsRetyped ==
    ASSUME NEW how, NEW r \in Reps, Allowed(how, r), NEW s \in Seq(Derivation)
    PROVE  /\ DerivationsOf(r, s) \in OptionalSeq(DerivationForm)
           /\ EachIfAny(LAMBDA x : DerivationAs(how, x), DerivationsOf(r, s))
                = DerivationsOf(Given(how), s)
<1>1. /\ DOMAIN s = 1..Len(s) /\ Len(s) \in Nat
      /\ \A k \in DOMAIN s : s[k] \in Derivation
  OBVIOUS
<1> DEFINE m == [k \in DOMAIN s |-> DerivationOf(r, s[k])]
<1>2. m \in [1..Len(s) -> DerivationForm]
  BY <1>1, DerivationRetyped
<1>3. m \in Seq(DerivationForm) /\ m # Absent
  BY <1>1, <1>2, OmitMapped, AbsentAssumption
<1>4. [k \in DOMAIN m |-> DerivationAs(how, m[k])]
        = [k \in DOMAIN s |-> DerivationOf(Given(how), s[k])]
  BY <1>1, DerivationRetyped
<1>5. DerivationsOf(r, s) = IF s = << >> THEN Absent ELSE m
  BY DEF DerivationsOf
<1> HIDE DEF m
<1>6. EachIfAny(LAMBDA x : DerivationAs(how, x), DerivationsOf(r, s))
        = IF s = << >> THEN Absent ELSE [k \in DOMAIN m |-> DerivationAs(how, m[k])]
  BY <1>3, <1>5 DEF EachIfAny, Each
<1> QED BY <1>3, <1>4, <1>5, <1>6 DEF DerivationsOf, OptionalSeq

LEMMA DerivationsEncoded ==
    ASSUME NEW r \in Reps, NEW s \in Seq(Derivation)
    PROVE  /\ EachIfAny(DerivationToJson, DerivationsOf(r, s)) \in OptionalSeq(DerivationForm)
           /\ Each(UnmarshalDerivation, OrNone(EachIfAny(DerivationToJson, DerivationsOf(r, s)))) = s
<1>1. /\ DOMAIN s = 1..Len(s) /\ Len(s) \in Nat
      /\ \A k \in DOMAIN s : s[k] \in Derivation
      /\ s = [k \in DOMAIN s |-> s[k]]
  OBVIOUS
<1>2. CASE s = << >>
  <2>1. DerivationsOf(r, s) = Absent
    BY <1>2 DEF DerivationsOf
  <2>2. EachIfAny(DerivationToJson, DerivationsOf(r, s)) = Absent
    BY <2>1 DEF EachIfAny
  <2>3. Each(UnmarshalDerivation, << >>) = << >>
    BY DEF Each
  <2> QED BY <1>2, <2>2, <2>3 DEF OrNone, OptionalSeq
<1>3. CASE s # << >>
  <2> DEFINE m == [k \in DOMAIN s |-> DerivationOf(r, s[k])]
             j == [k \in DOMAIN s |-> DerivationToJson(DerivationOf(r, s[k]))]
  <2>1. Allowed("string", r)
    BY DEF Allowed
  <2>2. m \in [1..Len(s) -> DerivationForm]
    BY <1>1, <2>1, DerivationRetyped
  <2>3. m # Absent
    BY <1>1, <2>2, OmitMapped, AbsentAssumption
  <2>4. j \in [1..Len(s) -> DerivationForm]
    BY <1>1, DerivationEncoded
  <2>5. j \in Seq(DerivationForm) /\ j # Absent
    BY <1>1, <2>4, OmitMapped, AbsentAssumption
  <2>6. EachIfAny(DerivationToJson, DerivationsOf(r, s)) = j
    BY <1>3, <2>3 DEF DerivationsOf, EachIfAny, Each
  <2>7. Each(UnmarshalDerivation, j) = [k \in DOMAIN s |-> s[k]]
    BY <1>1, DerivationEncoded DEF Each
  <2> HIDE DEF j
  <2> QED BY <1>1, <2>5, <2>6, <2>7 DEF OrNone, OptionalSeq
<1> QED BY <1>2, <1>3

-----------------------------------------------------------------------------
(* The transaction.                                                        *)
LEMMA NumberFixed ==
    ASSUME NEW n \in Nat
    PROVE  /\ Number(n) \in Nat /\ Number(Number(n)) = Number(n)
           /\ n <= MaxSafe => Number(n) = n
<1>1. MaxSafe \in Nat
  BY ConstantsAssumption
<1>2. /\ n % 2 \in {0, 1} /\ n % 2 <= n /\ n - (n % 2) \in Nat
      /\ (n - (n % 2)) % 2 = 0
  BY SMTT(30)
<1>3. CASE n <= MaxSafe
  BY <1>1, <1>3 DEF Number
<1>4. CASE n > MaxSafe
  <2> DEFINE m == n - (n % 2)
  <2>1. Number(n) = m
    BY <1>1, <1>4 DEF Number
  <2>2. m \in Nat /\ m % 2 = 0
    BY <1>2
  <2> HIDE DEF m
  <2>3. Number(m) = m
    BY <2>2 DEF Number
  <2> QED BY <1>1, <1>4, <2>1, <2>2, <2>3
<1> QED BY <1>1, <1>3, <1>4

LEMMA TxInputDecoded ==
    ASSUME NEW i \in TxInput
    PROVE  /\ MarshalTxInput(i) \in TxInputForm
           /\ TxInputFromJson(MarshalTxInput(i)) = TxInputOf("HexBytes", i)
<1>1. /\ i.txid \in STRING /\ i.sequence \in Nat /\ i.scriptSig \in Seq(Nat)
      /\ i.witness \in Seq(Seq(Nat))
  BY DEF TxInput
<1> DEFINE witness == OmitSeq(Each(Hex, i.witness))
<1>2. /\ witness \in OptionalSeq(Form)
      /\ Each(FromHexOrEmpty, OrNone(witness)) = EachOf("HexBytes", i.witness)
  BY <1>1, BytesListDecoded
<1>3. MarshalTxInput(i)
        = [txid |-> i.txid, sequence |-> i.sequence,
           scriptSig |-> Omit(i.scriptSig), witness |-> witness]
  BY DEF MarshalTxInput
<1> HIDE DEF witness
<1>4. MarshalTxInput(i) \in TxInputForm
  BY <1>1, <1>2, <1>3, OmitForm DEF TxInputForm
<1>5. TxInputFromJson(MarshalTxInput(i))
        = [txid |-> i.txid, sequence |-> i.sequence,
           scriptSig |-> FromHexOrEmpty(Omit(i.scriptSig)),
           witness |-> Each(FromHexOrEmpty, OrNone(witness))]
  BY <1>3 DEF TxInputFromJson
<1> QED BY <1>1, <1>2, <1>4, <1>5, BytesDecoded DEF TxInputOf

LEMMA TxInputRetyped ==
    ASSUME NEW how, NEW r \in Reps, Allowed(how, r), NEW i \in TxInput
    PROVE  TxInputAs(how, TxInputOf(r, i)) = TxInputOf(Given(how), i)
<1>1. i.scriptSig \in Seq(Nat) /\ i.witness \in Seq(Seq(Nat))
  BY DEF TxInput
<1> QED BY <1>1, BytesAs, BytesListAs DEF TxInputAs, TxInputOf

LEMMA TxInputEncoded ==
    ASSUME NEW r \in Reps, NEW i \in TxInput
    PROVE  UnmarshalTxInput(TxInputToJson(TxInputOf(r, i))) = i
<1>1. /\ i.scriptSig \in Seq(Nat) /\ i.witness \in Seq(Seq(Nat))
      /\ i = [txid |-> i.txid, sequence |-> i.sequence,
              scriptSig |-> i.scriptSig, witness |-> i.witness]
  BY DEF TxInput
<1>2. UnmarshalTxInput(TxInputToJson(TxInputOf(r, i)))
        = [txid |-> i.txid, sequence |-> i.sequence,
           scriptSig |-> Bytes(ToHexAny(Rep(r, i.scriptSig))),
           witness |-> Each(Bytes, OrNone(OmitSeq(Each(ToHex, EachOf(r, i.witness)))))]
  BY DEF UnmarshalTxInput, TxInputToJson, TxInputOf
<1>3. Each(Bytes, OrNone(OmitSeq(Each(ToHex, EachOf(r, i.witness))))) = i.witness
  BY <1>1, BytesListEncoded
<1>4. Bytes(ToHexAny(Rep(r, i.scriptSig))) = i.scriptSig
  BY <1>1, BytesEncoded
<1> QED BY <1>1, <1>2, <1>3, <1>4

LEMMA TxOutputDecoded ==
    ASSUME NEW o \in TxOutput
    PROVE  /\ MarshalTxOutput(o) \in TxOutputForm
           /\ TxOutputFromJson(MarshalTxOutput(o)) = TxOutputOf("HexBytes", o)
<1>1. o.value \in Nat /\ o.scriptPubKey \in Seq(Nat)
  BY DEF TxOutput
<1> QED BY <1>1, OmitForm, BytesDecoded
        DEF MarshalTxOutput, TxOutputFromJson, TxOutputOf, TxOutputForm

LEMMA TxOutputRetyped ==
    ASSUME NEW how, NEW r \in Reps, Allowed(how, r), NEW o \in TxOutput
    PROVE  TxOutputAs(how, TxOutputOf(r, o)) = TxOutputOf(Given(how), o)
<1>1. o.scriptPubKey \in Seq(Nat)
  BY DEF TxOutput
<1> QED BY <1>1, BytesAs DEF TxOutputAs, TxOutputOf

LEMMA TxOutputEncoded ==
    ASSUME NEW r \in Reps, NEW o \in TxOutput
    PROVE  UnmarshalTxOutput(TxOutputToJson(TxOutputOf(r, o))) = NormalTxOutput(o)
<1>1. o.scriptPubKey \in Seq(Nat)
  BY DEF TxOutput
<1> QED BY <1>1, BytesEncoded
        DEF UnmarshalTxOutput, TxOutputToJson, TxOutputOf, NormalTxOutput

-----------------------------------------------------------------------------
(* Extended keys.                                                          *)
LEMMA XpubDecoded ==
    ASSUME NEW x \in Xpub
    PROVE  /\ MarshalXpub(x) \in XpubForm
           /\ XpubFromJson(MarshalXpub(x)) = XpubOf(x)
<1>1. /\ x.extendedKey \in Seq(Nat) /\ x.fingerprint \in Nat
      /\ x.path \in Seq(Nat)
  BY DEF Xpub
<1>2. /\ OmitSeq(x.path) \in OptionalSeq(Nat) /\ OrNone(OmitSeq(x.path)) = x.path
      /\ FormatPath(x.path) \in Seq(Digits)
      /\ LittleEndian(x.fingerprint) \in Seq(Nat)
  BY <1>1, PathRoundTrip, FingerprintRoundTrip
<1> DEFINE key == IF Len(x.extendedKey) = KeyLength THEN x.extendedKey ELSE Absent
<1>3. key \in OptionalSeq(Nat) /\ OrNone(key) = KeyOf(x)
  BY <1>1, AbsentAssumption DEF OptionalSeq, OrNone, KeyOf
<1> QED BY <1>2, <1>3 DEF MarshalXpub, XpubFromJson, XpubOf, XpubForm

LEMMA XpubEncoded ==
    ASSUME NEW x \in Xpub
    PROVE  /\ XpubToJson(XpubOf(x)) \in XpubForm
           /\ UnmarshalXpub(XpubToJson(XpubOf(x))) = NormalXpub(x)
<1>1. /\ x.extendedKey \in Seq(Nat) /\ x.fingerprint \in Nat
      /\ x.path \in Seq(Nat) /\ KeyOf(x) \in OptionalSeq(Nat)
  BY DEF Xpub, KeyOf, OptionalSeq
<1>2. /\ OmitSeq(x.path) \in OptionalSeq(Nat) /\ FormatPath(x.path) \in Seq(Digits)
      /\ LittleEndian(x.fingerprint) \in Seq(Nat)
      /\ FromLittleEndian(LittleEndian(x.fingerprint)) = x.fingerprint
  BY <1>1, PathRoundTrip, FingerprintRoundTrip
<1> DEFINE j == XpubToJson(XpubOf(x))
<1>3. j = [extendedKey |-> KeyOf(x), fingerprint |-> LittleEndian(x.fingerprint),
           path |-> OmitSeq(x.path), pathStr |-> FormatPath(x.path)]
  BY DEF XpubToJson, XpubOf
<1>4. j \in XpubForm
  BY <1>1, <1>2, <1>3 DEF XpubForm
<1> HIDE DEF j
<1>5. j.path = OmitSeq(x.path) /\ j.pathStr = FormatPath(x.path)
  BY <1>3
<1>6. EffectivePath(j) = x.path
  BY <1>1, <1>5, PathRoundTrip
<1>7. UnmarshalXpub(j) = NormalXpub(x)
  BY <1>2, <1>3, <1>6 DEF UnmarshalXpub, NormalXpub
<1> QED BY <1>4, <1>7 DEF j

-----------------------------------------------------------------------------
(* Inputs and outputs of the packet.                                       *)
LEMMA OptionalRoundTrip ==
    ASSUME NEW b \in Seq(Nat) \cup {Nil}
    PROVE  /\ Omit(b) \in Form /\ Optional(Omit(b)) = OptionalOf("HexBytes", b)
           /\ \A how : \A r \in Reps :
                 Allowed(how, r) => As(how, OptionalOf(r, b)) = OptionalOf(Given(how), b)
           /\ \A r \in Reps :
                 NonNilBytes(IfTruthy(ToHexAny(OptionalOf(r, b)))) = NormalBytes(b)
<1>1. CASE b = Nil \/ b = << >>
  <2>1. Omit(b) = Absent /\ \A r : OptionalOf(r, b) = Absent
    BY <1>1 DEF Omit, OptionalOf
  <2>2. Optional(Absent) = Absent
    BY DEF Optional, Truthy
  <2>3. \A how : As(how, Absent) = Absent
    BY DEF As
  <2>4. NonNilBytes(IfTruthy(ToHexAny(Absent))) = Nil
    BY DEF NonNilBytes, IfTruthy, ToHexAny, Truthy, Bytes
  <2>5. NormalBytes(b) = Nil
    BY <1>1 DEF NormalBytes
  <2> QED BY <2>1, <2>2, <2>3, <2>4, <2>5 DEF Form
<1>2. CASE b # Nil /\ b # << >>
  <2>1. b \in Seq(Nat)
    BY <1>2
  <2>2. \A r : OptionalOf(r, b) = Rep(r, b)
    BY <1>2 DEF OptionalOf
  <2>3. Omit(b) = Hex(b) /\ Hex(b) # Absent /\ Hex(b).of = b /\ Hex(b) \in Form
    BY <1>2, <2>1, OmitForm
  <2>4. Hex(b) # Hex(<< >>)
    BY <1>2 DEF Hex
  <2>5. Truthy(Hex(b))
    BY <2>3, <2>4 DEF Truthy
  <2>6. Optional(Omit(b)) = Rep("HexBytes", b)
    BY <2>3, <2>5 DEF Optional, HexToBytes, HexBytes, Rep
  <2>7. \A r \in Reps : ToHexAny(Rep(r, b)) = Hex(b)
    BY <1>2, <2>1, BytesEncoded
  <2>8. NonNilBytes(IfTruthy(Hex(b))) = b
    BY <1>2, <2>3, <2>5 DEF NonNilBytes, IfTruthy, Bytes
  <2>9. NormalBytes(b) = b
    BY <1>2 DEF NormalBytes
  <2> QED BY <2>1, <2>2, <2>3, <2>6, <2>7, <2>8, <2>9, BytesAs
<1> QED BY <1>1, <1>2

LEMMA UtxoDecoded ==
    ASSUME NEW u \in [value : Nat, script : Seq(Nat)] \cup {Nil},
           NEW j, j = IF u = Nil THEN Absent
                      ELSE [value |-> u.value, script |-> Omit(u.script)]
    PROVE  /\ j \in UtxoForm \cup {Absent}
           /\ (IF j = Absent THEN Absent
               ELSE [value |-> Number(j.value), script |-> FromHexOrEmpty(j.script)])
                = UtxoOf("HexBytes", u)
<1>1. CASE u = Nil
  BY <1>1 DEF UtxoOf
<1>2. CASE u # Nil
  <2>1. u.value \in Nat /\ u.script \in Seq(Nat)
    BY <1>2
  <2>2. /\ Omit(u.script) \in Form
        /\ FromHexOrEmpty(Omit(u.script)) = Rep("HexBytes", u.script)
    BY <2>1, OmitForm, BytesDecoded
  <2>3. j = [value |-> u.value, script |-> Omit(u.script)] /\ j \in UtxoForm
    BY <1>2, <2>1, <2>2 DEF UtxoForm
  <2>4. j # Absent
    BY <2>3, AbsentAssumption
  <2> QED BY <1>2, <2>2, <2>3, <2>4 DEF UtxoOf
<1> QED BY <1>1, <1>2

LEMMA UtxoIsForm ==
    ASSUME NEW r \in Reps,
           NEW u \in [value : Nat, script : Seq(Nat)], u # Nil
    PROVE  /\ UtxoOf(r, u) = [value |-> Number(u.value), script |-> Rep(r, u.script)]
           /\ UtxoOf(r, u) # Absent
<1>1. UtxoOf(r, u) = [value |-> Number(u.value), script |-> Rep(r, u.script)]
  BY DEF UtxoOf
<1>2. UtxoOf(r, u) \in UtxoForm
  BY <1>1, NumberFixed, RepForm DEF UtxoForm
<1> QED BY <1>1, <1>2, AbsentAssumption

LEMMA UtxoRetyped ==
    ASSUME NEW how, NEW r \in Reps, Allowed(how, r),
           NEW u \in [value : Nat, script : Seq(Nat)] \cup {Nil},
           NEW w, w = UtxoOf(r, u)
    PROVE  (IF w = Absent THEN Absent
            ELSE [value |-> w.value, script |-> As(how, w.script)])
             = UtxoOf(Given(how), u)
<1>1. CASE u = Nil
  BY <1>1 DEF UtxoOf
<1>2. CASE u # Nil
  <2>1. u \in [value : Nat, script : Seq(Nat)] /\ u.script \in Seq(Nat)
    BY <1>2
  <2>2. w # Absent /\ w = [value |-> Number(u.value), script |-> Rep(r, u.script)]
    BY <1>2, <2>1, UtxoIsForm
  <2>3. As(how, Rep(r, u.script)) = Rep(Given(how), u.script)
    BY <2>1, BytesAs
  <2> QED BY <1>2, <2>2, <2>3 DEF UtxoOf
<1> QED BY <1>1, <1>2

LEMMA UtxoEncoded ==
    ASSUME NEW r \in Reps,
           NEW u \in [value : Nat, script : Seq(Nat)] \cup {Nil},
           NEW w, w = UtxoOf(r, u),
           NEW j, j = IF w = Absent THEN Absent
                      ELSE [value |-> w.value, script |-> ToHex(w.script)]
    PROVE  (IF j = Absent THEN Nil
            ELSE IF Bytes(j.script) = << >> THEN Nil
            ELSE [value |-> j.value, script |-> Bytes(j.script)])
             = NormalUtxo(u)
<1>1. CASE u = Nil
  BY <1>1 DEF UtxoOf, NormalUtxo
<1>2. CASE u # Nil
  <2>1. /\ u \in [value : Nat, script : Seq(Nat)]
        /\ u.value \in Nat /\ u.script \in Seq(Nat)
    BY <1>2
  <2>2. w # Absent /\ w = [value |-> Number(u.value), script |-> Rep(r, u.script)]
    BY <1>2, <2>1, UtxoIsForm
  <2>3. j = [value |-> Number(u.value), script |-> ToHex(Rep(r, u.script))]
    BY <2>2
  <2>4. /\ ToHex(Rep(r, u.script)) \in Form /\ Number(u.value) \in Nat
        /\ Bytes(ToHex(Rep(r, u.script))) = u.script
    BY <2>1, BytesEncoded, NumberFixed
  <2>5. j \in UtxoForm
    BY <2>3, <2>4 DEF UtxoForm
  <2>6. j # Absent
    BY <2>5, AbsentAssumption
  <2>7. j.value = Number(u.value) /\ Bytes(j.script) = u.script
    BY <2>3, <2>4
  <2> QED BY <1>2, <2>6, <2>7 DEF NormalUtxo
<1> QED BY <1>1, <1>2

LEMMA InputFields ==
    ASSUME NEW i \in Input
    PROVE  /\ i.sighashType \in Nat /\ i.script \in Seq(Nat) \cup {Nil}
           /\ i.witnessUtxo \in [value : Nat, script : Seq(Nat)] \cup {Nil}
           /\ i.pairs \in Seq(Pair) /\ i.leaves \in Seq(Leaf)
           /\ i.bip32 \in Seq(Bip32) /\ i.derivations \in Seq(Derivation)
           /\ i = [sighashType |-> i.sighashType, script |-> i.script,
                   witnessUtxo |-> i.witnessUtxo, pairs |-> i.pairs,
                   leaves |-> i.leaves, bip32 |-> i.bip32,
                   derivations |-> i.derivations]
  BY DEF Input

LEMMA InputDecoded ==
    ASSUME NEW i \in Input
    PROVE  /\ MarshalInput(i) \in InputForm
           /\ PsbtInputFromJson(MarshalInput(i)) = InputOf("HexBytes", i)
<1> DEFINE sighash == IF i.sighashType = 0 THEN Absent ELSE i.sighashType
           utxo == IF i.witnessUtxo = Nil THEN Absent
                   ELSE [value |-> i.witnessUtxo.value,
                         script |-> Omit(i.witnessUtxo.script)]
           pairs == OmitSeq(Each(MarshalPair, i.pairs))
           leaves == OmitSeq(Each(MarshalLeaf, i.leaves))
           bip32 == OmitSeq(Each(MarshalBip32, i.bip32))
           derivations == OmitSeq(Each(MarshalDerivation, i.derivations))
<1>1. MarshalInput(i) = [sighashType |-> sighash, script |-> Omit(i.script),
                         witnessUtxo |-> utxo, pairs |-> pairs, leaves |-> leaves,
                         bip32 |-> bip32, derivations |-> derivations]
  BY DEF MarshalInput
<1>2. sighash \in Nat \cup {Absent}
  BY InputFields
<1>3. Omit(i.script) \in Form /\ Optional(Omit(i.script)) = OptionalOf("HexBytes", i.script)
  BY InputFields, OptionalRoundTrip
<1>4. /\ utxo \in UtxoForm \cup {Absent}
      /\ (IF utxo = Absent THEN Absent
          ELSE [value |-> Number(utxo.value), script |-> FromHexOrEmpty(utxo.script)])
           = UtxoOf("HexBytes", i.witnessUtxo)
  <2> HIDE DEF utxo
  <2>1. utxo = IF i.witnessUtxo = Nil THEN Absent
               ELSE [value |-> i.witnessUtxo.value,
                     script |-> Omit(i.witnessUtxo.script)]
    BY DEF utxo
  <2> QED BY <2>1, InputFields, UtxoDecoded
<1>5. /\ pairs \in OptionalSeq(PairForm)
      /\ EachIfAny(PairFromJson, pairs) = PairsOf("HexBytes", i.pairs)
  BY InputFields, PairsDecoded
<1>6. /\ leaves \in OptionalSeq(LeafForm)
      /\ EachIfAny(LeafFromJson, leaves) = LeavesOf("HexBytes", i.leaves)
  BY InputFields, LeavesDecoded
<1>7. /\ bip32 \in OptionalSeq(Bip32Form)
      /\ EachIfAny(Bip32FromJson, bip32) = Bip32sOf("HexBytes", i.bip32)
  BY InputFields, Bip32sDecoded
<1>8. /\ derivations \in OptionalSeq(DerivationForm)
      /\ EachIfAny(DerivationFromJson, derivations)
           = DerivationsOf("HexBytes", i.derivations)
  BY InputFields, DerivationsDecoded
<1> HIDE DEF sighash, utxo, pairs, leaves, bip32, derivations
<1>9. MarshalInput(i) \in InputForm
  BY <1>1, <1>2, <1>3, <1>4, <1>5, <1>6, <1>7, <1>8 DEF InputForm
<1>10. PsbtInputFromJson(MarshalInput(i))
        = [sighashType |-> sighash, script |-> Optional(Omit(i.script)),
           witnessUtxo |-> IF utxo = Absent THEN Absent
                           ELSE [value |-> Number(utxo.value),
                                 script |-> FromHexOrEmpty(utxo.script)],
           pairs |-> EachIfAny(PairFromJson, pairs),
           leaves |-> EachIfAny(LeafFromJson, leaves),
           bip32 |-> EachIfAny(Bip32FromJson, bip32),
           derivations |-> EachIfAny(DerivationFromJson, derivations)]
  BY <1>1 DEF PsbtInputFromJson
<1> QED BY <1>3, <1>4, <1>5, <1>6, <1>7, <1>8, <1>9, <1>10 DEF InputOf, sighash

LEMMA InputRetyped ==
    ASSUME NEW how, NEW r \in Reps, Allowed(how, r), NEW i \in Input
    PROVE  InputAs(how, InputOf(r, i)) = InputOf(Given(how), i)
<1> DEFINE sighash == IF i.sighashType = 0 THEN Absent ELSE i.sighashType
           v == InputOf(r, i)
           w == UtxoOf(r, i.witnessUtxo)
<1>1. /\ v.sighashType = sighash /\ v.script = OptionalOf(r, i.script)
      /\ v.witnessUtxo = w
      /\ v.pairs = PairsOf(r, i.pairs) /\ v.leaves = LeavesOf(r, i.leaves)
      /\ v.bip32 = Bip32sOf(r, i.bip32)
      /\ v.derivations = DerivationsOf(r, i.derivations)
  BY DEF InputOf
<1>2. As(how, OptionalOf(r, i.script)) = OptionalOf(Given(how), i.script)
  BY InputFields, OptionalRoundTrip
<1>3. (IF w = Absent THEN Absent ELSE [value |-> w.value, script |-> As(how, w.script)])
        = UtxoOf(Given(how), i.witnessUtxo)
  BY InputFields, UtxoRetyped
<1>4. EachIfAny(LAMBDA e : PairAs(how, e), PairsOf(r, i.pairs))
        = PairsOf(Given(how), i.pairs)
  BY InputFields, PairsRetyped
<1>5. EachIfAny(LAMBDA l : LeafAs(how, l), LeavesOf(r, i.leaves))
        = LeavesOf(Given(how), i.leaves)
  BY InputFields, LeavesRetyped
<1>6. EachIfAny(LAMBDA d : Bip32As(how, d), Bip32sOf(r, i.bip32))
        = Bip32sOf(Given(how), i.bip32)
  BY InputFields, Bip32sRetyped
<1>7. EachIfAny(LAMBDA d : DerivationAs(how, d), DerivationsOf(r, i.derivations))
        = DerivationsOf(Given(how), i.derivations)
  BY InputFields, DerivationsRetyped
<1> HIDE DEF v, w, sighash
<1>8. InputAs(how, v)
        = [sighashType |-> sighash, script |-> As(how, OptionalOf(r, i.script)),
           witnessUtxo |-> IF w = Absent THEN Absent
                           ELSE [value |-> w.value, script |-> As(how, w.script)],
           pairs |-> EachIfAny(LAMBDA e : PairAs(how, e), PairsOf(r, i.pairs)),
           leaves |-> EachIfAny(LAMBDA l : LeafAs(how, l), LeavesOf(r, i.leaves)),
           bip32 |-> EachIfAny(LAMBDA d : Bip32As(how, d), Bip32sOf(r, i.bip32)),
           derivations |-> EachIfAny(LAMBDA d : DerivationAs(how, d),
                                     DerivationsOf(r, i.derivations))]
  BY <1>1 DEF InputAs
<1>9. InputAs(how, v) = InputOf(Given(how), i)
  BY <1>2, <1>3, <1>4, <1>5, <1>6, <1>7, <1>8 DEF InputOf, sighash
<1> QED BY <1>9 DEF v

LEMMA InputEncoded ==
    ASSUME NEW r \in Reps, NEW i \in Input
    PROVE  UnmarshalInput(PsbtInputToJson(InputOf(r, i))) = NormalInput(i)
<1> DEFINE sighash == IF i.sighashType = 0 THEN Absent ELSE i.sighashType
           w == UtxoOf(r, i.witnessUtxo)
           k == IF w = Absent THEN Absent
                ELSE [value |-> w.value, script |-> ToHex(w.script)]
           script == IfTruthy(ToHexAny(OptionalOf(r, i.script)))
           pairs == EachIfAny(PairToJson, PairsOf(r, i.pairs))
           leaves == EachIfAny(LeafToJson, LeavesOf(r, i.leaves))
           bip32 == EachIfAny(Bip32ToJson, Bip32sOf(r, i.bip32))
           derivations == EachIfAny(DerivationToJson, DerivationsOf(r, i.derivations))
<1>1. PsbtInputToJson(InputOf(r, i))
        = [sighashType |-> IF sighash = 0 THEN Absent ELSE sighash, script |-> script,
           witnessUtxo |-> k, pairs |-> pairs, leaves |-> leaves, bip32 |-> bip32,
           derivations |-> derivations]
  BY DEF PsbtInputToJson, InputOf
<1>2. (IF (IF sighash = 0 THEN Absent ELSE sighash) = Absent THEN 0
       ELSE (IF sighash = 0 THEN Absent ELSE sighash)) = i.sighashType
  BY InputFields, AbsentAssumption
<1>3. NonNilBytes(script) = NormalBytes(i.script)
  BY InputFields, OptionalRoundTrip
<1>4. (IF k = Absent THEN Nil
       ELSE IF Bytes(k.script) = << >> THEN Nil
       ELSE [value |-> k.value, script |-> Bytes(k.script)])
        = NormalUtxo(i.witnessUtxo)
  <2> HIDE DEF k, w
  <2>1. k = IF w = Absent THEN Absent
            ELSE [value |-> w.value, script |-> ToHex(w.script)]
    BY DEF k
  <2>2. w = UtxoOf(r, i.witnessUtxo)
    BY DEF w
  <2>3. i.witnessUtxo \in [value : Nat, script : Seq(Nat)] \cup {Nil}
    BY InputFields
  <2> QED BY <2>1, <2>2, <2>3, UtxoEncoded
<1>5. Each(UnmarshalPair, OrNone(pairs)) = i.pairs
  BY InputFields, PairsEncoded
<1>6. Each(UnmarshalLeaf, OrNone(leaves)) = i.leaves
  BY InputFields, LeavesEncoded
<1>7. Each(UnmarshalBip32, OrNone(bip32)) = i.bip32
  BY InputFields, Bip32sEncoded
<1>8. Each(UnmarshalDerivation, OrNone(derivations)) = i.derivations
  BY InputFields, DerivationsEncoded
<1> DEFINE s == IF sighash = 0 THEN Absent ELSE sighash
<1> HIDE DEF sighash, k, script, pairs, leaves, bip32, derivations, s
<1>9. PsbtInputToJson(InputOf(r, i))
        = [sighashType |-> s, script |-> script, witnessUtxo |-> k, pairs |-> pairs,
           leaves |-> leaves, bip32 |-> bip32, derivations |-> derivations]
  BY <1>1 DEF s
<1>10. (IF s = Absent THEN 0 ELSE s) = i.sighashType
  BY <1>2 DEF s
<1>11. UnmarshalInput(PsbtInputToJson(InputOf(r, i)))
        = [sighashType |-> IF s = Absent THEN 0 ELSE s,
           script |-> NonNilBytes(script),
           witnessUtxo |-> IF k = Absent THEN Nil
                           ELSE IF Bytes(k.script) = << >> THEN Nil
                           ELSE [value |-> k.value, script |-> Bytes(k.script)],
           pairs |-> Each(UnmarshalPair, OrNone(pairs)),
           bip32 |-> Each(UnmarshalBip32, OrNone(bip32)),
           leaves |-> Each(UnmarshalLeaf, OrNone(leaves)),
           derivations |-> Each(UnmarshalDerivation, OrNone(derivations))]
  BY <1>9 DEF UnmarshalInput
<1> QED BY <1>3, <1>4, <1>5, <1>6, <1>7, <1>8, <1>10, <1>11 DEF NormalInput

LEMMA OutputFields ==
    ASSUME NEW o \in Output
    PROVE  /\ o.script \in Seq(Nat) \cup {Nil} /\ o.pairs \in Seq(Pair)
           /\ o.bip32 \in Seq(Bip32) /\ o.derivations \in Seq(Derivation)
           /\ o = [script |-> o.script, pairs |-> o.pairs, bip32 |-> o.bip32,
                   derivations |-> o.derivations]
  BY DEF Output

LEMMA OutputDecoded ==
    ASSUME NEW o \in Output
    PROVE  /\ MarshalOutput(o) \in OutputForm
           /\ PsbtOutputFromJson(MarshalOutput(o)) = OutputOf("HexBytes", o)
<1> DEFINE pairs == OmitSeq(Each(MarshalPair, o.pairs))
           bip32 == OmitSeq(Each(MarshalBip32, o.bip32))
           derivations == OmitSeq(Each(MarshalDerivation, o.derivations))
<1>1. MarshalOutput(o) = [script |-> Omit(o.script), pairs |-> pairs,
                          bip32 |-> bip32, derivations |-> derivations]
  BY DEF MarshalOutput
<1>2. Omit(o.script) \in Form /\ Optional(Omit(o.script)) = OptionalOf("HexBytes", o.script)
  BY OutputFields, OptionalRoundTrip
<1>3. /\ pairs \in OptionalSeq(PairForm)
      /\ EachIfAny(PairFromJson, pairs) = PairsOf("HexBytes", o.pairs)
  BY OutputFields, PairsDecoded
<1>4. /\ bip32 \in OptionalSeq(Bip32Form)
      /\ EachIfAny(Bip32FromJson, bip32) = Bip32sOf("HexBytes", o.bip32)
  BY OutputFields, Bip32sDecoded
<1>5. /\ derivations \in OptionalSeq(DerivationForm)
      /\ EachIfAny(DerivationFromJson, derivations)
           = DerivationsOf("HexBytes", o.derivations)
  BY OutputFields, DerivationsDecoded
<1> HIDE DEF pairs, bip32, derivations
<1>6. MarshalOutput(o) \in OutputForm
  BY <1>1, <1>2, <1>3, <1>4, <1>5 DEF OutputForm
<1>7. PsbtOutputFromJson(MarshalOutput(o))
        = [script |-> Optional(Omit(o.script)), pairs |-> EachIfAny(PairFromJson, pairs),
           bip32 |-> EachIfAny(Bip32FromJson, bip32),
           derivations |-> EachIfAny(DerivationFromJson, derivations)]
  BY <1>1 DEF PsbtOutputFromJson
<1> QED BY <1>2, <1>3, <1>4, <1>5, <1>6, <1>7 DEF OutputOf

LEMMA OutputRetyped ==
    ASSUME NEW how, NEW r \in Reps, Allowed(how, r), NEW o \in Output
    PROVE  OutputAs(how, OutputOf(r, o)) = OutputOf(Given(how), o)
<1> DEFINE v == OutputOf(r, o)
<1>1. /\ v.script = OptionalOf(r, o.script) /\ v.pairs = PairsOf(r, o.pairs)
      /\ v.bip32 = Bip32sOf(r, o.bip32)
      /\ v.derivations = DerivationsOf(r, o.derivations)
  BY DEF OutputOf
<1>2. As(how, OptionalOf(r, o.script)) = OptionalOf(Given(how), o.script)
  BY OutputFields, OptionalRoundTrip
<1>3. EachIfAny(LAMBDA e : PairAs(how, e), PairsOf(r, o.pairs))
        = PairsOf(Given(how), o.pairs)
  BY OutputFields, PairsRetyped
<1>4. EachIfAny(LAMBDA d : Bip32As(how, d), Bip32sOf(r, o.bip32))
        = Bip32sOf(Given(how), o.bip32)
  BY OutputFields, Bip32sRetyped
<1>5. EachIfAny(LAMBDA d : DerivationAs(how, d), DerivationsOf(r, o.derivations))
        = DerivationsOf(Given(how), o.derivations)
  BY OutputFields, DerivationsRetyped
<1> HIDE DEF v
<1>6. OutputAs(how, v)
        = [script |-> As(how, OptionalOf(r, o.script)),
           pairs |-> EachIfAny(LAMBDA e : PairAs(how, e), PairsOf(r, o.pairs)),
           bip32 |-> EachIfAny(LAMBDA d : Bip32As(how, d), Bip32sOf(r, o.bip32)),
           derivations |-> EachIfAny(LAMBDA d : DerivationAs(how, d),
                                     DerivationsOf(r, o.derivations))]
  BY <1>1 DEF OutputAs
<1>7. OutputAs(how, v) = OutputOf(Given(how), o)
  BY <1>2, <1>3, <1>4, <1>5, <1>6 DEF OutputOf
<1> QED BY <1>7 DEF v

LEMMA OutputEncoded ==
    ASSUME NEW r \in Reps, NEW o \in Output
    PROVE  UnmarshalOutput(PsbtOutputToJson(OutputOf(r, o))) = NormalOutput(o)
<1> DEFINE script == IfTruthy(ToHexAny(OptionalOf(r, o.script)))
           pairs == EachIfAny(PairToJson, PairsOf(r, o.pairs))
           bip32 == EachIfAny(Bip32ToJson, Bip32sOf(r, o.bip32))
           derivations == EachIfAny(DerivationToJson, DerivationsOf(r, o.derivations))
<1>1. PsbtOutputToJson(OutputOf(r, o))
        = [script |-> script, pairs |-> pairs, bip32 |-> bip32,
           derivations |-> derivations]
  BY DEF PsbtOutputToJson, OutputOf
<1>2. NonNilBytes(script) = NormalBytes(o.script)
  BY OutputFields, OptionalRoundTrip
<1>3. Each(UnmarshalPair, OrNone(pairs)) = o.pairs
  BY OutputFields, PairsEncoded
<1>4. Each(UnmarshalBip32, OrNone(bip32)) = o.bip32
  BY OutputFields, Bip32sEncoded
<1>5. Each(UnmarshalDerivation, OrNone(derivations)) = o.derivations
  BY OutputFields, DerivationsEncoded
<1> HIDE DEF script, pairs, bip32, derivations
<1>6. UnmarshalOutput(PsbtOutputToJson(OutputOf(r, o)))
        = [script |-> NonNilBytes(script),
           pairs |-> Each(UnmarshalPair, OrNone(pairs)),
           bip32 |-> Each(UnmarshalBip32, OrNone(bip32)),
           derivations |-> Each(UnmarshalDerivation, OrNone(derivations))]
  BY <1>1 DEF UnmarshalOutput
<1> QED BY <1>2, <1>3, <1>4, <1>5, <1>6 DEF NormalOutput

-----------------------------------------------------------------------------
(* All of them.                                                            *)
LEMMA TxInputsDecoded ==
    ASSUME NEW s \in Seq(TxInput)
    PROVE  Each(TxInputFromJson, OrNone(OmitSeq(Each(MarshalTxInput, s))))
             = [k \in DOMAIN s |-> TxInputOf("HexBytes", s[k])]
<1>1. /\ DOMAIN s = 1..Len(s) /\ Len(s) \in Nat
      /\ \A k \in DOMAIN s : s[k] \in TxInput
  OBVIOUS
<1> DEFINE m == Each(MarshalTxInput, s)
<1>2. m = [k \in DOMAIN s |-> MarshalTxInput(s[k])]
  BY DEF Each
<1>3. m \in [1..Len(s) -> TxInputForm]
  BY <1>1, <1>2, TxInputDecoded
<1> HIDE DEF m
<1>4. OrNone(OmitSeq(m)) = m
  BY <1>1, <1>3, OmitMapped, AbsentAssumption
<1>5. Each(TxInputFromJson, m)
        = [k \in DOMAIN s |-> TxInputFromJson(MarshalTxInput(s[k]))]
  BY <1>2 DEF Each
<1>6. \A k \in DOMAIN s : TxInputFromJson(MarshalTxInput(s[k])) = TxInputOf("HexBytes", s[k])
  BY <1>1, TxInputDecoded
<1>7. Each(TxInputFromJson, m) = [k \in DOMAIN s |-> TxInputOf("HexBytes", s[k])]
  BY <1>5, <1>6
<1> QED BY <1>4, <1>7 DEF m

LEMMA TxOutputsDecoded ==
    ASSUME NEW s \in Seq(TxOutput)
    PROVE  Each(TxOutputFromJson, OrNone(OmitSeq(Each(MarshalTxOutput, s))))
             = [k \in DOMAIN s |-> TxOutputOf("HexBytes", s[k])]
<1>1. /\ DOMAIN s = 1..Len(s) /\ Len(s) \in Nat
      /\ \A k \in DOMAIN s : s[k] \in TxOutput
  OBVIOUS
<1> DEFINE m == Each(MarshalTxOutput, s)
<1>2. m = [k \in DOMAIN s |-> MarshalTxOutput(s[k])]
  BY DEF Each
<1>3. m \in [1..Len(s) -> TxOutputForm]
  BY <1>1, <1>2, TxOutputDecoded
<1> HIDE DEF m
<1>4. OrNone(OmitSeq(m)) = m
  BY <1>1, <1>3, OmitMapped, AbsentAssumption
<1>5. Each(TxOutputFromJson, m)
        = [k \in DOMAIN s |-> TxOutputFromJson(MarshalTxOutput(s[k]))]
  BY <1>2 DEF Each
<1>6. \A k \in DOMAIN s : TxOutputFromJson(MarshalTxOutput(s[k])) = TxOutputOf("HexBytes", s[k])
  BY <1>1, TxOutputDecoded
<1>7. Each(TxOutputFromJson, m) = [k \in DOMAIN s |-> TxOutputOf("HexBytes", s[k])]
  BY <1>5, <1>6
<1> QED BY <1>4, <1>7 DEF m

LEMMA XpubsDecoded ==
    ASSUME NEW s \in Seq(Xpub)
    PROVE  Each(XpubFromJson, OrNone(OmitSeq(Each(MarshalXpub, s))))
             = [k \in DOMAIN s |-> XpubOf(s[k])]
<1>1. /\ DOMAIN s = 1..Len(s) /\ Len(s) \in Nat
      /\ \A k \in DOMAIN s : s[k] \in Xpub
  OBVIOUS
<1> DEFINE m == Each(MarshalXpub, s)
<1>2. m = [k \in DOMAIN s |-> MarshalXpub(s[k])]
  BY DEF Each
<1>3. m \in [1..Len(s) -> XpubForm]
  BY <1>1, <1>2, XpubDecoded
<1> HIDE DEF m
<1>4. OrNone(OmitSeq(m)) = m
  BY <1>1, <1>3, OmitMapped, AbsentAssumption
<1>5. Each(XpubFromJson, m)
        = [k \in DOMAIN s |-> XpubFromJson(MarshalXpub(s[k]))]
  BY <1>2 DEF Each
<1>6. \A k \in DOMAIN s : XpubFromJson(MarshalXpub(s[k])) = XpubOf(s[k])
  BY <1>1, XpubDecoded
<1>7. Each(XpubFromJson, m) = [k \in DOMAIN s |-> XpubOf(s[k])]
  BY <1>5, <1>6
<1> QED BY <1>4, <1>7 DEF m

LEMMA InputsDecoded ==
    ASSUME NEW s \in Seq(Input)
    PROVE  Each(PsbtInputFromJson, OrNone(OmitSeq(Each(MarshalInput, s))))
             = [k \in DOMAIN s |-> InputOf("HexBytes", s[k])]
<1>1. /\ DOMAIN s = 1..Len(s) /\ Len(s) \in Nat
      /\ \A k \in DOMAIN s : s[k] \in Input
  OBVIOUS
<1> DEFINE m == Each(MarshalInput, s)
<1>2. m = [k \in DOMAIN s |-> MarshalInput(s[k])]
  BY DEF Each
<1>3. m \in [1..Len(s) -> InputForm]
  BY <1>1, <1>2, InputDecoded
<1> HIDE DEF m
<1>4. OrNone(OmitSeq(m)) = m
  BY <1>1, <1>3, OmitMapped, AbsentAssumption
<1>5. Each(PsbtInputFromJson, m)
        = [k \in DOMAIN s |-> PsbtInputFromJson(MarshalInput(s[k]))]
  BY <1>2 DEF Each
<1>6. \A k \in DOMAIN s : PsbtInputFromJson(MarshalInput(s[k])) = InputOf("HexBytes", s[k])
  BY <1>1, InputDecoded
<1>7. Each(PsbtInputFromJson, m) = [k \in DOMAIN s |-> InputOf("HexBytes", s[k])]
  BY <1>5, <1>6
<1> QED BY <1>4, <1>7 DEF m

LEMMA OutputsDecoded ==
    ASSUME NEW s \in Seq(Output)
    PROVE  Each(PsbtOutputFromJson, OrNone(OmitSeq(Each(MarshalOutput, s))))
             = [k \in DOMAIN s |-> OutputOf("HexBytes", s[k])]
<1>1. /\ DOMAIN s = 1..Len(s) /\ Len(s) \in Nat
      /\ \A k \in DOMAIN s : s[k] \in Output
  OBVIOUS
<1> DEFINE m == Each(MarshalOutput, s)
<1>2. m = [k \in DOMAIN s |-> MarshalOutput(s[k])]
  BY DEF Each
<1>3. m \in [1..Len(s) -> OutputForm]
  BY <1>1, <1>2, OutputDecoded
<1> HIDE DEF m
<1>4. OrNone(OmitSeq(m)) = m
  BY <1>1, <1>3, OmitMapped, AbsentAssumption
<1>5. Each(PsbtOutputFromJson, m)
        = [k \in DOMAIN s |-> PsbtOutputFromJson(MarshalOutput(s[k]))]
  BY <1>2 DEF Each
<1>6. \A k \in DOMAIN s : PsbtOutputFromJson(MarshalOutput(s[k])) = OutputOf("HexBytes", s[k])
  BY <1>1, OutputDecoded
<1>7. Each(PsbtOutputFromJson, m) = [k \in DOMAIN s |-> OutputOf("HexBytes", s[k])]
  BY <1>5, <1>6
<1> QED BY <1>4, <1>7 DEF m

LEMMA XpubsEncoded ==
    ASSUME NEW s \in Seq(Xpub),
           NEW v, v = [k \in DOMAIN s |-> XpubOf(s[k])]
    PROVE  Each(UnmarshalXpub, OrNone(OmitSeq(Each(XpubToJson, v))))
             = [k \in DOMAIN s |-> NormalXpub(s[k])]
<1>1. /\ DOMAIN s = 1..Len(s) /\ Len(s) \in Nat
      /\ \A k \in DOMAIN s : s[k] \in Xpub
  OBVIOUS
<1> DEFINE m == Each(XpubToJson, v)
<1>2. m = [k \in DOMAIN s |-> XpubToJson(XpubOf(s[k]))]
  BY DEF Each
<1>3. m \in [1..Len(s) -> XpubForm]
  BY <1>1, <1>2, XpubEncoded
<1> HIDE DEF m
<1>4. OrNone(OmitSeq(m)) = m
  BY <1>1, <1>3, OmitMapped, AbsentAssumption
<1>5. Each(UnmarshalXpub, m)
        = [k \in DOMAIN s |-> UnmarshalXpub(XpubToJson(XpubOf(s[k])))]
  BY <1>2 DEF Each
<1>6. \A k \in DOMAIN s : UnmarshalXpub(XpubToJson(XpubOf(s[k]))) = NormalXpub(s[k])
  BY <1>1, XpubEncoded
<1>7. Each(UnmarshalXpub, m) = [k \in DOMAIN s |-> NormalXpub(s[k])]
  BY <1>5, <1>6
<1> QED BY <1>4, <1>7 DEF m

-----------------------------------------------------------------------------
(* The packet.                                                             *)
LEMMA ParsedFields ==
    ASSUME NEW p \in Parsed
    PROVE  /\ p.unsignedTx.inputs \in Seq(TxInput)
           /\ p.unsignedTx.outputs \in Seq(TxOutput)
           /\ p.xpubs \in Seq(Xpub) /\ p.message \in STRING \cup {Nil}
           /\ p.inputs \in Seq(Input) /\ p.outputs \in Seq(Output)
           /\ p = [unsignedTx |-> [inputs |-> p.unsignedTx.inputs,
                                   outputs |-> p.unsignedTx.outputs],
                   xpubs |-> p.xpubs, message |-> p.message,
                   inputs |-> p.inputs, outputs |-> p.outputs]
<1>1. /\ p.unsignedTx \in [inputs : Seq(TxInput), outputs : Seq(TxOutput)]
      /\ p.xpubs \in Seq(Xpub) /\ p.message \in STRING \cup {Nil}
      /\ p.inputs \in Seq(Input) /\ p.outputs \in Seq(Output)
      /\ p = [unsignedTx |-> p.unsignedTx, xpubs |-> p.xpubs,
              message |-> p.message, inputs |-> p.inputs, outputs |-> p.outputs]
  BY DEF Parsed
<1>2. /\ p.unsignedTx.inputs \in Seq(TxInput)
      /\ p.unsignedTx.outputs \in Seq(TxOutput)
      /\ p.unsignedTx = [inputs |-> p.unsignedTx.inputs,
                         outputs |-> p.unsignedTx.outputs]
  BY <1>1
<1> QED BY <1>1, <1>2

(* A message is replaced once.                                             *)
LEMMA MessageNormal ==
    ASSUME NEW m \in STRING \cup {Nil}
    PROVE  /\ NormalMessage(m) \in STRING \cup {Nil}
           /\ NormalMessage(NormalMessage(m)) = NormalMessage(m)
           /\ m \notin Malformed => NormalMessage(m) = m
           /\ m # Nil => Utf8(m) # Absent
<1>1. ASSUME m # Nil
      PROVE  Utf8(m) \in STRING /\ Utf8(m) \notin Malformed
  BY <1>1, ConstantsAssumption DEF Utf8
<1>2. m # Nil => Utf8(m) # Absent
  BY <1>1, AbsentAssumption
<1> QED BY <1>1, <1>2 DEF NormalMessage, Utf8

LEMMA ValueDecoded ==
    ASSUME NEW p \in Parsed
    PROVE  PsbtFromJson(Marshal(p)) = ValueOf("HexBytes", p)
<1> DEFINE ins == OmitSeq(Each(MarshalTxInput, p.unsignedTx.inputs))
           outs == OmitSeq(Each(MarshalTxOutput, p.unsignedTx.outputs))
           xpubs == OmitSeq(Each(MarshalXpub, p.xpubs))
           inputs == OmitSeq(Each(MarshalInput, p.inputs))
           outputs == OmitSeq(Each(MarshalOutput, p.outputs))
<1>1. Marshal(p) = [unsignedTx |-> [inputs |-> ins, outputs |-> outs],
                    xpubs |-> xpubs,
                    message |-> IF p.message = Nil THEN Absent ELSE Utf8(p.message),
                    inputs |-> inputs, outputs |-> outputs]
  BY DEF Marshal, MarshalTx
<1>2. Each(TxInputFromJson, OrNone(ins))
        = [k \in DOMAIN p.unsignedTx.inputs |->
             TxInputOf("HexBytes", p.unsignedTx.inputs[k])]
  BY ParsedFields, TxInputsDecoded
<1>3. Each(TxOutputFromJson, OrNone(outs))
        = [k \in DOMAIN p.unsignedTx.outputs |->
             TxOutputOf("HexBytes", p.unsignedTx.outputs[k])]
  BY ParsedFields, TxOutputsDecoded
<1>4. Each(XpubFromJson, OrNone(xpubs)) = [k \in DOMAIN p.xpubs |-> XpubOf(p.xpubs[k])]
  BY ParsedFields, XpubsDecoded
<1>5. Each(PsbtInputFromJson, OrNone(inputs))
        = [k \in DOMAIN p.inputs |-> InputOf("HexBytes", p.inputs[k])]
  BY ParsedFields, InputsDecoded
<1>6. Each(PsbtOutputFromJson, OrNone(outputs))
        = [k \in DOMAIN p.outputs |-> OutputOf("HexBytes", p.outputs[k])]
  BY ParsedFields, OutputsDecoded
<1> HIDE DEF ins, outs, xpubs, inputs, outputs
<1>7. PsbtFromJson(Marshal(p))
        = [unsignedTx |-> [inputs |-> Each(TxInputFromJson, OrNone(ins)),
                           outputs |-> Each(TxOutputFromJson, OrNone(outs))],
           xpubs |-> Each(XpubFromJson, OrNone(xpubs)),
           message |-> IF p.message = Nil THEN Absent ELSE Utf8(p.message),
           inputs |-> Each(PsbtInputFromJson, OrNone(inputs)),
           outputs |-> Each(PsbtOutputFromJson, OrNone(outputs))]
  BY <1>1 DEF PsbtFromJson, TxFromJson
<1> QED BY <1>2, <1>3, <1>4, <1>5, <1>6, <1>7 DEF ValueOf

LEMMA ValueRetyped ==
    ASSUME NEW how, NEW r \in Reps, Allowed(how, r), NEW p \in Parsed
    PROVE  Retyped(how, ValueOf(r, p)) = ValueOf(Given(how), p)
<1>1. /\ \A k \in DOMAIN p.unsignedTx.inputs : p.unsignedTx.inputs[k] \in TxInput
      /\ \A k \in DOMAIN p.unsignedTx.outputs : p.unsignedTx.outputs[k] \in TxOutput
      /\ \A k \in DOMAIN p.inputs : p.inputs[k] \in Input
      /\ \A k \in DOMAIN p.outputs : p.outputs[k] \in Output
  BY ParsedFields
<1>2. Retyped(how, ValueOf(r, p))
        = [unsignedTx |->
             [inputs |-> [k \in DOMAIN p.unsignedTx.inputs |->
                            TxInputAs(how, TxInputOf(r, p.unsignedTx.inputs[k]))],
              outputs |-> [k \in DOMAIN p.unsignedTx.outputs |->
                            TxOutputAs(how, TxOutputOf(r, p.unsignedTx.outputs[k]))]],
           xpubs |-> [k \in DOMAIN p.xpubs |-> XpubOf(p.xpubs[k])],
           message |-> IF p.message = Nil THEN Absent ELSE Utf8(p.message),
           inputs |-> [k \in DOMAIN p.inputs |-> InputAs(how, InputOf(r, p.inputs[k]))],
           outputs |-> [k \in DOMAIN p.outputs |->
                            OutputAs(how, OutputOf(r, p.outputs[k]))]]
  BY DEF Retyped, ValueOf, Each
<1>3. [k \in DOMAIN p.unsignedTx.inputs |->
         TxInputAs(how, TxInputOf(r, p.unsignedTx.inputs[k]))]
        = [k \in DOMAIN p.unsignedTx.inputs |->
             TxInputOf(Given(how), p.unsignedTx.inputs[k])]
  BY <1>1, TxInputRetyped
<1>4. [k \in DOMAIN p.unsignedTx.outputs |->
         TxOutputAs(how, TxOutputOf(r, p.unsignedTx.outputs[k]))]
        = [k \in DOMAIN p.unsignedTx.outputs |->
             TxOutputOf(Given(how), p.unsignedTx.outputs[k])]
  BY <1>1, TxOutputRetyped
<1>5. [k \in DOMAIN p.inputs |-> InputAs(how, InputOf(r, p.inputs[k]))]
        = [k \in DOMAIN p.inputs |-> InputOf(Given(how), p.inputs[k])]
  BY <1>1, InputRetyped
<1>6. [k \in DOMAIN p.outputs |-> OutputAs(how, OutputOf(r, p.outputs[k]))]
        = [k \in DOMAIN p.outputs |-> OutputOf(Given(how), p.outputs[k])]
  BY <1>1, OutputRetyped
<1> QED BY <1>2, <1>3, <1>4, <1>5, <1>6 DEF ValueOf

(* A packet that Go can have: parts for as many inputs and outputs as its  *)
(* transaction has.                                                        *)
IsPacket(p) == /\ p \in Parsed
              /\ DOMAIN p.inputs = DOMAIN p.unsignedTx.inputs
              /\ DOMAIN p.outputs = DOMAIN p.unsignedTx.outputs

LEMMA ValueEncoded ==
    ASSUME NEW r \in Reps, NEW p, IsPacket(p)
    PROVE  PsbtFromData(PsbtToJson(ValueOf(r, p))) = Normal(p)
<1>1. /\ p \in Parsed
      /\ DOMAIN p.inputs = DOMAIN p.unsignedTx.inputs
      /\ DOMAIN p.outputs = DOMAIN p.unsignedTx.outputs
  BY DEF IsPacket
<1>2. /\ \A k \in DOMAIN p.unsignedTx.inputs : p.unsignedTx.inputs[k] \in TxInput
      /\ \A k \in DOMAIN p.unsignedTx.outputs : p.unsignedTx.outputs[k] \in TxOutput
      /\ \A k \in DOMAIN p.inputs : p.inputs[k] \in Input
      /\ \A k \in DOMAIN p.outputs : p.outputs[k] \in Output
  BY <1>1, ParsedFields
<1> DEFINE ins == [k \in DOMAIN p.unsignedTx.inputs |->
                     TxInputToJson(TxInputOf(r, p.unsignedTx.inputs[k]))]
           outs == [k \in DOMAIN p.unsignedTx.outputs |->
                     TxOutputToJson(TxOutputOf(r, p.unsignedTx.outputs[k]))]
           keys == [k \in DOMAIN p.xpubs |-> XpubOf(p.xpubs[k])]
           xpubs == OmitSeq(Each(XpubToJson, keys))
           message == IF p.message = Nil THEN Absent ELSE Utf8(p.message)
           inputs == [k \in DOMAIN p.inputs |-> PsbtInputToJson(InputOf(r, p.inputs[k]))]
           outputs == [k \in DOMAIN p.outputs |->
                         PsbtOutputToJson(OutputOf(r, p.outputs[k]))]
<1>3. PsbtToJson(ValueOf(r, p))
        = [unsignedTx |-> [inputs |-> ins, outputs |-> outs], xpubs |-> xpubs,
           message |-> message, inputs |-> inputs, outputs |-> outputs]
  <2>1. Each(TxInputToJson, [k \in DOMAIN p.unsignedTx.inputs |->
                               TxInputOf(r, p.unsignedTx.inputs[k])]) = ins
    BY DEF Each
  <2>2. Each(TxOutputToJson, [k \in DOMAIN p.unsignedTx.outputs |->
                                TxOutputOf(r, p.unsignedTx.outputs[k])]) = outs
    BY DEF Each
  <2>3. Each(PsbtInputToJson, [k \in DOMAIN p.inputs |-> InputOf(r, p.inputs[k])])
          = inputs
    BY DEF Each
  <2>4. Each(PsbtOutputToJson, [k \in DOMAIN p.outputs |-> OutputOf(r, p.outputs[k])])
          = outputs
    BY DEF Each
  <2> HIDE DEF ins, outs, inputs, outputs
  <2> QED BY <2>1, <2>2, <2>3, <2>4 DEF PsbtToJson, TxToJson, ValueOf
<1>4. Each(UnmarshalXpub, OrNone(xpubs)) = [k \in DOMAIN p.xpubs |-> NormalXpub(p.xpubs[k])]
  <2> HIDE DEF keys
  <2>1. keys = [k \in DOMAIN p.xpubs |-> XpubOf(p.xpubs[k])] /\ p.xpubs \in Seq(Xpub)
    BY <1>1, ParsedFields DEF keys
  <2> QED BY <2>1, XpubsEncoded
<1>5. (IF message = Absent THEN Nil ELSE message) = NormalMessage(p.message)
  <2>1. p.message \in STRING \cup {Nil}
    BY <1>1, ParsedFields
  <2>2. p.message # Nil => Utf8(p.message) # Absent
    BY <2>1, MessageNormal
  <2> QED BY <2>2 DEF NormalMessage
<1>6. Each(UnmarshalTxInput, ins) = p.unsignedTx.inputs
  <2>1. Each(UnmarshalTxInput, ins)
          = [k \in DOMAIN p.unsignedTx.inputs |-> p.unsignedTx.inputs[k]]
    BY <1>2, TxInputEncoded DEF Each
  <2>2. p.unsignedTx.inputs \in Seq(TxInput)
    BY <1>1, ParsedFields
  <2> QED BY <2>1, <2>2, SeqShape
<1>7. Each(UnmarshalTxOutput, outs)
        = [k \in DOMAIN p.unsignedTx.outputs |-> NormalTxOutput(p.unsignedTx.outputs[k])]
  BY <1>2, TxOutputEncoded DEF Each
<1>8. [k \in DOMAIN ins |-> IF k \in DOMAIN inputs THEN UnmarshalInput(inputs[k])
                                                   ELSE NoInput]
        = [k \in DOMAIN p.inputs |-> NormalInput(p.inputs[k])]
  BY <1>1, <1>2, InputEncoded
<1>9. [k \in DOMAIN outs |-> IF k \in DOMAIN outputs THEN UnmarshalOutput(outputs[k])
                                                     ELSE NoOutput]
        = [k \in DOMAIN p.outputs |-> NormalOutput(p.outputs[k])]
  BY <1>1, <1>2, OutputEncoded
<1> HIDE DEF ins, outs, keys, xpubs, message, inputs, outputs
<1>10. PsbtFromData(PsbtToJson(ValueOf(r, p)))
        = [unsignedTx |-> [inputs |-> Each(UnmarshalTxInput, ins),
                           outputs |-> Each(UnmarshalTxOutput, outs)],
           xpubs |-> Each(UnmarshalXpub, OrNone(xpubs)),
           message |-> IF message = Absent THEN Nil ELSE message,
           inputs |-> [k \in DOMAIN ins |->
                         IF k \in DOMAIN inputs THEN UnmarshalInput(inputs[k])
                                                ELSE NoInput],
           outputs |-> [k \in DOMAIN outs |->
                         IF k \in DOMAIN outputs THEN UnmarshalOutput(outputs[k])
                                                 ELSE NoOutput]]
  BY <1>3 DEF PsbtFromData, TxFromData
<1> QED BY <1>4, <1>5, <1>6, <1>7, <1>8, <1>9, <1>10 DEF Normal

-----------------------------------------------------------------------------
(* One round trip normalises a packet, and leaves a normal one alone.      *)
LEMMA NormalParts ==
    /\ \A o \in TxOutput : /\ NormalTxOutput(o) \in TxOutput
                           /\ NormalTxOutput(NormalTxOutput(o)) = NormalTxOutput(o)
    /\ \A x \in Xpub : /\ NormalXpub(x) \in Xpub
                       /\ NormalXpub(NormalXpub(x)) = NormalXpub(x)
    /\ \A i \in Input : /\ NormalInput(i) \in Input
                        /\ NormalInput(NormalInput(i)) = NormalInput(i)
    /\ \A o \in Output : /\ NormalOutput(o) \in Output
                         /\ NormalOutput(NormalOutput(o)) = NormalOutput(o)
<1>1. ASSUME NEW o \in TxOutput
      PROVE  /\ NormalTxOutput(o) \in TxOutput
             /\ NormalTxOutput(NormalTxOutput(o)) = NormalTxOutput(o)
  <2>1. o.value \in Nat /\ o.scriptPubKey \in Seq(Nat)
    BY DEF TxOutput
  <2> QED BY <2>1, NumberFixed DEF NormalTxOutput, TxOutput
<1>2. ASSUME NEW x \in Xpub
      PROVE  NormalXpub(x) \in Xpub /\ NormalXpub(NormalXpub(x)) = NormalXpub(x)
  <2>1. x.extendedKey \in Seq(Nat) /\ x.fingerprint \in Nat /\ x.path \in Seq(Nat)
    BY DEF Xpub
  <2>2. KeyOf(x) \in Seq(Nat) /\ KeyOf([x EXCEPT !.extendedKey = KeyOf(x)]) = KeyOf(x)
    BY <2>1, ConstantsAssumption DEF KeyOf, Xpub
  <2>3. \A y : y.extendedKey = KeyOf(x) => KeyOf(y) = KeyOf(x)
    BY <2>1, ConstantsAssumption DEF KeyOf
  <2> QED BY <2>1, <2>2, <2>3 DEF NormalXpub, Xpub
<1>3. ASSUME NEW b \in Seq(Nat) \cup {Nil}
      PROVE  /\ NormalBytes(b) \in Seq(Nat) \cup {Nil}
             /\ NormalBytes(NormalBytes(b)) = NormalBytes(b)
  BY DEF NormalBytes
<1>4. ASSUME NEW u \in [value : Nat, script : Seq(Nat)] \cup {Nil}
      PROVE  /\ NormalUtxo(u) \in [value : Nat, script : Seq(Nat)] \cup {Nil}
             /\ NormalUtxo(NormalUtxo(u)) = NormalUtxo(u)
  <2>1. CASE NormalUtxo(u) = Nil
    BY <2>1 DEF NormalUtxo
  <2>2. CASE NormalUtxo(u) # Nil
    <3>1. /\ u # Nil /\ u.script # << >> /\ u.value \in Nat /\ u.script \in Seq(Nat)
          /\ NormalUtxo(u) = [value |-> Number(u.value), script |-> u.script]
      BY <2>2 DEF NormalUtxo
    <3>2. Number(u.value) \in Nat /\ Number(Number(u.value)) = Number(u.value)
      BY <3>1, NumberFixed
    <3>3. NormalUtxo(u).value = Number(u.value) /\ NormalUtxo(u).script = u.script
      BY <3>1
    <3>4. NormalUtxo(NormalUtxo(u))
            = [value |-> Number(Number(u.value)), script |-> u.script]
      BY <2>2, <3>1, <3>3 DEF NormalUtxo
    <3> QED BY <3>1, <3>2, <3>4
  <2> QED BY <2>1, <2>2
<1>5. ASSUME NEW i \in Input
      PROVE  NormalInput(i) \in Input /\ NormalInput(NormalInput(i)) = NormalInput(i)
  BY <1>3, <1>4, InputFields DEF NormalInput, Input
<1>6. ASSUME NEW o \in Output
      PROVE  NormalOutput(o) \in Output /\ NormalOutput(NormalOutput(o)) = NormalOutput(o)
  BY <1>3, OutputFields DEF NormalOutput, Output
<1> QED BY <1>1, <1>2, <1>5, <1>6

LEMMA NormalIsPacket ==
    ASSUME NEW p, IsPacket(p)
    PROVE  IsPacket(Normal(p)) /\ Normal(Normal(p)) = Normal(p)
<1>1. /\ p \in Parsed
      /\ DOMAIN p.inputs = DOMAIN p.unsignedTx.inputs
      /\ DOMAIN p.outputs = DOMAIN p.unsignedTx.outputs
  BY DEF IsPacket
<1> DEFINE outs == [k \in DOMAIN p.unsignedTx.outputs |->
                      NormalTxOutput(p.unsignedTx.outputs[k])]
           xpubs == [k \in DOMAIN p.xpubs |-> NormalXpub(p.xpubs[k])]
           message == NormalMessage(p.message)
           inputs == [k \in DOMAIN p.inputs |-> NormalInput(p.inputs[k])]
           outputs == [k \in DOMAIN p.outputs |-> NormalOutput(p.outputs[k])]
<1>2. Normal(p) = [unsignedTx |-> [inputs |-> p.unsignedTx.inputs, outputs |-> outs],
                   xpubs |-> xpubs, message |-> message,
                   inputs |-> inputs, outputs |-> outputs]
  BY DEF Normal
<1>3. /\ outs \in Seq(TxOutput) /\ DOMAIN outs = DOMAIN p.unsignedTx.outputs
      /\ [k \in DOMAIN outs |-> NormalTxOutput(outs[k])] = outs
  BY <1>1, ParsedFields, NormalParts
<1>4. /\ xpubs \in Seq(Xpub)
      /\ [k \in DOMAIN xpubs |-> NormalXpub(xpubs[k])] = xpubs
  BY <1>1, ParsedFields, NormalParts
<1>5. /\ inputs \in Seq(Input) /\ DOMAIN inputs = DOMAIN p.inputs
      /\ [k \in DOMAIN inputs |-> NormalInput(inputs[k])] = inputs
  <2>1. /\ DOMAIN p.inputs = 1..Len(p.inputs) /\ Len(p.inputs) \in Nat
        /\ \A k \in DOMAIN p.inputs : p.inputs[k] \in Input
    BY <1>1, ParsedFields
  <2>2. inputs \in [1..Len(p.inputs) -> Input]
    BY <2>1, NormalParts
  <2>3. \A k \in DOMAIN inputs : NormalInput(inputs[k]) = inputs[k]
    BY <2>1, NormalParts
  <2> HIDE DEF inputs
  <2>4. [k \in DOMAIN inputs |-> NormalInput(inputs[k])] = [k \in DOMAIN inputs |-> inputs[k]]
    BY <2>3
  <2>5. inputs \in Seq(Input) /\ DOMAIN inputs = DOMAIN p.inputs
    BY <2>1, <2>2, AllOfSeq
  <2> QED BY <2>4, <2>5, SeqShape
<1>6. /\ outputs \in Seq(Output) /\ DOMAIN outputs = DOMAIN p.outputs
      /\ [k \in DOMAIN outputs |-> NormalOutput(outputs[k])] = outputs
  <2>1. /\ DOMAIN p.outputs = 1..Len(p.outputs) /\ Len(p.outputs) \in Nat
        /\ \A k \in DOMAIN p.outputs : p.outputs[k] \in Output
    BY <1>1, ParsedFields
  <2>2. outputs \in [1..Len(p.outputs) -> Output]
    BY <2>1, NormalParts
  <2>3. \A k \in DOMAIN outputs : NormalOutput(outputs[k]) = outputs[k]
    BY <2>1, NormalParts
  <2> HIDE DEF outputs
  <2>4. [k \in DOMAIN outputs |-> NormalOutput(outputs[k])] = [k \in DOMAIN outputs |-> outputs[k]]
    BY <2>3
  <2>5. outputs \in Seq(Output) /\ DOMAIN outputs = DOMAIN p.outputs
    BY <2>1, <2>2, AllOfSeq
  <2> QED BY <2>4, <2>5, SeqShape
<1>10. message \in STRING \cup {Nil} /\ NormalMessage(message) = message
  BY <1>1, ParsedFields, MessageNormal
<1> HIDE DEF outs, xpubs, message, inputs, outputs
<1>7. Normal(p) \in Parsed
  BY <1>1, <1>2, <1>3, <1>4, <1>5, <1>6, <1>10, ParsedFields DEF Parsed
<1>8. Normal(Normal(p))
        = [unsignedTx |-> [inputs |-> p.unsignedTx.inputs,
                           outputs |-> [k \in DOMAIN outs |-> NormalTxOutput(outs[k])]],
           xpubs |-> [k \in DOMAIN xpubs |-> NormalXpub(xpubs[k])],
           message |-> NormalMessage(message),
           inputs |-> [k \in DOMAIN inputs |-> NormalInput(inputs[k])],
           outputs |-> [k \in DOMAIN outputs |-> NormalOutput(outputs[k])]]
  <2> DEFINE q == Normal(p)
  <2>1. /\ q.unsignedTx.inputs = p.unsignedTx.inputs /\ q.unsignedTx.outputs = outs
        /\ q.xpubs = xpubs /\ q.message = message
        /\ q.inputs = inputs /\ q.outputs = outputs
    BY <1>2
  <2> HIDE DEF q
  <2>2. Normal(q)
        = [unsignedTx |-> [inputs |-> p.unsignedTx.inputs,
                           outputs |-> [k \in DOMAIN outs |-> NormalTxOutput(outs[k])]],
           xpubs |-> [k \in DOMAIN xpubs |-> NormalXpub(xpubs[k])],
           message |-> NormalMessage(message),
           inputs |-> [k \in DOMAIN inputs |-> NormalInput(inputs[k])],
           outputs |-> [k \in DOMAIN outputs |-> NormalOutput(outputs[k])]]
    BY <2>1 DEF Normal
  <2> QED BY <2>2 DEF q
<1>9. /\ DOMAIN Normal(p).inputs = DOMAIN Normal(p).unsignedTx.inputs
      /\ DOMAIN Normal(p).outputs = DOMAIN Normal(p).unsignedTx.outputs
  BY <1>1, <1>2, <1>3, <1>5, <1>6
<1> QED BY <1>2, <1>3, <1>4, <1>5, <1>6, <1>7, <1>8, <1>9, <1>10 DEF IsPacket

LEMMA RepresentableIsNormal ==
    ASSUME NEW p, IsPacket(p), Representable(p)
    PROVE  Normal(p) = p
<1>1. p \in Parsed
  BY DEF IsPacket
<1>2. ASSUME NEW k \in DOMAIN p.unsignedTx.outputs
      PROVE  NormalTxOutput(p.unsignedTx.outputs[k]) = p.unsignedTx.outputs[k]
  <2> DEFINE o == p.unsignedTx.outputs[k]
  <2>1. o \in TxOutput
    BY <1>1, ParsedFields
  <2>2. o.value <= MaxSafe
    BY DEF Representable
  <2> HIDE DEF o
  <2>3. /\ o.value \in Nat
        /\ o = [value |-> o.value, scriptPubKey |-> o.scriptPubKey]
    BY <2>1 DEF TxOutput
  <2>4. NormalTxOutput(o) = o
    BY <2>2, <2>3, NumberFixed DEF NormalTxOutput
  <2> QED BY <2>4 DEF o
<1>3. ASSUME NEW k \in DOMAIN p.xpubs
      PROVE  NormalXpub(p.xpubs[k]) = p.xpubs[k]
  <2> DEFINE x == p.xpubs[k]
  <2>1. x \in Xpub
    BY <1>1, ParsedFields
  <2>2. Len(x.extendedKey) = KeyLength
    BY DEF Representable
  <2> HIDE DEF x
  <2>3. x = [extendedKey |-> x.extendedKey, fingerprint |-> x.fingerprint,
             path |-> x.path]
    BY <2>1 DEF Xpub
  <2>4. NormalXpub(x) = x
    BY <2>2, <2>3 DEF NormalXpub, KeyOf
  <2> QED BY <2>4 DEF x
<1>4. ASSUME NEW k \in DOMAIN p.inputs
      PROVE  NormalInput(p.inputs[k]) = p.inputs[k]
  <2> DEFINE i == p.inputs[k]
             u == i.witnessUtxo
  <2>1. i \in Input /\ i.script # << >>
    BY <1>1, <1>4, ParsedFields DEF Representable
  <2>2. NormalBytes(i.script) = i.script
    BY <2>1 DEF NormalBytes
  <2>3. u = Nil \/ (u.script # << >> /\ u.value <= MaxSafe)
    BY <1>4 DEF Representable
  <2>4. u \in [value : Nat, script : Seq(Nat)] \cup {Nil}
    BY <2>1, InputFields
  <2> HIDE DEF u
  <2>5. NormalUtxo(u) = u
    <3>1. CASE u = Nil
      BY <3>1 DEF NormalUtxo
    <3>2. CASE u # Nil
      <4>1. u.value \in Nat /\ u = [value |-> u.value, script |-> u.script]
        BY <2>4, <3>2
      <4> QED BY <2>3, <3>2, <4>1, NumberFixed DEF NormalUtxo
    <3> QED BY <3>1, <3>2
  <2> HIDE DEF i
  <2> QED BY <2>1, <2>2, <2>5, InputFields DEF NormalInput, u, i
<1>5. ASSUME NEW k \in DOMAIN p.outputs
      PROVE  NormalOutput(p.outputs[k]) = p.outputs[k]
  <2> DEFINE o == p.outputs[k]
  <2>1. o \in Output /\ o.script # << >>
    BY <1>1, <1>5, ParsedFields DEF Representable
  <2> HIDE DEF o
  <2>2. NormalOutput(o) = o
    BY <2>1, OutputFields DEF NormalOutput, NormalBytes
  <2> QED BY <2>2 DEF o
<1>6. /\ [k \in DOMAIN p.unsignedTx.outputs |-> NormalTxOutput(p.unsignedTx.outputs[k])]
           = p.unsignedTx.outputs
      /\ [k \in DOMAIN p.xpubs |-> NormalXpub(p.xpubs[k])] = p.xpubs
      /\ [k \in DOMAIN p.inputs |-> NormalInput(p.inputs[k])] = p.inputs
      /\ [k \in DOMAIN p.outputs |-> NormalOutput(p.outputs[k])] = p.outputs
  BY <1>1, <1>2, <1>3, <1>4, <1>5, ParsedFields
<1>7. NormalMessage(p.message) = p.message
  BY <1>1, ParsedFields, MessageNormal DEF Representable
<1> QED BY <1>1, <1>6, <1>7, ParsedFields DEF Normal

-----------------------------------------------------------------------------
(* The invariant: what the value is at each point of the way.              *)
IInv ==
    /\ IsPacket(packet) /\ again \in BOOLEAN
    /\ again => Normal(packet) = packet
    /\ \/ at = "go"
       \/ at = "value" /\ \E r \in {"string", "HexBytes"} : value = ValueOf(r, packet)
       \/ at = "retyped" /\ \E r \in Reps : value = ValueOf(r, packet)
       \/ at = "encoded" /\ value = Normal(packet)

LEMMA Initially == Init => IInv
  BY PacketsAssumption DEF Init, IInv, IsPacket

LEMMA Inductive ==
    ASSUME IInv, [Next]_vars
    PROVE  IInv'
<1>1. CASE Decode
  <2>1. value' = ValueOf("HexBytes", packet)
    BY <1>1, ValueDecoded DEF Decode, IInv, IsPacket
  <2> QED BY <1>1, <2>1 DEF Decode, IInv
<1>2. CASE Store
  <2>1. PICK r \in {"string", "HexBytes"} : value = ValueOf(r, packet)
    BY <1>2 DEF Store, IInv
  <2>2. r \in Reps /\ Allowed("toJSON", r) /\ Given("toJSON") = "string"
    BY DEF Reps, Allowed, Given
  <2>3. value' = ValueOf("string", packet)
    BY <1>2, <2>1, <2>2, ValueRetyped DEF Store, IInv, IsPacket
  <2> QED BY <1>2, <2>3 DEF Store, IInv
<1>3. CASE Retype
  <2>1. PICK r \in {"string", "HexBytes"} : value = ValueOf(r, packet)
    BY <1>3 DEF Retype, IInv
  <2>2. PICK how \in {"Uint8Array", "string"} : value' = Retyped(how, value)
    BY <1>3 DEF Retype
  <2>3. r \in Reps /\ Allowed(how, r) /\ Given(how) = how /\ how \in Reps
    BY DEF Reps, Allowed, Given
  <2>4. value' = ValueOf(how, packet)
    BY <2>1, <2>2, <2>3, ValueRetyped DEF IInv, IsPacket
  <2> QED BY <1>3, <2>3, <2>4 DEF Retype, IInv
<1>4. CASE Encode
  <2>1. PICK r \in Reps : value = ValueOf(r, packet)
    BY <1>4 DEF Encode, IInv, Reps
  <2>2. value' = Normal(packet)
    BY <1>4, <2>1, ValueEncoded DEF Encode, IInv
  <2> QED BY <1>4, <2>2 DEF Encode, IInv
<1>5. CASE Again
  <2>1. IsPacket(packet) /\ packet' = Normal(packet) /\ again' = TRUE /\ at' = "go"
    BY <1>5 DEF Again, IInv
  <2> QED BY <2>1, NormalIsPacket DEF IInv
<1>6. CASE UNCHANGED vars
  BY <1>6 DEF vars, IInv
<1> QED BY <1>1, <1>2, <1>3, <1>4, <1>5, <1>6 DEF Next

(* Whatever a packet contains, decoding, storing, retyping and encoding it *)
(* gives it back when JSON has a form for it, and otherwise changes it in  *)
(* the first round trip only (psbt.ts:53-56, codec.ts:37-45).              *)
THEOREM CodecRoundTrips == Spec => []RoundTrips
<1>1. IInv => RoundTrips
  BY RepresentableIsNormal DEF IInv, RoundTrips
<1> QED BY <1>1, Initially, Inductive, PTL DEF Spec
=============================================================================
