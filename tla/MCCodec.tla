------------------------------- MODULE MCCodec -------------------------------
(* Codec over packets of at most one input and output, in which every      *)
(* field takes its values next to the plainest other fields; and over all  *)
(* combinations within an input.                                           *)
EXTENDS Codec

MCBytes == {<< >>, <<7>>}
MCMalformed == {"\\xff"}
MCReplaced == [m \in MCMalformed |-> "U+FFFD"]
MCPaths == {<< >>, <<0>>, <<1, 3>>}

Packet(message, xpubs, tx, inputs, outputs) ==
    [unsignedTx |-> tx, xpubs |-> xpubs, message |-> message,
     inputs |-> inputs, outputs |-> outputs]
Tx(inputs, outputs) == [inputs |-> inputs, outputs |-> outputs]

TxInputs == [txid : {"t"}, sequence : {0, 1}, scriptSig : MCBytes,
             witness : {<< >>, << << >> >>, << <<7>>, << >> >>}]
TxOutputs == [value : {0, 7, 9}, scriptPubKey : MCBytes]

Pairs == [key : {<<7>>}, value : MCBytes]
Derivations == [pubKey : {<<7>>}, fingerprint : {0, 1, 2}, path : MCPaths,
                leafHashes : {<< >>, << <<7>> >>}]
Xpubs == [extendedKey : {<<7>>, <<7, 7>>}, fingerprint : {0, 2}, path : MCPaths]
AtMostOne(S) == {<< >>} \cup {<<x>> : x \in S}

Bip32s == [pubKey : {<<7>>}, fingerprint : {0, 2}, path : MCPaths]
Leaves == [bytes : {<<7>>}, version : {0, 1}]

Parts == [script : MCBytes \cup {Nil}, pairs : AtMostOne(Pairs),
          bip32 : AtMostOne(Bip32s), derivations : AtMostOne(Derivations)]
Inputs ==
    {[sighashType |-> s, witnessUtxo |-> u, script |-> x.script,
      pairs |-> x.pairs, leaves |-> l, bip32 |-> x.bip32,
      derivations |-> x.derivations] :
        s \in {0, 1}, l \in AtMostOne(Leaves),
        x \in {x \in Parts : x.bip32 = << >> \/ x.derivations = << >>},
        u \in {Nil} \cup [value : {0, 9}, script : MCBytes]}

TxInputPlain == CHOOSE i \in TxInputs : i.scriptSig = << >> /\ i.witness = << >>
TxOutputPlain == CHOOSE o \in TxOutputs : o.value = 0

MCPackets ==
    {Packet(m, x, Tx(<< >>, << >>), << >>, << >>) :
        m \in {Nil, "", "m"} \cup MCMalformed, x \in AtMostOne(Xpubs)}
    \cup {Packet(Nil, << >>, Tx(i, o), [k \in DOMAIN i |-> NoInput],
                                       [k \in DOMAIN o |-> NoOutput]) :
        i \in AtMostOne(TxInputs), o \in AtMostOne(TxOutputs)}
    \cup {Packet(Nil, << >>, Tx(<<TxInputPlain>>, << >>), <<i>>, << >>) :
        i \in Inputs}
    \cup {Packet(Nil, << >>, Tx(<< >>, <<TxOutputPlain>>), << >>, <<o>>) :
        o \in Parts}
===============================================================================
