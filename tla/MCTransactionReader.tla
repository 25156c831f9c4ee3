------------------------ MODULE MCTransactionReader ------------------------
(* Transactions at, below and beyond every limit, whole and in pieces. *)
EXTENDS TransactionFormat

CONSTANTS a, b, neo, gas    \* script hashes
CONSTANTS key               \* a public key
CONSTANTS nothing

MCHashes == {a, b, neo, gas}
MCKeys == {key}

Call(contract, amount) ==
    <<Instruction("PUSHNULL", None), amount,
      Instruction("PUSHDATA1", b), Instruction("PUSHDATA1", a),
      Instruction("PUSH", 4), Instruction("PACK", None), Instruction("PUSH", 15),
      Instruction("PUSHDATA1", "transfer"), Instruction("PUSHDATA1", contract),
      Instruction("SYSCALL", "System.Contract.Call")>>

\* Each kind of number at the ends of its range and at its change of sign.
Amounts ==
    {Instruction("PUSH", n) : n \in {0, 15, 16}}
    \cup {Instruction("PUSHINT8", n) : n \in {0, BYTE \div 2 - 1, BYTE \div 2, BYTE - 1}}
    \cup {Instruction("PUSHINT16", n) : n \in {BYTE, Word16 \div 2 - 1, Word16 \div 2, Word16 - 1}}
    \cup {Instruction("PUSHINT32", n) : n \in {Word32 \div 2 - 1, Word32 \div 2}}
    \cup {Instruction("PUSHINT64", n) : n \in {Word32, Word64 \div 2 - 1, Word64 \div 2, Word64 - 1}}

NeoCall == Call(neo, Instruction("PUSH", 1))

\* A transfer with one instruction changed, the last ones missing, or one more.
OtherScripts ==
    {ReplaceAt(NeoCall, n, Instruction("OTHER", None)) : n \in 1..10}
    \cup {SubSeq(NeoCall, 1, n) : n \in {2, 9}}
    \cup {Append(NeoCall, Instruction("OTHER", None)), Append(NeoCall, Instruction("PACK", None)),
          Call(a, Instruction("PUSH", 1)),
          ReplaceAt(NeoCall, 5, Instruction("PUSH", 3)),
          ReplaceAt(NeoCall, 10, Instruction("SYSCALL", "other")), <<>>}

Sign(account, scope, contracts, groups) ==
    [account |-> account, scope |-> scope, contracts |-> contracts, groups |-> groups]
Entry(account) == Sign(account, {"CALLED_BY_ENTRY"}, <<>>, <<>>)

Repeat(x, n) == [k \in 1..n |-> x]
C == "CUSTOM_CONTRACTS"
G == "CUSTOM_GROUPS"

OneSigner ==
    {<<Sign(a, scope, <<>>, <<>>)>> : scope \in
        {{}, {"GLOBAL"}, {"GLOBAL", "CALLED_BY_ENTRY"}, {"OTHER"}}}
    \cup {<<Sign(a, {C}, Repeat(b, n), <<>>)>> : n \in 0..3}
    \cup {<<Sign(a, {G}, <<>>, Repeat(key, n))>> : n \in 0..3}
    \cup {<<Sign(a, {C, G}, Repeat(b, m), Repeat(key, n))>> : m, n \in 1..2}
    \cup {<<Sign(a, {}, <<b>>, <<>>)>>, <<Sign(a, {C}, <<b>>, <<key>>)>>}

MoreSigners ==
    {<<>>, <<Entry(a), Entry(b)>>, <<Entry(a), Entry(a)>>, <<Entry(a), Entry(b), Entry(neo)>>,
     <<Sign(a, {C}, <<b>>, <<>>), Sign(b, {G}, <<>>, <<key>>)>>,
     <<Sign(a, {C, G}, <<a, b>>, <<key>>), Sign(b, {"GLOBAL"}, <<>>, <<>>)>>}

Plain ==
    [version |-> 0, nonce |-> 7, system_fee |-> 1, network_fee |-> 2, valid_until_block |-> 9,
     signers |-> <<Entry(a)>>, attributes |-> <<>>, script |-> NeoCall]

MCTransactions ==
    {Plain}
    \cup {[Plain EXCEPT !.version = 1], [Plain EXCEPT !.system_fee = -1],
          [Plain EXCEPT !.network_fee = -1], [Plain EXCEPT !.system_fee = 0]}
    \cup {[Plain EXCEPT !.signers = l] : l \in OneSigner \cup MoreSigners}
    \cup {[Plain EXCEPT !.attributes = l] : l \in
            {<<"HIGH_PRIORITY">>, <<"OTHER">>, <<"HIGH_PRIORITY", "HIGH_PRIORITY">>,
             Repeat("HIGH_PRIORITY", 3)}}
    \cup {[Plain EXCEPT !.script = Call(c, n)] : c \in {neo, gas}, n \in Amounts}
    \cup {[Plain EXCEPT !.script = s, !.attributes = <<"HIGH_PRIORITY">>] : s \in OtherScripts}

\* The bytes of a transaction whose script has another length than they say.
Saying(n, t) == ReplaceAt(Write(t), Len(Write(t)) - 1, Item("varint", n))

\* A transaction, and one with something behind it.
MCStreams ==
    {Write(t) : t \in MCTransactions}
    \cup {Append(Write(Plain), Item("rest", None))}
    \cup {Saying(n, Plain) : n \in {0, 9, 11}}
    \cup {Saying(10, [Plain EXCEPT !.script = Append(@, Instruction("PACK", None))])}
=============================================================================
