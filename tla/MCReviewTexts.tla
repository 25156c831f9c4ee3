---------------------------- MODULE MCReviewTexts ----------------------------
(* Numbers of 20 and of 6 bits, around the powers of ten and at their ends. *)
EXTENDS ReviewTexts

MAX64 == UINT64 \div 2 - 1

MCFees == {0, 1, 9, 10, 9999, 10000, 10001, 99999, 100000, 120340, MAX64 - 1, MAX64}
MCAmounts == MCFees \cup {-1, -9, -10, -MAX64, -MAX64 - 1}

\* The least address, the greatest, and some between them.
MCHashes ==
    {[k \in 1..HASH_LEN |-> 0], [k \in 1..HASH_LEN |-> 255],
     [k \in 1..HASH_LEN |-> IF k = 1 THEN 128 ELSE 0],
     [k \in 1..HASH_LEN |-> IF k = HASH_LEN THEN 1 ELSE 0],
     [k \in 1..HASH_LEN |-> (57 * k) % 256],
     [k \in 1..HASH_LEN |-> (91 * k * k + 7) % 256]}
MCChecksum ==
    [h \in MCHashes |-> IF \A k \in 1..HASH_LEN : h[k] = h[1] THEN [k \in 1..4 |-> h[1]]
                        ELSE <<h[3], 58, 0, h[HASH_LEN]>>]

Plain ==
    [system_fee |-> 1, network_fee |-> 2, valid_until_block |-> 5, network_magic |-> 7,
     is_system_asset_transfer |-> FALSE, is_neo |-> FALSE, amount |-> 0,
     dst |-> [k \in 1..HASH_LEN |-> 0], scopes |-> {}]
Transfer == [Plain EXCEPT !.is_system_asset_transfer = TRUE]

\* What the parser accepts: GLOBAL stands alone.
MCScopes == {{"GLOBAL"}} \cup SUBSET {"CALLED_BY_ENTRY", "CUSTOM_CONTRACTS", "CUSTOM_GROUPS", "OTHER"}

MCTransactions ==
    {[Plain EXCEPT !.system_fee = m, !.network_fee = n] : m \in MCFees, n \in {0, 10, 90000, MAX64}}
    \cup {[Transfer EXCEPT !.amount = n, !.is_neo = neo] : n \in MCAmounts, neo \in BOOLEAN}
    \cup {[Transfer EXCEPT !.amount = 1, !.dst = h] : h \in MCHashes}
    \cup {[Plain EXCEPT !.network_magic = n, !.valid_until_block = UINT32 - 1 - n] :
            n \in {0, 9, 10, NETWORK_TESTNET, 31, 32, NETWORK_MAINNET, 34, 54, 55, 63}}
    \cup {[Plain EXCEPT !.scopes = {s1, s2}] : s1 \in {{"OTHER"}, {"GLOBAL"}}, s2 \in MCScopes}

=============================================================================
