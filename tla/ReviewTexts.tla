----------------------------- MODULE ReviewTexts -----------------------------
(***************************************************************************)
(* The texts of a review: what ui_display_transaction prints of the        *)
(* numbers and the address of a transaction, and parse_scope_name of the   *)
(* scope of a signer (ui/display.c, ui/utils.c).  The arrays they are      *)
(* printed into are static, one review finds there what the last one left. *)
(*                                                                         *)
(* The sizes of the arrays follow the sizes of the numbers: UINT64 values  *)
(* have DIGITS64 digits, and so on.                                        *)
(***************************************************************************)
EXTENDS Formats, Base58, SequencesExt

CONSTANTS
    UINT64, DIGITS64,             \* 2^64, 20
    UINT32, DIGITS32,             \* 2^32, 10
    DECIMALS,                     \* 8, of GAS
    NETWORK_MAINNET, NETWORK_TESTNET,
    HASH_LEN,                     \* UINT160_LEN
    ADDRESS_LEN,                  \* 34
    Checksum,                     \* of a version and a hash, SCRIPT_HASH_CHECKSUM_LEN bytes
    Transactions,                 \* the accepted transactions that are reviewed
    MaxReviews                    \* bound: reviews since the application was started

BUFFER_LEN == DIGITS64 + 1                \* buffer[21]
TEXT_LEN == DIGITS64 + DECIMALS + 2       \* g_system_fee[30], system_fee[30], ...
NUMBER_LEN == DIGITS32 + 1                \* g_network[11], g_valid_until_block[11]
SCOPE_LEN == 28                           \* g_scope[28]
TITLE_LEN == 64                           \* g_text[64]

ADDRESS_VERSION == 53

Scopes == {"CALLED_BY_ENTRY", "CUSTOM_CONTRACTS", "CUSTOM_GROUPS", "GLOBAL", "OTHER"}

\* The transactions the parser accepts.
ReviewedTransaction ==
    [system_fee : 0..(UINT64 \div 2 - 1), network_fee : 0..(UINT64 \div 2 - 1),
     valid_until_block : 0..(UINT32 - 1), network_magic : 0..(UINT32 - 1),
     is_system_asset_transfer : BOOLEAN, is_neo : BOOLEAN,
     amount : -(UINT64 \div 2)..(UINT64 \div 2 - 1), dst : Seq(0..255),
     scopes : SUBSET (SUBSET Scopes)]    \* of the signers

ASSUME SizesAssumption ==
    /\ UINT64 \in Nat \ {0} /\ UINT64 % 2 = 0 /\ DigitsOf(UINT64 - 1) = DIGITS64
    /\ UINT32 \in Nat \ {0} /\ UINT32 % 2 = 0 /\ DigitsOf(UINT32 - 1) = DIGITS32
    /\ DIGITS64 <= 20 /\ DECIMALS \in 4..(DIGITS64 - 1)
ASSUME NetworksAssumption == NETWORK_MAINNET # NETWORK_TESTNET
ASSUME AddressAssumption == HASH_LEN = 20 /\ ADDRESS_LEN = 34
ASSUME ReviewsAssumption == MaxReviews \in Nat
ASSUME TransactionsAssumption ==
    /\ Transactions # {}
    /\ \A t \in Transactions :
          /\ t \in ReviewedTransaction /\ Len(t.dst) = HASH_LEN
          /\ Checksum[t.dst] \in Seq(0..255) /\ Len(Checksum[t.dst]) = 4

VARIABLES
    tx,              \* the transaction that was displayed last
    status,          \* what ui_display_transaction answered, SW_OK if the flow is shown
    g_address, g_text, g_network, g_system_fee, g_network_fee, g_total_fees,
    g_valid_until_block,
    g_scope,         \* its words, each with a comma in the array
    reviews,         \* history: how many there were
    page             \* the last screen of a scope in this review: the scope and its words

texts == <<g_address, g_text, g_network, g_system_fee, g_network_fee, g_total_fees,
           g_valid_until_block>>
vars == <<tx, status, texts, g_scope, reviews, page>>

NoPage == [scope |-> {}, words |-> <<"None">>]

Init ==
    /\ tx = CHOOSE t \in Transactions : TRUE   \* not looked at before there is a review
    /\ g_address = <<>> /\ g_text = <<>> /\ g_network = <<>> /\ g_system_fee = <<>>
    /\ g_network_fee = <<>> /\ g_total_fees = <<>> /\ g_valid_until_block = <<>>
    /\ g_scope = <<>> /\ page = NoPage
    /\ status = "none" /\ reviews = 0

\* The application is left and started again, which clears the statics.
Restart ==
    /\ reviews > 0
    /\ g_address' = <<>> /\ g_text' = <<>> /\ g_network' = <<>> /\ g_system_fee' = <<>>
    /\ g_network_fee' = <<>> /\ g_total_fees' = <<>> /\ g_valid_until_block' = <<>>
    /\ g_scope' = <<>> /\ page' = NoPage
    /\ status' = "none" /\ reviews' = 0
    /\ tx' = CHOOSE t \in Transactions : TRUE

-----------------------------------------------------------------------------
(* ui_display_transaction. *)

Gas == <<71, 65, 83, 32>>    \* "GAS "
Neo == <<78, 69, 79, 32>>    \* "NEO "
MainNet == <<77>>            \* a character for the name
TestNet == <<84>>

\* script_hash_to_address into dst_address, which has no room for a zero behind it.
script_hash_to_address ==
    [h \in {t.dst : t \in Transactions} |->
        LET a == base58_encode(<<ADDRESS_VERSION>> \o h \o Checksum[h], ADDRESS_LEN)
        IN  IF a.ok THEN a.text ELSE <<>>]

\* %s of it: what is in the memory that follows is read too if there is no zero, and
\* is printed if there is room.
Following == {<<>>, <<57>>}
AddressTexts(h) == {snprintf(ADDRESS_LEN + 1, script_hash_to_address[h] \o x) : x \in Following}

Uint64(n) == n % UINT64

fpu64(n, decimals) == format_fpu64(BUFFER_LEN, TEXT_LEN, Uint64(n), decimals)

\* The four numbers in the order in which they are formatted.
Numbers(t) ==
    <<IF t.is_system_asset_transfer THEN fpu64(t.amount, IF t.is_neo THEN 0 ELSE DECIMALS)
      ELSE Formatted(<<>>),
      fpu64(t.system_fee, DECIMALS),
      fpu64(t.network_fee, DECIMALS),
      fpu64(t.network_fee + t.system_fee, DECIMALS)>>

\* The status words of those that cannot be.
Failures == <<"SW_DISPLAY_TOKEN_TRANSFER_AMOUNT_FAIL", "SW_DISPLAY_SYSTEM_FEE_FAIL",
              "SW_DISPLAY_NETWORK_FEE_FAIL", "SW_DISPLAY_TOTAL_FEE_FAIL">>

\* Mutant: the main network is not told apart.
NetworkByNumber(magic) == snprintf(NUMBER_LEN, PercentD(magic, UINT32))

NetworkText(magic) ==
    snprintf(NUMBER_LEN,
             IF magic = NETWORK_MAINNET THEN MainNet
             ELSE IF magic = NETWORK_TESTNET THEN TestNet
             ELSE PercentD(magic, UINT32))

\* A fee, or a cleared array if it could not be formatted.
FeeText(n) == IF n.ok THEN snprintf(TEXT_LEN, Gas \o n.text) ELSE <<>>

\* Each number that cannot be formatted ends it; what was printed before stays.
ui_display_transaction(t) ==
    LET n == Numbers(t)
        reached(k) == \A m \in 1..(k - 1) : n[m].ok
    IN  /\ reviews < MaxReviews /\ reviews' = reviews + 1
        /\ tx' = t
        /\ status' = IF reached(5) THEN "SW_OK"
                     ELSE Failures[CHOOSE k \in 1..4 : reached(k) /\ ~n[k].ok]
        /\ IF t.is_system_asset_transfer
           THEN /\ g_address' \in AddressTexts(t.dst)
                /\ g_text' = IF n[1].ok
                             THEN snprintf(TITLE_LEN, (IF t.is_neo THEN Neo ELSE Gas) \o n[1].text)
                             ELSE <<>>
           ELSE UNCHANGED <<g_address, g_text>>
        /\ g_network' = IF reached(2) THEN NetworkText(t.network_magic) ELSE g_network
        /\ g_system_fee' = IF reached(2) THEN FeeText(n[2]) ELSE g_system_fee
        /\ g_network_fee' = IF reached(3) THEN FeeText(n[3]) ELSE g_network_fee
        /\ g_total_fees' = IF reached(4) THEN FeeText(n[4]) ELSE g_total_fees
        /\ g_valid_until_block' =
              IF reached(5) THEN snprintf(NUMBER_LEN, PercentD(t.valid_until_block, UINT32))
              ELSE g_valid_until_block
        /\ page' = NoPage
        /\ UNCHANGED g_scope

-----------------------------------------------------------------------------
(* The screen of a scope. *)

Flags == {"CALLED_BY_ENTRY", "CUSTOM_CONTRACTS", "CUSTOM_GROUPS"}
WordOf ==
    [CALLED_BY_ENTRY |-> "By Entry", CUSTOM_CONTRACTS |-> "Contracts", CUSTOM_GROUPS |-> "Groups"]
LengthOf(word) ==
    CASE word = "None" -> 4
      [] word = "Global" -> 6
      [] word = "By Entry" -> 9
      [] word = "Contracts" -> 10
      [] word = "Groups" -> 7
TextLength(words) ==
    LET n[k \in 0..Len(words)] == IF k = 0 THEN 0 ELSE n[k - 1] + LengthOf(words[k])
    IN  n[Len(words)]

\* The word of a flag, if it is set.
FlagWord(flag, scope) == IF flag \in scope THEN <<WordOf[flag]>> ELSE <<>>

\* Mutant: every flag is written to the start of g_scope.
LastWord(scope) ==
    CASE scope = {} -> <<"None">>
      [] scope = {"GLOBAL"} -> <<"Global">>
      [] OTHER -> IF "CUSTOM_GROUPS" \in scope THEN <<WordOf["CUSTOM_GROUPS"]>>
                  ELSE IF "CUSTOM_CONTRACTS" \in scope THEN <<WordOf["CUSTOM_CONTRACTS"]>>
                  ELSE FlagWord("CALLED_BY_ENTRY", scope)

\* The words that are written to g_scope, one behind the other.
ScopeWords(scope) ==
    CASE scope = {} -> <<"None">>
      [] scope = {"GLOBAL"} -> <<"Global">>
      [] OTHER -> FlagWord("CALLED_BY_ENTRY", scope) \o FlagWord("CUSTOM_CONTRACTS", scope)
                  \o FlagWord("CUSTOM_GROUPS", scope)

\* A scope without a flag that is known writes nothing and returns -1, with which
\* %.*s prints the array as it is.
parse_scope_name(scope) ==
    LET words == ScopeWords(scope)
    IN  /\ g_scope' = IF words = <<>> THEN g_scope ELSE words
        /\ page' = [scope |-> scope, words |-> g_scope']

ShowScope(scope) ==
    /\ status = "SW_OK"
    /\ parse_scope_name(scope)
    /\ UNCHANGED <<tx, status, texts, reviews>>

Next ==
    \/ \E t \in Transactions : ui_display_transaction(t)
    \/ \E scope \in tx.scopes : ShowScope(scope)
    \/ Restart

Spec == Init /\ [][Next]_vars

-----------------------------------------------------------------------------
(* Properties. *)

\* No text fills its array to the last character, so each one ends where it should.
TypeOK ==
    /\ tx \in Transactions
    /\ \A t \in {g_system_fee, g_network_fee, g_total_fees} : Len(t) < TEXT_LEN
    /\ \A t \in {g_network, g_valid_until_block} : Len(t) < NUMBER_LEN
    /\ Len(g_text) < TITLE_LEN /\ Len(g_address) <= ADDRESS_LEN
    /\ TextLength(g_scope) < SCOPE_LEN

\* Every amount and every fee the parser lets pass can be displayed.
FormattingSucceeds == status \in {"none", "SW_OK"}

\* The number behind the digits of a text, as a person reads it.
IsDigit(c) == c \in Zero..(Zero + 9)
NumberIn(text) ==
    LET v[k \in 0..Len(text)] ==
            IF k = 0 THEN 0
            ELSE IF IsDigit(text[k]) THEN 10 * v[k - 1] + (text[k] - Zero) ELSE v[k - 1]
    IN  v[Len(text)]

\* A text that is n, as people write it.
IsNumber(text, n) ==
    /\ \A k \in 1..Len(text) : IsDigit(text[k])
    /\ text[1] = Zero => Len(text) = 1
    /\ NumberIn(text) = n

\* A text that reads as n with that many digits behind its point, and is written as
\* people write it: one point, no zero before other digits.
ReadsAs(text, n, decimals) ==
    LET points == {k \in 1..Len(text) : text[k] = Point}
        point == CHOOSE k \in points : TRUE
    IN  /\ Cardinality(points) = 1 /\ Len(text) - point = decimals
        /\ \A k \in 1..Len(text) : k = point \/ IsDigit(text[k])
        /\ text[1] = Zero => point = 2
        /\ NumberIn(text) = n

\* The fees on the screen are the fees of the transaction under review, to the last
\* digit, and the total is their sum, which the 64 bits it is added in can hold.
FeesAreShown ==
    status = "SW_OK" =>
        \A f \in {<<g_system_fee, tx.system_fee>>, <<g_network_fee, tx.network_fee>>,
                  <<g_total_fees, tx.system_fee + tx.network_fee>>} :
            /\ SubSeq(f[1], 1, 4) = Gas
            /\ ReadsAs(SubSeq(f[1], 5, Len(f[1])), f[2], DECIMALS)

\* A transfer's screens show its token and its amount; NEO, which is not divisible, has a
\* zero behind the point.
AmountIsShown ==
    status = "SW_OK" /\ tx.is_system_asset_transfer =>
        /\ SubSeq(g_text, 1, 4) = IF tx.is_neo THEN Neo ELSE Gas
        /\ tx.amount >= 0 =>
              ReadsAs(SubSeq(g_text, 5, Len(g_text)),
                      IF tx.is_neo THEN 10 * tx.amount ELSE tx.amount,
                      IF tx.is_neo THEN 1 ELSE DECIMALS)

\* And the address of its destination, all of it and nothing behind it.
AddressIsShown ==
    status = "SW_OK" /\ tx.is_system_asset_transfer =>
        /\ Len(g_address) = ADDRESS_LEN
        /\ SameNumber(g_address, <<ADDRESS_VERSION>> \o tx.dst \o Checksum[tx.dst])

\* The names stand for their networks only, and numbers in the lower half of their range
\* are printed as they are.
NumbersAreShown ==
    status = "SW_OK" =>
        /\ g_network = MainNet <=> tx.network_magic = NETWORK_MAINNET
        /\ g_network = TestNet <=> tx.network_magic = NETWORK_TESTNET
        /\ 2 * tx.network_magic < UINT32 /\ g_network \notin {MainNet, TestNet} =>
              IsNumber(g_network, tx.network_magic)
        /\ 2 * tx.valid_until_block < UINT32 =>
              IsNumber(g_valid_until_block, tx.valid_until_block)

\* The comment of g_network: a private network is shown as its uint32 number.
NetworkIsNumber ==
    status = "SW_OK" /\ tx.network_magic \notin {NETWORK_MAINNET, NETWORK_TESTNET} =>
        g_network = Decimal(tx.network_magic)

\* The screen of a scope names the flags of that scope that have a name, all of them and
\* no other, whatever scope or transaction was shown before.
ScopeIsShown ==
    LET known == Flags \cap page.scope
    IN  CASE page.scope = {} -> page.words = <<"None">>
          [] page.scope = {"GLOBAL"} -> page.words = <<"Global">>
          [] known # {} -> /\ IsInjective(page.words)
                           /\ ToSet(page.words) = {WordOf[f] : f \in known}
          [] OTHER -> TRUE
=============================================================================
