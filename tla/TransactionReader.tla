-------------------------- MODULE TransactionReader --------------------------
(***************************************************************************)
(* transaction_deserialize (transaction/deserialize.c) between the chunks  *)
(* of SIGN_TX.  The bytes in raw_tx are parsed from the start whenever the *)
(* host says that a chunk is the last one, into a structure that is        *)
(* cleared only by the first chunk: an attempt that fails leaves there     *)
(* what it stored, and more bytes may follow it.                           *)
(*                                                                         *)
(* A stream of bytes is written as what the reads of the parser obtain     *)
(* from it, one item [is, v] for each field.  A field that the stream ends *)
(* inside of, or that has other bytes than its kind of read can take,      *)
(* reads as one that is absent.                                            *)
(***************************************************************************)
EXTENDS TransferScript

CONSTANTS
    Streams,               \* what hosts send, each a sequence of items
    Keys,                  \* public keys of groups, ECPOINT_LEN bytes each
    Unset,                 \* a pointer to nothing that could be read
    MIN_TX_SIGNERS, MAX_TX_SIGNERS, MAX_SIGNER_SUB_ITEMS, MAX_ATTRIBUTES,
    MaxAttempts            \* bound: attempts to parse after each first chunk

Scopes == {"CALLED_BY_ENTRY", "CUSTOM_CONTRACTS", "CUSTOM_GROUPS", "GLOBAL", "OTHER"}

Item(is, v) == [is |-> is, v |-> v]

Items ==
    [is : {"version", "nonce", "valid_until_block"}, v : Nat]
    \cup [is : {"system_fee", "network_fee"}, v : Int]
    \cup [is : {"varint"}, v : Nat]
    \cup [is : {"hash"}, v : Hash160]
    \cup [is : {"scope"}, v : SUBSET Scopes]
    \cup [is : {"key"}, v : Keys]
    \cup [is : {"attribute"}, v : {"HIGH_PRIORITY", "OTHER"}]
    \cup [is : {"script"}, v : Seq(Instructions)]
    \cup [is : {"rest"}, v : {None}]

ASSUME StreamsAssumption == \A s \in Streams : s \in Seq(Items)
ASSUME UnsetAssumption == Unset \notin Hash160 /\ Unset \notin Keys
ASSUME LimitsAssumption ==
    /\ MIN_TX_SIGNERS \in Nat \ {0} /\ MAX_TX_SIGNERS \in MIN_TX_SIGNERS..255
    /\ MAX_SIGNER_SUB_ITEMS \in 0..255
    /\ MAX_ATTRIBUTES \in 0..255
    /\ MaxAttempts \in Nat

VARIABLES
    stream,    \* what the host has left to send
    raw,       \* raw_tx
    off,       \* buf->offset
    at,        \* what is read next; "idle" outside of transaction_deserialize
    i, j,      \* the loop counters
    tx,        \* tx_info.transaction
    status,    \* what the last chunk was answered with; "none" if it was not parsed
    attempt    \* history: attempts to parse since the first chunk

vars == <<stream, raw, off, at, i, j, tx, status, attempt>>

\* explicit_bzero of G_context.
ZeroSigner ==
    [account |-> Unset, scope |-> {},
     allowed_contracts |-> [k \in 0..(MAX_SIGNER_SUB_ITEMS - 1) |-> Unset],
     allowed_contracts_size |-> 0,
     allowed_groups |-> [k \in 0..(MAX_SIGNER_SUB_ITEMS - 1) |-> Unset],
     allowed_groups_size |-> 0]

ZeroTransaction ==
    [version |-> 0, nonce |-> 0, system_fee |-> 0, network_fee |-> 0, valid_until_block |-> 0,
     signers |-> [k \in 0..(MAX_TX_SIGNERS - 1) |-> ZeroSigner], signers_size |-> 0,
     attributes |-> [k \in 0..(MAX_ATTRIBUTES - 1) |-> "NONE"], attributes_size |-> 0,
     script |-> <<>>,
     is_system_asset_transfer |-> FALSE, is_neo |-> FALSE, amount |-> 0, dst_address |-> Unset]

Init ==
    /\ stream \in Streams
    /\ raw = <<>> /\ off = 0 /\ at = "idle" /\ i = 0 /\ j = 0
    /\ tx = ZeroTransaction
    /\ status = "none" /\ attempt = 0

-----------------------------------------------------------------------------
(* The chunks. *)

\* The first chunk of a signing request.
Restart ==
    /\ at = "idle"
    /\ stream' \in Streams
    /\ raw' = <<>>
    /\ tx' = ZeroTransaction
    /\ off' = 0
    /\ status' = "none" /\ attempt' = 0
    /\ UNCHANGED <<at, i, j>>

Append_raw(n) ==
    /\ at = "idle"
    /\ raw' = raw \o SubSeq(stream, 1, n)
    /\ stream' = SubSeq(stream, n + 1, Len(stream))
    /\ status' = "none"

MoreChunk(n) ==
    /\ Append_raw(n)
    /\ UNCHANGED <<off, at, i, j, tx, attempt>>

LastChunk(n) ==
    /\ attempt < MaxAttempts
    /\ Append_raw(n)
    /\ attempt' = attempt + 1
    /\ off' = 0 /\ at' = "header" /\ i' = 0 /\ j' = 0
    /\ UNCHANGED tx

-----------------------------------------------------------------------------
(* Reading. *)

ReadableAt(o, is) == o < Len(raw) /\ raw[o + 1].is = is
Readable(is) == ReadableAt(off, is)
Value == raw[off + 1].v

Return(s) == at' = "idle" /\ status' = s /\ UNCHANGED <<i, j>>
Goto(place, m, n) == at' = place /\ i' = m /\ j' = n /\ UNCHANGED status

\* A read that fails, and one that a return follows because of its value.
Refuse(s) == Return(s) /\ UNCHANGED off
TakeAndRefuse(s) == Return(s) /\ off' = off + 1
TakeAndGoto(place, m, n) == Goto(place, m, n) /\ off' = off + 1

Reading(place) == at = place /\ UNCHANGED <<stream, raw, attempt>>

\* The numbers at the start, in their order, and how each may be refused.
Header == <<"version", "nonce", "system_fee", "network_fee", "valid_until_block">>
ParsingError ==
    [version |-> "VERSION_PARSING_ERROR", nonce |-> "NONCE_PARSING_ERROR",
     system_fee |-> "SYSTEM_FEE_PARSING_ERROR", network_fee |-> "NETWORK_FEE_PARSING_ERROR",
     valid_until_block |-> "VALID_UNTIL_BLOCK_PARSING_ERROR"]
ValueError ==
    [version |-> "VERSION_VALUE_ERROR", system_fee |-> "SYSTEM_FEE_VALUE_ERROR",
     network_fee |-> "NETWORK_FEE_VALUE_ERROR"]

BadValue(f, v) ==
    \/ f = "version" /\ v > 0
    \/ f \in {"system_fee", "network_fee"} /\ v < 0

ReadHeader ==
    LET f == Header[i + 1] IN
    /\ Reading("header")
    /\ \/ /\ ~Readable(f)
          /\ tx' = [tx EXCEPT ![f] = 0]
          /\ Refuse(ParsingError[f])
       \/ /\ Readable(f)
          /\ tx' = [tx EXCEPT ![f] = Value]
          /\ IF BadValue(f, Value) THEN TakeAndRefuse(ValueError[f])
             ELSE IF i + 1 < Len(Header) THEN TakeAndGoto("header", i + 1, 0)
             ELSE TakeAndGoto("signers", 0, 0)

ReadSignerCount ==
    /\ Reading("signers")
    /\ \/ ~Readable("varint") /\ Refuse("SIGNER_LENGTH_PARSING_ERROR") /\ UNCHANGED tx
       \/ /\ Readable("varint") /\ Value \notin MIN_TX_SIGNERS..MAX_TX_SIGNERS
          /\ TakeAndRefuse("SIGNER_LENGTH_VALUE_ERROR") /\ UNCHANGED tx
       \/ /\ Readable("varint") /\ Value \in MIN_TX_SIGNERS..MAX_TX_SIGNERS
          /\ tx' = [tx EXCEPT !.signers_size = Value]
          /\ TakeAndGoto("account", 0, 0)

\* Mutant: an account is not compared with the one before it.
DuplicateOfEarlier(a) == \E s \in 0..(i - 2) : tx.signers[s].account = a

Duplicate(a) == \E s \in 0..(i - 1) : tx.signers[s].account = a

ReadAccount ==
    /\ Reading("account")
    /\ tx' = [tx EXCEPT !.signers[i].account = IF Readable("hash") THEN Value ELSE Unset]
    /\ \/ ~Readable("hash") /\ Refuse("SIGNER_ACCOUNT_PARSING_ERROR")
       \/ /\ Readable("hash") /\ Duplicate(Value)
          /\ TakeAndRefuse("SIGNER_ACCOUNT_DUPLICATE_ERROR")
       \/ Readable("hash") /\ ~Duplicate(Value) /\ TakeAndGoto("scope", i, 0)

\* The part that follows a signer, and those of its two lists that its scope announces.
AfterSigner ==
    IF i + 1 < tx.signers_size THEN Goto("account", i + 1, 0) ELSE Goto("attributes", 0, 0)
AfterContracts(scope) ==
    IF "CUSTOM_GROUPS" \in scope THEN Goto("groups", i, 0) ELSE AfterSigner

\* Mutant: contracts are read whatever the scope announces.
AfterAnyScope(scope) == Goto("contracts", i, 0)

AfterScope(scope) ==
    IF "CUSTOM_CONTRACTS" \in scope THEN Goto("contracts", i, 0) ELSE AfterContracts(scope)

ReadScope ==
    /\ Reading("scope")
    /\ \/ ~Readable("scope") /\ Refuse("SIGNER_SCOPE_PARSING_ERROR") /\ UNCHANGED tx
       \/ /\ Readable("scope")
          /\ tx' = [tx EXCEPT !.signers[i].scope = Value]
          /\ IF "GLOBAL" \in Value /\ Value # {"GLOBAL"}
             THEN TakeAndRefuse("SIGNER_SCOPE_VALUE_ERROR_GLOBAL_FLAG")
             ELSE AfterScope(Value) /\ off' = off + 1

\* Mutants: one item more than the arrays hold, and one less.
TooManyByTwo(n) == n > MAX_SIGNER_SUB_ITEMS + 1
TooManyAtLimit(n) == n >= MAX_SIGNER_SUB_ITEMS

TooMany(n) == n > MAX_SIGNER_SUB_ITEMS

ReadContractCount ==
    /\ Reading("contracts")
    /\ \/ /\ ~Readable("varint")
          /\ Refuse("SIGNER_ALLOWED_CONTRACTS_LENGTH_PARSING_ERROR") /\ UNCHANGED tx
       \/ /\ Readable("varint") /\ TooMany(Value)
          /\ TakeAndRefuse("SIGNER_ALLOWED_CONTRACTS_LENGTH_VALUE_ERROR") /\ UNCHANGED tx
       \/ /\ Readable("varint") /\ ~TooMany(Value)
          /\ tx' = [tx EXCEPT !.signers[i].allowed_contracts_size = Value]
          /\ IF Value = 0 THEN AfterContracts(tx.signers[i].scope) ELSE Goto("contract", i, 0)
          /\ off' = off + 1

ReadContract ==
    /\ Reading("contract")
    /\ tx' = [tx EXCEPT !.signers[i].allowed_contracts[j] =
                            IF Readable("hash") THEN Value ELSE Unset]
    /\ \/ ~Readable("hash") /\ Refuse("SIGNER_ALLOWED_CONTRACT_PARSING_ERROR")
       \/ /\ Readable("hash")
          /\ IF j + 1 < tx.signers[i].allowed_contracts_size THEN Goto("contract", i, j + 1)
             ELSE AfterContracts(tx.signers[i].scope)
          /\ off' = off + 1

ReadGroupCount ==
    /\ Reading("groups")
    /\ \/ /\ ~Readable("varint")
          /\ Refuse("SIGNER_ALLOWED_GROUPS_LENGTH_PARSING_ERROR") /\ UNCHANGED tx
       \/ /\ Readable("varint") /\ TooMany(Value)
          /\ TakeAndRefuse("SIGNER_ALLOWED_GROUPS_LENGTH_VALUE_ERROR") /\ UNCHANGED tx
       \/ /\ Readable("varint") /\ ~TooMany(Value)
          /\ tx' = [tx EXCEPT !.signers[i].allowed_groups_size = Value]
          /\ IF Value = 0 THEN AfterSigner ELSE Goto("group", i, 0)
          /\ off' = off + 1

\* A key cut short is answered with the code of a contract cut short.
ReadGroup ==
    /\ Reading("group")
    /\ tx' = [tx EXCEPT !.signers[i].allowed_groups[j] =
                            IF Readable("key") THEN Value ELSE Unset]
    /\ \/ ~Readable("key") /\ Refuse("SIGNER_ALLOWED_CONTRACT_PARSING_ERROR")
       \/ /\ Readable("key")
          /\ IF j + 1 < tx.signers[i].allowed_groups_size THEN Goto("group", i, j + 1)
             ELSE AfterSigner
          /\ off' = off + 1

ReadAttributeCount ==
    /\ Reading("attributes")
    /\ \/ ~Readable("varint") /\ Refuse("ATTRIBUTES_LENGTH_PARSING_ERROR") /\ UNCHANGED tx
       \/ /\ Readable("varint") /\ (Value > MAX_ATTRIBUTES \/ Value > 2)
          /\ TakeAndRefuse("ATTRIBUTES_LENGTH_VALUE_ERROR") /\ UNCHANGED tx
       \/ /\ Readable("varint") /\ Value <= MAX_ATTRIBUTES /\ Value <= 2
          /\ tx' = [tx EXCEPT !.attributes_size = Value]
          /\ TakeAndGoto(IF Value > 0 THEN "attribute" ELSE "script", 0, 0)

\* The comparison runs over all the slots there will be, with what is in them.
DuplicateAttribute(type) == \E k \in 0..(tx.attributes_size - 1) : tx.attributes[k] = type

ReadAttribute ==
    /\ Reading("attribute")
    /\ \/ ~Readable("attribute") /\ Refuse("ATTRIBUTES_UNSUPPORTED_TYPE") /\ UNCHANGED tx
       \/ /\ Readable("attribute") /\ Value # "HIGH_PRIORITY"
          /\ TakeAndRefuse("ATTRIBUTES_UNSUPPORTED_TYPE") /\ UNCHANGED tx
       \/ /\ Readable("attribute") /\ Value = "HIGH_PRIORITY" /\ DuplicateAttribute(Value)
          /\ TakeAndRefuse("ATTRIBUTES_DUPLICATE_TYPE") /\ UNCHANGED tx
       \/ /\ Readable("attribute") /\ Value = "HIGH_PRIORITY" /\ ~DuplicateAttribute(Value)
          /\ tx' = [tx EXCEPT !.attributes[i] = Value]
          /\ IF i + 1 < tx.attributes_size THEN TakeAndGoto("attribute", i + 1, 0)
             ELSE TakeAndGoto("script", 0, 0)

\* Mutant: bytes that follow the script are ignored.
AnyEnd(o) == o <= Len(raw)

AtEnd(o) == o = Len(raw)

\* The script behind the length at o, which may be the length of a part of it.  A length
\* counts instructions.
ScriptBehind(r, o) == SubSeq(r[o + 2].v, 1, r[o + 1].v)

\* The most that script_size holds.
LongestScript == 65535

\* There is a script, and enough of it for its length.
WholeScript ==
    /\ ReadableAt(off + 1, "script")
    /\ Value \in 1..LongestScript /\ Value <= Len(raw[off + 2].v)
WithScript == [tx EXCEPT !.script = ScriptBehind(raw, off)]

\* Nothing follows the script, not even the rest of it.
ScriptIsLast == AtEnd(off + 2) /\ Value = Len(raw[off + 2].v)

\* The length and the script, which is looked at before the end of the stream is.
ReadScript ==
    /\ Reading("script")
    /\ \/ ~Readable("varint") /\ Refuse("SCRIPT_LENGTH_PARSING_ERROR") /\ UNCHANGED tx
       \/ /\ Readable("varint") /\ ~WholeScript
          /\ tx' = [tx EXCEPT !.script = <<>>]
          /\ TakeAndRefuse("SCRIPT_LENGTH_VALUE_ERROR")
       \/ /\ Readable("varint") /\ WholeScript
          /\ tx' = try_parse_transfer_script(WithScript.script, WithScript)
          /\ off' = off + 2
          /\ Return(IF ScriptIsLast THEN "PARSING_OK" ELSE "INVALID_LENGTH_ERROR")

Parse ==
    \/ ReadHeader
    \/ ReadSignerCount \/ ReadAccount \/ ReadScope
    \/ ReadContractCount \/ ReadContract \/ ReadGroupCount \/ ReadGroup
    \/ ReadAttributeCount \/ ReadAttribute
    \/ ReadScript

Next ==
    \/ Parse
    \/ \E n \in 1..Len(stream) : MoreChunk(n) \/ LastChunk(n)
    \/ Restart

Spec == Init /\ [][Next]_vars

-----------------------------------------------------------------------------
(* Properties. *)

Signers ==
    [account : Hash160 \cup {Unset}, scope : SUBSET Scopes,
     allowed_contracts : [0..(MAX_SIGNER_SUB_ITEMS - 1) -> Hash160 \cup {Unset}],
     allowed_contracts_size : 0..MAX_SIGNER_SUB_ITEMS,
     allowed_groups : [0..(MAX_SIGNER_SUB_ITEMS - 1) -> Keys \cup {Unset}],
     allowed_groups_size : 0..MAX_SIGNER_SUB_ITEMS]

Transaction ==
    [version : Nat, nonce : Nat, system_fee : Int, network_fee : Int, valid_until_block : Nat,
     signers : [0..(MAX_TX_SIGNERS - 1) -> Signers], signers_size : 0..MAX_TX_SIGNERS,
     attributes : [0..(MAX_ATTRIBUTES - 1) -> {"NONE", "HIGH_PRIORITY"}],
     attributes_size : 0..MAX_ATTRIBUTES,
     script : Seq(Instructions),
     is_system_asset_transfer : BOOLEAN, is_neo : BOOLEAN,
     amount : Int, dst_address : Addresses \cup {Unset}]

Places ==
    {"idle", "header", "signers", "account", "scope", "contracts", "contract", "groups",
     "group", "attributes", "attribute", "script"}

\* Type invariant: no list outgrows its array and no loop counter the array it indexes,
\* however the counts in the bytes are chosen and however often they are parsed; the
\* offset stays within the bytes.
TypeOK ==
    /\ stream \in Seq(Items) /\ raw \in Seq(Items)
    /\ tx \in Transaction
    /\ at \in Places
    /\ off \in 0..Len(raw)
    /\ i \in Nat /\ j \in Nat
    /\ at = "header" => i + 1 \in 1..Len(Header)
    /\ at \in {"account", "scope", "contracts", "contract", "groups", "group"} =>
          i \in 0..(tx.signers_size - 1)
    /\ at = "contract" => j \in 0..(tx.signers[i].allowed_contracts_size - 1)
    /\ at = "group" => j \in 0..(tx.signers[i].allowed_groups_size - 1)
    /\ at = "attribute" => i \in 0..(tx.attributes_size - 1)

Accepted == status = "PARSING_OK"

\* What is accepted and goes to the review and to the signature: the fees are not
\* negative, no account signs twice, GLOBAL stands alone, no attribute is there twice and
\* nothing follows the script, whatever earlier attempts left in the structure.
AcceptedIsValid ==
    Accepted =>
        /\ off = Len(raw)
        /\ tx.version = 0 /\ tx.system_fee >= 0 /\ tx.network_fee >= 0
        /\ tx.signers_size \in MIN_TX_SIGNERS..MAX_TX_SIGNERS
        /\ \A s, t \in 0..(tx.signers_size - 1) :
              s # t => tx.signers[s].account # tx.signers[t].account
        /\ \A s \in 0..(tx.signers_size - 1) :
              "GLOBAL" \in tx.signers[s].scope => tx.signers[s].scope = {"GLOBAL"}
        /\ tx.attributes_size <= 1
        /\ tx.script = raw[Len(raw)].v

\* A review shows a transfer only if the script that is signed is one.
TransferIsScript ==
    Accepted =>
        /\ tx.is_system_asset_transfer <=> IsTransfer(tx.script)
        /\ tx.is_system_asset_transfer =>
              /\ tx.is_neo <=> tx.script[9].v = NEO
              /\ tx.amount = Amount(tx.script[2])
              /\ tx.dst_address = Address(tx.script[3].v)
=============================================================================
