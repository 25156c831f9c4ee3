--------------------------- MODULE TransferScript ---------------------------
(***************************************************************************)
(* transaction/tx_utils.c: which scripts are transfers of NEO or GAS, and  *)
(* what a review of them shows.  A script is the sequence of its VM        *)
(* instructions [op, v]; what is left of the last one when the script ends *)
(* inside it is an instruction of its own, with the opcode "OTHER".        *)
(***************************************************************************)
EXTENDS Integers, Sequences

CONSTANTS
    BYTE,       \* values of a byte: 256
    Hash160,    \* script hashes, UINT160_LEN bytes each
    NEO, GAS    \* script hashes of the two native contracts

ASSUME ByteAssumption == BYTE \in Nat /\ BYTE > 1
ASSUME ContractsAssumption == NEO \in Hash160 /\ GAS \in Hash160 /\ NEO # GAS

None == "none"   \* the operand of an instruction without one

Instruction(op, v) == [op |-> op, v |-> v]

\* The instructions a script may have, as far as the recogniser tells them apart.  The
\* operand of PUSHINT8 and so on is the number its bytes make, without a sign.
Instructions ==
    [op : {"PUSH"}, v : 0..16]
    \cup [op : {"PUSHINT8"}, v : 0..(BYTE - 1)]
    \cup [op : {"PUSHINT16"}, v : 0..(BYTE * BYTE - 1)]
    \cup [op : {"PUSHINT32"}, v : 0..(BYTE * BYTE * BYTE * BYTE - 1)]
    \cup [op : {"PUSHINT64"}, v : Nat]
    \cup [op : {"PUSHDATA1"}, v : Hash160 \cup {"transfer", "other"}]
    \cup [op : {"SYSCALL"}, v : {"System.Contract.Call", "other"}]
    \cup [op : {"PUSHNULL", "PACK", "OTHER"}, v : {None}]

\* A signed number of the width whose unsigned numbers end before `values`.
Signed(v, values) == IF 2 * v < values THEN v ELSE v - values

Word16 == BYTE * BYTE
Word32 == Word16 * Word16
Word64 == Word32 * Word32

AmountOps == {"PUSH", "PUSHINT8", "PUSHINT16", "PUSHINT32", "PUSHINT64"}

\* What is stored for the amount: PUSHINT8 is read into the union as a signed byte and
\* taken from it as an unsigned one.
Amount(i) ==
    CASE i.op \in {"PUSH", "PUSHINT8"} -> i.v
      [] i.op = "PUSHINT16" -> Signed(i.v, Word16)
      [] i.op = "PUSHINT32" -> Signed(i.v, Word32)
      [] OTHER -> Signed(i.v, Word64)

IsHash(i) == i.op = "PUSHDATA1" /\ i.v \in Hash160

\* script_hash_to_address: the Base58 text of the version, the hash and its checksum,
\* one for each hash.
Address(h) == [version |-> 53, script_hash |-> h]
Addresses == {Address(h) : h \in Hash160}

\* The fixed bytes between the arguments and the contract: four of them are packed.
IsCallSequence(s) ==
    /\ s[5].op = "PUSH" /\ s[5].v = 4
    /\ s[6].op = "PACK"
    /\ s[7].op = "PUSH" /\ s[7].v = 15
    /\ s[8].op = "PUSHDATA1" /\ s[8].v = "transfer"

\* How far try_parse_transfer_script gets before it returns.
HasAmount(s) == Len(s) >= 2 /\ s[1].op = "PUSHNULL" /\ s[2].op \in AmountOps
HasDestination(s) == HasAmount(s) /\ Len(s) >= 3 /\ IsHash(s[3])
HasContract(s) ==
    /\ HasDestination(s)
    /\ Len(s) >= 9 /\ IsHash(s[4]) /\ IsCallSequence(s) /\ IsHash(s[9])

\* Mutant: code after the system call is not noticed.
IsTransferWithMore(s) ==
    /\ HasContract(s)
    /\ s[9].v \in {NEO, GAS}
    /\ Len(s) >= 10 /\ s[10].op = "SYSCALL" /\ s[10].v = "System.Contract.Call"

IsTransfer(s) ==
    /\ HasContract(s)
    /\ s[9].v \in {NEO, GAS}
    /\ Len(s) = 10 /\ s[10].op = "SYSCALL" /\ s[10].v = "System.Contract.Call"

\* Mutant: the flag is set before the system call is checked.
FlagBeforeEnd(s, tx) ==
    [tx EXCEPT
        !.amount = IF HasAmount(s) THEN Amount(s[2]) ELSE @,
        !.dst_address = IF HasDestination(s) THEN Address(s[3].v) ELSE @,
        !.is_neo = @ \/ (HasContract(s) /\ s[9].v = NEO),
        !.is_system_asset_transfer = @ \/ (HasContract(s) /\ s[9].v \in {NEO, GAS})]

\* The fields are stored one by one, each as soon as it was read; what is not reached
\* keeps its value.
try_parse_transfer_script(s, tx) ==
    [tx EXCEPT
        !.amount = IF HasAmount(s) THEN Amount(s[2]) ELSE @,
        !.dst_address = IF HasDestination(s) THEN Address(s[3].v) ELSE @,
        !.is_neo = @ \/ (HasContract(s) /\ s[9].v = NEO),
        !.is_system_asset_transfer = @ \/ IsTransfer(s)]
=============================================================================
