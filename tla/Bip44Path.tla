------------------------------ MODULE Bip44Path ------------------------------
(***************************************************************************)
(* common/bip44.c: the path of the key, read from the start of a command   *)
(* and checked level by level.                                             *)
(***************************************************************************)
EXTENDS Buffers

CONSTANTS
    BIP44_PURPOSE, BIP44_COIN_TYPE_NEO,    \* 44' and 888'
    MAX_ACCOUNT,                           \* 16, the account of 0x80000010
    ADDRESSES,                             \* 5000, the first address that is refused
    DOCUMENTED_ACCOUNT,                    \* 10: "account value > 10" is refused
    DOCUMENTED_ADDRESS                     \* 5000: "address > 5000" is refused

ASSUME PathAssumption ==
    /\ MAX_ACCOUNT \in 0..(Word32 \div 2 - 1)
    /\ ADDRESSES \in 2..(Word32 \div 2)
    /\ BIP44_PURPOSE \in Nat /\ BIP44_COIN_TYPE_NEO \in Nat

\* How the limits of the code lie to those of sw.h and COMMANDS.md.
ASSUME DocumentsAssumption ==
    /\ DOCUMENTED_ACCOUNT \in 0..MAX_ACCOUNT
    /\ DOCUMENTED_ADDRESS = ADDRESSES

BIP44_PATH_LEN == 5
BIP44_BYTE_LENGTH == 20

\* 0x80000000
HARDENED == Word32 \div 2

VARIABLES
    bip44_path,   \* of G_context, which the handlers clear before
    status        \* status_out, SW_OK if it was not set

pathVars == <<ptr, offset, call, bip44_path, status>>

ZeroPath == [k \in 1..BIP44_PATH_LEN |-> 0]

PathInit == Init /\ bip44_path = ZeroPath /\ status = "none"

\* A level; one that is not there would be read as 0.
Level(k) ==
    LET o == offset + 4 * (k - 1)
    IN  IF o <= size /\ buffer_can_read(o, 4) THEN read_u32_be(ptr, o) ELSE 0

\* Mutant: an account is not compared with the first hardened one.
AnyAccount(k, v) ==
    CASE k = 1 /\ v # BIP44_PURPOSE -> "SW_BIP44_BAD_PURPOSE"
      [] k = 2 /\ v # BIP44_COIN_TYPE_NEO -> "SW_BIP44_BAD_COIN_TYPE"
      [] k = 3 /\ v > HARDENED + MAX_ACCOUNT -> "SW_BIP44_BAD_ACCOUNT"
      [] k = 4 /\ v \notin {0, 1} -> "SW_BIP44_BAD_CHANGE"
      [] k = 5 /\ v >= ADDRESSES -> "SW_BIP44_BAD_ADDRESS"
      [] OTHER -> "SW_OK"

LevelStatus(k, v) ==
    CASE k = 1 /\ v # BIP44_PURPOSE -> "SW_BIP44_BAD_PURPOSE"
      [] k = 2 /\ v # BIP44_COIN_TYPE_NEO -> "SW_BIP44_BAD_COIN_TYPE"
      [] k = 3 /\ v < HARDENED -> "SW_BIP44_ACCOUNT_NOT_HARDENED"
      [] k = 3 /\ v > HARDENED + MAX_ACCOUNT -> "SW_BIP44_BAD_ACCOUNT"
      [] k = 4 /\ v \notin {0, 1} -> "SW_BIP44_BAD_CHANGE"
      [] k = 5 /\ v >= ADDRESSES -> "SW_BIP44_BAD_ADDRESS"
      [] OTHER -> "SW_OK"

Passes(k) == LevelStatus(k, Level(k)) = "SW_OK"

\* Mutant: a level is stored before it is checked.
StoredUnchecked(k) == \A m \in 1..(k - 1) : Passes(m)

Stored(k) == \A m \in 1..k : Passes(m)

PathTooShort ==
    /\ size < BIP44_BYTE_LENGTH
    /\ bip44_path' = ZeroPath /\ status' = "SW_WRONG_DATA_LENGTH"
    /\ call' = Called("path", 0, FALSE)
    /\ UNCHANGED <<ptr, offset>>

\* Levels are stored up to the first one that is refused, which is read but not stored.
PathRefused ==
    /\ size >= BIP44_BYTE_LENGTH
    /\ \E k \in 1..BIP44_PATH_LEN :
          /\ ~Passes(k) /\ \A m \in 1..(k - 1) : Passes(m)
          /\ status' = LevelStatus(k, Level(k))
          /\ offset' = offset + 4 * k
    /\ bip44_path' = [k \in 1..BIP44_PATH_LEN |-> IF Stored(k) THEN Level(k) ELSE 0]
    /\ call' = Called("path", 0, FALSE)
    /\ UNCHANGED ptr

PathAccepted ==
    /\ size >= BIP44_BYTE_LENGTH
    /\ Stored(BIP44_PATH_LEN)
    /\ bip44_path' = [k \in 1..BIP44_PATH_LEN |-> Level(k)]
    /\ status' = "SW_OK"
    /\ offset' = offset + BIP44_BYTE_LENGTH
    /\ call' = Called("path", 0, TRUE)
    /\ UNCHANGED ptr

\* A path is the first and the last that a handler reads of a command.
buffer_read_and_validate_bip44 ==
    call = NoCall /\ (PathTooShort \/ PathRefused \/ PathAccepted)

\* The buffer of the next command.
NextCommand ==
    /\ status # "none"
    /\ ptr' \in Contents /\ offset' = 0 /\ call' = NoCall
    /\ bip44_path' = ZeroPath /\ status' = "none"

PathNext ==
    \/ status = "none" /\ Next /\ UNCHANGED <<bip44_path, status>>
    \/ buffer_read_and_validate_bip44
    \/ NextCommand

PathSpec == PathInit /\ [][PathNext]_pathVars

-----------------------------------------------------------------------------
(* Properties. *)

\* A level in the notation of wallets.
Hardened(v) == v >= HARDENED
IndexOf(v) == IF Hardened(v) THEN v - HARDENED ELSE v

\* m/44'/888'/account'/change/index.
IsWalletPath(p, accounts, indices) ==
    /\ p[1] = BIP44_PURPOSE /\ p[2] = BIP44_COIN_TYPE_NEO
    /\ Hardened(p[3]) /\ IndexOf(p[3]) \in accounts
    /\ ~Hardened(p[4]) /\ IndexOf(p[4]) \in {0, 1}
    /\ ~Hardened(p[5]) /\ IndexOf(p[5]) \in indices

DocumentedAccounts == 0..DOCUMENTED_ACCOUNT
DocumentedIndices == 0..DOCUMENTED_ADDRESS

\* A path that sw.h:52-72 and doc/COMMANDS.md:89-94 name no reason to refuse.
IsDocumentedPath(p) == IsWalletPath(p, DocumentedAccounts, DocumentedIndices)

\* Where the code departs from them: it takes the accounts 11 to 16 as well, and
\* refuses the last index.
ExcessAccounts == (DOCUMENTED_ACCOUNT + 1)..MAX_ACCOUNT
RefusedIndices == {DOCUMENTED_ADDRESS}

Text(p) == write_be(p[1], 4) \o write_be(p[2], 4) \o write_be(p[3], 4)
           \o write_be(p[4], 4) \o write_be(p[5], 4)

\* The path whose key is derived is one the documents let pass, but for the accounts in
\* excess and without the last index; it is the one the command holds, whole, and what
\* follows it is not read.
AcceptedPathIsRead ==
    status = "SW_OK" =>
        /\ IsWalletPath(bip44_path, DocumentedAccounts \cup ExcessAccounts,
                        DocumentedIndices \ RefusedIndices)
        /\ offset = BIP44_BYTE_LENGTH
        /\ SubSeq(ptr, 1, offset) = Text(bip44_path)

\* A path the documents let pass is refused for its last index only.  A refusal leaves in
\* the context the levels before the one it is for, and nothing of what follows.
RefusedPathIsCut ==
    status \notin {"none", "SW_OK"} =>
        IF size < BIP44_BYTE_LENGTH THEN bip44_path = ZeroPath
        ELSE LET stored == offset - 4
                 path == [k \in 1..BIP44_PATH_LEN |-> read_u32_be(ptr, 4 * (k - 1))]
             IN  /\ IsDocumentedPath(path) => path[5] \in RefusedIndices
                 /\ SubSeq(Text(bip44_path), 1, stored) = SubSeq(ptr, 1, stored)
                 /\ \A k \in 1..BIP44_PATH_LEN : 4 * k > stored => bip44_path[k] = 0
=============================================================================
