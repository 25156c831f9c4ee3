----------------------------- MODULE MCNeoApp -----------------------------
(* Small instances of NeoApp for TLC. *)
EXTENDS NeoAppService, TLC

CONSTANTS d1, d2, d3    \* payloads
CONSTANTS noData
CONSTANTS zeroP, goodP, partP    \* paths: zeroed, accepted, read in part
CONSTANTS zeroM, mainM           \* magics

MCPayload == {d1, d2, d3}
MCPaths == {zeroP, goodP, partP}
MCMagics == {zeroM, mainM}

\* d1 is an accepted path and a magic, d2 a path refused half-way and a magic too
\* short to read, d3 neither.
MCPathReading ==
    d1 :> [status |-> "SW_OK", path |-> goodP]
    @@ d2 :> [status |-> "SW_BIP44_BAD_ACCOUNT", path |-> partP]
    @@ d3 :> [status |-> "SW_WRONG_DATA_LENGTH", path |-> zeroP]
MCMagicReading ==
    d1 :> [ok |-> TRUE, magic |-> mainM]
    @@ d2 :> [ok |-> FALSE, magic |-> zeroM]
    @@ d3 :> [ok |-> TRUE, magic |-> zeroM]
MCSize == d1 :> 1 @@ d2 :> 1 @@ d3 :> 2

Apdu(ins, p1, p2, d) ==
    [wellformed |-> TRUE, cla |-> "CLA", ins |-> ins, p1 |-> p1, p2 |-> p2, data |-> d]

Malformed == [Apdu("GET_VERSION", 0, 0, noData) EXCEPT !.wellformed = FALSE]
WrongClass == [Apdu("GET_VERSION", 0, 0, noData) EXCEPT !.cla = "OTHER"]

SigningCommands ==
    {Apdu("SIGN_TX", 0, 128, d) : d \in {d1, d2}}
    \cup {Apdu("SIGN_TX", 1, 128, d) : d \in {d1, d2}}
    \cup {Apdu("SIGN_TX", 2, 0, d) : d \in {d1, d3}}
    \cup {Apdu("SIGN_TX", 2, 128, d1)}

\* Every branch of the dispatcher and of the handlers is reached by one of these.
MCCommands ==
    {Malformed, WrongClass,
     Apdu("GET_VERSION", 0, 0, noData), Apdu("GET_VERSION", 1, 0, noData),
     Apdu("GET_APP_NAME", 0, 0, noData),
     Apdu("GET_PUBLIC_KEY", 0, 1, noData), Apdu("SIGN_TX", 0, 0, d1)}
    \cup {Apdu("GET_PUBLIC_KEY", 0, p2, d) : p2 \in {0, 1}, d \in {d1, d2}}
    \cup SigningCommands

\* Signing and the two commands that disturb it: one that clears the context and
\* one that leaves it alone.
MCFewCommands ==
    {Apdu("GET_VERSION", 0, 0, noData), Apdu("GET_PUBLIC_KEY", 0, 1, d1)}
    \cup SigningCommands
=============================================================================
