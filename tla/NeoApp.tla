------------------------------- MODULE NeoApp -------------------------------
(***************************************************************************)
(* The request loop of the NEO3 Ledger application: io.c, main.c, the APDU *)
(* dispatcher, the four handlers, the approval callbacks and the screens   *)
(* they are reached from.                                                  *)
(*                                                                         *)
(* The program is one thread.  It runs until it blocks in io_exchange,     *)
(* where it waits for the host's next command; button presses, ticks and   *)
(* status events are handled by io_event while it is blocked there, so a   *)
(* handler is atomic and a button callback interleaves only with waiting.  *)
(* The host, the user and the secure element's crypto are the environment. *)
(***************************************************************************)
EXTENDS Naturals, Sequences

CONSTANTS
    Payload,              \* data fields of commands
    NoData,               \* the data field of a command with Lc = 0
    Paths,                \* contents of bip44_path
    ZeroPath,             \* bip44_path after explicit_bzero
    PathReading,          \* what buffer_read_and_validate_bip44 makes of a payload
    Magics,               \* contents of network_magic
    ZeroMagic,            \* network_magic after explicit_bzero
    MagicReading,         \* what buffer_read_u32 makes of a payload
    Size,                 \* length in bytes of a payload
    MAX_TRANSACTION_LEN,  \* bytes of raw_tx
    Commands,             \* the commands the host may send
    MaxPending,           \* commands the host may have in flight; 1: it awaits each answer
    CryptoOutcomes,       \* what the crypto library may do: "ok", "error", "throws"
    FormatOutcomes        \* status words of formatting the review's amounts; "SW_OK": it fits

\* A command as apdu_parser sees it; the classes and instructions the dispatcher
\* does not know are "OTHER".
CommandShape ==
    [wellformed : BOOLEAN, cla : {"CLA", "OTHER"},
     ins : {"GET_APP_NAME", "GET_VERSION", "SIGN_TX", "GET_PUBLIC_KEY", "OTHER"},
     p1 : 0..255, p2 : 0..255, data : Payload \cup {NoData}]

\* sw.h: the status words of the BIP44 reader, of formatting the review, and the
\* others; "exception" is the code of an exception of the SDK.
Bip44Status ==
    {"SW_OK", "SW_WRONG_DATA_LENGTH", "SW_BIP44_BAD_PURPOSE", "SW_BIP44_BAD_COIN_TYPE",
     "SW_BIP44_ACCOUNT_NOT_HARDENED", "SW_BIP44_BAD_ACCOUNT", "SW_BIP44_BAD_CHANGE",
     "SW_BIP44_BAD_ADDRESS"}
FormatStatus ==
    {"SW_OK", "SW_DISPLAY_TOKEN_TRANSFER_AMOUNT_FAIL", "SW_DISPLAY_SYSTEM_FEE_FAIL",
     "SW_DISPLAY_NETWORK_FEE_FAIL", "SW_DISPLAY_TOTAL_FEE_FAIL"}
StatusWords ==
    Bip44Status \cup FormatStatus \cup
    {"SW_DENY", "SW_WRONG_P1P2", "SW_INS_NOT_SUPPORTED", "SW_CLA_NOT_SUPPORTED",
     "SW_WRONG_TX_LENGTH", "SW_TX_PARSING_FAIL", "SW_BAD_STATE", "SW_SIGN_FAIL",
     "SW_MAGIC_PARSING_FAIL", "exception"}

ASSUME PayloadAssumption == NoData \notin Payload
ASSUME PathAssumption ==
    /\ ZeroPath \in Paths
    /\ PathReading \in [Payload -> [status : Bip44Status, path : Paths]]
ASSUME MagicAssumption ==
    /\ ZeroMagic \in Magics
    /\ MagicReading \in [Payload -> [ok : BOOLEAN, magic : Magics]]
ASSUME SizeAssumption ==
    /\ Size \in [Payload -> Nat]
    /\ MAX_TRANSACTION_LEN \in Nat
ASSUME CommandsAssumption == Commands \subseteq CommandShape
ASSUME PendingAssumption == MaxPending \in Nat \ {0}
ASSUME CryptoAssumption == CryptoOutcomes \subseteq {"ok", "error", "throws"}
ASSUME FormatAssumption == FormatOutcomes \subseteq FormatStatus

VARIABLES
    pc,                   \* where the thread is
    G_io_state,           \* READY, RECEIVED or WAITING
    G_output_len,         \* bytes of the response held in G_io_apdu_buffer
    G_io_apdu_buffer,     \* the command received or the response built last
    G_context,            \* the signing context
    flow,                 \* the UX flow on the screen
    g_validate_callback,  \* what the approve and reject buttons call
    shown,                \* what the texts of the flow were made from
    consent,              \* what the user approved since the last command
    pending,              \* commands delivered and not yet answered, oldest first
    wire                  \* the last transmission since the host sent a command

ctlVars == <<pc, G_io_state, G_output_len, G_io_apdu_buffer>>
uiVars == <<flow, g_validate_callback, shown, consent>>
hostVars == <<pending, wire>>
vars == <<ctlVars, G_context, uiVars, hostVars>>

-----------------------------------------------------------------------------
(* Frames: what G_io_apdu_buffer holds and what the transport carries. *)

NoBody == [is |-> "none"]
StatusBody == [is |-> "status"]
VersionBody == [is |-> "version"]
NameBody == [is |-> "name"]
PubkeyBody(key) == [is |-> "pubkey", key |-> key]
SignatureBody(p, m, h) == [is |-> "signature", path |-> p, magic |-> m, hash |-> h]

Response(body, sw) == [kind |-> "response", body |-> body, sw |-> sw]
CommandFrame(c) == [kind |-> "command", cmd |-> c]
NoFrame == [kind |-> "nothing"]

\* Data bytes of a response: none, the parser status, MAJOR.MINOR.PATCH, "NEO3",
\* an uncompressed point, a DER signature.
DataLen(body) ==
    CASE body.is = "none" -> 0
      [] body.is = "status" -> 1
      [] body.is = "version" -> 3
      [] body.is = "name" -> 4
      [] body.is = "pubkey" -> 65
      [] OTHER -> 72

Nothing == [kind |-> "none"]
AddressShown(key) == [kind |-> "address", key |-> key]
TransferShown(p, m, tx) == [kind |-> "transfer", path |-> p, magic |-> m, tx |-> tx]
UnsupportedShown == [kind |-> "unsupported"]

\* G_context after explicit_bzero; CONFIRM_ADDRESS and STATE_NONE are 0.
ZeroContext ==
    [state |-> "STATE_NONE", req_type |-> "CONFIRM_ADDRESS",
     bip44_path |-> ZeroPath, network_magic |-> ZeroMagic,
     raw_tx |-> <<>>, raw_tx_len |-> 0, is_transfer |-> FALSE,
     hash |-> <<>>, raw_public_key |-> "zero"]

-----------------------------------------------------------------------------
(* io.c *)

\* io_exchange puts a frame on the transport: the answer to the newest
\* unanswered command, if there is one.
Transmit(f) ==
    /\ wire' = [frame |-> f, asked |-> pending]
    /\ pending' = IF pending = <<>> THEN <<>> ELSE SubSeq(pending, 1, Len(pending) - 1)

\* io_send_response: the frame is built in G_io_apdu_buffer, which is long enough for
\* every body.  When a command is answered synchronously (RECEIVED) it leaves with
\* the next io_recv_command, when from a button callback (WAITING) it leaves now.
io_send_response(body, sw) ==
    /\ G_io_apdu_buffer' = Response(body, sw)
    /\ G_io_state' = "READY"
    /\ IF G_io_state = "WAITING"
       THEN Transmit(Response(body, sw)) /\ G_output_len' = 0
       ELSE G_output_len' = DataLen(body) + 2 /\ UNCHANGED hostVars

io_send_sw(sw) == io_send_response(NoBody, sw)

\* io_recv_command up to the point where io_exchange blocks.
io_recv_command ==
    /\ pc = "recv"
    /\ CASE G_io_state = "READY" ->
              /\ G_io_state' = "RECEIVED"
              /\ pc' = "sync"
              /\ IF G_output_len > 0 THEN Transmit(G_io_apdu_buffer) ELSE UNCHANGED hostVars
         [] G_io_state = "RECEIVED" ->
              /\ G_io_state' = "WAITING"
              /\ pc' = "async"
              /\ UNCHANGED hostVars
         [] OTHER ->
              /\ G_io_state' = "READY"
              /\ pc' = "boot"
              /\ UNCHANGED hostVars
    /\ UNCHANGED <<G_output_len, G_io_apdu_buffer, G_context, uiVars>>

Blocked == pc \in {"sync", "async"}

\* Mutant: the asynchronous path forgets its G_io_state = RECEIVED.
StateKept == G_io_state

\* Only the asynchronous call of io_exchange is followed by an assignment.
StateOnReturn == IF pc = "async" THEN "RECEIVED" ELSE G_io_state

\* io_exchange returns with a command.
Deliver(c) ==
    /\ Blocked
    /\ Len(pending) < MaxPending
    /\ G_io_apdu_buffer' = CommandFrame(c)
    /\ G_io_state' = StateOnReturn
    /\ pc' = "dispatch"
    /\ pending' = Append(pending, c)
    /\ wire' = [frame |-> NoFrame, asked |-> <<>>]
    /\ consent' = Nothing
    /\ UNCHANGED <<G_output_len, G_context, flow, g_validate_callback, shown>>

\* io_event: EXCEPTION_IO_RESET when USB power is lost; main starts over.
UsbReset ==
    /\ Blocked
    /\ pc' = "boot"
    /\ UNCHANGED <<G_io_state, G_output_len, G_io_apdu_buffer, G_context, uiVars, hostVars>>

-----------------------------------------------------------------------------
(* main.c and ui/menu.c *)

\* Memory at launch.
Init ==
    /\ pc = "boot"
    /\ G_io_state = "READY"
    /\ G_output_len = 0
    /\ G_io_apdu_buffer = NoFrame
    /\ G_context = ZeroContext
    /\ flow = "none"
    /\ g_validate_callback = "none"
    /\ shown = Nothing
    /\ consent = Nothing
    /\ pending = <<>>
    /\ wire = [frame |-> NoFrame, asked |-> <<>>]

\* Mutant: the menu is not shown, so the question that was answered stays up.
MenuNotShown == UNCHANGED <<flow, shown>>

ui_menu_main == flow' = "menu" /\ shown' = Nothing

\* Mutant: app_main does not reset G_output_len.
LengthNotCleared ==
    /\ UNCHANGED G_output_len
    /\ G_io_state' = "READY"
    /\ G_context' = ZeroContext

\* The globals app_main resets when it starts.
ClearState ==
    /\ G_output_len' = 0
    /\ G_io_state' = "READY"
    /\ G_context' = ZeroContext

\* One turn of main's loop: the USB link is cycled, which ends the host's
\* requests, the menu comes up and app_main clears its state.  The callback
\* pointer and the APDU buffer are not touched.
Boot ==
    /\ pc = "boot"
    /\ ui_menu_main
    /\ ClearState
    /\ pc' = "recv"
    /\ consent' = Nothing
    /\ pending' = <<>>
    /\ wire' = [frame |-> NoFrame, asked |-> <<>>]
    /\ UNCHANGED <<G_io_apdu_buffer, g_validate_callback>>

\* os_sched_exit: the application's memory is gone.
app_exit ==
    /\ pc' = "exited"
    /\ ClearState
    /\ G_io_apdu_buffer' = NoFrame
    /\ flow' = "none"
    /\ g_validate_callback' = "none"
    /\ shown' = Nothing
    /\ consent' = Nothing
    /\ pending' = <<>>
    /\ wire' = [frame |-> NoFrame, asked |-> <<>>]

\* CATCH_ALL in main: an exception of the start-up calls ends the program.
BootFails == pc = "boot" /\ app_exit

Launch == pc = "exited" /\ pc' = "boot" /\ UNCHANGED <<G_io_state, G_output_len,
    G_io_apdu_buffer, G_context, uiVars, hostVars>>

Quit == Blocked /\ flow = "menu" /\ app_exit

\* "About" in the main menu and "Back" in the about menu.
ui_menu_about ==
    /\ Blocked
    /\ flow = "menu"
    /\ flow' = "about"
    /\ UNCHANGED <<ctlVars, G_context, g_validate_callback, shown, consent, hostVars>>

MenuBack ==
    /\ Blocked
    /\ flow = "about"
    /\ ui_menu_main
    /\ UNCHANGED <<ctlVars, G_context, g_validate_callback, consent, hostVars>>

-----------------------------------------------------------------------------
(* apdu/parser.c and apdu/dispatcher.c *)

P1_MAX == 6
P2_LAST == 0
P2_MORE == 128

command == G_io_apdu_buffer.cmd

\* The status word the dispatcher itself answers with, "" when it calls a handler.
Refusal(c) ==
    CASE c.cla # "CLA" -> "SW_CLA_NOT_SUPPORTED"
      [] c.cla = "CLA" /\ c.ins \in {"GET_VERSION", "GET_APP_NAME"} ->
            IF c.p1 # 0 \/ c.p2 # 0 THEN "SW_WRONG_P1P2" ELSE ""
      [] c.cla = "CLA" /\ c.ins = "GET_PUBLIC_KEY" ->
            IF c.p1 > 0 \/ c.p2 > 1 THEN "SW_WRONG_P1P2"
            ELSE IF c.data = NoData THEN "SW_WRONG_DATA_LENGTH" ELSE ""
      [] c.cla = "CLA" /\ c.ins = "SIGN_TX" ->
            IF (c.p1 = 0 /\ c.p2 # P2_MORE) \/ c.p1 > P1_MAX \/ c.p2 \notin {P2_LAST, P2_MORE}
            THEN "SW_WRONG_P1P2"
            ELSE IF c.data = NoData THEN "SW_WRONG_DATA_LENGTH" ELSE ""
      [] OTHER -> "SW_INS_NOT_SUPPORTED"

\* A negative result of the dispatcher makes app_main return to main; any other
\* takes it to the next io_recv_command.
Answer(body, sw) ==
    /\ io_send_response(body, sw)
    /\ pc' = IF G_io_state = "READY" THEN "boot" ELSE "recv"

\* apdu_parser fails: app_main answers itself and ignores the result.
ParserRefuses ==
    /\ pc = "dispatch"
    /\ ~command.wellformed
    /\ io_send_sw("SW_WRONG_DATA_LENGTH")
    /\ pc' = "recv"
    /\ UNCHANGED <<G_context, uiVars>>

DispatcherRefuses ==
    /\ pc = "dispatch"
    /\ command.wellformed
    /\ Refusal(command) # ""
    /\ Answer(NoBody, Refusal(command))
    /\ UNCHANGED <<G_context, uiVars>>

Handling(ins) ==
    /\ pc = "dispatch"
    /\ command.wellformed
    /\ Refusal(command) = ""
    /\ command.ins = ins

handler_get_version ==
    /\ Handling("GET_VERSION")
    /\ Answer(VersionBody, "SW_OK")
    /\ UNCHANGED <<G_context, uiVars>>

\* Mutant: the handler returns without an answer.
NameNotSent ==
    /\ Handling("GET_APP_NAME")
    /\ pc' = "recv"
    /\ UNCHANGED <<G_io_state, G_output_len, G_io_apdu_buffer, G_context, uiVars, hostVars>>

handler_get_app_name ==
    /\ Handling("GET_APP_NAME")
    /\ Answer(NameBody, "SW_OK")
    /\ UNCHANGED <<G_context, uiVars>>

-----------------------------------------------------------------------------
(* CATCH_OTHER in app_main: an exception of the crypto library ends whatever *)
(* was running and is answered as a status word; the result is ignored.      *)

\* Mutant: the exception is swallowed.
CatchNothing == pc' = "recv" /\ UNCHANGED <<G_io_state, G_output_len, G_io_apdu_buffer, hostVars>>

CatchOther ==
    /\ io_send_sw("exception")
    /\ pc' = "recv"

(* handler/get_public_key.c *)

\* The context the handler leaves: zeroed, with as much of the path as was read.
KeyContext(d) == [ZeroContext EXCEPT !.bip44_path = PathReading[d].path]

PathRefused ==
    /\ Handling("GET_PUBLIC_KEY")
    /\ PathReading[command.data].status # "SW_OK"
    /\ Answer(NoBody, PathReading[command.data].status)
    /\ G_context' = KeyContext(command.data)
    /\ UNCHANGED uiVars

KeyHandled ==
    Handling("GET_PUBLIC_KEY") /\ PathReading[command.data].status = "SW_OK"

DeriveThrows ==
    /\ KeyHandled
    /\ "throws" \in CryptoOutcomes
    /\ CatchOther
    /\ G_context' = KeyContext(command.data)
    /\ UNCHANGED uiVars

\* The key is a function of the path, so it is represented by its path.
DerivedContext(d) == [KeyContext(d) EXCEPT !.raw_public_key = PathReading[d].path]

\* Mutant: only values above 1 count as "display".
ShowNever(c) == c.p2 > 1

\* P2 of GET_PUBLIC_KEY: "display" when it is not zero.
ShowOnScreen(c) == c.p2 # 0

helper_send_response_pubkey(key) == io_send_response(PubkeyBody(key), "SW_OK")

KeyReturned ==
    /\ KeyHandled
    /\ ~ShowOnScreen(command)
    /\ Answer(PubkeyBody(PathReading[command.data].path), "SW_OK")
    /\ G_context' = DerivedContext(command.data)
    /\ UNCHANGED uiVars

\* Mutant: the approve and reject steps keep the callback of the flow before.
ShowAddressOnly(key) ==
    /\ shown' = AddressShown(key)
    /\ flow' = "pubkey"
    /\ UNCHANGED g_validate_callback

\* The address flow and its callback.  address_from_pubkey never fails: its buffers
\* have room for the 34 characters of an address.
ShowAddress(key) ==
    /\ shown' = AddressShown(key)
    /\ g_validate_callback' = "pubkey"
    /\ flow' = "pubkey"

\* ui/display.c, ui_display_address; the guard is the code's, on the context the
\* handler has just built.
ui_display_address(ctx) ==
    IF ctx.req_type # "CONFIRM_ADDRESS" \/ ctx.state # "STATE_NONE"
    THEN /\ G_context' = [ctx EXCEPT !.state = "STATE_NONE"]
         /\ Answer(NoBody, "SW_BAD_STATE")
         /\ UNCHANGED uiVars
    ELSE /\ G_context' = ctx
         /\ ShowAddress(ctx.raw_public_key)
         /\ pc' = "recv"
         /\ UNCHANGED <<G_io_state, G_output_len, G_io_apdu_buffer, consent, hostVars>>

KeyDisplayed ==
    /\ KeyHandled
    /\ ShowOnScreen(command)
    /\ ui_display_address(DerivedContext(command.data))

handler_get_public_key == PathRefused \/ DeriveThrows \/ KeyReturned \/ KeyDisplayed

-----------------------------------------------------------------------------
(* handler/sign_tx.c *)

\* Chunk 0 starts over with the path.
SignPath ==
    /\ Handling("SIGN_TX")
    /\ command.p1 = 0
    /\ LET r == PathReading[command.data] IN
         /\ G_context' = [ZeroContext EXCEPT
                !.req_type = "CONFIRM_TRANSACTION",
                !.bip44_path = r.path,
                !.state = IF r.status = "SW_OK" THEN "STATE_BIP44_OK" ELSE "STATE_NONE"]
         /\ Answer(NoBody, r.status)
    /\ UNCHANGED uiVars

\* The order checks as the code writes them, with "and".
MagicOutOfOrder(ctx) ==
    ctx.req_type # "CONFIRM_TRANSACTION" /\ ctx.state # "STATE_BIP44_OK"
DataOutOfOrder(ctx) ==
    ctx.req_type # "CONFIRM_TRANSACTION" /\ ctx.state # "STATE_MAGIC_OK"

\* Chunk 1, the network magic; buffer_read_u32 stores 0 when it fails.
MagicRefused ==
    /\ Handling("SIGN_TX")
    /\ command.p1 = 1
    /\ MagicOutOfOrder(G_context)
    /\ Answer(NoBody, "SW_BAD_STATE")
    /\ UNCHANGED <<G_context, uiVars>>

ReadMagic(ctx, r) ==
    [ctx EXCEPT !.network_magic = IF r.ok THEN r.magic ELSE ZeroMagic,
                !.state = IF r.ok THEN "STATE_MAGIC_OK" ELSE ctx.state]

SignMagic ==
    /\ Handling("SIGN_TX")
    /\ command.p1 = 1
    /\ ~MagicOutOfOrder(G_context)
    /\ LET r == MagicReading[command.data] IN
         /\ G_context' = ReadMagic(G_context, r)
         /\ Answer(NoBody, IF r.ok THEN "SW_OK" ELSE "SW_MAGIC_PARSING_FAIL")
    /\ UNCHANGED uiVars

\* Chunks 2 to 6, the transaction.
SigningData == Handling("SIGN_TX") /\ command.p1 > 1

\* Mutant: one byte too many is let in.
TooLongByTwo(ctx, d) == ctx.raw_tx_len + Size[d] > MAX_TRANSACTION_LEN + 1

TooLong(ctx, d) == ctx.raw_tx_len + Size[d] > MAX_TRANSACTION_LEN

DataRefused ==
    /\ SigningData
    /\ DataOutOfOrder(G_context) \/ TooLong(G_context, command.data)
    /\ Answer(NoBody, IF DataOutOfOrder(G_context) THEN "SW_BAD_STATE" ELSE "SW_WRONG_TX_LENGTH")
    /\ UNCHANGED <<G_context, uiVars>>

DataAccepted ==
    SigningData /\ ~DataOutOfOrder(G_context) /\ ~TooLong(G_context, command.data)

\* raw_tx shares its memory with raw_public_key.
AppendRaw(ctx, d) ==
    [ctx EXCEPT !.raw_tx = Append(ctx.raw_tx, d),
                !.raw_tx_len = ctx.raw_tx_len + Size[d],
                !.raw_public_key = "overlaid"]

SignMore ==
    /\ DataAccepted
    /\ command.p2 = P2_MORE
    /\ G_context' = AppendRaw(G_context, command.data)
    /\ Answer(NoBody, "SW_OK")
    /\ UNCHANGED uiVars

\* transaction_deserialize fails: it may already have recognised the transfer.
\* What was received stays, and so does the state.
SignParseFails ==
    /\ DataAccepted
    /\ command.p2 = P2_LAST
    /\ \E t \in {G_context.is_transfer, TRUE} :
          G_context' = [AppendRaw(G_context, command.data) EXCEPT !.is_transfer = t]
    /\ Answer(StatusBody, "SW_TX_PARSING_FAIL")
    /\ UNCHANGED uiVars

\* Mutant: the hash is not computed over what was received.
HashNotUpdated(ctx, d, t) ==
    [AppendRaw(ctx, d) EXCEPT !.is_transfer = t, !.state = "STATE_PARSED"]

\* transaction_deserialize succeeds: the context once the hash is computed.
ParsedContext(ctx, d, t) ==
    LET c == AppendRaw(ctx, d)
    IN  [c EXCEPT !.is_transfer = t, !.state = "STATE_PARSED", !.hash = c.raw_tx]

Reviewed(ctx) ==
    IF ctx.is_transfer THEN TransferShown(ctx.bip44_path, ctx.network_magic, ctx.raw_tx)
    ELSE UnsupportedShown

\* The transaction flow and its callback: create_transaction_flow offers approval
\* only for a transfer of NEO or GAS.
ShowTransaction(ctx) ==
    /\ shown' = Reviewed(ctx)
    /\ g_validate_callback' = "transaction"
    /\ flow' = IF ctx.is_transfer THEN "review" ELSE "abort"

ui_display_transaction(ctx, format) ==
    IF ctx.req_type # "CONFIRM_TRANSACTION" \/ ctx.state # "STATE_PARSED"
    THEN /\ G_context' = [ctx EXCEPT !.state = "STATE_NONE"]
         /\ Answer(NoBody, "SW_BAD_STATE")
         /\ UNCHANGED uiVars
    ELSE /\ G_context' = ctx
         /\ IF format = "SW_OK"
            THEN /\ ShowTransaction(ctx)
                 /\ pc' = "recv"
                 /\ UNCHANGED <<G_io_state, G_output_len, G_io_apdu_buffer, consent, hostVars>>
            ELSE Answer(NoBody, format) /\ UNCHANGED uiVars

SignLast ==
    /\ DataAccepted
    /\ command.p2 = P2_LAST
    /\ \E t \in {G_context.is_transfer, TRUE}, format \in FormatOutcomes :
          ui_display_transaction(ParsedContext(G_context, command.data, t), format)

handler_sign_tx ==
    \/ SignPath
    \/ MagicRefused \/ SignMagic
    \/ DataRefused \/ SignMore \/ SignParseFails \/ SignLast

-----------------------------------------------------------------------------
(* ui/action/validate.c: the approve, reject and "Understood, abort.." steps *)

\* Mutant: the abort flow has an approve step.
CanAlwaysPress(approved) == Blocked /\ flow \in {"pubkey", "review", "abort"}

\* The flow on the screen has the pressed step: the abort flow only rejects.
CanPress(approved) ==
    Blocked /\ flow \in (IF approved THEN {"pubkey", "review"} ELSE {"pubkey", "review", "abort"})

Decided(approved) == consent' = IF approved THEN shown ELSE Nothing

ui_action_validate_pubkey(approved) ==
    /\ CanPress(approved)
    /\ g_validate_callback = "pubkey"
    /\ IF approved THEN helper_send_response_pubkey(G_context.raw_public_key)
       ELSE io_send_sw("SW_DENY")
    /\ ui_menu_main
    /\ Decided(approved)
    /\ UNCHANGED <<pc, G_context, g_validate_callback>>

\* crypto_sign_tx: over the magic and hash of the context, with the key of its path.
Signature(ctx) == SignatureBody(ctx.bip44_path, ctx.network_magic, ctx.hash)

ApproveTransaction(outcome) ==
    /\ CanPress(TRUE)
    /\ g_validate_callback = "transaction"
    /\ G_context' = [G_context EXCEPT
          !.state = IF outcome = "ok" THEN "STATE_APPROVED" ELSE "STATE_NONE"]
    /\ IF outcome = "ok" THEN io_send_response(Signature(G_context), "SW_OK")
       ELSE io_send_sw("SW_SIGN_FAIL")
    /\ ui_menu_main
    /\ Decided(TRUE)
    /\ UNCHANGED <<pc, g_validate_callback>>

\* An exception in crypto_sign_tx leaves the callback, io_event and io_exchange:
\* app_main answers, and the flow stays on the screen.
SignThrows ==
    /\ CanPress(TRUE)
    /\ g_validate_callback = "transaction"
    /\ G_context' = [G_context EXCEPT !.state = "STATE_APPROVED"]
    /\ CatchOther
    /\ Decided(TRUE)
    /\ UNCHANGED <<flow, shown, g_validate_callback>>

RejectTransaction ==
    /\ CanPress(FALSE)
    /\ g_validate_callback = "transaction"
    /\ G_context' = [G_context EXCEPT !.state = "STATE_NONE"]
    /\ io_send_sw("SW_DENY")
    /\ ui_menu_main
    /\ Decided(FALSE)
    /\ UNCHANGED <<pc, g_validate_callback>>

-----------------------------------------------------------------------------
(* The whole system. *)

\* What the thread does on its own.
Device ==
    \/ Boot \/ BootFails
    \/ io_recv_command
    \/ ParserRefuses \/ DispatcherRefuses
    \/ handler_get_version \/ handler_get_app_name
    \/ handler_get_public_key \/ handler_sign_tx

User ==
    \/ \E approved \in BOOLEAN : ui_action_validate_pubkey(approved)
    \/ \E outcome \in CryptoOutcomes \ {"throws"} : ApproveTransaction(outcome)
    \/ "throws" \in CryptoOutcomes /\ SignThrows
    \/ RejectTransaction
    \/ ui_menu_about \/ MenuBack \/ Quit \/ Launch

Host ==
    \/ \E c \in Commands : Deliver(c)
    \/ UsbReset

Next == Device \/ User \/ Host

\* The thread keeps running; the host and the user owe nothing.
Spec == Init /\ [][Next]_vars /\ WF_vars(Device)

-----------------------------------------------------------------------------
(* Types. *)

Questions == {"pubkey", "review", "abort"}

Keys == Paths \cup {"zero", "overlaid"}

Bodies ==
    [is : {"none", "status", "version", "name"}]
    \cup [is : {"pubkey"}, key : Keys]
    \cup [is : {"signature"}, path : Paths, magic : Magics, hash : Seq(Payload)]

CommandFrames == [kind : {"command"}, cmd : Commands]
Frames ==
    [kind : {"nothing"}] \cup CommandFrames
    \cup [kind : {"response"}, body : Bodies, sw : StatusWords]

Screens ==
    [kind : {"none", "unsupported"}] \cup [kind : {"address"}, key : Keys]
    \cup [kind : {"transfer"}, path : Paths, magic : Magics, tx : Seq(Payload)]

Contexts ==
    [state : {"STATE_NONE", "STATE_BIP44_OK", "STATE_MAGIC_OK", "STATE_PARSED",
              "STATE_APPROVED"},
     req_type : {"CONFIRM_ADDRESS", "CONFIRM_TRANSACTION"},
     bip44_path : Paths, network_magic : Magics,
     raw_tx : Seq(Payload), raw_tx_len : 0..MAX_TRANSACTION_LEN, is_transfer : BOOLEAN,
     hash : Seq(Payload), raw_public_key : Keys]

\* Type invariant: every variable holds what its C object can hold, the length of
\* raw_tx never exceeds its array, and a command is in the buffer when app_main
\* dispatches it.
TypeOK ==
    /\ pc \in {"boot", "recv", "sync", "async", "dispatch", "exited"}
    /\ G_io_state \in {"READY", "RECEIVED", "WAITING"}
    /\ G_output_len \in Nat
    /\ G_io_apdu_buffer \in Frames
    /\ pc = "dispatch" => G_io_apdu_buffer \in CommandFrames
    /\ G_context \in Contexts
    /\ flow \in {"none", "menu", "about"} \cup Questions
    /\ g_validate_callback \in {"none", "pubkey", "transaction"}
    /\ shown \in Screens
    /\ consent \in Screens
    /\ pending \in Seq(Commands)
    /\ wire \in [frame : Frames, asked : Seq(Commands)]

-----------------------------------------------------------------------------
(* What holds when the host awaits each answer and the crypto library does  *)
(* not throw.                                                                *)

AwaitsAnswers == MaxPending = 1 /\ "throws" \notin CryptoOutcomes

Last(s) == s[Len(s)]

\* What a successful answer to a command carries.
Success(c) ==
    CASE c.ins = "GET_VERSION" -> "version"
      [] c.ins = "GET_APP_NAME" -> "name"
      [] c.ins = "GET_PUBLIC_KEY" -> "pubkey"
      [] c.ins = "SIGN_TX" /\ c.p1 > 1 /\ c.p2 = P2_LAST -> "signature"
      [] OTHER -> "none"

Fits(f, c) ==
    /\ f.kind = "response"
    /\ f.sw = "SW_OK" => f.body.is = Success(c)
    /\ f.sw # "SW_OK" => f.body.is \in {"none", "status"}
    /\ f.body.is = "pubkey" => f.body.key = PathReading[c.data].path

\* Every transmission answers exactly one command, with a result of that command:
\* no response is sent twice, unasked, or after the request it belongs to was
\* answered, although G_output_len is never reset once a response has left through
\* io_recv_command and the buffer is shared by commands and responses.
AnswersItsCommand ==
    wire.frame # NoFrame => Len(wire.asked) = 1 /\ Fits(wire.frame, Last(wire.asked))

\* io_exchange blocks with a command unanswered exactly while the device asks the
\* user, and then G_io_state says that the callback must transmit (WAITING): the
\* three-state protocol of io.c never loses track of who answers.
WaitsOnlyForUser ==
    Blocked => /\ (pending # <<>>) <=> (flow \in Questions)
               /\ (pending # <<>>) <=> (G_io_state = "WAITING")

\* What an approval would sign or return is what the screen was made from: no
\* command changes the path, the magic, the hash or the key under a question.
QuestionIsContext ==
    /\ flow = "review" =>
          /\ G_context.state = "STATE_PARSED"
          /\ shown = TransferShown(G_context.bip44_path, G_context.network_magic, G_context.hash)
    /\ flow = "pubkey" => shown = AddressShown(G_context.raw_public_key)
    /\ flow = "abort" => ~G_context.is_transfer

\* app_main never returns by itself: neither io_recv_command nor a handler ever
\* finds the state in which it gives -1, so the USB link is not cycled under a host
\* that follows the protocol.
NeverGivesUp == [][pc' = "boot" => pc \notin {"recv", "dispatch"}]_vars

-----------------------------------------------------------------------------
(* What holds whatever the host sends and the crypto library does. *)

IsSignature(f) == f.kind = "response" /\ f.body.is = "signature"

\* A signature that leaves the device was approved by the user on a review of the
\* very transaction, network and path it signs, of a recognised transfer.
SignatureIsConsented ==
    IsSignature(wire.frame) =>
        consent = TransferShown(wire.frame.body.path, wire.frame.body.magic, wire.frame.body.hash)

\* A question on the screen is wired to its own callback: an address screen never
\* approves a transaction, and a transaction screen never releases a key.
ScreenHasItsCallback ==
    /\ flow = "pubkey" => g_validate_callback = "pubkey" /\ shown.kind = "address"
    /\ flow = "review" => g_validate_callback = "transaction" /\ shown.kind = "transfer"
    /\ flow = "abort" => g_validate_callback = "transaction" /\ shown.kind = "unsupported"

\* Every delivered command is answered, or put to the user, or ended by a restart:
\* no sequence of commands leaves the host waiting for a device that waits for it.
CommandsAreServed == (pending # <<>>) ~> (pending = <<>> \/ flow \in Questions)

-----------------------------------------------------------------------------
(* What the repository says of the program. *)

\* "Second apdu must always be the network magic, (P1 chunk 1)" (apdu/dispatcher.h):
\* transaction data is stored only in the state the magic leaves.
DataAfterMagic ==
    [][G_context'.raw_tx_len > G_context.raw_tx_len => G_context.state = "STATE_MAGIC_OK"]_vars

\* "SW_SIGN_FAIL: Failed to create signature of data" (doc/COMMANDS.md): after the
\* user approved, the answer is a signature or SW_SIGN_FAIL.
SigningFailureIsReported ==
    (consent.kind = "transfer" /\ wire.frame.kind = "response" /\ Len(wire.asked) > 0) =>
        (Last(wire.asked).ins = "SIGN_TX" => wire.frame.sw \in {"SW_OK", "SW_SIGN_FAIL"})
=============================================================================
