---------------------------- MODULE NeoAppProofs ----------------------------
(* Proofs about NeoApp, for every host, every command set and every outcome of *)
(* the crypto library; in the last part, for a host that awaits each answer.   *)
EXTENDS NeoApp, TLAPS

-----------------------------------------------------------------------------
(* Types. *)

LEMMA ZeroContextType == ZeroContext \in Contexts
BY PathAssumption, MagicAssumption, SizeAssumption DEF ZeroContext, Contexts, Keys

LEMMA StatusTypes ==
    {"SW_OK", "SW_WRONG_DATA_LENGTH", "SW_DENY", "SW_WRONG_TX_LENGTH", "SW_TX_PARSING_FAIL",
     "SW_BAD_STATE", "SW_SIGN_FAIL", "SW_MAGIC_PARSING_FAIL", "exception"} \subseteq StatusWords
BY DEF StatusWords, Bip44Status

LEMMA BodyTypes ==
    /\ NoBody \in Bodies /\ StatusBody \in Bodies
    /\ VersionBody \in Bodies /\ NameBody \in Bodies
    /\ \A k \in Keys : PubkeyBody(k) \in Bodies
    /\ \A ctx \in Contexts : Signature(ctx) \in Bodies
BY DEF Bodies, NoBody, StatusBody, VersionBody, NameBody, PubkeyBody, Signature,
       SignatureBody, Contexts

LEMMA NoFrameType == NoFrame \in Frames /\ Nothing \in Screens
BY DEF NoFrame, Frames, Nothing, Screens

LEMMA TransmitType ==
    ASSUME TypeOK, NEW STATE f, f \in Frames, Transmit(f)
    PROVE  pending' \in Seq(Commands) /\ wire' \in [frame : Frames, asked : Seq(Commands)]
<1>1. pending' \in Seq(Commands)
  BY DEF Transmit, TypeOK
<1> QED
  BY <1>1 DEF Transmit, TypeOK

LEMMA ReplyType ==
    ASSUME TypeOK, NEW STATE body, NEW STATE sw, body \in Bodies, sw \in StatusWords,
           io_send_response(body, sw)
    PROVE  /\ G_io_state' = "READY"
           /\ G_output_len' \in Nat
           /\ G_io_apdu_buffer' \in Frames
           /\ pending' \in Seq(Commands)
           /\ wire' \in [frame : Frames, asked : Seq(Commands)]
<1>1. Response(body, sw) \in Frames
  BY DEF Response, Frames
<1>2. DataLen(body) + 2 \in Nat
  BY DEF DataLen
<1>3. CASE G_io_state = "WAITING"
  BY <1>1, <1>3, TransmitType DEF io_send_response
<1>4. CASE G_io_state # "WAITING"
  BY <1>1, <1>2, <1>4 DEF io_send_response, hostVars, TypeOK
<1> QED
  BY <1>3, <1>4

LEMMA DispatchedCommand ==
    ASSUME TypeOK, pc = "dispatch"
    PROVE  /\ command \in CommandShape
           /\ command.data \in Payload \cup {NoData}
           /\ Refusal(command) \in StatusWords \cup {""}
<1>1. command \in Commands
  BY DEF TypeOK, CommandFrames, command
<1>2. command \in CommandShape
  BY <1>1, CommandsAssumption
<1>3. \A c : Refusal(c) \in {"", "SW_CLA_NOT_SUPPORTED", "SW_WRONG_P1P2",
                              "SW_WRONG_DATA_LENGTH", "SW_INS_NOT_SUPPORTED"}
  BY DEF Refusal
<1>4. Refusal(command) \in StatusWords \cup {""}
  BY <1>3 DEF StatusWords, Bip44Status
<1> QED
  BY <1>2, <1>4 DEF CommandShape

\* What a handler that answers has to show of its context.
LEMMA AnswerKeepsType ==
    ASSUME TypeOK, NEW STATE body, NEW STATE sw, body \in Bodies, sw \in StatusWords,
           io_send_response(body, sw), pc' \in {"recv", "boot"},
           G_context' \in Contexts, UNCHANGED uiVars
    PROVE  TypeOK'
BY ReplyType DEF TypeOK, uiVars

\* A decision of the user: back to the menu.
LEMMA DecisionKeepsType ==
    ASSUME TypeOK, NEW STATE body, NEW STATE sw, body \in Bodies, sw \in StatusWords,
           Blocked, UNCHANGED <<pc, g_validate_callback>>,
           io_send_response(body, sw), ui_menu_main, consent' \in Screens,
           G_context' \in Contexts
    PROVE  TypeOK'
<1>1. pc' # "dispatch"
  BY DEF Blocked
<1> QED
  BY <1>1, ReplyType, NoFrameType DEF TypeOK, ui_menu_main

LEMMA InitType == Init => TypeOK
BY ZeroContextType, NoFrameType DEF Init, TypeOK

LEMMA ReadTypes ==
    ASSUME TypeOK, pc = "dispatch", command.data # NoData
    PROVE  /\ command.data \in Payload
           /\ PathReading[command.data] \in [status : Bip44Status, path : Paths]
           /\ MagicReading[command.data] \in [ok : BOOLEAN, magic : Magics]
           /\ Size[command.data] \in Nat
BY DispatchedCommand, PathAssumption, MagicAssumption, SizeAssumption

\* The dispatcher calls a handler that reads data only when there is some.
LEMMA HandledData ==
    ASSUME NEW c, Refusal(c) = "", c.ins \in {"GET_PUBLIC_KEY", "SIGN_TX"}
    PROVE  c.data # NoData
BY DEF Refusal

LEMMA KeyContextType ==
    ASSUME NEW d \in Payload
    PROVE  KeyContext(d) \in Contexts /\ DerivedContext(d) \in Contexts
BY ZeroContextType, PathAssumption DEF KeyContext, DerivedContext, Contexts, Keys

LEMMA AppendRawType ==
    ASSUME NEW ctx \in Contexts, NEW d \in Payload, ~TooLong(ctx, d)
    PROVE  AppendRaw(ctx, d) \in Contexts
<1>1. ctx.raw_tx_len + Size[d] \in 0..MAX_TRANSACTION_LEN
  BY SizeAssumption DEF TooLong, Contexts
<1>2. Append(ctx.raw_tx, d) \in Seq(Payload)
  BY DEF Contexts
<1> QED
  BY <1>1, <1>2 DEF AppendRaw, Contexts, Keys

LEMMA ParsedContextType ==
    ASSUME NEW ctx \in Contexts, NEW d \in Payload, ~TooLong(ctx, d), NEW t \in BOOLEAN
    PROVE  /\ ParsedContext(ctx, d, t) \in Contexts
           /\ Reviewed(ParsedContext(ctx, d, t)) \in Screens
<1>1. ParsedContext(ctx, d, t) \in Contexts
  BY AppendRawType DEF ParsedContext, Contexts
<1> QED
  BY <1>1 DEF Contexts, Reviewed, TransferShown, UnsupportedShown, Screens

LEMMA DeviceKeepsType == TypeOK /\ Device => TypeOK'
<1> SUFFICES ASSUME TypeOK, Device PROVE TypeOK'
  OBVIOUS
<1>1. CASE Boot
  BY <1>1, ZeroContextType, NoFrameType DEF Boot, ClearState, ui_menu_main, TypeOK
<1>2. CASE BootFails
  BY <1>2, ZeroContextType, NoFrameType DEF BootFails, app_exit, ClearState, TypeOK
<1>3. CASE io_recv_command
  <2>1. /\ pc' \in {"sync", "async", "boot"} /\ G_io_state' \in {"READY", "RECEIVED", "WAITING"}
        /\ Transmit(G_io_apdu_buffer) \/ UNCHANGED hostVars
    BY <1>3 DEF io_recv_command
  <2>2. pending' \in Seq(Commands) /\ wire' \in [frame : Frames, asked : Seq(Commands)]
    BY <2>1, TransmitType DEF TypeOK, hostVars
  <2>3. QED
    BY <1>3, <2>1, <2>2 DEF io_recv_command, TypeOK, uiVars
<1>4. CASE ParserRefuses
  BY <1>4, AnswerKeepsType, BodyTypes, StatusTypes DEF ParserRefuses, io_send_sw, TypeOK
<1>5. CASE DispatcherRefuses
  <2>1. io_send_response(NoBody, Refusal(command)) /\ pc' \in {"recv", "boot"}
        /\ G_context' \in Contexts /\ UNCHANGED uiVars /\ Refusal(command) \in StatusWords
    BY <1>5, DispatchedCommand DEF DispatcherRefuses, Answer, TypeOK
  <2>2. QED
    BY <2>1, AnswerKeepsType, BodyTypes
<1>6. CASE handler_get_version
  BY <1>6, AnswerKeepsType, BodyTypes, StatusTypes DEF handler_get_version, Answer, TypeOK
<1>7. CASE handler_get_app_name
  BY <1>7, AnswerKeepsType, BodyTypes, StatusTypes DEF handler_get_app_name, Answer, TypeOK
<1>8. CASE handler_get_public_key
  <2> DEFINE d == command.data
             status == PathReading[d].status
  <2>0. /\ pc = "dispatch" /\ d \in Payload /\ status \in StatusWords
        /\ PathReading[d].path \in Keys
    <3>1. pc = "dispatch" /\ d # NoData
      BY <1>8, HandledData
      DEF handler_get_public_key, PathRefused, DeriveThrows, KeyReturned, KeyDisplayed,
          KeyHandled, Handling
    <3>2. QED
      BY <3>1, ReadTypes DEF StatusWords, Keys
  <2>1. KeyContext(d) \in Contexts /\ DerivedContext(d) \in Contexts
    BY <2>0, KeyContextType
  <2>2. CASE PathRefused
    <3>1. io_send_response(NoBody, status) /\ pc' \in {"recv", "boot"}
          /\ G_context' \in Contexts /\ UNCHANGED uiVars
      BY <2>1, <2>2 DEF PathRefused, Answer
    <3> HIDE DEF status
    <3>2. QED
      BY <2>0, <3>1, AnswerKeepsType, BodyTypes
  <2>3. CASE DeriveThrows
    BY <2>1, <2>3, AnswerKeepsType, BodyTypes, StatusTypes DEF DeriveThrows, CatchOther, io_send_sw
  <2>4. CASE KeyReturned
    <3> DEFINE body == PubkeyBody(PathReading[d].path)
    <3>1. io_send_response(body, "SW_OK") /\ pc' \in {"recv", "boot"}
          /\ G_context' \in Contexts /\ UNCHANGED uiVars /\ body \in Bodies
      BY <2>0, <2>1, <2>4, BodyTypes DEF KeyReturned, Answer
    <3> HIDE DEF body
    <3>2. QED
      BY <3>1, AnswerKeepsType, StatusTypes
  <2>5. CASE KeyDisplayed
    <3> DEFINE ctx == DerivedContext(d)
    <3>0. ui_display_address(ctx)
      BY <2>5 DEF KeyDisplayed
    <3>1. ctx \in Contexts /\ [ctx EXCEPT !.state = "STATE_NONE"] \in Contexts
      BY <2>1 DEF Contexts
    <3> HIDE DEF ctx
    <3>2. CASE ctx.req_type # "CONFIRM_ADDRESS" \/ ctx.state # "STATE_NONE"
      BY <3>0, <3>1, <3>2, AnswerKeepsType, BodyTypes, StatusTypes DEF ui_display_address, ShowAddress, Answer
    <3>3. CASE ~(ctx.req_type # "CONFIRM_ADDRESS" \/ ctx.state # "STATE_NONE")
      <4>1. AddressShown(ctx.raw_public_key) \in Screens
        BY <3>1 DEF Contexts, AddressShown, Screens
      <4>2. QED
        BY <3>0, <3>1, <3>3, <4>1 DEF ui_display_address, ShowAddress, TypeOK, Questions, hostVars
    <3>4. QED
      BY <3>2, <3>3
  <2>6. QED
    BY <1>8, <2>2, <2>3, <2>4, <2>5 DEF handler_get_public_key
<1>9. CASE handler_sign_tx
  <2> DEFINE d == command.data
             status == PathReading[d].status
  <2>0. /\ pc = "dispatch" /\ d \in Payload /\ status \in StatusWords
        /\ PathReading[d].path \in Paths
        /\ MagicReading[d] \in [ok : BOOLEAN, magic : Magics]
    <3>1. pc = "dispatch" /\ d # NoData
      BY <1>9, HandledData
      DEF handler_sign_tx, SignPath, MagicRefused, SignMagic, DataRefused, SignMore,
          SignParseFails, SignLast, DataAccepted, SigningData, Handling
    <3>2. QED
      BY <3>1, ReadTypes DEF StatusWords
  <2>1. CASE SignPath
    <3>1. io_send_response(NoBody, status) /\ pc' \in {"recv", "boot"} /\ UNCHANGED uiVars
      BY <2>1 DEF SignPath, Answer
    <3>2. G_context' \in Contexts
      BY <2>0, <2>1, ZeroContextType DEF SignPath, Contexts
    <3> HIDE DEF status
    <3>3. QED
      BY <2>0, <3>1, <3>2, AnswerKeepsType, BodyTypes
  <2>2. CASE MagicRefused
    BY <2>2, AnswerKeepsType, BodyTypes, StatusTypes DEF MagicRefused, Answer, TypeOK
  <2>3. CASE SignMagic
    <3> DEFINE sw == IF MagicReading[d].ok THEN "SW_OK" ELSE "SW_MAGIC_PARSING_FAIL"
    <3>1. io_send_response(NoBody, sw) /\ pc' \in {"recv", "boot"} /\ UNCHANGED uiVars
          /\ sw \in StatusWords
      BY <2>3, StatusTypes DEF SignMagic, Answer
    <3>2. G_context' \in Contexts
      BY <2>0, <2>3, MagicAssumption DEF SignMagic, ReadMagic, TypeOK, Contexts
    <3> HIDE DEF sw
    <3>3. QED
      BY <3>1, <3>2, AnswerKeepsType, BodyTypes
  <2>4. CASE DataRefused
    <3> DEFINE sw == IF DataOutOfOrder(G_context) THEN "SW_BAD_STATE" ELSE "SW_WRONG_TX_LENGTH"
    <3>1. io_send_response(NoBody, sw) /\ pc' \in {"recv", "boot"} /\ UNCHANGED uiVars
          /\ sw \in StatusWords /\ G_context' \in Contexts
      BY <2>4, StatusTypes DEF DataRefused, Answer, TypeOK
    <3> HIDE DEF sw
    <3>2. QED
      BY <3>1, AnswerKeepsType, BodyTypes
  <2>5. CASE SignMore
    <3>1. G_context' \in Contexts
      BY <2>0, <2>5, AppendRawType DEF SignMore, DataAccepted, TypeOK
    <3>2. QED
      BY <2>5, <3>1, AnswerKeepsType, BodyTypes, StatusTypes DEF SignMore, Answer
  <2>6. CASE SignParseFails
    <3>1. AppendRaw(G_context, d) \in Contexts
      BY <2>0, <2>6, AppendRawType DEF SignParseFails, DataAccepted, TypeOK
    <3>2. G_context' \in Contexts
      BY <2>6, <3>1 DEF SignParseFails, TypeOK, Contexts
    <3>3. QED
      BY <2>6, <3>2, AnswerKeepsType, BodyTypes, StatusTypes DEF SignParseFails, Answer
  <2>7. CASE SignLast
    <3>1. PICK t \in {G_context.is_transfer, TRUE}, format \in FormatOutcomes :
             ui_display_transaction(ParsedContext(G_context, d, t), format)
      BY <2>7 DEF SignLast
    <3> DEFINE ctx == ParsedContext(G_context, d, t)
    <3>2. ctx \in Contexts /\ Reviewed(ctx) \in Screens
      BY <2>0, <2>7, <3>1, ParsedContextType DEF SignLast, DataAccepted, TypeOK, Contexts
    <3>3. format \in StatusWords /\ [ctx EXCEPT !.state = "STATE_NONE"] \in Contexts
      BY <3>2, FormatAssumption DEF StatusWords, Contexts
    <3>4. ui_display_transaction(ctx, format)
      BY <3>1
    <3> HIDE DEF ctx
    <3>5. CASE \E sw \in {format, "SW_BAD_STATE"} :
                 Answer(NoBody, sw) /\ UNCHANGED uiVars /\ G_context' \in Contexts
      BY <3>3, <3>5, AnswerKeepsType, BodyTypes, StatusTypes DEF Answer
    <3>6. CASE /\ ctx.req_type = "CONFIRM_TRANSACTION" /\ ctx.state = "STATE_PARSED"
               /\ format = "SW_OK"
      BY <3>2, <3>4, <3>6 DEF ui_display_transaction, ShowTransaction, TypeOK, Questions, hostVars
    <3>7. QED
      BY <3>2, <3>3, <3>4, <3>5, <3>6 DEF ui_display_transaction, ShowTransaction
  <2>8. QED
    BY <1>9, <2>1, <2>2, <2>3, <2>4, <2>5, <2>6, <2>7 DEF handler_sign_tx
<1> QED
  BY <1>1, <1>2, <1>3, <1>4, <1>5, <1>6, <1>7, <1>8, <1>9 DEF Device

LEMMA UserKeepsType == TypeOK /\ User => TypeOK'
<1> SUFFICES ASSUME TypeOK, User PROVE TypeOK'
  OBVIOUS
<1>1. ASSUME NEW approved \in BOOLEAN, ui_action_validate_pubkey(approved)
      PROVE  TypeOK'
  <2> DEFINE body == PubkeyBody(G_context.raw_public_key)
  <2>1. /\ Blocked /\ UNCHANGED <<pc, g_validate_callback>> /\ ui_menu_main
        /\ consent' \in Screens /\ G_context' \in Contexts
    BY <1>1, NoFrameType DEF ui_action_validate_pubkey, CanPress, Decided, TypeOK
  <2>2. body \in Bodies
    BY BodyTypes DEF TypeOK, Contexts
  <2>3. io_send_response(body, "SW_OK") \/ io_send_response(NoBody, "SW_DENY")
    BY <1>1 DEF ui_action_validate_pubkey, helper_send_response_pubkey, io_send_sw
  <2> HIDE DEF body
  <2>4. QED
    BY <2>1, <2>2, <2>3, DecisionKeepsType, BodyTypes, StatusTypes
<1>2. ASSUME NEW outcome \in CryptoOutcomes \ {"throws"}, ApproveTransaction(outcome)
      PROVE  TypeOK'
  <2> DEFINE sig == Signature(G_context)
  <2>1. /\ Blocked /\ UNCHANGED <<pc, g_validate_callback>> /\ ui_menu_main
        /\ consent' \in Screens /\ G_context' \in Contexts
    BY <1>2 DEF ApproveTransaction, CanPress, Decided, TypeOK, Contexts
  <2>2. sig \in Bodies
    BY BodyTypes DEF TypeOK
  <2>3. io_send_response(sig, "SW_OK") \/ io_send_response(NoBody, "SW_SIGN_FAIL")
    BY <1>2 DEF ApproveTransaction, io_send_sw
  <2> HIDE DEF sig
  <2>4. QED
    BY <2>1, <2>2, <2>3, DecisionKeepsType, BodyTypes, StatusTypes
<1>3. CASE SignThrows
  <2>1. /\ io_send_response(NoBody, "exception") /\ pc' = "recv"
        /\ UNCHANGED <<flow, shown, g_validate_callback>>
        /\ consent' \in Screens /\ G_context' \in Contexts
    BY <1>3 DEF SignThrows, CatchOther, io_send_sw, Decided, TypeOK, Contexts
  <2>2. QED
    BY <2>1, ReplyType, BodyTypes, StatusTypes DEF TypeOK
<1>4. CASE RejectTransaction
  <2>1. /\ Blocked /\ UNCHANGED <<pc, g_validate_callback>> /\ ui_menu_main
        /\ consent' \in Screens /\ G_context' \in Contexts
        /\ io_send_response(NoBody, "SW_DENY")
    BY <1>4, NoFrameType
    DEF RejectTransaction, CanPress, Decided, TypeOK, Contexts, io_send_sw
  <2>2. QED
    BY <2>1, DecisionKeepsType, BodyTypes, StatusTypes
<1>5. CASE ui_menu_about
  BY <1>5 DEF ui_menu_about, ctlVars, hostVars, TypeOK
<1>6. CASE MenuBack
  BY <1>6, NoFrameType DEF MenuBack, ui_menu_main, ctlVars, hostVars, TypeOK
<1>7. CASE Quit
  BY <1>7, ZeroContextType, NoFrameType DEF Quit, app_exit, ClearState, TypeOK
<1>8. CASE Launch
  BY <1>8 DEF Launch, uiVars, hostVars, TypeOK
<1> QED
  BY <1>1, <1>2, <1>3, <1>4, <1>5, <1>6, <1>7, <1>8 DEF User

LEMMA HostKeepsType == TypeOK /\ Host => TypeOK'
<1> SUFFICES ASSUME TypeOK, Host PROVE TypeOK'
  OBVIOUS
<1>1. ASSUME NEW c \in Commands, Deliver(c)
      PROVE  TypeOK'
  <2>1. CommandFrame(c) \in CommandFrames /\ CommandFrame(c) \in Frames
    BY DEF CommandFrame, CommandFrames, Frames
  <2>2. Append(pending, c) \in Seq(Commands)
    BY DEF TypeOK
  <2>3. QED
    BY <1>1, <2>1, <2>2, NoFrameType DEF Deliver, StateOnReturn, TypeOK
<1>2. CASE UsbReset
  BY <1>2 DEF UsbReset, uiVars, hostVars, TypeOK
<1> QED
  BY <1>1, <1>2 DEF Host

\* Every variable keeps its type, raw_tx stays within its array and app_main only
\* dispatches a command, whatever the host sends.
THEOREM TypeCorrect == Spec => []TypeOK
<1>1. TypeOK /\ [Next]_vars => TypeOK'
  <2>1. TypeOK /\ UNCHANGED vars => TypeOK'
    BY DEF vars, ctlVars, uiVars, hostVars, TypeOK
  <2>2. QED
    BY <2>1, DeviceKeepsType, UserKeepsType, HostKeepsType DEF Next
<1>2. QED
  BY <1>1, InitType, PTL DEF Spec

-----------------------------------------------------------------------------
(* A signature leaves the device only with the consent of its user. *)

\* What an approval would sign is what the review shows.
ReviewIsContext ==
    flow = "review" => shown =
        TransferShown(G_context.bip44_path, G_context.network_magic, G_context.hash)

\* The inductive invariant behind SignatureIsConsented.  A signature is transmitted
\* only from a callback that finds WAITING; WAITING is reached only from a handler
\* that has just put up its question, with the context as it is on the screen; and
\* a signature that was stored instead of transmitted is gone before
\* io_recv_command can send it.
ConsentInv ==
    /\ ScreenHasItsCallback
    /\ G_io_state = "WAITING" => pc \in {"async", "boot"}
    /\ pc = "async" => G_io_state \in {"WAITING", "READY"}
    /\ G_io_state = "WAITING" => ReviewIsContext
    /\ (pc = "recv" /\ G_io_state = "RECEIVED") => ReviewIsContext
    /\ (pc = "recv" /\ G_output_len > 0) => ~IsSignature(G_io_apdu_buffer)
    /\ IsSignature(wire.frame) =>
          /\ pc \in {"async", "boot"}
          /\ flow \notin Questions
          /\ SignatureIsConsented

\* A handler's answer, whatever it does to the context: nothing is transmitted and
\* nothing but a signature could spoil the buffer.
LEMMA AnswerKeepsConsent ==
    ASSUME ConsentInv, pc = "dispatch",
           NEW STATE body, NEW STATE sw, body.is # "signature",
           io_send_response(body, sw), pc' \in {"recv", "boot"}, UNCHANGED uiVars
    PROVE  ConsentInv'
<1>1. G_io_state # "WAITING" /\ ~IsSignature(wire.frame)
  BY DEF ConsentInv
<1>2. G_io_state' = "READY" /\ G_io_apdu_buffer' = Response(body, sw) /\ UNCHANGED hostVars
  BY <1>1 DEF io_send_response
<1>3. ~IsSignature(G_io_apdu_buffer')
  BY <1>2 DEF IsSignature, Response
<1>4. ScreenHasItsCallback'
  BY DEF ConsentInv, ScreenHasItsCallback, uiVars
<1> QED
  BY <1>1, <1>2, <1>3, <1>4 DEF ConsentInv, hostVars, IsSignature

\* A handler that ends by asking the user.
LEMMA QuestionKeepsConsent ==
    ASSUME ConsentInv, pc = "dispatch", pc' = "recv",
           ScreenHasItsCallback', ReviewIsContext',
           UNCHANGED <<G_io_state, G_output_len, G_io_apdu_buffer, hostVars>>,
           ~IsSignature(G_io_apdu_buffer)
    PROVE  ConsentInv'
<1>1. G_io_state # "WAITING" /\ ~IsSignature(wire.frame)
  BY DEF ConsentInv
<1> QED
  BY <1>1 DEF ConsentInv, hostVars, IsSignature

\* A decision of the user that does not sign.
LEMMA RefusalKeepsConsent ==
    ASSUME ConsentInv, Blocked, flow \in Questions,
           NEW STATE body, NEW STATE sw, body.is # "signature",
           io_send_response(body, sw), ui_menu_main, UNCHANGED <<pc, g_validate_callback>>
    PROVE  ConsentInv'
<1>1. ~IsSignature(wire.frame)
  BY DEF ConsentInv
<1>2. G_io_state' = "READY"
  BY DEF io_send_response
<1>3. ~IsSignature(wire'.frame)
  BY <1>1 DEF io_send_response, Transmit, IsSignature, Response, hostVars
<1>4. ScreenHasItsCallback'
  BY DEF ui_menu_main, ScreenHasItsCallback
<1> QED
  BY <1>2, <1>3, <1>4 DEF ConsentInv, Blocked

LEMMA ConsentInit == Init => ConsentInv
BY DEF Init, ConsentInv, ScreenHasItsCallback, IsSignature, NoFrame

LEMMA DeviceKeepsConsent == TypeOK /\ ConsentInv /\ Device => ConsentInv'
<1> SUFFICES ASSUME TypeOK, ConsentInv, Device PROVE ConsentInv'
  OBVIOUS
<1>1. CASE Boot
  BY <1>1 DEF Boot, ClearState, ui_menu_main, ConsentInv, ScreenHasItsCallback, IsSignature, NoFrame
<1>2. CASE BootFails
  BY <1>2 DEF BootFails, app_exit, ClearState, ConsentInv, ScreenHasItsCallback, IsSignature, NoFrame
<1>3. CASE io_recv_command
  <2>1. ScreenHasItsCallback' /\ ReviewIsContext' = ReviewIsContext
    BY <1>3 DEF io_recv_command, uiVars, ConsentInv, ScreenHasItsCallback, ReviewIsContext
  <2>2. CASE G_io_state = "READY"
    <3>1. ~IsSignature(wire'.frame)
      BY <1>3, <2>2 DEF io_recv_command, ConsentInv, Transmit, IsSignature, hostVars
    <3>2. QED
      BY <1>3, <2>1, <2>2, <3>1 DEF io_recv_command, ConsentInv
  <2>3. CASE G_io_state = "RECEIVED"
    BY <1>3, <2>1, <2>3 DEF io_recv_command, ConsentInv, hostVars, IsSignature
  <2>4. G_io_state # "WAITING"
    BY <1>3 DEF io_recv_command, ConsentInv
  <2>5. QED
    BY <2>2, <2>3, <2>4 DEF TypeOK
<1>4. CASE ParserRefuses
  BY <1>4, AnswerKeepsConsent DEF ParserRefuses, io_send_sw, NoBody
<1>5. CASE DispatcherRefuses
  BY <1>5, AnswerKeepsConsent DEF DispatcherRefuses, Answer, NoBody
<1>6. CASE handler_get_version
  BY <1>6, AnswerKeepsConsent DEF handler_get_version, Handling, Answer, VersionBody
<1>7. CASE handler_get_app_name
  BY <1>7, AnswerKeepsConsent DEF handler_get_app_name, Handling, Answer, NameBody
<1>8. CASE handler_get_public_key
  <2>1. CASE PathRefused
    <3> DEFINE sw == PathReading[command.data].status
    <3>1. pc = "dispatch" /\ io_send_response(NoBody, sw) /\ pc' \in {"recv", "boot"}
          /\ UNCHANGED uiVars /\ NoBody.is # "signature"
      BY <2>1 DEF PathRefused, Handling, Answer, NoBody
    <3> HIDE DEF sw
    <3>2. QED
      BY <3>1, AnswerKeepsConsent
  <2>2. CASE DeriveThrows
    BY <2>2, AnswerKeepsConsent
    DEF DeriveThrows, KeyHandled, Handling, CatchOther, io_send_sw, NoBody
  <2>3. CASE KeyReturned
    BY <2>3, AnswerKeepsConsent DEF KeyReturned, KeyHandled, Handling, Answer, PubkeyBody
  <2>4. CASE KeyDisplayed
    <3>0. pc = "dispatch" /\ ~IsSignature(G_io_apdu_buffer)
      BY <2>4 DEF KeyDisplayed, KeyHandled, Handling, TypeOK, CommandFrames, IsSignature
    <3> DEFINE ctx == DerivedContext(command.data)
    <3>1. CASE ctx.req_type # "CONFIRM_ADDRESS" \/ ctx.state # "STATE_NONE"
      BY <2>4, <3>0, <3>1, AnswerKeepsConsent DEF KeyDisplayed, ui_display_address, ShowAddress, Answer, NoBody
    <3>2. CASE ~(ctx.req_type # "CONFIRM_ADDRESS" \/ ctx.state # "STATE_NONE")
      <4>1. /\ shown' = AddressShown(ctx.raw_public_key) /\ g_validate_callback' = "pubkey"
            /\ flow' = "pubkey" /\ pc' = "recv"
            /\ UNCHANGED <<G_io_state, G_output_len, G_io_apdu_buffer, consent, hostVars>>
        BY <2>4, <3>2 DEF KeyDisplayed, ui_display_address, ShowAddress
      <4>2. ScreenHasItsCallback' /\ ReviewIsContext'
        BY <4>1 DEF ScreenHasItsCallback, ReviewIsContext, AddressShown
      <4>3. QED
        BY <3>0, <4>1, <4>2, QuestionKeepsConsent
    <3>3. QED
      BY <3>1, <3>2
  <2>5. QED
    BY <1>8, <2>1, <2>2, <2>3, <2>4 DEF handler_get_public_key
<1>9. CASE handler_sign_tx
  <2>1. CASE SignPath
    <3> DEFINE sw == PathReading[command.data].status
    <3>1. pc = "dispatch" /\ io_send_response(NoBody, sw) /\ pc' \in {"recv", "boot"}
          /\ UNCHANGED uiVars /\ NoBody.is # "signature"
      BY <2>1 DEF SignPath, Handling, Answer, NoBody
    <3> HIDE DEF sw
    <3>2. QED
      BY <3>1, AnswerKeepsConsent
  <2>2. CASE MagicRefused
    BY <2>2, AnswerKeepsConsent DEF MagicRefused, Handling, Answer, NoBody
  <2>3. CASE SignMagic
    BY <2>3, AnswerKeepsConsent DEF SignMagic, Handling, Answer, NoBody
  <2>4. CASE DataRefused
    BY <2>4, AnswerKeepsConsent DEF DataRefused, SigningData, Handling, Answer, NoBody
  <2>5. CASE SignMore
    BY <2>5, AnswerKeepsConsent DEF SignMore, DataAccepted, SigningData, Handling, Answer, NoBody
  <2>6. CASE SignParseFails
    BY <2>6, AnswerKeepsConsent
    DEF SignParseFails, DataAccepted, SigningData, Handling, Answer, StatusBody
  <2>7. CASE SignLast
    <3>0. pc = "dispatch" /\ ~IsSignature(G_io_apdu_buffer)
      BY <2>7 DEF SignLast, DataAccepted, SigningData, Handling, TypeOK, CommandFrames, IsSignature
    <3>1. PICK t \in {G_context.is_transfer, TRUE}, format \in FormatOutcomes :
             ui_display_transaction(ParsedContext(G_context, command.data, t), format)
      BY <2>7 DEF SignLast
    <3> DEFINE ctx == ParsedContext(G_context, command.data, t)
    <3>2. CASE /\ ctx.req_type = "CONFIRM_TRANSACTION" /\ ctx.state = "STATE_PARSED"
               /\ format = "SW_OK"
      <4>1. /\ G_context' = ctx /\ flow' = (IF ctx.is_transfer THEN "review" ELSE "abort")
            /\ shown' = Reviewed(ctx) /\ g_validate_callback' = "transaction" /\ pc' = "recv"
            /\ UNCHANGED <<G_io_state, G_output_len, G_io_apdu_buffer, consent, hostVars>>
        BY <3>1, <3>2 DEF ui_display_transaction, ShowTransaction
      <4>2. ctx.hash = ctx.raw_tx
        BY DEF ParsedContext, AppendRaw, TypeOK, Contexts
      <4>3. ScreenHasItsCallback' /\ ReviewIsContext'
        BY <4>1, <4>2
        DEF ScreenHasItsCallback, ReviewIsContext, Reviewed, TransferShown, UnsupportedShown
      <4>4. QED
        BY <3>0, <4>1, <4>3, QuestionKeepsConsent
    <3>3. CASE \E sw \in {format, "SW_BAD_STATE"} : Answer(NoBody, sw) /\ UNCHANGED uiVars
      BY <3>0, <3>3, AnswerKeepsConsent DEF Answer, NoBody
    <3>4. QED
      BY <3>1, <3>2, <3>3 DEF ui_display_transaction, ShowTransaction
  <2>8. QED
    BY <1>9, <2>1, <2>2, <2>3, <2>4, <2>5, <2>6, <2>7 DEF handler_sign_tx
<1> QED
  BY <1>1, <1>2, <1>3, <1>4, <1>5, <1>6, <1>7, <1>8, <1>9 DEF Device

LEMMA UserKeepsConsent == TypeOK /\ ConsentInv /\ User => ConsentInv'
<1> SUFFICES ASSUME TypeOK, ConsentInv, User PROVE ConsentInv'
  OBVIOUS
<1>1. ASSUME NEW approved \in BOOLEAN, ui_action_validate_pubkey(approved)
      PROVE  ConsentInv'
  <2>1. Blocked /\ flow \in Questions /\ ui_menu_main /\ UNCHANGED <<pc, g_validate_callback>>
    BY <1>1 DEF ui_action_validate_pubkey, CanPress, Questions
  <2>2. CASE approved
    <3> DEFINE body == PubkeyBody(G_context.raw_public_key)
    <3>1. io_send_response(body, "SW_OK") /\ body.is # "signature"
      BY <1>1, <2>2 DEF ui_action_validate_pubkey, helper_send_response_pubkey, PubkeyBody
    <3> HIDE DEF body
    <3>2. QED
      BY <2>1, <3>1, RefusalKeepsConsent
  <2>3. CASE ~approved
    <3>1. io_send_response(NoBody, "SW_DENY") /\ NoBody.is # "signature"
      BY <1>1, <2>3 DEF ui_action_validate_pubkey, io_send_sw, NoBody
    <3>2. QED
      BY <2>1, <3>1, RefusalKeepsConsent
  <2>4. QED
    BY <2>2, <2>3
<1>2. ASSUME NEW outcome \in CryptoOutcomes \ {"throws"}, ApproveTransaction(outcome)
      PROVE  ConsentInv'
  <2>1. /\ Blocked /\ flow \in {"pubkey", "review"} /\ g_validate_callback = "transaction"
        /\ ui_menu_main /\ consent' = shown /\ UNCHANGED <<pc, g_validate_callback>>
    BY <1>2 DEF ApproveTransaction, CanPress, Decided
  <2>2. flow = "review" /\ ~IsSignature(wire.frame) /\ flow' = "menu"
    BY <2>1 DEF ConsentInv, ScreenHasItsCallback, Questions, ui_menu_main
  <2>3. CASE outcome # "ok"
    <3>1. io_send_response(NoBody, "SW_SIGN_FAIL") /\ NoBody.is # "signature"
      BY <1>2, <2>3 DEF ApproveTransaction, io_send_sw, NoBody
    <3>2. QED
      BY <2>1, <2>2, <3>1, RefusalKeepsConsent DEF Questions
  <2>4. CASE outcome = "ok"
    <3> DEFINE sig == Signature(G_context)
    <3>1. io_send_response(sig, "SW_OK")
      BY <1>2, <2>4 DEF ApproveTransaction
    <3>2. G_io_state' = "READY" /\ ScreenHasItsCallback'
      BY <2>2, <3>1 DEF io_send_response, ScreenHasItsCallback
    <3>3. CASE G_io_state = "WAITING"
      <4>1. pc = "async" /\ ReviewIsContext
        BY <2>1, <3>3 DEF ConsentInv, Blocked
      <4>2. wire'.frame = Response(sig, "SW_OK")
        BY <3>1, <3>3 DEF io_send_response, Transmit
      <4>3. SignatureIsConsented'
        BY <2>1, <2>2, <4>1, <4>2
        DEF ReviewIsContext, SignatureIsConsented, Response, Signature, SignatureBody
      <4>4. QED
        BY <2>1, <2>2, <3>2, <4>1, <4>3 DEF ConsentInv, Questions
    <3>4. CASE G_io_state # "WAITING"
      BY <2>1, <2>2, <3>1, <3>2, <3>4
      DEF ConsentInv, io_send_response, hostVars, Blocked, IsSignature
    <3>5. QED
      BY <3>3, <3>4
  <2>5. QED
    BY <2>3, <2>4
<1>3. CASE SignThrows
  <2>1. /\ pc' = "recv" /\ io_send_response(NoBody, "exception")
        /\ flow = "review" /\ UNCHANGED <<flow, shown, g_validate_callback>>
    BY <1>3 DEF SignThrows, CatchOther, io_send_sw, CanPress, ConsentInv, ScreenHasItsCallback
  <2>2. ~IsSignature(wire'.frame) /\ ~IsSignature(G_io_apdu_buffer') /\ G_io_state' = "READY"
    BY <2>1 DEF io_send_response, Transmit, IsSignature, Response, NoBody, hostVars,
                ConsentInv, Questions
  <2>3. QED
    BY <2>1, <2>2 DEF ConsentInv, ScreenHasItsCallback
<1>4. CASE RejectTransaction
  <2>1. /\ Blocked /\ flow \in Questions /\ ui_menu_main /\ UNCHANGED <<pc, g_validate_callback>>
        /\ io_send_response(NoBody, "SW_DENY") /\ NoBody.is # "signature"
    BY <1>4 DEF RejectTransaction, CanPress, Questions, io_send_sw, NoBody
  <2>2. QED
    BY <2>1, RefusalKeepsConsent
<1>5. CASE ui_menu_about
  BY <1>5 DEF ui_menu_about, ctlVars, hostVars, Blocked, Questions,
              ConsentInv, ScreenHasItsCallback, ReviewIsContext, SignatureIsConsented, IsSignature
<1>6. CASE MenuBack
  BY <1>6 DEF MenuBack, ui_menu_main, ctlVars, hostVars, Blocked, Questions,
              ConsentInv, ScreenHasItsCallback, ReviewIsContext, SignatureIsConsented, IsSignature
<1>7. CASE Quit
  BY <1>7 DEF Quit, app_exit, ClearState, ConsentInv, ScreenHasItsCallback, IsSignature, NoFrame
<1>8. CASE Launch
  BY <1>8 DEF Launch, uiVars, hostVars, ConsentInv, ScreenHasItsCallback, IsSignature
<1> QED
  BY <1>1, <1>2, <1>3, <1>4, <1>5, <1>6, <1>7, <1>8 DEF User

LEMMA HostKeepsConsent == TypeOK /\ ConsentInv /\ Host => ConsentInv'
<1> SUFFICES ASSUME TypeOK, ConsentInv, Host PROVE ConsentInv'
  OBVIOUS
<1>1. ASSUME NEW c \in Commands, Deliver(c)
      PROVE  ConsentInv'
  BY <1>1 DEF Deliver, StateOnReturn, Blocked, TypeOK, ConsentInv, ScreenHasItsCallback, IsSignature, NoFrame
<1>2. CASE UsbReset
  BY <1>2 DEF UsbReset, Blocked, uiVars, hostVars, ConsentInv, ScreenHasItsCallback,
              ReviewIsContext, SignatureIsConsented, IsSignature
<1> QED
  BY <1>1, <1>2 DEF Host

LEMMA StutterKeepsConsent == ConsentInv /\ UNCHANGED vars => ConsentInv'
BY DEF vars, ctlVars, uiVars, hostVars, ConsentInv, ScreenHasItsCallback, ReviewIsContext,
       SignatureIsConsented, IsSignature

\* The inductive invariant holds in every state the application reaches.
THEOREM ConsentInvariant == Spec => []ConsentInv
<1>1. TypeOK /\ ConsentInv /\ [Next]_vars => ConsentInv'
  BY DeviceKeepsConsent, UserKeepsConsent, HostKeepsConsent, StutterKeepsConsent DEF Next
<1>2. QED
  BY <1>1, ConsentInit, TypeCorrect, PTL DEF Spec

\* No signature leaves the device that its user did not approve on a review of the
\* transaction, network and path it signs, whatever commands the host sends, when it
\* sends them, and however the crypto library fails.
THEOREM SignatureConsent == Spec => []SignatureIsConsented
<1>1. ConsentInv => SignatureIsConsented
  BY DEF ConsentInv, SignatureIsConsented
<1>2. QED
  BY <1>1, ConsentInvariant, PTL

\* A question on the screen always calls its own callback.
THEOREM ScreenCallback == Spec => []ScreenHasItsCallback
<1>1. ConsentInv => ScreenHasItsCallback
  BY DEF ConsentInv
<1>2. QED
  BY <1>1, ConsentInvariant, PTL

-----------------------------------------------------------------------------
(* For a host that awaits each answer and a crypto library that does not throw: *)
(* the three states of io.c are enough to answer every command exactly once.     *)

\* The question on the screen is the one the command c leads to.
AskedBy(c) ==
    \/ /\ flow = "pubkey"
       /\ c.ins = "GET_PUBLIC_KEY" /\ c.p2 = 1
       /\ G_context.raw_public_key = PathReading[c.data].path
    \/ /\ flow \in {"review", "abort"}
       /\ c.ins = "SIGN_TX" /\ c.p1 > 1 /\ c.p2 = P2_LAST

\* The places where the thread can be, what G_io_state, G_output_len, the screen and
\* the outstanding command are there.
Starting == G_io_state = "READY" /\ pending = <<>> /\ G_output_len = 0 /\ flow \notin Questions
Answered ==
    /\ G_io_state = "READY" /\ G_output_len > 0 /\ flow \notin Questions
    /\ \E c \in Commands : pending = <<c>> /\ Fits(G_io_apdu_buffer, c)
Asking == flow \in Questions /\ \E c \in Commands : pending = <<c>> /\ AskedBy(c)

LockstepInv ==
    /\ AnswersItsCommand
    /\ QuestionIsContext
    /\ pc = "recv" => Starting \/ Answered \/ (G_io_state = "RECEIVED" /\ Asking)
    /\ pc = "sync" => G_io_state = "RECEIVED" /\ pending = <<>> /\ flow \notin Questions
    /\ pc = "async" =>
          \/ G_io_state = "READY" /\ pending = <<>> /\ flow \notin Questions
          \/ G_io_state = "WAITING" /\ Asking
    /\ pc = "dispatch" =>
          G_io_state = "RECEIVED" /\ pending = <<command>> /\ flow \notin Questions

LEMMA OneElement ==
    ASSUME NEW S, NEW c \in S
    PROVE  /\ Len(<<c>>) = 1 /\ Last(<<c>>) = c /\ <<c>> # <<>>
           /\ SubSeq(<<c>>, 1, 0) = <<>>
BY DEF Last

LEMMA TransmitAnswers ==
    ASSUME NEW STATE f, NEW c \in Commands, pending = <<c>>, Fits(f, c), Transmit(f)
    PROVE  AnswersItsCommand' /\ pending' = <<>>
<1>1. wire' = [frame |-> f, asked |-> <<c>>] /\ pending' = SubSeq(<<c>>, 1, Len(<<c>>) - 1)
  BY OneElement DEF Transmit
<1>2. wire'.frame = f /\ wire'.asked = <<c>>
  BY <1>1
<1>3. AnswersItsCommand'
  BY <1>2, OneElement DEF AnswersItsCommand, Fits
<1> QED
  BY <1>1, <1>3, OneElement

\* A handler that answers leaves the answer for io_recv_command to send.
LEMMA AnswerKeepsLockstep ==
    ASSUME TypeOK, LockstepInv, pc = "dispatch", NEW STATE body, NEW STATE sw,
           Fits(Response(body, sw), command), io_send_response(body, sw),
           pc' \in {"recv", IF G_io_state = "READY" THEN "boot" ELSE "recv"}, UNCHANGED uiVars
    PROVE  LockstepInv' /\ pc' = "recv"
<1>1. /\ G_io_state = "RECEIVED" /\ pending = <<command>> /\ flow \notin Questions
      /\ AnswersItsCommand /\ pc' = "recv"
  BY DEF LockstepInv
<1>2. /\ G_io_state' = "READY" /\ G_io_apdu_buffer' = Response(body, sw)
      /\ G_output_len' = DataLen(body) + 2 /\ UNCHANGED hostVars
  BY <1>1 DEF io_send_response
<1>3. DataLen(body) + 2 > 0
  BY DEF DataLen
<1>4. command \in Commands
  BY DEF TypeOK, CommandFrames, command
<1>5. pending' = <<command>> /\ Fits(G_io_apdu_buffer', command)
  BY <1>1, <1>2 DEF hostVars
<1>6. flow' \notin Questions
  BY <1>1 DEF uiVars
<1>7. Answered'
  BY <1>2, <1>3, <1>4, <1>5, <1>6 DEF Answered, Fits
<1>8. AnswersItsCommand' /\ QuestionIsContext'
  BY <1>1, <1>2, <1>6 DEF AnswersItsCommand, hostVars, QuestionIsContext, Questions, Fits, Last
<1> QED
  BY <1>1, <1>7, <1>8 DEF LockstepInv

\* A refusal fits every command.
LEMMA RefusalFits ==
    ASSUME NEW sw, NEW c, NEW body \in {NoBody, StatusBody}, sw # "SW_OK"
    PROVE  Fits(Response(body, sw), c)
BY DEF Fits, Response, NoBody, StatusBody

\* A question leaves the command outstanding.
LEMMA QuestionKeepsLockstep ==
    ASSUME TypeOK, LockstepInv, pc = "dispatch", pc' = "recv",
           UNCHANGED <<G_io_state, hostVars>>, flow' \in Questions,
           AskedBy(command)', UNCHANGED command, QuestionIsContext'
    PROVE  LockstepInv'
<1>1. G_io_state' = "RECEIVED" /\ pending' = <<command>> /\ AnswersItsCommand'
  BY DEF LockstepInv, hostVars, AnswersItsCommand, Fits, Last
<1>2. command \in Commands
  BY DEF TypeOK, CommandFrames, command
<1>3. Asking'
  BY <1>1, <1>2 DEF Asking
<1> QED
  BY <1>1, <1>3 DEF LockstepInv

LEMMA LockstepInit == Init => LockstepInv
BY DEF Init, LockstepInv, AnswersItsCommand, QuestionIsContext, NoFrame

LEMMA DeviceKeepsLockstep ==
    AwaitsAnswers /\ TypeOK /\ LockstepInv /\ Device =>
        LockstepInv' /\ (pc \in {"recv", "dispatch"} => pc' # "boot")
<1> SUFFICES ASSUME AwaitsAnswers, TypeOK, LockstepInv, Device
             PROVE  LockstepInv' /\ (pc \in {"recv", "dispatch"} => pc' # "boot")
  OBVIOUS
<1>1. CASE Boot
  BY <1>1 DEF Boot, ClearState, ui_menu_main, LockstepInv, AnswersItsCommand, QuestionIsContext, Starting,
              Questions, NoFrame
<1>2. CASE BootFails
  BY <1>2 DEF BootFails, app_exit, ClearState, LockstepInv, AnswersItsCommand, QuestionIsContext, NoFrame
<1>3. CASE io_recv_command
  <2>0. /\ pc = "recv" /\ QuestionIsContext'
        /\ UNCHANGED <<G_output_len, G_io_apdu_buffer, G_context, flow, shown>>
    BY <1>3 DEF io_recv_command, uiVars, LockstepInv, QuestionIsContext
  <2>1. CASE Starting
    <3>1. pc' = "sync" /\ G_io_state' = "RECEIVED" /\ UNCHANGED hostVars
      BY <1>3, <2>1 DEF io_recv_command, Starting
    <3>2. QED
      BY <2>0, <2>1, <3>1
      DEF LockstepInv, Starting, hostVars, AnswersItsCommand, Fits, Last
  <2>2. CASE Answered
    <3>1. PICK c \in Commands : pending = <<c>> /\ Fits(G_io_apdu_buffer, c)
      BY <2>2 DEF Answered
    <3>2. pc' = "sync" /\ G_io_state' = "RECEIVED" /\ Transmit(G_io_apdu_buffer)
      BY <1>3, <2>2 DEF io_recv_command, Answered
    <3>3. AnswersItsCommand' /\ pending' = <<>>
      BY <3>1, <3>2, TransmitAnswers
    <3>4. QED
      BY <2>0, <2>2, <3>2, <3>3 DEF LockstepInv, Answered
  <2>3. CASE G_io_state = "RECEIVED" /\ Asking
    <3>1. pc' = "async" /\ G_io_state' = "WAITING" /\ UNCHANGED hostVars
      BY <1>3, <2>3 DEF io_recv_command
    <3>2. Asking'
      BY <2>0, <2>3, <3>1 DEF Asking, AskedBy, hostVars
    <3>3. QED
      BY <2>0, <3>1, <3>2 DEF LockstepInv, hostVars, AnswersItsCommand, Fits, Last
  <2>4. QED
    BY <2>0, <2>1, <2>2, <2>3 DEF LockstepInv
<1>4. CASE ParserRefuses
  <2>1. /\ pc = "dispatch" /\ io_send_response(NoBody, "SW_WRONG_DATA_LENGTH")
        /\ pc' = "recv" /\ UNCHANGED uiVars
    BY <1>4 DEF ParserRefuses, io_send_sw
  <2>2. Fits(Response(NoBody, "SW_WRONG_DATA_LENGTH"), command)
    BY RefusalFits
  <2>3. QED
    BY <2>1, <2>2, AnswerKeepsLockstep
<1>5. CASE DispatcherRefuses
  <2> DEFINE sw == Refusal(command)
  <2>1. /\ pc = "dispatch" /\ io_send_response(NoBody, sw)
        /\ pc' = IF G_io_state = "READY" THEN "boot" ELSE "recv"
        /\ UNCHANGED uiVars
    BY <1>5 DEF DispatcherRefuses, Answer
  <2>2. sw # "SW_OK"
    BY DEF Refusal
  <2> HIDE DEF sw
  <2>3. Fits(Response(NoBody, sw), command)
    BY <2>2 DEF Fits, Response, NoBody
  <2>4. QED
    BY <2>1, <2>3, AnswerKeepsLockstep
<1>6. CASE handler_get_version
  <2>1. Fits(Response(VersionBody, "SW_OK"), command)
    BY <1>6 DEF handler_get_version, Handling, Fits, Response, VersionBody, Success
  <2>2. QED
    BY <1>6, <2>1, AnswerKeepsLockstep DEF handler_get_version, Handling, Answer
<1>7. CASE handler_get_app_name
  <2>1. Fits(Response(NameBody, "SW_OK"), command)
    BY <1>7 DEF handler_get_app_name, Handling, Fits, Response, NameBody, Success
  <2>2. QED
    BY <1>7, <2>1, AnswerKeepsLockstep DEF handler_get_app_name, Handling, Answer
<1>8. CASE handler_get_public_key
  <2> DEFINE d == command.data
  <2>1. CASE PathRefused
    <3> DEFINE sw == PathReading[d].status
    <3>1. /\ pc = "dispatch" /\ io_send_response(NoBody, sw) /\ sw # "SW_OK"
          /\ pc' = IF G_io_state = "READY" THEN "boot" ELSE "recv"
          /\ UNCHANGED uiVars
      BY <2>1 DEF PathRefused, Handling, Answer
    <3> HIDE DEF sw
    <3>2. Fits(Response(NoBody, sw), command)
      BY <3>1 DEF Fits, Response, NoBody
    <3>3. QED
      BY <3>1, <3>2, AnswerKeepsLockstep
  <2>2. ~DeriveThrows
    BY DEF DeriveThrows, AwaitsAnswers
  <2>3. CASE KeyReturned
    <3> DEFINE body == PubkeyBody(PathReading[d].path)
    <3>1. /\ pc = "dispatch" /\ io_send_response(body, "SW_OK")
          /\ pc' = IF G_io_state = "READY" THEN "boot" ELSE "recv"
          /\ UNCHANGED uiVars
      BY <2>3 DEF KeyReturned, KeyHandled, Handling, Answer
    <3>2. Fits(Response(body, "SW_OK"), command)
      BY <2>3 DEF KeyReturned, KeyHandled, Handling, Fits, Response, PubkeyBody, Success
    <3> HIDE DEF body
    <3>3. QED
      BY <3>1, <3>2, AnswerKeepsLockstep
  <2>4. CASE KeyDisplayed
    <3> DEFINE ctx == DerivedContext(d)
    <3>1. /\ pc = "dispatch" /\ command.ins = "GET_PUBLIC_KEY" /\ d \in Payload
          /\ command.p2 = 1 /\ ui_display_address(ctx)
      <4>1. /\ pc = "dispatch" /\ command.ins = "GET_PUBLIC_KEY" /\ Refusal(command) = ""
            /\ command.p2 # 0 /\ ui_display_address(ctx)
        BY <2>4 DEF KeyDisplayed, KeyHandled, Handling, ShowOnScreen
      <4>2. d # NoData
        BY <4>1, HandledData
      <4>3. ~(command.p2 > 1)
        BY <4>1 DEF Refusal
      <4>4. command.p2 \in 0..255
        BY <4>1, DispatchedCommand DEF CommandShape
      <4>5. command.p2 = 1
        <5>1. \A n \in 0..255 : n # 0 /\ ~(n > 1) => n = 1
          OBVIOUS
        <5>2. QED
          BY <4>1, <4>3, <4>4, <5>1
      <4>6. d \in Payload
        BY <4>1, <4>2, ReadTypes
      <4>7. QED
        BY <4>1, <4>5, <4>6
    <3>2. /\ ctx.req_type = "CONFIRM_ADDRESS" /\ ctx.state = "STATE_NONE"
          /\ ctx.raw_public_key = PathReading[d].path
      BY DEF DerivedContext, KeyContext, ZeroContext
    <3> HIDE DEF ctx
    <3>3. /\ G_context' = ctx /\ shown' = AddressShown(ctx.raw_public_key)
          /\ flow' = "pubkey" /\ pc' = "recv"
          /\ UNCHANGED <<G_io_state, G_io_apdu_buffer, hostVars>>
      BY <3>1, <3>2 DEF ui_display_address, ShowAddress
    <3>4. UNCHANGED command
      BY <3>3 DEF command
    <3>5. AskedBy(command)' /\ QuestionIsContext' /\ flow' \in Questions
      BY <3>1, <3>2, <3>3, <3>4 DEF AskedBy, QuestionIsContext, Questions
    <3>6. QED
      BY <3>1, <3>3, <3>4, <3>5, QuestionKeepsLockstep
  <2>5. QED
    BY <1>8, <2>1, <2>2, <2>3, <2>4 DEF handler_get_public_key
<1>9. CASE handler_sign_tx
  <2> DEFINE d == command.data
  <2>1. CASE SignPath
    <3> DEFINE sw == PathReading[d].status
    <3>1. /\ pc = "dispatch" /\ io_send_response(NoBody, sw)
          /\ pc' = IF G_io_state = "READY" THEN "boot" ELSE "recv"
          /\ UNCHANGED uiVars /\ command.ins = "SIGN_TX" /\ command.p1 = 0
      BY <2>1 DEF SignPath, Handling, Answer
    <3>2. Fits(Response(NoBody, sw), command)
      BY <3>1 DEF Fits, Response, NoBody, Success
    <3> HIDE DEF sw
    <3>3. QED
      BY <3>1, <3>2, AnswerKeepsLockstep
  <2>2. CASE MagicRefused
    BY <2>2, RefusalFits, AnswerKeepsLockstep DEF MagicRefused, Handling, Answer
  <2>3. CASE SignMagic
    <3> DEFINE sw == IF MagicReading[d].ok THEN "SW_OK" ELSE "SW_MAGIC_PARSING_FAIL"
    <3>1. /\ pc = "dispatch" /\ io_send_response(NoBody, sw)
          /\ pc' = IF G_io_state = "READY" THEN "boot" ELSE "recv"
          /\ UNCHANGED uiVars /\ command.ins = "SIGN_TX" /\ command.p1 = 1
      BY <2>3 DEF SignMagic, Handling, Answer
    <3>2. Fits(Response(NoBody, sw), command)
      BY <3>1 DEF Fits, Response, NoBody, Success
    <3> HIDE DEF sw
    <3>3. QED
      BY <3>1, <3>2, AnswerKeepsLockstep
  <2>4. CASE DataRefused
    <3> DEFINE sw == IF DataOutOfOrder(G_context) THEN "SW_BAD_STATE" ELSE "SW_WRONG_TX_LENGTH"
    <3>1. /\ pc = "dispatch" /\ io_send_response(NoBody, sw) /\ sw # "SW_OK"
          /\ pc' = IF G_io_state = "READY" THEN "boot" ELSE "recv"
          /\ UNCHANGED uiVars
      BY <2>4 DEF DataRefused, SigningData, Handling, Answer
    <3> HIDE DEF sw
    <3>2. Fits(Response(NoBody, sw), command)
      BY <3>1 DEF Fits, Response, NoBody
    <3>3. QED
      BY <3>1, <3>2, AnswerKeepsLockstep
  <2>5. CASE SignMore
    <3>0. command.ins = "SIGN_TX" /\ command.p2 # P2_LAST
      <4>1. command.ins = "SIGN_TX" /\ command.p2 = P2_MORE
        BY <2>5 DEF SignMore, DataAccepted, SigningData, Handling
      <4>2. P2_MORE # P2_LAST
        BY DEF P2_MORE, P2_LAST
      <4>3. QED
        BY <4>1, <4>2
    <3>1. Fits(Response(NoBody, "SW_OK"), command)
      BY <3>0 DEF Fits, Response, NoBody, Success
    <3>2. QED
      BY <2>5, <3>1, AnswerKeepsLockstep DEF SignMore, DataAccepted, SigningData, Handling, Answer
  <2>6. CASE SignParseFails
    <3>1. Fits(Response(StatusBody, "SW_TX_PARSING_FAIL"), command)
      BY RefusalFits
    <3>2. QED
      BY <2>6, <3>1, AnswerKeepsLockstep
      DEF SignParseFails, DataAccepted, SigningData, Handling, Answer
  <2>7. CASE SignLast
    <3>0. /\ pc = "dispatch" /\ command.ins = "SIGN_TX" /\ command.p1 > 1 /\ command.p2 = P2_LAST
          /\ d \in Payload
      <4>1. /\ pc = "dispatch" /\ command.ins = "SIGN_TX" /\ command.p1 > 1
            /\ command.p2 = P2_LAST /\ Refusal(command) = ""
        BY <2>7 DEF SignLast, DataAccepted, SigningData, Handling
      <4>2. d # NoData
        BY <4>1, HandledData
      <4>3. d \in Payload
        BY <4>1, <4>2, ReadTypes
      <4>4. QED
        BY <4>1, <4>3
    <3>1. PICK t \in {G_context.is_transfer, TRUE}, format \in FormatOutcomes :
             ui_display_transaction(ParsedContext(G_context, d, t), format)
      BY <2>7 DEF SignLast
    <3> DEFINE ctx == ParsedContext(G_context, d, t)
    <3>2. ui_display_transaction(ctx, format)
      BY <3>1
    <3>3. /\ ctx.hash = ctx.raw_tx /\ ctx.is_transfer = t /\ t \in BOOLEAN
      BY <3>1 DEF ParsedContext, AppendRaw, TypeOK, Contexts
    <3> HIDE DEF ctx
    <3>4. CASE \E sw \in {format, "SW_BAD_STATE"} :
                 Answer(NoBody, sw) /\ UNCHANGED uiVars /\ sw # "SW_OK"
      <4>1. PICK sw \in {format, "SW_BAD_STATE"} :
                  Answer(NoBody, sw) /\ UNCHANGED uiVars /\ sw # "SW_OK"
        BY <3>4
      <4>2. Fits(Response(NoBody, sw), command)
        BY <4>1 DEF Fits, Response, NoBody
      <4>3. QED
        BY <3>0, <4>1, <4>2, AnswerKeepsLockstep DEF Answer
    <3>5. CASE /\ ctx.req_type = "CONFIRM_TRANSACTION" /\ ctx.state = "STATE_PARSED"
               /\ format = "SW_OK"
      <4>1. /\ G_context' = ctx /\ shown' = Reviewed(ctx) /\ pc' = "recv"
            /\ flow' = (IF ctx.is_transfer THEN "review" ELSE "abort")
            /\ UNCHANGED <<G_io_state, G_io_apdu_buffer, hostVars>>
        BY <3>2, <3>5 DEF ui_display_transaction, ShowTransaction
      <4>2. UNCHANGED command
        BY <4>1 DEF command
      <4>3. flow' \in {"review", "abort"}
        BY <4>1
      <4>4. AskedBy(command)' /\ flow' \in Questions
        BY <3>0, <4>2, <4>3 DEF AskedBy, Questions
      <4>5. QuestionIsContext'
        BY <3>3, <3>5, <4>1 DEF QuestionIsContext, Reviewed
      <4>6. QED
        BY <3>0, <4>1, <4>2, <4>4, <4>5, QuestionKeepsLockstep
    <3>6. QED
      BY <3>2, <3>4, <3>5 DEF ui_display_transaction, ShowTransaction
  <2>8. QED
    BY <1>9, <2>1, <2>2, <2>3, <2>4, <2>5, <2>6, <2>7 DEF handler_sign_tx
<1> QED
  BY <1>1, <1>2, <1>3, <1>4, <1>5, <1>6, <1>7, <1>8, <1>9 DEF Device

\* A decision answers the command that led to the question.
LEMMA DecisionKeepsLockstep ==
    ASSUME TypeOK, LockstepInv, Blocked, flow \in Questions,
           NEW STATE body, NEW STATE sw,
           \A c \in Commands : AskedBy(c) => Fits(Response(body, sw), c),
           io_send_response(body, sw), ui_menu_main, UNCHANGED pc
    PROVE  LockstepInv'
<1>1. pc = "async" /\ G_io_state = "WAITING" /\ Asking
  BY DEF LockstepInv, Blocked
<1>2. PICK c \in Commands : pending = <<c>> /\ AskedBy(c)
  BY <1>1 DEF Asking
<1>3. Transmit(Response(body, sw)) /\ G_io_state' = "READY"
  BY <1>1 DEF io_send_response
<1>4. AnswersItsCommand' /\ pending' = <<>>
  BY <1>2, <1>3, TransmitAnswers
<1>5. flow' \notin Questions /\ QuestionIsContext'
  BY DEF ui_menu_main, Questions, QuestionIsContext
<1> QED
  BY <1>1, <1>3, <1>4, <1>5 DEF LockstepInv

LEMMA UserKeepsLockstep == AwaitsAnswers /\ TypeOK /\ ConsentInv /\ LockstepInv /\ User => LockstepInv'
<1> SUFFICES ASSUME AwaitsAnswers, TypeOK, ConsentInv, LockstepInv, User PROVE LockstepInv'
  OBVIOUS
<1>1. ASSUME NEW approved \in BOOLEAN, ui_action_validate_pubkey(approved)
      PROVE  LockstepInv'
  <2>1. /\ Blocked /\ flow = "pubkey" /\ flow \in Questions
        /\ ui_menu_main /\ UNCHANGED pc
    BY <1>1 DEF ui_action_validate_pubkey, CanPress, Questions, ConsentInv, ScreenHasItsCallback
  <2>2. CASE approved
    <3> DEFINE body == PubkeyBody(G_context.raw_public_key)
    <3>1. io_send_response(body, "SW_OK")
      BY <1>1, <2>2 DEF ui_action_validate_pubkey, helper_send_response_pubkey
    <3>2. \A c \in Commands : AskedBy(c) => Fits(Response(body, "SW_OK"), c)
      BY <2>1 DEF AskedBy, Fits, Response, PubkeyBody, Success
    <3> HIDE DEF body
    <3>3. QED
      BY <2>1, <3>1, <3>2, DecisionKeepsLockstep
  <2>3. CASE ~approved
    <3>1. io_send_response(NoBody, "SW_DENY")
      BY <1>1, <2>3 DEF ui_action_validate_pubkey, io_send_sw
    <3>2. QED
      BY <2>1, <3>1, RefusalFits, DecisionKeepsLockstep
  <2>4. QED
    BY <2>2, <2>3
<1>2. ASSUME NEW outcome \in CryptoOutcomes \ {"throws"}, ApproveTransaction(outcome)
      PROVE  LockstepInv'
  <2>1. /\ Blocked /\ flow = "review" /\ flow \in Questions
        /\ ui_menu_main /\ UNCHANGED pc
    BY <1>2 DEF ApproveTransaction, CanPress, Questions, ConsentInv, ScreenHasItsCallback
  <2>2. CASE outcome = "ok"
    <3> DEFINE sig == Signature(G_context)
    <3>1. io_send_response(sig, "SW_OK")
      BY <1>2, <2>2 DEF ApproveTransaction
    <3>2. sig.is = "signature"
      BY DEF Signature, SignatureBody
    <3> HIDE DEF sig
    <3>3. \A c \in Commands : AskedBy(c) => Fits(Response(sig, "SW_OK"), c)
      BY <2>1, <3>2 DEF AskedBy, Fits, Response, Success
    <3>4. QED
      BY <2>1, <3>1, <3>3, DecisionKeepsLockstep
  <2>3. CASE outcome # "ok"
    <3>1. io_send_response(NoBody, "SW_SIGN_FAIL")
      BY <1>2, <2>3 DEF ApproveTransaction, io_send_sw
    <3>2. QED
      BY <2>1, <3>1, RefusalFits, DecisionKeepsLockstep
  <2>4. QED
    BY <2>2, <2>3
<1>3. ~("throws" \in CryptoOutcomes /\ SignThrows)
  BY DEF AwaitsAnswers
<1>4. CASE RejectTransaction
  <2>1. /\ Blocked /\ flow \in Questions /\ ui_menu_main /\ UNCHANGED pc
        /\ io_send_response(NoBody, "SW_DENY")
    BY <1>4 DEF RejectTransaction, CanPress, Questions, io_send_sw
  <2>2. QED
    BY <2>1, RefusalFits, DecisionKeepsLockstep
<1>5. CASE ui_menu_about \/ MenuBack
  <2>1. /\ Blocked /\ flow \notin Questions /\ flow' \notin Questions
        /\ UNCHANGED <<ctlVars, G_context, hostVars>>
    BY <1>5 DEF ui_menu_about, MenuBack, ui_menu_main, Questions
  <2>2. QuestionIsContext' /\ AnswersItsCommand'
    BY <2>1 DEF Questions, QuestionIsContext, LockstepInv, hostVars, AnswersItsCommand, Fits, Last
  <2>3. QED
    BY <2>1, <2>2 DEF LockstepInv, Blocked, Asking, ctlVars, hostVars
<1>6. CASE Quit
  BY <1>6 DEF Quit, app_exit, ClearState, LockstepInv, AnswersItsCommand, QuestionIsContext, NoFrame
<1>7. CASE Launch
  BY <1>7 DEF Launch, uiVars, hostVars, LockstepInv, AnswersItsCommand, QuestionIsContext, Fits, Last
<1> QED
  BY <1>1, <1>2, <1>3, <1>4, <1>5, <1>6, <1>7 DEF User

LEMMA HostKeepsLockstep == AwaitsAnswers /\ TypeOK /\ LockstepInv /\ Host => LockstepInv'
<1> SUFFICES ASSUME AwaitsAnswers, TypeOK, LockstepInv, Host PROVE LockstepInv'
  OBVIOUS
<1>1. ASSUME NEW c \in Commands, Deliver(c)
      PROVE  LockstepInv'
  <2>1. Blocked /\ pending = <<>>
    <3>1. Blocked /\ Len(pending) < 1
      BY <1>1 DEF Deliver, AwaitsAnswers
    <3>2. QED
      BY <3>1 DEF TypeOK
  <2>2. flow \notin Questions /\ G_io_state' = "RECEIVED"
    BY <1>1, <2>1, OneElement DEF Deliver, StateOnReturn, Blocked, LockstepInv, Asking
  <2>3. pending' = <<c>> /\ command' = c /\ pc' = "dispatch" /\ UNCHANGED flow
    BY <1>1, <2>1 DEF Deliver, CommandFrame, command
  <2>4. AnswersItsCommand' /\ QuestionIsContext'
    BY <1>1, <2>2, <2>3 DEF Deliver, AnswersItsCommand, NoFrame, QuestionIsContext, Questions
  <2>5. QED
    BY <2>2, <2>3, <2>4 DEF LockstepInv
<1>2. CASE UsbReset
  BY <1>2 DEF UsbReset, uiVars, hostVars, LockstepInv, AnswersItsCommand, QuestionIsContext,
              Fits, Last
<1> QED
  BY <1>1, <1>2 DEF Host

LEMMA StutterKeepsLockstep == LockstepInv /\ UNCHANGED vars => LockstepInv'
BY DEF vars, ctlVars, uiVars, hostVars, LockstepInv, AnswersItsCommand, QuestionIsContext,
       Starting, Answered, Asking, AskedBy, Fits, Last, command

\* The inductive invariant holds as long as the host awaits each answer.
THEOREM LockstepInvariant == AwaitsAnswers => (Spec => []LockstepInv)
<1> SUFFICES ASSUME AwaitsAnswers PROVE Spec => []LockstepInv
  OBVIOUS
<1>1. TypeOK /\ ConsentInv /\ LockstepInv /\ [Next]_vars => LockstepInv'
  BY DeviceKeepsLockstep, UserKeepsLockstep, HostKeepsLockstep, StutterKeepsLockstep DEF Next
<1>2. QED
  BY <1>1, LockstepInit, TypeCorrect, ConsentInvariant, PTL DEF Spec

\* Every transmission answers exactly one command, with a result of that command.
THEOREM EveryAnswerFits == AwaitsAnswers => (Spec => []AnswersItsCommand)
<1> SUFFICES ASSUME AwaitsAnswers PROVE Spec => []AnswersItsCommand
  OBVIOUS
<1>1. LockstepInv => AnswersItsCommand
  BY DEF LockstepInv
<1>2. QED
  BY <1>1, LockstepInvariant, PTL

\* The device leaves a command unanswered only to ask the user, with G_io_state set
\* for the callback to transmit.
THEOREM WaitingMeansAsking == AwaitsAnswers => (Spec => []WaitsOnlyForUser)
<1> SUFFICES ASSUME AwaitsAnswers PROVE Spec => []WaitsOnlyForUser
  OBVIOUS
<1>1. LockstepInv => WaitsOnlyForUser
  <2>1. Asking => pending # <<>> /\ flow \in Questions
    BY OneElement DEF Asking
  <2>2. QED
    BY <2>1 DEF LockstepInv, WaitsOnlyForUser, Blocked
<1>2. QED
  BY <1>1, LockstepInvariant, PTL

\* What an approval would sign or return is what the screen shows.
THEOREM ScreenIsContext == AwaitsAnswers => (Spec => []QuestionIsContext)
<1> SUFFICES ASSUME AwaitsAnswers PROVE Spec => []QuestionIsContext
  OBVIOUS
<1>1. LockstepInv => QuestionIsContext
  BY DEF LockstepInv
<1>2. QED
  BY <1>1, LockstepInvariant, PTL

\* Neither io_recv_command nor a handler ever makes app_main return.
THEOREM AppMainKeepsRunning == AwaitsAnswers => (Spec => NeverGivesUp)
<1> SUFFICES ASSUME AwaitsAnswers PROVE Spec => NeverGivesUp
  OBVIOUS
<1>1. TypeOK /\ ConsentInv /\ LockstepInv /\ [Next]_vars =>
         [pc' = "boot" => pc \notin {"recv", "dispatch"}]_vars
  <2> SUFFICES ASSUME TypeOK, ConsentInv, LockstepInv, Next, pc' = "boot"
               PROVE  pc \notin {"recv", "dispatch"}
    OBVIOUS
  <2>1. CASE Device
    BY <2>1, DeviceKeepsLockstep
  <2>2. CASE User
    BY <2>2 DEF User, ui_action_validate_pubkey, ApproveTransaction, SignThrows,
                RejectTransaction, CanPress, Blocked, ui_menu_about, MenuBack, Quit, Launch
  <2>3. CASE Host
    BY <2>3 DEF Host, Deliver, UsbReset, Blocked
  <2>4. QED
    BY <2>1, <2>2, <2>3 DEF Next
<1>2. QED
  BY <1>1, TypeCorrect, ConsentInvariant, LockstepInvariant, PTL DEF Spec, NeverGivesUp

=============================================================================
