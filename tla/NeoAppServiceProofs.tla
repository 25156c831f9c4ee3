------------------------ MODULE NeoAppServiceProofs ------------------------
(* NeoApp implements ConsentService, for a host that awaits each answer and a *)
(* crypto library that does not throw: every step of the application is a step *)
(* of the service or leaves it alone.                                          *)
EXTENDS NeoAppService, NeoAppProofs

\* A response a handler may give without asking the user.
NeedsNoUser(f, c) == f.body.is # "signature" /\ (f.body.is = "pubkey" => c.p2 = 0)

\* What the mapping needs beyond LockstepInv: a response that waits for io_recv_command
\* is not one the user has to be asked for.
StoredNeedsNoUser ==
    pc = "recv" /\ G_io_state = "READY" =>
        \A c \in Commands : pending = <<c>> => NeedsNoUser(G_io_apdu_buffer, c)

ServiceInv == TypeOK /\ ConsentInv /\ LockstepInv /\ StoredNeedsNoUser

\* The responses a handler builds in the buffer and leaves for io_recv_command.
LEMMA StoredResponse ==
    ASSUME LockstepInv, pc = "dispatch", NEW STATE body, NEW STATE sw,
           io_send_response(body, sw), body.is # "signature",
           body.is = "pubkey" => command.p2 = 0,
           pc' \in {"recv", IF G_io_state = "READY" THEN "boot" ELSE "recv"}
    PROVE  /\ pc' = "recv" /\ G_io_state' = "READY" /\ UNCHANGED hostVars
           /\ NeedsNoUser(G_io_apdu_buffer', command)
BY DEF LockstepInv, io_send_response, Response, NeedsNoUser

\* A handler answers or asks, and the command is open after it as before.
LEMMA HandlerAnswersOrAsks ==
    ASSUME AwaitsAnswers, TypeOK, LockstepInv, pc = "dispatch", Device
    PROVE  /\ UNCHANGED hostVars /\ pc' = "recv"
           /\ \/ /\ G_io_state' = "READY" /\ UNCHANGED uiVars
                 /\ NeedsNoUser(G_io_apdu_buffer', command)
              \/ /\ G_io_state' = G_io_state /\ flow' \in Questions
                 /\ AsksUser(command, shown')
<1> DEFINE Result ==
       /\ UNCHANGED hostVars /\ pc' = "recv"
       /\ \/ /\ G_io_state' = "READY" /\ UNCHANGED uiVars
             /\ NeedsNoUser(G_io_apdu_buffer', command)
          \/ /\ G_io_state' = G_io_state /\ flow' \in Questions
             /\ AsksUser(command, shown')
<1>1. ASSUME NEW sw, NEW body \in {NoBody, StatusBody, VersionBody, NameBody},
             io_send_response(body, sw), UNCHANGED uiVars,
             pc' \in {"recv", IF G_io_state = "READY" THEN "boot" ELSE "recv"}
      PROVE  Result
  <2>1. body.is # "signature" /\ body.is # "pubkey"
    BY DEF NoBody, StatusBody, VersionBody, NameBody
  <2>2. QED
    BY <1>1, <2>1, StoredResponse
<1>2. ~Boot /\ ~BootFails /\ ~io_recv_command
  BY DEF Boot, BootFails, io_recv_command
<1>3. CASE ParserRefuses \/ DispatcherRefuses \/ handler_get_version \/ handler_get_app_name
  BY <1>1, <1>3 DEF ParserRefuses, DispatcherRefuses, handler_get_version, handler_get_app_name,
                    Answer, io_send_sw
<1>4. CASE handler_get_public_key
  <2> DEFINE key == PathReading[command.data].path
  <2>1. CASE PathRefused
    BY <1>1, <2>1 DEF PathRefused, Answer
  <2>2. ~DeriveThrows
    BY DEF DeriveThrows, AwaitsAnswers
  <2>3. CASE KeyReturned
    <3>1. /\ command.p2 = 0 /\ io_send_response(PubkeyBody(key), "SW_OK") /\ UNCHANGED uiVars
          /\ pc' = IF G_io_state = "READY" THEN "boot" ELSE "recv"
      BY <2>3 DEF KeyReturned, ShowOnScreen, Answer
    <3>2. PubkeyBody(key).is # "signature"
      BY DEF PubkeyBody
    <3>3. QED
      BY <3>1, <3>2, StoredResponse
  <2>4. CASE KeyDisplayed
    <3>1. /\ command.ins = "GET_PUBLIC_KEY" /\ command.p2 = 1
          /\ ui_display_address(DerivedContext(command.data))
      <4>1. /\ command.ins = "GET_PUBLIC_KEY" /\ Refusal(command) = "" /\ command.p2 # 0
            /\ ui_display_address(DerivedContext(command.data))
        BY <2>4 DEF KeyDisplayed, KeyHandled, Handling, ShowOnScreen
      <4>2. ~(command.p2 > 1)
        BY <4>1 DEF Refusal
      <4>3. command.p2 \in 0..255
        BY DispatchedCommand DEF CommandShape
      <4>4. \A n \in 0..255 : n # 0 /\ ~(n > 1) => n = 1
        OBVIOUS
      <4>5. QED
        BY <4>1, <4>2, <4>3, <4>4
    <3>2. /\ DerivedContext(command.data).req_type = "CONFIRM_ADDRESS"
          /\ DerivedContext(command.data).state = "STATE_NONE"
          /\ DerivedContext(command.data).raw_public_key = key
      BY DEF DerivedContext, KeyContext, ZeroContext
    <3>3. /\ shown' = AddressShown(key) /\ flow' = "pubkey" /\ pc' = "recv"
          /\ UNCHANGED <<G_io_state, hostVars>>
      BY <3>1, <3>2 DEF ui_display_address, ShowAddress
    <3>4. QED
      BY <3>1, <3>3 DEF AsksUser, Questions
  <2>5. QED
    BY <1>4, <2>1, <2>2, <2>3, <2>4 DEF handler_get_public_key
<1>5. CASE handler_sign_tx
  <2>1. CASE SignPath \/ MagicRefused \/ SignMagic \/ DataRefused \/ SignMore \/ SignParseFails
    BY <1>1, <2>1 DEF SignPath, MagicRefused, SignMagic, DataRefused, SignMore, SignParseFails, Answer
  <2>2. CASE SignLast
    <3>1. PICK t \in {G_context.is_transfer, TRUE}, format \in FormatOutcomes :
             ui_display_transaction(ParsedContext(G_context, command.data, t), format)
      BY <2>2 DEF SignLast
    <3> DEFINE ctx == ParsedContext(G_context, command.data, t)
    <3>2. command.ins = "SIGN_TX" /\ command.p1 > 1 /\ command.p2 = P2_LAST
      BY <2>2 DEF SignLast, DataAccepted, SigningData, Handling
    <3> HIDE DEF ctx
    <3>3. CASE \E sw \in {format, "SW_BAD_STATE"} : Answer(NoBody, sw) /\ UNCHANGED uiVars
      BY <1>1, <3>3 DEF Answer
    <3>4. CASE /\ shown' = Reviewed(ctx) /\ flow' = (IF ctx.is_transfer THEN "review" ELSE "abort")
               /\ pc' = "recv" /\ UNCHANGED <<G_io_state, hostVars>>
      <4>1. shown'.kind \in {"transfer", "unsupported"}
        BY <3>4 DEF Reviewed, TransferShown, UnsupportedShown
      <4>2. QED
        BY <3>2, <3>4, <4>1 DEF AsksUser, Questions
    <3>5. ui_display_transaction(ctx, format)
      BY <3>1 DEF ctx
    <3>6. QED
      BY <3>3, <3>4, <3>5 DEF ui_display_transaction, ShowTransaction
  <2>3. QED
    BY <1>5, <2>1, <2>2 DEF handler_sign_tx
<1> QED
  BY <1>2, <1>3, <1>4, <1>5 DEF Device
-----------------------------------------------------------------------------
(* The bars at each kind of place. *)

LEMMA OffBars ==
    ASSUME pc \in {"boot", "exited"}
    PROVE  phaseBar = "off" /\ requestBar = Nothing /\ questionBar = Nothing /\ answerBar = Nothing
BY DEF phaseBar, requestBar, questionBar, answerBar

LEMMA IdleBars ==
    ASSUME pc \notin {"boot", "exited"}, pending = <<>>
    PROVE  /\ phaseBar = "idle" /\ requestBar = Nothing /\ questionBar = Nothing
           /\ answerBar = IF wire.frame = NoFrame THEN Nothing ELSE wire.frame
BY DEF phaseBar, requestBar, questionBar, answerBar

LEMMA WorkingBars ==
    ASSUME pc \notin {"boot", "exited"}, NEW c \in Commands, pending = <<c>>, flow \notin Questions
    PROVE  /\ phaseBar = "working" /\ requestBar = c /\ questionBar = Nothing
           /\ answerBar = IF wire.frame = NoFrame THEN Nothing ELSE wire.frame
BY DEF phaseBar, requestBar, questionBar, answerBar

LEMMA AskingBars ==
    ASSUME pc \notin {"boot", "exited"}, NEW c \in Commands, pending = <<c>>, flow \in Questions
    PROVE  /\ phaseBar = "asking" /\ requestBar = c /\ questionBar = shown
           /\ answerBar = IF wire.frame = NoFrame THEN Nothing ELSE wire.frame
BY DEF phaseBar, requestBar, questionBar, answerBar

\* Steps that do not touch what the mapping is made from.
LEMMA SameBars ==
    ASSUME UNCHANGED <<pending, wire, flow, shown>>,
           pc \in {"boot", "exited"} <=> pc' \in {"boot", "exited"}
    PROVE  UNCHANGED Service!vars
BY DEF phaseBar, requestBar, questionBar, answerBar, Service!vars

LEMMA BarsInit == Init => Service!Init
BY OffBars DEF Init, Service!Init

-----------------------------------------------------------------------------
(* The steps. *)

\* A handler runs where a command was received.
LEMMA DevicePlaces == Device => pc = "dispatch" \/ Boot \/ BootFails \/ io_recv_command
BY DEF Device, ParserRefuses, DispatcherRefuses, handler_get_version, handler_get_app_name,
       handler_get_public_key, PathRefused, DeriveThrows, KeyReturned, KeyDisplayed, KeyHandled,
       handler_sign_tx, SignPath, MagicRefused, SignMagic, DataRefused, SignMore, SignParseFails,
       SignLast, DataAccepted, SigningData, Handling

\* Each step of the device is one of the service.
LEMMA DeviceIsService ==
    ASSUME AwaitsAnswers, ServiceInv, LockstepInv', Device
    PROVE  Service!Next \/ UNCHANGED Service!vars
<1>0. TypeOK /\ LockstepInv
  BY DEF ServiceInv
<1>1. CASE Boot
  <2>1. /\ pc = "boot" /\ pc' \notin {"boot", "exited"} /\ pending' = <<>>
        /\ wire'.frame = NoFrame
    BY <1>1 DEF Boot
  <2>2. /\ phaseBar = "off" /\ requestBar = Nothing /\ questionBar = Nothing /\ answerBar = Nothing
    BY <2>1, OffBars
  <2>3. /\ phaseBar' = "idle" /\ requestBar' = Nothing /\ questionBar' = Nothing
        /\ answerBar' = Nothing
    BY <2>1 DEF phaseBar, requestBar, questionBar, answerBar
  <2>4. QED
    BY <2>2, <2>3 DEF Service!Next, Service!TurnOn
<1>2. CASE BootFails
  <2>1. pc \in {"boot", "exited"} /\ pc' \in {"boot", "exited"}
    BY <1>2 DEF BootFails, app_exit
  <2>2. QED
    BY <2>1 DEF phaseBar, requestBar, questionBar, answerBar, Service!vars
<1>3. CASE io_recv_command
  <2>1. pc = "recv" /\ UNCHANGED <<flow, shown>>
    BY <1>3 DEF io_recv_command, uiVars
  <2>2. CASE Answered
    <3>1. PICK c \in Commands : pending = <<c>> /\ Fits(G_io_apdu_buffer, c)
      BY <2>2 DEF Answered
    <3>2. pc' = "sync" /\ Transmit(G_io_apdu_buffer)
      BY <1>3, <2>2 DEF io_recv_command, Answered
    <3>3. pending' = <<>> /\ wire'.frame = G_io_apdu_buffer
      BY <3>1, <3>2, TransmitAnswers DEF Transmit
    <3>4. PlainAnswer(c, G_io_apdu_buffer)
      BY <2>1, <2>2, <3>1 DEF ServiceInv, StoredNeedsNoUser, NeedsNoUser, PlainAnswer, Answered
    <3>5. G_io_apdu_buffer # NoFrame
      BY <3>1 DEF Fits, NoFrame
    <3>6. phaseBar = "working" /\ requestBar = c /\ questionBar = Nothing
      BY <2>1, <2>2, <3>1, WorkingBars DEF Answered
    <3>7. /\ phaseBar' = "idle" /\ requestBar' = Nothing /\ questionBar' = Nothing
          /\ answerBar' = G_io_apdu_buffer
      BY <3>2, <3>3, <3>5 DEF phaseBar, requestBar, questionBar, answerBar
    <3>8. QED
      BY <3>4, <3>6, <3>7 DEF Service!Next, Service!AnswerNow
  <2>3. CASE Starting \/ (G_io_state = "RECEIVED" /\ Asking)
    <3>1. pc' \in {"sync", "async"} /\ UNCHANGED hostVars
      BY <1>3, <2>3 DEF io_recv_command, Starting
    <3>2. QED
      BY <2>1, <3>1, SameBars DEF hostVars
  <2>4. QED
    BY <1>0, <2>1, <2>2, <2>3 DEF LockstepInv
<1>4. CASE pc = "dispatch"
  <2> DEFINE c == command
  <2>1. pending = <<c>> /\ flow \notin Questions /\ c \in Commands
    BY <1>0, <1>4 DEF LockstepInv, TypeOK, CommandFrames, command
  <2>2. UNCHANGED hostVars /\ pc' = "recv"
    BY <1>0, <1>4, HandlerAnswersOrAsks
  <2>3. CASE UNCHANGED uiVars
    BY <1>4, <2>2, <2>3, SameBars DEF uiVars, hostVars
  <2>4. CASE flow' \in Questions /\ AsksUser(c, shown')
    <3>1. /\ phaseBar = "working" /\ requestBar = c
          /\ answerBar = IF wire.frame = NoFrame THEN Nothing ELSE wire.frame
      BY <1>4, <2>1, WorkingBars
    <3>2. pending' = <<c>> /\ UNCHANGED wire
      BY <2>1, <2>2 DEF hostVars
    <3> HIDE DEF c
    <3>3. /\ phaseBar' = "asking" /\ requestBar' = c /\ questionBar' = shown'
          /\ answerBar' = IF wire.frame = NoFrame THEN Nothing ELSE wire.frame
      BY <2>2, <2>4, <3>2 DEF phaseBar, requestBar, questionBar, answerBar
    <3>4. QED
      BY <2>4, <3>1, <3>3 DEF Service!Next, Service!PutQuestion
  <2>5. QED
    BY <1>0, <1>4, <2>3, <2>4, HandlerAnswersOrAsks
<1>5. pc = "dispatch" \/ Boot \/ BootFails \/ io_recv_command
  BY DevicePlaces
<1> QED
  BY <1>1, <1>2, <1>3, <1>4, <1>5

\* A decision gives the answer that the question granted, or the refusal.
LEMMA DecisionIsService ==
    ASSUME ServiceInv, Blocked, flow \in Questions, NEW STATE body, NEW STATE sw,
           io_send_response(body, sw), ui_menu_main, UNCHANGED pc,
           \/ GrantedAnswer(shown, Response(body, sw))
           \/ DeniedAnswer(Response(body, sw))
    PROVE  Service!Next
<1> DEFINE f == Response(body, sw)
<1>1. pc \notin {"boot", "exited"} /\ G_io_state = "WAITING" /\ Asking
  BY DEF ServiceInv, LockstepInv, Blocked
<1>2. PICK c \in Commands : pending = <<c>>
  BY <1>1 DEF Asking
<1>3. Transmit(f)
  BY <1>1 DEF io_send_response
<1>4. pending' = <<>> /\ wire'.frame = f
  <2>1. wire'.frame = f /\ pending' = SubSeq(<<c>>, 1, Len(<<c>>) - 1)
    BY <1>2, <1>3, OneElement DEF Transmit
  <2>2. QED
    BY <2>1, OneElement
<1>5. f # NoFrame
  BY DEF Response, NoFrame
<1>6. phaseBar = "asking" /\ questionBar = shown
  BY <1>1, <1>2, AskingBars
<1>7. GrantedAnswer(shown, f) \/ DeniedAnswer(f)
  OBVIOUS
<1> HIDE DEF f
<1>8. /\ phaseBar' = "idle" /\ requestBar' = Nothing /\ questionBar' = Nothing /\ answerBar' = f
  BY <1>1, <1>4, <1>5 DEF phaseBar, requestBar, questionBar, answerBar
<1> QED
  BY <1>6, <1>7, <1>8 DEF Service!Next, Service!Approve, Service!Reject

\* The application is left while no command is being worked on.
LEMMA LeavingIsService ==
    ASSUME ServiceInv, Blocked, pc' \in {"boot", "exited"}
    PROVE  Service!Next
<1>1. phaseBar \in {"idle", "asking"}
  <2>1. pc \notin {"boot", "exited"}
    BY DEF Blocked
  <2>2. CASE pending = <<>>
    BY <2>1, <2>2, IdleBars
  <2>3. CASE Asking
    <3>1. PICK c \in Commands : pending = <<c>>
      BY <2>3 DEF Asking
    <3>2. QED
      BY <2>1, <2>3, <3>1, AskingBars DEF Asking
  <2>4. QED
    BY <2>2, <2>3 DEF ServiceInv, LockstepInv, Blocked
<1>2. /\ phaseBar' = "off" /\ requestBar' = Nothing /\ questionBar' = Nothing
      /\ answerBar' = Nothing
  BY DEF phaseBar, requestBar, questionBar, answerBar
<1> QED
  BY <1>1, <1>2 DEF Service!Next, Service!TurnOff

LEMMA UserIsService ==
    ASSUME AwaitsAnswers, ServiceInv, User
    PROVE  Service!Next \/ UNCHANGED Service!vars
<1>0. TypeOK /\ ConsentInv /\ LockstepInv /\ QuestionIsContext /\ ScreenHasItsCallback
  BY DEF ServiceInv, LockstepInv, ConsentInv
<1>1. ASSUME NEW approved \in BOOLEAN, ui_action_validate_pubkey(approved)
      PROVE  Service!Next
  <2>1. Blocked /\ flow = "pubkey" /\ flow \in Questions /\ ui_menu_main /\ UNCHANGED pc
    BY <1>0, <1>1 DEF ui_action_validate_pubkey, CanPress, Questions, ScreenHasItsCallback
  <2>2. CASE approved
    <3> DEFINE body == PubkeyBody(G_context.raw_public_key)
    <3>1. io_send_response(body, "SW_OK")
      BY <1>1, <2>2 DEF ui_action_validate_pubkey, helper_send_response_pubkey
    <3>2. GrantedAnswer(shown, Response(body, "SW_OK"))
      BY <1>0, <2>1 DEF GrantedAnswer, QuestionIsContext, AddressShown
    <3> HIDE DEF body
    <3>3. QED
      BY <2>1, <3>1, <3>2, DecisionIsService
  <2>3. CASE ~approved
    <3>1. io_send_response(NoBody, "SW_DENY")
      BY <1>1, <2>3 DEF ui_action_validate_pubkey, io_send_sw
    <3>2. QED
      BY <2>1, <3>1, DecisionIsService DEF DeniedAnswer
  <2>4. QED
    BY <2>2, <2>3
<1>2. ASSUME NEW outcome \in CryptoOutcomes \ {"throws"}, ApproveTransaction(outcome)
      PROVE  Service!Next
  <2>1. Blocked /\ flow = "review" /\ flow \in Questions /\ ui_menu_main /\ UNCHANGED pc
    BY <1>0, <1>2 DEF ApproveTransaction, CanPress, Questions, ScreenHasItsCallback
  <2>2. shown = TransferShown(G_context.bip44_path, G_context.network_magic, G_context.hash)
    BY <1>0, <2>1 DEF QuestionIsContext
  <2>3. CASE outcome = "ok"
    <3>1. io_send_response(Signature(G_context), "SW_OK")
      BY <1>2, <2>3 DEF ApproveTransaction
    <3>2. GrantedAnswer(shown, Response(Signature(G_context), "SW_OK"))
      BY <2>2 DEF GrantedAnswer, TransferShown, Signature
    <3>3. QED
      BY <2>1, <3>1, <3>2, DecisionIsService
  <2>4. CASE outcome # "ok"
    <3>1. io_send_response(NoBody, "SW_SIGN_FAIL")
      BY <1>2, <2>4 DEF ApproveTransaction, io_send_sw
    <3>2. GrantedAnswer(shown, Response(NoBody, "SW_SIGN_FAIL"))
      BY <2>2 DEF GrantedAnswer, TransferShown
    <3>3. QED
      BY <2>1, <3>1, <3>2, DecisionIsService
  <2>5. QED
    BY <2>3, <2>4
<1>3. ~("throws" \in CryptoOutcomes /\ SignThrows)
  BY DEF AwaitsAnswers
<1>4. CASE RejectTransaction
  <2>1. /\ Blocked /\ flow \in Questions /\ ui_menu_main /\ UNCHANGED pc
        /\ io_send_response(NoBody, "SW_DENY")
    BY <1>4 DEF RejectTransaction, CanPress, Questions, io_send_sw
  <2>2. QED
    BY <2>1, DecisionIsService DEF DeniedAnswer
<1>5. CASE ui_menu_about \/ MenuBack
  <2>1. /\ Blocked /\ flow \notin Questions /\ flow' \notin Questions
        /\ UNCHANGED <<pc, pending, wire>>
    BY <1>5 DEF ui_menu_about, MenuBack, ui_menu_main, Questions, ctlVars, hostVars
  <2>2. pending = <<>> /\ pc \notin {"boot", "exited"}
    BY <1>0, <2>1 DEF LockstepInv, Asking, Blocked
  <2>3. QED
    BY <2>1, <2>2 DEF phaseBar, requestBar, questionBar, answerBar, Service!vars
<1>6. CASE Quit
  BY <1>6, LeavingIsService DEF Quit, app_exit
<1>7. CASE Launch
  BY <1>7, SameBars DEF Launch, uiVars, hostVars
<1> QED
  BY <1>1, <1>2, <1>3, <1>4, <1>5, <1>6, <1>7 DEF User

LEMMA HostIsService ==
    ASSUME AwaitsAnswers, ServiceInv, Host
    PROVE  Service!Next
<1>1. ASSUME NEW c \in Commands, Deliver(c)
      PROVE  Service!Next
  <2>1. Blocked /\ pending = <<>>
    <3>1. Blocked /\ Len(pending) < 1
      BY <1>1 DEF Deliver, AwaitsAnswers
    <3>2. QED
      BY <3>1 DEF ServiceInv, TypeOK
  <2>2. flow \notin Questions
    BY <2>1, OneElement DEF ServiceInv, Blocked, LockstepInv, Asking
  <2>3. pending' = <<c>> /\ pc' = "dispatch" /\ UNCHANGED flow /\ wire'.frame = NoFrame
    BY <1>1, <2>1 DEF Deliver
  <2>4. phaseBar = "idle" /\ questionBar = Nothing
    BY <2>1, IdleBars DEF Blocked
  <2>5. /\ phaseBar' = "working" /\ requestBar' = c /\ questionBar' = Nothing
        /\ answerBar' = Nothing
    BY <2>2, <2>3 DEF phaseBar, requestBar, questionBar, answerBar
  <2>6. QED
    BY <2>4, <2>5 DEF Service!Next, Service!Ask
<1>2. CASE UsbReset
  BY <1>2, LeavingIsService DEF UsbReset
<1> QED
  BY <1>1, <1>2 DEF Host

-----------------------------------------------------------------------------
(* The theorem. *)

LEMMA StoredInit == Init => StoredNeedsNoUser
BY DEF Init, StoredNeedsNoUser

LEMMA NextKeepsStored == AwaitsAnswers /\ ServiceInv /\ [Next]_vars => StoredNeedsNoUser'
<1> SUFFICES ASSUME AwaitsAnswers, ServiceInv, [Next]_vars, pc' = "recv", G_io_state' = "READY",
                    NEW c \in Commands, pending' = <<c>>
             PROVE  NeedsNoUser(G_io_apdu_buffer', c)
  BY DEF StoredNeedsNoUser
<1>1. CASE pc = "dispatch" /\ Device
  <2>1. pending = <<command>> /\ G_io_state = "RECEIVED"
    BY <1>1 DEF ServiceInv, LockstepInv
  <2>2. UNCHANGED hostVars /\ NeedsNoUser(G_io_apdu_buffer', command)
    BY <1>1, <2>1, HandlerAnswersOrAsks DEF ServiceInv
  <2>3. c = command
    BY <2>1, <2>2 DEF hostVars
  <2>4. QED
    BY <2>2, <2>3
<1>2. CASE Boot
  BY <1>2 DEF Boot
<1>3. CASE Device /\ pc # "dispatch" /\ ~Boot
  <2>1. BootFails \/ io_recv_command
    BY <1>3, DevicePlaces
  <2>2. pc' # "recv"
    BY <2>1 DEF BootFails, app_exit, io_recv_command
  <2>3. QED
    BY <2>2
<1>4. CASE User
  <2>1. ~("throws" \in CryptoOutcomes /\ SignThrows)
    BY DEF AwaitsAnswers
  <2>2. pc' # "recv"
    BY <1>4, <2>1 DEF User, ui_action_validate_pubkey, ApproveTransaction, RejectTransaction,
                      CanPress, Blocked, ui_menu_about, MenuBack, ctlVars, Quit, app_exit, Launch
  <2>3. QED
    BY <2>2
<1>5. CASE Host
  BY <1>5 DEF Host, Deliver, UsbReset
<1>6. CASE UNCHANGED vars
  BY <1>6 DEF ServiceInv, StoredNeedsNoUser, NeedsNoUser, vars, ctlVars, hostVars
<1> QED
  BY <1>1, <1>2, <1>3, <1>4, <1>5, <1>6 DEF Next

\* The application implements the abstract service: each request is answered exactly
\* once, keys to be displayed and signatures only as the user granted them.
THEOREM ServiceImplemented == AwaitsAnswers => (Spec => ImplementsService)
<1> SUFFICES ASSUME AwaitsAnswers PROVE Spec => ImplementsService
  OBVIOUS
<1>1. ServiceInv /\ LockstepInv' /\ [Next]_vars => [Service!Next]_(Service!vars)
  <2>1. UNCHANGED vars => UNCHANGED Service!vars
    BY SameBars DEF vars, ctlVars, uiVars, hostVars
  <2>2. QED
    BY <2>1, DeviceIsService, UserIsService, HostIsService DEF Next
<1>2. Spec => []ServiceInv
  <2>1. TypeOK /\ ConsentInv /\ LockstepInv /\ StoredNeedsNoUser /\ [Next]_vars => StoredNeedsNoUser'
    BY NextKeepsStored DEF ServiceInv
  <2>2. QED
    BY <2>1, StoredInit, TypeCorrect, ConsentInvariant, LockstepInvariant, PTL DEF Spec, ServiceInv
<1>3. QED
  BY <1>1, <1>2, BarsInit, LockstepInvariant, PTL DEF Spec, ImplementsService, Service!Spec
=============================================================================
