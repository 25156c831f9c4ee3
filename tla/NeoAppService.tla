---------------------------- MODULE NeoAppService ----------------------------
(* NeoApp, for a host that awaits each answer and a crypto library that does *)
(* not throw, implements ConsentService.                                     *)
EXTENDS NeoApp

phaseBar ==
    CASE pc \in {"boot", "exited"} -> "off"
      [] pc \notin {"boot", "exited"} /\ pending = <<>> -> "idle"
      [] pc \notin {"boot", "exited"} /\ pending # <<>> ->
            IF flow \in Questions THEN "asking" ELSE "working"

requestBar == IF phaseBar \in {"working", "asking"} THEN pending[1] ELSE Nothing
questionBar == IF phaseBar = "asking" THEN shown ELSE Nothing
answerBar ==
    IF phaseBar = "off" \/ wire.frame = NoFrame THEN Nothing ELSE wire.frame

\* Without the user: nothing that shows a key the host asked to display, and no
\* signature.
PlainAnswer(r, f) ==
    /\ Fits(f, r)
    /\ f.body.is # "signature"
    /\ f.body.is = "pubkey" => r.p2 = 0

\* The user is asked about the key the request names, or about a transaction when
\* its last part arrives.
AsksUser(r, q) ==
    \/ /\ r.ins = "GET_PUBLIC_KEY" /\ r.p2 = 1
       /\ q = AddressShown(PathReading[r.data].path)
    \/ /\ r.ins = "SIGN_TX" /\ r.p1 > 1 /\ r.p2 = P2_LAST
       /\ q.kind \in {"transfer", "unsupported"}

\* An approval releases the key that was shown, or a signature of what was shown.
GrantedAnswer(q, f) ==
    \/ q.kind = "address" /\ f = Response(PubkeyBody(q.key), "SW_OK")
    \/ q.kind = "transfer" /\ f = Response(SignatureBody(q.path, q.magic, q.tx), "SW_OK")
    \/ q.kind = "transfer" /\ f = Response(NoBody, "SW_SIGN_FAIL")

DeniedAnswer(f) == f = Response(NoBody, "SW_DENY")

Service == INSTANCE ConsentService WITH
    Request <- Commands, None <- Nothing,
    Plain <- PlainAnswer, Asks <- AsksUser, Grants <- GrantedAnswer, Denies <- DeniedAnswer,
    phase <- phaseBar, request <- requestBar, question <- questionBar, answer <- answerBar

\* The application is a consent service: each request is answered exactly once, a key
\* the host wants displayed and every signature only after the user approved the
\* question that shows it, and a restart never drops a request being worked on.
ImplementsService == Service!Spec

\* The service's progress: a request becomes an answer or a question.
ServiceProgress == Service!Progress
=============================================================================
