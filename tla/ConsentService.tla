--------------------------- MODULE ConsentService ---------------------------
(***************************************************************************)
(* What the application promises its host and its user, without any of the *)
(* machinery: one request at a time, each answered exactly once; some      *)
(* answers are given at once, the others only for the question the user    *)
(* was asked, after the user decided.                                      *)
(***************************************************************************)
CONSTANTS
    Request,        \* what the host may ask
    None,           \* no request, no question, no answer yet
    Plain(_, _),    \* Plain(r, f): f may answer r without the user
    Asks(_, _),     \* Asks(r, q): q is a question r may put to the user
    Grants(_, _),   \* Grants(q, f): f may be the answer once q is approved
    Denies(_)       \* Denies(f): f tells the host that the user refused

VARIABLES phase, request, question, answer
vars == <<phase, request, question, answer>>

Init == phase = "off" /\ request = None /\ question = None /\ answer = None

TurnOn ==
    /\ phase = "off"
    /\ phase' = "idle"
    /\ UNCHANGED <<request, question, answer>>

Ask ==
    /\ phase = "idle"
    /\ phase' = "working"
    /\ request' \in Request
    /\ answer' = None
    /\ UNCHANGED question

AnswerNow ==
    /\ phase = "working"
    /\ phase' = "idle"
    /\ Plain(request, answer')
    /\ request' = None
    /\ UNCHANGED question

PutQuestion ==
    /\ phase = "working"
    /\ phase' = "asking"
    /\ Asks(request, question')
    /\ UNCHANGED <<request, answer>>

Approve ==
    /\ phase = "asking"
    /\ phase' = "idle"
    /\ Grants(question, answer')
    /\ request' = None
    /\ question' = None

Reject ==
    /\ phase = "asking"
    /\ phase' = "idle"
    /\ Denies(answer')
    /\ request' = None
    /\ question' = None

\* The device may be unplugged or closed, but not while it works on a request.
TurnOff ==
    /\ phase \in {"idle", "asking"}
    /\ phase' = "off"
    /\ request' = None /\ question' = None /\ answer' = None

Next == TurnOn \/ Ask \/ AnswerNow \/ PutQuestion \/ Approve \/ Reject \/ TurnOff

Spec == Init /\ [][Next]_vars

\* Work on a request comes to an end.
Progress == (phase = "working") ~> (phase # "working")
=============================================================================
