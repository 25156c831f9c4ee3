----------------------------- MODULE SignerPages -----------------------------
(***************************************************************************)
(* The review of a transaction as the user pages through it: the flow      *)
(* built by create_transaction_flow (ui/display.c) and, inside it, the     *)
(* screens of the signers, which are made at run time from two delimiter   *)
(* steps and one generic step.  The SDK's flow engine (ux_flow_next,       *)
(* ux_flow_prev, relayout) moves by one step and runs the init function of *)
(* a delimiter, which moves on; the user only ever rests on other steps.   *)
(***************************************************************************)
EXTENDS Integers, Sequences

CONSTANTS
    MAX_TX_SIGNERS,         \* signers of a transaction
    MAX_SIGNER_SUB_ITEMS,   \* allowed contracts, and allowed groups, of a signer
    Reviews                 \* the transactions that are reviewed, as their signers

\* What the pager reads of a signer_t: how many items it has.
SignerShape == [contracts : 0..MAX_SIGNER_SUB_ITEMS, groups : 0..MAX_SIGNER_SUB_ITEMS]

\* s_index, c_index and g_index are int8_t.
ASSUME BoundsAssumption ==
    /\ MAX_TX_SIGNERS \in 1..127
    /\ MAX_SIGNER_SUB_ITEMS \in 0..127

\* transaction_deserialize lets no transaction without a signer pass.
ASSUME ReviewsAssumption ==
    \A l \in Reviews : l \in Seq(SignerShape) /\ Len(l) \in 1..MAX_TX_SIGNERS

VARIABLES
    signers,      \* signers of the transaction under review
    index,        \* the step of the flow on the screen
    display_ctx,  \* where the generic step is among the signers
    g_text,       \* what the generic text buffer was made from
    seen          \* the signer pages that were on the screen in this review

vars == <<signers, index, display_ctx, g_text, seen>>

\* ux_display_transaction_flow; the steps 0 to 7 are texts about the transaction.
AMOUNT_STEP == 2
LAST_TEXT_STEP == 7
UPPER_DELIMITER == 8
GENERIC_STEP == 9
LOWER_DELIMITER == 10
APPROVE_STEP == 11
REJECT_STEP == 12

\* enum e_signer_state; signer_property is the identity.
START == 0
INDEX == 1
ACCOUNT == 2
SCOPE == 3
CONTRACTS == 4
GROUPS == 5
END == 6

\* g_text while it holds the token amount.
AmountText == [p |-> "amount"]

\* Mutant: the index of the contracts starts at the first one, not before it.
FirstCursorAtContract ==
    [current_state |-> "STATIC_SCREEN", s_index |-> 0, p_index |-> START,
     c_index |-> 0, g_index |-> -1]

\* reset_signer_display_state
FirstCursor ==
    [current_state |-> "STATIC_SCREEN", s_index |-> 0, p_index |-> START,
     c_index |-> -1, g_index |-> -1]

\* ui_display_transaction, once everything could be formatted.
Init ==
    /\ signers \in Reviews
    /\ index = 0
    /\ display_ctx = FirstCursor
    /\ g_text = AmountText
    /\ seen = {}

-----------------------------------------------------------------------------
(* next_prop and prev_prop. *)

\* Mutant: the comparison lets the index reach the size.
HasItemOrEnd(i, size) == i <= size

\* next_prop goes on within a list while there is an item at the next index.
HasItem(i, size) == i < size

\* next_prop within the signer sg, up to its last property.
NextWithin(x, sg) ==
    LET p == IF x.p_index < CONTRACTS THEN x.p_index + 1 ELSE x.p_index
        c == IF p = CONTRACTS THEN x.c_index + 1 ELSE x.c_index
        g == IF p \in {CONTRACTS, GROUPS} THEN x.g_index + 1 ELSE x.g_index
    IN  IF p < CONTRACTS THEN [x EXCEPT !.p_index = p]
        ELSE IF p = CONTRACTS /\ HasItem(c, sg.contracts)
             THEN [x EXCEPT !.p_index = CONTRACTS, !.c_index = c]
        ELSE IF p # END /\ HasItem(g, sg.groups)
             THEN [x EXCEPT !.p_index = GROUPS, !.c_index = c, !.g_index = g]
        ELSE [x EXCEPT !.p_index = END, !.c_index = c, !.g_index = g]

\* Its recursive call starts at the next signer and goes no further.
next_prop(x, l) ==
    LET y == NextWithin(x, l[x.s_index + 1])
    IN  IF y.p_index = END /\ y.s_index + 1 # Len(l)
        THEN NextWithin([y EXCEPT !.s_index = y.s_index + 1, !.p_index = START,
                                  !.c_index = -1, !.g_index = -1], l[y.s_index + 2])
        ELSE y

\* prev_prop within a signer, down to START; the indices end at -1, where next_prop
\* expects them.
PrevWithin(x) ==
    LET p == IF x.p_index = END THEN GROUPS ELSE x.p_index
        g == IF p = GROUPS THEN x.g_index - 1 ELSE x.g_index
        c == IF p \in {CONTRACTS, GROUPS} THEN x.c_index - 1 ELSE x.c_index
    IN  IF p = GROUPS /\ g >= 0 THEN [x EXCEPT !.p_index = GROUPS, !.g_index = g]
        ELSE IF p \in {CONTRACTS, GROUPS} /\ c >= 0
             THEN [x EXCEPT !.p_index = CONTRACTS, !.c_index = c, !.g_index = g]
        ELSE IF p \in {CONTRACTS, GROUPS}
             THEN [x EXCEPT !.p_index = SCOPE, !.c_index = c, !.g_index = g]
        ELSE [x EXCEPT !.p_index = p - 1]

\* Mutant: the groups of the signer before are not entered from behind.
EndWithoutGroups(x, s, sg) ==
    [x EXCEPT !.s_index = s, !.p_index = END, !.c_index = sg.contracts, !.g_index = 0]

\* prev_prop puts its cursor behind the last property of the signer before.
EndOf(x, s, sg) ==
    [x EXCEPT !.s_index = s, !.p_index = END,
              !.c_index = sg.contracts, !.g_index = sg.groups]

prev_prop(x, l) ==
    IF x.s_index = 0 /\ x.p_index = INDEX THEN [x EXCEPT !.p_index = START]
    ELSE LET y == PrevWithin(x)
         IN  IF y.p_index = START /\ y.s_index > 0
             THEN PrevWithin(EndOf(y, y.s_index - 1, l[y.s_index]))
             ELSE y

-----------------------------------------------------------------------------
(* get_next_data and display_next_state. *)

HasData(x) == x.p_index \notin {START, END}

\* The page get_next_data writes for a cursor: signer, property, item.
PageAt(x) ==
    [s |-> x.s_index, p |-> x.p_index,
     i |-> CASE x.p_index = CONTRACTS -> x.c_index
             [] x.p_index = GROUPS -> x.g_index
             [] OTHER -> 0]

\* The init function of a delimiter: forward from above when static, and so on;
\* without data the flow leaves the signers, otherwise it shows the generic step.
display_next_state(is_upper_delimiter) ==
    LET static == display_ctx.current_state = "STATIC_SCREEN"
        moved == IF is_upper_delimiter = static THEN next_prop(display_ctx, signers)
                 ELSE prev_prop(display_ctx, signers)
        data == HasData(moved)
    IN  /\ display_ctx' = [moved EXCEPT
               !.current_state = IF data THEN "DYNAMIC_SCREEN" ELSE "STATIC_SCREEN"]
        /\ g_text' = IF data THEN PageAt(moved) ELSE g_text
        /\ index' = IF data \/ static THEN GENERIC_STEP
                    ELSE IF is_upper_delimiter THEN LAST_TEXT_STEP ELSE APPROVE_STEP
        /\ seen' = IF data THEN seen \cup {PageAt(moved)} ELSE seen

-----------------------------------------------------------------------------
(* The buttons, and another review. *)

MoveTo(n) ==
    /\ n \in 0..REJECT_STEP
    /\ IF n \in {UPPER_DELIMITER, LOWER_DELIMITER}
       THEN display_next_state(n = UPPER_DELIMITER)
       ELSE index' = n /\ UNCHANGED <<display_ctx, g_text, seen>>
    /\ UNCHANGED signers

Right == MoveTo(index + 1)
Left == MoveTo(index - 1)

\* The review is over, or is overtaken, and ui_display_transaction starts another.
Review ==
    /\ signers' \in Reviews
    /\ index' = 0
    /\ display_ctx' = FirstCursor
    /\ g_text' = AmountText
    /\ seen' = {}

Next == Right \/ Left \/ Review

Spec == Init /\ [][Next]_vars

-----------------------------------------------------------------------------
(* Properties. *)

Items(sg, p) ==
    CASE p = CONTRACTS -> sg.contracts
      [] p = GROUPS -> sg.groups
      [] OTHER -> 1

\* Everything the review has to say about the signers l.
Pages(l) ==
    {pg \in [s : 0..(Len(l) - 1), p : INDEX..GROUPS, i : 0..MAX_SIGNER_SUB_ITEMS] :
        pg.i < Items(l[pg.s + 1], pg.p)}

Cursors ==
    [current_state : {"STATIC_SCREEN", "DYNAMIC_SCREEN"}, s_index : 0..(MAX_TX_SIGNERS - 1),
     p_index : START..END, c_index : -1..MAX_SIGNER_SUB_ITEMS, g_index : -1..MAX_SIGNER_SUB_ITEMS]

\* Type invariant: no index leaves its array or its int8_t, the user never rests on a
\* delimiter, and the generic step shows only properties the signers have.
TypeOK ==
    /\ signers \in Reviews
    /\ index \in (0..REJECT_STEP) \ {UPPER_DELIMITER, LOWER_DELIMITER}
    /\ display_ctx \in Cursors
    /\ g_text \in Pages(signers) \cup {AmountText}
    /\ seen \subseteq Pages(signers)

\* The approve and reject steps are reached only past every page of every signer:
\* accounts, scopes, contracts and groups, whichever way the user turned in between.
AllSeenBeforeDeciding ==
    index \in {APPROVE_STEP, REJECT_STEP} => seen = Pages(signers)

\* The screen titled "Token amount" shows the token amount.
AmountStepShowsAmount == index = AMOUNT_STEP => g_text = AmountText
=============================================================================
