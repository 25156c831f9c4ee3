-------------------------- MODULE SignerPagesReview --------------------------
(* SignerPages implements ReviewCursor: the delimiters and the cursor of the *)
(* signers are a list of screens in disguise.                                *)
EXTENDS SignerPages, FiniteSets

Before(a, b) ==
    \/ a.s < b.s
    \/ a.s = b.s /\ a.p < b.p
    \/ a.s = b.s /\ a.p = b.p /\ a.i < b.i

Step(n) == [step |-> n]

\* The function f, as a table: TLC evaluates it once and not at each application.
Tabulated(f) == CHOOSE g \in {f} : g = f

\* How many pages come before each page of each review.
Rank ==
    Tabulated([l \in Reviews |->
        Tabulated([pg \in Pages(l) |-> Cardinality({q \in Pages(l) : Before(q, pg)})])])

InOrder(l) ==
    [n \in 1..Cardinality(Pages(l)) |-> CHOOSE pg \in Pages(l) : Rank[l][pg] = n - 1]

\* The screens of each review, the pages of the signers in their order.
Screens ==
    Tabulated([l \in Reviews |->
        [n \in 1..(LAST_TEXT_STEP + 1) |-> Step(n - 1)]
        \o InOrder(l)
        \o <<Step(APPROVE_STEP), Step(REJECT_STEP)>>])

AllScreens == {Screens[l] : l \in Reviews}

posBar ==
    IF index <= LAST_TEXT_STEP THEN index + 1
    ELSE IF index = GENERIC_STEP
         THEN LAST_TEXT_STEP + 2 + Rank[signers][PageAt(display_ctx)]
    ELSE Len(Screens[signers]) - (REJECT_STEP - index)

screenBar == IF index = GENERIC_STEP THEN g_text ELSE Step(index)

Cursor == INSTANCE ReviewCursor WITH
    Lists <- AllScreens, list <- Screens[signers],
    pos <- posBar, screen <- screenBar

\* Paging shows every page of every signer exactly once and in order, forwards and
\* backwards, across the border of two signers and of the static screens, and turning
\* back undoes turning on.
ImplementsCursor == Cursor!Spec
=============================================================================
