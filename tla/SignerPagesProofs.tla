-------------------------- MODULE SignerPagesProofs --------------------------
(* Proofs about SignerPages, for any number of signers, contracts and groups   *)
(* that int8_t indices can count, up to that paging implements ReviewCursor.   *)
EXTENDS SignerPagesReview, FiniteSetTheorems, SequenceTheorems, TLAPS

USE DEF START, INDEX, ACCOUNT, SCOPE, CONTRACTS, GROUPS, END

CursorRecords ==
    [current_state : {"STATIC_SCREEN", "DYNAMIC_SCREEN"}, s_index : Int, p_index : Int,
     c_index : Int, g_index : Int]

\* The cursors that occur in a signer with n contracts and m groups: the indices of
\* the lists are before, at or behind the item on the screen.
ValidIn(x, n, m) ==
    /\ x.p_index \in 0..6
    /\ x.p_index <= 3 => x.c_index = -1 /\ x.g_index = -1
    /\ x.p_index = 4 => x.c_index \in 0..(n - 1) /\ x.g_index = -1
    /\ x.p_index >= 5 => x.c_index = n
    /\ x.p_index = 5 => x.g_index \in 0..(m - 1)
    /\ x.p_index = 6 => x.g_index = m

Valid(x, l) ==
    /\ x \in CursorRecords
    /\ x.s_index \in 0..(Len(l) - 1)
    /\ ValidIn(x, l[x.s_index + 1].contracts, l[x.s_index + 1].groups)
    /\ x.p_index = 0 => x.s_index = 0
    /\ x.p_index = 6 => x.s_index = Len(l) - 1

\* Item i of property p is one a signer with n contracts and m groups has.
InSigner(p, i, n, m) ==
    /\ p \in 1..5 /\ i \in Nat
    /\ p <= 3 => i = 0
    /\ p = 4 => i < n
    /\ p = 5 => i < m

\* The item of the page at x.
Item(x) == IF x.p_index = 4 THEN x.c_index ELSE IF x.p_index = 5 THEN x.g_index ELSE 0

\* Item i of property p is the one at the cursor or one before it.
UpTo(p, i, x) == p < x.p_index \/ (p = x.p_index /\ i <= Item(x))

\* Within a signer, y is where pages come after those of x.
Ahead(x, y) == x.p_index < y.p_index \/ (x.p_index = y.p_index /\ Item(x) < Item(y))

\* The same of cursors of different signers.
Later(x, y) == x.s_index < y.s_index \/ (x.s_index = y.s_index /\ Ahead(x, y))

\* The same of a page.
Reached(pg, x) == pg.s < x.s_index \/ (pg.s = x.s_index /\ UpTo(pg.p, pg.i, x))

\* The inductive invariant: the cursor is a valid one, it tells where in the flow the
\* user is, and everything up to it was on the screen.
PagerInv ==
    /\ signers \in Reviews
    /\ index \in (0..REJECT_STEP) \ {UPPER_DELIMITER, LOWER_DELIMITER}
    /\ Valid(display_ctx, signers)
    /\ index <= LAST_TEXT_STEP => display_ctx.p_index = START
    /\ index = GENERIC_STEP => HasData(display_ctx)
    /\ index >= APPROVE_STEP => display_ctx.p_index = END
    /\ (display_ctx.current_state = "DYNAMIC_SCREEN") <=> HasData(display_ctx)
    /\ g_text \in Pages(signers) \cup {AmountText}
    /\ seen \subseteq Pages(signers)
    /\ \A pg \in Pages(signers) : Reached(pg, display_ctx) => pg \in seen

-----------------------------------------------------------------------------
(* Reviews and pages. *)

LEMMA SignerFacts ==
    ASSUME NEW l \in Reviews
    PROVE  /\ Len(l) \in Nat \ {0}
           /\ MAX_SIGNER_SUB_ITEMS \in Nat
           /\ \A s \in 0..(Len(l) - 1) :
                 /\ l[s + 1].contracts \in 0..MAX_SIGNER_SUB_ITEMS
                 /\ l[s + 1].groups \in 0..MAX_SIGNER_SUB_ITEMS
<1>1. l \in Seq(SignerShape) /\ Len(l) \in 1..MAX_TX_SIGNERS
  BY ReviewsAssumption
<1>2. Len(l) \in Nat \ {0}
  BY <1>1, BoundsAssumption
<1>3. ASSUME NEW s \in 0..(Len(l) - 1) PROVE l[s + 1] \in SignerShape
  BY <1>1, <1>2
<1> QED
  BY <1>2, <1>3, BoundsAssumption DEF SignerShape

\* What a page is made of.
LEMMA PageFacts ==
    ASSUME NEW l \in Reviews, NEW pg \in Pages(l)
    PROVE  /\ pg = [s |-> pg.s, p |-> pg.p, i |-> pg.i]
           /\ pg.s \in 0..(Len(l) - 1)
           /\ InSigner(pg.p, pg.i, l[pg.s + 1].contracts, l[pg.s + 1].groups)
<1>1. /\ pg = [s |-> pg.s, p |-> pg.p, i |-> pg.i]
      /\ pg.s \in 0..(Len(l) - 1) /\ pg.p \in 1..5
      /\ pg.i \in 0..MAX_SIGNER_SUB_ITEMS
      /\ pg.i < Items(l[pg.s + 1], pg.p)
  BY DEF Pages
<1>2. MAX_SIGNER_SUB_ITEMS \in Nat
  BY SignerFacts
<1>3. /\ pg.p <= 3 => Items(l[pg.s + 1], pg.p) = 1
      /\ pg.p = 4 => Items(l[pg.s + 1], pg.p) = l[pg.s + 1].contracts
      /\ pg.p = 5 => Items(l[pg.s + 1], pg.p) = l[pg.s + 1].groups
  BY <1>1 DEF Items
<1> QED
  BY <1>1, <1>2, <1>3 DEF InSigner

\* The record get_next_data makes of a cursor.
LEMMA PageFields ==
    ASSUME NEW x
    PROVE  PageAt(x) = [s |-> x.s_index, p |-> x.p_index, i |-> Item(x)]
<1>1. CASE x.p_index = 4
  BY <1>1 DEF PageAt, Item
<1>2. CASE x.p_index = 5
  BY <1>2 DEF PageAt, Item
<1>3. CASE x.p_index \notin {4, 5}
  BY <1>3 DEF PageAt, Item
<1> QED
  BY <1>1, <1>2, <1>3

\* A valid cursor with data is on a page.
LEMMA PageOfCursor ==
    ASSUME NEW l \in Reviews, NEW x, Valid(x, l), HasData(x)
    PROVE  PageAt(x) \in Pages(l)
<1> DEFINE s == x.s_index
           p == x.p_index
           sg == l[s + 1]
<1>1. s \in 0..(Len(l) - 1) /\ p \in 1..5
  BY DEF Valid, ValidIn, HasData
<1>2. /\ sg.contracts \in 0..MAX_SIGNER_SUB_ITEMS /\ sg.groups \in 0..MAX_SIGNER_SUB_ITEMS
      /\ MAX_SIGNER_SUB_ITEMS \in Nat
  BY <1>1, SignerFacts
<1>3. /\ p = 4 => x.c_index \in 0..(sg.contracts - 1)
      /\ p = 5 => x.g_index \in 0..(sg.groups - 1)
  BY DEF Valid, ValidIn
<1>4. Item(x) \in 0..MAX_SIGNER_SUB_ITEMS /\ Item(x) < Items(sg, p)
  <2>1. CASE p = 4
    BY <1>2, <1>3, <2>1 DEF Item, Items
  <2>2. CASE p = 5
    BY <1>2, <1>3, <2>2 DEF Item, Items
  <2>3. CASE p \in 1..3
    BY <1>2, <2>3 DEF Item, Items
  <2>4. QED
    BY <1>1, <2>1, <2>2, <2>3
<1> QED
  BY <1>1, <1>4, PageFields DEF Pages

-----------------------------------------------------------------------------
(* Cursors with some of their fields changed. *)

Fields(y, x, s, p, c, g) ==
    /\ y \in CursorRecords
    /\ y.current_state = x.current_state
    /\ y.s_index = s /\ y.p_index = p /\ y.c_index = c /\ y.g_index = g

LEMMA CursorP ==
    ASSUME NEW x \in CursorRecords, NEW p \in Int
    PROVE  Fields([x EXCEPT !.p_index = p], x, x.s_index, p, x.c_index, x.g_index)
BY DEF CursorRecords, Fields

LEMMA CursorPC ==
    ASSUME NEW x \in CursorRecords, NEW p \in Int, NEW c \in Int
    PROVE  Fields([x EXCEPT !.p_index = p, !.c_index = c], x, x.s_index, p, c, x.g_index)
<1> DEFINE y == [x EXCEPT !.p_index = p, !.c_index = c]
<1>1. y \in CursorRecords
  BY Zenon DEF CursorRecords
<1>2. y.current_state = x.current_state /\ y.s_index = x.s_index /\ y.p_index = p
      /\ y.c_index = c /\ y.g_index = x.g_index
  BY DEF CursorRecords
<1> QED
  BY <1>1, <1>2 DEF Fields

LEMMA CursorPG ==
    ASSUME NEW x \in CursorRecords, NEW p \in Int, NEW g \in Int
    PROVE  Fields([x EXCEPT !.p_index = p, !.g_index = g], x, x.s_index, p, x.c_index, g)
<1> DEFINE y == [x EXCEPT !.p_index = p, !.g_index = g]
<1>1. y \in CursorRecords
  BY Zenon DEF CursorRecords
<1>2. y.current_state = x.current_state /\ y.s_index = x.s_index /\ y.p_index = p
      /\ y.c_index = x.c_index /\ y.g_index = g
  BY DEF CursorRecords
<1> QED
  BY <1>1, <1>2 DEF Fields

LEMMA CursorPCG ==
    ASSUME NEW x \in CursorRecords, NEW p \in Int, NEW c \in Int, NEW g \in Int
    PROVE  Fields([x EXCEPT !.p_index = p, !.c_index = c, !.g_index = g],
                  x, x.s_index, p, c, g)
<1> DEFINE y == [x EXCEPT !.p_index = p, !.c_index = c, !.g_index = g]
<1>1. y \in CursorRecords
  BY Zenon DEF CursorRecords
<1>2. y.current_state = x.current_state /\ y.s_index = x.s_index /\ y.p_index = p
      /\ y.c_index = c /\ y.g_index = g
  BY DEF CursorRecords
<1> QED
  BY <1>1, <1>2 DEF Fields

LEMMA CursorSPCG ==
    ASSUME NEW x \in CursorRecords, NEW s \in Int, NEW p \in Int, NEW c \in Int, NEW g \in Int
    PROVE  Fields([x EXCEPT !.s_index = s, !.p_index = p, !.c_index = c, !.g_index = g],
                  x, s, p, c, g)
<1> DEFINE y == [x EXCEPT !.s_index = s, !.p_index = p, !.c_index = c, !.g_index = g]
<1>1. y \in CursorRecords
  BY Zenon DEF CursorRecords
<1>2. y.current_state = x.current_state /\ y.s_index = s /\ y.p_index = p
      /\ y.c_index = c /\ y.g_index = g
  BY DEF CursorRecords
<1> QED
  BY <1>1, <1>2 DEF Fields

-----------------------------------------------------------------------------
(* Forwards. *)

\* Within a signer next_prop goes to the next item, or to END behind the last one.
LEMMA ForwardWithin ==
    ASSUME NEW x \in CursorRecords, NEW sg,
           sg.contracts \in Nat, sg.groups \in Nat,
           ValidIn(x, sg.contracts, sg.groups), x.p_index # 6
    PROVE  LET y == NextWithin(x, sg)
           IN  /\ y \in CursorRecords /\ y.s_index = x.s_index
               /\ ValidIn(y, sg.contracts, sg.groups) /\ y.p_index # 0
               /\ \A p, i : InSigner(p, i, sg.contracts, sg.groups) /\ UpTo(p, i, y) =>
                     UpTo(p, i, x) \/ (p = y.p_index /\ i = Item(y))
               /\ x.p_index = 0 => y.p_index = 1
               /\ Ahead(x, y)
<1> DEFINE y == NextWithin(x, sg)
           n == sg.contracts
           m == sg.groups
           Lands == ValidIn(y, n, m) /\ y.p_index # 0 /\ (x.p_index = 0 => y.p_index = 1)
           Skips(p, i) == /\ InSigner(p, i, n, m) /\ UpTo(p, i, y)
                          /\ ~UpTo(p, i, x) /\ ~(p = y.p_index /\ i = Item(y))
<1>1. /\ x.p_index \in 0..5 /\ n \in Nat /\ m \in Nat
      /\ x.p_index <= 3 => x.c_index = -1 /\ x.g_index = -1
      /\ x.p_index = 4 => x.c_index \in 0..(n - 1) /\ x.g_index = -1
      /\ x.p_index = 5 => x.c_index = n /\ x.g_index \in 0..(m - 1)
  BY DEF ValidIn
<1>2. x.s_index \in Int /\ x.c_index \in Int /\ x.g_index \in Int
  BY DEF CursorRecords
<1>3. CASE x.p_index <= 2
  <2>1. y = [x EXCEPT !.p_index = x.p_index + 1]
    BY <1>1, <1>3 DEF NextWithin
  <2> HIDE DEF y, n, m
  <2>2. Fields(y, x, x.s_index, x.p_index + 1, x.c_index, x.g_index)
    <3>1. x.p_index + 1 \in Int /\ x.c_index \in Int /\ x.g_index \in Int
      BY <1>1, <1>2
    <3>2. QED
      BY <2>1, <3>1, CursorP, Zenon
  <2>3. Lands
    BY <1>1, <1>2, <1>3, <2>2 DEF ValidIn, Fields
  <2>4. ASSUME NEW p, NEW i PROVE ~Skips(p, i)
    BY <1>1, <1>2, <1>3, <2>2 DEF Fields, InSigner, UpTo, Item
  <2>5. Ahead(x, y)
    BY <1>1, <1>2, <1>3, <2>2 DEF Fields, Ahead, Item
  <2> QED
    BY <2>2, <2>3, <2>4, <2>5 DEF Fields, y, n, m
<1>4. CASE x.p_index \in {3, 4} /\ x.c_index + 1 < n
  <2>1. y = [x EXCEPT !.p_index = 4, !.c_index = x.c_index + 1]
    <3>1. CASE x.p_index = 3
      BY <1>1, <1>4, <3>1 DEF NextWithin, HasItem
    <3>2. CASE x.p_index = 4
      BY <1>1, <1>4, <3>2 DEF NextWithin, HasItem
    <3>3. QED
      BY <3>1, <3>2, <1>4
  <2> HIDE DEF y, n, m
  <2>2. Fields(y, x, x.s_index, 4, x.c_index + 1, x.g_index)
    <3>1. 4 \in Int /\ x.c_index + 1 \in Int /\ x.g_index \in Int
      BY <1>1, <1>2
    <3>2. QED
      BY <2>1, <3>1, CursorPC, Zenon
  <2>3. Lands
    BY <1>1, <1>2, <1>4, <2>2 DEF ValidIn, Fields
  <2>4. ASSUME NEW p, NEW i PROVE ~Skips(p, i)
    BY <1>1, <1>2, <1>4, <2>2 DEF Fields, InSigner, UpTo, Item
  <2>5. Ahead(x, y)
    BY <1>1, <1>2, <1>4, <2>2 DEF Fields, Ahead, Item
  <2> QED
    BY <2>2, <2>3, <2>4, <2>5 DEF Fields, y, n, m
<1>5. CASE x.p_index \in {3, 4} /\ ~(x.c_index + 1 < n) /\ 0 < m
  <2>0. x.c_index + 1 = n /\ x.g_index = -1
    BY <1>1, <1>5
  <2>1. y = [x EXCEPT !.p_index = 5, !.c_index = x.c_index + 1, !.g_index = x.g_index + 1]
    <3>1. CASE x.p_index = 3
      BY <1>1, <1>5, <2>0, <3>1 DEF NextWithin, HasItem
    <3>2. CASE x.p_index = 4
      BY <1>1, <1>5, <2>0, <3>2 DEF NextWithin, HasItem
    <3>3. QED
      BY <3>1, <3>2, <1>5
  <2> HIDE DEF y, n, m
  <2>2. Fields(y, x, x.s_index, 5, x.c_index + 1, x.g_index + 1)
    <3>1. 5 \in Int /\ x.c_index + 1 \in Int /\ x.g_index + 1 \in Int
      BY <1>1, <1>2
    <3>2. QED
      BY <2>1, <3>1, CursorPCG, Zenon
  <2>3. Lands
    BY <1>1, <1>2, <1>5, <2>0, <2>2 DEF ValidIn, Fields
  <2>4. ASSUME NEW p, NEW i PROVE ~Skips(p, i)
    BY <1>1, <1>2, <1>5, <2>0, <2>2 DEF Fields, InSigner, UpTo, Item
  <2>5. Ahead(x, y)
    BY <1>1, <1>2, <1>5, <2>0, <2>2 DEF Fields, Ahead, Item
  <2> QED
    BY <2>2, <2>3, <2>4, <2>5 DEF Fields, y, n, m
<1>6. CASE x.p_index = 5 /\ x.g_index + 1 < m
  <2>1. y = [x EXCEPT !.p_index = 5, !.c_index = x.c_index, !.g_index = x.g_index + 1]
    BY <1>1, <1>6 DEF NextWithin, HasItem
  <2> HIDE DEF y, n, m
  <2>2. Fields(y, x, x.s_index, 5, x.c_index, x.g_index + 1)
    <3>1. 5 \in Int /\ x.c_index \in Int /\ x.g_index + 1 \in Int
      BY <1>1, <1>2
    <3>2. QED
      BY <2>1, <3>1, CursorPCG, Zenon
  <2>3. Lands
    BY <1>1, <1>2, <1>6, <2>2 DEF ValidIn, Fields
  <2>4. ASSUME NEW p, NEW i PROVE ~Skips(p, i)
    BY <1>1, <1>2, <1>6, <2>2 DEF Fields, InSigner, UpTo, Item
  <2>5. Ahead(x, y)
    BY <1>1, <1>2, <1>6, <2>2 DEF Fields, Ahead, Item
  <2> QED
    BY <2>2, <2>3, <2>4, <2>5 DEF Fields, y, n, m
<1>7. CASE x.p_index \in {3, 4} /\ ~(x.c_index + 1 < n) /\ ~(0 < m)
  <2>0. x.c_index + 1 = n /\ x.g_index = -1 /\ m = 0
    BY <1>1, <1>7
  <2>1. y = [x EXCEPT !.p_index = 6, !.c_index = x.c_index + 1, !.g_index = x.g_index + 1]
    <3>1. CASE x.p_index = 3
      BY <1>1, <1>7, <2>0, <3>1 DEF NextWithin, HasItem
    <3>2. CASE x.p_index = 4
      BY <1>1, <1>7, <2>0, <3>2 DEF NextWithin, HasItem
    <3>3. QED
      BY <3>1, <3>2, <1>7
  <2> HIDE DEF y, n, m
  <2>2. Fields(y, x, x.s_index, 6, x.c_index + 1, x.g_index + 1)
    <3>1. 6 \in Int /\ x.c_index + 1 \in Int /\ x.g_index + 1 \in Int
      BY <1>1, <1>2
    <3>2. QED
      BY <2>1, <3>1, CursorPCG, Zenon
  <2>3. Lands
    BY <1>1, <1>2, <1>7, <2>0, <2>2 DEF ValidIn, Fields
  <2>4. ASSUME NEW p, NEW i PROVE ~Skips(p, i)
    BY <1>1, <1>2, <1>7, <2>0, <2>2 DEF Fields, InSigner, UpTo, Item
  <2>5. Ahead(x, y)
    BY <1>1, <1>2, <1>7, <2>0, <2>2 DEF Fields, Ahead, Item
  <2> QED
    BY <2>2, <2>3, <2>4, <2>5 DEF Fields, y, n, m
<1>8. CASE x.p_index = 5 /\ ~(x.g_index + 1 < m)
  <2>0. x.g_index + 1 = m /\ x.c_index = n
    BY <1>1, <1>8
  <2>1. y = [x EXCEPT !.p_index = 6, !.c_index = x.c_index, !.g_index = x.g_index + 1]
    BY <1>1, <1>8, <2>0 DEF NextWithin, HasItem
  <2> HIDE DEF y, n, m
  <2>2. Fields(y, x, x.s_index, 6, x.c_index, x.g_index + 1)
    <3>1. 6 \in Int /\ x.c_index \in Int /\ x.g_index + 1 \in Int
      BY <1>1, <1>2
    <3>2. QED
      BY <2>1, <3>1, CursorPCG, Zenon
  <2>3. Lands
    BY <1>1, <1>2, <1>8, <2>0, <2>2 DEF ValidIn, Fields
  <2>4. ASSUME NEW p, NEW i PROVE ~Skips(p, i)
    BY <1>1, <1>2, <1>8, <2>0, <2>2 DEF Fields, InSigner, UpTo, Item
  <2>5. Ahead(x, y)
    BY <1>1, <1>2, <1>8, <2>0, <2>2 DEF Fields, Ahead, Item
  <2> QED
    BY <2>2, <2>3, <2>4, <2>5 DEF Fields, y, n, m
<1> QED
  BY <1>1, <1>3, <1>4, <1>5, <1>6, <1>7, <1>8

\* next_prop lands on a valid cursor past START and leaves out no page.
LEMMA NextIsNext ==
    ASSUME NEW l \in Reviews, NEW x, Valid(x, l), x.p_index # 6
    PROVE  LET y == next_prop(x, l)
           IN  /\ Valid(y, l) /\ y.p_index # 0 /\ (x.p_index = 0 => y.p_index = 1)
               /\ Later(x, y)
               /\ \A pg \in Pages(l) :
                     Reached(pg, y) => Reached(pg, x) \/ (HasData(y) /\ pg = PageAt(y))
<1> DEFINE s == x.s_index
           sg == l[s + 1]
           y == NextWithin(x, sg)
           z == [y EXCEPT !.s_index = y.s_index + 1, !.p_index = 0, !.c_index = -1, !.g_index = -1]
           sh == l[s + 2]
           w == NextWithin(z, sh)
<1>1. /\ x \in CursorRecords /\ s \in 0..(Len(l) - 1) /\ Len(l) \in Nat \ {0}
      /\ ValidIn(x, sg.contracts, sg.groups) /\ sg.contracts \in Nat /\ sg.groups \in Nat
  BY SignerFacts DEF Valid
<1>2. /\ y \in CursorRecords /\ y.s_index = s
      /\ ValidIn(y, sg.contracts, sg.groups) /\ y.p_index # 0
      /\ \A p, i : InSigner(p, i, sg.contracts, sg.groups) /\ UpTo(p, i, y) =>
            UpTo(p, i, x) \/ (p = y.p_index /\ i = Item(y))
      /\ x.p_index = 0 => y.p_index = 1
      /\ Ahead(x, y)
  BY <1>1, ForwardWithin
<1> HIDE DEF y
<1>3. y.p_index \in 1..6
  BY <1>2 DEF ValidIn
<1>4. ASSUME NEW pg \in Pages(l), pg.s = s, UpTo(pg.p, pg.i, y)
      PROVE  UpTo(pg.p, pg.i, x) \/ (pg.p = y.p_index /\ pg.i = Item(y))
  BY <1>2, <1>4, PageFacts
<1>5. CASE ~(y.p_index = 6 /\ s + 1 # Len(l))
  <2>1. next_prop(x, l) = y
    BY <1>2, <1>5 DEF next_prop, y
  <2>2. Valid(y, l)
    BY <1>1, <1>2, <1>3, <1>5 DEF Valid
  <2>3. ASSUME NEW pg \in Pages(l), Reached(pg, y), ~Reached(pg, x)
        PROVE  HasData(y) /\ pg = PageAt(y)
    <3>1. pg.s = s /\ pg.p = y.p_index /\ pg.i = Item(y)
      BY <1>2, <1>4, <2>3 DEF Reached
    <3>2. pg = [s |-> pg.s, p |-> pg.p, i |-> pg.i] /\ pg.p \in 1..5
      BY PageFacts DEF InSigner
    <3>3. pg = PageAt(y)
      BY <1>2, <3>1, <3>2, PageFields
    <3>4. HasData(y)
      BY <3>1, <3>2 DEF HasData
    <3> QED
      BY <3>3, <3>4
  <2>4. Later(x, y)
    BY <1>2 DEF Later
  <2> QED
    BY <1>2, <2>1, <2>2, <2>3, <2>4
<1>6. CASE y.p_index = 6 /\ s + 1 # Len(l)
  <2>1. next_prop(x, l) = w
    BY <1>2, <1>6 DEF next_prop, y
  <2>2. s + 1 \in 0..(Len(l) - 1)
    BY <1>1, <1>6
  <2>3. sh.contracts \in Nat /\ sh.groups \in Nat
    <3>1. s + 2 = (s + 1) + 1
      BY <1>1
    <3> QED
      BY <2>2, <3>1, SignerFacts
  <2>4. Fields(z, y, s + 1, 0, -1, -1)
    <3>1. s + 1 \in Int /\ 0 \in Int /\ -1 \in Int
      BY <1>1
    <3>2. z = [y EXCEPT !.s_index = s + 1, !.p_index = 0, !.c_index = -1, !.g_index = -1]
      BY <1>2
    <3> HIDE DEF z
    <3> QED
      BY <1>2, <3>1, <3>2, CursorSPCG, Zenon
  <2> HIDE DEF z
  <2>5. z \in CursorRecords /\ z.s_index = s + 1 /\ z.p_index = 0
    BY <2>4 DEF Fields
  <2>6. ValidIn(z, sh.contracts, sh.groups)
    BY <2>4 DEF Fields, ValidIn
  <2> HIDE DEF sh
  <2>7. /\ w \in CursorRecords /\ w.s_index = s + 1
        /\ ValidIn(w, sh.contracts, sh.groups) /\ w.p_index = 1
        /\ \A p, i : InSigner(p, i, sh.contracts, sh.groups) /\ UpTo(p, i, w) =>
              UpTo(p, i, z) \/ (p = w.p_index /\ i = Item(w))
    BY <2>3, <2>5, <2>6, ForwardWithin
  <2> HIDE DEF w
  <2>8. l[w.s_index + 1] = sh
    BY <1>1, <2>7 DEF sh
  <2>9. Valid(w, l)
    BY <2>2, <2>7, <2>8 DEF Valid
  <2>10. ASSUME NEW pg \in Pages(l), Reached(pg, w), ~Reached(pg, x)
         PROVE  HasData(w) /\ pg = PageAt(w)
    <3>1. /\ pg = [s |-> pg.s, p |-> pg.p, i |-> pg.i] /\ pg.s \in Nat
          /\ InSigner(pg.p, pg.i, l[pg.s + 1].contracts, l[pg.s + 1].groups)
      BY PageFacts
    <3>2. pg.p \in 1..5
      BY <3>1 DEF InSigner
    <3>3. pg.s = s + 1
      <4>1. pg.s # s
        <5>1. SUFFICES ASSUME pg.s = s PROVE FALSE
          OBVIOUS
        <5>2. UpTo(pg.p, pg.i, y)
          BY <1>6, <3>2 DEF UpTo
        <5>3. UpTo(pg.p, pg.i, x)
          BY <1>4, <1>6, <3>2, <5>1, <5>2
        <5> QED
          BY <2>10, <5>1, <5>3 DEF Reached
      <4>2. pg.s < s + 1 \/ pg.s = s + 1
        BY <2>7, <2>10 DEF Reached
      <4>3. ~(pg.s < s)
        BY <2>10 DEF Reached
      <4>4. s \in Int /\ pg.s \in Int
        BY <1>1, <3>1
      <4> HIDE DEF s
      <4> QED
        BY <4>1, <4>2, <4>3, <4>4
    <3>4. UpTo(pg.p, pg.i, w)
      <4>1. ~(pg.s < w.s_index)
        BY <1>1, <2>7, <3>3
      <4> QED
        BY <2>10, <4>1 DEF Reached
    <3>5. l[pg.s + 1] = sh
      BY <2>7, <2>8, <3>3
    <3>6. ~UpTo(pg.p, pg.i, z)
      BY <2>5, <3>2 DEF UpTo
    <3>7. pg.p = w.p_index /\ pg.i = Item(w)
      <4>1. InSigner(pg.p, pg.i, sh.contracts, sh.groups)
        BY <3>1, <3>5
      <4> QED
        BY <2>7, <3>4, <3>6, <4>1
    <3>8. pg = PageAt(w)
      BY <2>7, <3>1, <3>3, <3>7, PageFields
    <3> QED
      BY <3>2, <3>7, <3>8 DEF HasData
  <2>11. Later(x, w)
    BY <1>1, <2>7 DEF Later
  <2> QED
    BY <2>1, <2>7, <2>9, <2>10, <2>11
<1> QED
  BY <1>5, <1>6

-----------------------------------------------------------------------------
(* Backwards. *)

\* Within a signer prev_prop goes to the item before, or to START before the first.
LEMMA BackWithin ==
    ASSUME NEW x \in CursorRecords, NEW n \in Nat, NEW m \in Nat,
           ValidIn(x, n, m), x.p_index # 0
    PROVE  LET y == PrevWithin(x)
           IN  /\ y \in CursorRecords /\ y.s_index = x.s_index
               /\ ValidIn(y, n, m) /\ y.p_index # 6
               /\ \A p, i : InSigner(p, i, n, m) /\ UpTo(p, i, y) => UpTo(p, i, x)
               /\ y.p_index = 0 <=> x.p_index = 1
               /\ \A p, i : InSigner(p, i, n, m) /\ UpTo(p, i, x) =>
                     UpTo(p, i, y) \/ (p = x.p_index /\ i = Item(x))
               /\ Ahead(y, x)
<1> DEFINE y == PrevWithin(x)
           Lands == ValidIn(y, n, m) /\ y.p_index # 6 /\ (y.p_index = 0 <=> x.p_index = 1)
           Skips(p, i) == /\ InSigner(p, i, n, m) /\ UpTo(p, i, x)
                          /\ ~UpTo(p, i, y) /\ ~(p = x.p_index /\ i = Item(x))
           Strays(p, i) == InSigner(p, i, n, m) /\ UpTo(p, i, y) /\ ~UpTo(p, i, x)
<1>1. /\ x.p_index \in 1..6
      /\ x.p_index <= 3 => x.c_index = -1 /\ x.g_index = -1
      /\ x.p_index = 4 => x.c_index \in 0..(n - 1) /\ x.g_index = -1
      /\ x.p_index >= 5 => x.c_index = n
      /\ x.p_index = 5 => x.g_index \in 0..(m - 1)
      /\ x.p_index = 6 => x.g_index = m
  BY DEF ValidIn
<1>2. x.s_index \in Int /\ x.c_index \in Int /\ x.g_index \in Int
  BY DEF CursorRecords
<1>3. CASE x.p_index <= 3
  <2>1. y = [x EXCEPT !.p_index = x.p_index - 1]
    BY <1>1, <1>3 DEF PrevWithin
  <2> HIDE DEF y
  <2>2. Fields(y, x, x.s_index, x.p_index - 1, x.c_index, x.g_index)
    <3>1. x.p_index - 1 \in Int
      BY <1>1
    <3>2. QED
      BY <2>1, <3>1, CursorP, Zenon
  <2>3. Lands
    BY <1>1, <1>2, <1>3, <2>2 DEF ValidIn, Fields
  <2>4. ASSUME NEW p, NEW i PROVE ~Strays(p, i)
    BY <1>1, <1>2, <1>3, <2>2 DEF Fields, InSigner, UpTo, Item
  <2>5. ASSUME NEW p, NEW i PROVE ~Skips(p, i)
    BY <1>1, <1>2, <1>3, <2>2 DEF Fields, InSigner, UpTo, Item
  <2>6. Ahead(y, x)
    BY <1>1, <1>2, <1>3, <2>2 DEF Fields, Ahead, Item
  <2> QED
    BY <2>2, <2>3, <2>4, <2>5, <2>6 DEF Fields, y
<1>4. CASE x.p_index = 4 /\ x.c_index > 0
  <2>1. y = [x EXCEPT !.p_index = 4, !.c_index = x.c_index - 1, !.g_index = x.g_index]
    BY <1>1, <1>4 DEF PrevWithin
  <2> HIDE DEF y
  <2>2. Fields(y, x, x.s_index, 4, x.c_index - 1, x.g_index)
    <3>1. 4 \in Int /\ x.c_index - 1 \in Int /\ x.g_index \in Int
      BY <1>1, <1>2
    <3>2. QED
      BY <2>1, <3>1, CursorPCG, Zenon
  <2>3. Lands
    BY <1>1, <1>2, <1>4, <2>2 DEF ValidIn, Fields
  <2>4. ASSUME NEW p, NEW i PROVE ~Strays(p, i)
    BY <1>1, <1>2, <1>4, <2>2 DEF Fields, InSigner, UpTo, Item
  <2>5. ASSUME NEW p, NEW i PROVE ~Skips(p, i)
    BY <1>1, <1>2, <1>4, <2>2 DEF Fields, InSigner, UpTo, Item
  <2>6. Ahead(y, x)
    BY <1>1, <1>2, <1>4, <2>2 DEF Fields, Ahead, Item
  <2> QED
    BY <2>2, <2>3, <2>4, <2>5, <2>6 DEF Fields, y
<1>5. CASE x.p_index = 4 /\ ~(x.c_index > 0)
  <2>1. y = [x EXCEPT !.p_index = 3, !.c_index = x.c_index - 1, !.g_index = x.g_index]
    BY <1>1, <1>2, <1>5 DEF PrevWithin
  <2> HIDE DEF y
  <2>2. Fields(y, x, x.s_index, 3, x.c_index - 1, x.g_index)
    <3>1. 3 \in Int /\ x.c_index - 1 \in Int /\ x.g_index \in Int
      BY <1>1, <1>2
    <3>2. QED
      BY <2>1, <3>1, CursorPCG, Zenon
  <2>3. Lands
    BY <1>1, <1>2, <1>5, <2>2 DEF ValidIn, Fields
  <2>4. ASSUME NEW p, NEW i PROVE ~Strays(p, i)
    BY <1>1, <1>2, <1>5, <2>2 DEF Fields, InSigner, UpTo, Item
  <2>5. ASSUME NEW p, NEW i PROVE ~Skips(p, i)
    BY <1>1, <1>2, <1>5, <2>2 DEF Fields, InSigner, UpTo, Item
  <2>6. Ahead(y, x)
    BY <1>1, <1>2, <1>5, <2>2 DEF Fields, Ahead, Item
  <2> QED
    BY <2>2, <2>3, <2>4, <2>5, <2>6 DEF Fields, y
<1>6. CASE x.p_index \in {5, 6} /\ x.g_index > 0
  <2>1. y = [x EXCEPT !.p_index = 5, !.g_index = x.g_index - 1]
    <3>1. CASE x.p_index = 5
      BY <1>1, <1>2, <1>6, <3>1 DEF PrevWithin
    <3>2. CASE x.p_index = 6
      BY <1>1, <1>2, <1>6, <3>2 DEF PrevWithin
    <3>3. QED
      BY <1>6, <3>1, <3>2
  <2> HIDE DEF y
  <2>2. Fields(y, x, x.s_index, 5, x.c_index, x.g_index - 1)
    <3>1. 5 \in Int /\ x.g_index - 1 \in Int
      BY <1>1, <1>2
    <3>2. QED
      BY <2>1, <3>1, CursorPG, Zenon
  <2>3. Lands
    BY <1>1, <1>2, <1>6, <2>2 DEF ValidIn, Fields
  <2>4. ASSUME NEW p, NEW i PROVE ~Strays(p, i)
    BY <1>1, <1>2, <1>6, <2>2 DEF Fields, InSigner, UpTo, Item
  <2>5. ASSUME NEW p, NEW i PROVE ~Skips(p, i)
    BY <1>1, <1>2, <1>6, <2>2 DEF Fields, InSigner, UpTo, Item
  <2>6. Ahead(y, x)
    BY <1>1, <1>2, <1>6, <2>2 DEF Fields, Ahead, Item
  <2> QED
    BY <2>2, <2>3, <2>4, <2>5, <2>6 DEF Fields, y
<1>7. CASE x.p_index \in {5, 6} /\ ~(x.g_index > 0) /\ n > 0
  <2>1. y = [x EXCEPT !.p_index = 4, !.c_index = x.c_index - 1, !.g_index = x.g_index - 1]
    <3>1. CASE x.p_index = 5
      BY <1>1, <1>2, <1>7, <3>1 DEF PrevWithin
    <3>2. CASE x.p_index = 6
      BY <1>1, <1>2, <1>7, <3>2 DEF PrevWithin
    <3>3. QED
      BY <1>7, <3>1, <3>2
  <2> HIDE DEF y
  <2>2. Fields(y, x, x.s_index, 4, x.c_index - 1, x.g_index - 1)
    <3>1. 4 \in Int /\ x.c_index - 1 \in Int /\ x.g_index - 1 \in Int
      BY <1>1, <1>2
    <3>2. QED
      BY <2>1, <3>1, CursorPCG, Zenon
  <2>3. Lands
    BY <1>1, <1>2, <1>7, <2>2 DEF ValidIn, Fields
  <2>4. ASSUME NEW p, NEW i PROVE ~Strays(p, i)
    BY <1>1, <1>2, <1>7, <2>2 DEF Fields, InSigner, UpTo, Item
  <2>5. ASSUME NEW p, NEW i PROVE ~Skips(p, i)
    BY <1>1, <1>2, <1>7, <2>2 DEF Fields, InSigner, UpTo, Item
  <2>6. Ahead(y, x)
    BY <1>1, <1>2, <1>7, <2>2 DEF Fields, Ahead, Item
  <2> QED
    BY <2>2, <2>3, <2>4, <2>5, <2>6 DEF Fields, y
<1>8. CASE x.p_index \in {5, 6} /\ ~(x.g_index > 0) /\ ~(n > 0)
  <2>1. y = [x EXCEPT !.p_index = 3, !.c_index = x.c_index - 1, !.g_index = x.g_index - 1]
    <3>1. CASE x.p_index = 5
      BY <1>1, <1>2, <1>8, <3>1 DEF PrevWithin
    <3>2. CASE x.p_index = 6
      BY <1>1, <1>2, <1>8, <3>2 DEF PrevWithin
    <3>3. QED
      BY <1>8, <3>1, <3>2
  <2> HIDE DEF y
  <2>2. Fields(y, x, x.s_index, 3, x.c_index - 1, x.g_index - 1)
    <3>1. 3 \in Int /\ x.c_index - 1 \in Int /\ x.g_index - 1 \in Int
      BY <1>1, <1>2
    <3>2. QED
      BY <2>1, <3>1, CursorPCG, Zenon
  <2>3. Lands
    BY <1>1, <1>2, <1>8, <2>2 DEF ValidIn, Fields
  <2>4. ASSUME NEW p, NEW i PROVE ~Strays(p, i)
    BY <1>1, <1>2, <1>8, <2>2 DEF Fields, InSigner, UpTo, Item
  <2>5. ASSUME NEW p, NEW i PROVE ~Skips(p, i)
    BY <1>1, <1>2, <1>8, <2>2 DEF Fields, InSigner, UpTo, Item
  <2>6. Ahead(y, x)
    BY <1>1, <1>2, <1>8, <2>2 DEF Fields, Ahead, Item
  <2> QED
    BY <2>2, <2>3, <2>4, <2>5, <2>6 DEF Fields, y
<1> QED
  BY <1>1, <1>2, <1>3, <1>4, <1>5, <1>6, <1>7, <1>8

\* prev_prop lands on a valid cursor before END and reaches no new page.
LEMMA PrevIsBack ==
    ASSUME NEW l \in Reviews, NEW x, Valid(x, l), x.p_index # 0
    PROVE  LET y == prev_prop(x, l)
           IN  /\ Valid(y, l) /\ y.p_index # 6 /\ (x.p_index # 1 => y.p_index # 0)
               /\ \A pg \in Pages(l) : Reached(pg, y) => Reached(pg, x)
               /\ \A pg \in Pages(l) :
                     Reached(pg, x) => Reached(pg, y) \/ (HasData(x) /\ pg = PageAt(x))
               /\ Later(y, x)
<1> DEFINE s == x.s_index
           n == l[s + 1].contracts
           m == l[s + 1].groups
           y == PrevWithin(x)
           e == EndOf(y, y.s_index - 1, l[y.s_index])
           w == PrevWithin(e)
<1>1. /\ x \in CursorRecords /\ s \in 0..(Len(l) - 1) /\ Len(l) \in Nat \ {0}
      /\ ValidIn(x, n, m) /\ n \in Nat /\ m \in Nat
  BY SignerFacts DEF Valid
<1>2. /\ y \in CursorRecords /\ y.s_index = s /\ ValidIn(y, n, m) /\ y.p_index # 6
      /\ \A p, i : InSigner(p, i, n, m) /\ UpTo(p, i, y) => UpTo(p, i, x)
      /\ y.p_index = 0 <=> x.p_index = 1
      /\ \A p, i : InSigner(p, i, n, m) /\ UpTo(p, i, x) =>
            UpTo(p, i, y) \/ (p = x.p_index /\ i = Item(x))
      /\ Ahead(y, x)
  BY <1>1, BackWithin
<1> HIDE DEF y
<1>6. ASSUME NEW pg \in Pages(l), pg.s = s, UpTo(pg.p, pg.i, x)
      PROVE  UpTo(pg.p, pg.i, y) \/ (HasData(x) /\ pg = PageAt(x))
  <2>1. /\ pg = [s |-> pg.s, p |-> pg.p, i |-> pg.i]
        /\ InSigner(pg.p, pg.i, n, m) /\ pg.p \in 1..5
    BY <1>6, PageFacts DEF InSigner
  <2>2. UpTo(pg.p, pg.i, y) \/ (pg.p = x.p_index /\ pg.i = Item(x))
    BY <1>2, <1>6, <2>1
  <2>3. CASE pg.p = x.p_index /\ pg.i = Item(x)
    <3>1. pg = PageAt(x)
      BY <1>6, <2>1, <2>3, PageFields
    <3> QED
      BY <2>1, <2>3, <3>1 DEF HasData
  <2> QED
    BY <2>2, <2>3
<1>3. CASE s = 0 /\ x.p_index = 1
  <2> DEFINE v == [x EXCEPT !.p_index = 0]
  <2>1. prev_prop(x, l) = v
    BY <1>3 DEF prev_prop
  <2> HIDE DEF v
  <2>2. Fields(v, x, s, 0, x.c_index, x.g_index)
    <3>1. 0 \in Int
      OBVIOUS
    <3> QED
      BY <1>1, <3>1, CursorP, Zenon DEF v
  <2>3. x.c_index = -1 /\ x.g_index = -1
    BY <1>1, <1>3 DEF ValidIn
  <2>4. Valid(v, l)
    BY <1>1, <1>3, <2>2, <2>3 DEF Valid, ValidIn, Fields
  <2>5. ASSUME NEW pg \in Pages(l), Reached(pg, v) PROVE Reached(pg, x)
    <3>1. pg.p \in 1..5
      BY PageFacts DEF InSigner
    <3> QED
      BY <2>2, <2>5, <3>1 DEF Fields, Reached, UpTo
  <2>6. ASSUME NEW pg \in Pages(l), Reached(pg, x)
        PROVE  HasData(x) /\ pg = PageAt(x)
    <3>1. pg.s \in Nat /\ pg.s = s
      BY <1>1, <1>3, <2>6, PageFacts DEF Reached
    <3>2. UpTo(pg.p, pg.i, x)
      BY <1>3, <2>6, <3>1 DEF Reached
    <3>3. pg.p \in 1..5
      BY PageFacts DEF InSigner
    <3>4. ~UpTo(pg.p, pg.i, y)
      <4>1. y.p_index = 0
        BY <1>2, <1>3
      <4> QED
        BY <3>3, <4>1 DEF UpTo
    <3> QED
      BY <1>6, <3>1, <3>2, <3>4
  <2>7. Later(v, x)
    BY <1>1, <1>3, <2>2 DEF Fields, Later, Ahead
  <2> QED
    BY <1>3, <2>1, <2>2, <2>4, <2>5, <2>6, <2>7 DEF Fields
<1>4. CASE ~(s = 0 /\ x.p_index = 1) /\ ~(y.p_index = 0 /\ s > 0)
  <2>1. prev_prop(x, l) = y
    BY <1>2, <1>4 DEF prev_prop, y
  <2>2. y.p_index # 0
    BY <1>1, <1>2, <1>4
  <2>3. Valid(y, l)
    BY <1>1, <1>2, <2>2 DEF Valid
  <2>4. ASSUME NEW pg \in Pages(l), Reached(pg, y) PROVE Reached(pg, x)
    <3>1. CASE pg.s < s
      BY <3>1 DEF Reached
    <3>2. CASE pg.s = s
      <4>1. InSigner(pg.p, pg.i, n, m)
        BY <3>2, PageFacts
      <4>2. UpTo(pg.p, pg.i, y)
        BY <1>1, <1>2, <2>4, <3>2 DEF Reached
      <4> QED
        BY <1>2, <3>2, <4>1, <4>2 DEF Reached
    <3> QED
      BY <1>2, <2>4, <3>1, <3>2 DEF Reached
  <2>5. ASSUME NEW pg \in Pages(l), Reached(pg, x)
        PROVE  Reached(pg, y) \/ (HasData(x) /\ pg = PageAt(x))
    <3>1. CASE pg.s < s
      BY <1>2, <3>1 DEF Reached
    <3>2. CASE pg.s = s
      <4>1. UpTo(pg.p, pg.i, x)
        BY <1>1, <2>5, <3>2 DEF Reached
      <4> QED
        BY <1>2, <1>6, <3>2, <4>1 DEF Reached
    <3> QED
      BY <2>5, <3>1, <3>2 DEF Reached
  <2>6. Later(y, x)
    BY <1>2 DEF Later
  <2> QED
    BY <1>2, <2>1, <2>3, <2>4, <2>5, <2>6
<1>5. CASE y.p_index = 0 /\ s > 0
  <2> DEFINE sh == l[s]
             t == s - 1
  <2>1. prev_prop(x, l) = w
    BY <1>2, <1>5 DEF prev_prop, y
  <2>2. t \in 0..(Len(l) - 1) /\ t + 1 = s
    BY <1>1, <1>5
  <2>3. sh.contracts \in Nat /\ sh.groups \in Nat
    BY <2>2, SignerFacts
  <2>4. Fields(e, y, t, 6, sh.contracts, sh.groups)
    <3>1. t \in Int /\ 6 \in Int /\ sh.contracts \in Int /\ sh.groups \in Int
      BY <2>2, <2>3
    <3>2. e = [y EXCEPT !.s_index = t, !.p_index = 6,
                        !.c_index = sh.contracts, !.g_index = sh.groups]
      BY <1>2 DEF EndOf
    <3> HIDE DEF e, t, sh
    <3> QED
      BY <1>2, <3>1, <3>2, CursorSPCG, Zenon
  <2> HIDE DEF e, sh, t
  <2>5. e \in CursorRecords /\ e.s_index = t /\ e.p_index = 6
    BY <2>4 DEF Fields
  <2>6. ValidIn(e, sh.contracts, sh.groups)
    BY <2>4 DEF Fields, ValidIn
  <2>7. /\ w \in CursorRecords /\ w.s_index = t
        /\ ValidIn(w, sh.contracts, sh.groups) /\ w.p_index # 6 /\ w.p_index # 0
        /\ \A p, i : InSigner(p, i, sh.contracts, sh.groups) /\ UpTo(p, i, e) =>
              UpTo(p, i, w) \/ (p = e.p_index /\ i = Item(e))
    BY <2>3, <2>5, <2>6, BackWithin
  <2> HIDE DEF w
  <2>8. l[w.s_index + 1] = sh
    BY <2>2, <2>7 DEF sh
  <2>9. Valid(w, l)
    BY <2>2, <2>7, <2>8 DEF Valid
  <2>10. ASSUME NEW pg \in Pages(l), Reached(pg, w) PROVE Reached(pg, x)
    <3>1. pg.s \in Int /\ s \in Int
      BY <1>1, PageFacts
    <3>2. pg.s < t \/ pg.s = t
      BY <2>7, <2>10 DEF Reached
    <3>3. pg.s < s
      BY <2>2, <3>1, <3>2
    <3> QED
      BY <3>3 DEF Reached
  <2>11. ASSUME NEW pg \in Pages(l), Reached(pg, x)
         PROVE  Reached(pg, w) \/ (HasData(x) /\ pg = PageAt(x))
    <3>1. pg.s \in Int /\ s \in Int /\ pg.p \in 1..5
          /\ InSigner(pg.p, pg.i, l[pg.s + 1].contracts, l[pg.s + 1].groups)
      BY <1>1, PageFacts DEF InSigner
    <3>2. pg.s < t \/ pg.s = t \/ pg.s = s
      BY <2>2, <2>11, <3>1 DEF Reached
    <3>3. CASE pg.s < t
      BY <2>7, <3>3 DEF Reached
    <3>4. CASE pg.s = t
      <4>1. l[pg.s + 1] = sh
        BY <2>2, <3>4 DEF sh
      <4>2. UpTo(pg.p, pg.i, e) /\ pg.p # e.p_index
        BY <2>5, <3>1 DEF UpTo
      <4>3. UpTo(pg.p, pg.i, w)
        BY <2>7, <3>1, <4>1, <4>2
      <4> QED
        BY <2>7, <3>4, <4>3 DEF Reached
    <3>5. CASE pg.s = s
      <4>1. UpTo(pg.p, pg.i, x)
        BY <2>11, <3>1, <3>5 DEF Reached
      <4>2. ~UpTo(pg.p, pg.i, y)
        BY <1>5, <3>1 DEF UpTo
      <4> QED
        BY <1>6, <3>5, <4>1, <4>2
    <3> QED
      BY <3>2, <3>3, <3>4, <3>5
  <2>12. Later(w, x)
    BY <1>1, <2>2, <2>7 DEF Later
  <2> QED
    BY <2>1, <2>7, <2>9, <2>10, <2>11, <2>12
<1> QED
  BY <1>3, <1>4, <1>5

-----------------------------------------------------------------------------
(* The theorems. *)

\* current_state has no part in where a cursor is.
LEMMA CursorState ==
    ASSUME NEW l, NEW x, Valid(x, l), NEW st \in {"STATIC_SCREEN", "DYNAMIC_SCREEN"}
    PROVE  LET y == [x EXCEPT !.current_state = st]
           IN  /\ y.current_state = st /\ y.p_index = x.p_index
               /\ Valid(y, l)
               /\ \A pg : Reached(pg, y) => Reached(pg, x)
<1> DEFINE y == [x EXCEPT !.current_state = st]
<1>1. x \in CursorRecords
  BY DEF Valid
<1>2. /\ y \in CursorRecords /\ y.current_state = st /\ y.s_index = x.s_index
      /\ y.p_index = x.p_index /\ y.c_index = x.c_index /\ y.g_index = x.g_index
  BY <1>1 DEF CursorRecords
<1> HIDE DEF y
<1>3. ValidIn(y, l[x.s_index + 1].contracts, l[x.s_index + 1].groups)
  BY <1>2 DEF Valid, ValidIn
<1>4. Valid(y, l)
  BY <1>2, <1>3 DEF Valid
<1>5. ASSUME NEW pg, Reached(pg, y) PROVE Reached(pg, x)
  BY <1>2, <1>5 DEF Reached, UpTo, Item
<1> QED
  BY <1>2, <1>4, <1>5 DEF y

\* A delimiter takes the user to a page or out of the signers, and leaves no page out.
LEMMA DelimiterKeepsPagerInv ==
    ASSUME PagerInv, NEW upper \in BOOLEAN, display_next_state(upper), UNCHANGED signers,
           index \in IF upper THEN {7, 9} ELSE {9, 11}
    PROVE  PagerInv'
<1> DEFINE x == display_ctx
           l == signers
           static == x.current_state = "STATIC_SCREEN"
           moved == IF upper = static THEN next_prop(x, l) ELSE prev_prop(x, l)
           data == HasData(moved)
           st == IF data THEN "DYNAMIC_SCREEN" ELSE "STATIC_SCREEN"
           d == [moved EXCEPT !.current_state = st]
<1>1. /\ l \in Reviews /\ Valid(x, l)
      /\ x.p_index \in 0..6 /\ x.current_state \in {"STATIC_SCREEN", "DYNAMIC_SCREEN"}
  BY DEF PagerInv, Valid, ValidIn, CursorRecords
<1>2. /\ display_ctx' = d
      /\ g_text' = IF data THEN PageAt(moved) ELSE g_text
      /\ index' = IF data \/ static THEN 9 ELSE IF upper THEN 7 ELSE 11
      /\ seen' = IF data THEN seen \cup {PageAt(moved)} ELSE seen
      /\ signers' = l
  BY DEF display_next_state, GENERIC_STEP, LAST_TEXT_STEP, APPROVE_STEP
<1>3. /\ index = 7 => x.p_index = 0
      /\ index = 9 => x.p_index \in 1..5
      /\ index = 11 => x.p_index = 6
      /\ static <=> x.p_index \in {0, 6}
  BY <1>1 DEF PagerInv, HasData, LAST_TEXT_STEP, GENERIC_STEP, APPROVE_STEP
<1>4. /\ Valid(moved, l)
      /\ \A pg \in Pages(l) :
            Reached(pg, moved) => Reached(pg, x) \/ (data /\ pg = PageAt(moved))
      /\ data \/ ~static
      /\ ~data => moved.p_index = IF upper THEN 0 ELSE 6
  <2>1. CASE upper /\ index = 7
    <3>1. moved = next_prop(x, l) /\ x.p_index = 0
      BY <1>3, <2>1
    <3>2. /\ Valid(moved, l) /\ moved.p_index = 1
          /\ \A pg \in Pages(l) :
                Reached(pg, moved) => Reached(pg, x) \/ (HasData(moved) /\ pg = PageAt(moved))
      BY <1>1, <3>1, NextIsNext
    <3>3. data
      BY <3>2 DEF HasData
    <3> QED
      BY <3>2, <3>3
  <2>2. CASE ~upper /\ index = 9
    <3>1. moved = next_prop(x, l) /\ x.p_index \in 1..5 /\ ~static
      BY <1>3, <2>2
    <3>2. /\ Valid(moved, l) /\ moved.p_index # 0
          /\ \A pg \in Pages(l) :
                Reached(pg, moved) => Reached(pg, x) \/ (HasData(moved) /\ pg = PageAt(moved))
      BY <1>1, <3>1, NextIsNext
    <3>3. ~data => moved.p_index = 6
      BY <3>2 DEF HasData
    <3> QED
      BY <2>2, <3>1, <3>2, <3>3
  <2>3. CASE upper /\ index = 9
    <3>0. x.p_index \in 1..5 /\ ~static /\ upper
      BY <1>3, <2>3
    <3>1. moved = prev_prop(x, l) /\ x.p_index \in 1..5 /\ ~static
      BY <3>0, Zenon
    <3>2. /\ Valid(moved, l) /\ moved.p_index # 6
          /\ \A pg \in Pages(l) : Reached(pg, moved) => Reached(pg, x)
      BY <1>1, <3>1, PrevIsBack
    <3>3. ~data => moved.p_index = 0
      BY <3>2 DEF HasData
    <3> QED
      BY <2>3, <3>1, <3>2, <3>3
  <2>4. CASE ~upper /\ index = 11
    <3>1. moved = prev_prop(x, l) /\ x.p_index = 6
      BY <1>3, <2>4
    <3>2. /\ Valid(moved, l) /\ moved.p_index # 6 /\ moved.p_index # 0
          /\ \A pg \in Pages(l) : Reached(pg, moved) => Reached(pg, x)
      BY <1>1, <3>1, PrevIsBack
    <3>3. data
      BY <3>2 DEF HasData
    <3> QED
      BY <3>2, <3>3
  <2> QED
    BY <2>1, <2>2, <2>3, <2>4
<1> HIDE DEF moved, static
<1>5. /\ d.current_state = st /\ d.p_index = moved.p_index
      /\ Valid(d, l)
      /\ \A pg : Reached(pg, d) => Reached(pg, moved)
  BY <1>4, CursorState
<1>6. HasData(d) <=> data
  BY <1>5 DEF HasData
<1>7. data => PageAt(moved) \in Pages(l)
  BY <1>1, <1>4, PageOfCursor
<1>8. moved.p_index \in 0..6
  BY <1>4 DEF Valid, ValidIn
<1> HIDE DEF d
<1>9. index' \in (0..REJECT_STEP) \ {UPPER_DELIMITER, LOWER_DELIMITER}
  BY <1>2 DEF REJECT_STEP, UPPER_DELIMITER, LOWER_DELIMITER
<1>10. /\ index' <= LAST_TEXT_STEP => d.p_index = START
       /\ index' = GENERIC_STEP => HasData(d)
       /\ index' >= APPROVE_STEP => d.p_index = END
  BY <1>2, <1>4, <1>5, <1>6, <1>8 DEF LAST_TEXT_STEP, GENERIC_STEP, APPROVE_STEP
<1>11. (d.current_state = "DYNAMIC_SCREEN") <=> HasData(d)
  BY <1>5, <1>6
<1>12. /\ g_text' \in Pages(l) \cup {AmountText}
       /\ seen' \subseteq Pages(l)
  BY <1>2, <1>7 DEF PagerInv
<1>13. ASSUME NEW pg \in Pages(l), Reached(pg, d) PROVE pg \in seen'
  <2>1. Reached(pg, x) \/ (data /\ pg = PageAt(moved))
    BY <1>4, <1>5, <1>13
  <2> QED
    BY <1>2, <2>1 DEF PagerInv
<1> QED
  BY <1>1, <1>2, <1>5, <1>9, <1>10, <1>11, <1>12, <1>13 DEF PagerInv

LEMMA PagerInvInit == Init => PagerInv
<1> SUFFICES ASSUME Init PROVE PagerInv
  OBVIOUS
<1> DEFINE f == FirstCursor
<1>1. /\ f \in CursorRecords /\ f.current_state = "STATIC_SCREEN" /\ f.s_index = 0
      /\ f.p_index = 0 /\ f.c_index = -1 /\ f.g_index = -1
  BY DEF FirstCursor, CursorRecords
<1>2. display_ctx = f /\ index = 0 /\ g_text = AmountText /\ seen = {} /\ signers \in Reviews
  BY DEF Init
<1> HIDE DEF f
<1>3. Valid(f, signers)
  <2>1. Len(signers) \in Nat \ {0}
    BY <1>2, SignerFacts
  <2> QED
    BY <1>1, <2>1 DEF Valid, ValidIn
<1>4. ~HasData(f)
  BY <1>1 DEF HasData
<1>5. ASSUME NEW pg \in Pages(signers) PROVE ~Reached(pg, f)
  <2>1. pg.s \in Nat /\ pg.p \in 1..5
    BY <1>2, PageFacts DEF InSigner
  <2> QED
    BY <1>1, <2>1 DEF Reached, UpTo
<1>6. index \in (0..REJECT_STEP) \ {UPPER_DELIMITER, LOWER_DELIMITER}
  BY <1>2 DEF REJECT_STEP, UPPER_DELIMITER, LOWER_DELIMITER
<1>7. ~(index = GENERIC_STEP) /\ ~(index >= APPROVE_STEP)
  BY <1>2 DEF GENERIC_STEP, APPROVE_STEP
<1> QED
  BY <1>1, <1>2, <1>3, <1>4, <1>5, <1>6, <1>7 DEF PagerInv

LEMMA PagerInvNext == PagerInv /\ [Next]_vars => PagerInv'
<1> SUFFICES ASSUME PagerInv, [Next]_vars PROVE PagerInv'
  OBVIOUS
<1>1. index \in {0, 1, 2, 3, 4, 5, 6, 7, 9, 11, 12}
  BY DEF PagerInv, REJECT_STEP, UPPER_DELIMITER, LOWER_DELIMITER
<1>2. ASSUME NEW n \in Int, MoveTo(n), n = index + 1 \/ n = index - 1
      PROVE  PagerInv'
  <2>1. CASE n \in {8, 10}
    <3> DEFINE u == n = UPPER_DELIMITER
    <3>1. u \in BOOLEAN /\ display_next_state(u) /\ UNCHANGED signers
      BY <1>2, <2>1 DEF MoveTo, UPPER_DELIMITER, LOWER_DELIMITER
    <3>2. index \in IF u THEN {7, 9} ELSE {9, 11}
      BY <1>1, <1>2, <2>1 DEF UPPER_DELIMITER
    <3> HIDE DEF u
    <3> QED
      BY <3>1, <3>2, DelimiterKeepsPagerInv
  <2>2. CASE n \notin {8, 10}
    <3>1. /\ n \in 0..12 /\ index' = n /\ UNCHANGED <<display_ctx, g_text, seen, signers>>
      BY <1>2, <2>2 DEF MoveTo, UPPER_DELIMITER, LOWER_DELIMITER, REJECT_STEP
    <3>2. n # 9 /\ (n <= 7 <=> index <= 7) /\ (n >= 11 <=> index >= 11)
      BY <1>1, <1>2, <2>2
    <3> QED
      BY <2>2, <3>1, <3>2
      DEF PagerInv, REJECT_STEP, UPPER_DELIMITER, LOWER_DELIMITER, LAST_TEXT_STEP,
          GENERIC_STEP, APPROVE_STEP
  <2> QED
    BY <2>1, <2>2
<1>3. CASE Right
  BY <1>1, <1>2, <1>3 DEF Right
<1>4. CASE Left
  BY <1>1, <1>2, <1>4 DEF Left
<1>5. CASE Review
  <2>1. Init'
    BY <1>5 DEF Review, Init
  <2>2. Init' => PagerInv'
    BY PagerInvInit, PTL
  <2> QED
    BY <2>1, <2>2
<1>6. CASE UNCHANGED vars
  BY <1>6 DEF vars, PagerInv
<1> QED
  BY <1>3, <1>4, <1>5, <1>6 DEF Next

\* The inductive invariant of the pager holds.
THEOREM PagerInvariant == Spec => []PagerInv
BY PagerInvInit, PagerInvNext, PTL DEF Spec

\* However many signers, contracts and groups int8_t indices can count, and whichever
\* way the user turns, no index of the pager (next_prop, prev_prop) leaves its array or
\* its width, and the generic step shows only properties the signers have.
THEOREM PagesTypeCorrect == Spec => []TypeOK
<1>1. PagerInv => TypeOK
  <2> SUFFICES ASSUME PagerInv PROVE TypeOK
    OBVIOUS
  <2> DEFINE x == display_ctx
             sg == signers[x.s_index + 1]
  <2>1. x \in CursorRecords /\ signers \in Reviews /\ x.s_index \in 0..(Len(signers) - 1)
    BY DEF PagerInv, Valid
  <2>2. Len(signers) \in 1..MAX_TX_SIGNERS /\ MAX_TX_SIGNERS \in Nat
    BY <2>1, ReviewsAssumption, BoundsAssumption
  <2>3. /\ sg.contracts \in 0..MAX_SIGNER_SUB_ITEMS /\ sg.groups \in 0..MAX_SIGNER_SUB_ITEMS
        /\ MAX_SIGNER_SUB_ITEMS \in Nat
    BY <2>1, SignerFacts
  <2>4. ValidIn(x, sg.contracts, sg.groups)
    BY DEF PagerInv, Valid
  <2>5. x.c_index \in -1..MAX_SIGNER_SUB_ITEMS
    BY <2>3, <2>4 DEF ValidIn
  <2>6. x.g_index \in -1..MAX_SIGNER_SUB_ITEMS
    BY <2>3, <2>4 DEF ValidIn
  <2>7. x.s_index \in 0..(MAX_TX_SIGNERS - 1) /\ x.p_index \in 0..6
    BY <2>1, <2>2, <2>4 DEF ValidIn
  <2>8. x \in Cursors
    BY <2>1, <2>5, <2>6, <2>7 DEF Cursors, CursorRecords
  <2> QED
    BY <2>8 DEF PagerInv, TypeOK
<1> QED
  BY <1>1, PagerInvariant, PTL

\* For any number of signers, contracts and groups: the approve and reject steps of
\* create_transaction_flow are on the screen only after every page of every signer was.
THEOREM AllSeen == Spec => []AllSeenBeforeDeciding
<1>1. PagerInv => AllSeenBeforeDeciding
  <2> SUFFICES ASSUME PagerInv, index \in {APPROVE_STEP, REJECT_STEP}
               PROVE  seen = Pages(signers)
    BY DEF AllSeenBeforeDeciding
  <2> DEFINE x == display_ctx
  <2>1. x.p_index = 6 /\ signers \in Reviews
    BY DEF PagerInv, APPROVE_STEP, REJECT_STEP
  <2>2. x.s_index = Len(signers) - 1
    BY <2>1 DEF PagerInv, Valid
  <2>3. ASSUME NEW pg \in Pages(signers) PROVE pg \in seen
    <3>1. pg.s \in 0..(Len(signers) - 1) /\ pg.p \in 1..5 /\ Len(signers) \in Nat
      BY <2>1, PageFacts, SignerFacts DEF InSigner
    <3>2. pg.s < x.s_index \/ pg.s = x.s_index
      BY <2>2, <3>1
    <3>3. Reached(pg, x)
      BY <2>1, <3>1, <3>2 DEF Reached, UpTo
    <3> QED
      BY <3>3 DEF PagerInv
  <2> QED
    BY <2>3 DEF PagerInv
<1> QED
  BY <1>1, PagerInvariant, PTL

-----------------------------------------------------------------------------
(* The order of the pages, and the screens that are made of it. *)

LEMMA TabulatedIs == \A f : Tabulated(f) = f
BY DEF Tabulated

LEMMA PagesAreFinite == ASSUME NEW l \in Reviews PROVE IsFiniteSet(Pages(l))
<1> DEFINE T == (0..(Len(l) - 1)) \X ((1..5) \X (0..MAX_SIGNER_SUB_ITEMS))
           f == [pg \in Pages(l) |-> <<pg.s, <<pg.p, pg.i>>>>]
<1>1. Len(l) - 1 \in Int /\ MAX_SIGNER_SUB_ITEMS \in Int
  BY SignerFacts
<1>2. IsFiniteSet(T)
  <2>1. IsFiniteSet(0..(Len(l) - 1)) /\ IsFiniteSet(1..5)
        /\ IsFiniteSet(0..MAX_SIGNER_SUB_ITEMS)
    <3>1. \A a, b \in Int : IsFiniteSet(a..b)
      BY FS_Interval, Zenon
    <3>2. 0 \in Int /\ 1 \in Int /\ 5 \in Int
      OBVIOUS
    <3> QED
      BY <1>1, <3>1, <3>2, Zenon
  <2>2. IsFiniteSet((1..5) \X (0..MAX_SIGNER_SUB_ITEMS))
    BY <2>1, FS_Product
  <2> QED
    BY <2>1, <2>2, FS_Product
<1>3. f \in [Pages(l) -> T]
  <2>1. ASSUME NEW pg \in Pages(l)
        PROVE  pg.s \in 0..(Len(l) - 1) /\ pg.p \in 1..5 /\ pg.i \in 0..MAX_SIGNER_SUB_ITEMS
    <3>1. /\ pg.s \in 0..(Len(l) - 1)
          /\ InSigner(pg.p, pg.i, l[pg.s + 1].contracts, l[pg.s + 1].groups)
      BY PageFacts
    <3>2. pg.i \in 0..MAX_SIGNER_SUB_ITEMS
      BY Zenon DEF Pages
    <3> QED
      BY <3>1, <3>2 DEF InSigner
  <2> QED
    BY <2>1
<1>4. ASSUME NEW a \in Pages(l), NEW b \in Pages(l), f[a] = f[b] PROVE a = b
  <2>1. a.s = b.s /\ a.p = b.p /\ a.i = b.i
    BY <1>4
  <2>2. a = [s |-> a.s, p |-> a.p, i |-> a.i] /\ b = [s |-> b.s, p |-> b.p, i |-> b.i]
    BY PageFacts
  <2> QED
    BY <2>1, <2>2
<1> HIDE DEF f, T
<1>5. f \in Injection(Pages(l), T)
  BY <1>3, <1>4 DEF Injection, IsInjective
<1> QED
  BY <1>2, <1>5, FS_Injection

\* Before is a strict order of the pages of a review.
LEMMA PageOrder ==
    ASSUME NEW l \in Reviews, NEW a \in Pages(l), NEW b \in Pages(l)
    PROVE  /\ ~Before(a, a)
           /\ a = b \/ Before(a, b) \/ Before(b, a)
           /\ \A c \in Pages(l) : Before(c, a) /\ Before(a, b) => Before(c, b)
<1>1. ASSUME NEW c \in Pages(l)
      PROVE  c = [s |-> c.s, p |-> c.p, i |-> c.i] /\ c.s \in Int /\ c.p \in Int /\ c.i \in Int
  BY PageFacts DEF InSigner
<1>2. ~Before(a, a)
  BY <1>1 DEF Before
<1>3. a = b \/ Before(a, b) \/ Before(b, a)
  <2>1. (a.s = b.s /\ a.p = b.p /\ a.i = b.i) \/ Before(a, b) \/ Before(b, a)
    BY <1>1 DEF Before
  <2> QED
    BY <1>1, <2>1
<1>4. ASSUME NEW c \in Pages(l), Before(c, a), Before(a, b) PROVE Before(c, b)
  BY <1>1, <1>4 DEF Before
<1> QED
  BY <1>2, <1>3, <1>4

\* The pages before pg.
Earlier(l, pg) == {q \in Pages(l) : Before(q, pg)}

LEMMA RankIs ==
    ASSUME NEW l \in Reviews, NEW pg \in Pages(l)
    PROVE  Rank[l][pg] = Cardinality(Earlier(l, pg))
<1>1. Rank = [m \in Reviews |->
                [p \in Pages(m) |-> Cardinality({q \in Pages(m) : Before(q, p)})]]
  BY TabulatedIs, Zenon DEF Rank
<1> QED
  BY <1>1, Zenon DEF Earlier

LEMMA EarlierIsFinite ==
    ASSUME NEW l \in Reviews, NEW pg \in Pages(l)
    PROVE  IsFiniteSet(Earlier(l, pg)) /\ Earlier(l, pg) \in SUBSET Pages(l)
<1>1. Earlier(l, pg) \in SUBSET Pages(l)
  BY DEF Earlier
<1> QED
  BY <1>1, PagesAreFinite, FS_Subset

\* The rank of a page follows from which pages are before it.
LEMMA RankOf ==
    ASSUME NEW l \in Reviews, NEW a \in Pages(l)
    PROVE  /\ Cardinality(Pages(l)) \in Nat
           /\ Rank[l][a] \in 0..(Cardinality(Pages(l)) - 1)
           /\ Earlier(l, a) = {} => Rank[l][a] = 0
           /\ Pages(l) = Earlier(l, a) \cup {a} => Rank[l][a] = Cardinality(Pages(l)) - 1
           /\ \A b \in Pages(l) : Earlier(l, b) = Earlier(l, a) \cup {a} =>
                                     Rank[l][b] = Rank[l][a] + 1
           /\ \A b \in Pages(l) : Before(a, b) => Rank[l][a] < Rank[l][b]
<1> DEFINE P == Pages(l)
           E == Earlier(l, a)
<1>1. IsFiniteSet(P) /\ IsFiniteSet(E) /\ E \in SUBSET P
  BY PagesAreFinite, EarlierIsFinite
<1>2. a \notin E
  BY PageOrder DEF Earlier
<1>3. Cardinality(P) \in Nat /\ Cardinality(E) \in Nat
  BY <1>1, FS_CardinalityType
<1>4. IsFiniteSet(E \cup {a}) /\ Cardinality(E \cup {a}) = Cardinality(E) + 1
  BY <1>1, <1>2, FS_AddElement
<1>5. Cardinality(E \cup {a}) <= Cardinality(P)
  <2>1. E \cup {a} \in SUBSET P
    BY <1>1
  <2> QED
    BY <1>1, <2>1, FS_Subset
<1>6. Rank[l][a] = Cardinality(E)
  BY RankIs
<1>7. E = {} => Rank[l][a] = 0
  BY <1>6, FS_EmptySet
<1>8. ASSUME NEW b \in P, Earlier(l, b) = E \cup {a} PROVE Rank[l][b] = Rank[l][a] + 1
  BY <1>4, <1>6, <1>8, RankIs
<1>9. ASSUME NEW b \in P, Before(a, b) PROVE Rank[l][a] < Rank[l][b]
  <2>1. E \cup {a} \in SUBSET Earlier(l, b)
    BY <1>1, <1>9, PageOrder DEF Earlier
  <2>2. IsFiniteSet(Earlier(l, b))
    BY EarlierIsFinite
  <2>3. Cardinality(E \cup {a}) <= Cardinality(Earlier(l, b))
        /\ Cardinality(Earlier(l, b)) \in Nat
    BY <2>1, <2>2, FS_Subset, FS_CardinalityType
  <2>4. Rank[l][b] = Cardinality(Earlier(l, b))
    BY RankIs
  <2> QED
    BY <1>3, <1>4, <1>6, <2>3, <2>4
<1> HIDE DEF E, P
<1>10. P = E \cup {a} => Rank[l][a] = Cardinality(P) - 1
  BY <1>3, <1>4, <1>6
<1>11. Rank[l][a] \in 0..(Cardinality(P) - 1)
  BY <1>3, <1>4, <1>5, <1>6
<1> QED
  BY <1>3, <1>7, <1>8, <1>9, <1>10, <1>11 DEF E, P

\* No two pages have the same rank.
LEMMA RankIsUnique ==
    ASSUME NEW l \in Reviews, NEW a \in Pages(l), NEW b \in Pages(l), Rank[l][a] = Rank[l][b]
    PROVE  a = b
<1>1. Rank[l][a] \in Int
  BY RankOf
<1>2. ~Before(a, b) /\ ~Before(b, a)
  <2>1. ASSUME Before(a, b) PROVE FALSE
    BY <1>1, <2>1, RankOf
  <2>2. ASSUME Before(b, a) PROVE FALSE
    BY <1>1, <2>2, RankOf
  <2> QED
    BY <2>1, <2>2
<1> QED
  BY <1>2, PageOrder

LEMMA PageInOrder ==
    ASSUME NEW l \in Reviews, NEW pg \in Pages(l)
    PROVE  InOrder(l)[Rank[l][pg] + 1] = pg
<1>1. PICK r \in Int : r = Rank[l][pg] /\ r + 1 \in 1..Cardinality(Pages(l)) /\ (r + 1) - 1 = r
  BY RankOf
<1>2. InOrder(l)[r + 1] = CHOOSE q \in Pages(l) : Rank[l][q] = (r + 1) - 1
  BY <1>1 DEF InOrder
<1>3. \A q \in Pages(l) : Rank[l][q] = (r + 1) - 1 => q = pg
  BY <1>1, RankIsUnique
<1>4. Rank[l][pg] = (r + 1) - 1
  BY <1>1
<1> QED
  BY <1>1, <1>2, <1>3, <1>4

Number(l) == Cardinality(Pages(l))

\* The sequence e is a and b behind it.
Joins(a, b, e) ==
    /\ Len(e) = Len(a) + Len(b) /\ DOMAIN e = 1..(Len(a) + Len(b))
    /\ \A n \in 1..Len(a) : e[n] = a[n]
    /\ \A n \in 1..Len(b) : e[Len(a) + n] = b[n]

LEMMA JoinIs ==
    ASSUME NEW S, NEW a \in Seq(S), NEW b \in Seq(S)
    PROVE  Joins(a, b, a \o b)
<1>1. PICK m \in Nat, n \in Nat : m = Len(a) /\ n = Len(b)
  OBVIOUS
<1>2. /\ a \o b \in Seq(S) /\ Len(a \o b) = m + n
      /\ \A i \in 1..(m + n) : (a \o b)[i] = IF i <= m THEN a[i] ELSE b[i - m]
  BY <1>1, ConcatProperties, Zenon
<1>3. DOMAIN (a \o b) = 1..(m + n)
  BY <1>2
<1>4. ASSUME NEW k \in 1..m PROVE (a \o b)[k] = a[k]
  BY <1>2
<1>5. ASSUME NEW k \in 1..n PROVE (a \o b)[m + k] = b[k]
  <2>1. m + k \in 1..(m + n) /\ ~(m + k <= m) /\ (m + k) - m = k
    OBVIOUS
  <2> QED
    BY <1>2, <2>1
<1> QED
  BY <1>1, <1>2, <1>3, <1>4, <1>5 DEF Joins

\* Where a review has its texts, its pages and its decision.
LEMMA ScreensAre ==
    ASSUME NEW l \in Reviews
    PROVE  /\ Number(l) \in Nat
           /\ Len(Screens[l]) = Number(l) + 10 /\ DOMAIN Screens[l] = 1..(Number(l) + 10)
           /\ \A n \in 1..8 : Screens[l][n] = Step(n - 1)
           /\ \A pg \in Pages(l) : Screens[l][9 + Rank[l][pg]] = pg
           /\ Screens[l][Number(l) + 9] = Step(11) /\ Screens[l][Number(l) + 10] = Step(12)
<1> DEFINE N == Number(l)
           A == [n \in 1..8 |-> Step(n - 1)]
           B == InOrder(l)
           C == <<Step(11), Step(12)>>
           S == {Step(n) : n \in 0..12} \cup {B[n] : n \in 1..N}
<1>1. N \in Nat
  BY PagesAreFinite, FS_CardinalityType DEF Number
<1>2. Screens[l] = A \o B \o C
  <2>1. Screens = [m \in Reviews |->
                     [n \in 1..8 |-> Step(n - 1)] \o InOrder(m) \o <<Step(11), Step(12)>>]
    <3>1. LAST_TEXT_STEP + 1 = 8 /\ APPROVE_STEP = 11 /\ REJECT_STEP = 12
      BY DEF LAST_TEXT_STEP, APPROVE_STEP, REJECT_STEP
    <3> QED
      BY <3>1, TabulatedIs, Zenon DEF Screens
  <2> QED
    BY <2>1, Zenon
<1>3. A \in Seq(S) /\ Len(A) = 8 /\ \A n \in 1..8 : A[n] = Step(n - 1)
  <2>1. \A n \in 1..8 : Step(n - 1) \in S
    OBVIOUS
  <2>2. A \in [1..8 -> S]
    BY <2>1
  <2> QED
    BY <2>2
<1>4. B \in Seq(S) /\ Len(B) = N
  <2>1. B = [n \in 1..N |-> CHOOSE pg \in Pages(l) : Rank[l][pg] = n - 1]
    BY Zenon DEF InOrder, Number
  <2>2. B \in [1..N -> S]
    BY <2>1
  <2> HIDE DEF B, N, S
  <2> QED
    BY <1>1, <2>2
<1>5. C \in Seq(S) /\ Len(C) = 2 /\ C[1] = Step(11) /\ C[2] = Step(12)
  <2>1. Step(11) \in S /\ Step(12) \in S
    OBVIOUS
  <2> HIDE DEF S
  <2> QED
    BY <2>1
<1>6. ASSUME NEW pg \in Pages(l)
      PROVE  Rank[l][pg] \in 0..(N - 1) /\ B[Rank[l][pg] + 1] = pg
  BY RankOf, PageInOrder DEF Number
<1> HIDE DEF A, B, C, S, N
<1>7. Joins(A, B, A \o B)
  BY <1>3, <1>4, JoinIs
<1>8. PICK D \in Seq(S) : D = A \o B
  <2>1. A \o B \in Seq(S)
    BY <1>3, <1>4, ConcatProperties, Zenon
  <2> QED
    BY <2>1, Zenon
<1>9. Joins(D, C, D \o C)
  BY <1>5, JoinIs
<1>10. Screens[l] = D \o C
  BY <1>2, <1>8
<1>11. PICK E : E = D \o C
  OBVIOUS
<1>12. /\ Len(D) = 8 + N /\ \A n \in 1..8 : D[n] = A[n]
       /\ \A n \in 1..N : D[8 + n] = B[n]
  BY <1>1, <1>3, <1>4, <1>7, <1>8 DEF Joins
<1>13. /\ Len(E) = 8 + N + 2 /\ DOMAIN E = 1..(8 + N + 2)
       /\ \A n \in 1..(8 + N) : E[n] = D[n]
       /\ \A n \in 1..2 : E[8 + N + n] = C[n]
  <2>1. Joins(D, C, E) /\ Len(D) = 8 + N /\ Len(C) = 2
    BY <1>5, <1>9, <1>11, <1>12
  <2> QED
    BY <1>1, <2>1 DEF Joins
<1>14. ASSUME NEW n \in 1..8 PROVE E[n] = Step(n - 1)
  <2>1. n \in 1..(8 + N)
    BY <1>1
  <2>2. E[n] = D[n] /\ D[n] = A[n] /\ A[n] = Step(n - 1)
    BY <1>3, <1>12, <1>13, <2>1, Zenon
  <2> QED
    BY <2>2, Zenon
<1>15. ASSUME NEW pg \in Pages(l) PROVE E[9 + Rank[l][pg]] = pg
  <2>1. PICK n \in 1..N : n = Rank[l][pg] + 1 /\ 8 + n = 9 + Rank[l][pg]
    BY <1>1, <1>6
  <2>2. 8 + n \in 1..(8 + N)
    BY <1>1
  <2>3. E[8 + n] = B[n]
    BY <1>12, <1>13, <2>2
  <2> QED
    BY <1>6, <2>1, <2>3
<1>16. Len(E) = N + 10 /\ DOMAIN E = 1..(N + 10)
  BY <1>1, <1>13
<1>17. E[N + 9] = Step(11) /\ E[N + 10] = Step(12)
  <2>1. N + 9 = 8 + N + 1 /\ N + 10 = 8 + N + 2
    BY <1>1
  <2> QED
    BY <1>5, <1>13, <2>1
<1> QED
  BY <1>1, <1>10, <1>11, <1>14, <1>15, <1>16, <1>17 DEF N

-----------------------------------------------------------------------------
(* The ranks of neighbours. *)

\* On a page, what was reached are the pages before it and the page itself.
LEMMA ReachedOnPage ==
    ASSUME NEW l \in Reviews, NEW x, Valid(x, l), HasData(x), NEW pg \in Pages(l)
    PROVE  Reached(pg, x) <=> Before(pg, PageAt(x)) \/ pg = PageAt(x)
<1>1. PageAt(x) \in Pages(l)
  BY PageOfCursor
<1>2. PICK a \in Pages(l) : a = PageAt(x)
  BY <1>1
<1>3. a.s = x.s_index /\ a.p = x.p_index /\ a.i = Item(x)
  BY <1>2, PageFields
<1>4. /\ pg = [s |-> pg.s, p |-> pg.p, i |-> pg.i] /\ a = [s |-> a.s, p |-> a.p, i |-> a.i]
      /\ pg.s \in Int /\ pg.p \in Int /\ pg.i \in Int /\ a.s \in Int /\ a.p \in Int /\ a.i \in Int
  BY PageFacts DEF InSigner
<1>5. Reached(pg, x) <=>
         pg.s < a.s \/ (pg.s = a.s /\ (pg.p < a.p \/ (pg.p = a.p /\ pg.i <= a.i)))
  BY <1>3 DEF Reached, UpTo
<1>6. pg = a <=> pg.s = a.s /\ pg.p = a.p /\ pg.i = a.i
  BY <1>4
<1> QED
  BY <1>2, <1>4, <1>5, <1>6 DEF Before

\* Before the first page nothing was reached, and behind the last one everything.
LEMMA ReachedAtEnds ==
    ASSUME NEW l \in Reviews, NEW x, Valid(x, l), ~HasData(x), NEW pg \in Pages(l)
    PROVE  Reached(pg, x) <=> x.p_index = 6
<1>1. /\ pg.s \in 0..(Len(l) - 1) /\ pg.p \in 1..5 /\ Len(l) \in Nat
      /\ x.p_index \in {0, 6}
  <2>1. pg.s \in 0..(Len(l) - 1) /\ pg.p \in 1..5
    BY PageFacts DEF InSigner
  <2>2. Len(l) \in Nat
    BY SignerFacts
  <2>3. x.p_index \in {0, 6}
    BY DEF Valid, ValidIn, HasData
  <2> QED
    BY <2>1, <2>2, <2>3
<1>2. CASE x.p_index = 0
  <2>1. x.s_index = 0
    BY <1>2 DEF Valid
  <2> QED
    BY <1>1, <1>2, <2>1 DEF Reached, UpTo
<1>3. CASE x.p_index = 6
  <2>1. x.s_index = Len(l) - 1
    BY <1>3 DEF Valid
  <2> QED
    BY <1>1, <1>3, <2>1 DEF Reached, UpTo
<1> QED
  BY <1>1, <1>2, <1>3

\* y is where the pages go on behind x, and none is between them.
Adjoins(x, y, l) ==
    /\ Later(x, y)
    /\ \A pg \in Pages(l) : Reached(pg, y) => Reached(pg, x) \/ (HasData(y) /\ pg = PageAt(y))

\* Everything reached at x is reached at y, whose own page is a new one.
LEMMA LaterReaches ==
    ASSUME NEW l \in Reviews, NEW x, NEW y, Valid(x, l), Valid(y, l), Later(x, y),
           NEW pg \in Pages(l), Reached(pg, x)
    PROVE  Reached(pg, y) /\ (HasData(y) => pg # PageAt(y))
<1>1. x.s_index \in Int /\ y.s_index \in Int /\ pg.s \in Int
      /\ x.p_index \in Int /\ y.p_index \in Int /\ pg.p \in Int /\ pg.i \in Int
  <2>1. x.s_index \in Int /\ y.s_index \in Int /\ x.p_index \in Int /\ y.p_index \in Int
    BY DEF Valid, CursorRecords
  <2>2. pg.s \in Int /\ pg.p \in Int /\ pg.i \in Int
    BY PageFacts DEF InSigner
  <2> QED
    BY <2>1, <2>2
<1>2. Item(x) \in Int /\ Item(y) \in Int
  BY DEF Valid, CursorRecords, Item
<1>3. pg.s < x.s_index
      \/ (pg.s = x.s_index /\ (pg.p < x.p_index \/ (pg.p = x.p_index /\ pg.i <= Item(x))))
  BY DEF Reached, UpTo
<1>4. x.s_index < y.s_index
      \/ (x.s_index = y.s_index
          /\ (x.p_index < y.p_index \/ (x.p_index = y.p_index /\ Item(x) < Item(y))))
  BY DEF Later, Ahead
<1>5. pg.s < y.s_index
      \/ (pg.s = y.s_index /\ (pg.p < y.p_index \/ (pg.p = y.p_index /\ pg.i < Item(y))))
  <2> HIDE DEF Item
  <2> QED
    BY <1>1, <1>2, <1>3, <1>4
<1>6. Reached(pg, y)
  BY <1>1, <1>2, <1>5 DEF Reached, UpTo
<1>7. PageAt(y).s = y.s_index /\ PageAt(y).p = y.p_index /\ PageAt(y).i = Item(y)
  BY PageFields
<1>8. pg # PageAt(y)
  BY <1>1, <1>2, <1>5, <1>7
<1> QED
  BY <1>6, <1>8

LEMMA Neighbours ==
    ASSUME NEW l \in Reviews, NEW x, NEW y, Valid(x, l), Valid(y, l), Adjoins(x, y, l)
    PROVE  /\ HasData(x) /\ HasData(y) => Rank[l][PageAt(y)] = Rank[l][PageAt(x)] + 1
           /\ x.p_index = 0 /\ HasData(y) => Rank[l][PageAt(y)] = 0
           /\ HasData(x) /\ y.p_index = 6 => Rank[l][PageAt(x)] = Number(l) - 1
           /\ HasData(y) => PageAt(y) \in Pages(l) /\ Rank[l][PageAt(y)] \in 0..(Number(l) - 1)
           /\ HasData(x) => PageAt(x) \in Pages(l) /\ Rank[l][PageAt(x)] \in 0..(Number(l) - 1)
<1>1. ASSUME NEW pg \in Pages(l)
      PROVE  Reached(pg, y) <=> Reached(pg, x) \/ (HasData(y) /\ pg = PageAt(y))
  <2>1. Reached(pg, y) => Reached(pg, x) \/ (HasData(y) /\ pg = PageAt(y))
    BY DEF Adjoins
  <2>2. Reached(pg, x) => Reached(pg, y)
    BY LaterReaches DEF Adjoins
  <2>3. HasData(y) /\ pg = PageAt(y) => Reached(pg, y)
    BY ReachedOnPage
  <2> QED
    BY <2>1, <2>2, <2>3
<1>2. /\ HasData(x) => PageAt(x) \in Pages(l)
      /\ HasData(y) => PageAt(y) \in Pages(l)
  BY PageOfCursor
<1>3. ASSUME HasData(x), HasData(y) PROVE Rank[l][PageAt(y)] = Rank[l][PageAt(x)] + 1
  <2>1. PICK a \in Pages(l), b \in Pages(l) : a = PageAt(x) /\ b = PageAt(y)
    BY <1>2, <1>3
  <2>2. ASSUME NEW pg \in Pages(l)
        PROVE  Before(pg, b) <=> Before(pg, a) \/ pg = a
    <3>1. Reached(pg, x) <=> Before(pg, a) \/ pg = a
      BY <1>3, <2>1, ReachedOnPage
    <3>2. Reached(pg, y) <=> Before(pg, b) \/ pg = b
      BY <1>3, <2>1, ReachedOnPage
    <3>3. Reached(pg, y) <=> Reached(pg, x) \/ pg = b
      BY <1>1, <1>3, <2>1
    <3>4. Reached(pg, x) => pg # b
      BY <1>3, <2>1, LaterReaches DEF Adjoins
    <3>5. ~Before(b, b)
      BY PageOrder
    <3> QED
      BY <3>1, <3>2, <3>3, <3>4, <3>5
  <2>3. Earlier(l, b) = Earlier(l, a) \cup {a}
    BY <2>2 DEF Earlier
  <2>4. Rank[l][b] = Rank[l][a] + 1
    BY <2>3, RankOf
  <2> QED
    BY <2>1, <2>4
<1>4. ASSUME x.p_index = 0, HasData(y) PROVE Rank[l][PageAt(y)] = 0
  <2>1. PICK b \in Pages(l) : b = PageAt(y)
    BY <1>2, <1>4
  <2>2. ASSUME NEW pg \in Pages(l) PROVE ~Before(pg, b)
    <3>1. ~Reached(pg, x)
      <4>1. ~HasData(x)
        BY <1>4 DEF HasData
      <4> QED
        BY <1>4, <4>1, ReachedAtEnds
    <3>2. Reached(pg, y) <=> Before(pg, b) \/ pg = b
      BY <1>4, <2>1, ReachedOnPage
    <3>3. ~Before(b, b)
      BY PageOrder
    <3> QED
      BY <1>1, <2>1, <3>1, <3>2, <3>3
  <2>3. Earlier(l, b) = {}
    BY <2>2 DEF Earlier
  <2> QED
    BY <2>1, <2>3, RankOf
<1>5. ASSUME HasData(x), y.p_index = 6 PROVE Rank[l][PageAt(x)] = Number(l) - 1
  <2>1. PICK a \in Pages(l) : a = PageAt(x)
    BY <1>2, <1>5
  <2>2. ASSUME NEW pg \in Pages(l) PROVE Before(pg, a) \/ pg = a
    <3>1. Reached(pg, y) /\ ~HasData(y)
      <4>1. ~HasData(y)
        BY <1>5 DEF HasData
      <4> QED
        BY <1>5, <4>1, ReachedAtEnds
    <3>2. Reached(pg, x)
      BY <1>1, <3>1
    <3> QED
      BY <1>5, <2>1, <3>2, ReachedOnPage
  <2>3. Pages(l) = Earlier(l, a) \cup {a}
    BY <2>2 DEF Earlier
  <2> QED
    BY <2>1, <2>3, RankOf DEF Number
<1>6. ASSUME NEW pg \in Pages(l) PROVE Rank[l][pg] \in 0..(Number(l) - 1)
  BY RankOf DEF Number
<1> QED
  BY <1>2, <1>3, <1>4, <1>5, <1>6

-----------------------------------------------------------------------------
(* Paging implements a position in a list of screens. *)

\* The page on the generic step is that of the cursor, whatever its current_state.
LEMMA StatePage ==
    ASSUME NEW l, NEW x, Valid(x, l), NEW st
    PROVE  PageAt([x EXCEPT !.current_state = st]) = PageAt(x)
<1>1. PICK y : y = [x EXCEPT !.current_state = st]
  OBVIOUS
<1>2. y.s_index = x.s_index /\ y.p_index = x.p_index /\ y.c_index = x.c_index
      /\ y.g_index = x.g_index
  BY <1>1 DEF Valid, CursorRecords
<1>3. PageAt(y) = [s |-> y.s_index, p |-> y.p_index, i |-> Item(y)]
      /\ PageAt(x) = [s |-> x.s_index, p |-> x.p_index, i |-> Item(x)]
  BY PageFields
<1>4. Item(y) = Item(x)
  BY <1>2 DEF Item
<1> QED
  BY <1>1, <1>2, <1>3, <1>4

LEMMA InitIsOpen == Init => Cursor!Open
<1> SUFFICES ASSUME Init PROVE Cursor!Open
  OBVIOUS
<1>1. signers \in Reviews /\ index = 0
  BY DEF Init
<1>2. Screens[signers] \in AllScreens
  BY <1>1 DEF AllScreens
<1>3. posBar = 1 /\ screenBar = Step(0)
  BY <1>1 DEF posBar, screenBar, LAST_TEXT_STEP, GENERIC_STEP
<1>4. Screens[signers][1] = Step(0)
  <2>1. 1 \in 1..8 /\ 1 - 1 = 0
    OBVIOUS
  <2> QED
    BY <1>1, <2>1, ScreensAre
<1> QED
  BY <1>2, <1>3, <1>4 DEF Cursor!Open

\* What a step has to show.
LEMMA TurnIs ==
    ASSUME signers \in Reviews, UNCHANGED signers, NEW n \in 1..(Number(signers) + 10),
           posBar' = n, screenBar' = Screens[signers][n],
           posBar \in Int, n = posBar + 1 \/ n = posBar - 1
    PROVE  Cursor!Next
<1>1. n \in DOMAIN Screens[signers]
  BY ScreensAre
<1>2. Screens[signers]' = Screens[signers]
  OBVIOUS
<1>3. Cursor!Turn(n)
  BY <1>1, <1>2, Zenon DEF Cursor!Turn
<1> QED
  BY <1>3 DEF Cursor!Next

\* Positions of the texts, the pages and the decision.
LEMMA Positions ==
    ASSUME signers \in Reviews, index \in {0, 1, 2, 3, 4, 5, 6, 7, 9, 11, 12}
    PROVE  /\ index <= 7 => posBar = index + 1
           /\ index = 9 => posBar = 9 + Rank[signers][PageAt(display_ctx)]
           /\ index >= 11 => posBar = Number(signers) + index - 2
           /\ index = 9 => screenBar = g_text
           /\ index # 9 => screenBar = Step(index)
<1>1. Number(signers) \in Nat /\ Len(Screens[signers]) = Number(signers) + 10
  BY ScreensAre
<1>2. CASE index <= 7
  BY <1>2 DEF posBar, screenBar, LAST_TEXT_STEP, GENERIC_STEP
<1>3. CASE index = 9
  BY <1>3 DEF posBar, screenBar, LAST_TEXT_STEP, GENERIC_STEP
<1>4. CASE index \in {11, 12}
  BY <1>1, <1>4 DEF posBar, screenBar, LAST_TEXT_STEP, GENERIC_STEP, REJECT_STEP
<1> QED
  BY <1>2, <1>3, <1>4

\* Between steps that are texts, and between the two of the decision.
LEMMA StaticTurns ==
    ASSUME PagerInv, NEW n \in Int, MoveTo(n), n = index + 1 \/ n = index - 1,
           n \notin {8, 10}
    PROVE  Cursor!Next
<1>1. signers \in Reviews /\ index \in {0, 1, 2, 3, 4, 5, 6, 7, 9, 11, 12}
  BY DEF PagerInv, REJECT_STEP, UPPER_DELIMITER, LOWER_DELIMITER
<1>2. n \in 0..12 /\ index' = n /\ signers' = signers
  BY DEF MoveTo, UPPER_DELIMITER, LOWER_DELIMITER, REJECT_STEP
<1>3. PICK N \in Nat : N = Number(signers)
  BY <1>1, ScreensAre
<1>4. /\ \A k \in 1..8 : Screens[signers][k] = Step(k - 1)
      /\ Screens[signers][N + 9] = Step(11) /\ Screens[signers][N + 10] = Step(12)
  BY <1>1, <1>3, ScreensAre
<1>5. n \in {0, 1, 2, 3, 4, 5, 6, 7, 11, 12}
  BY <1>1, <1>2
<1>6. /\ n <= 7 => posBar' = n + 1
      /\ n >= 11 => posBar' = N + n - 2
      /\ screenBar' = Step(n)
  <2>1. signers \in Reviews /\ index \in {0, 1, 2, 3, 4, 5, 6, 7, 9, 11, 12} =>
           /\ index <= 7 => posBar = index + 1
           /\ index >= 11 => posBar = Number(signers) + index - 2
           /\ index # 9 => screenBar = Step(index)
    BY Positions
  <2>2. (signers \in Reviews /\ index \in {0, 1, 2, 3, 4, 5, 6, 7, 9, 11, 12} =>
           /\ index <= 7 => posBar = index + 1
           /\ index >= 11 => posBar = Number(signers) + index - 2
           /\ index # 9 => screenBar = Step(index))'
    BY Positions, PTL
  <2> QED
    BY <1>1, <1>2, <1>3, <1>5, <2>2
<1>7. CASE n <= 7
  <2>1. index <= 7 /\ posBar = index + 1
    BY <1>1, <1>5, <1>7, Positions
  <2>2. PICK k \in 1..8 : k = n + 1 /\ k - 1 = n
    BY <1>2, <1>7
  <2>3. screenBar' = Screens[signers][k] /\ posBar' = k
    BY <1>4, <1>6, <1>7, <2>2
  <2>4. k \in 1..(Number(signers) + 10) /\ posBar \in Int /\ (k = posBar + 1 \/ k = posBar - 1)
    BY <1>1, <1>3, <2>1, <2>2
  <2> QED
    BY <1>1, <1>2, <2>3, <2>4, TurnIs
<1>8. CASE n >= 11
  <2>1. index >= 11 /\ posBar = N + index - 2
    BY <1>1, <1>3, <1>5, <1>8, Positions
  <2>2. PICK k \in 1..(N + 10) : k = N + n - 2 /\ (n = 11 => k = N + 9) /\ (n = 12 => k = N + 10)
    BY <1>3, <1>5, <1>8
  <2>3. screenBar' = Screens[signers][k] /\ posBar' = k
    BY <1>4, <1>5, <1>6, <1>8, <2>2
  <2>4. k \in 1..(Number(signers) + 10) /\ posBar \in Int /\ (k = posBar + 1 \/ k = posBar - 1)
    BY <1>1, <1>3, <2>1, <2>2
  <2> QED
    BY <1>1, <1>2, <2>3, <2>4, TurnIs
<1> QED
  BY <1>5, <1>7, <1>8

LEMMA PositionsAfter ==
    ASSUME signers' \in Reviews, index' \in {0, 1, 2, 3, 4, 5, 6, 7, 9, 11, 12}
    PROVE  /\ index' <= 7 => posBar' = index' + 1
           /\ index' = 9 => posBar' = 9 + Rank[signers'][PageAt(display_ctx')]
           /\ index' >= 11 => posBar' = Number(signers') + index' - 2
           /\ index' = 9 => screenBar' = g_text'
           /\ index' # 9 => screenBar' = Step(index')
<1>1. (signers \in Reviews /\ index \in {0, 1, 2, 3, 4, 5, 6, 7, 9, 11, 12} =>
           /\ index <= 7 => posBar = index + 1
           /\ index = 9 => posBar = 9 + Rank[signers][PageAt(display_ctx)]
           /\ index >= 11 => posBar = Number(signers) + index - 2
           /\ index = 9 => screenBar = g_text
           /\ index # 9 => screenBar = Step(index))'
  BY Positions, PTL
<1> QED
  BY <1>1

\* A delimiter is no screen: it takes the user to the screen behind it, or before it.
LEMMA DelimiterTurns ==
    ASSUME PagerInv, NEW upper \in BOOLEAN, display_next_state(upper), UNCHANGED signers,
           index \in IF upper THEN {7, 9} ELSE {9, 11}
    PROVE  Cursor!Next
<1> DEFINE x == display_ctx
           l == signers
           static == x.current_state = "STATIC_SCREEN"
           moved == IF upper = static THEN next_prop(x, l) ELSE prev_prop(x, l)
           data == HasData(moved)
           st == IF data THEN "DYNAMIC_SCREEN" ELSE "STATIC_SCREEN"
           d == [moved EXCEPT !.current_state = st]
<1>1. /\ l \in Reviews /\ Valid(x, l)
      /\ x.p_index \in 0..6 /\ x.current_state \in {"STATIC_SCREEN", "DYNAMIC_SCREEN"}
  BY DEF PagerInv, Valid, ValidIn, CursorRecords
<1>2. /\ display_ctx' = d
      /\ g_text' = IF data THEN PageAt(moved) ELSE g_text
      /\ index' = IF data \/ static THEN 9 ELSE IF upper THEN 7 ELSE 11
      /\ signers' = l
  BY DEF display_next_state, GENERIC_STEP, LAST_TEXT_STEP, APPROVE_STEP
<1>3. /\ index = 7 => x.p_index = 0
      /\ index = 9 => HasData(x)
      /\ index = 11 => x.p_index = 6
      /\ static <=> ~HasData(x)
  BY <1>1 DEF PagerInv, LAST_TEXT_STEP, GENERIC_STEP, APPROVE_STEP
<1>4. HasData(x) <=> x.p_index \in 1..5
  BY <1>1 DEF HasData
<1>5. PICK N \in Nat : N = Number(l)
  BY <1>1, ScreensAre
<1>6. /\ \A pg \in Pages(l) : Screens[l][9 + Rank[l][pg]] = pg
      /\ Screens[l][8] = Step(7) /\ Screens[l][N + 9] = Step(11)
  <2>1. 8 \in 1..8 /\ 8 - 1 = 7
    OBVIOUS
  <2> QED
    BY <1>1, <1>5, <2>1, ScreensAre
<1>7. PICK z : z = moved
  OBVIOUS
<1>8. ASSUME Valid(z, l), HasData(z)
      PROVE  /\ PageAt(z) \in Pages(l)
             /\ posBar' = 9 + Rank[l][PageAt(z)]
             /\ screenBar' = Screens[l][9 + Rank[l][PageAt(z)]]
  <2>1. index' = 9 /\ g_text' = PageAt(z) /\ signers' = l
    BY <1>2, <1>7, <1>8
  <2>2. PageAt(display_ctx') = PageAt(z)
    BY <1>2, <1>7, <1>8, StatePage
  <2>3. PageAt(z) \in Pages(l)
    BY <1>1, <1>8, PageOfCursor
  <2>4. posBar' = 9 + Rank[l][PageAt(z)] /\ screenBar' = PageAt(z)
    BY <1>1, <2>1, <2>2, PositionsAfter
  <2> QED
    BY <1>6, <2>3, <2>4
<1>9. ASSUME ~HasData(z), HasData(x)
      PROVE  IF upper THEN posBar' = 8 /\ screenBar' = Screens[l][8]
             ELSE posBar' = N + 9 /\ screenBar' = Screens[l][N + 9]
  <2>1. index' = (IF upper THEN 7 ELSE 11) /\ signers' = l
    BY <1>2, <1>3, <1>7, <1>9
  <2>2. CASE upper
    BY <1>1, <1>6, <2>1, <2>2, PositionsAfter
  <2>3. CASE ~upper
    BY <1>1, <1>5, <1>6, <2>1, <2>3, PositionsAfter
  <2> QED
    BY <2>2, <2>3
<1>10. ASSUME NEW n \in Int, n \in 1..(N + 10), posBar' = n, screenBar' = Screens[l][n],
              posBar \in Int, n = posBar + 1 \/ n = posBar - 1
       PROVE  Cursor!Next
  BY <1>1, <1>2, <1>5, <1>10, TurnIs
<1> HIDE DEF d, st
<1>11. CASE upper /\ index = 7
  <2>1. z = next_prop(x, l) /\ x.p_index = 0
    <3>1. x.p_index = 0 /\ static /\ upper
      BY <1>3, <1>4, <1>11
    <3>2. moved = next_prop(x, l)
      BY <3>1
    <3> HIDE DEF moved
    <3> QED
      BY <1>7, <3>1, <3>2
  <2>2. Valid(z, l) /\ z.p_index = 1 /\ Adjoins(x, z, l)
    BY <1>1, <2>1, NextIsNext DEF Adjoins
  <2>3. HasData(z)
    BY <2>2 DEF HasData
  <2>4. PageAt(z) \in Pages(l) /\ Rank[l][PageAt(z)] = 0 /\ 0 \in 0..(N - 1)
    BY <1>1, <1>5, <2>1, <2>2, <2>3, Neighbours
  <2>5. posBar = 8
    BY <1>1, <1>11, Positions
  <2>6. posBar' = 9 /\ screenBar' = Screens[l][9]
    BY <1>8, <2>2, <2>3, <2>4
  <2> QED
    BY <1>5, <1>10, <2>5, <2>6
<1>12. CASE ~upper /\ index = 9
  <2>1. z = next_prop(x, l) /\ HasData(x) /\ x.p_index # 6
    BY <1>3, <1>4, <1>7, <1>12
  <2>2. Valid(z, l) /\ z.p_index # 0 /\ Adjoins(x, z, l)
    BY <1>1, <2>1, NextIsNext DEF Adjoins
  <2>3. posBar = 9 + Rank[l][PageAt(x)] /\ Rank[l][PageAt(x)] \in 0..(N - 1)
    BY <1>1, <1>5, <1>12, <2>1, <2>2, Positions, Neighbours
  <2>4. CASE HasData(z)
    <3>1. Rank[l][PageAt(z)] = Rank[l][PageAt(x)] + 1 /\ Rank[l][PageAt(z)] \in 0..(N - 1)
      BY <1>1, <1>5, <2>1, <2>2, <2>4, Neighbours
    <3>2. PICK r \in 0..(N - 1), q \in 0..(N - 1) :
             r = Rank[l][PageAt(x)] /\ q = Rank[l][PageAt(z)] /\ q = r + 1
      BY <2>3, <3>1
    <3>3. posBar = 9 + r /\ posBar' = 9 + q /\ screenBar' = Screens[l][9 + q]
      BY <1>8, <2>2, <2>3, <2>4, <3>2
    <3> QED
      BY <1>5, <1>10, <3>2, <3>3
  <2>5. CASE ~HasData(z)
    <3>1. z.p_index = 6
      BY <2>2, <2>5 DEF HasData
    <3>2. Rank[l][PageAt(x)] = N - 1
      BY <1>1, <1>5, <2>1, <2>2, <3>1, Neighbours
    <3>3. posBar = N + 8 /\ posBar' = N + 9 /\ screenBar' = Screens[l][N + 9]
      BY <1>5, <1>9, <1>12, <2>1, <2>3, <2>5, <3>2
    <3> QED
      BY <1>5, <1>10, <3>3
  <2> QED
    BY <2>4, <2>5
<1>13. CASE upper /\ index = 9
  <2>1. z = prev_prop(x, l) /\ HasData(x) /\ x.p_index # 0
    <3>1. HasData(x) /\ ~static /\ upper
      BY <1>3, <1>13
    <3>2. moved = prev_prop(x, l)
      BY <3>1, Zenon
    <3>3. x.p_index # 0
      BY <1>4, <3>1
    <3> HIDE DEF moved
    <3> QED
      BY <1>7, <3>1, <3>2, <3>3
  <2>2. Valid(z, l) /\ z.p_index # 6 /\ Adjoins(z, x, l)
    BY <1>1, <2>1, PrevIsBack DEF Adjoins
  <2>3. posBar = 9 + Rank[l][PageAt(x)] /\ Rank[l][PageAt(x)] \in 0..(N - 1)
    BY <1>1, <1>5, <1>13, <2>1, <2>2, Positions, Neighbours
  <2>4. CASE HasData(z)
    <3>1. Rank[l][PageAt(x)] = Rank[l][PageAt(z)] + 1 /\ Rank[l][PageAt(z)] \in 0..(N - 1)
      BY <1>1, <1>5, <2>1, <2>2, <2>4, Neighbours
    <3>2. PICK r \in 0..(N - 1), q \in 0..(N - 1) :
             r = Rank[l][PageAt(x)] /\ q = Rank[l][PageAt(z)] /\ r = q + 1
      BY <2>3, <3>1
    <3>3. posBar = 9 + r /\ posBar' = 9 + q /\ screenBar' = Screens[l][9 + q]
      BY <1>8, <2>2, <2>3, <2>4, <3>2
    <3> QED
      BY <1>5, <1>10, <3>2, <3>3
  <2>5. CASE ~HasData(z)
    <3>1. z.p_index = 0
      BY <2>2, <2>5 DEF HasData
    <3>2. Rank[l][PageAt(x)] = 0
      BY <1>1, <2>1, <2>2, <3>1, Neighbours
    <3>3. posBar = 9 /\ posBar' = 8 /\ screenBar' = Screens[l][8]
      BY <1>9, <1>13, <2>1, <2>3, <2>5, <3>2
    <3> QED
      BY <1>5, <1>10, <3>3
  <2> QED
    BY <2>4, <2>5
<1>14. CASE ~upper /\ index = 11
  <2>1. z = prev_prop(x, l) /\ x.p_index = 6
    BY <1>3, <1>4, <1>7, <1>14
  <2>2. Valid(z, l) /\ z.p_index # 6 /\ z.p_index # 0 /\ Adjoins(z, x, l)
    BY <1>1, <2>1, PrevIsBack DEF Adjoins
  <2>3. HasData(z)
    BY <2>2 DEF HasData
  <2>4. PageAt(z) \in Pages(l) /\ Rank[l][PageAt(z)] = N - 1 /\ N - 1 \in 0..(N - 1)
    BY <1>1, <1>5, <2>1, <2>2, <2>3, Neighbours
  <2>5. posBar = N + 9
    BY <1>1, <1>5, <1>14, Positions
  <2>6. posBar' = N + 8 /\ screenBar' = Screens[l][N + 8]
    <3>1. 9 + (N - 1) = N + 8
      BY <1>5
    <3> QED
      BY <1>8, <2>2, <2>3, <2>4, <3>1
  <2> QED
    BY <1>5, <1>10, <2>5, <2>6
<1> QED
  BY <1>11, <1>12, <1>13, <1>14

LEMMA StepTurns == PagerInv /\ [Next]_vars => [Cursor!Next]_(Cursor!vars)
<1> SUFFICES ASSUME PagerInv, [Next]_vars PROVE [Cursor!Next]_(Cursor!vars)
  OBVIOUS
<1>1. index \in {0, 1, 2, 3, 4, 5, 6, 7, 9, 11, 12}
  BY DEF PagerInv, REJECT_STEP, UPPER_DELIMITER, LOWER_DELIMITER
<1>2. ASSUME NEW n \in Int, MoveTo(n), n = index + 1 \/ n = index - 1
      PROVE  Cursor!Next
  <2>1. CASE n \in {8, 10}
    <3> DEFINE u == n = UPPER_DELIMITER
    <3>1. u \in BOOLEAN /\ display_next_state(u) /\ UNCHANGED signers
      BY <1>2, <2>1 DEF MoveTo, UPPER_DELIMITER, LOWER_DELIMITER
    <3>2. index \in IF u THEN {7, 9} ELSE {9, 11}
      BY <1>1, <1>2, <2>1 DEF UPPER_DELIMITER
    <3> HIDE DEF u
    <3> QED
      BY <3>1, <3>2, DelimiterTurns
  <2>2. CASE n \notin {8, 10}
    BY <1>2, <2>2, StaticTurns
  <2> QED
    BY <2>1, <2>2
<1>3. CASE Right
  <2>1. index + 1 \in Int
    BY <1>1
  <2> QED
    BY <1>2, <1>3, <2>1 DEF Right
<1>4. CASE Left
  <2>1. index - 1 \in Int
    BY <1>1
  <2> QED
    BY <1>2, <1>4, <2>1 DEF Left
<1>5. CASE Review
  <2>1. Init'
    BY <1>5 DEF Review, Init
  <2>2. Init' => Cursor!Open'
    BY InitIsOpen, PTL
  <2> QED
    BY <2>1, <2>2 DEF Cursor!Next
<1>6. CASE UNCHANGED vars
  BY <1>6 DEF vars, Cursor!vars, posBar, screenBar, PageAt
<1> QED
  BY <1>3, <1>4, <1>5, <1>6 DEF Next

\* For any number of signers, contracts and groups: the delimiters, the cursor of the
\* signers and the flow of the SDK are together one list of screens and a position in it,
\* which a button moves by one. No page comes twice, none is left out, and turning back
\* shows what was on the screen before.
THEOREM PagesAreAList == Spec => ImplementsCursor
<1>1. Init => Cursor!Open
  BY InitIsOpen
<1>2. PagerInv /\ [Next]_vars => [Cursor!Next]_(Cursor!vars)
  BY StepTurns
<1> QED
  BY <1>1, <1>2, PagerInvariant, PTL DEF Spec, ImplementsCursor, Cursor!Spec
===============================================================================
