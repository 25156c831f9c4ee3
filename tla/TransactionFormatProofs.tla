------------------------ MODULE TransactionFormatProofs ------------------------
(***************************************************************************)
(* Proofs about TransactionFormat: what transaction_deserialize accepts is *)
(* the writing of what a review shows, and a transfer is one; and it is    *)
(* what the limits let pass, no more and no less.                          *)
(***************************************************************************)
EXTENDS TransactionFormat, TransactionReaderProofs, InductionLemmas

-----------------------------------------------------------------------------
(* Where things are in the bytes. *)

\* A list of m elements, of the n it announces, behind the item at o.
ListAt(r, is, array, n, m, o) ==
    /\ r[o + 1] = Item("varint", n)
    /\ \A k \in 0..(m - 1) : r[o + 2 + k] = Item(is, array[k])

\* Where the contracts of a signer whose account is behind o end, and where the signer does.
ContractsEnd(s, o) ==
    IF "CUSTOM_CONTRACTS" \in s.scope THEN o + 3 + s.allowed_contracts_size ELSE o + 2
SignerEnd(s, o) ==
    IF "CUSTOM_GROUPS" \in s.scope THEN ContractsEnd(s, o) + 1 + s.allowed_groups_size
    ELSE ContractsEnd(s, o)

ContractsAt(r, s, o) ==
    "CUSTOM_CONTRACTS" \in s.scope =>
        ListAt(r, "hash", s.allowed_contracts, s.allowed_contracts_size,
               s.allowed_contracts_size, o + 2)
GroupsAt(r, s, o) ==
    "CUSTOM_GROUPS" \in s.scope =>
        ListAt(r, "key", s.allowed_groups, s.allowed_groups_size,
               s.allowed_groups_size, ContractsEnd(s, o))

\* The signer s is written behind o.
SignerAt(r, s, o) ==
    /\ r[o + 1] = Item("hash", s.account)
    /\ r[o + 2] = Item("scope", s.scope)
    /\ ContractsAt(r, s, o) /\ GroupsAt(r, s, o)

\* The first n signers of ss are written one after the other, from one of the places p to
\* the next.
SignersAt(r, ss, p, n) ==
    /\ p \in [0..n -> 6..Len(r)]
    /\ p[0] = 6
    /\ \A k \in 0..(n - 1) : SignerAt(r, ss[k], p[k]) /\ p[k + 1] = SignerEnd(ss[k], p[k])

HeaderAt(r, t, n) == \A k \in 1..n : r[k] = Item(Header[k], t[Header[k]])

\* How far the signer that is being read is read.
WithinSigner(s, o) ==
    /\ at = "account" => off = o
    /\ at = "scope" => off = o + 1
    /\ at \in InSigner => raw[o + 1] = Item("hash", s.account)
    /\ at \in InSigner \ {"scope"} => raw[o + 2] = Item("scope", s.scope)
    /\ at \in {"contracts", "contract"} => "CUSTOM_CONTRACTS" \in s.scope
    /\ at = "contracts" => off = o + 2
    /\ at = "contract" =>
          /\ off = o + 3 + j
          /\ ListAt(raw, "hash", s.allowed_contracts, s.allowed_contracts_size, j, o + 2)
    /\ at \in {"groups", "group"} => "CUSTOM_GROUPS" \in s.scope /\ ContractsAt(raw, s, o)
    /\ at = "groups" => off = ContractsEnd(s, o)
    /\ at = "group" =>
          /\ off = ContractsEnd(s, o) + 1 + j
          /\ ListAt(raw, "key", s.allowed_groups, s.allowed_groups_size, j, ContractsEnd(s, o))

\* The same of the attributes, behind o.
WithinAttributes(o) ==
    /\ at = "attributes" => off = o
    /\ at = "attribute" =>
          /\ off = o + 1 + i
          /\ ListAt(raw, "attribute", tx.attributes, tx.attributes_size, i, o)
    /\ at = "script" =>
          /\ off = o + 1 + tx.attributes_size
          /\ ListAt(raw, "attribute", tx.attributes, tx.attributes_size, tx.attributes_size, o)

\* The attempt is at its place in the bytes, given where the signers are.
Located(p) ==
    /\ at \in InSigner \cup {"account"} =>
          SignersAt(raw, tx.signers, p, i) /\ WithinSigner(tx.signers[i], p[i])
    /\ at \in AfterSigners =>
          SignersAt(raw, tx.signers, p, tx.signers_size) /\ WithinAttributes(p[tx.signers_size])

\* Signer k starts behind o, as far as the bytes tell.
StartsAt(r, k, o) ==
    \E ss \in [0..(MAX_TX_SIGNERS - 1) -> Signers] : \E p :
        SignersAt(r, ss, p, k) /\ p[k] = o

\* The scope of signer k is there and has the flag.
HasFlag(r, k, flag) ==
    \E o \in Nat : StartsAt(r, k, o) /\ o + 2 <= Len(r) /\ flag \in r[o + 2].v

\* The script x is where a script is read.
ScriptAt(r, x) ==
    \E o \in Nat :
        /\ r[6].v \in 0..MAX_TX_SIGNERS /\ StartsAt(r, r[6].v, o)
        /\ r[o + 1].v \in Nat /\ o + 1 + r[o + 1].v + 2 <= Len(r)
        /\ x = ScriptBehind(r, o + 1 + r[o + 1].v)

\* What may be left of an earlier attempt has its reason in the bytes that are still there.
Justified(r, t) ==
    /\ \A k \in 0..(MAX_TX_SIGNERS - 1) :
          /\ t.signers[k].allowed_contracts_size > 0 => HasFlag(r, k, "CUSTOM_CONTRACTS")
          /\ t.signers[k].allowed_groups_size > 0 => HasFlag(r, k, "CUSTOM_GROUPS")
    /\ t.is_system_asset_transfer => \E x : ScriptAt(r, x) /\ IsTransfer(x)
    /\ t.is_neo => \E x : ScriptAt(r, x) /\ HasContract(x) /\ x[9].v = NEO

\* The inductive invariant.
FormatInv ==
    /\ ReaderInv
    /\ at = "header" => off = i /\ HeaderAt(raw, tx, i)
    /\ at \notin {"idle", "header"} => HeaderAt(raw, tx, 5)
    /\ at = "signers" => off = 5
    /\ at \notin {"idle", "header", "signers"} =>
          6 <= Len(raw) /\ raw[6] = Item("varint", tx.signers_size) /\ \E p : Located(p)
    /\ Justified(raw, tx)
    /\ AcceptedIsWritten
    /\ TransferIsScript

-----------------------------------------------------------------------------
(* What the bytes tell of the signers. *)

\* The fields of a signer.
LEMMA SignerType ==
    ASSUME NEW s \in Signers
    PROVE  /\ s.account \in Hash160 \cup {Unset} /\ s.scope \in SUBSET Scopes
           /\ s.allowed_contracts_size \in Nat /\ s.allowed_groups_size \in Nat
           /\ s.allowed_contracts_size <= MAX_SIGNER_SUB_ITEMS
           /\ s.allowed_groups_size <= MAX_SIGNER_SUB_ITEMS
BY LimitsAssumption DEF Signers

\* A signer ends behind its scope, and its groups behind its contracts.
LEMMA Ends ==
    ASSUME NEW s \in Signers, NEW o \in Nat
    PROVE  /\ ContractsEnd(s, o) \in Nat /\ SignerEnd(s, o) \in Nat
           /\ o + 2 <= ContractsEnd(s, o) /\ ContractsEnd(s, o) <= SignerEnd(s, o)
BY SignerType DEF ContractsEnd, SignerEnd

\* What two items tell of each other.
LEMMA ItemEqual ==
    ASSUME NEW is, NEW v, NEW w, Item(is, v) = Item(is, w)
    PROVE  v = w
BY DEF Item

\* An item is what it is and what it holds.
LEMMA ItemIs ==
    ASSUME NEW x \in Items
    PROVE  x = Item(x.is, x.v)
BY DEF Items, Item

\* Where a signer ends is told by the bytes.
LEMMA EndIsInBytes ==
    ASSUME NEW r, NEW o \in Nat, NEW s \in Signers, NEW t \in Signers,
           SignerAt(r, s, o), SignerAt(r, t, o)
    PROVE  SignerEnd(s, o) = SignerEnd(t, o)
<1>1. s.scope = t.scope
  <2>1. Item("scope", s.scope) = Item("scope", t.scope)
    BY DEF SignerAt
  <2> QED
    BY <2>1, ItemEqual
<1>2. ContractsEnd(s, o) = ContractsEnd(t, o)
  <2>1. CASE "CUSTOM_CONTRACTS" \in s.scope
    <3>1. Item("varint", s.allowed_contracts_size) = Item("varint", t.allowed_contracts_size)
      BY <1>1, <2>1 DEF SignerAt, ContractsAt, ListAt
    <3> QED
      BY <1>1, <3>1, ItemEqual DEF ContractsEnd
  <2>2. CASE "CUSTOM_CONTRACTS" \notin s.scope
    BY <1>1, <2>2 DEF ContractsEnd
  <2> QED
    BY <2>1, <2>2
<1>3. CASE "CUSTOM_GROUPS" \in s.scope
  <2>1. Item("varint", s.allowed_groups_size) = Item("varint", t.allowed_groups_size)
    BY <1>1, <1>2, <1>3 DEF SignerAt, GroupsAt, ListAt
  <2> QED
    BY <1>1, <1>2, <2>1, ItemEqual DEF SignerEnd
<1>4. CASE "CUSTOM_GROUPS" \notin s.scope
  BY <1>1, <1>2, <1>4 DEF SignerEnd
<1> QED
  BY <1>3, <1>4

\* One list of signers, as long as the other, ends where the other does.
LEMMA PlacesAreInBytes ==
    ASSUME NEW r, NEW n \in Nat, n <= MAX_TX_SIGNERS,
           NEW ss \in [0..(MAX_TX_SIGNERS - 1) -> Signers], NEW p, SignersAt(r, ss, p, n),
           NEW tt \in [0..(MAX_TX_SIGNERS - 1) -> Signers], NEW q, SignersAt(r, tt, q, n)
    PROVE  p[n] = q[n]
<1> DEFINE S == {k \in Nat : k <= n => p[k] = q[k] /\ p[k] \in Nat}
<1>1. MAX_TX_SIGNERS \in Nat
  BY LimitsAssumption
<1>2. 0 \in S
  BY DEF SignersAt
<1>3. ASSUME NEW k \in Nat, k \in S PROVE k + 1 \in S
  <2> SUFFICES ASSUME k + 1 <= n PROVE p[k + 1] = q[k + 1] /\ p[k + 1] \in Nat
    OBVIOUS
  <2>1. /\ k \in 0..(n - 1) /\ k \in 0..(MAX_TX_SIGNERS - 1)
        /\ p[k] = q[k] /\ p[k] \in Nat
    BY <1>1, <1>3
  <2>2. /\ SignerAt(r, ss[k], p[k]) /\ p[k + 1] = SignerEnd(ss[k], p[k])
        /\ SignerAt(r, tt[k], q[k]) /\ q[k + 1] = SignerEnd(tt[k], q[k])
    BY <2>1 DEF SignersAt
  <2>3. ss[k] \in Signers /\ tt[k] \in Signers
    BY <2>1
  <2>4. SignerEnd(ss[k], p[k]) = SignerEnd(tt[k], p[k])
    BY <2>1, <2>2, <2>3, EndIsInBytes
  <2>5. SignerEnd(ss[k], p[k]) \in Nat
    BY <2>1, <2>3, Ends
  <2> QED
    BY <2>1, <2>2, <2>4, <2>5
<1>4. n \in S
  <2> HIDE DEF S
  <2> QED
    BY <1>2, <1>3, SetInduction
<1>5. n <= n
  OBVIOUS
<1> QED
  BY <1>4, <1>5

\* Another signer at the end.
LEMMA SignersGrow ==
    ASSUME NEW r, Len(r) \in Nat, NEW n \in Nat, NEW ss, NEW p, SignersAt(r, ss, p, n),
           SignerAt(r, ss[n], p[n]),
           SignerEnd(ss[n], p[n]) \in 6..Len(r)
    PROVE  \E q : SignersAt(r, ss, q, n + 1) /\ q[n + 1] = SignerEnd(ss[n], p[n])
<1> DEFINE e == SignerEnd(ss[n], p[n])
           q == [k \in 0..(n + 1) |-> IF k = n + 1 THEN e ELSE p[k]]
<1>1. p \in [0..n -> 6..Len(r)] /\ p[0] = 6
  BY DEF SignersAt
<1>2. q \in [0..(n + 1) -> 6..Len(r)]
  BY <1>1
<1>3. q[0] = 6 /\ q[n + 1] = e /\ q[n] = p[n]
  BY <1>1
<1>4. ASSUME NEW k \in 0..n
      PROVE  SignerAt(r, ss[k], q[k]) /\ q[k + 1] = SignerEnd(ss[k], q[k])
  <2>1. CASE k = n
    BY <1>3, <2>1
  <2>2. CASE k # n
    <3>1. k \in 0..(n - 1) /\ k \in 0..n /\ k # n + 1 /\ k + 1 # n + 1 /\ k + 1 \in 0..n
      BY <2>2
    <3>2. q[k] = p[k] /\ q[k + 1] = p[k + 1]
      BY <3>1
    <3> QED
      BY <3>1, <3>2 DEF SignersAt
  <2> QED
    BY <2>1, <2>2
<1> HIDE DEF q, e
<1>5. \A k \in 0..(n + 1 - 1) : k \in 0..n
  OBVIOUS
<1>6. SignersAt(r, ss, q, n + 1)
  BY <1>2, <1>3, <1>4, <1>5 DEF SignersAt
<1> QED
  BY <1>3, <1>6 DEF e

\* The signers before the n-th are where they are whatever the others are.
LEMMA SignersStay ==
    ASSUME NEW r, NEW n \in Nat, NEW ss, NEW tt, NEW p, SignersAt(r, ss, p, n),
           \A k \in 0..(n - 1) : tt[k] = ss[k]
    PROVE  SignersAt(r, tt, p, n)
BY DEF SignersAt

\* Nor of a list that ends before them.
LEMMA ListStays ==
    ASSUME NEW r, NEW u, Len(r) \in Nat, \A k \in 1..Len(r) : u[k] = r[k],
           NEW is, NEW array, NEW n \in Nat, NEW o \in Nat,
           ListAt(r, is, array, n, n, o), o + 1 + n <= Len(r)
    PROVE  ListAt(u, is, array, n, n, o)
<1>1. o + 1 \in 1..Len(r)
  OBVIOUS
<1>2. ASSUME NEW k \in 0..(n - 1) PROVE o + 2 + k \in 1..Len(r)
  OBVIOUS
<1>3. u[o + 1] = r[o + 1]
  BY <1>1
<1>4. \A k \in 0..(n - 1) : u[o + 2 + k] = r[o + 2 + k]
  BY <1>2
<1> QED
  BY <1>3, <1>4 DEF ListAt

\* More bytes change nothing of a signer that ends before them.
LEMMA SignerStays ==
    ASSUME NEW r, NEW u, Len(r) \in Nat, \A k \in 1..Len(r) : u[k] = r[k],
           NEW o \in Nat, NEW s \in Signers, SignerAt(r, s, o), SignerEnd(s, o) <= Len(r)
    PROVE  SignerAt(u, s, o)
<1>1. /\ ContractsEnd(s, o) \in Nat /\ SignerEnd(s, o) \in Nat
      /\ o + 2 <= ContractsEnd(s, o) /\ ContractsEnd(s, o) <= SignerEnd(s, o)
      /\ s.allowed_contracts_size \in Nat /\ s.allowed_groups_size \in Nat
  BY Ends, SignerType
<1>2. u[o + 1] = Item("hash", s.account) /\ u[o + 2] = Item("scope", s.scope)
  BY <1>1 DEF SignerAt
<1>3. ContractsAt(u, s, o)
  <2> SUFFICES ASSUME "CUSTOM_CONTRACTS" \in s.scope
               PROVE  ListAt(u, "hash", s.allowed_contracts, s.allowed_contracts_size,
                             s.allowed_contracts_size, o + 2)
    BY DEF ContractsAt
  <2>1. ContractsEnd(s, o) = o + 3 + s.allowed_contracts_size
    BY DEF ContractsEnd
  <2>2. ListAt(r, "hash", s.allowed_contracts, s.allowed_contracts_size,
               s.allowed_contracts_size, o + 2)
    BY DEF SignerAt, ContractsAt
  <2>3. o + 2 \in Nat /\ o + 2 + 1 + s.allowed_contracts_size <= Len(r)
    BY <1>1, <2>1
  <2> QED
    BY <1>1, <2>2, <2>3, ListStays
<1>4. GroupsAt(u, s, o)
  <2> SUFFICES ASSUME "CUSTOM_GROUPS" \in s.scope
               PROVE  ListAt(u, "key", s.allowed_groups, s.allowed_groups_size,
                             s.allowed_groups_size, ContractsEnd(s, o))
    BY DEF GroupsAt
  <2>1. SignerEnd(s, o) = ContractsEnd(s, o) + 1 + s.allowed_groups_size
    BY DEF SignerEnd
  <2>2. ListAt(r, "key", s.allowed_groups, s.allowed_groups_size,
               s.allowed_groups_size, ContractsEnd(s, o))
    BY DEF SignerAt, GroupsAt
  <2>3. ContractsEnd(s, o) + 1 + s.allowed_groups_size <= Len(r)
    BY <2>1
  <2> QED
    BY <1>1, <2>2, <2>3, ListStays
<1> QED
  BY <1>2, <1>3, <1>4 DEF SignerAt

\* And nothing of all signers that do.
LEMMA AllSignersStay ==
    ASSUME NEW r, NEW u, Len(r) \in Nat, Len(u) \in Nat, Len(r) <= Len(u),
           \A k \in 1..Len(r) : u[k] = r[k],
           NEW n \in Nat, n <= MAX_TX_SIGNERS,
           NEW ss \in [0..(MAX_TX_SIGNERS - 1) -> Signers], NEW p, SignersAt(r, ss, p, n)
    PROVE  SignersAt(u, ss, p, n)
<1>1. p \in [0..n -> 6..Len(r)] /\ p[0] = 6
  BY DEF SignersAt
<1>2. p \in [0..n -> 6..Len(u)]
  BY <1>1
<1>3. ASSUME NEW k \in 0..(n - 1)
      PROVE  SignerAt(u, ss[k], p[k]) /\ p[k + 1] = SignerEnd(ss[k], p[k])
  <2>1. SignerAt(r, ss[k], p[k]) /\ p[k + 1] = SignerEnd(ss[k], p[k])
    BY DEF SignersAt
  <2>2. k \in 0..n /\ k + 1 \in 0..n /\ k \in 0..(MAX_TX_SIGNERS - 1)
    BY LimitsAssumption
  <2>3. ss[k] \in Signers /\ p[k] \in Nat /\ p[k + 1] <= Len(r)
    BY <1>1, <2>2
  <2>4. SignerAt(u, ss[k], p[k])
    BY <2>1, <2>3, SignerStays
  <2> QED
    BY <2>1, <2>4
<1> QED
  BY <1>1, <1>2, <1>3 DEF SignersAt

\* A signer starts in one place.
LEMMA StartIsOne ==
    ASSUME NEW r, NEW k \in Nat, k <= MAX_TX_SIGNERS, NEW o, NEW x,
           StartsAt(r, k, o), StartsAt(r, k, x)
    PROVE  o = x
<1>1. PICK ss \in [0..(MAX_TX_SIGNERS - 1) -> Signers] : \E p : SignersAt(r, ss, p, k) /\ p[k] = o
  BY DEF StartsAt
<1>2. PICK p : SignersAt(r, ss, p, k) /\ p[k] = o
  BY <1>1
<1>3. PICK tt \in [0..(MAX_TX_SIGNERS - 1) -> Signers] : \E q : SignersAt(r, tt, q, k) /\ q[k] = x
  BY DEF StartsAt
<1>4. PICK q : SignersAt(r, tt, q, k) /\ q[k] = x
  BY <1>3
<1> QED
  BY <1>2, <1>4, PlacesAreInBytes

\* There is one script.
LEMMA ScriptIsOne ==
    ASSUME NEW r, NEW x, NEW y, ScriptAt(r, x), ScriptAt(r, y)
    PROVE  x = y
<1>1. PICK o \in Nat : /\ r[6].v \in 0..MAX_TX_SIGNERS /\ StartsAt(r, r[6].v, o)
                       /\ x = ScriptBehind(r, o + 1 + r[o + 1].v)
  BY DEF ScriptAt
<1>2. PICK e \in Nat : /\ StartsAt(r, r[6].v, e)
                       /\ y = ScriptBehind(r, e + 1 + r[e + 1].v)
  BY DEF ScriptAt
<1>3. r[6].v \in Nat /\ r[6].v <= MAX_TX_SIGNERS
  BY <1>1, LimitsAssumption
<1>4. o = e
  BY <1>1, <1>2, <1>3, StartIsOne
<1> QED
  BY <1>1, <1>2, <1>4

\* More bytes move no signer.
LEMMA StartStays ==
    ASSUME NEW r, NEW u, Len(r) \in Nat, Len(u) \in Nat, Len(r) <= Len(u),
           \A k \in 1..Len(r) : u[k] = r[k],
           NEW n \in Nat, n <= MAX_TX_SIGNERS, NEW o, StartsAt(r, n, o)
    PROVE  StartsAt(u, n, o)
<1>1. PICK ss \in [0..(MAX_TX_SIGNERS - 1) -> Signers] : \E p : SignersAt(r, ss, p, n) /\ p[n] = o
  BY DEF StartsAt
<1>2. PICK p : SignersAt(r, ss, p, n) /\ p[n] = o
  BY <1>1
<1>3. SignersAt(u, ss, p, n)
  BY <1>2, AllSignersStay
<1> QED
  BY <1>2, <1>3 DEF StartsAt

\* A place of a signer is one of the bytes.
LEMMA StartIsWithin ==
    ASSUME NEW r, Len(r) \in Nat, NEW n \in Nat, NEW o, StartsAt(r, n, o)
    PROVE  o \in 6..Len(r) /\ 6 <= Len(r)
<1>1. PICK ss \in [0..(MAX_TX_SIGNERS - 1) -> Signers] : \E p : SignersAt(r, ss, p, n) /\ p[n] = o
  BY DEF StartsAt
<1>2. PICK p : SignersAt(r, ss, p, n) /\ p[n] = o
  BY <1>1
<1>3. p \in [0..n -> 6..Len(r)]
  BY <1>2 DEF SignersAt
<1> QED
  BY <1>2, <1>3

\* More bytes take no flag away.
LEMMA FlagStays ==
    ASSUME NEW r, NEW u, Len(r) \in Nat, Len(u) \in Nat, Len(r) <= Len(u),
           \A k \in 1..Len(r) : u[k] = r[k],
           NEW n \in Nat, n <= MAX_TX_SIGNERS, NEW flag, HasFlag(r, n, flag)
    PROVE  HasFlag(u, n, flag)
<1>1. PICK o \in Nat : StartsAt(r, n, o) /\ o + 2 <= Len(r) /\ flag \in r[o + 2].v
  BY DEF HasFlag
<1>2. StartsAt(u, n, o)
  BY <1>1, StartStays
<1>3. o + 2 <= Len(u) /\ u[o + 2] = r[o + 2]
  BY <1>1
<1> QED
  BY <1>1, <1>2, <1>3 DEF HasFlag

\* More bytes move no script.
LEMMA ScriptStays ==
    ASSUME NEW r, NEW u, Len(r) \in Nat, Len(u) \in Nat, Len(r) <= Len(u),
           \A k \in 1..Len(r) : u[k] = r[k], NEW x, ScriptAt(r, x)
    PROVE  ScriptAt(u, x)
<1>1. PICK o \in Nat :
          /\ r[6].v \in 0..MAX_TX_SIGNERS /\ StartsAt(r, r[6].v, o)
          /\ r[o + 1].v \in Nat /\ o + 1 + r[o + 1].v + 2 <= Len(r)
          /\ x = ScriptBehind(r, o + 1 + r[o + 1].v)
  BY DEF ScriptAt
<1>2. r[6].v \in Nat /\ r[6].v <= MAX_TX_SIGNERS
  BY <1>1, LimitsAssumption
<1>3. 6 <= Len(r)
  BY <1>1, <1>2, StartIsWithin
<1>4. u[6] = r[6] /\ StartsAt(u, r[6].v, o)
  BY <1>1, <1>2, <1>3, StartStays
<1>5. PICK e \in Nat : e = o + 1 + r[o + 1].v
  BY <1>1
<1>6. o + 1 \in 1..Len(r) /\ e + 1 \in 1..Len(r) /\ e + 2 \in 1..Len(r) /\ e + 2 <= Len(u)
  <2>1. PICK n \in Nat : n = Len(r)
    OBVIOUS
  <2>2. PICK a \in Nat : a = r[o + 1].v
    BY <1>1
  <2>3. e = o + 1 + a /\ e + 2 <= n
    BY <1>1, <1>5, <2>1, <2>2
  <2>4. o + 1 \in 1..n /\ e + 1 \in 1..n /\ e + 2 \in 1..n
    BY <2>3
  <2>5. e + 2 <= Len(u)
    BY <2>1, <2>3
  <2> QED
    BY <2>1, <2>4, <2>5
<1>7. u[o + 1] = r[o + 1] /\ u[e + 1] = r[e + 1] /\ u[e + 2] = r[e + 2]
  BY <1>6
<1>8. ScriptBehind(u, e) = ScriptBehind(r, e)
  BY <1>7 DEF ScriptBehind
<1> QED
  BY <1>1, <1>4, <1>5, <1>6, <1>7, <1>8 DEF ScriptAt

\* More bytes justify what fewer did.
LEMMA JustifiedStays ==
    ASSUME NEW r, NEW u, Len(r) \in Nat, Len(u) \in Nat, Len(r) <= Len(u),
           \A k \in 1..Len(r) : u[k] = r[k], NEW t, Justified(r, t)
    PROVE  Justified(u, t)
<1>1. ASSUME NEW k \in 0..(MAX_TX_SIGNERS - 1)
      PROVE  /\ t.signers[k].allowed_contracts_size > 0 => HasFlag(u, k, "CUSTOM_CONTRACTS")
             /\ t.signers[k].allowed_groups_size > 0 => HasFlag(u, k, "CUSTOM_GROUPS")
  <2>1. k \in Nat /\ k <= MAX_TX_SIGNERS
    BY LimitsAssumption
  <2>2. /\ t.signers[k].allowed_contracts_size > 0 => HasFlag(r, k, "CUSTOM_CONTRACTS")
        /\ t.signers[k].allowed_groups_size > 0 => HasFlag(r, k, "CUSTOM_GROUPS")
    BY DEF Justified
  <2>3. HasFlag(r, k, "CUSTOM_CONTRACTS") => HasFlag(u, k, "CUSTOM_CONTRACTS")
    BY <2>1, FlagStays
  <2>4. HasFlag(r, k, "CUSTOM_GROUPS") => HasFlag(u, k, "CUSTOM_GROUPS")
    BY <2>1, FlagStays
  <2> QED
    BY <2>2, <2>3, <2>4
<1>2. \A x : ScriptAt(r, x) => ScriptAt(u, x)
  BY ScriptStays
<1> QED
  BY <1>1, <1>2 DEF Justified

\* What was not stored needs no other reason.
LEMMA JustifiedKeeps ==
    ASSUME NEW r, NEW t, NEW u, Justified(r, t),
           u.is_system_asset_transfer = t.is_system_asset_transfer, u.is_neo = t.is_neo,
           \A k \in 0..(MAX_TX_SIGNERS - 1) :
              /\ u.signers[k].allowed_contracts_size = t.signers[k].allowed_contracts_size
              /\ u.signers[k].allowed_groups_size = t.signers[k].allowed_groups_size
    PROVE  Justified(r, u)
BY DEF Justified

-----------------------------------------------------------------------------
(* The steps. *)

\* A step that ends the attempt without accepting has only to justify what it leaves.
LEMMA RefusalLeaves ==
    ASSUME FormatInv, ReaderInv', at' = "idle", status' # "PARSING_OK", UNCHANGED raw,
           Justified(raw, tx')
    PROVE  FormatInv'
BY DEF FormatInv, AcceptedIsWritten, TransferIsScript, Accepted

\* A step that stores none of the counts and flags.
LEMMA PlainRefusal ==
    ASSUME FormatInv, ReaderInv', at' = "idle", status' # "PARSING_OK", UNCHANGED raw,
           tx'.is_system_asset_transfer = tx.is_system_asset_transfer, tx'.is_neo = tx.is_neo,
           \A k \in 0..(MAX_TX_SIGNERS - 1) :
              /\ tx'.signers[k].allowed_contracts_size = tx.signers[k].allowed_contracts_size
              /\ tx'.signers[k].allowed_groups_size = tx.signers[k].allowed_groups_size
    PROVE  FormatInv'
<1>1. Justified(raw, tx')
  BY JustifiedKeeps DEF FormatInv
<1> QED
  BY <1>1, RefusalLeaves

\* The names of the numbers.
Numbers == {"version", "nonce", "system_fee", "network_fee", "valid_until_block"}

LEMMA HeaderNames ==
    /\ \A k, l \in 1..5 : k # l => Header[k] # Header[l]
    /\ \A k \in 1..5 : Header[k] \in Numbers
BY DEF Header, Numbers

\* Storing one of them.
Stored(u, t, f, v) == u = [t EXCEPT ![f] = v]

LEMMA StoreNumber ==
    ASSUME NEW t \in Transaction, NEW f \in Numbers, NEW v, NEW u, Stored(u, t, f, v)
    PROVE  /\ u.signers = t.signers
           /\ u.is_system_asset_transfer = t.is_system_asset_transfer /\ u.is_neo = t.is_neo
           /\ u[f] = v
           /\ \A g \in Numbers : g # f => u[g] = t[g]
<1>1. /\ u.signers = t.signers
      /\ u.is_system_asset_transfer = t.is_system_asset_transfer /\ u.is_neo = t.is_neo
  BY DEF Transaction, Numbers, Stored
<1>2. \A g \in Numbers : g \in DOMAIN t
  BY DEF Transaction, Numbers
<1>3. u[f] = v
  BY <1>2 DEF Stored
<1>4. \A g \in DOMAIN t : g # f => u[g] = t[g]
  BY DEF Stored
<1> QED
  BY <1>1, <1>2, <1>3, <1>4

\* A number of the header.
LEMMA HeaderFormat ==
    ASSUME FormatInv, ReadHeader
    PROVE  FormatInv'
<1>1. ReaderInv' /\ TypeOK
  BY ParseKeeps DEF FormatInv, Parse, ReaderInv
<1>2. /\ at = "header" /\ UNCHANGED raw /\ i \in Nat /\ i + 1 \in 1..5 /\ tx \in Transaction
      /\ off = i /\ HeaderAt(raw, tx, i) /\ status = "none" /\ raw \in Seq(Items)
  BY DEF ReadHeader, Reading, FormatInv, ReaderInv, TypeOK, Header
<1>3. PICK f : f = Header[i + 1]
  OBVIOUS
<1>4. PICK v : Stored(tx', tx, f, v)
  BY <1>3 DEF ReadHeader, Stored
<1>5. /\ tx'.signers = tx.signers
      /\ tx'.is_system_asset_transfer = tx.is_system_asset_transfer /\ tx'.is_neo = tx.is_neo
      /\ tx'[f] = v
      /\ \A k \in 1..5 : k # i + 1 => tx'[Header[k]] = tx[Header[k]]
  <2>1. f \in Numbers
    BY <1>2, <1>3, HeaderNames
  <2>2. /\ tx'.signers = tx.signers
        /\ tx'.is_system_asset_transfer = tx.is_system_asset_transfer /\ tx'.is_neo = tx.is_neo
        /\ tx'[f] = v
        /\ \A g \in Numbers : g # f => tx'[g] = tx[g]
    BY <1>2, <1>4, <2>1, StoreNumber
  <2>3. \A k \in 1..5 : k # i + 1 => Header[k] # f
    BY <1>2, <1>3, HeaderNames
  <2> QED
    BY <2>2, <2>3, HeaderNames
<1>6. Justified(raw, tx')
  BY <1>5, JustifiedKeeps DEF FormatInv
<1>7. CASE ~Readable(f)
  <2>1. Refuse(ParsingError[f])
    BY <1>3, <1>7 DEF ReadHeader
  <2>2. ParsingError[f] # "PARSING_OK"
    <3>1. f \in {"version", "nonce", "system_fee", "network_fee", "valid_until_block"}
      BY <1>2, <1>3, HeaderNames DEF Numbers
    <3> QED
      BY <3>1 DEF ParsingError
  <2> QED
    BY <1>1, <1>2, <1>6, <2>1, <2>2, RefusalLeaves DEF Refuse, Return
<1>8. CASE Readable(f)
  <2>1. /\ tx' = [tx EXCEPT ![f] = Value]
        /\ IF BadValue(f, Value) THEN TakeAndRefuse(ValueError[f])
           ELSE IF i + 1 < Len(Header) THEN TakeAndGoto("header", i + 1, 0)
           ELSE TakeAndGoto("signers", 0, 0)
    BY <1>3, <1>8 DEF ReadHeader
  <2>2. CASE BadValue(f, Value)
    <3>1. f \in {"version", "system_fee", "network_fee"}
      BY <2>2 DEF BadValue
    <3>2. ValueError[f] # "PARSING_OK"
      BY <3>1 DEF ValueError
    <3> QED
      BY <1>1, <1>2, <1>6, <2>1, <2>2, <3>2, RefusalLeaves DEF TakeAndRefuse, Return
  <2>3. CASE ~BadValue(f, Value)
    <3>1. raw[i + 1] = Item(f, tx'[f])
      <4>1. raw[off + 1] \in Items /\ raw[off + 1].is = f
        BY <1>1, <1>8, ValueType
      <4>2. raw[off + 1] = Item(f, Value)
        BY <4>1, ItemIs DEF Value
      <4>3. PICK w : w = Value
        OBVIOUS
      <4>4. Stored(tx', tx, f, w)
        BY <2>1, <4>3 DEF Stored
      <4>5. tx'[f] = w
        <5>1. f \in Numbers
          BY <1>2, <1>3, HeaderNames
        <5> QED
          BY <1>2, <4>4, <5>1, StoreNumber
      <4> QED
        BY <1>2, <4>2, <4>3, <4>5
    <3>2. HeaderAt(raw, tx', i + 1)
      BY <1>2, <1>3, <1>5, <3>1 DEF HeaderAt
    <3>3. CASE i + 1 < 5
      <4>1. at' = "header" /\ i' = i + 1 /\ off' = off + 1 /\ status' = status
        BY <2>1, <2>3, <3>3 DEF TakeAndGoto, Goto, Header
      <4> QED
        BY <1>1, <1>2, <1>6, <3>2, <4>1
           DEF FormatInv, AcceptedIsWritten, TransferIsScript, Accepted
    <3>4. CASE ~(i + 1 < 5)
      <4>1. at' = "signers" /\ i + 1 = 5 /\ off' = off + 1 /\ status' = status
        BY <1>2, <2>1, <2>3, <3>4 DEF TakeAndGoto, Goto, Header
      <4> QED
        BY <1>1, <1>2, <1>6, <3>2, <4>1
           DEF FormatInv, AcceptedIsWritten, TransferIsScript, Accepted
    <3> QED
      BY <3>3, <3>4
  <2> QED
    BY <2>2, <2>3
<1> QED
  BY <1>7, <1>8

\* The count of the signers: the first one is behind it.
LEMMA SignerCountFormat ==
    ASSUME FormatInv, ReadSignerCount
    PROVE  FormatInv'
<1>1. ReaderInv' /\ TypeOK
  BY ParseKeeps DEF FormatInv, Parse, ReaderInv
<1>2. /\ at = "signers" /\ UNCHANGED raw /\ tx \in Transaction /\ off = 5
      /\ HeaderAt(raw, tx, 5) /\ status = "none" /\ raw \in Seq(Items)
  BY DEF ReadSignerCount, Reading, FormatInv, ReaderInv, TypeOK
<1>3. CASE ~Readable("varint")
  <2>1. tx' = tx /\ at' = "idle" /\ status' = "SIGNER_LENGTH_PARSING_ERROR"
    BY <1>3 DEF ReadSignerCount, Refuse, Return
  <2> QED
    BY <1>1, <1>2, <2>1, PlainRefusal
<1>4. CASE Readable("varint") /\ Value \notin MIN_TX_SIGNERS..MAX_TX_SIGNERS
  <2>1. tx' = tx /\ at' = "idle" /\ status' = "SIGNER_LENGTH_VALUE_ERROR"
    BY <1>4 DEF ReadSignerCount, TakeAndRefuse, Return
  <2> QED
    BY <1>1, <1>2, <2>1, PlainRefusal
<1>5. CASE Readable("varint") /\ Value \in MIN_TX_SIGNERS..MAX_TX_SIGNERS
  <2>1. /\ tx' = [tx EXCEPT !.signers_size = Value] /\ off' = off + 1
        /\ at' = "account" /\ i' = 0 /\ j' = 0 /\ status' = status
    BY <1>5 DEF ReadSignerCount, TakeAndGoto, Goto
  <2>2. /\ tx'.signers = tx.signers /\ tx'.signers_size = Value
        /\ tx'.is_system_asset_transfer = tx.is_system_asset_transfer /\ tx'.is_neo = tx.is_neo
        /\ \A f \in Numbers : tx'[f] = tx[f]
    BY <1>2, <2>1 DEF Transaction, Numbers
  <2>3. Justified(raw, tx')
    BY <2>2, JustifiedKeeps DEF FormatInv
  <2>4. HeaderAt(raw, tx', 5)
    BY <1>2, <2>2, HeaderNames DEF HeaderAt
  <2>5. raw[6] = Item("varint", tx'.signers_size) /\ 6 <= Len(raw)
    <3>1. raw[off + 1] \in Items /\ raw[off + 1].is = "varint" /\ off + 1 \in 0..Len(raw)
      BY <1>1, <1>5, ValueType
    <3>2. raw[off + 1] = Item("varint", Value)
      BY <3>1, ItemIs DEF Value
    <3> QED
      BY <1>2, <2>2, <3>1, <3>2
  <2>6. SignersAt(raw, tx'.signers, [k \in 0..0 |-> 6], 0)
    BY <1>2, <2>5 DEF SignersAt
  <2>7. Located([k \in 0..0 |-> 6])'
    BY <1>2, <2>1, <2>6 DEF Located, WithinSigner, InSigner, AfterSigners
  <2> QED
    BY <1>1, <1>2, <2>1, <2>3, <2>4, <2>5, <2>7
       DEF FormatInv, AcceptedIsWritten, TransferIsScript, Accepted
<1> QED
  BY <1>3, <1>4, <1>5 DEF ReadSignerCount

\* The signer that is being read is stored, and nothing else.
SignerStored(s) ==
    /\ tx'.signers[i] = s
    /\ \A k \in 0..(MAX_TX_SIGNERS - 1) : k # i => tx'.signers[k] = tx.signers[k]
    /\ tx'.signers_size = tx.signers_size
    /\ \A f \in Numbers : tx'[f] = tx[f]
    /\ tx'.is_system_asset_transfer = tx.is_system_asset_transfer /\ tx'.is_neo = tx.is_neo

LEMMA StoreSigner ==
    ASSUME tx \in Transaction, i \in 0..(MAX_TX_SIGNERS - 1), NEW s,
           tx' = [tx EXCEPT !.signers[i] = s]
    PROVE  SignerStored(s)
BY DEF Transaction, Numbers, SignerStored

\* What is known while a signer is read.
LEMMA InSignerFacts ==
    ASSUME FormatInv, at \in InSigner \cup {"account"}
    PROVE  /\ i \in 0..(MAX_TX_SIGNERS - 1) /\ i \in Nat /\ i + 1 <= tx.signers_size
           /\ tx.signers_size \in Nat /\ tx.signers_size <= MAX_TX_SIGNERS
           /\ tx \in Transaction /\ TypeOK /\ status = "none"
           /\ raw \in Seq(Items) /\ Len(raw) \in Nat /\ off \in Nat /\ off <= Len(raw)
           /\ tx.signers \in [0..(MAX_TX_SIGNERS - 1) -> Signers]
           /\ tx.signers[i] \in Signers
           /\ HeaderAt(raw, tx, 5) /\ 6 <= Len(raw) /\ raw[6] = Item("varint", tx.signers_size)
           /\ Justified(raw, tx)
           /\ \E p : /\ SignersAt(raw, tx.signers, p, i) /\ WithinSigner(tx.signers[i], p[i])
                     /\ p[i] \in Nat /\ 6 <= p[i]
<1>1. /\ i \in 0..(MAX_TX_SIGNERS - 1) /\ i \in Nat /\ tx \in Transaction /\ TypeOK
      /\ status = "none" /\ tx.signers[i] \in Signers
  BY SignerPlace DEF FormatInv
<1>2. /\ raw \in Seq(Items) /\ Len(raw) \in Nat /\ off \in Nat /\ off <= Len(raw)
      /\ i \in 0..(tx.signers_size - 1)
  BY <1>1 DEF TypeOK, InSigner
<1>3. /\ tx.signers_size \in Nat /\ tx.signers_size <= MAX_TX_SIGNERS
      /\ tx.signers \in [0..(MAX_TX_SIGNERS - 1) -> Signers]
  BY <1>1, LimitsAssumption DEF Transaction
<1>4. /\ HeaderAt(raw, tx, 5) /\ 6 <= Len(raw) /\ raw[6] = Item("varint", tx.signers_size)
      /\ Justified(raw, tx) /\ \E p : Located(p)
  BY DEF FormatInv, InSigner
<1>5. PICK p : Located(p)
  BY <1>4
<1>6. SignersAt(raw, tx.signers, p, i) /\ WithinSigner(tx.signers[i], p[i])
  BY <1>5 DEF Located
<1>7. p[i] \in Nat /\ 6 <= p[i]
  BY <1>1, <1>6 DEF SignersAt
<1> QED
  BY <1>1, <1>2, <1>3, <1>4, <1>6, <1>7

\* A step from one part of a signer to another.
LEMMA WithinSignerFormat ==
    ASSUME FormatInv, ReaderInv', at \in InSigner \cup {"account"}, UNCHANGED <<raw, status>>,
           NEW s, SignerStored(s), Justified(raw, tx'),
           NEW p, SignersAt(raw, tx.signers, p, i), NEW o, o = p[i],
           at' \in InSigner, i' = i, WithinSigner(s, o)'
    PROVE  FormatInv'
<1>1. /\ i \in 0..(MAX_TX_SIGNERS - 1) /\ i \in Nat /\ status = "none"
      /\ HeaderAt(raw, tx, 5) /\ 6 <= Len(raw) /\ raw[6] = Item("varint", tx.signers_size)
  BY InSignerFacts
<1>2. HeaderAt(raw, tx', 5) /\ raw[6] = Item("varint", tx'.signers_size)
  BY <1>1, HeaderNames DEF HeaderAt, SignerStored
<1>3. SignersAt(raw, tx'.signers, p, i)
  <2>1. \A k \in 0..(i - 1) : k \in 0..(MAX_TX_SIGNERS - 1) /\ k # i
    BY <1>1, LimitsAssumption
  <2>2. \A k \in 0..(i - 1) : tx'.signers[k] = tx.signers[k]
    BY <2>1 DEF SignerStored
  <2> QED
    BY <1>1, <2>2, SignersStay
<1>4. Located(p)'
  <2>1. tx'.signers[i'] = s /\ p[i'] = o /\ raw' = raw /\ at' \notin AfterSigners
    BY DEF SignerStored, InSigner, AfterSigners
  <2> QED
    BY <1>3, <2>1 DEF Located
<1> QED
  BY <1>1, <1>2, <1>4 DEF FormatInv, AcceptedIsWritten, TransferIsScript, Accepted, InSigner

\* A step from the end of a signer to what follows.
LEMMA AfterSignerFormat ==
    ASSUME FormatInv, ReaderInv', at \in InSigner \cup {"account"}, UNCHANGED raw,
           NEW s \in Signers, SignerStored(s), Justified(raw, tx'),
           NEW p, SignersAt(raw, tx.signers, p, i), NEW o, o = p[i],
           SignerAt(raw, s, o), off' = SignerEnd(s, o), AfterSigner
    PROVE  FormatInv'
<1>1. /\ i \in 0..(MAX_TX_SIGNERS - 1) /\ i \in Nat /\ status = "none" /\ Len(raw) \in Nat
      /\ HeaderAt(raw, tx, 5) /\ 6 <= Len(raw) /\ raw[6] = Item("varint", tx.signers_size)
      /\ tx.signers_size \in Nat /\ i + 1 <= tx.signers_size
  BY InSignerFacts
<1>2. HeaderAt(raw, tx', 5) /\ raw[6] = Item("varint", tx'.signers_size)
  BY <1>1, HeaderNames DEF HeaderAt, SignerStored
<1>3. SignersAt(raw, tx'.signers, p, i)
  <2>1. \A k \in 0..(i - 1) : k \in 0..(MAX_TX_SIGNERS - 1) /\ k # i
    BY <1>1, LimitsAssumption
  <2>2. \A k \in 0..(i - 1) : tx'.signers[k] = tx.signers[k]
    BY <2>1 DEF SignerStored
  <2> QED
    BY <1>1, <2>2, SignersStay
<1>4. tx'.signers[i] = s /\ tx'.signers_size = tx.signers_size
  BY DEF SignerStored
<1>5. SignerEnd(s, o) \in 6..Len(raw)
  <2>1. o \in Nat /\ 6 <= o
    BY <1>1 DEF SignersAt
  <2>2. off' \in 0..Len(raw)
    BY DEF ReaderInv, TypeOK
  <2>3. SignerEnd(s, o) \in Nat /\ o <= SignerEnd(s, o)
    <3>1. /\ ContractsEnd(s, o) \in Nat /\ SignerEnd(s, o) \in Nat
          /\ o + 2 <= ContractsEnd(s, o) /\ ContractsEnd(s, o) <= SignerEnd(s, o)
      BY <2>1, Ends
    <3> QED
      BY <2>1, <3>1
  <2> QED
    BY <1>1, <2>1, <2>2, <2>3
<1>6. PICK q : SignersAt(raw, tx'.signers, q, i + 1) /\ q[i + 1] = off'
  BY <1>1, <1>3, <1>4, <1>5, SignersGrow
<1>7. CASE i + 1 < tx.signers_size
  <2>1. at' = "account" /\ i' = i + 1 /\ status' = status
    BY <1>7 DEF AfterSigner, Goto
  <2>2. Located(q)'
    BY <1>6, <2>1 DEF Located, WithinSigner, InSigner, AfterSigners
  <2> QED
    BY <1>1, <1>2, <2>1, <2>2 DEF FormatInv, AcceptedIsWritten, TransferIsScript, Accepted
<1>8. CASE ~(i + 1 < tx.signers_size)
  <2>1. at' = "attributes" /\ i + 1 = tx'.signers_size /\ status' = status
    BY <1>1, <1>4, <1>8 DEF AfterSigner, Goto
  <2>2. Located(q)'
    BY <1>6, <2>1 DEF Located, WithinAttributes, InSigner, AfterSigners
  <2> QED
    BY <1>1, <1>2, <2>1, <2>2 DEF FormatInv, AcceptedIsWritten, TransferIsScript, Accepted
<1> QED
  BY <1>7, <1>8

\* A step from the end of the contracts of a signer to what follows.
LEMMA AfterContractsFormat ==
    ASSUME FormatInv, ReaderInv', at \in InSigner \cup {"account"}, UNCHANGED raw,
           NEW s \in Signers, SignerStored(s), Justified(raw, tx'),
           NEW p, SignersAt(raw, tx.signers, p, i), NEW o, o = p[i],
           raw[o + 1] = Item("hash", s.account), raw[o + 2] = Item("scope", s.scope),
           ContractsAt(raw, s, o), off' = ContractsEnd(s, o), AfterContracts(s.scope)
    PROVE  FormatInv'
<1>1. CASE "CUSTOM_GROUPS" \in s.scope
  <2>1. at' = "groups" /\ i' = i /\ status' = status
    BY <1>1 DEF AfterContracts, Goto
  <2>2. WithinSigner(s, o)'
    BY <1>1, <2>1 DEF WithinSigner, InSigner
  <2>3. at' \in InSigner
    BY <2>1 DEF InSigner
  <2> QED
    BY <2>1, <2>2, <2>3, WithinSignerFormat
<1>2. CASE "CUSTOM_GROUPS" \notin s.scope
  <2>1. AfterSigner /\ GroupsAt(raw, s, o) /\ off' = SignerEnd(s, o)
    BY <1>2 DEF AfterContracts, GroupsAt, SignerEnd
  <2>2. SignerAt(raw, s, o)
    BY <2>1 DEF SignerAt
  <2> QED
    BY <2>1, <2>2, AfterSignerFormat
<1> QED
  BY <1>1, <1>2

\* What a field that can be read is.
LEMMA ValueIs ==
    ASSUME TypeOK, NEW is, Readable(is)
    PROVE  raw[off + 1] = Item(is, Value)
<1>1. raw[off + 1] \in Items /\ raw[off + 1].is = is
  BY ValueType
<1> QED
  BY <1>1, ItemIs DEF Value

\* A signer stored with the counts it had.
LEMMA JustifiedSigner ==
    ASSUME Justified(raw, tx), NEW s, SignerStored(s), i \in 0..(MAX_TX_SIGNERS - 1),
           s.allowed_contracts_size = tx.signers[i].allowed_contracts_size,
           s.allowed_groups_size = tx.signers[i].allowed_groups_size
    PROVE  Justified(raw, tx')
<1>1. \A k \in 0..(MAX_TX_SIGNERS - 1) :
         /\ tx'.signers[k].allowed_contracts_size = tx.signers[k].allowed_contracts_size
         /\ tx'.signers[k].allowed_groups_size = tx.signers[k].allowed_groups_size
  BY DEF SignerStored
<1> QED
  BY <1>1, JustifiedKeeps DEF SignerStored

\* The account of a signer.
LEMMA AccountFormat ==
    ASSUME FormatInv, ReadAccount
    PROVE  FormatInv'
<1>1. ReaderInv' /\ at = "account" /\ UNCHANGED raw
  BY ParseKeeps DEF FormatInv, Parse, ReadAccount, Reading
<1>2. /\ i \in 0..(MAX_TX_SIGNERS - 1) /\ tx \in Transaction /\ TypeOK
      /\ tx.signers[i] \in Signers /\ Justified(raw, tx)
  BY <1>1, InSignerFacts
<1>3. PICK a : a = IF Readable("hash") THEN Value ELSE Unset
  OBVIOUS
<1>4. a \in Hash160 \cup {Unset}
  BY <1>2, <1>3, ValueType, ItemValue DEF Value
<1>5. PICK s : s = [tx.signers[i] EXCEPT !.account = a]
  OBVIOUS
<1>6. /\ s \in Signers /\ s.account = a
      /\ s.allowed_contracts_size = tx.signers[i].allowed_contracts_size
      /\ s.allowed_groups_size = tx.signers[i].allowed_groups_size
  BY <1>2, <1>4, <1>5 DEF Signers
<1>7. SignerStored(s)
  <2>1. tx' = [tx EXCEPT !.signers[i] = s]
    BY <1>3, <1>5 DEF ReadAccount
  <2> QED
    BY <1>2, <2>1, StoreSigner
<1>8. Justified(raw, tx')
  BY <1>2, <1>6, <1>7, JustifiedSigner
<1>9. CASE ~Readable("hash")
  <2>1. at' = "idle" /\ status' = "SIGNER_ACCOUNT_PARSING_ERROR"
    BY <1>9 DEF ReadAccount, Refuse, Return
  <2> QED
    BY <1>1, <1>8, <2>1, RefusalLeaves
<1>10. CASE Readable("hash") /\ Duplicate(Value)
  <2>1. at' = "idle" /\ status' = "SIGNER_ACCOUNT_DUPLICATE_ERROR"
    BY <1>10 DEF ReadAccount, TakeAndRefuse, Return
  <2> QED
    BY <1>1, <1>8, <2>1, RefusalLeaves
<1>11. CASE Readable("hash") /\ ~Duplicate(Value)
  <2>1. at' = "scope" /\ i' = i /\ status' = status /\ off' = off + 1
    BY <1>11 DEF ReadAccount, TakeAndGoto, Goto
  <2>2. PICK p : SignersAt(raw, tx.signers, p, i) /\ WithinSigner(tx.signers[i], p[i])
    BY <1>1, InSignerFacts
  <2>3. PICK o : o = p[i]
    OBVIOUS
  <2>4. off = o
    BY <1>1, <2>2, <2>3 DEF WithinSigner
  <2>5. raw[o + 1] = Item("hash", s.account)
    BY <1>2, <1>3, <1>6, <1>11, <2>4, ValueIs
  <2>6. WithinSigner(s, o)' /\ at' \in InSigner
    BY <1>1, <2>1, <2>4, <2>5 DEF WithinSigner, InSigner
  <2> QED
    BY <1>1, <1>7, <1>8, <2>1, <2>2, <2>3, <2>6, WithinSignerFormat
<1> QED
  BY <1>9, <1>10, <1>11 DEF ReadAccount

\* The scope of a signer.
LEMMA ScopeFormat ==
    ASSUME FormatInv, ReadScope
    PROVE  FormatInv'
<1>1. ReaderInv' /\ at = "scope" /\ UNCHANGED raw
  BY ParseKeeps DEF FormatInv, Parse, ReadScope, Reading
<1>2. /\ i \in 0..(MAX_TX_SIGNERS - 1) /\ tx \in Transaction /\ TypeOK
      /\ tx.signers[i] \in Signers /\ Justified(raw, tx)
  BY <1>1, InSignerFacts DEF InSigner
<1>3. CASE ~Readable("scope")
  <2>1. at' = "idle" /\ status' = "SIGNER_SCOPE_PARSING_ERROR" /\ tx' = tx
    BY <1>3 DEF ReadScope, Refuse, Return
  <2> QED
    BY <1>1, <1>2, <2>1, RefusalLeaves
<1>4. CASE Readable("scope")
  <2>1. PICK x : x = Value
    OBVIOUS
  <2>2. x \in SUBSET Scopes
    BY <1>2, <1>4, <2>1, ValueType, ItemValue DEF Value
  <2>3. PICK s : s = [tx.signers[i] EXCEPT !.scope = x]
    OBVIOUS
  <2>4. /\ s \in Signers /\ s.scope = x /\ s.account = tx.signers[i].account
        /\ s.allowed_contracts_size = tx.signers[i].allowed_contracts_size
        /\ s.allowed_groups_size = tx.signers[i].allowed_groups_size
    BY <1>2, <2>2, <2>3 DEF Signers
  <2>5. SignerStored(s)
    <3>1. tx' = [tx EXCEPT !.signers[i] = s]
      BY <1>4, <2>1, <2>3 DEF ReadScope
    <3> QED
      BY <1>2, <3>1, StoreSigner
  <2>6. Justified(raw, tx')
    BY <1>2, <2>4, <2>5, JustifiedSigner
  <2>7. CASE "GLOBAL" \in x /\ x # {"GLOBAL"}
    <3>1. at' = "idle" /\ status' = "SIGNER_SCOPE_VALUE_ERROR_GLOBAL_FLAG"
      BY <1>4, <2>1, <2>7 DEF ReadScope, TakeAndRefuse, Return
    <3> QED
      BY <1>1, <2>6, <3>1, RefusalLeaves
  <2>8. CASE ~("GLOBAL" \in x /\ x # {"GLOBAL"})
    <3>1. AfterScope(x) /\ off' = off + 1
      BY <1>4, <2>1, <2>8 DEF ReadScope
    <3>2. PICK p : /\ SignersAt(raw, tx.signers, p, i) /\ WithinSigner(tx.signers[i], p[i])
                   /\ p[i] \in Nat
      BY <1>1, InSignerFacts DEF InSigner
    <3>3. PICK o \in Nat : o = p[i]
      BY <3>2
    <3>4. off = o + 1 /\ raw[o + 1] = Item("hash", s.account)
      BY <1>1, <2>4, <3>2, <3>3 DEF WithinSigner, InSigner
    <3>5. raw[o + 2] = Item("scope", s.scope) /\ off' = o + 2
      <4>1. off + 1 = o + 2
        BY <3>4
      <4> QED
        BY <1>2, <1>4, <2>1, <2>4, <3>1, <4>1, ValueIs
    <3>6. CASE "CUSTOM_CONTRACTS" \in x
      <4>1. at' = "contracts" /\ i' = i /\ status' = status
        BY <3>1, <3>6 DEF AfterScope, Goto
      <4>2. WithinSigner(s, o)' /\ at' \in InSigner
        BY <1>1, <2>4, <3>4, <3>5, <3>6, <4>1 DEF WithinSigner, InSigner
      <4> QED
        BY <1>1, <2>5, <2>6, <3>2, <3>3, <4>1, <4>2, WithinSignerFormat DEF InSigner
    <3>7. CASE "CUSTOM_CONTRACTS" \notin x
      <4>1. AfterContracts(s.scope) /\ ContractsAt(raw, s, o) /\ off' = ContractsEnd(s, o)
        BY <2>4, <3>1, <3>5, <3>7 DEF AfterScope, ContractsAt, ContractsEnd
      <4> QED
        BY <1>1, <2>4, <2>5, <2>6, <3>2, <3>3, <3>4, <3>5, <4>1, AfterContractsFormat DEF InSigner
    <3> QED
      BY <3>6, <3>7
  <2> QED
    BY <2>7, <2>8
<1> QED
  BY <1>3, <1>4

\* The flag of the signer that is being read is where an earlier attempt found it.
LEMMA FlagIsThere ==
    ASSUME FormatInv, at \in InSigner, NEW p, SignersAt(raw, tx.signers, p, i),
           NEW o \in Nat, o = p[i], o + 2 <= Len(raw), NEW flag, flag \in raw[o + 2].v
    PROVE  HasFlag(raw, i, flag)
<1>1. tx.signers \in [0..(MAX_TX_SIGNERS - 1) -> Signers]
  BY InSignerFacts
<1>2. StartsAt(raw, i, o)
  BY <1>1 DEF StartsAt
<1> QED
  BY <1>2 DEF HasFlag

\* A signer stored with a count that its scope announces.
LEMMA JustifiedCount ==
    ASSUME Justified(raw, tx), NEW s, SignerStored(s), i \in 0..(MAX_TX_SIGNERS - 1),
           \/ s.allowed_contracts_size = tx.signers[i].allowed_contracts_size
           \/ HasFlag(raw, i, "CUSTOM_CONTRACTS"),
           \/ s.allowed_groups_size = tx.signers[i].allowed_groups_size
           \/ HasFlag(raw, i, "CUSTOM_GROUPS")
    PROVE  Justified(raw, tx')
<1>1. ASSUME NEW k \in 0..(MAX_TX_SIGNERS - 1)
      PROVE  /\ tx'.signers[k].allowed_contracts_size > 0 => HasFlag(raw, k, "CUSTOM_CONTRACTS")
             /\ tx'.signers[k].allowed_groups_size > 0 => HasFlag(raw, k, "CUSTOM_GROUPS")
  <2>1. CASE k = i
    BY <2>1 DEF Justified, SignerStored
  <2>2. CASE k # i
    BY <2>2 DEF Justified, SignerStored
  <2> QED
    BY <2>1, <2>2
<1> QED
  BY <1>1 DEF Justified, SignerStored

\* The count of the contracts of a signer.
LEMMA ContractCountFormat ==
    ASSUME FormatInv, ReadContractCount
    PROVE  FormatInv'
<1>1. ReaderInv' /\ at = "contracts" /\ at \in InSigner /\ UNCHANGED raw
  BY ParseKeeps DEF FormatInv, Parse, ReadContractCount, Reading, InSigner
<1>2. /\ i \in 0..(MAX_TX_SIGNERS - 1) /\ tx \in Transaction /\ TypeOK
      /\ tx.signers[i] \in Signers /\ Justified(raw, tx)
      /\ off \in Nat /\ off <= Len(raw) /\ Len(raw) \in Nat
  BY <1>1, InSignerFacts
<1>3. CASE ~Readable("varint")
  <2>1. at' = "idle" /\ status' = "SIGNER_ALLOWED_CONTRACTS_LENGTH_PARSING_ERROR" /\ tx' = tx
    BY <1>3 DEF ReadContractCount, Refuse, Return
  <2> QED
    BY <1>1, <1>2, <2>1, RefusalLeaves
<1>4. CASE Readable("varint") /\ TooMany(Value)
  <2>1. at' = "idle" /\ status' = "SIGNER_ALLOWED_CONTRACTS_LENGTH_VALUE_ERROR" /\ tx' = tx
    BY <1>4 DEF ReadContractCount, TakeAndRefuse, Return
  <2> QED
    BY <1>1, <1>2, <2>1, RefusalLeaves
<1>5. CASE Readable("varint") /\ ~TooMany(Value)
  <2>1. PICK x : x = Value
    OBVIOUS
  <2>2. x \in 0..MAX_SIGNER_SUB_ITEMS
    <3>1. x \in Nat
      BY <1>2, <1>5, <2>1, ValueType, ItemValue DEF Value
    <3> QED
      BY <1>5, <2>1, <3>1, LimitsAssumption DEF TooMany
  <2>3. PICK s : s = [tx.signers[i] EXCEPT !.allowed_contracts_size = x]
    OBVIOUS
  <2>4. /\ s \in Signers /\ s.scope = tx.signers[i].scope /\ s.account = tx.signers[i].account
        /\ s.allowed_contracts_size = x
        /\ s.allowed_groups_size = tx.signers[i].allowed_groups_size
    BY <1>2, <2>2, <2>3 DEF Signers
  <2>5. SignerStored(s)
    <3>1. tx' = [tx EXCEPT !.signers[i] = s]
      BY <1>5, <2>1, <2>3 DEF ReadContractCount
    <3> QED
      BY <1>2, <3>1, StoreSigner
  <2>6. PICK p : /\ SignersAt(raw, tx.signers, p, i) /\ WithinSigner(tx.signers[i], p[i])
                 /\ p[i] \in Nat
    BY <1>1, InSignerFacts
  <2>7. PICK o \in Nat : o = p[i]
    BY <2>6
  <2>8. /\ off = o + 2 /\ "CUSTOM_CONTRACTS" \in s.scope
        /\ raw[o + 1] = Item("hash", s.account) /\ raw[o + 2] = Item("scope", s.scope)
    BY <1>1, <2>4, <2>6, <2>7 DEF WithinSigner
  <2>9. Justified(raw, tx')
    <3>1. "CUSTOM_CONTRACTS" \in raw[o + 2].v
      BY <2>8 DEF Item
    <3>2. HasFlag(raw, i, "CUSTOM_CONTRACTS")
      BY <1>1, <1>2, <2>6, <2>7, <2>8, <3>1, FlagIsThere
    <3> QED
      BY <1>2, <2>4, <2>5, <3>2, JustifiedCount
  <2>10. /\ off' = off + 1
         /\ IF x = 0 THEN AfterContracts(s.scope) ELSE Goto("contract", i, 0)
    BY <1>5, <2>1, <2>4 DEF ReadContractCount
  <2>11. raw[o + 2 + 1] = Item("varint", x)
    BY <1>2, <1>5, <2>1, <2>8, ValueIs
  <2>12. CASE x = 0
    <3>1. ContractsAt(raw, s, o) /\ off' = ContractsEnd(s, o)
      BY <2>4, <2>8, <2>10, <2>11, <2>12 DEF ContractsAt, ListAt, ContractsEnd
    <3>2. AfterContracts(s.scope)
      BY <2>10, <2>12
    <3> QED
      BY <1>1, <2>4, <2>5, <2>6, <2>7, <2>8, <2>9, <3>1, <3>2, AfterContractsFormat
  <2>13. CASE x # 0
    <3>1. at' = "contract" /\ i' = i /\ j' = 0 /\ status' = status
      BY <2>10, <2>13 DEF Goto
    <3>2. off' = o + 3 + 0
      BY <2>8, <2>10
    <3>3. ListAt(raw, "hash", s.allowed_contracts, s.allowed_contracts_size, 0, o + 2)
      BY <2>4, <2>11 DEF ListAt
    <3>4. WithinSigner(s, o)' /\ at' \in InSigner
      BY <1>1, <2>8, <3>1, <3>2, <3>3 DEF WithinSigner, InSigner
    <3> QED
      BY <1>1, <2>5, <2>6, <2>7, <2>9, <3>1, <3>4, WithinSignerFormat
  <2> QED
    BY <2>12, <2>13
<1> QED
  BY <1>3, <1>4, <1>5 DEF ReadContractCount

\* One more of a list.
LEMMA ListGrows ==
    ASSUME NEW r, NEW is, NEW a, NEW b, NEW n, NEW m \in Nat, NEW l \in Nat, l = m + 1,
           NEW o \in Nat, ListAt(r, is, a, n, m, o), \A k \in 0..(m - 1) : b[k] = a[k],
           r[o + 2 + m] = Item(is, b[m])
    PROVE  ListAt(r, is, b, n, l, o)
<1>1. \A k \in 0..(l - 1) : k = m \/ k \in 0..(m - 1)
  OBVIOUS
<1> QED
  BY <1>1 DEF ListAt

\* A contract of a signer.
LEMMA ContractFormat ==
    ASSUME FormatInv, ReadContract
    PROVE  FormatInv'
<1>1. ReaderInv' /\ at = "contract" /\ at \in InSigner /\ UNCHANGED raw
  BY ParseKeeps DEF FormatInv, Parse, ReadContract, Reading, InSigner
<1>2. /\ i \in 0..(MAX_TX_SIGNERS - 1) /\ tx \in Transaction /\ TypeOK
      /\ tx.signers[i] \in Signers /\ Justified(raw, tx)
  BY <1>1, InSignerFacts
<1>3. /\ j \in 0..(tx.signers[i].allowed_contracts_size - 1) /\ j \in Nat
      /\ j \in 0..(MAX_SIGNER_SUB_ITEMS - 1)
  <2>1. j \in 0..(tx.signers[i].allowed_contracts_size - 1) /\ j \in Nat
    BY <1>1, <1>2 DEF TypeOK
  <2> QED
    BY <1>2, <2>1, SignerType, LimitsAssumption
<1>4. PICK a : a = IF Readable("hash") THEN Value ELSE Unset
  OBVIOUS
<1>5. a \in Hash160 \cup {Unset}
  BY <1>2, <1>4, ValueType, ItemValue DEF Value
<1>6. PICK s : s = [tx.signers[i] EXCEPT !.allowed_contracts[j] = a]
  OBVIOUS
<1>7. /\ s \in Signers /\ s.scope = tx.signers[i].scope /\ s.account = tx.signers[i].account
      /\ s.allowed_contracts_size = tx.signers[i].allowed_contracts_size
      /\ s.allowed_groups_size = tx.signers[i].allowed_groups_size
      /\ s.allowed_contracts[j] = a
      /\ \A k \in 0..(MAX_SIGNER_SUB_ITEMS - 1) :
            k # j => s.allowed_contracts[k] = tx.signers[i].allowed_contracts[k]
  BY <1>2, <1>3, <1>5, <1>6 DEF Signers
<1>8. SignerStored(s)
  <2>1. tx' = [tx EXCEPT !.signers[i] = s]
    BY <1>4, <1>6 DEF ReadContract
  <2> QED
    BY <1>2, <2>1, StoreSigner
<1>9. Justified(raw, tx')
  BY <1>2, <1>7, <1>8, JustifiedSigner
<1>10. CASE ~Readable("hash")
  <2>1. at' = "idle" /\ status' = "SIGNER_ALLOWED_CONTRACT_PARSING_ERROR"
    BY <1>10 DEF ReadContract, Refuse, Return
  <2> QED
    BY <1>1, <1>9, <2>1, RefusalLeaves
<1>11. CASE Readable("hash")
  <2>1. PICK p : /\ SignersAt(raw, tx.signers, p, i) /\ WithinSigner(tx.signers[i], p[i])
                 /\ p[i] \in Nat
    BY <1>1, InSignerFacts
  <2>2. PICK o \in Nat : o = p[i]
    BY <2>1
  <2>3. /\ off = o + 3 + j /\ "CUSTOM_CONTRACTS" \in s.scope
        /\ raw[o + 1] = Item("hash", s.account) /\ raw[o + 2] = Item("scope", s.scope)
        /\ ListAt(raw, "hash", tx.signers[i].allowed_contracts, s.allowed_contracts_size, j, o + 2)
    BY <1>1, <1>7, <2>1, <2>2 DEF WithinSigner
  <2>4. raw[o + 2 + 2 + j] = Item("hash", s.allowed_contracts[j])
    <3>1. off + 1 = o + 2 + 2 + j
      BY <1>3, <2>3
    <3> QED
      BY <1>2, <1>4, <1>7, <1>11, <3>1, ValueIs
  <2>5. PICK l \in Nat : l = j + 1
    BY <1>3
  <2>6. ListAt(raw, "hash", s.allowed_contracts, s.allowed_contracts_size, l, o + 2)
    <3>1. \A k \in 0..(j - 1) : s.allowed_contracts[k] = tx.signers[i].allowed_contracts[k]
      <4>1. \A k \in 0..(j - 1) : k # j /\ k \in 0..(MAX_SIGNER_SUB_ITEMS - 1)
        BY <1>3, LimitsAssumption
      <4> QED
        BY <1>7, <4>1
    <3>2. o + 2 \in Nat
      OBVIOUS
    <3> QED
      BY <1>3, <2>3, <2>4, <2>5, <3>1, <3>2, ListGrows
  <2>7. /\ off' = o + 3 + l
        /\ IF l < s.allowed_contracts_size THEN Goto("contract", i, l)
           ELSE AfterContracts(s.scope)
    <3>1. /\ off' = off + 1
          /\ IF j + 1 < tx.signers[i].allowed_contracts_size THEN Goto("contract", i, j + 1)
             ELSE AfterContracts(tx.signers[i].scope)
      BY <1>11 DEF ReadContract
    <3>2. off + 1 = o + 3 + l
      BY <1>3, <2>3, <2>5
    <3> QED
      BY <1>7, <2>5, <3>1, <3>2
  <2>8. CASE l < s.allowed_contracts_size
    <3>1. at' = "contract" /\ i' = i /\ j' = l /\ status' = status
      BY <2>7, <2>8 DEF Goto
    <3>2. WithinSigner(s, o)' /\ at' \in InSigner
      BY <1>1, <2>3, <2>6, <2>7, <3>1 DEF WithinSigner, InSigner
    <3> QED
      BY <1>1, <1>8, <1>9, <2>1, <2>2, <3>1, <3>2, WithinSignerFormat
  <2>9. CASE ~(l < s.allowed_contracts_size)
    <3>1. l = s.allowed_contracts_size
      BY <1>3, <1>7, <2>5, <2>9, SignerType
    <3>2. ContractsAt(raw, s, o) /\ off' = ContractsEnd(s, o)
      BY <2>3, <2>6, <2>7, <3>1 DEF ContractsAt, ContractsEnd
    <3>3. AfterContracts(s.scope)
      BY <2>7, <2>9
    <3> QED
      BY <1>1, <1>7, <1>8, <1>9, <2>1, <2>2, <2>3, <3>2, <3>3, AfterContractsFormat
  <2> QED
    BY <2>8, <2>9
<1> QED
  BY <1>10, <1>11
\* Signers with the same contracts have them in the same place.
LEMMA SameContracts ==
    ASSUME NEW r, NEW s, NEW t, NEW o, s.scope = t.scope,
           s.allowed_contracts = t.allowed_contracts,
           s.allowed_contracts_size = t.allowed_contracts_size
    PROVE  /\ ContractsEnd(s, o) = ContractsEnd(t, o)
           /\ ContractsAt(r, s, o) <=> ContractsAt(r, t, o)
BY DEF ContractsEnd, ContractsAt

\* The count of the groups of a signer.
LEMMA GroupCountFormat ==
    ASSUME FormatInv, ReadGroupCount
    PROVE  FormatInv'
<1>1. ReaderInv' /\ at = "groups" /\ at \in InSigner /\ UNCHANGED raw
  BY ParseKeeps DEF FormatInv, Parse, ReadGroupCount, Reading, InSigner
<1>2. /\ i \in 0..(MAX_TX_SIGNERS - 1) /\ tx \in Transaction /\ TypeOK
      /\ tx.signers[i] \in Signers /\ Justified(raw, tx)
      /\ off \in Nat /\ off <= Len(raw) /\ Len(raw) \in Nat
  BY <1>1, InSignerFacts
<1>3. CASE ~Readable("varint")
  <2>1. at' = "idle" /\ status' = "SIGNER_ALLOWED_GROUPS_LENGTH_PARSING_ERROR" /\ tx' = tx
    BY <1>3 DEF ReadGroupCount, Refuse, Return
  <2> QED
    BY <1>1, <1>2, <2>1, RefusalLeaves
<1>4. CASE Readable("varint") /\ TooMany(Value)
  <2>1. at' = "idle" /\ status' = "SIGNER_ALLOWED_GROUPS_LENGTH_VALUE_ERROR" /\ tx' = tx
    BY <1>4 DEF ReadGroupCount, TakeAndRefuse, Return
  <2> QED
    BY <1>1, <1>2, <2>1, RefusalLeaves
<1>5. CASE Readable("varint") /\ ~TooMany(Value)
  <2>1. PICK x : x = Value
    OBVIOUS
  <2>2. x \in 0..MAX_SIGNER_SUB_ITEMS
    <3>1. x \in Nat
      BY <1>2, <1>5, <2>1, ValueType, ItemValue DEF Value
    <3> QED
      BY <1>5, <2>1, <3>1, LimitsAssumption DEF TooMany
  <2>3. PICK s : s = [tx.signers[i] EXCEPT !.allowed_groups_size = x]
    OBVIOUS
  <2>4. /\ s \in Signers /\ s.scope = tx.signers[i].scope /\ s.account = tx.signers[i].account
        /\ s.allowed_groups_size = x
        /\ s.allowed_contracts = tx.signers[i].allowed_contracts
        /\ s.allowed_contracts_size = tx.signers[i].allowed_contracts_size
    BY <1>2, <2>2, <2>3 DEF Signers
  <2>5. SignerStored(s)
    <3>1. tx' = [tx EXCEPT !.signers[i] = s]
      BY <1>5, <2>1, <2>3 DEF ReadGroupCount
    <3> QED
      BY <1>2, <3>1, StoreSigner
  <2>6. PICK p : /\ SignersAt(raw, tx.signers, p, i) /\ WithinSigner(tx.signers[i], p[i])
                 /\ p[i] \in Nat
    BY <1>1, InSignerFacts
  <2>7. PICK o \in Nat : o = p[i]
    BY <2>6
  <2>8. PICK e : e = ContractsEnd(s, o)
    OBVIOUS
  <2>9. /\ off = e /\ e \in Nat /\ o + 2 <= e
        /\ "CUSTOM_GROUPS" \in s.scope /\ ContractsAt(raw, s, o)
        /\ raw[o + 1] = Item("hash", s.account) /\ raw[o + 2] = Item("scope", s.scope)
    <3>1. /\ ContractsEnd(s, o) = ContractsEnd(tx.signers[i], o)
          /\ ContractsAt(raw, s, o) <=> ContractsAt(raw, tx.signers[i], o)
      BY <2>4, SameContracts
    <3>2. e \in Nat /\ o + 2 <= e
      BY <2>4, <2>8, Ends
    <3> QED
      BY <1>1, <2>4, <2>6, <2>7, <2>8, <3>1, <3>2 DEF WithinSigner
  <2>10. Justified(raw, tx')
    <3>1. "CUSTOM_GROUPS" \in raw[o + 2].v
      BY <2>9 DEF Item
    <3>2. HasFlag(raw, i, "CUSTOM_GROUPS")
      <4>1. o + 2 <= Len(raw)
        BY <1>2, <2>9
      <4> QED
        BY <1>1, <2>6, <2>7, <3>1, <4>1, FlagIsThere
    <3> QED
      BY <1>2, <2>4, <2>5, <3>2, JustifiedCount
  <2>11. /\ off' = off + 1
         /\ IF x = 0 THEN AfterSigner ELSE Goto("group", i, 0)
    BY <1>5, <2>1 DEF ReadGroupCount
  <2>12. raw[e + 1] = Item("varint", x)
    BY <1>2, <1>5, <2>1, <2>9, ValueIs
  <2>13. CASE x = 0
    <3>1. GroupsAt(raw, s, o)
      BY <2>4, <2>8, <2>12, <2>13 DEF GroupsAt, ListAt
    <3>2. SignerAt(raw, s, o)
      BY <2>9, <3>1 DEF SignerAt
    <3>3. off' = SignerEnd(s, o)
      BY <2>4, <2>8, <2>9, <2>11, <2>13 DEF SignerEnd
    <3>4. AfterSigner
      BY <2>11, <2>13
    <3> QED
      BY <1>1, <2>4, <2>5, <2>6, <2>7, <2>10, <3>2, <3>3, <3>4, AfterSignerFormat
  <2>14. CASE x # 0
    <3>1. at' = "group" /\ i' = i /\ j' = 0 /\ status' = status
      BY <2>11, <2>14 DEF Goto
    <3>2. off' = e + 1 + 0
      BY <2>9, <2>11
    <3>3. ListAt(raw, "key", s.allowed_groups, s.allowed_groups_size, 0, e)
      BY <2>4, <2>12 DEF ListAt
    <3>4. WithinSigner(s, o)' /\ at' \in InSigner
      BY <1>1, <2>8, <2>9, <3>1, <3>2, <3>3 DEF WithinSigner, InSigner
    <3> QED
      BY <1>1, <2>5, <2>6, <2>7, <2>10, <3>1, <3>4, WithinSignerFormat
  <2> QED
    BY <2>13, <2>14
<1> QED
  BY <1>3, <1>4, <1>5 DEF ReadGroupCount

\* A group of a signer.
LEMMA GroupFormat ==
    ASSUME FormatInv, ReadGroup
    PROVE  FormatInv'
<1>1. ReaderInv' /\ at = "group" /\ at \in InSigner /\ UNCHANGED raw
  BY ParseKeeps DEF FormatInv, Parse, ReadGroup, Reading, InSigner
<1>2. /\ i \in 0..(MAX_TX_SIGNERS - 1) /\ tx \in Transaction /\ TypeOK
      /\ tx.signers[i] \in Signers /\ Justified(raw, tx)
  BY <1>1, InSignerFacts
<1>3. /\ j \in 0..(tx.signers[i].allowed_groups_size - 1) /\ j \in Nat
      /\ j \in 0..(MAX_SIGNER_SUB_ITEMS - 1)
  <2>1. j \in 0..(tx.signers[i].allowed_groups_size - 1) /\ j \in Nat
    BY <1>1, <1>2 DEF TypeOK
  <2> QED
    BY <1>2, <2>1, SignerType, LimitsAssumption
<1>4. PICK a : a = IF Readable("key") THEN Value ELSE Unset
  OBVIOUS
<1>5. a \in Keys \cup {Unset}
  BY <1>2, <1>4, ValueType, ItemValue DEF Value
<1>6. PICK s : s = [tx.signers[i] EXCEPT !.allowed_groups[j] = a]
  OBVIOUS
<1>7. /\ s \in Signers /\ s.scope = tx.signers[i].scope /\ s.account = tx.signers[i].account
      /\ s.allowed_contracts_size = tx.signers[i].allowed_contracts_size
      /\ s.allowed_contracts = tx.signers[i].allowed_contracts
      /\ s.allowed_groups_size = tx.signers[i].allowed_groups_size
      /\ s.allowed_groups[j] = a
      /\ \A k \in 0..(MAX_SIGNER_SUB_ITEMS - 1) :
            k # j => s.allowed_groups[k] = tx.signers[i].allowed_groups[k]
  BY <1>2, <1>3, <1>5, <1>6 DEF Signers
<1>8. SignerStored(s)
  <2>1. tx' = [tx EXCEPT !.signers[i] = s]
    BY <1>4, <1>6 DEF ReadGroup
  <2> QED
    BY <1>2, <2>1, StoreSigner
<1>9. Justified(raw, tx')
  BY <1>2, <1>7, <1>8, JustifiedSigner
<1>10. CASE ~Readable("key")
  <2>1. at' = "idle" /\ status' = "SIGNER_ALLOWED_CONTRACT_PARSING_ERROR"
    BY <1>10 DEF ReadGroup, Refuse, Return
  <2> QED
    BY <1>1, <1>9, <2>1, RefusalLeaves
<1>11. CASE Readable("key")
  <2>1. PICK p : /\ SignersAt(raw, tx.signers, p, i) /\ WithinSigner(tx.signers[i], p[i])
                 /\ p[i] \in Nat
    BY <1>1, InSignerFacts
  <2>2. PICK o \in Nat : o = p[i]
    BY <2>1
  <2>3. PICK e : e = ContractsEnd(s, o)
    OBVIOUS
  <2>4. /\ off = e + 1 + j /\ e \in Nat
        /\ "CUSTOM_GROUPS" \in s.scope /\ ContractsAt(raw, s, o)
        /\ raw[o + 1] = Item("hash", s.account) /\ raw[o + 2] = Item("scope", s.scope)
        /\ ListAt(raw, "key", tx.signers[i].allowed_groups, s.allowed_groups_size, j, e)
    <3>1. /\ ContractsEnd(s, o) = ContractsEnd(tx.signers[i], o)
          /\ ContractsAt(raw, s, o) <=> ContractsAt(raw, tx.signers[i], o)
      BY <1>7, SameContracts
    <3>2. e \in Nat
      BY <1>7, <2>3, Ends
    <3> QED
      BY <1>1, <1>7, <2>1, <2>2, <2>3, <3>1, <3>2 DEF WithinSigner
  <2>5. raw[e + 2 + j] = Item("key", s.allowed_groups[j])
    <3>1. off + 1 = e + 2 + j
      BY <1>3, <2>4
    <3> QED
      BY <1>2, <1>4, <1>7, <1>11, <3>1, ValueIs
  <2>6. PICK l \in Nat : l = j + 1
    BY <1>3
  <2>7. ListAt(raw, "key", s.allowed_groups, s.allowed_groups_size, l, e)
    <3>1. \A k \in 0..(j - 1) : s.allowed_groups[k] = tx.signers[i].allowed_groups[k]
      <4>1. \A k \in 0..(j - 1) : k # j /\ k \in 0..(MAX_SIGNER_SUB_ITEMS - 1)
        BY <1>3, LimitsAssumption
      <4> QED
        BY <1>7, <4>1
    <3> QED
      BY <1>3, <2>4, <2>5, <2>6, <3>1, ListGrows
  <2>8. /\ off' = e + 1 + l
        /\ IF l < s.allowed_groups_size THEN Goto("group", i, l) ELSE AfterSigner
    <3>1. /\ off' = off + 1
          /\ IF j + 1 < tx.signers[i].allowed_groups_size THEN Goto("group", i, j + 1)
             ELSE AfterSigner
      BY <1>11 DEF ReadGroup
    <3>2. off + 1 = e + 1 + l
      BY <1>3, <2>4, <2>6
    <3> QED
      BY <1>7, <2>6, <3>1, <3>2
  <2>9. CASE l < s.allowed_groups_size
    <3>1. at' = "group" /\ i' = i /\ j' = l /\ status' = status
      BY <2>8, <2>9 DEF Goto
    <3>2. WithinSigner(s, o)' /\ at' \in InSigner
      BY <1>1, <2>3, <2>4, <2>7, <2>8, <3>1 DEF WithinSigner, InSigner
    <3> QED
      BY <1>1, <1>8, <1>9, <2>1, <2>2, <3>1, <3>2, WithinSignerFormat
  <2>10. CASE ~(l < s.allowed_groups_size)
    <3>1. l = s.allowed_groups_size
      BY <1>3, <1>7, <2>6, <2>10, SignerType
    <3>2. GroupsAt(raw, s, o) /\ off' = SignerEnd(s, o)
      BY <2>3, <2>4, <2>7, <2>8, <3>1 DEF GroupsAt, SignerEnd
    <3>3. SignerAt(raw, s, o)
      BY <2>4, <3>2 DEF SignerAt
    <3>4. AfterSigner
      BY <2>8, <2>10
    <3> QED
      BY <1>1, <1>7, <1>8, <1>9, <2>1, <2>2, <3>2, <3>3, <3>4, AfterSignerFormat
  <2> QED
    BY <2>9, <2>10
<1> QED
  BY <1>10, <1>11

\* What is known behind the signers.
LEMMA AfterSignersFacts ==
    ASSUME FormatInv, at \in AfterSigners
    PROVE  /\ tx \in Transaction /\ TypeOK /\ status = "none" /\ i \in Nat
           /\ tx.signers \in [0..(MAX_TX_SIGNERS - 1) -> Signers]
           /\ tx.signers_size \in 0..MAX_TX_SIGNERS
           /\ tx.signers_size \in Nat /\ tx.signers_size <= MAX_TX_SIGNERS
           /\ tx.attributes_size \in Nat /\ tx.attributes_size <= MAX_ATTRIBUTES
           /\ raw \in Seq(Items) /\ Len(raw) \in Nat /\ off \in Nat /\ off <= Len(raw)
           /\ HeaderAt(raw, tx, 5) /\ 6 <= Len(raw) /\ raw[6] = Item("varint", tx.signers_size)
           /\ Justified(raw, tx)
           /\ \E p, o : /\ SignersAt(raw, tx.signers, p, tx.signers_size) /\ WithinAttributes(o)
                        /\ o = p[tx.signers_size] /\ o \in Nat /\ 6 <= o
<1>1. tx \in Transaction /\ TypeOK /\ status = "none" /\ i \in Nat
  BY DEF FormatInv, ReaderInv, TypeOK, AfterSigners
<1>2. raw \in Seq(Items) /\ Len(raw) \in Nat /\ off \in Nat /\ off <= Len(raw)
  BY <1>1 DEF TypeOK
<1>3. /\ tx.signers_size \in Nat /\ tx.signers_size <= MAX_TX_SIGNERS
      /\ tx.signers_size \in 0..MAX_TX_SIGNERS
      /\ tx.signers \in [0..(MAX_TX_SIGNERS - 1) -> Signers]
      /\ tx.attributes_size \in Nat /\ tx.attributes_size <= MAX_ATTRIBUTES
  BY <1>1, LimitsAssumption DEF Transaction
<1>4. /\ HeaderAt(raw, tx, 5) /\ 6 <= Len(raw) /\ raw[6] = Item("varint", tx.signers_size)
      /\ Justified(raw, tx) /\ \E p : Located(p)
  BY DEF FormatInv, AfterSigners
<1>5. PICK p : Located(p)
  BY <1>4
<1>6. /\ SignersAt(raw, tx.signers, p, tx.signers_size)
      /\ WithinAttributes(p[tx.signers_size])
  BY <1>5 DEF Located
<1>7. p[tx.signers_size] \in Nat /\ 6 <= p[tx.signers_size]
  BY <1>3, <1>6 DEF SignersAt
<1> QED
  BY <1>1, <1>2, <1>3, <1>4, <1>6, <1>7

\* Only attributes and their count are stored.
AttributesStored ==
    /\ tx'.signers = tx.signers /\ tx'.signers_size = tx.signers_size
    /\ \A f \in Numbers : tx'[f] = tx[f]
    /\ tx'.is_system_asset_transfer = tx.is_system_asset_transfer /\ tx'.is_neo = tx.is_neo

\* A step from one attribute to another, or to the script.
LEMMA WithinAttributesFormat ==
    ASSUME FormatInv, ReaderInv', at \in AfterSigners, UNCHANGED <<raw, status>>,
           AttributesStored, NEW p, SignersAt(raw, tx.signers, p, tx.signers_size),
           at' \in AfterSigners, WithinAttributes(p[tx.signers_size])'
    PROVE  FormatInv'
<1>1. /\ status = "none" /\ HeaderAt(raw, tx, 5) /\ 6 <= Len(raw)
      /\ raw[6] = Item("varint", tx.signers_size) /\ Justified(raw, tx)
  BY AfterSignersFacts
<1>2. HeaderAt(raw, tx', 5) /\ raw[6] = Item("varint", tx'.signers_size)
  BY <1>1, HeaderNames DEF HeaderAt, AttributesStored
<1>3. Justified(raw, tx')
  BY <1>1, JustifiedKeeps DEF AttributesStored
<1>4. Located(p)'
  BY DEF Located, AttributesStored, InSigner, AfterSigners
<1> QED
  BY <1>1, <1>2, <1>3, <1>4
     DEF FormatInv, AcceptedIsWritten, TransferIsScript, Accepted, AfterSigners

\* The count of the attributes.
LEMMA AttributeCountFormat ==
    ASSUME FormatInv, ReadAttributeCount
    PROVE  FormatInv'
<1>1. ReaderInv' /\ at = "attributes" /\ at \in AfterSigners /\ UNCHANGED raw
  BY ParseKeeps DEF FormatInv, Parse, ReadAttributeCount, Reading, AfterSigners
<1>2. /\ tx \in Transaction /\ TypeOK /\ off \in Nat
  BY <1>1, AfterSignersFacts
<1>3. CASE ~Readable("varint")
  <2>1. at' = "idle" /\ status' = "ATTRIBUTES_LENGTH_PARSING_ERROR" /\ tx' = tx
    BY <1>3 DEF ReadAttributeCount, Refuse, Return
  <2> QED
    BY <1>1, <2>1, PlainRefusal
<1>4. CASE Readable("varint") /\ (Value > MAX_ATTRIBUTES \/ Value > 2)
  <2>1. at' = "idle" /\ status' = "ATTRIBUTES_LENGTH_VALUE_ERROR" /\ tx' = tx
    <3>1. Value \in Nat
      BY <1>2, <1>4, ValueType, ItemValue DEF Value
    <3>2. ~(Value <= MAX_ATTRIBUTES /\ Value <= 2)
      BY <1>4, <3>1, LimitsAssumption
    <3> QED
      BY <1>4, <3>2 DEF ReadAttributeCount, TakeAndRefuse, Return
  <2> QED
    BY <1>1, <2>1, PlainRefusal
<1>5. CASE Readable("varint") /\ ~(Value > MAX_ATTRIBUTES \/ Value > 2)
  <2>1. PICK x : x = Value
    OBVIOUS
  <2>2. x \in Nat
    BY <1>2, <1>5, <2>1, ValueType, ItemValue DEF Value
  <2>3. /\ tx' = [tx EXCEPT !.attributes_size = x] /\ off' = off + 1
        /\ at' = IF x > 0 THEN "attribute" ELSE "script"
        /\ i' = 0 /\ status' = status
    BY <1>5, <2>1, <2>2, LimitsAssumption DEF ReadAttributeCount, TakeAndGoto, Goto
  <2>4. AttributesStored /\ tx'.attributes_size = x
    BY <1>2, <2>3 DEF AttributesStored, Transaction, Numbers
  <2>5. PICK p, o : /\ SignersAt(raw, tx.signers, p, tx.signers_size) /\ WithinAttributes(o)
                    /\ o = p[tx.signers_size] /\ o \in Nat
    BY <1>1, AfterSignersFacts
  <2>6. off = o /\ raw[o + 1] = Item("varint", x)
    BY <1>1, <1>2, <1>5, <2>1, <2>5, ValueIs DEF WithinAttributes
  <2>7. \A b : ListAt(raw, "attribute", b, x, 0, o)
    BY <2>6 DEF ListAt
  <2>8. WithinAttributes(o)'
    <3>1. CASE x > 0
      <4>1. at' = "attribute" /\ off' = o + 1 + 0
        BY <2>3, <2>5, <2>6, <3>1
      <4> QED
        BY <1>1, <2>3, <2>4, <2>7, <4>1 DEF WithinAttributes
    <3>2. CASE ~(x > 0)
      <4>1. at' = "script" /\ off' = o + 1 + 0 /\ x = 0
        BY <2>2, <2>3, <2>5, <2>6, <3>2
      <4> QED
        BY <1>1, <2>3, <2>4, <2>7, <4>1 DEF WithinAttributes
    <3> QED
      BY <3>1, <3>2
  <2>9. at' \in AfterSigners
    BY <2>3 DEF AfterSigners
  <2> QED
    BY <1>1, <2>3, <2>4, <2>5, <2>8, <2>9, WithinAttributesFormat
<1> QED
  BY <1>3, <1>4, <1>5

\* An attribute.
LEMMA AttributeFormat ==
    ASSUME FormatInv, ReadAttribute
    PROVE  FormatInv'
<1>1. ReaderInv' /\ at = "attribute" /\ at \in AfterSigners /\ UNCHANGED raw
  BY ParseKeeps DEF FormatInv, Parse, ReadAttribute, Reading, AfterSigners
<1>2. /\ tx \in Transaction /\ TypeOK /\ off \in Nat /\ i \in Nat
      /\ tx.attributes_size \in Nat /\ tx.attributes_size <= MAX_ATTRIBUTES
  BY <1>1, AfterSignersFacts
<1>3. i \in 0..(tx.attributes_size - 1) /\ i \in 0..(MAX_ATTRIBUTES - 1)
  <2>1. i \in 0..(tx.attributes_size - 1)
    BY <1>1, <1>2 DEF TypeOK
  <2> QED
    BY <1>2, <2>1, LimitsAssumption
<1>4. CASE ~(/\ Readable("attribute") /\ Value = "HIGH_PRIORITY" /\ ~DuplicateAttribute(Value))
  <2>1. /\ at' = "idle" /\ tx' = tx
        /\ status' \in {"ATTRIBUTES_UNSUPPORTED_TYPE", "ATTRIBUTES_DUPLICATE_TYPE"}
    BY <1>4 DEF ReadAttribute, Refuse, TakeAndRefuse, Return
  <2> QED
    BY <1>1, <2>1, PlainRefusal
<1>5. CASE /\ Readable("attribute") /\ Value = "HIGH_PRIORITY" /\ ~DuplicateAttribute(Value)
  <2>1. /\ tx' = [tx EXCEPT !.attributes[i] = Value] /\ off' = off + 1
        /\ at' = IF i + 1 < tx.attributes_size THEN "attribute" ELSE "script"
        /\ i + 1 < tx.attributes_size => i' = i + 1
        /\ status' = status
    BY <1>5 DEF ReadAttribute, TakeAndGoto, Goto
  <2>2. PICK x : x = Value
    OBVIOUS
  <2>3. /\ AttributesStored /\ tx'.attributes_size = tx.attributes_size
        /\ tx'.attributes[i] = x
        /\ \A k \in 0..(MAX_ATTRIBUTES - 1) : k # i => tx'.attributes[k] = tx.attributes[k]
    BY <1>2, <1>3, <2>1, <2>2 DEF AttributesStored, Transaction, Numbers
  <2>4. PICK p, o : /\ SignersAt(raw, tx.signers, p, tx.signers_size) /\ WithinAttributes(o)
                    /\ o = p[tx.signers_size] /\ o \in Nat
    BY <1>1, AfterSignersFacts
  <2>5. /\ off = o + 1 + i
        /\ ListAt(raw, "attribute", tx.attributes, tx.attributes_size, i, o)
    BY <1>1, <2>4 DEF WithinAttributes
  <2>6. PICK l \in Nat : l = i + 1
    BY <1>2
  <2>7. ListAt(raw, "attribute", tx'.attributes, tx.attributes_size, l, o)
    <3>1. raw[o + 2 + i] = Item("attribute", x)
      <4>1. off + 1 = o + 2 + i
        BY <1>2, <2>4, <2>5
      <4> QED
        BY <1>2, <1>5, <2>2, <4>1, ValueIs
    <3>2. \A k \in 0..(i - 1) : tx'.attributes[k] = tx.attributes[k]
      <4>1. \A k \in 0..(i - 1) : k # i /\ k \in 0..(MAX_ATTRIBUTES - 1)
        BY <1>2, <1>3, LimitsAssumption
      <4> QED
        BY <2>3, <4>1
    <3>3. PICK b : b = tx'.attributes
      OBVIOUS
    <3> QED
      BY <1>2, <2>3, <2>4, <2>5, <2>6, <3>1, <3>2, <3>3, ListGrows
  <2>8. off' = o + 1 + l
    BY <1>2, <2>1, <2>4, <2>5, <2>6
  <2>9. WithinAttributes(o)'
    <3>1. CASE l < tx.attributes_size
      <4>1. at' = "attribute" /\ i' = l
        BY <2>1, <2>6, <3>1
      <4> QED
        BY <1>1, <2>3, <2>7, <2>8, <4>1 DEF WithinAttributes
    <3>2. CASE ~(l < tx.attributes_size)
      <4>1. at' = "script" /\ l = tx.attributes_size
        BY <1>2, <1>3, <2>1, <2>6, <3>2
      <4> QED
        BY <1>1, <2>3, <2>7, <2>8, <4>1 DEF WithinAttributes
    <3> QED
      BY <3>1, <3>2
  <2>10. at' \in AfterSigners
    BY <2>1 DEF AfterSigners
  <2> QED
    BY <1>1, <2>1, <2>3, <2>4, <2>9, <2>10, WithinAttributesFormat
<1> QED
  BY <1>4, <1>5

\* A list is written where it is.
LEMMA ListWritten ==
    ASSUME NEW r \in Seq(Items), NEW is, NEW a, NEW n \in Nat, NEW o \in Nat, NEW e \in Nat,
           e = o + 1 + n, e <= Len(r), ListAt(r, is, a, n, n, o)
    PROVE  /\ Len(Listed(a, n)) = n
           /\ WriteList(is, Listed(a, n)) = SubSeq(r, o + 1, e)
<1>1. PICK l : l = Listed(a, n)
  OBVIOUS
<1>2. Len(l) = n /\ \A k \in 1..n : l[k] = a[k - 1]
  BY <1>1 DEF Listed
<1>3. PICK v : v = <<Item("varint", n)>>
  OBVIOUS
<1>4. PICK w : w = [k \in 1..n |-> Item(is, l[k])]
  OBVIOUS
<1>5. r[o + 1] = Item("varint", n) /\ Len(r) \in Nat
  BY DEF ListAt
<1>6. ASSUME NEW k \in 1..n PROVE Item(is, l[k]) = r[o + 1 + k]
  <2>1. PICK m \in 0..(n - 1) : k = m + 1
    <3>1. k - 1 \in 0..(n - 1) /\ k = (k - 1) + 1
      OBVIOUS
    <3> QED
      BY <3>1
  <2>2. l[k] = a[m] /\ o + 1 + k = o + 2 + m
    BY <1>2, <2>1
  <2> QED
    BY <2>1, <2>2 DEF ListAt
<1>7. v = SubSeq(r, o + 1, o + 1)
  <2>1. o + 1 \in 1..Len(r)
    BY <1>5
  <2>2. v \in Seq(Items) /\ Len(v) = 1 /\ v[1] = r[o + 1]
    BY <1>3, <1>5, <2>1
  <2> QED
    BY <1>5, <2>1, <2>2, PartIs
<1>8. w = SubSeq(r, o + 2, e)
  <2>1. PICK b \in Nat : b = o + 1
    OBVIOUS
  <2>2. \A k \in 1..n : r[o + 1 + k] \in Items
    BY <1>5
  <2>3. w \in Seq(Items) /\ Len(w) = n /\ \A k \in 1..n : w[k] = r[o + 1 + k]
    BY <1>4, <1>6, <2>2
  <2>4. w = SubSeq(r, b + 1, e)
    BY <2>1, <2>3, PartIs
  <2> QED
    BY <2>1, <2>4
<1>9. v \o w = SubSeq(r, o + 1, e)
  <2>1. PICK b \in Nat : b = o + 1
    OBVIOUS
  <2>2. v = SubSeq(r, o + 1, b) /\ w = SubSeq(r, b + 1, e)
    BY <1>7, <1>8, <2>1
  <2> QED
    BY <2>1, <2>2, PartsAre
<1> QED
  BY <1>1, <1>2, <1>3, <1>4, <1>9 DEF WriteList

\* What a review shows of a signer, and of a transaction.
ReviewedSigner(s) ==
    [account |-> s.account, scope |-> s.scope,
     contracts |-> Listed(s.allowed_contracts, s.allowed_contracts_size),
     groups |-> Listed(s.allowed_groups, s.allowed_groups_size)]
ReviewedOf(t) ==
    [version |-> t.version, nonce |-> t.nonce,
     system_fee |-> t.system_fee, network_fee |-> t.network_fee,
     valid_until_block |-> t.valid_until_block,
     signers |-> [k \in 1..t.signers_size |-> ReviewedSigner(t.signers[k - 1])],
     attributes |-> Listed(t.attributes, t.attributes_size),
     script |-> t.script]

\* No count of s is there that its scope does not announce.
Announced(s) ==
    /\ s.allowed_contracts_size > 0 => "CUSTOM_CONTRACTS" \in s.scope
    /\ s.allowed_groups_size > 0 => "CUSTOM_GROUPS" \in s.scope

\* A signer is written where it is.
LEMMA SignerWritten ==
    ASSUME NEW r \in Seq(Items), NEW s \in Signers, NEW o \in Nat, Announced(s),
           SignerAt(r, s, o), SignerEnd(s, o) <= Len(r)
    PROVE  WriteSigner(ReviewedSigner(s)) = SubSeq(r, o + 1, SignerEnd(s, o))
<1>1. PICK c : c = ContractsEnd(s, o)
  OBVIOUS
<1>2. PICK e : e = SignerEnd(s, o)
  OBVIOUS
<1>3. /\ c \in Nat /\ e \in Nat /\ o + 2 <= c /\ c <= e /\ e <= Len(r) /\ Len(r) \in Nat
      /\ s.allowed_contracts_size \in Nat /\ s.allowed_groups_size \in Nat
  <2>1. /\ ContractsEnd(s, o) \in Nat /\ SignerEnd(s, o) \in Nat
        /\ o + 2 <= ContractsEnd(s, o) /\ ContractsEnd(s, o) <= SignerEnd(s, o)
    BY Ends
  <2>2. s.allowed_contracts_size \in Nat /\ s.allowed_groups_size \in Nat
    BY SignerType
  <2> QED
    BY <1>1, <1>2, <2>1, <2>2
<1>4. PICK b \in Nat : b = o + 2
  OBVIOUS
<1>5. PICK u : u = <<Item("hash", s.account), Item("scope", s.scope)>>
  OBVIOUS
<1>6. PICK v : v = IF "CUSTOM_CONTRACTS" \in s.scope
                      \/ Listed(s.allowed_contracts, s.allowed_contracts_size) # <<>>
                   THEN WriteList("hash", Listed(s.allowed_contracts, s.allowed_contracts_size))
                   ELSE <<>>
  OBVIOUS
<1>7. PICK w : w = IF "CUSTOM_GROUPS" \in s.scope
                      \/ Listed(s.allowed_groups, s.allowed_groups_size) # <<>>
                   THEN WriteList("key", Listed(s.allowed_groups, s.allowed_groups_size))
                   ELSE <<>>
  OBVIOUS
<1>8. u = SubSeq(r, o + 1, b)
  <2>1. r[o + 1] = Item("hash", s.account) /\ r[o + 2] = Item("scope", s.scope)
    BY DEF SignerAt
  <2>2. r[o + 1] \in Items /\ r[o + 2] \in Items
    BY <1>3
  <2>3. u \in Seq(Items) /\ Len(u) = 2 /\ u[1] = r[o + 1] /\ u[2] = r[o + 2]
    BY <1>5, <2>1, <2>2
  <2>4. o <= b /\ b <= Len(r) /\ Len(u) = b - o /\ \A k \in 1..(b - o) : u[k] = r[o + k]
    BY <1>3, <1>4, <2>3
  <2> QED
    BY <2>3, <2>4, PartIs
<1>9. v = SubSeq(r, b + 1, c)
  <2>1. CASE "CUSTOM_CONTRACTS" \in s.scope
    <3>1. c = b + 1 + s.allowed_contracts_size
      BY <1>1, <1>3, <1>4, <2>1 DEF ContractsEnd
    <3>2. ListAt(r, "hash", s.allowed_contracts, s.allowed_contracts_size,
                 s.allowed_contracts_size, b)
      BY <1>4, <2>1 DEF SignerAt, ContractsAt
    <3>3. PICK n \in Nat : n = s.allowed_contracts_size
      BY <1>3
    <3>4. PICK a : a = s.allowed_contracts
      OBVIOUS
    <3>5. /\ c \in Nat /\ c = b + 1 + n /\ c <= Len(r)
          /\ ListAt(r, "hash", a, n, n, b)
      BY <1>3, <3>1, <3>2, <3>3, <3>4
    <3>6. WriteList("hash", Listed(a, n)) = SubSeq(r, b + 1, c)
      BY <3>5, ListWritten
    <3> QED
      BY <1>6, <2>1, <3>3, <3>4, <3>6
  <2>2. CASE "CUSTOM_CONTRACTS" \notin s.scope
    <3>1. s.allowed_contracts_size = 0
      BY <1>3, <2>2 DEF Announced
    <3>2. Listed(s.allowed_contracts, s.allowed_contracts_size) = <<>>
      BY <3>1 DEF Listed
    <3>3. v = <<>> /\ c = b
      BY <1>1, <1>4, <1>6, <2>2, <3>2 DEF ContractsEnd
    <3>4. v \in Seq(Items) /\ Len(v) = c - b /\ b <= c /\ c <= Len(r)
          /\ \A k \in 1..(c - b) : v[k] = r[b + k]
      BY <1>3, <3>3
    <3> QED
      BY <1>3, <3>4, PartIs
  <2> QED
    BY <2>1, <2>2
<1>10. w = SubSeq(r, c + 1, e)
  <2>1. CASE "CUSTOM_GROUPS" \in s.scope
    <3>1. e = c + 1 + s.allowed_groups_size
      BY <1>1, <1>2, <2>1 DEF SignerEnd
    <3>2. ListAt(r, "key", s.allowed_groups, s.allowed_groups_size, s.allowed_groups_size, c)
      BY <1>1, <2>1 DEF SignerAt, GroupsAt
    <3>3. WriteList("key", Listed(s.allowed_groups, s.allowed_groups_size))
            = SubSeq(r, c + 1, e)
      BY <1>3, <3>1, <3>2, ListWritten
    <3> QED
      BY <1>7, <2>1, <3>3
  <2>2. CASE "CUSTOM_GROUPS" \notin s.scope
    <3>1. s.allowed_groups_size = 0
      BY <1>3, <2>2 DEF Announced
    <3>2. Listed(s.allowed_groups, s.allowed_groups_size) = <<>>
      BY <3>1 DEF Listed
    <3>3. w = <<>> /\ e = c
      BY <1>1, <1>2, <1>7, <2>2, <3>2 DEF SignerEnd
    <3>4. w \in Seq(Items) /\ Len(w) = e - c /\ \A k \in 1..(e - c) : w[k] = r[c + k]
      BY <1>3, <3>3
    <3> QED
      BY <1>3, <3>4, PartIs
  <2> QED
    BY <2>1, <2>2
<1>11. u \o v = SubSeq(r, o + 1, c)
  <2>1. o <= b /\ b <= c /\ c <= Len(r)
    BY <1>3, <1>4
  <2> QED
    BY <1>3, <1>8, <1>9, <2>1, PartsAre
<1>12. PICK x : x = u \o v
  OBVIOUS
<1>13. x \o w = SubSeq(r, o + 1, e)
  <2>1. o <= c /\ c <= e /\ e <= Len(r) /\ x = SubSeq(r, o + 1, c)
    BY <1>3, <1>11, <1>12
  <2> QED
    BY <1>3, <1>10, <2>1, PartsAre
<1>14. WriteSigner(ReviewedSigner(s)) = (u \o v) \o w
  BY <1>5, <1>6, <1>7 DEF WriteSigner, ReviewedSigner
<1> QED
  BY <1>2, <1>12, <1>13, <1>14

\* No signer has a count that its scope does not announce.
AllAnnounced(t, n) == \A k \in 0..(n - 1) : Announced(t.signers[k])

\* The first signers are written where they are, up to the last one.
LEMMA SignersWritten ==
    ASSUME NEW r \in Seq(Items), NEW t \in Transaction, NEW n \in Nat, n <= MAX_TX_SIGNERS,
           NEW p, SignersAt(r, t.signers, p, n), NEW o, o = p[n],
           AllAnnounced(t, n),
           NEW f, f = FlattenSeq([k \in 1..n |-> WriteSigner(ReviewedSigner(t.signers[k - 1]))])
    PROVE  IsPart(f, r, 6, o)
<1>1. p \in [0..n -> 6..Len(r)] /\ p[0] = 6 /\ Len(r) \in Nat
  BY DEF SignersAt
<1>2. p \in [0..n -> 0..Len(r)]
  BY <1>1
<1>3. ASSUME NEW k \in 1..n
      PROVE  /\ p[k - 1] <= p[k]
             /\ WriteSigner(ReviewedSigner(t.signers[k - 1])) = SubSeq(r, p[k - 1] + 1, p[k])
  <2>1. PICK m \in 0..(n - 1) : m = k - 1
    OBVIOUS
  <2>2. /\ m \in 0..n /\ k \in 0..n /\ k = m + 1 /\ m \in 0..(MAX_TX_SIGNERS - 1)
    BY <2>1, LimitsAssumption
  <2>3. PICK s \in Signers : s = t.signers[m]
    BY <2>2 DEF Transaction
  <2>4. PICK a \in Nat : a = p[m]
    BY <1>1, <2>2
  <2>5. SignerAt(r, s, a) /\ p[k] = SignerEnd(s, a) /\ Announced(s)
    BY <2>1, <2>2, <2>3, <2>4 DEF SignersAt, AllAnnounced
  <2>6. SignerEnd(s, a) <= Len(r)
    BY <1>1, <2>2, <2>5
  <2>7. SignerEnd(s, a) \in Nat /\ a <= SignerEnd(s, a)
    <3>1. /\ ContractsEnd(s, a) \in Nat /\ SignerEnd(s, a) \in Nat
          /\ a + 2 <= ContractsEnd(s, a) /\ ContractsEnd(s, a) <= SignerEnd(s, a)
      BY Ends
    <3> QED
      BY <3>1
  <2>8. WriteSigner(ReviewedSigner(s)) = SubSeq(r, a + 1, SignerEnd(s, a))
    BY <2>5, <2>6, SignerWritten
  <2> QED
    BY <2>1, <2>3, <2>4, <2>5, <2>7, <2>8
<1>4. \A k \in 1..n : p[k - 1] <= p[k]
  BY <1>3
<1>5. FlattenSeq([k \in 1..n |-> SubSeq(r, p[k - 1] + 1, p[k])]) = SubSeq(r, p[0] + 1, p[n])
  BY <1>2, <1>4, FlattenParts
<1>6. [k \in 1..n |-> WriteSigner(ReviewedSigner(t.signers[k - 1]))]
        = [k \in 1..n |-> SubSeq(r, p[k - 1] + 1, p[k])]
  BY <1>3
<1> QED
  BY <1>1, <1>5, <1>6 DEF IsPart

\* The numbers are written where they are.
LEMMA HeaderWritten ==
    ASSUME NEW r \in Seq(Items), NEW t, NEW w, HeaderAt(r, t, 5), 5 <= Len(r),
           \A k \in 1..5 : w[Header[k]] = t[Header[k]]
    PROVE  IsPart([k \in 1..Len(Header) |-> Item(Header[k], w[Header[k]])], r, 0, 5)
<1>1. PICK h : h = [k \in 1..Len(Header) |-> Item(Header[k], w[Header[k]])]
  OBVIOUS
<1>2. \A k \in 1..5 : r[k] \in Items /\ Item(Header[k], w[Header[k]]) = r[k]
  BY DEF HeaderAt
<1>3. h \in Seq(Items) /\ Len(h) = 5 /\ \A k \in 1..5 : h[k] = r[k]
  BY <1>1, <1>2 DEF Header
<1>4. 0 <= 5 /\ Len(h) = 5 - 0 /\ \A k \in 1..(5 - 0) : h[k] = r[0 + k]
  BY <1>3
<1>5. h = SubSeq(r, 0 + 1, 5)
  BY <1>3, <1>4, PartIs
<1> QED
  BY <1>1, <1>5 DEF IsPart

\* A transaction is what is written of its parts.
LEMMA WriteIs ==
    ASSUME NEW t, NEW n \in Nat, n = t.signers_size, NEW x, x = t.script, x # <<>>,
           NEW h, h = [k \in 1..Len(Header) |-> Item(Header[k], ReviewedOf(t)[Header[k]])],
           NEW s, s = FlattenSeq([k \in 1..n |-> WriteSigner(ReviewedSigner(t.signers[k - 1]))]),
           NEW a, a = WriteList("attribute", Listed(t.attributes, t.attributes_size))
    PROVE  IsSix(Write(ReviewedOf(t)),
                 h, <<Item("varint", n)>>, s, a, <<Item("varint", Len(x))>>, <<Item("script", x)>>)
<1>1. PICK w : w = ReviewedOf(t)
  OBVIOUS
<1>2. /\ w.signers = [k \in 1..n |-> ReviewedSigner(t.signers[k - 1])]
      /\ w.attributes = Listed(t.attributes, t.attributes_size) /\ w.script = x
  BY <1>1 DEF ReviewedOf
<1>3. Len(w.signers) = n /\ \A k \in 1..n : w.signers[k] = ReviewedSigner(t.signers[k - 1])
  BY <1>2
<1>4. [k \in 1..Len(w.signers) |-> WriteSigner(w.signers[k])]
        = [k \in 1..n |-> WriteSigner(ReviewedSigner(t.signers[k - 1]))]
  BY <1>3
<1>5. FlattenSeq([k \in 1..Len(w.signers) |-> WriteSigner(w.signers[k])]) = s
  BY <1>4
<1>6. Write(w)
        = h \o <<Item("varint", Len(w.signers))>>
          \o FlattenSeq([k \in 1..Len(w.signers) |-> WriteSigner(w.signers[k])])
          \o WriteList("attribute", w.attributes)
          \o <<Item("varint", Len(w.script))>>
          \o (IF w.script = <<>> THEN <<>> ELSE <<Item("script", w.script)>>)
  BY <1>1, Zenon DEF Write
<1>7. Write(w) = h \o <<Item("varint", n)>> \o s \o a \o <<Item("varint", Len(x))>>
                 \o <<Item("script", x)>>
  BY <1>2, <1>3, <1>5, <1>6, Zenon
<1> QED
  BY <1>1, <1>7, Zenon DEF IsSix

\* The attributes and the script are behind o, and nothing else.
AttributesAt(r, t, o) ==
    ListAt(r, "attribute", t.attributes, t.attributes_size, t.attributes_size, o)
ScriptIs(r, x, e) ==
    /\ Len(r) = e + 2
    /\ r[e + 1] = Item("varint", Len(x)) /\ r[e + 2] = Item("script", x)

LEMMA AttributesWritten ==
    ASSUME NEW r \in Seq(Items), NEW t, NEW m \in Nat, m = t.attributes_size,
           NEW o \in Nat, NEW e \in Nat, e = o + 1 + m, e <= Len(r), AttributesAt(r, t, o),
           NEW a, a = WriteList("attribute", Listed(t.attributes, t.attributes_size))
    PROVE  IsPart(a, r, o, e)
<1>1. PICK b : b = t.attributes
  OBVIOUS
<1>2. ListAt(r, "attribute", b, m, m, o)
  BY <1>1 DEF AttributesAt
<1>3. WriteList("attribute", Listed(b, m)) = SubSeq(r, o + 1, e)
  BY <1>2, ListWritten
<1> QED
  BY <1>1, <1>3 DEF IsPart

\* The two places behind e.
LEMMA TwoMore ==
    ASSUME NEW e \in Nat
    PROVE  LET f == e + 1  g == e + 2
           IN  e <= f /\ f <= g /\ e <= g /\ g = f + 1 /\ g <= g
OBVIOUS

\* A transaction is written where its parts are.
LEMMA Written ==
    ASSUME NEW r \in Seq(Items), NEW t \in Transaction, HeaderAt(r, t, 5),
           NEW n \in Nat, n = t.signers_size, n <= MAX_TX_SIGNERS, r[6] = Item("varint", n),
           NEW p, SignersAt(r, t.signers, p, n), NEW o \in Nat, o = p[n], 6 <= o,
           AllAnnounced(t, n),
           NEW m \in Nat, m = t.attributes_size, AttributesAt(r, t, o),
           NEW e \in Nat, e = o + 1 + m,
           NEW x, x = t.script, x # <<>>, ScriptIs(r, x, e)
    PROVE  r = Write(ReviewedOf(t))
<1>1. PICK f \in Nat : f = e + 1
  OBVIOUS
<1>2. PICK g \in Nat : g = e + 2
  OBVIOUS
<1>3. /\ 5 <= 6 /\ 6 <= o /\ o <= e /\ e <= f /\ f <= Len(r) /\ 5 <= Len(r) /\ 6 <= Len(r)
      /\ e <= Len(r) /\ g = Len(r) /\ g = f + 1 /\ g <= Len(r)
      /\ r[f] = Item("varint", Len(x)) /\ r[g] = Item("script", x)
  <2>1. /\ Len(r) = e + 2
        /\ r[e + 1] = Item("varint", Len(x)) /\ r[e + 2] = Item("script", x)
    BY DEF ScriptIs
  <2>2. r[f] = Item("varint", Len(x)) /\ r[g] = Item("script", x)
    BY <1>1, <1>2, <2>1
  <2>3. o <= e
    OBVIOUS
  <2>4. g = Len(r)
    BY <1>2, <2>1
  <2>5. e <= f /\ f <= g /\ e <= g /\ g = f + 1 /\ g <= g
    BY <1>1, <1>2, TwoMore
  <2>6. 6 <= e
    BY <2>3
  <2>7. 5 <= g /\ 6 <= g
    BY <2>5, <2>6
  <2>8. 5 <= 6
    OBVIOUS
  <2> QED
    BY <2>2, <2>3, <2>4, <2>5, <2>7, <2>8
<1>4. PICK h : h = [k \in 1..Len(Header) |-> Item(Header[k], ReviewedOf(t)[Header[k]])]
  OBVIOUS
<1>5. IsPart(h, r, 0, 5)
  <2>1. PICK w : w = ReviewedOf(t)
    OBVIOUS
  <2>2. \A k \in 1..5 : w[Header[k]] = t[Header[k]]
    BY <2>1 DEF ReviewedOf, Header
  <2> QED
    BY <1>3, <1>4, <2>1, <2>2, HeaderWritten
<1>6. IsPart(<<Item("varint", n)>>, r, 5, 6)
  <2>1. 6 = 5 + 1 /\ 5 \in Nat /\ 6 \in Nat
    OBVIOUS
  <2> QED
    BY <1>3, <2>1, OneElement
<1>7. PICK s : s = FlattenSeq([k \in 1..n |-> WriteSigner(ReviewedSigner(t.signers[k - 1]))])
  OBVIOUS
<1>8. IsPart(s, r, 6, o)
  BY <1>7, SignersWritten
<1>9. PICK a : a = WriteList("attribute", Listed(t.attributes, t.attributes_size))
  OBVIOUS
<1>10. IsPart(a, r, o, e)
  BY <1>3, <1>9, AttributesWritten
<1>11. IsPart(<<Item("varint", Len(x))>>, r, e, f)
  BY <1>1, <1>3, OneElement
<1>12. IsPart(<<Item("script", x)>>, r, f, Len(r))
  BY <1>3, OneElement
<1>13. IsSix(r, h, <<Item("varint", n)>>, s, a, <<Item("varint", Len(x))>>, <<Item("script", x)>>)
  <2>1. PICK b \in Nat : b = 5
    OBVIOUS
  <2>2. PICK c \in Nat : c = 6
    OBVIOUS
  <2>3. /\ b <= c /\ c <= o /\ o <= e /\ e <= f /\ f <= Len(r)
        /\ IsPart(h, r, 0, b) /\ IsPart(<<Item("varint", n)>>, r, b, c) /\ IsPart(s, r, c, o)
    BY <1>3, <1>5, <1>6, <1>8, <2>1, <2>2
  <2> QED
    BY <1>10, <1>11, <1>12, <2>3, SixParts
<1>14. IsSix(Write(ReviewedOf(t)),
             h, <<Item("varint", n)>>, s, a, <<Item("varint", Len(x))>>, <<Item("script", x)>>)
  BY <1>4, <1>7, <1>9, WriteIs
<1> QED
  BY <1>13, <1>14, Zenon DEF IsSix

\* Where signer k of n starts.
LEMMA StartsWhere ==
    ASSUME NEW r, Len(r) \in Nat, NEW ss \in [0..(MAX_TX_SIGNERS - 1) -> Signers],
           NEW n \in Nat, NEW p, SignersAt(r, ss, p, n), NEW k \in 0..n
    PROVE  StartsAt(r, k, p[k])
<1>1. PICK q : q = [l \in 0..k |-> p[l]]
  OBVIOUS
<1>2. p \in [0..n -> 6..Len(r)] /\ p[0] = 6
  BY DEF SignersAt
<1>3. q \in [0..k -> 6..Len(r)] /\ q[0] = 6 /\ q[k] = p[k]
  BY <1>1, <1>2
<1>4. ASSUME NEW l \in 0..(k - 1)
      PROVE  SignerAt(r, ss[l], q[l]) /\ q[l + 1] = SignerEnd(ss[l], q[l])
  <2>1. l \in 0..(n - 1) /\ l \in 0..k /\ l + 1 \in 0..k
    OBVIOUS
  <2>2. q[l] = p[l] /\ q[l + 1] = p[l + 1]
    BY <1>1, <2>1
  <2> QED
    BY <2>1, <2>2 DEF SignersAt
<1>5. SignersAt(r, ss, q, k)
  BY <1>3, <1>4 DEF SignersAt
<1> QED
  BY <1>3, <1>5 DEF StartsAt

\* A count that is justified is announced by the scope that is there now.
LEMMA SignersAnnounced ==
    ASSUME NEW r, Len(r) \in Nat, NEW t \in Transaction, Justified(r, t),
           NEW n \in Nat, n <= MAX_TX_SIGNERS, NEW p, SignersAt(r, t.signers, p, n)
    PROVE  AllAnnounced(t, n)
<1> SUFFICES ASSUME NEW k \in 0..(n - 1) PROVE Announced(t.signers[k])
  BY DEF AllAnnounced
<1>1. k \in 0..n /\ k \in 0..(MAX_TX_SIGNERS - 1) /\ k \in Nat /\ k <= MAX_TX_SIGNERS
  BY LimitsAssumption
<1>2. t.signers \in [0..(MAX_TX_SIGNERS - 1) -> Signers]
  BY DEF Transaction
<1>3. StartsAt(r, k, p[k])
  BY <1>1, <1>2, StartsWhere
<1>4. r[p[k] + 2].v = t.signers[k].scope
  <2>1. r[p[k] + 2] = Item("scope", t.signers[k].scope)
    BY DEF SignersAt, SignerAt
  <2> QED
    BY <2>1 DEF Item
<1>5. ASSUME NEW flag, HasFlag(r, k, flag) PROVE flag \in t.signers[k].scope
  <2>1. PICK o \in Nat : StartsAt(r, k, o) /\ flag \in r[o + 2].v
    BY <1>5 DEF HasFlag
  <2>2. o = p[k]
    BY <1>1, <1>3, <2>1, StartIsOne
  <2> QED
    BY <1>4, <2>1, <2>2
<1>6. /\ t.signers[k].allowed_contracts_size > 0 => HasFlag(r, k, "CUSTOM_CONTRACTS")
      /\ t.signers[k].allowed_groups_size > 0 => HasFlag(r, k, "CUSTOM_GROUPS")
  BY <1>1 DEF Justified
<1> QED
  BY <1>5, <1>6 DEF Announced

\* The script that is read is the one there is.
LEMMA ScriptIsHere ==
    ASSUME NEW r, Len(r) \in Nat, NEW t \in Transaction,
           NEW n \in Nat, n \in 0..MAX_TX_SIGNERS, n = t.signers_size, r[6] = Item("varint", n),
           NEW p, SignersAt(r, t.signers, p, n), NEW o \in Nat, o = p[n],
           NEW m \in Nat, m = t.attributes_size, AttributesAt(r, t, o),
           NEW e \in Nat, e = o + 1 + m, e + 2 <= Len(r)
    PROVE  ScriptAt(r, ScriptBehind(r, e))
<1>1. r[6].v = n
  BY DEF Item
<1>2. StartsAt(r, n, o)
  <2>1. t.signers \in [0..(MAX_TX_SIGNERS - 1) -> Signers]
    BY DEF Transaction
  <2>2. n \in 0..n
    OBVIOUS
  <2> QED
    BY <2>1, <2>2, StartsWhere
<1>3. r[o + 1].v = m
  <2>1. r[o + 1] = Item("varint", m)
    BY DEF AttributesAt, ListAt
  <2> QED
    BY <2>1 DEF Item
<1>4. o + 1 + m + 2 = e + 2
  OBVIOUS
<1> QED
  BY <1>1, <1>2, <1>3, <1>4 DEF ScriptAt

\* What the recogniser stores of the script x, and what it leaves alone.
Looked(u, x, t) == u = try_parse_transfer_script(x, [t EXCEPT !.script = x])
Found(u, x, t) ==
    /\ u.script = x
    /\ u.signers = t.signers /\ u.signers_size = t.signers_size
    /\ u.attributes = t.attributes /\ u.attributes_size = t.attributes_size
    /\ \A f \in Numbers : u[f] = t[f]
    /\ u.is_system_asset_transfer = (t.is_system_asset_transfer \/ IsTransfer(x))
    /\ u.is_neo = (t.is_neo \/ (HasContract(x) /\ x[9].v = NEO))
    /\ HasAmount(x) => u.amount = Amount(x[2])
    /\ HasDestination(x) => u.dst_address = Address(x[3].v)

LEMMA Recognised ==
    ASSUME NEW x, NEW t \in Transaction, NEW u, Looked(u, x, t)
    PROVE  Found(u, x, t)
<1> DEFINE w == [t EXCEPT !.script = x]
<1>1. PICK a : a = IF HasAmount(x) THEN Amount(x[2]) ELSE t.amount
  OBVIOUS
<1>2. PICK d : d = IF HasDestination(x) THEN Address(x[3].v) ELSE t.dst_address
  OBVIOUS
<1>3. PICK b : b = (t.is_neo \/ (HasContract(x) /\ x[9].v = NEO))
  OBVIOUS
<1>4. PICK c : c = (t.is_system_asset_transfer \/ IsTransfer(x))
  OBVIOUS
<1>5. u = [w EXCEPT !.amount = a, !.dst_address = d, !.is_neo = b, !.is_system_asset_transfer = c]
  BY <1>1, <1>2, <1>3, <1>4 DEF Looked, try_parse_transfer_script, Transaction
<1>6. /\ u.script = x
      /\ u.signers = t.signers /\ u.signers_size = t.signers_size
      /\ u.attributes = t.attributes /\ u.attributes_size = t.attributes_size
      /\ \A f \in Numbers : u[f] = t[f]
      /\ u.is_system_asset_transfer = c /\ u.is_neo = b /\ u.amount = a /\ u.dst_address = d
  BY <1>5 DEF Transaction, Numbers
<1> QED
  BY <1>1, <1>2, <1>3, <1>4, <1>6 DEF Found

\* The script. What is accepted is written, whatever is left of earlier attempts: their
\* counts and flags have their reasons in the same bytes.
LEMMA ScriptFormat ==
    ASSUME FormatInv, ReadScript
    PROVE  FormatInv'
<1>1. ReaderInv' /\ at = "script" /\ at \in AfterSigners /\ UNCHANGED raw
  BY ParseKeeps DEF FormatInv, Parse, ReadScript, Reading, AfterSigners
<1>2. /\ tx \in Transaction /\ TypeOK /\ off \in Nat /\ Len(raw) \in Nat /\ raw \in Seq(Items)
      /\ tx.signers_size \in 0..MAX_TX_SIGNERS
      /\ tx.signers_size \in Nat /\ tx.signers_size <= MAX_TX_SIGNERS /\ tx.attributes_size \in Nat
      /\ HeaderAt(raw, tx, 5) /\ raw[6] = Item("varint", tx.signers_size) /\ Justified(raw, tx)
  BY <1>1, AfterSignersFacts
<1>3. CASE ~Readable("varint")
  <2>1. at' = "idle" /\ status' = "SCRIPT_LENGTH_PARSING_ERROR" /\ tx' = tx
    BY <1>3 DEF ReadScript, Refuse, Return
  <2> QED
    BY <1>1, <2>1, PlainRefusal
<1>4. CASE Readable("varint") /\ ~WholeScript
  <2>1. at' = "idle" /\ status' = "SCRIPT_LENGTH_VALUE_ERROR" /\ tx' = [tx EXCEPT !.script = <<>>]
    BY <1>4 DEF ReadScript, TakeAndRefuse, Return
  <2>2. /\ tx'.signers = tx.signers
        /\ tx'.is_system_asset_transfer = tx.is_system_asset_transfer /\ tx'.is_neo = tx.is_neo
    BY <1>2, <2>1 DEF Transaction
  <2> QED
    BY <1>1, <2>1, <2>2, PlainRefusal
<1>5. CASE Readable("varint") /\ WholeScript
  <2>1. /\ tx' = try_parse_transfer_script(WithScript.script, WithScript)
        /\ at' = "idle" /\ off' = off + 2
        /\ status' = IF ScriptIsLast THEN "PARSING_OK" ELSE "INVALID_LENGTH_ERROR"
    BY <1>5 DEF ReadScript, Return
  <2>2. PICK x : x = ScriptBehind(raw, off)
    OBVIOUS
  <2>3. WithScript = [tx EXCEPT !.script = x] /\ WithScript.script = x
    BY <1>2, <2>2 DEF WithScript, Transaction
  <2>4. /\ tx'.script = x
        /\ tx'.signers = tx.signers /\ tx'.signers_size = tx.signers_size
        /\ tx'.attributes = tx.attributes /\ tx'.attributes_size = tx.attributes_size
        /\ \A f \in Numbers : tx'[f] = tx[f]
        /\ tx'.is_system_asset_transfer = (tx.is_system_asset_transfer \/ IsTransfer(x))
        /\ tx'.is_neo = (tx.is_neo \/ (HasContract(x) /\ x[9].v = NEO))
        /\ HasAmount(x) => tx'.amount = Amount(x[2])
        /\ HasDestination(x) => tx'.dst_address = Address(x[3].v)
    <3>1. Looked(tx', x, tx)
      BY <2>1, <2>3 DEF Looked
    <3>2. Found(tx', x, tx)
      BY <1>2, <3>1, Recognised
    <3> QED
      BY <3>2 DEF Found
  <2>5. PICK p, o : /\ SignersAt(raw, tx.signers, p, tx.signers_size) /\ WithinAttributes(o)
                    /\ o = p[tx.signers_size] /\ o \in Nat /\ 6 <= o
    BY <1>1, AfterSignersFacts
  <2>6. off = o + 1 + tx.attributes_size /\ AttributesAt(raw, tx, o)
    BY <1>1, <2>5 DEF WithinAttributes, AttributesAt
  <2>7. PICK e \in Nat : e = off
    BY <1>2
  <2>8. /\ e + 2 <= Len(raw) /\ raw[e + 2].is = "script" /\ raw[e + 1] = Item("varint", Len(x))
        /\ x = ScriptBehind(raw, e) /\ Len(x) # 0
        /\ ScriptIsLast => x = raw[e + 2].v
    <3>1. ReadableAt(off + 1, "script") /\ Len(x) = Value /\ Value # 0
          /\ (ScriptIsLast => x = raw[off + 2].v)
      <4>1. /\ ReadableAt(off + 1, "script")
            /\ Value \in 1..LongestScript /\ Value <= Len(raw[off + 2].v)
        BY <1>5 DEF WholeScript
      <4>2. LongestScript \in Nat
        BY DEF LongestScript
      <4>3. raw[off + 2] \in Items /\ raw[off + 2].is = "script"
        <5>1. off + 1 < Len(raw) /\ raw[off + 1 + 1].is = "script" /\ off + 1 + 1 = off + 2
          BY <1>2, <4>1 DEF ReadableAt
        <5>2. off + 2 \in 1..Len(raw)
          BY <1>2, <5>1
        <5> QED
          BY <1>2, <5>1, <5>2, ElementOfSeq
      <4>4. PICK v \in Seq(Instructions) : v = raw[off + 2].v
        BY <4>3, ItemValue
      <4>5. PICK n \in Nat : n = Value /\ n >= 1 /\ n <= Len(v)
        BY <4>1, <4>2, <4>4
      <4>6. x = SubSeq(v, 1, n)
        BY <2>2, <4>4, <4>5 DEF ScriptBehind, Value
      <4>7. Len(x) = n /\ (n = Len(v) => x = v)
        BY <4>5, <4>6, PartOf
      <4>8. ScriptIsLast => n = Len(v)
        BY <4>4, <4>5 DEF ScriptIsLast
      <4> QED
        BY <4>1, <4>4, <4>5, <4>7, <4>8
    <3>2. raw[off + 1] = Item("varint", Value)
      BY <1>2, <1>5, ValueIs
    <3>3. off + 1 < Len(raw) /\ raw[off + 1 + 1].is = "script" /\ off + 1 + 1 = off + 2
      BY <1>2, <3>1 DEF ReadableAt
    <3>4. off + 2 <= Len(raw)
      BY <1>2, <3>3
    <3> QED
      BY <2>2, <2>7, <3>1, <3>2, <3>3, <3>4
  <2>9. ScriptAt(raw, x)
    <3>1. PICK n \in Nat : n = tx.signers_size
      BY <1>2
    <3>2. PICK m \in Nat : m = tx.attributes_size
      BY <1>2
    <3>3. /\ n \in 0..MAX_TX_SIGNERS /\ raw[6] = Item("varint", n)
          /\ SignersAt(raw, tx.signers, p, n) /\ o = p[n] /\ o \in Nat
          /\ e = o + 1 + m /\ e + 2 <= Len(raw)
      BY <1>2, <2>5, <2>6, <2>7, <2>8, <3>1, <3>2
    <3>4. ScriptAt(raw, ScriptBehind(raw, e))
      BY <1>2, <2>6, <3>1, <3>2, <3>3, ScriptIsHere
    <3> QED
      BY <2>8, <3>4
  <2>10. Justified(raw, tx')
    <3>1. tx'.is_system_asset_transfer => \E y : ScriptAt(raw, y) /\ IsTransfer(y)
      <4>1. tx.is_system_asset_transfer => \E y : ScriptAt(raw, y) /\ IsTransfer(y)
        BY <1>2 DEF Justified
      <4> QED
        BY <2>4, <2>9, <4>1
    <3>2. tx'.is_neo => \E y : ScriptAt(raw, y) /\ HasContract(y) /\ y[9].v = NEO
      <4>1. tx.is_neo => \E y : ScriptAt(raw, y) /\ HasContract(y) /\ y[9].v = NEO
        BY <1>2 DEF Justified
      <4> QED
        BY <2>4, <2>9, <4>1
    <3> QED
      BY <1>2, <2>4, <3>1, <3>2 DEF Justified
  <2>11. CASE ~ScriptIsLast
    <3>1. status' = "INVALID_LENGTH_ERROR"
      BY <2>1, <2>11
    <3> QED
      BY <1>1, <2>1, <2>10, <3>1, RefusalLeaves
  <2>12. CASE ScriptIsLast
    <3>1. raw = Write(ReviewedOf(tx'))
      <4>1. PICK t : t = tx'
        OBVIOUS
      <4>2. PICK n \in Nat : n = tx.signers_size
        BY <1>2
      <4>3. PICK m \in Nat : m = tx.attributes_size
        BY <1>2
      <4>4. t \in Transaction
        BY <1>1, <4>1 DEF ReaderInv, TypeOK
      <4>5. HeaderAt(raw, t, 5)
        BY <1>2, <2>4, <4>1, HeaderNames DEF HeaderAt
      <4>6. /\ n = t.signers_size /\ n <= MAX_TX_SIGNERS /\ raw[6] = Item("varint", n)
            /\ SignersAt(raw, t.signers, p, n) /\ o = p[n] /\ o \in Nat /\ 6 <= o
            /\ m = t.attributes_size /\ e = o + 1 + m
        BY <1>2, <2>4, <2>5, <2>6, <2>7, <4>1, <4>2, <4>3
      <4>7. AttributesAt(raw, t, o)
        BY <2>4, <2>6, <4>1 DEF AttributesAt
      <4>8. AllAnnounced(t, n)
        BY <1>2, <2>10, <4>1, <4>4, <4>6, SignersAnnounced
      <4>9. x = t.script /\ x # <<>>
        BY <2>4, <2>8, <4>1
      <4>10. ScriptIs(raw, x, e)
        <5>1. e + 2 = Len(raw)
          BY <2>7, <2>12 DEF ScriptIsLast, AtEnd
        <5>2. raw[e + 2] = Item("script", x)
          <6>1. raw[e + 2] \in Items
            BY <1>2, <5>1
          <6> QED
            BY <2>8, <2>12, <6>1, ItemIs
        <5> QED
          BY <2>8, <5>1, <5>2 DEF ScriptIs
      <4> QED
        BY <1>2, <4>1, <4>4, <4>5, <4>6, <4>7, <4>8, <4>9, <4>10, Written
    <3>2. AcceptedIsWritten'
      <4>1. Reviewed' = ReviewedOf(tx')
        BY DEF Reviewed, ReviewedOf, ReviewedSigner
      <4> QED
        BY <1>1, <3>1, <4>1 DEF AcceptedIsWritten
    <3>3. tx.is_system_asset_transfer => IsTransfer(x)
      BY <1>2, <2>9, ScriptIsOne DEF Justified
    <3>4. tx.is_neo => HasContract(x) /\ x[9].v = NEO
      BY <1>2, <2>9, ScriptIsOne DEF Justified
    <3>5. IsTransfer(x) => HasContract(x) /\ HasDestination(x) /\ HasAmount(x)
      BY DEF IsTransfer, HasContract, HasDestination
    <3>6. TransferIsScript'
      BY <2>4, <3>3, <3>4, <3>5 DEF TransferIsScript
    <3> QED
      BY <1>1, <2>1, <2>10, <3>2, <3>6 DEF FormatInv
  <2> QED
    BY <2>11, <2>12
<1> QED
  BY <1>3, <1>4, <1>5

\* Every step of transaction_deserialize.
LEMMA ParseFormat == FormatInv /\ Parse => FormatInv'
BY HeaderFormat, SignerCountFormat, AccountFormat, ScopeFormat, ContractCountFormat,
   ContractFormat, GroupCountFormat, GroupFormat, AttributeCountFormat, AttributeFormat,
   ScriptFormat DEF Parse

\* A chunk: what the structure holds keeps its reason, for no byte is overwritten.
LEMMA ChunkFormat ==
    ASSUME FormatInv, NEW n \in 1..Len(stream), MoreChunk(n) \/ LastChunk(n)
    PROVE  FormatInv'
<1>1. ReaderInv' /\ ReaderInv
  BY ChunkKeeps DEF FormatInv
<1>2. /\ raw \in Seq(Items) /\ stream \in Seq(Items) /\ Append_raw(n) /\ tx' = tx
      /\ status' = "none" /\ at = "idle" /\ Len(stream) \in Nat
  BY <1>1 DEF ReaderInv, TypeOK, MoreChunk, LastChunk, Append_raw
<1>3. PICK x : x = SubSeq(stream, 1, n)
  OBVIOUS
<1>4. x \in Seq(Items)
  <2>1. \A k \in 1..n : k \in 1..Len(stream)
    BY <1>2
  <2> QED
    BY <1>2, <1>3, <2>1, SubSeqProperties
<1>5. raw' = raw \o x
  BY <1>2, <1>3 DEF Append_raw
<1>6. /\ Len(raw) \in Nat /\ Len(raw') \in Nat /\ Len(raw) <= Len(raw')
      /\ \A k \in 1..Len(raw) : raw'[k] = raw[k]
  BY <1>2, <1>4, <1>5
<1>7. Justified(raw', tx')
  BY <1>2, <1>6, JustifiedStays DEF FormatInv
<1>8. CASE MoreChunk(n)
  BY <1>1, <1>2, <1>7, <1>8
     DEF MoreChunk, FormatInv, AcceptedIsWritten, TransferIsScript, Accepted
<1>9. CASE LastChunk(n)
  <2>1. at' = "header" /\ off' = 0 /\ i' = 0
    BY <1>9 DEF LastChunk
  <2>2. HeaderAt(raw', tx', 0)
    BY DEF HeaderAt
  <2> QED
    BY <1>1, <1>2, <1>7, <2>1, <2>2 DEF FormatInv, AcceptedIsWritten, TransferIsScript, Accepted
<1> QED
  BY <1>8, <1>9

\* A cleared context needs no reason.
LEMMA ZeroIsJustified ==
    ASSUME NEW r
    PROVE  Justified(r, ZeroTransaction)
<1>1. \A k \in 0..(MAX_TX_SIGNERS - 1) :
         /\ ZeroTransaction.signers[k].allowed_contracts_size = 0
         /\ ZeroTransaction.signers[k].allowed_groups_size = 0
  BY DEF ZeroTransaction, ZeroSigner
<1>2. ~ZeroTransaction.is_system_asset_transfer /\ ~ZeroTransaction.is_neo
  BY DEF ZeroTransaction
<1> QED
  BY <1>1, <1>2 DEF Justified

\* The first chunk of another request.
LEMMA RestartFormat ==
    ASSUME FormatInv, Restart
    PROVE  FormatInv'
<1>1. ReaderInv' /\ at' = "idle" /\ status' = "none" /\ tx' = ZeroTransaction
  BY RestartKeeps DEF FormatInv, Restart
<1> QED
  BY <1>1, ZeroIsJustified DEF FormatInv, AcceptedIsWritten, TransferIsScript, Accepted

\* The application has just started.
LEMMA InitFormat == Init => FormatInv
<1> SUFFICES ASSUME Init PROVE FormatInv
  OBVIOUS
<1>1. ReaderInv /\ at = "idle" /\ status = "none" /\ tx = ZeroTransaction
  BY InitReaderInv DEF Init
<1> QED
  BY <1>1, ZeroIsJustified DEF FormatInv, AcceptedIsWritten, TransferIsScript, Accepted

\* Every step keeps the invariant.
LEMMA NextFormat == FormatInv /\ [Next]_vars => FormatInv'
<1> SUFFICES ASSUME FormatInv, [Next]_vars PROVE FormatInv'
  OBVIOUS
<1>1. CASE Next
  BY <1>1, ParseFormat, ChunkFormat, RestartFormat DEF Next
<1>2. CASE UNCHANGED vars
  <2>1. ReaderInv'
    BY <1>2, NextReaderInv DEF FormatInv
  <2>2. (\E p : Located(p)) => (\E p : Located(p))'
    BY <1>2 DEF vars, Located, WithinSigner, WithinAttributes
  <2>3. Reviewed' = Reviewed
    BY <1>2 DEF vars, Reviewed
  <2> QED
    BY <1>2, <2>1, <2>2, <2>3
       DEF vars, FormatInv, AcceptedIsWritten, TransferIsScript, Accepted
<1> QED
  BY <1>1, <1>2

\* The invariant holds in every reachable state.
LEMMA FormatInvariant == Spec => []FormatInv
BY InitFormat, NextFormat, PTL DEF Spec

-----------------------------------------------------------------------------
(* The theorems. *)

\* For all streams, limits and numbers of attempts: the bytes of a transaction that
\* transaction_deserialize accepts, which are those that are hashed and signed, are the
\* writing of what the structure says up to its counts, which is what a review shows.
\* Neither what an earlier attempt left there nor a byte that was skipped can differ.
THEOREM SignedIsReviewed == Spec => []AcceptedIsWritten
<1>1. FormatInv => AcceptedIsWritten
  BY DEF FormatInv
<1> QED
  BY <1>1, FormatInvariant, PTL

\* For all streams, limits and numbers of attempts: an accepted transaction is flagged as a
\* transfer if and only if its script is one, with the token, amount and address of that
\* script (try_parse_transfer_script), although the flags are only ever set.
THEOREM FlaggedIsTransfer == Spec => []TransferIsScript
<1>1. FormatInv => TransferIsScript
  BY DEF FormatInv
<1> QED
  BY <1>1, FormatInvariant, PTL

-----------------------------------------------------------------------------
(* The virtual machine. *)

\* The machines of a script up to its k-th instruction.
Begin == [stack |-> <<>>, calls |-> <<>>, fault |-> FALSE]
IsRun(m, s, n) == m = [k \in 0..n |-> IF k = 0 THEN Begin ELSE Execute(m[k - 1], s[k])]

\* There are such machines for every script.
LEMMA RunExists ==
    ASSUME NEW s, NEW n \in Nat
    PROVE  \E m : IsRun(m, s, n)
<1> DEFINE S == {k \in Nat : \E m : IsRun(m, s, k)}
<1>1. 0 \in S
  <2>1. IsRun([k \in 0..0 |-> Begin], s, 0)
    BY DEF IsRun
  <2> QED
    BY <2>1
<1>2. ASSUME NEW k \in Nat, k \in S PROVE k + 1 \in S
  <2>1. PICK m : IsRun(m, s, k)
    BY <1>2
  <2>2. PICK l \in Nat : l = k + 1
    OBVIOUS
  <2>3. PICK x : x = Execute(m[k], s[l])
    OBVIOUS
  <2>4. PICK u : u = [h \in 0..l |-> IF h = l THEN x ELSE m[h]]
    OBVIOUS
  <2>5. ASSUME NEW h \in 0..l
        PROVE  u[h] = IF h = 0 THEN Begin ELSE Execute(u[h - 1], s[h])
    <3>1. CASE h = l
      <4>1. h # 0 /\ h - 1 = k /\ k \in 0..l /\ k # l
        BY <2>2, <3>1
      <4>2. u[h] = x /\ u[h - 1] = m[k]
        BY <2>4, <3>1, <4>1
      <4> QED
        BY <2>3, <3>1, <4>1, <4>2
    <3>2. CASE h # l
      <4>1. h \in 0..k /\ (h # 0 => h - 1 \in 0..l /\ h - 1 # l)
        BY <2>2, <3>2
      <4>2. u[h] = m[h] /\ (h # 0 => u[h - 1] = m[h - 1])
        BY <2>4, <3>2, <4>1
      <4>3. m[h] = IF h = 0 THEN Begin ELSE Execute(m[h - 1], s[h])
        BY <2>1, <4>1 DEF IsRun
      <4> QED
        BY <4>2, <4>3
    <3> QED
      BY <3>1, <3>2
  <2>6. u = [h \in 0..l |-> IF h = 0 THEN Begin ELSE Execute(u[h - 1], s[h])]
    BY <2>4, <2>5
  <2>7. IsRun(u, s, l)
    BY <2>6 DEF IsRun
  <2> QED
    BY <2>2, <2>7
<1> HIDE DEF S
<1>3. n \in S
  BY <1>1, <1>2, SetInduction
<1> QED
  BY <1>3 DEF S

\* Run is the last of them.
IsMachines(m, s, n) == m[0] = Begin /\ \A k \in 1..n : m[k] = Execute(m[k - 1], s[k])

LEMMA RunIs ==
    ASSUME NEW s, NEW n \in Nat, n = Len(s)
    PROVE  \E m : Run(s) = m[n] /\ IsMachines(m, s, n)
<1> DEFINE M == CHOOSE m : IsRun(m, s, n)
<1>1. IsRun(M, s, n)
  BY RunExists
<1>2. Run(s) = M[n]
  BY DEF Run, IsRun, Begin
<1> HIDE DEF M
<1>3. M[0] = Begin /\ \A k \in 1..n : M[k] = Execute(M[k - 1], s[k])
  BY <1>1 DEF IsRun
<1> QED
  BY <1>2, <1>3 DEF IsMachines

\* What a machine without a fault is.
Machine(s, c) == [stack |-> s, calls |-> c, fault |-> FALSE]

\* Another stack, and other calls.
HasStack(u, m, v) == u = [m EXCEPT !.stack = v]
HasCalls(u, m, v, w) == u = [m EXCEPT !.stack = v, !.calls = w]

LEMMA NewStack ==
    ASSUME NEW s, NEW c, NEW v, NEW m, m = Machine(s, c), NEW u, HasStack(u, m, v)
    PROVE  u = Machine(v, c)
<1>1. PICK f : f = FALSE
  OBVIOUS
<1>2. m = [stack |-> s, calls |-> c, fault |-> f]
  BY <1>1 DEF Machine
<1>3. [m EXCEPT !.stack = v] = [stack |-> v, calls |-> c, fault |-> f]
  BY <1>2
<1> QED
  BY <1>1, <1>3 DEF Machine, HasStack

LEMMA NewCall ==
    ASSUME NEW s, NEW c, NEW v, NEW w, NEW m, m = Machine(s, c), NEW u, HasCalls(u, m, v, w)
    PROVE  u = Machine(v, w)
<1>1. PICK f : f = FALSE
  OBVIOUS
<1>2. m = [stack |-> s, calls |-> c, fault |-> f]
  BY <1>1 DEF Machine
<1>3. PICK x : x = [m EXCEPT !.stack = v]
  OBVIOUS
<1>4. x = [stack |-> v, calls |-> c, fault |-> f]
  BY <1>2, <1>3
<1>5. [x EXCEPT !.calls = w] = [stack |-> v, calls |-> w, fault |-> f]
  BY <1>4
<1> QED
  BY <1>1, <1>3, <1>5 DEF Machine, HasCalls

LEMMA MachineParts ==
    ASSUME NEW s, NEW c, NEW m, m = Machine(s, c)
    PROVE  m.stack = s /\ m.calls = c /\ ~m.fault
BY DEF Machine

\* An instruction that pushes.
LEMMA ExecutePush ==
    ASSUME NEW s, NEW c, NEW ins, ins.op \notin {"PACK", "SYSCALL", "OTHER"}
    PROVE  Execute(Machine(s, c), ins) = Machine(Append(s, Pushed(ins)), c)
<1>1. PICK m : m = Machine(s, c)
  OBVIOUS
<1>2. m.stack = s /\ ~m.fault
  BY <1>1, MachineParts
<1>3. HasStack(Execute(m, ins), m, Append(s, Pushed(ins)))
  BY <1>2 DEF Execute, HasStack
<1> QED
  BY <1>1, <1>3, NewStack

\* Four values and their count, packed.
LEMMA ExecutePack ==
    ASSUME NEW a, NEW b, NEW d, NEW e, NEW n, n = Int_(4), NEW c, NEW ins, ins.op = "PACK",
           NEW l, l = Array_([k \in 1..4 |-> <<a, b, d, e>>[5 - k]])
    PROVE  Execute(Machine(<<a, b, d, e, n>>, c), ins) = Machine(<<l>>, c)
<1>1. PICK s : s = <<a, b, d, e, n>>
  OBVIOUS
<1>2. PICK m : m = Machine(s, c)
  OBVIOUS
<1>3. m.stack = s /\ ~m.fault
  BY <1>2, MachineParts
<1>4. Len(s) = 5 /\ s # <<>> /\ s[5] = n /\ n.type = "int" /\ n.n = 4
  BY <1>1 DEF Int_
<1>5. s[Len(s) + 1 - 1] = n /\ n.n \in 0..(Len(s) - 1)
  BY <1>4
<1>6. SubSeq(s, 1, Len(s) - (n.n + 1)) = <<>>
  BY <1>1, <1>4
<1>7. [k \in 1..n.n |-> s[Len(s) + 1 - (k + 1)]] = [k \in 1..4 |-> <<a, b, d, e>>[5 - k]]
  BY <1>1, <1>4
<1>8. Execute(m, ins)
        = [m EXCEPT !.stack = Append(SubSeq(s, 1, Len(s) - (n.n + 1)),
                                     Array_([k \in 1..n.n |-> s[Len(s) + 1 - (k + 1)]]))]
  <2>1. ~(s = <<>> \/ s[Len(s) + 1 - 1].type # "int" \/ s[Len(s) + 1 - 1].n \notin 0..(Len(s) - 1))
    BY <1>4, <1>5
  <2> QED
    BY <1>3, <1>5, <2>1 DEF Execute
<1>9. Append(<<>>, l) = <<l>>
  OBVIOUS
<1>10. HasStack(Execute(m, ins), m, <<l>>)
  BY <1>6, <1>7, <1>8, <1>9 DEF HasStack
<1> QED
  BY <1>1, <1>2, <1>10, NewStack

\* The call with the four values it takes from the stack.
LEMMA ExecuteCall ==
    ASSUME NEW l, NEW f, NEW h, NEW t, NEW ins, ins.op = "SYSCALL",
           ins.v = "System.Contract.Call",
           NEW call, call = [contract |-> t, method |-> h, flags |-> f, args |-> l]
    PROVE  Execute(Machine(<<l, f, h, t>>, <<>>), ins) = Machine(<<>>, <<call>>)
<1>1. PICK s : s = <<l, f, h, t>>
  OBVIOUS
<1>2. PICK m : m = Machine(s, <<>>)
  OBVIOUS
<1>3. m.stack = s /\ m.calls = <<>> /\ ~m.fault
  BY <1>2, MachineParts
<1>4. Len(s) = 4 /\ s[1] = l /\ s[2] = f /\ s[3] = h /\ s[4] = t
  BY <1>1
<1>5. /\ s[Len(s) + 1 - 1] = t /\ s[Len(s) + 1 - 2] = h /\ s[Len(s) + 1 - 3] = f
      /\ s[Len(s) + 1 - 4] = l /\ SubSeq(s, 1, Len(s) - 4) = <<>> /\ ~(Len(s) < 4)
  BY <1>1, <1>4
<1>6. Execute(m, ins) = [m EXCEPT !.stack = <<>>, !.calls = Append(<<>>, call)]
  BY <1>3, <1>5 DEF Execute
<1>7. Append(<<>>, call) = <<call>>
  OBVIOUS
<1>8. HasCalls(Execute(m, ins), m, <<>>, <<call>>)
  BY <1>6, <1>7 DEF HasCalls
<1> QED
  BY <1>1, <1>2, <1>8, NewCall

\* The call that a transfer makes.
Call(s) ==
    [contract |-> Bytes_(s[9].v), method |-> Bytes_("transfer"), flags |-> Int_(15),
     args |-> Array_([k \in 1..4 |->
                        <<Null_, Pushed(s[2]), Bytes_(s[3].v), Bytes_(s[4].v)>>[5 - k]])]

\* What the instructions of a transfer push.
LEMMA TransferPushes ==
    ASSUME NEW s, IsTransfer(s)
    PROVE  /\ Len(s) = 10
           /\ \A k \in {1, 2, 3, 4, 5, 7, 8, 9} : s[k].op \notin {"PACK", "SYSCALL", "OTHER"}
           /\ Pushed(s[1]) = Null_
           /\ Pushed(s[3]) = Bytes_(s[3].v) /\ Pushed(s[4]) = Bytes_(s[4].v)
           /\ Pushed(s[5]) = Int_(4) /\ Pushed(s[7]) = Int_(15)
           /\ Pushed(s[8]) = Bytes_("transfer") /\ Pushed(s[9]) = Bytes_(s[9].v)
           /\ s[6].op = "PACK"
           /\ s[10].op = "SYSCALL" /\ s[10].v = "System.Contract.Call"
<1>1. /\ s[1].op = "PUSHNULL" /\ s[2].op \in AmountOps /\ s[3].op = "PUSHDATA1"
      /\ s[4].op = "PUSHDATA1" /\ s[5].op = "PUSH" /\ s[5].v = 4 /\ s[6].op = "PACK"
      /\ s[7].op = "PUSH" /\ s[7].v = 15 /\ s[8].op = "PUSHDATA1" /\ s[8].v = "transfer"
      /\ s[9].op = "PUSHDATA1"
      /\ Len(s) = 10 /\ s[10].op = "SYSCALL" /\ s[10].v = "System.Contract.Call"
  BY DEF IsTransfer, HasContract, HasDestination, HasAmount, IsHash, IsCallSequence
<1>2. \A ins : ins.op = "PUSHDATA1" => Pushed(ins) = Bytes_(ins.v)
  BY DEF Pushed
<1>3. \A ins : ins.op = "PUSH" => Pushed(ins) = Int_(ins.v)
  BY DEF Pushed
<1>4. Pushed(s[1]) = Null_
  BY <1>1 DEF Pushed
<1>5. \A k \in {1, 2, 3, 4, 5, 7, 8, 9} : s[k].op \notin {"PACK", "SYSCALL", "OTHER"}
  BY <1>1 DEF AmountOps
<1> QED
  BY <1>1, <1>2, <1>3, <1>4, <1>5

\* The stacks that grow to five values.
IsAppend(w, v, x) == w = Append(v, x)

LEMMA AppendIs ==
    ASSUME NEW S, NEW s \in Seq(S), NEW x \in S, NEW t \in Seq(S), Len(t) = Len(s) + 1,
           \A k \in 1..Len(s) : t[k] = s[k], t[Len(t)] = x
    PROVE  IsAppend(t, s, x)
<1> DEFINE l == Append(s, x)
<1>1. /\ l \in Seq(S) /\ Len(l) = Len(s) + 1 /\ l[Len(s) + 1] = x
      /\ \A k \in 1..Len(s) : l[k] = s[k]
  BY AppendProperties
<1> HIDE DEF l
<1>2. \A k \in 1..Len(t) : t[k] = l[k]
  BY <1>1
<1>3. t = l
  BY <1>1, <1>2, SeqEqual
<1> QED
  BY <1>3 DEF l, IsAppend

LEMMA Pushing ==
    ASSUME NEW a, NEW b, NEW d, NEW e, NEW f
    PROVE  /\ IsAppend(<<a>>, <<>>, a) /\ IsAppend(<<a, b>>, <<a>>, b)
           /\ IsAppend(<<a, b, d>>, <<a, b>>, d) /\ IsAppend(<<a, b, d, e>>, <<a, b, d>>, e)
           /\ IsAppend(<<a, b, d, e, f>>, <<a, b, d, e>>, f)
<1>1. PICK S : S = {a, b, d, e, f}
  OBVIOUS
<1>2. a \in S /\ b \in S /\ d \in S /\ e \in S /\ f \in S
  BY <1>1
<1>3. PICK v0, v1, v2, v3, v4, v5 :
         /\ v0 = <<>> /\ v1 = <<a>> /\ v2 = <<a, b>> /\ v3 = <<a, b, d>>
         /\ v4 = <<a, b, d, e>> /\ v5 = <<a, b, d, e, f>>
  OBVIOUS
<1>4. IsAppend(v1, v0, a)
  <2>1. v0 \in Seq(S) /\ v1 \in Seq(S)
    BY <1>2, <1>3
  <2>2. /\ Len(v0) = 0 /\ Len(v1) = 1 /\ v1[1] = a
    BY <1>3
  <2>3. /\ Len(v1) = Len(v0) + 1 /\ v1[Len(v1)] = a
        /\ \A n \in 1..Len(v0) : v1[n] = v0[n]
    BY <2>2
  <2> QED
    BY <1>2, <2>1, <2>3, AppendIs
<1>5. IsAppend(v2, v1, b)
  <2>1. v1 \in Seq(S) /\ v2 \in Seq(S)
    BY <1>2, <1>3
  <2>2. /\ Len(v1) = 1 /\ Len(v2) = 2 /\ v2[1] = a /\ v2[2] = b /\ v1[1] = a
    BY <1>3
  <2>3. /\ Len(v2) = Len(v1) + 1 /\ v2[Len(v2)] = b
        /\ \A n \in 1..Len(v1) : v2[n] = v1[n]
    BY <2>2
  <2> QED
    BY <1>2, <2>1, <2>3, AppendIs
<1>6. IsAppend(v3, v2, d)
  <2>1. v2 \in Seq(S) /\ v3 \in Seq(S)
    BY <1>2, <1>3
  <2>2. /\ Len(v2) = 2 /\ Len(v3) = 3 /\ v3[1] = a /\ v3[2] = b /\ v3[3] = d
        /\ v2[1] = a /\ v2[2] = b
    BY <1>3
  <2>3. /\ Len(v3) = Len(v2) + 1 /\ v3[Len(v3)] = d
        /\ \A n \in 1..Len(v2) : v3[n] = v2[n]
    BY <2>2
  <2> QED
    BY <1>2, <2>1, <2>3, AppendIs
<1>7. IsAppend(v4, v3, e)
  <2>1. v3 \in Seq(S) /\ v4 \in Seq(S)
    BY <1>2, <1>3
  <2>2. /\ Len(v3) = 3 /\ Len(v4) = 4 /\ v4[1] = a /\ v4[2] = b /\ v4[3] = d
        /\ v4[4] = e /\ v3[1] = a /\ v3[2] = b /\ v3[3] = d
    BY <1>3
  <2>3. /\ Len(v4) = Len(v3) + 1 /\ v4[Len(v4)] = e
        /\ \A n \in 1..Len(v3) : v4[n] = v3[n]
    BY <2>2
  <2> QED
    BY <1>2, <2>1, <2>3, AppendIs
<1>8. IsAppend(v5, v4, f)
  <2>1. v4 \in Seq(S) /\ v5 \in Seq(S)
    BY <1>2, <1>3
  <2>2. /\ Len(v4) = 4 /\ Len(v5) = 5 /\ v5[1] = a /\ v5[2] = b /\ v5[3] = d
        /\ v5[4] = e /\ v5[5] = f /\ v4[1] = a /\ v4[2] = b /\ v4[3] = d /\ v4[4] = e
    BY <1>3
  <2>3. /\ Len(v5) = Len(v4) + 1 /\ v5[Len(v5)] = f
        /\ \A n \in 1..Len(v4) : v5[n] = v4[n]
    BY <2>2
  <2> QED
    BY <1>2, <2>1, <2>3, AppendIs
<1> QED
  BY <1>3, <1>4, <1>5, <1>6, <1>7, <1>8

\* A step of the machine at an instruction that pushes x.
Pushes(ins, x) == ins.op \notin {"PACK", "SYSCALL", "OTHER"} /\ Pushed(ins) = x

LEMMA PushStep ==
    ASSUME NEW v, NEW w, NEW x, IsAppend(w, v, x), NEW ins, Pushes(ins, x), NEW c,
           NEW p, p = Machine(v, c), NEW q, q = Execute(p, ins)
    PROVE  q = Machine(w, c)
<1>1. Execute(Machine(v, c), ins) = Machine(Append(v, Pushed(ins)), c)
  BY ExecutePush DEF Pushes
<1>2. Append(v, Pushed(ins)) = w
  BY DEF IsAppend, Pushes
<1> QED
  BY <1>1, <1>2

\* The machines of ten instructions, from the empty one.
IsTen(m, s) ==
    /\ m[0] = Machine(<<>>, <<>>)
    /\ m[1] = Execute(m[0], s[1]) /\ m[2] = Execute(m[1], s[2]) /\ m[3] = Execute(m[2], s[3])
    /\ m[4] = Execute(m[3], s[4]) /\ m[5] = Execute(m[4], s[5]) /\ m[6] = Execute(m[5], s[6])
    /\ m[7] = Execute(m[6], s[7]) /\ m[8] = Execute(m[7], s[8]) /\ m[9] = Execute(m[8], s[9])
    /\ m[10] = Execute(m[9], s[10])

LEMMA TenSteps ==
    ASSUME NEW s, NEW n \in Nat, n = Len(s), n = 10
    PROVE  \E m : Run(s) = m[10] /\ IsTen(m, s)
<1>1. PICK m : Run(s) = m[n] /\ IsMachines(m, s, n)
  BY RunIs
<1> USE DEF IsMachines
<1>2. /\ m[1] = Execute(m[0], s[1]) /\ m[2] = Execute(m[1], s[2]) /\ m[3] = Execute(m[2], s[3])
      /\ m[4] = Execute(m[3], s[4]) /\ m[5] = Execute(m[4], s[5])
  BY <1>1
<1>3. /\ m[6] = Execute(m[5], s[6])
      /\ m[7] = Execute(m[6], s[7]) /\ m[8] = Execute(m[7], s[8]) /\ m[9] = Execute(m[8], s[9])
      /\ m[10] = Execute(m[9], s[10]) /\ Run(s) = m[10]
  BY <1>1
<1>4. m[0] = Machine(<<>>, <<>>)
  BY <1>1 DEF Begin, Machine
<1> QED
  BY <1>2, <1>3, <1>4 DEF IsTen

\* Ten instructions that push, pack and call.
IsPacked(l, b, d, e) == l = Array_([k \in 1..4 |-> <<Null_, b, d, e>>[5 - k]])
IsCall(call, t, h, g, l) == call = [contract |-> t, method |-> h, flags |-> g, args |-> l]

LEMMA TenRun ==
    ASSUME NEW m, NEW s, IsTen(m, s), NEW b, NEW d, NEW e, NEW g, NEW h, NEW t,
           Pushes(s[1], Null_), Pushes(s[2], b), Pushes(s[3], d), Pushes(s[4], e),
           Pushes(s[5], Int_(4)), s[6].op = "PACK", Pushes(s[7], g), Pushes(s[8], h),
           Pushes(s[9], t), s[10].op = "SYSCALL", s[10].v = "System.Contract.Call",
           NEW l, IsPacked(l, b, d, e),
           NEW call, IsCall(call, t, h, g, l)
    PROVE  m[10] = Machine(<<>>, <<call>>)
<1>1. PICK a, f : a = Null_ /\ f = Int_(4)
  OBVIOUS
<1>2. /\ IsAppend(<<a>>, <<>>, a) /\ IsAppend(<<a, b>>, <<a>>, b)
      /\ IsAppend(<<a, b, d>>, <<a, b>>, d) /\ IsAppend(<<a, b, d, e>>, <<a, b, d>>, e)
      /\ IsAppend(<<a, b, d, e, f>>, <<a, b, d, e>>, f)
  BY Pushing
<1>3. /\ IsAppend(<<l, g>>, <<l>>, g) /\ IsAppend(<<l, g, h>>, <<l, g>>, h)
      /\ IsAppend(<<l, g, h, t>>, <<l, g, h>>, t)
  BY Pushing
<1>4. Pushes(s[1], a) /\ Pushes(s[5], f)
  BY <1>1
<1>5. m[1] = Machine(<<a>>, <<>>)
  <2>1. m[0] = Machine(<<>>, <<>>) /\ m[1] = Execute(m[0], s[1])
    BY DEF IsTen
  <2> QED
    BY <2>1, <1>2, <1>4, PushStep
<1>6. m[2] = Machine(<<a, b>>, <<>>)
  <2>1. m[2] = Execute(m[1], s[2])
    BY DEF IsTen
  <2> QED
    BY <2>1, <1>2, <1>5, PushStep
<1>7. m[3] = Machine(<<a, b, d>>, <<>>)
  <2>1. m[3] = Execute(m[2], s[3])
    BY DEF IsTen
  <2> QED
    BY <2>1, <1>2, <1>6, PushStep
<1>8. m[4] = Machine(<<a, b, d, e>>, <<>>)
  <2>1. m[4] = Execute(m[3], s[4])
    BY DEF IsTen
  <2> QED
    BY <2>1, <1>2, <1>7, PushStep
<1>9. m[5] = Machine(<<a, b, d, e, f>>, <<>>)
  <2>1. m[5] = Execute(m[4], s[5])
    BY DEF IsTen
  <2> QED
    BY <2>1, <1>2, <1>4, <1>8, PushStep
<1>10. m[6] = Machine(<<l>>, <<>>)
  <2>1. m[6] = Execute(m[5], s[6])
    BY DEF IsTen
  <2>2. l = Array_([k \in 1..4 |-> <<a, b, d, e>>[5 - k]])
    BY <1>1 DEF IsPacked
  <2> QED
    BY <2>1, <2>2, <1>1, <1>9, ExecutePack
<1>11. m[7] = Machine(<<l, g>>, <<>>)
  <2>1. m[7] = Execute(m[6], s[7])
    BY DEF IsTen
  <2> QED
    BY <2>1, <1>3, <1>10, PushStep
<1>12. m[8] = Machine(<<l, g, h>>, <<>>)
  <2>1. m[8] = Execute(m[7], s[8])
    BY DEF IsTen
  <2> QED
    BY <2>1, <1>3, <1>11, PushStep
<1>13. m[9] = Machine(<<l, g, h, t>>, <<>>)
  <2>1. m[9] = Execute(m[8], s[9])
    BY DEF IsTen
  <2> QED
    BY <2>1, <1>3, <1>12, PushStep
<1>14. m[10] = Execute(m[9], s[10])
  BY DEF IsTen
<1>15. call = [contract |-> t, method |-> h, flags |-> g, args |-> l]
  BY DEF IsCall
<1> QED
  BY <1>13, <1>14, <1>15, ExecuteCall

\* A transfer makes one call and leaves nothing.
LEMMA TransferRuns ==
    ASSUME NEW s, IsTransfer(s), NEW c, c = Call(s)
    PROVE  Run(s) = Machine(<<>>, <<c>>)
<1>1. /\ Len(s) = 10
      /\ \A k \in {1, 2, 3, 4, 5, 7, 8, 9} : s[k].op \notin {"PACK", "SYSCALL", "OTHER"}
      /\ Pushed(s[1]) = Null_
      /\ Pushed(s[3]) = Bytes_(s[3].v) /\ Pushed(s[4]) = Bytes_(s[4].v)
      /\ Pushed(s[5]) = Int_(4) /\ Pushed(s[7]) = Int_(15)
      /\ Pushed(s[8]) = Bytes_("transfer") /\ Pushed(s[9]) = Bytes_(s[9].v)
      /\ s[6].op = "PACK"
      /\ s[10].op = "SYSCALL" /\ s[10].v = "System.Contract.Call"
  BY TransferPushes
<1>2. PICK n \in Nat : n = 10 /\ n = Len(s)
  BY <1>1
<1>3. PICK m : Run(s) = m[10] /\ IsTen(m, s)
  BY <1>2, TenSteps
<1>4. PICK b, d, e, g, h, t :
         /\ b = Pushed(s[2]) /\ d = Bytes_(s[3].v) /\ e = Bytes_(s[4].v)
         /\ g = Int_(15) /\ h = Bytes_("transfer") /\ t = Bytes_(s[9].v)
  OBVIOUS
<1>5. PICK l : IsPacked(l, b, d, e)
  BY DEF IsPacked
<1>6. IsCall(c, t, h, g, l)
  BY <1>4, <1>5 DEF Call, IsPacked, IsCall
<1>7. /\ Pushes(s[1], Null_) /\ Pushes(s[2], b) /\ Pushes(s[3], d) /\ Pushes(s[4], e)
      /\ Pushes(s[5], Int_(4)) /\ Pushes(s[7], g) /\ Pushes(s[8], h) /\ Pushes(s[9], t)
  BY <1>1, <1>4 DEF Pushes
<1>8. m[10] = Machine(<<>>, <<c>>)
  <2>1. /\ s[6].op = "PACK" /\ s[10].op = "SYSCALL"
        /\ s[10].v = "System.Contract.Call"
    BY <1>1
  <2> QED
    BY <1>3, <1>5, <1>6, <1>7, <2>1, TenRun
<1> QED
  BY <1>3, <1>8

\* What is shown of the amount is what is pushed, except by PUSHINT8 when that is negative.
LEMMA AmountIsPushed ==
    ASSUME NEW ins \in Instructions, ins.op \in AmountOps
    PROVE  /\ Pushed(ins).type = "int"
           /\ Pushed(ins).n >= 0 \/ ins.op # "PUSHINT8" => Amount(ins) = Pushed(ins).n
<1>1. CASE ins.op = "PUSH"
  BY <1>1 DEF Pushed, Amount, Int_
<1>2. CASE ins.op = "PUSHINT8"
  <2>1. Pushed(ins) = Int_(Signed(ins.v, BYTE)) /\ Amount(ins) = ins.v
    BY <1>2 DEF Pushed, Amount
  <2>2. ins.v \in 0..(BYTE - 1)
    BY <1>2 DEF Instructions
  <2>3. Signed(ins.v, BYTE) >= 0 => Signed(ins.v, BYTE) = ins.v
    BY <2>2, ByteAssumption DEF Signed
  <2>4. Pushed(ins).type = "int" /\ Pushed(ins).n = Signed(ins.v, BYTE)
    BY <2>1 DEF Int_
  <2>5. Pushed(ins).n >= 0 => Amount(ins) = Pushed(ins).n
    BY <2>1, <2>3, <2>4
  <2> QED
    BY <1>2, <2>4, <2>5
<1>3. CASE ins.op = "PUSHINT16"
  BY <1>3 DEF Pushed, Amount, Int_
<1>4. CASE ins.op = "PUSHINT32"
  BY <1>4 DEF Pushed, Amount, Int_
<1>5. CASE ins.op = "PUSHINT64"
  BY <1>5 DEF Pushed, Amount, Int_
<1> QED
  BY <1>1, <1>2, <1>3, <1>4, <1>5 DEF AmountOps

\* For all streams, limits and numbers of attempts: the virtual machine executes the script
\* of what is shown as a transfer as one call of transfer on the contract of the token, to
\* the address, and of the amount unless PUSHINT8 pushes a negative one.
THEOREM ShownIsExecuted == Spec => []TransferIsExecuted
<1>1. FormatInv => TransferIsExecuted
  <2> SUFFICES ASSUME FormatInv, Accepted, tx.is_system_asset_transfer
               PROVE  TransferIsExecuted
    BY DEF TransferIsExecuted
  <2>1. PICK s : s = tx.script
    OBVIOUS
  <2>2. /\ IsTransfer(s) /\ (tx.is_neo <=> s[9].v = NEO)
        /\ tx.amount = Amount(s[2]) /\ tx.dst_address = Address(s[3].v)
    BY <2>1 DEF FormatInv, TransferIsScript
  <2>3. s \in Seq(Instructions)
    BY <2>1 DEF FormatInv, ReaderInv, TypeOK, Transaction
  <2>4. s[2] \in Instructions /\ s[2].op \in AmountOps
    <3>1. Len(s) = 10
      BY <2>2, TransferPushes
    <3>2. s[2].op \in AmountOps
      BY <2>2 DEF IsTransfer, HasContract, HasDestination, HasAmount
    <3>3. PICK n \in 1..Len(s) : n = 2
      BY <3>1
    <3>4. s[n] \in Instructions
      BY <2>3, <3>3, ElementOfSeq
    <3> QED
      BY <3>2, <3>3, <3>4
  <2>5. PICK c : c = Call(s)
    OBVIOUS
  <2>6. PICK m : m = Run(s)
    OBVIOUS
  <2>7. m = Machine(<<>>, <<c>>)
    BY <2>2, <2>5, <2>6, TransferRuns
  <2>8. /\ ~m.fault /\ m.stack = <<>> /\ m.calls = <<c>>
    BY <2>7, MachineParts
  <2>9. Len(m.calls) = 1 /\ m.calls[1] = c
    BY <2>8
  <2>10. c.contract = Bytes_(IF tx.is_neo THEN NEO ELSE GAS)
    <3>1. c.contract = Bytes_(s[9].v)
      BY <2>5 DEF Call
    <3>2. s[9].v \in {NEO, GAS}
      BY <2>2 DEF IsTransfer, HasContract, IsHash
    <3>3. s[9].v = IF tx.is_neo THEN NEO ELSE GAS
      BY <2>2, <3>2
    <3> QED
      BY <3>1, <3>3
  <2>11. c.method = Bytes_("transfer")
    BY <2>5 DEF Call
  <2>12. PICK l : l = [k \in 1..4 |->
                         <<Null_, Pushed(s[2]), Bytes_(s[3].v), Bytes_(s[4].v)>>[5 - k]]
    OBVIOUS
  <2>13. Len(l) = 4 /\ l[2] = Bytes_(s[3].v) /\ l[3] = Pushed(s[2]) /\ l[4] = Null_
    BY <2>12
  <2>14. c.args.type = "array" /\ c.args.l = l
    BY <2>5, <2>12 DEF Call, Array_
  <2>15. tx.dst_address = Address(l[2].b)
    BY <2>2, <2>13 DEF Bytes_
  <2>16. l[3].type = "int" /\ (l[3].n >= 0 \/ s[2].op # "PUSHINT8" => tx.amount = l[3].n)
    BY <2>2, <2>4, <2>13, AmountIsPushed
  <2> QED
    BY <2>1, <2>6, <2>8, <2>9, <2>10, <2>11, <2>13, <2>14, <2>15, <2>16 DEF TransferIsExecuted
<1> QED
  BY <1>1, FormatInvariant, PTL

-----------------------------------------------------------------------------
(* Supported transactions are accepted: bytes that fit are never refused.  *)

\* The numbers are within their limits.
HeaderFits(r) == \A k \in 1..5 : r[k].is = Header[k] /\ ~BadValue(Header[k], r[k].v)

\* No two of n signers have one account, and GLOBAL stands alone.
SignersFit(ss, n) ==
    /\ \A k, l \in 0..(n - 1) : k # l => ss[k].account # ss[l].account
    /\ \A k \in 0..(n - 1) : "GLOBAL" \in ss[k].scope => ss[k].scope = {"GLOBAL"}

\* There are c attributes behind o, at most one, and the script behind e is the last.
AttributesFit(r, o, c) ==
    /\ c \in 0..1 /\ c <= MAX_ATTRIBUTES
    /\ r[o + 1] = Item("varint", c)
    /\ c = 1 => r[o + 2] = Item("attribute", "HIGH_PRIORITY")
ScriptFits(r, e) == \E x : Len(x) \in 1..LongestScript /\ ScriptIs(r, x, e)

\* The bytes r are those of the signers ss, n of them at the places q, of c attributes and
\* of a script, and keep all limits.
Fits(r, ss, q, n, c) ==
    /\ n \in MIN_TX_SIGNERS..MAX_TX_SIGNERS
    /\ ss \in [0..(MAX_TX_SIGNERS - 1) -> Signers]
    /\ HeaderFits(r)
    /\ r[6] = Item("varint", n)
    /\ SignersAt(r, ss, q, n) /\ SignersFit(ss, n)
    /\ AttributesFit(r, q[n], c)
    /\ ScriptFits(r, q[n] + 1 + c)

\* What an attempt starts from: no attribute is stored before the first one stores it.
Fresh ==
    /\ attempt \in Nat
    /\ attempt = 0 =>
          at = "idle" /\ status = "none" /\ \A k \in 0..(MAX_ATTRIBUTES - 1) : tx.attributes[k] = "NONE"
    /\ attempt = 1 /\ at \notin {"idle", "script"} /\ (at = "attribute" => i = 0) =>
          \A k \in 0..(MAX_ATTRIBUTES - 1) : tx.attributes[k] = "NONE"

\* Bytes that fit are accepted at the end of the last chunk.
FittingIsAccepted ==
    \A ss, q, n, c :
        /\ Fits(raw, ss, q, n, c) /\ at = "idle" /\ status # "none"
        /\ attempt = 1 \/ c = 0
        => Accepted

\* The inductive invariant: the reader's, and what it owes to bytes that fit.
AcceptInv == FormatInv /\ Fresh /\ FittingIsAccepted

\* An attempt goes on, or ends with acceptance.
NotRefused == status' \in {"none", "PARSING_OK"}

\* The numbers of n signers.
LEMMA CountFits ==
    ASSUME NEW r, NEW ss, NEW q, NEW n, NEW c, Fits(r, ss, q, n, c)
    PROVE  n \in Nat /\ n <= MAX_TX_SIGNERS /\ MAX_TX_SIGNERS \in Nat
BY LimitsAssumption DEF Fits

\* The signers that were read are those of the bytes, and the one that is being read is there.
LEMMA SignerHere ==
    ASSUME FormatInv, at \in InSigner \cup {"account"},
           NEW ss, NEW q, NEW n, NEW c, Fits(raw, ss, q, n, c)
    PROVE  /\ i \in 0..(n - 1) /\ ss[i] \in Signers
           /\ \E o \in Nat : /\ WithinSigner(tx.signers[i], o) /\ SignerAt(raw, ss[i], o)
                             /\ SignerEnd(ss[i], o) <= Len(raw)
           /\ \A k \in 0..(i - 1) : tx.signers[k].account = ss[k].account
<1>1. /\ i \in 0..(MAX_TX_SIGNERS - 1) /\ i \in Nat /\ i + 1 <= tx.signers_size
      /\ tx.signers \in [0..(MAX_TX_SIGNERS - 1) -> Signers]
      /\ raw[6] = Item("varint", tx.signers_size) /\ Len(raw) \in Nat
  BY InSignerFacts
<1>2. PICK p : SignersAt(raw, tx.signers, p, i) /\ WithinSigner(tx.signers[i], p[i])
  BY InSignerFacts
<1>3. /\ n \in Nat /\ ss \in [0..(MAX_TX_SIGNERS - 1) -> Signers]
      /\ raw[6] = Item("varint", n) /\ SignersAt(raw, ss, q, n)
  BY CountFits DEF Fits
<1>4. n = tx.signers_size
  BY <1>1, <1>3, ItemEqual
<1>5. i \in Nat /\ n \in Nat /\ i \in 0..(n - 1) /\ ss[i] \in Signers
  BY <1>1, <1>3, <1>4
<1>6. ASSUME NEW k \in 0..i PROVE p[k] = q[k]
  <2>1. k \in 0..n /\ k \in Nat /\ k <= MAX_TX_SIGNERS
    <3>1. i \in Nat /\ i \in 0..(n - 1) /\ n \in Nat /\ n <= MAX_TX_SIGNERS /\ MAX_TX_SIGNERS \in Nat
      BY <1>1, <1>5, CountFits
    <3> QED
      BY <3>1
  <2>2. StartsAt(raw, k, p[k])
    BY <1>1, <1>2, StartsWhere
  <2>3. StartsAt(raw, k, q[k])
    BY <1>1, <1>3, <2>1, StartsWhere
  <2> QED
    BY <2>1, <2>2, <2>3, StartIsOne
<1>7. p[i] = q[i]
  BY <1>1, <1>6
<1>8. /\ q[i] \in Nat /\ SignerAt(raw, ss[i], q[i]) /\ SignerEnd(ss[i], q[i]) <= Len(raw)
  <2>1. i \in 0..n /\ i + 1 \in 0..n
    BY <1>5
  <2>2. q \in [0..n -> 6..Len(raw)]
    BY <1>3 DEF SignersAt
  <2>3. q[i] \in Nat /\ q[i + 1] <= Len(raw)
    BY <1>1, <2>1, <2>2
  <2>4. SignerAt(raw, ss[i], q[i]) /\ q[i + 1] = SignerEnd(ss[i], q[i])
    BY <1>3, <1>5 DEF SignersAt
  <2> QED
    BY <2>3, <2>4
<1>9. ASSUME NEW k \in 0..(i - 1) PROVE tx.signers[k].account = ss[k].account
  <2>1. k \in 0..i /\ k \in 0..(n - 1)
    BY <1>5
  <2>2. raw[p[k] + 1] = Item("hash", tx.signers[k].account)
    BY <1>2 DEF SignersAt, SignerAt
  <2>3. raw[q[k] + 1] = Item("hash", ss[k].account)
    BY <1>3, <2>1 DEF SignersAt, SignerAt
  <2>4. p[k] = q[k]
    BY <1>6, <2>1
  <2> QED
    BY <2>2, <2>3, <2>4, ItemEqual
<1> QED
  BY <1>2, <1>5, <1>7, <1>8, <1>9

\* What is there can be read.
LEMMA CanRead ==
    ASSUME NEW is, NEW v, NEW o, off = o, o < Len(raw), raw[o + 1] = Item(is, v)
    PROVE  Readable(is) /\ Value = v
BY DEF Readable, ReadableAt, Value, Item

\* The account of a signer that fits is read, and is not one before it.
LEMMA AccountFits ==
    ASSUME FormatInv, ReadAccount, NEW ss, NEW q, NEW n, NEW c, Fits(raw, ss, q, n, c)
    PROVE  NotRefused
<1>1. at = "account" /\ status = "none"
  BY DEF ReadAccount, Reading, FormatInv, ReaderInv
<1>2. PICK o \in Nat : /\ WithinSigner(tx.signers[i], o) /\ SignerAt(raw, ss[i], o)
                       /\ SignerEnd(ss[i], o) <= Len(raw)
  BY <1>1, SignerHere
<1>3. i \in 0..(n - 1) /\ ss[i] \in Signers /\ \A k \in 0..(i - 1) : tx.signers[k].account = ss[k].account
  BY <1>1, SignerHere
<1>4. /\ ContractsEnd(ss[i], o) \in Nat /\ SignerEnd(ss[i], o) \in Nat
      /\ o + 2 <= ContractsEnd(ss[i], o) /\ ContractsEnd(ss[i], o) <= SignerEnd(ss[i], o)
  BY <1>3, Ends
<1>5. off = o /\ raw[o + 1] = Item("hash", ss[i].account)
  BY <1>1, <1>2 DEF WithinSigner, SignerAt
<1>6. Len(raw) \in Nat
  BY DEF FormatInv, ReaderInv, TypeOK
<1>7. o < Len(raw)
  BY <1>2, <1>4, <1>6
<1>8. Readable("hash") /\ Value = ss[i].account
  BY <1>5, <1>7, CanRead
<1>9. ~Duplicate(Value)
  <2> SUFFICES ASSUME NEW k \in 0..(i - 1), tx.signers[k].account = ss[i].account PROVE FALSE
    BY <1>8 DEF Duplicate
  <2>1. n \in Nat
    BY CountFits
  <2>2. k \in 0..(n - 1) /\ k # i
    BY <1>3, <2>1
  <2>3. ss[k].account = ss[i].account
    BY <1>3
  <2> QED
    BY <1>3, <2>2, <2>3 DEF Fits, SignersFit
<1> QED
  BY <1>1, <1>8, <1>9 DEF ReadAccount, TakeAndGoto, Goto, NotRefused
\* After a signer, and after its contracts, an attempt goes on.
LEMMA GoesOn ==
    ASSUME status = "none", NEW scope,
           AfterSigner \/ AfterContracts(scope) \/ AfterScope(scope)
    PROVE  NotRefused
BY DEF AfterSigner, AfterContracts, AfterScope, Goto, NotRefused

\* What the bytes and the structure both say of a list of a signer.
LEMMA SameSigner ==
    ASSUME NEW r, NEW o, NEW s \in Signers, NEW t \in Signers, SignerAt(r, t, o),
           r[o + 2] = Item("scope", s.scope)
    PROVE  s.scope = t.scope
BY ItemEqual DEF SignerAt

\* What is known of the signer that is being read, behind its account.
Behind(o, s, t) ==
    /\ o \in Nat /\ s \in Signers /\ t \in Signers
    /\ WithinSigner(s, o) /\ SignerAt(raw, t, o)
    /\ at # "scope" => s.scope = t.scope
    /\ ContractsEnd(t, o) \in Nat /\ SignerEnd(t, o) \in Nat
    /\ o + 2 <= ContractsEnd(t, o) /\ ContractsEnd(t, o) <= SignerEnd(t, o)
    /\ SignerEnd(t, o) <= Len(raw) /\ Len(raw) \in Nat
    /\ t.allowed_contracts_size \in Nat /\ t.allowed_groups_size \in Nat
    /\ t.allowed_contracts_size <= MAX_SIGNER_SUB_ITEMS
    /\ t.allowed_groups_size <= MAX_SIGNER_SUB_ITEMS

\* Behind the account of a signer that fits.
LEMMA BehindAccount ==
    ASSUME FormatInv, at \in InSigner, NEW ss, NEW q, NEW n, NEW c, Fits(raw, ss, q, n, c)
    PROVE  /\ status = "none" /\ i \in 0..(n - 1)
           /\ \E o : Behind(o, tx.signers[i], ss[i])
<1>1. PICK o \in Nat : /\ WithinSigner(tx.signers[i], o) /\ SignerAt(raw, ss[i], o)
                       /\ SignerEnd(ss[i], o) <= Len(raw)
  BY SignerHere
<1>2. i \in 0..(n - 1) /\ ss[i] \in Signers
  BY SignerHere
<1>3. tx.signers[i] \in Signers /\ Len(raw) \in Nat /\ status = "none"
  BY InSignerFacts
<1>4. /\ ContractsEnd(ss[i], o) \in Nat /\ SignerEnd(ss[i], o) \in Nat
      /\ o + 2 <= ContractsEnd(ss[i], o) /\ ContractsEnd(ss[i], o) <= SignerEnd(ss[i], o)
  BY <1>2, Ends
<1>5. /\ ss[i].allowed_contracts_size \in Nat /\ ss[i].allowed_groups_size \in Nat
      /\ ss[i].allowed_contracts_size <= MAX_SIGNER_SUB_ITEMS
      /\ ss[i].allowed_groups_size <= MAX_SIGNER_SUB_ITEMS
  BY <1>2, SignerType
<1>6. at # "scope" => tx.signers[i].scope = ss[i].scope
  <2> SUFFICES ASSUME at # "scope" PROVE tx.signers[i].scope = ss[i].scope
    OBVIOUS
  <2>1. raw[o + 2] = Item("scope", tx.signers[i].scope)
    BY <1>1 DEF WithinSigner
  <2> QED
    BY <1>1, <1>2, <1>3, <2>1, SameSigner
<1>7. Behind(o, tx.signers[i], ss[i])
  BY <1>1, <1>2, <1>3, <1>4, <1>5, <1>6 DEF Behind
<1> QED
  BY <1>2, <1>3, <1>7

\* Its scope is read.
LEMMA ScopeFits ==
    ASSUME FormatInv, ReadScope, NEW ss, NEW q, NEW n, NEW c, Fits(raw, ss, q, n, c)
    PROVE  NotRefused
<1>1. at = "scope" /\ at \in InSigner
  BY DEF ReadScope, Reading, InSigner
<1>2. status = "none" /\ i \in 0..(n - 1)
  BY <1>1, BehindAccount
<1>3. PICK o : Behind(o, tx.signers[i], ss[i])
  BY <1>1, BehindAccount
<1>4. off = o + 1 /\ raw[o + 2] = Item("scope", ss[i].scope)
  BY <1>1, <1>3 DEF Behind, WithinSigner, SignerAt
<1>5. o + 1 < Len(raw) /\ o + 1 + 1 = o + 2
  BY <1>3 DEF Behind
<1>6. Readable("scope") /\ Value = ss[i].scope
  BY <1>4, <1>5, CanRead
<1>7. "GLOBAL" \in Value => Value = {"GLOBAL"}
  BY <1>2, <1>6 DEF Fits, SignersFit
<1>8. AfterScope(Value)
  BY <1>6, <1>7 DEF ReadScope
<1> QED
  BY <1>2, <1>8, GoesOn

\* The number of its contracts is within its limit.
LEMMA ContractCountFits ==
    ASSUME FormatInv, ReadContractCount, NEW ss, NEW q, NEW n, NEW c, Fits(raw, ss, q, n, c)
    PROVE  NotRefused
<1>1. at = "contracts" /\ at \in InSigner
  BY DEF ReadContractCount, Reading, InSigner
<1>2. status = "none"
  BY <1>1, BehindAccount
<1>3. PICK o : Behind(o, tx.signers[i], ss[i])
  BY <1>1, BehindAccount
<1>4. off = o + 2 /\ "CUSTOM_CONTRACTS" \in ss[i].scope
  BY <1>1, <1>3 DEF Behind, WithinSigner
<1>5. /\ raw[o + 2 + 1] = Item("varint", ss[i].allowed_contracts_size)
      /\ ContractsEnd(ss[i], o) = o + 3 + ss[i].allowed_contracts_size
  BY <1>3, <1>4 DEF Behind, SignerAt, ContractsAt, ListAt, ContractsEnd
<1>6. o + 2 < Len(raw)
  BY <1>3, <1>5 DEF Behind
<1>7. Readable("varint") /\ Value = ss[i].allowed_contracts_size
  BY <1>4, <1>5, <1>6, CanRead
<1>8. ~TooMany(Value)
  BY <1>3, <1>7, LimitsAssumption DEF TooMany, Behind
<1>9. AfterContracts(tx.signers[i].scope) \/ Goto("contract", i, 0)
  BY <1>7, <1>8 DEF ReadContractCount
<1>10. CASE AfterContracts(tx.signers[i].scope)
  BY <1>2, <1>10, GoesOn
<1>11. CASE Goto("contract", i, 0)
  BY <1>2, <1>11 DEF Goto, NotRefused
<1> QED
  BY <1>9, <1>10, <1>11

\* Each contract is read.
LEMMA ContractFits ==
    ASSUME FormatInv, ReadContract, NEW ss, NEW q, NEW n, NEW c, Fits(raw, ss, q, n, c)
    PROVE  NotRefused
<1>1. at = "contract" /\ at \in InSigner
  BY DEF ReadContract, Reading, InSigner
<1>2. status = "none"
  BY <1>1, BehindAccount
<1>3. PICK o : Behind(o, tx.signers[i], ss[i])
  BY <1>1, BehindAccount
<1>4. /\ off = o + 3 + j /\ "CUSTOM_CONTRACTS" \in ss[i].scope
      /\ raw[o + 2 + 1] = Item("varint", tx.signers[i].allowed_contracts_size)
  BY <1>1, <1>3 DEF Behind, WithinSigner, ListAt
<1>5. /\ raw[o + 2 + 1] = Item("varint", ss[i].allowed_contracts_size)
      /\ \A k \in 0..(ss[i].allowed_contracts_size - 1) :
            raw[o + 2 + 2 + k] = Item("hash", ss[i].allowed_contracts[k])
      /\ ContractsEnd(ss[i], o) = o + 3 + ss[i].allowed_contracts_size
  BY <1>3, <1>4 DEF Behind, SignerAt, ContractsAt, ListAt, ContractsEnd
<1>6. tx.signers[i].allowed_contracts_size = ss[i].allowed_contracts_size
  BY <1>4, <1>5, ItemEqual
<1>7. j \in 0..(ss[i].allowed_contracts_size - 1)
  BY <1>1, <1>6 DEF FormatInv, ReaderInv, TypeOK
<1>8. /\ o + 3 + j < Len(raw) /\ o + 3 + j + 1 = o + 2 + 2 + j
  BY <1>3, <1>5, <1>7 DEF Behind
<1>9. Readable("hash")
  BY <1>4, <1>5, <1>7, <1>8, CanRead
<1>10. AfterContracts(tx.signers[i].scope) \/ Goto("contract", i, j + 1)
  BY <1>9 DEF ReadContract
<1>11. CASE AfterContracts(tx.signers[i].scope)
  BY <1>2, <1>11, GoesOn
<1>12. CASE Goto("contract", i, j + 1)
  BY <1>2, <1>12 DEF Goto, NotRefused
<1> QED
  BY <1>10, <1>11, <1>12

\* The groups of the signer are behind its contracts in the structure as in the bytes.
LEMMA GroupsBehind ==
    ASSUME NEW o, NEW s, NEW t, Behind(o, s, t), at \in {"groups", "group"}
    PROVE  /\ "CUSTOM_GROUPS" \in t.scope /\ ContractsEnd(s, o) = ContractsEnd(t, o)
           /\ raw[ContractsEnd(t, o) + 1] = Item("varint", t.allowed_groups_size)
           /\ \A k \in 0..(t.allowed_groups_size - 1) :
                 raw[ContractsEnd(t, o) + 2 + k] = Item("key", t.allowed_groups[k])
           /\ ContractsEnd(t, o) + 1 + t.allowed_groups_size <= Len(raw)
<1>1. "CUSTOM_GROUPS" \in t.scope /\ ContractsAt(raw, s, o) /\ s.scope = t.scope
  BY DEF Behind, WithinSigner
<1>2. ContractsEnd(s, o) = ContractsEnd(t, o)
  <2>1. CASE "CUSTOM_CONTRACTS" \in t.scope
    <3>1. raw[o + 2 + 1] = Item("varint", s.allowed_contracts_size)
      BY <1>1, <2>1 DEF ContractsAt, ListAt
    <3>2. raw[o + 2 + 1] = Item("varint", t.allowed_contracts_size)
      BY <2>1 DEF Behind, SignerAt, ContractsAt, ListAt
    <3>3. s.allowed_contracts_size = t.allowed_contracts_size
      BY <3>1, <3>2, ItemEqual
    <3> QED
      BY <1>1, <3>3 DEF ContractsEnd
  <2>2. CASE "CUSTOM_CONTRACTS" \notin t.scope
    BY <1>1, <2>2 DEF ContractsEnd
  <2> QED
    BY <2>1, <2>2
<1>3. GroupsAt(raw, t, o) /\ SignerEnd(t, o) <= Len(raw)
  BY DEF Behind, SignerAt
<1>4. SignerEnd(t, o) = ContractsEnd(t, o) + 1 + t.allowed_groups_size
  BY <1>1 DEF SignerEnd
<1> QED
  BY <1>1, <1>2, <1>3, <1>4 DEF GroupsAt, ListAt

\* The number of its groups is within its limit.
LEMMA GroupCountFits ==
    ASSUME FormatInv, ReadGroupCount, NEW ss, NEW q, NEW n, NEW c, Fits(raw, ss, q, n, c)
    PROVE  NotRefused
<1>1. at = "groups" /\ at \in InSigner
  BY DEF ReadGroupCount, Reading, InSigner
<1>2. status = "none"
  BY <1>1, BehindAccount
<1>3. PICK o : Behind(o, tx.signers[i], ss[i])
  BY <1>1, BehindAccount
<1>4. PICK e : e = ContractsEnd(ss[i], o)
  OBVIOUS
<1>5. /\ ContractsEnd(tx.signers[i], o) = e
      /\ raw[e + 1] = Item("varint", ss[i].allowed_groups_size)
      /\ e + 1 + ss[i].allowed_groups_size <= Len(raw)
  BY <1>1, <1>3, <1>4, GroupsBehind
<1>6. off = e /\ e \in Nat
  BY <1>1, <1>3, <1>4, <1>5 DEF Behind, WithinSigner
<1>7. e < Len(raw)
  BY <1>3, <1>5, <1>6 DEF Behind
<1>8. Readable("varint") /\ Value = ss[i].allowed_groups_size
  BY <1>5, <1>6, <1>7, CanRead
<1>9. ~TooMany(Value)
  BY <1>3, <1>8, LimitsAssumption DEF TooMany, Behind
<1>10. AfterSigner \/ Goto("group", i, 0)
  BY <1>8, <1>9 DEF ReadGroupCount
<1>11. CASE AfterSigner
  BY <1>2, <1>11, GoesOn
<1>12. CASE Goto("group", i, 0)
  BY <1>2, <1>12 DEF Goto, NotRefused
<1> QED
  BY <1>10, <1>11, <1>12

\* Each group is read.
LEMMA GroupFits ==
    ASSUME FormatInv, ReadGroup, NEW ss, NEW q, NEW n, NEW c, Fits(raw, ss, q, n, c)
    PROVE  NotRefused
<1>1. at = "group" /\ at \in InSigner
  BY DEF ReadGroup, Reading, InSigner
<1>2. status = "none"
  BY <1>1, BehindAccount
<1>3. PICK o : Behind(o, tx.signers[i], ss[i])
  BY <1>1, BehindAccount
<1>4. PICK e : e = ContractsEnd(ss[i], o)
  OBVIOUS
<1>5. /\ ContractsEnd(tx.signers[i], o) = e
      /\ raw[e + 1] = Item("varint", ss[i].allowed_groups_size)
      /\ \A k \in 0..(ss[i].allowed_groups_size - 1) :
            raw[e + 2 + k] = Item("key", ss[i].allowed_groups[k])
      /\ e + 1 + ss[i].allowed_groups_size <= Len(raw)
  BY <1>1, <1>3, <1>4, GroupsBehind
<1>6. /\ off = e + 1 + j /\ e \in Nat
      /\ raw[e + 1] = Item("varint", tx.signers[i].allowed_groups_size)
  BY <1>1, <1>3, <1>4, <1>5 DEF Behind, WithinSigner, ListAt
<1>7. tx.signers[i].allowed_groups_size = ss[i].allowed_groups_size
  BY <1>5, <1>6, ItemEqual
<1>8. j \in 0..(ss[i].allowed_groups_size - 1)
  BY <1>1, <1>7 DEF FormatInv, ReaderInv, TypeOK
<1>9. e + 1 + j < Len(raw) /\ e + 1 + j + 1 = e + 2 + j
  BY <1>3, <1>5, <1>6, <1>8 DEF Behind
<1>10. Readable("key")
  BY <1>5, <1>6, <1>8, <1>9, CanRead
<1>11. AfterSigner \/ Goto("group", i, j + 1)
  BY <1>10 DEF ReadGroup
<1>12. CASE AfterSigner
  BY <1>2, <1>12, GoesOn
<1>13. CASE Goto("group", i, j + 1)
  BY <1>2, <1>13 DEF Goto, NotRefused
<1> QED
  BY <1>11, <1>12, <1>13
\* Where the attributes are, and how many.
LEMMA AttributesHere ==
    ASSUME FormatInv, at \in AfterSigners, NEW ss, NEW q, NEW n, NEW c, Fits(raw, ss, q, n, c)
    PROVE  /\ q[n] \in Nat /\ WithinAttributes(q[n])
           /\ c \in {0, 1} /\ c <= MAX_ATTRIBUTES
           /\ raw[q[n] + 1] = Item("varint", c)
           /\ c = 1 => raw[q[n] + 2] = Item("attribute", "HIGH_PRIORITY")
           /\ Len(raw) = q[n] + 3 + c
<1>1. /\ tx.signers \in [0..(MAX_TX_SIGNERS - 1) -> Signers]
      /\ tx.signers_size \in Nat /\ tx.signers_size <= MAX_TX_SIGNERS
      /\ raw[6] = Item("varint", tx.signers_size) /\ Len(raw) \in Nat
  BY AfterSignersFacts
<1>2. PICK p, o : /\ SignersAt(raw, tx.signers, p, tx.signers_size) /\ WithinAttributes(o)
                  /\ o = p[tx.signers_size] /\ o \in Nat
  BY AfterSignersFacts
<1>3. /\ n \in Nat /\ ss \in [0..(MAX_TX_SIGNERS - 1) -> Signers]
      /\ raw[6] = Item("varint", n) /\ SignersAt(raw, ss, q, n)
  BY CountFits DEF Fits
<1>4. n = tx.signers_size
  BY <1>1, <1>3, ItemEqual
<1>5. p[n] = q[n]
  BY <1>1, <1>2, <1>3, <1>4, PlacesAreInBytes
<1>6. /\ AttributesFit(raw, q[n], c) /\ ScriptFits(raw, q[n] + 1 + c)
  BY DEF Fits
<1>7. PICK e : e = q[n] + 1 + c
  OBVIOUS
<1>8. c \in {0, 1}
  BY <1>6 DEF AttributesFit
<1>9. Len(raw) = e + 2
  BY <1>6, <1>7 DEF ScriptFits, ScriptIs
<1>10. q[n] \in Nat /\ WithinAttributes(q[n])
  BY <1>2, <1>4, <1>5
<1>11. Len(raw) = q[n] + 3 + c
  BY <1>7, <1>8, <1>9, <1>10
<1> QED
  BY <1>6, <1>8, <1>10, <1>11 DEF AttributesFit

\* The number of attributes is within its limit.
LEMMA AttributeCountFits ==
    ASSUME FormatInv, ReadAttributeCount, NEW ss, NEW q, NEW n, NEW c, Fits(raw, ss, q, n, c)
    PROVE  NotRefused
<1>1. at = "attributes" /\ at \in AfterSigners
  BY DEF ReadAttributeCount, Reading, AfterSigners
<1>2. status = "none"
  BY <1>1, AfterSignersFacts
<1>3. PICK o \in Nat : o = q[n]
  BY <1>1, AttributesHere
<1>4. /\ WithinAttributes(o) /\ c \in {0, 1} /\ c <= MAX_ATTRIBUTES
      /\ raw[o + 1] = Item("varint", c) /\ Len(raw) = o + 3 + c
  BY <1>1, <1>3, AttributesHere
<1>5. off = o
  BY <1>1, <1>4 DEF WithinAttributes
<1>6. o < Len(raw)
  BY <1>4
<1>7. Readable("varint") /\ Value = c
  BY <1>4, <1>5, <1>6, CanRead
<1>8. ~(c > MAX_ATTRIBUTES \/ c > 2)
  BY <1>4, LimitsAssumption
<1> QED
  BY <1>2, <1>7, <1>8 DEF ReadAttributeCount, TakeAndGoto, Goto, NotRefused

\* Only here an earlier attempt matters.
LEMMA AttributeFits ==
    ASSUME FormatInv, Fresh, ReadAttribute,
           NEW ss, NEW q, NEW n, NEW c, Fits(raw, ss, q, n, c), attempt = 1 \/ c = 0
    PROVE  NotRefused
<1>1. at = "attribute" /\ at \in AfterSigners
  BY DEF ReadAttribute, Reading, AfterSigners
<1>2. status = "none" /\ tx.attributes_size \in Nat /\ tx.attributes_size <= MAX_ATTRIBUTES
  BY <1>1, AfterSignersFacts
<1>3. PICK o \in Nat : o = q[n]
  BY <1>1, AttributesHere
<1>4. /\ WithinAttributes(o) /\ c \in {0, 1}
      /\ raw[o + 1] = Item("varint", c) /\ Len(raw) = o + 3 + c
      /\ c = 1 => raw[o + 2] = Item("attribute", "HIGH_PRIORITY")
  BY <1>1, <1>3, AttributesHere
<1>5. off = o + 1 + i /\ raw[o + 1] = Item("varint", tx.attributes_size)
  BY <1>1, <1>4 DEF WithinAttributes, ListAt
<1>6. tx.attributes_size = c
  BY <1>4, <1>5, ItemEqual
<1>7. i \in 0..(tx.attributes_size - 1)
  BY <1>1 DEF FormatInv, ReaderInv, TypeOK
<1>8. i = 0 /\ c = 1
  BY <1>4, <1>6, <1>7
<1>9. off = o + 1 /\ o + 1 < Len(raw) /\ o + 1 + 1 = o + 2
  BY <1>4, <1>5, <1>8
<1>10. Readable("attribute") /\ Value = "HIGH_PRIORITY"
  BY <1>4, <1>8, <1>9, CanRead
<1>11. ~DuplicateAttribute("HIGH_PRIORITY")
  <2>1. \A k \in 0..(MAX_ATTRIBUTES - 1) : tx.attributes[k] = "NONE"
    BY <1>1, <1>8 DEF Fresh
  <2>2. \A k \in 0..(tx.attributes_size - 1) : k \in 0..(MAX_ATTRIBUTES - 1)
    BY <1>2, LimitsAssumption
  <2> QED
    BY <2>1, <2>2 DEF DuplicateAttribute
<1>12. TakeAndGoto("attribute", i + 1, 0) \/ TakeAndGoto("script", 0, 0)
  BY <1>10, <1>11 DEF ReadAttribute
<1> QED
  BY <1>2, <1>12 DEF TakeAndGoto, Goto, NotRefused

\* The script is the last, and the attempt ends with acceptance.
LEMMA ScriptIsAccepted ==
    ASSUME FormatInv, ReadScript, NEW ss, NEW q, NEW n, NEW c, Fits(raw, ss, q, n, c)
    PROVE  NotRefused
<1>1. at = "script" /\ at \in AfterSigners
  BY DEF ReadScript, Reading, AfterSigners
<1>2. PICK o \in Nat : o = q[n]
  BY <1>1, AttributesHere
<1>3. /\ WithinAttributes(o) /\ c \in {0, 1} /\ c \in Nat
      /\ raw[o + 1] = Item("varint", c) /\ Len(raw) = o + 3 + c
  BY <1>1, <1>2, AttributesHere
<1>4. off = o + 1 + tx.attributes_size /\ raw[o + 1] = Item("varint", tx.attributes_size)
  BY <1>1, <1>3 DEF WithinAttributes, ListAt
<1>5. tx.attributes_size = c
  BY <1>3, <1>4, ItemEqual
<1>6. PICK e \in Nat : e = o + 1 + c
  BY <1>3
<1>7. off = e
  BY <1>4, <1>5, <1>6
<1>8. PICK x : Len(x) \in 1..LongestScript /\ ScriptIs(raw, x, e)
  BY <1>2, <1>6 DEF Fits, ScriptFits
<1>9. /\ Len(raw) = e + 2
      /\ raw[e + 1] = Item("varint", Len(x)) /\ raw[e + 2] = Item("script", x)
  BY <1>8 DEF ScriptIs
<1>10. e < Len(raw) /\ e + 1 < Len(raw) /\ e + 1 + 1 = e + 2
  BY <1>9
<1>11. Readable("varint") /\ Value = Len(x)
  BY <1>7, <1>9, <1>10, CanRead
<1>12. raw[off + 2].v = x /\ raw[off + 1 + 1].is = "script"
  BY <1>7, <1>9, <1>10 DEF Item
<1>13. ReadableAt(off + 1, "script")
  BY <1>7, <1>10, <1>12 DEF ReadableAt
<1>14. Value <= Len(raw[off + 2].v)
  <2>1. LongestScript \in Nat
    BY DEF LongestScript
  <2>2. Len(x) \in 1..LongestScript
    BY <1>8
  <2>3. Len(x) <= Len(x)
    BY <2>1, <2>2
  <2> QED
    BY <1>11, <1>12, <2>3
<1>15. WholeScript
  BY <1>8, <1>11, <1>13, <1>14 DEF WholeScript
<1>16. ScriptIsLast
  BY <1>7, <1>9, <1>11, <1>12 DEF ScriptIsLast, AtEnd
<1> QED
  BY <1>11, <1>15, <1>16 DEF ReadScript, Return, NotRefused

\* Each number of the header is read.
LEMMA HeaderNumberFits ==
    ASSUME FormatInv, ReadHeader, NEW ss, NEW q, NEW n, NEW c, Fits(raw, ss, q, n, c)
    PROVE  NotRefused
<1>1. at = "header" /\ status = "none"
  BY DEF ReadHeader, Reading, FormatInv, ReaderInv
<1>2. off = i /\ i \in Nat /\ i + 1 \in 1..5
  BY <1>1 DEF FormatInv, ReaderInv, TypeOK, Header
<1>3. PICK o \in Nat : o = q[n] /\ 6 <= o /\ o <= Len(raw) /\ Len(raw) \in Nat
  <2>1. n \in Nat /\ SignersAt(raw, ss, q, n)
    BY CountFits DEF Fits
  <2>2. Len(raw) \in Nat
    BY DEF FormatInv, ReaderInv, TypeOK
  <2>3. q[n] \in 6..Len(raw)
    BY <2>1 DEF SignersAt
  <2> QED
    BY <2>2, <2>3
<1>4. i < Len(raw)
  BY <1>2, <1>3
<1>5. raw[i + 1].is = Header[i + 1] /\ ~BadValue(Header[i + 1], raw[i + 1].v)
  BY <1>2 DEF Fits, HeaderFits
<1>6. Readable(Header[i + 1]) /\ ~BadValue(Header[i + 1], Value)
  BY <1>2, <1>4, <1>5 DEF Readable, ReadableAt, Value
<1>7. TakeAndGoto("header", i + 1, 0) \/ TakeAndGoto("signers", 0, 0)
  BY <1>6 DEF ReadHeader
<1> QED
  BY <1>1, <1>7 DEF TakeAndGoto, Goto, NotRefused

\* The number of signers is within its limits.
LEMMA SignerCountFits ==
    ASSUME FormatInv, ReadSignerCount, NEW ss, NEW q, NEW n, NEW c, Fits(raw, ss, q, n, c)
    PROVE  NotRefused
<1>1. at = "signers" /\ status = "none"
  BY DEF ReadSignerCount, Reading, FormatInv, ReaderInv
<1>2. off = 5 /\ Len(raw) \in Nat
  BY <1>1 DEF FormatInv, ReaderInv, TypeOK
<1>3. 6 <= Len(raw)
  <2>1. SignersAt(raw, ss, q, n) /\ n \in Nat
    BY CountFits DEF Fits
  <2>2. q[n] \in 6..Len(raw)
    BY <2>1 DEF SignersAt
  <2> QED
    BY <1>2, <2>2
<1>4. raw[5 + 1] = Item("varint", n) /\ n \in MIN_TX_SIGNERS..MAX_TX_SIGNERS
  BY DEF Fits
<1>5. 5 < Len(raw)
  BY <1>2, <1>3
<1>6. Readable("varint") /\ Value = n
  BY <1>2, <1>4, <1>5, CanRead
<1> QED
  BY <1>1, <1>4, <1>6 DEF ReadSignerCount, TakeAndGoto, Goto, NotRefused

\* No step of an attempt refuses bytes that fit.
LEMMA ParseFits ==
    ASSUME FormatInv, Fresh, Parse,
           NEW ss, NEW q, NEW n, NEW c, Fits(raw, ss, q, n, c), attempt = 1 \/ c = 0
    PROVE  NotRefused
BY HeaderNumberFits, SignerCountFits, AccountFits, ScopeFits, ContractCountFits, ContractFits,
   GroupCountFits, GroupFits, AttributeCountFits, AttributeFits, ScriptIsAccepted DEF Parse

\* What an attempt starts from stays as it was until an attribute is stored.
LEMMA ParseFresh ==
    ASSUME FormatInv, Fresh, Parse
    PROVE  Fresh'
<1>1. at # "idle" /\ attempt' = attempt
  BY DEF Parse, ReadHeader, ReadSignerCount, ReadAccount, ReadScope, ReadContractCount,
         ReadContract, ReadGroupCount, ReadGroup, ReadAttributeCount, ReadAttribute, ReadScript,
         Reading
<1>2. tx \in Transaction /\ i \in Nat
  BY DEF FormatInv, ReaderInv, TypeOK
<1>3. attempt # 0
  BY <1>1 DEF Fresh
<1>4. CASE ReadAttribute \/ ReadScript
  <2>1. at' \in {"idle", "script"} \/ (at' = "attribute" /\ i' # 0)
    BY <1>2, <1>4 DEF ReadAttribute, ReadScript, Refuse, TakeAndRefuse, TakeAndGoto, Return, Goto
  <2> QED
    BY <1>1, <1>3, <2>1 DEF Fresh
<1>5. CASE ~(ReadAttribute \/ ReadScript)
  <2>1. tx'.attributes = tx.attributes
    <3>1. CASE ReadHeader
      <4>1. i + 1 \in 1..5
        BY <3>1 DEF ReadHeader, Reading, FormatInv, ReaderInv, TypeOK, Header
      <4>2. PICK f : f = Header[i + 1]
        OBVIOUS
      <4>3. f # "attributes"
        BY <4>1, <4>2 DEF Header
      <4>4. tx' = [tx EXCEPT ![f] = 0] \/ tx' = [tx EXCEPT ![f] = Value]
        BY <3>1, <4>2 DEF ReadHeader
      <4> QED
        BY <1>2, <4>3, <4>4 DEF Transaction
    <3>2. CASE ReadSignerCount
      BY <1>2, <3>2 DEF ReadSignerCount, Transaction
    <3>3. CASE ReadAccount
      BY <1>2, <3>3 DEF ReadAccount, Transaction
    <3>4. CASE ReadScope
      BY <1>2, <3>4 DEF ReadScope, Transaction
    <3>5. CASE ReadContractCount \/ ReadGroupCount
      BY <1>2, <3>5 DEF ReadContractCount, ReadGroupCount, Transaction
    <3>6. CASE ReadContract \/ ReadGroup
      BY <1>2, <3>6 DEF ReadContract, ReadGroup, Transaction
    <3>7. CASE ReadAttributeCount
      BY <1>2, <3>7 DEF ReadAttributeCount, Transaction
    <3> QED
      BY <1>5, <3>1, <3>2, <3>3, <3>4, <3>5, <3>6, <3>7 DEF Parse
  <2>2. at \notin {"idle", "script", "attribute"}
    BY <1>5 DEF Parse, ReadHeader, ReadSignerCount, ReadAccount, ReadScope, ReadContractCount,
         ReadContract, ReadGroupCount, ReadGroup, ReadAttributeCount, Reading
  <2> QED
    BY <1>1, <1>3, <2>1, <2>2 DEF Fresh
<1> QED
  BY <1>4, <1>5
\* What the chunks do with the bytes and the attempts.
LEMMA StepAccept == AcceptInv /\ [Next]_vars => AcceptInv'
<1> SUFFICES ASSUME AcceptInv, [Next]_vars PROVE AcceptInv'
  OBVIOUS
<1>1. FormatInv /\ Fresh /\ FittingIsAccepted /\ FormatInv'
  BY NextFormat DEF AcceptInv
<1>2. CASE Parse
  <2>1. Fresh' /\ raw' = raw /\ attempt' = attempt
    BY <1>1, <1>2, ParseFresh DEF Parse, ReadHeader, ReadSignerCount, ReadAccount, ReadScope,
       ReadContractCount, ReadContract, ReadGroupCount, ReadGroup, ReadAttributeCount,
       ReadAttribute, ReadScript, Reading
  <2>2. ASSUME NEW ss, NEW q, NEW n, NEW c, Fits(raw, ss, q, n, c), attempt = 1 \/ c = 0,
               status' # "none"
        PROVE  status' = "PARSING_OK"
    BY <1>1, <1>2, <2>2, ParseFits DEF NotRefused
  <2> QED
    BY <1>1, <2>1, <2>2 DEF AcceptInv, FittingIsAccepted, Accepted
<1>3. CASE \E n \in 1..Len(stream) : MoreChunk(n) \/ LastChunk(n)
  <2>1. status' = "none" /\ at = "idle"
    BY <1>3 DEF MoreChunk, LastChunk, Append_raw
  <2>2. \/ at' = "idle" /\ UNCHANGED <<tx, attempt>>
        \/ at' = "header" /\ attempt' = attempt + 1 /\ UNCHANGED tx
    BY <1>3 DEF MoreChunk, LastChunk, Append_raw
  <2>3. attempt \in Nat
    BY <1>1 DEF Fresh
  <2>4. CASE at' = "idle" /\ UNCHANGED <<tx, attempt>>
    <3>1. Fresh'
      BY <1>1, <2>1, <2>4 DEF Fresh
    <3> QED
      BY <1>1, <2>1, <3>1 DEF AcceptInv, FittingIsAccepted
  <2>5. CASE at' = "header" /\ attempt' = attempt + 1 /\ UNCHANGED tx
    <3>1. attempt' \in Nat /\ attempt' # 0 /\ (attempt' = 1 => attempt = 0)
      BY <2>3, <2>5
    <3>2. Fresh'
      BY <1>1, <2>5, <3>1 DEF Fresh
    <3> QED
      BY <1>1, <2>1, <3>2 DEF AcceptInv, FittingIsAccepted
  <2> QED
    BY <2>2, <2>4, <2>5
<1>4. CASE Restart
  <2>1. status' = "none" /\ attempt' = 0 /\ tx' = ZeroTransaction /\ at' = "idle"
    BY <1>4 DEF Restart
  <2>2. Fresh'
    BY <2>1 DEF Fresh, ZeroTransaction
  <2> QED
    BY <1>1, <2>1, <2>2 DEF AcceptInv, FittingIsAccepted
<1>5. CASE UNCHANGED vars
  BY <1>1, <1>5 DEF vars, AcceptInv, Fresh, FittingIsAccepted, Accepted
<1> QED
  BY <1>2, <1>3, <1>4, <1>5 DEF Next

\* It holds always.
LEMMA AcceptInvariant == Spec => []AcceptInv
<1>1. Init => AcceptInv
  <2> SUFFICES ASSUME Init PROVE AcceptInv
    OBVIOUS
  <2>1. FormatInv
    BY InitFormat
  <2>2. Fresh
    BY DEF Init, Fresh, ZeroTransaction
  <2>3. FittingIsAccepted
    BY DEF Init, FittingIsAccepted
  <2> QED
    BY <2>1, <2>2, <2>3 DEF AcceptInv
<1> QED
  BY <1>1, StepAccept, PTL DEF Spec

-----------------------------------------------------------------------------
(* A transaction of a wallet is written as bytes that fit. *)

\* What the structure holds of a list and of the signers of a wallet when they were read.
AsArray(l) == [k \in 0..(MAX_SIGNER_SUB_ITEMS - 1) |-> IF k < Len(l) THEN l[k + 1] ELSE Unset]
AsSigner(s) ==
    [account |-> s.account, scope |-> s.scope,
     allowed_contracts |-> AsArray(s.contracts), allowed_contracts_size |-> Len(s.contracts),
     allowed_groups |-> AsArray(s.groups), allowed_groups_size |-> Len(s.groups)]
AsSigners(l) ==
    [k \in 0..(MAX_TX_SIGNERS - 1) |-> IF k < Len(l) THEN AsSigner(l[k + 1]) ELSE ZeroSigner]

\* What may be in an item.
LEMMA ItemTypes ==
    /\ \A v \in Nat : Item("varint", v) \in Items
    /\ \A v \in Hash160 : Item("hash", v) \in Items
    /\ \A v \in SUBSET Scopes : Item("scope", v) \in Items
    /\ \A v \in Keys : Item("key", v) \in Items
    /\ \A v \in {"HIGH_PRIORITY", "OTHER"} : Item("attribute", v) \in Items
    /\ \A v \in Seq(Instructions) : Item("script", v) \in Items
    /\ \A v \in Nat : Item("version", v) \in Items /\ Item("nonce", v) \in Items
                      /\ Item("valid_until_block", v) \in Items
    /\ \A v \in Int : Item("system_fee", v) \in Items /\ Item("network_fee", v) \in Items
BY DEF Item, Items

\* A list is written as its length and its elements.
LEMMA WriteListIs ==
    ASSUME NEW S, NEW l \in Seq(S), NEW is, \A x \in S : Item(is, x) \in Items
    PROVE  /\ WriteList(is, l) \in Seq(Items) /\ Len(WriteList(is, l)) = 1 + Len(l)
           /\ WriteList(is, l)[1] = Item("varint", Len(l))
           /\ \A k \in 1..Len(l) : WriteList(is, l)[1 + k] = Item(is, l[k])
<1>1. PICK n \in Nat : n = Len(l)
  OBVIOUS
<1>2. PICK u : u = <<Item("varint", n)>>
  OBVIOUS
<1>3. PICK v : v = [k \in 1..n |-> Item(is, l[k])]
  OBVIOUS
<1>4. u \in Seq(Items) /\ Len(u) = 1 /\ u[1] = Item("varint", n)
  <2>1. Item("varint", n) \in Items
    BY ItemTypes
  <2> QED
    BY <1>2, <2>1
<1>5. v \in Seq(Items) /\ Len(v) = n /\ \A k \in 1..n : v[k] = Item(is, l[k])
  <2>1. \A k \in 1..n : Item(is, l[k]) \in Items
    BY <1>1
  <2> QED
    BY <1>3, <2>1
<1>6. PICK w : w = WriteList(is, l)
  OBVIOUS
<1>7. IsConcat(w, u, v)
  BY <1>1, <1>2, <1>3, <1>6 DEF IsConcat, WriteList
<1>8. /\ w \in Seq(Items) /\ Len(w) = Len(u) + Len(v)
      /\ \A k \in 1..Len(u) : w[k] = u[k]
      /\ \A k \in 1..Len(v) : w[Len(u) + k] = v[k]
  <2>1. u \in Seq(Items) /\ v \in Seq(Items)
    BY <1>4, <1>5
  <2> QED
    BY <1>7, <2>1, ConcatIs
<1>9. w[1] = Item("varint", n)
  BY <1>4, <1>8
<1> QED
  BY <1>1, <1>4, <1>5, <1>6, <1>8, <1>9

\* Where it is written there is one.
LEMMA ListPlaced ==
    ASSUME NEW S, NEW l \in Seq(S), NEW is, \A x \in S : Item(is, x) \in Items,
           NEW array, \A k \in 0..(Len(l) - 1) : array[k] = l[k + 1],
           NEW r, NEW o \in Nat, PlacedAt(r, WriteList(is, l), o), NEW n, n = Len(l)
    PROVE  ListAt(r, is, array, n, n, o)
<1>1. PICK w : w = WriteList(is, l)
  OBVIOUS
<1>2. /\ w \in Seq(Items) /\ Len(w) = 1 + n /\ n \in Nat
      /\ w[1] = Item("varint", n)
      /\ \A k \in 1..n : w[1 + k] = Item(is, l[k])
  BY <1>1, WriteListIs
<1>3. \A k \in 1..(1 + n) : r[o + k] = w[k]
  BY <1>1, <1>2 DEF PlacedAt
<1>4. r[o + 1] = Item("varint", n)
  BY <1>2, <1>3
<1>5. ASSUME NEW k \in 0..(n - 1) PROVE r[o + 2 + k] = Item(is, array[k])
  <2>1. PICK m \in Nat : m = k + 1
    OBVIOUS
  <2>2. m \in 1..n /\ 1 + m \in 1..(1 + n) /\ o + (1 + m) = o + 2 + k
    BY <1>2, <2>1
  <2>3. r[o + (1 + m)] = w[1 + m]
    BY <1>3, <2>2
  <2>4. array[k] = l[m]
    BY <2>1
  <2> QED
    BY <1>2, <2>2, <2>3, <2>4
<1> QED
  BY <1>4, <1>5 DEF ListAt

\* What is read of a list is what the list holds.
LEMMA ArrayIs ==
    ASSUME NEW S, NEW l \in Seq(S), Len(l) <= MAX_SIGNER_SUB_ITEMS
    PROVE  /\ AsArray(l) \in [0..(MAX_SIGNER_SUB_ITEMS - 1) -> S \cup {Unset}]
           /\ \A k \in 0..(Len(l) - 1) : AsArray(l)[k] = l[k + 1]
           /\ Len(l) \in 0..MAX_SIGNER_SUB_ITEMS
<1>1. MAX_SIGNER_SUB_ITEMS \in Nat /\ Len(l) \in Nat
  BY LimitsAssumption
<1>2. ASSUME NEW k \in 0..(Len(l) - 1)
      PROVE  k < Len(l) /\ k \in 0..(MAX_SIGNER_SUB_ITEMS - 1)
  BY <1>1
<1>3. ASSUME NEW k \in 0..(MAX_SIGNER_SUB_ITEMS - 1)
      PROVE  (IF k < Len(l) THEN l[k + 1] ELSE Unset) \in S \cup {Unset}
  <2>1. k < Len(l) => k + 1 \in 1..Len(l)
    BY <1>1
  <2> QED
    BY <2>1
<1> QED
  BY <1>1, <1>2, <1>3 DEF AsArray

\* A wallet's signer is one of the structure.
LEMMA AsSignerType ==
    ASSUME NEW s \in WalletSigners, SupportedSigner(s)
    PROVE  AsSigner(s) \in Signers
<1>1. /\ s.account \in Hash160 /\ s.scope \in SUBSET Scopes
      /\ s.contracts \in Seq(Hash160) /\ s.groups \in Seq(Keys)
  BY DEF WalletSigners
<1>2. /\ AsArray(s.contracts) \in [0..(MAX_SIGNER_SUB_ITEMS - 1) -> Hash160 \cup {Unset}]
      /\ Len(s.contracts) \in 0..MAX_SIGNER_SUB_ITEMS
  BY <1>1, ArrayIs DEF SupportedSigner
<1>3. /\ AsArray(s.groups) \in [0..(MAX_SIGNER_SUB_ITEMS - 1) -> Keys \cup {Unset}]
      /\ Len(s.groups) \in 0..MAX_SIGNER_SUB_ITEMS
  BY <1>1, ArrayIs DEF SupportedSigner
<1> QED
  BY <1>1, <1>2, <1>3 DEF AsSigner, Signers

\* Where a signer is written there is one, and it ends where its writing does.
LEMMA SignerPlaced ==
    ASSUME NEW s \in WalletSigners, SupportedSigner(s)
    PROVE  /\ WriteSigner(s) \in Seq(Items)
           /\ \A r : \A o \in Nat :
                 PlacedAt(r, WriteSigner(s), o) =>
                     SignerAt(r, AsSigner(s), o)
                     /\ SignerEnd(AsSigner(s), o) = o + Len(WriteSigner(s))
<1>1. /\ s.account \in Hash160 /\ s.scope \in SUBSET Scopes
      /\ s.contracts \in Seq(Hash160) /\ s.groups \in Seq(Keys)
  BY DEF WalletSigners
<1>2. PICK m \in Nat : m = Len(s.contracts)
  BY <1>1
<1>3. PICK n \in Nat : n = Len(s.groups)
  BY <1>1
<1>4. PICK u : u = <<Item("hash", s.account), Item("scope", s.scope)>>
  OBVIOUS
<1>5. PICK v : v = IF "CUSTOM_CONTRACTS" \in s.scope \/ s.contracts # <<>>
                   THEN WriteList("hash", s.contracts) ELSE <<>>
  OBVIOUS
<1>6. PICK w : w = IF "CUSTOM_GROUPS" \in s.scope \/ s.groups # <<>>
                   THEN WriteList("key", s.groups) ELSE <<>>
  OBVIOUS
<1>7. u \in Seq(Items) /\ Len(u) = 2 /\ u[1] = Item("hash", s.account) /\ u[2] = Item("scope", s.scope)
  <2>1. Item("hash", s.account) \in Items /\ Item("scope", s.scope) \in Items
    BY <1>1, ItemTypes
  <2> QED
    BY <1>4, <2>1
<1>8. v \in Seq(Items) /\ Len(v) = IF "CUSTOM_CONTRACTS" \in s.scope THEN 1 + m ELSE 0
  <2>1. CASE "CUSTOM_CONTRACTS" \in s.scope
    <3>1. v = WriteList("hash", s.contracts)
      BY <1>5, <2>1
    <3>2. \A x \in Hash160 : Item("hash", x) \in Items
      BY ItemTypes
    <3>3. v \in Seq(Items) /\ Len(v) = 1 + Len(s.contracts)
      BY <1>1, <3>1, <3>2, WriteListIs
    <3> QED
      BY <1>2, <2>1, <3>3
  <2>2. CASE "CUSTOM_CONTRACTS" \notin s.scope
    <3>1. v = <<>>
      BY <1>5, <2>2 DEF SupportedSigner
    <3> QED
      BY <2>2, <3>1
  <2> QED
    BY <2>1, <2>2
<1>9. w \in Seq(Items) /\ Len(w) = IF "CUSTOM_GROUPS" \in s.scope THEN 1 + n ELSE 0
  <2>1. CASE "CUSTOM_GROUPS" \in s.scope
    <3>1. w = WriteList("key", s.groups)
      BY <1>6, <2>1
    <3>2. \A x \in Keys : Item("key", x) \in Items
      BY ItemTypes
    <3>3. w \in Seq(Items) /\ Len(w) = 1 + Len(s.groups)
      BY <1>1, <3>1, <3>2, WriteListIs
    <3> QED
      BY <1>3, <2>1, <3>3
  <2>2. CASE "CUSTOM_GROUPS" \notin s.scope
    <3>1. w = <<>>
      BY <1>6, <2>2 DEF SupportedSigner
    <3> QED
      BY <2>2, <3>1
  <2> QED
    BY <2>1, <2>2
<1>10. PICK x : IsConcat(x, u, v)
  BY DEF IsConcat
<1>11. PICK y : y = WriteSigner(s)
  OBVIOUS
<1>12. IsConcat(y, x, w)
  BY <1>4, <1>5, <1>6, <1>10, <1>11, Zenon DEF IsConcat, WriteSigner
<1>13. x \in Seq(Items) /\ Len(x) = Len(u) + Len(v)
  <2>1. u \in Seq(Items) /\ v \in Seq(Items)
    BY <1>7, <1>8
  <2> QED
    BY <1>10, <2>1, ConcatIs
<1>14. y \in Seq(Items) /\ Len(y) = Len(x) + Len(w)
  BY <1>9, <1>12, <1>13, ConcatIs
<1>15. PICK a : a = AsSigner(s)
  OBVIOUS
<1>16. /\ a.account = s.account /\ a.scope = s.scope
       /\ a.allowed_contracts_size = m /\ a.allowed_groups_size = n
       /\ a.allowed_contracts = AsArray(s.contracts) /\ a.allowed_groups = AsArray(s.groups)
  BY <1>2, <1>3, <1>15 DEF AsSigner
<1>17. ASSUME NEW r, NEW o \in Nat, PlacedAt(r, y, o)
       PROVE  SignerAt(r, a, o) /\ SignerEnd(a, o) = o + Len(y)
  <2>1. PlacedAt(r, x, o) /\ PlacedAt(r, w, o + Len(x))
    BY <1>9, <1>12, <1>13, <1>17, PlacedParts
  <2>2. PlacedAt(r, u, o) /\ PlacedAt(r, v, o + Len(u))
    BY <1>7, <1>8, <1>10, <2>1, PlacedParts
  <2>3. PICK b \in Nat : b = o + 2
    OBVIOUS
  <2>4. PICK e : e = ContractsEnd(a, o)
    OBVIOUS
  <2>5. e \in Nat /\ e = o + Len(x) /\ b = o + Len(u)
    <3>1. Len(u) = 2 /\ Len(x) = Len(u) + Len(v)
      BY <1>7, <1>13
    <3>2. e = IF "CUSTOM_CONTRACTS" \in s.scope THEN o + 3 + m ELSE o + 2
      BY <1>16, <2>4, Zenon DEF ContractsEnd
    <3>3. CASE "CUSTOM_CONTRACTS" \in s.scope
      <4>1. e = o + 3 + m /\ Len(v) = 1 + m
        BY <1>8, <3>2, <3>3
      <4> QED
        BY <2>3, <3>1, <4>1
    <3>4. CASE "CUSTOM_CONTRACTS" \notin s.scope
      <4>1. e = o + 2 /\ Len(v) = 0
        BY <1>8, <3>2, <3>4
      <4> QED
        BY <2>3, <3>1, <4>1
    <3> QED
      BY <3>3, <3>4
  <2>6. SignerEnd(a, o) = o + Len(y)
    <3>1. SignerEnd(a, o) = e + Len(w)
      BY <1>9, <1>16, <2>4, <2>5 DEF SignerEnd
    <3> QED
      BY <1>9, <1>13, <1>14, <2>5, <3>1
  <2>7. r[o + 1] = Item("hash", a.account) /\ r[o + 2] = Item("scope", a.scope)
    BY <1>7, <1>16, <2>2 DEF PlacedAt
  <2>8. ContractsAt(r, a, o)
    <3> SUFFICES ASSUME "CUSTOM_CONTRACTS" \in s.scope
                 PROVE  ListAt(r, "hash", a.allowed_contracts, m, m, b)
      BY <1>16, <2>3 DEF ContractsAt
    <3>1. PlacedAt(r, WriteList("hash", s.contracts), b)
      BY <1>5, <2>2, <2>5
    <3>2. \A h \in Hash160 : Item("hash", h) \in Items
      BY ItemTypes
    <3>3. \A k \in 0..(Len(s.contracts) - 1) : a.allowed_contracts[k] = s.contracts[k + 1]
      BY <1>1, <1>16, ArrayIs DEF SupportedSigner
    <3> QED
      BY <1>1, <1>2, <3>1, <3>2, <3>3, ListPlaced
  <2>9. GroupsAt(r, a, o)
    <3> SUFFICES ASSUME "CUSTOM_GROUPS" \in s.scope
                 PROVE  ListAt(r, "key", a.allowed_groups, n, n, e)
      BY <1>16, <2>4 DEF GroupsAt
    <3>1. PlacedAt(r, WriteList("key", s.groups), e)
      BY <1>6, <2>1, <2>5
    <3>2. \A h \in Keys : Item("key", h) \in Items
      BY ItemTypes
    <3>3. \A k \in 0..(Len(s.groups) - 1) : a.allowed_groups[k] = s.groups[k + 1]
      BY <1>1, <1>16, ArrayIs DEF SupportedSigner
    <3> QED
      BY <1>1, <1>3, <2>5, <3>1, <3>2, <3>3, ListPlaced
  <2> QED
    BY <2>6, <2>7, <2>8, <2>9 DEF SignerAt
<1> QED
  BY <1>11, <1>14, <1>15, <1>17

\* f is how the n signers l are written.
IsWrittenSigners(f, l, n) ==
    /\ n = Len(l) /\ n <= MAX_TX_SIGNERS
    /\ \A k \in 1..n : SupportedSigner(l[k])
    /\ f = FlattenSeq([k \in 1..n |-> WriteSigner(l[k])])

\* The signers, one behind the other.
LEMMA SignersPlaced ==
    ASSUME NEW l \in Seq(WalletSigners), NEW n \in Nat \ {0}, NEW f, IsWrittenSigners(f, l, n)
    PROVE  /\ f \in Seq(Items)
           /\ AsSigners(l) \in [0..(MAX_TX_SIGNERS - 1) -> Signers]
           /\ \A r : PlacedAt(r, f, 6) /\ Len(r) \in Nat /\ 6 + Len(f) <= Len(r) =>
                 \E q : SignersAt(r, AsSigners(l), q, n) /\ q[n] = 6 + Len(f)
<1>0. /\ n = Len(l) /\ n <= MAX_TX_SIGNERS
      /\ \A k \in 1..n : SupportedSigner(l[k])
      /\ f = FlattenSeq([k \in 1..n |-> WriteSigner(l[k])])
  BY DEF IsWrittenSigners
<1>1. PICK ws : ws = [k \in 1..n |-> WriteSigner(l[k])]
  OBVIOUS
<1>2. \A k \in 1..n : l[k] \in WalletSigners /\ SupportedSigner(l[k])
  BY <1>0
<1>3. Len(ws) = n /\ \A k \in 1..n : ws[k] = WriteSigner(l[k])
  BY <1>1
<1>4. \A k \in 1..n : ws[k] \in Seq(Items)
  BY <1>2, <1>3, SignerPlaced
<1>5. PICK p : p[0] = 0 /\ p[n] = Len(f) /\ FlatPlaces(f, ws, p, n)
  BY <1>0, <1>1, <1>3, <1>4, FlattenPlaces
<1>6. f \in Seq(Items)
  BY <1>0, <1>1, <1>3, <1>4, FlattenPlaces
<1>7. PICK ss : ss = AsSigners(l)
  OBVIOUS
<1>8. MAX_TX_SIGNERS \in Nat
  BY LimitsAssumption
<1>9. \A k \in 0..(n - 1) : k \in 0..(MAX_TX_SIGNERS - 1) /\ k < n /\ k + 1 \in 1..n
  BY <1>0, <1>8
<1>10. \A k \in 0..(n - 1) : ss[k] = AsSigner(l[k + 1])
  BY <1>0, <1>7, <1>9 DEF AsSigners
<1>11. ss \in [0..(MAX_TX_SIGNERS - 1) -> Signers]
  <2>1. ASSUME NEW k \in 0..(MAX_TX_SIGNERS - 1)
        PROVE  (IF k < Len(l) THEN AsSigner(l[k + 1]) ELSE ZeroSigner) \in Signers
    <3>1. CASE k < Len(l)
      <4>1. k + 1 \in 1..n
        BY <1>0, <1>8, <3>1
      <4> QED
        BY <1>2, <3>1, <4>1, AsSignerType
    <3>2. CASE ~(k < Len(l))
      <4>1. ZeroSigner \in Signers
        BY LimitsAssumption DEF ZeroSigner, Signers
      <4> QED
        BY <3>2, <4>1
    <3> QED
      BY <3>1, <3>2
  <2> QED
    BY <1>7, <2>1 DEF AsSigners
<1>12. ASSUME NEW r, PlacedAt(r, f, 6), Len(r) \in Nat, 6 + Len(f) <= Len(r)
       PROVE  \E q : SignersAt(r, ss, q, n) /\ q[n] = 6 + Len(f)
  <2>1. PICK q : q = [k \in 0..n |-> 6 + p[k]]
    OBVIOUS
  <2>2. Len(f) \in Nat
    BY <1>6
  <2>3. \A k \in 1..n : /\ p[k - 1] \in Nat /\ p[k] = p[k - 1] + Len(ws[k]) /\ p[k] <= Len(f)
                         /\ PlacedAt(f, ws[k], p[k - 1]) /\ Len(ws[k]) \in Nat
    BY <1>4, <1>5 DEF FlatPlaces
  <2>4. \A k \in 0..n : p[k] \in Nat /\ p[k] <= Len(f)
    <3>1. ASSUME NEW k \in 0..n PROVE p[k] \in Nat /\ p[k] <= Len(f)
      <4>1. CASE k = 0
        BY <1>5, <2>2, <4>1
      <4>2. CASE k # 0
        <5>1. k \in 1..n
          BY <4>2
        <5>2. p[k - 1] \in Nat /\ p[k] = p[k - 1] + Len(ws[k]) /\ p[k] <= Len(f) /\ Len(ws[k]) \in Nat
          BY <2>3, <5>1
        <5>3. PICK u \in Nat : u = p[k - 1]
          BY <5>2
        <5>4. PICK v \in Nat : v = Len(ws[k])
          BY <5>2
        <5>5. u + v \in Nat
          OBVIOUS
        <5>6. p[k] = u + v
          BY <5>2, <5>3, <5>4
        <5> QED
          BY <5>2, <5>5, <5>6
      <4> QED
        BY <4>1, <4>2
    <3> QED
      BY <3>1
  <2>5. q \in [0..n -> 6..Len(r)] /\ q[0] = 6 /\ q[n] = 6 + Len(f)
    <3>1. ASSUME NEW k \in 0..n PROVE 6 + p[k] \in 6..Len(r)
      BY <1>12, <2>2, <2>4
    <3>2. 0 \in 0..n /\ n \in 0..n
      OBVIOUS
    <3> QED
      BY <1>5, <2>1, <3>1, <3>2
  <2>6. ASSUME NEW k \in 0..(n - 1)
        PROVE  SignerAt(r, ss[k], q[k]) /\ q[k + 1] = SignerEnd(ss[k], q[k])
    <3>1. PICK m \in 1..n : m = k + 1
      OBVIOUS
    <3>2. m - 1 = k /\ k \in 0..n /\ m \in 0..n
      BY <3>1
    <3>3. PICK o \in Nat : o = p[k]
      BY <2>4, <3>2
    <3>4. PICK w : w = ws[m]
      OBVIOUS
    <3>5. o + Len(w) <= Len(f) /\ PlacedAt(f, w, o) /\ p[m] = o + Len(w) /\ Len(w) \in Nat
      BY <2>3, <3>2, <3>3, <3>4
    <3>6. PICK e \in Nat : e = 6 + o
      OBVIOUS
    <3>7. PlacedAt(r, w, e)
      <4>1. ASSUME NEW x \in 1..Len(w) PROVE r[e + x] = w[x]
        <5>1. o + x \in 1..Len(f) /\ 6 + (o + x) = e + x
          BY <2>2, <3>5, <3>6
        <5>2. r[6 + (o + x)] = f[o + x]
          BY <1>12, <5>1 DEF PlacedAt
        <5>3. f[o + x] = w[x]
          BY <3>5 DEF PlacedAt
        <5> QED
          BY <5>1, <5>2, <5>3
      <4> QED
        BY <4>1 DEF PlacedAt
    <3>8. PICK s : s = l[m]
      OBVIOUS
    <3>9. s \in WalletSigners /\ SupportedSigner(s) /\ w = WriteSigner(s) /\ ss[k] = AsSigner(s)
      BY <1>2, <1>3, <1>10, <3>1, <3>4, <3>8
    <3>10. SignerAt(r, AsSigner(s), e) /\ SignerEnd(AsSigner(s), e) = e + Len(w)
      BY <3>7, <3>9, SignerPlaced
    <3>11. q[k] = e /\ q[m] = e + Len(w)
      <4>1. q[k] = 6 + p[k] /\ q[m] = 6 + p[m]
        BY <2>1, <3>2
      <4>2. PICK x \in Nat : x = Len(w)
        BY <3>5
      <4>3. p[k] = o /\ p[m] = o + x
        BY <3>3, <3>5, <4>2
      <4>4. 6 + (o + x) = e + x
        BY <3>6
      <4> QED
        BY <3>6, <4>1, <4>2, <4>3, <4>4
    <3> QED
      BY <3>1, <3>9, <3>10, <3>11
  <2> QED
    BY <2>5, <2>6 DEF SignersAt
<1> QED
  BY <1>6, <1>7, <1>11, <1>12

\* A supported transaction is six sequences after one another.
LEMMA WriteSix ==
    ASSUME NEW t \in WalletTransactions, Supported(t), NEW n, n = Len(t.signers),
           NEW r, r = Write(t)
    PROVE  IsSix(r, [k \in 1..Len(Header) |-> Item(Header[k], t[Header[k]])],
                 <<Item("varint", n)>>,
                 FlattenSeq([k \in 1..n |-> WriteSigner(t.signers[k])]),
                 WriteList("attribute", t.attributes),
                 <<Item("varint", Len(t.script))>>, <<Item("script", t.script)>>)
<1>1. t.script # <<>>
  <2>1. Len(t.script) # 0
    <3>1. LongestScript \in Nat
      BY DEF LongestScript
    <3> QED
      BY <3>1 DEF Supported
  <2> QED
    BY <2>1
<1> QED
  BY <1>1, Zenon DEF IsSix, Write

\* A supported transaction is written as bytes that fit.
LEMMA SupportedFits ==
    ASSUME NEW t \in WalletTransactions, Supported(t), NEW r, r = Write(t)
    PROVE  \E ss, q : Fits(r, ss, q, Len(t.signers), Len(t.attributes))
<1>1. /\ t.version = 0 /\ t.nonce \in Nat /\ t.valid_until_block \in Nat
      /\ t.system_fee \in Int /\ t.network_fee \in Int
      /\ t.system_fee >= 0 /\ t.network_fee >= 0
      /\ t.signers \in Seq(WalletSigners) /\ t.script \in Seq(Instructions)
  BY DEF WalletTransactions, Supported
<1>2. PICK l : l = t.signers
  OBVIOUS
<1>3. PICK n \in Nat \ {0} : n = Len(l) /\ n \in MIN_TX_SIGNERS..MAX_TX_SIGNERS /\ n <= MAX_TX_SIGNERS
  BY <1>2, LimitsAssumption DEF Supported
<1>4. \A k \in 1..n : l[k] \in WalletSigners /\ SupportedSigner(l[k])
  <2>1. l \in Seq(WalletSigners)
    BY <1>1, <1>2
  <2>2. \A k \in 1..n : l[k] \in ToSet(l)
    BY <1>3, <2>1 DEF ToSet
  <2> QED
    BY <1>2, <1>3, <2>1, <2>2 DEF Supported
<1>5. \A k, m \in 1..n : k # m => l[k].account # l[m].account
  <2>1. IsInjective([k \in 1..n |-> l[k].account])
    BY <1>2, <1>3 DEF Supported
  <2> QED
    BY <2>1 DEF IsInjective
<1>6. PICK c : c = Len(t.attributes)
  OBVIOUS
<1>7. /\ c \in {0, 1} /\ c \in Nat /\ c <= MAX_ATTRIBUTES
      /\ t.attributes \in Seq({"HIGH_PRIORITY", "OTHER"})
      /\ c = 1 => t.attributes[1] = "HIGH_PRIORITY"
  BY <1>6 DEF Supported, WalletTransactions
<1>8. PICK x : x = t.script
  OBVIOUS
<1>9. x \in Seq(Instructions) /\ Len(x) \in 1..LongestScript /\ Len(x) \in Nat
  BY <1>1, <1>8 DEF Supported
<1>10. PICK h : h = [k \in 1..Len(Header) |-> Item(Header[k], t[Header[k]])]
  OBVIOUS
<1>11. PICK u : u = <<Item("varint", n)>>
  OBVIOUS
<1>12. PICK f : f = FlattenSeq([k \in 1..n |-> WriteSigner(l[k])])
  OBVIOUS
<1>13. PICK a : a = WriteList("attribute", t.attributes)
  OBVIOUS
<1>14. PICK y : y = <<Item("varint", Len(x))>>
  OBVIOUS
<1>15. PICK z : z = <<Item("script", x)>>
  OBVIOUS
<1>16. IsSix(r, h, u, f, a, y, z)
  BY <1>2, <1>3, <1>8, <1>10, <1>11, <1>12, <1>13, <1>14, <1>15, WriteSix
<1>17. h \in Seq(Items) /\ Len(h) = 5 /\ \A k \in 1..5 : h[k] = Item(Header[k], t[Header[k]])
  <2>1. ASSUME NEW k \in 1..5 PROVE Item(Header[k], t[Header[k]]) \in Items
    BY <1>1, ItemTypes DEF Header
  <2>2. Len(Header) = 5
    BY DEF Header
  <2>3. h = [k \in 1..5 |-> Item(Header[k], t[Header[k]])]
    BY <1>10, <2>2
  <2> QED
    BY <2>1, <2>3
<1>18. u \in Seq(Items) /\ Len(u) = 1 /\ u[1] = Item("varint", n)
  <2>1. Item("varint", n) \in Items
    BY ItemTypes
  <2> QED
    BY <1>11, <2>1
<1>19. /\ f \in Seq(Items)
       /\ AsSigners(l) \in [0..(MAX_TX_SIGNERS - 1) -> Signers]
       /\ PlacedAt(r, f, 6) /\ Len(r) \in Nat /\ 6 + Len(f) <= Len(r) =>
              \E q : SignersAt(r, AsSigners(l), q, n) /\ q[n] = 6 + Len(f)
  <2>1. l \in Seq(WalletSigners) /\ \A k \in 1..n : SupportedSigner(l[k])
    BY <1>1, <1>2, <1>4
  <2>2. IsWrittenSigners(f, l, n)
    BY <1>3, <1>12, <2>1 DEF IsWrittenSigners
  <2>3. /\ f \in Seq(Items)
        /\ AsSigners(l) \in [0..(MAX_TX_SIGNERS - 1) -> Signers]
        /\ \A w : PlacedAt(w, f, 6) /\ Len(w) \in Nat /\ 6 + Len(f) <= Len(w) =>
              \E q : SignersAt(w, AsSigners(l), q, n) /\ q[n] = 6 + Len(f)
    BY <2>1, <2>2, SignersPlaced
  <2> QED
    BY <2>3
<1>20. /\ a \in Seq(Items) /\ Len(a) = 1 + c /\ a[1] = Item("varint", c)
       /\ \A k \in 1..c : a[1 + k] = Item("attribute", t.attributes[k])
  <2>1. \A v \in {"HIGH_PRIORITY", "OTHER"} : Item("attribute", v) \in Items
    BY ItemTypes
  <2> QED
    BY <1>6, <1>7, <1>13, <2>1, WriteListIs
<1>21. y \in Seq(Items) /\ Len(y) = 1 /\ y[1] = Item("varint", Len(x))
  <2>1. Item("varint", Len(x)) \in Items
    BY <1>9, ItemTypes
  <2> QED
    BY <1>14, <2>1
<1>22. z \in Seq(Items) /\ Len(z) = 1 /\ z[1] = Item("script", x)
  <2>1. Item("script", x) \in Items
    BY <1>9, ItemTypes
  <2> QED
    BY <1>15, <2>1
<1>23. PICK o \in Nat : o = 6 + Len(f)
  BY <1>19
<1>24. PICK e \in Nat : e = o + 1 + c
  BY <1>7
<1>25. PICK g \in Nat : g = e + 1
  OBVIOUS
<1>26. /\ PlacedAt(r, h, 0) /\ PlacedAt(r, u, 5) /\ PlacedAt(r, f, 6) /\ PlacedAt(r, a, o)
       /\ PlacedAt(r, y, e) /\ PlacedAt(r, z, g) /\ Len(r) = g + 1
  <2>1. h \in Seq(Items) /\ u \in Seq(Items) /\ f \in Seq(Items) /\ a \in Seq(Items)
        /\ y \in Seq(Items) /\ z \in Seq(Items)
    BY <1>17, <1>18, <1>19, <1>20, <1>21, <1>22
  <2>2. PICK five \in Nat : five = 5
    OBVIOUS
  <2>3. PICK six \in Nat : six = 6
    OBVIOUS
  <2>4. /\ five = Len(h) /\ six = five + Len(u) /\ o = six + Len(f) /\ e = o + Len(a)
        /\ g = e + Len(y) /\ five \in Nat /\ six \in Nat /\ o \in Nat /\ e \in Nat /\ g \in Nat
    BY <1>7, <1>17, <1>18, <1>20, <1>21, <1>23, <1>24, <1>25, <2>2, <2>3
  <2>5. SixOf(Items, r, h, u, f, a, y, z, five, six, o, e, g)
    BY <1>16, <2>1, <2>4 DEF SixOf
  <2>6. /\ Len(r) = g + Len(z)
        /\ PlacedAt(r, h, 0) /\ PlacedAt(r, u, five) /\ PlacedAt(r, f, six)
        /\ PlacedAt(r, a, o) /\ PlacedAt(r, y, e) /\ PlacedAt(r, z, g)
    BY <2>5, SixPlaces
  <2> QED
    BY <1>22, <2>2, <2>3, <2>6
<1>27. PICK ss : ss = AsSigners(l)
  OBVIOUS
<1>28. PICK q : SignersAt(r, ss, q, n) /\ q[n] = o
  <2>1. Len(r) \in Nat /\ 6 + Len(f) <= Len(r)
    BY <1>7, <1>23, <1>24, <1>25, <1>26
  <2> QED
    BY <1>19, <1>23, <1>26, <1>27, <2>1
<1>29. HeaderFits(r)
  <2>1. ASSUME NEW k \in 1..5 PROVE r[k] = Item(Header[k], t[Header[k]])
    <3>1. r[0 + k] = h[k]
      BY <1>17, <1>26 DEF PlacedAt
    <3>2. 0 + k = k
      OBVIOUS
    <3> QED
      BY <1>17, <3>1, <3>2
  <2>2. ASSUME NEW k \in 1..5 PROVE ~BadValue(Header[k], t[Header[k]])
    BY <1>1 DEF BadValue, Header
  <2> QED
    BY <2>1, <2>2 DEF HeaderFits, Item
<1>30. r[6] = Item("varint", n)
  <2>1. 1 \in 1..Len(u) /\ 5 + 1 = 6
    BY <1>18
  <2>2. r[5 + 1] = u[1]
    BY <1>26, <2>1 DEF PlacedAt
  <2> QED
    BY <1>18, <2>1, <2>2
<1>31. SignersFit(ss, n)
  <2>1. ASSUME NEW k \in 0..(n - 1)
        PROVE  k + 1 \in 1..n /\ ss[k].account = l[k + 1].account /\ ss[k].scope = l[k + 1].scope
    <3>1. k \in 0..(MAX_TX_SIGNERS - 1) /\ k < Len(l) /\ k + 1 \in 1..n
      BY <1>3, LimitsAssumption
    <3>2. ss[k] = AsSigner(l[k + 1])
      BY <1>27, <3>1 DEF AsSigners
    <3> QED
      BY <3>1, <3>2 DEF AsSigner
  <2>2. \A k, m \in 0..(n - 1) : k # m => k + 1 # m + 1
    OBVIOUS
  <2>3. ASSUME NEW k \in 0..(n - 1), NEW m \in 0..(n - 1), k # m
        PROVE  ss[k].account # ss[m].account
    <3>1. k + 1 # m + 1 /\ k + 1 \in 1..n /\ m + 1 \in 1..n
      BY <2>1, <2>2, <2>3
    <3>2. l[k + 1].account # l[m + 1].account
      BY <1>5, <3>1
    <3> QED
      BY <2>1, <3>2
  <2>4. ASSUME NEW k \in 0..(n - 1), "GLOBAL" \in ss[k].scope PROVE ss[k].scope = {"GLOBAL"}
    <3>1. SupportedSigner(l[k + 1]) /\ ss[k].scope = l[k + 1].scope
      BY <1>4, <2>1
    <3> QED
      BY <2>4, <3>1 DEF SupportedSigner
  <2> QED
    BY <2>3, <2>4 DEF SignersFit
<1>32. AttributesFit(r, o, c)
  <2>1. c \in 0..1
    BY <1>7
  <2>2. r[o + 1] = Item("varint", c)
    <3>1. 1 \in 1..Len(a)
      BY <1>7, <1>20
    <3>2. r[o + 1] = a[1]
      BY <1>26, <3>1 DEF PlacedAt
    <3> QED
      BY <1>20, <3>2
  <2>3. ASSUME c = 1 PROVE r[o + 2] = Item("attribute", "HIGH_PRIORITY")
    <3>1. 2 \in 1..Len(a) /\ 1 \in 1..c /\ 1 + 1 = 2
      BY <1>20, <2>3
    <3>2. r[o + 2] = a[2]
      BY <1>26, <3>1 DEF PlacedAt
    <3>3. a[1 + 1] = Item("attribute", "HIGH_PRIORITY")
      BY <1>7, <1>20, <2>3, <3>1
    <3> QED
      BY <3>1, <3>2, <3>3
  <2> QED
    BY <1>7, <2>1, <2>2, <2>3 DEF AttributesFit
<1>33. ScriptFits(r, e)
  <2>1. 1 \in 1..Len(y) /\ 1 \in 1..Len(z) /\ g + 1 = e + 2
    BY <1>21, <1>22, <1>25
  <2>2. r[e + 1] = y[1] /\ r[g + 1] = z[1]
    BY <1>26, <2>1 DEF PlacedAt
  <2>3. ScriptIs(r, x, e)
    BY <1>21, <1>22, <1>26, <2>1, <2>2 DEF ScriptIs
  <2> QED
    BY <1>9, <2>3 DEF ScriptFits
<1>34. Fits(r, ss, q, n, c)
  BY <1>3, <1>19, <1>24, <1>27, <1>28, <1>29, <1>30, <1>31, <1>32, <1>33 DEF Fits
<1> QED
  BY <1>2, <1>3, <1>6, <1>34

\* The bytes of a transaction that the limits of transaction/types.h let pass are accepted
\* by transaction_deserialize at the end of the last chunk, in whatever pieces the host sent
\* them; an earlier attempt on the first of them can only matter when there is an attribute.
THEOREM SupportedAccepted == Spec => []SupportedIsAccepted
<1>1. AcceptInv => SupportedIsAccepted
  <2> SUFFICES ASSUME AcceptInv, NEW t \in Transactions, Supported(t), raw = Write(t),
                      at = "idle", status # "none", attempt = 1 \/ t.attributes = <<>>
               PROVE  Accepted
    BY DEF SupportedIsAccepted
  <2>1. t \in WalletTransactions
    BY TransactionsAssumption
  <2>2. PICK ss, q : Fits(raw, ss, q, Len(t.signers), Len(t.attributes))
    BY <2>1, SupportedFits
  <2>3. attempt = 1 \/ Len(t.attributes) = 0
    OBVIOUS
  <2> QED
    BY <2>2, <2>3 DEF AcceptInv, FittingIsAccepted
<1> QED
  BY <1>1, AcceptInvariant, PTL

-----------------------------------------------------------------------------
(* What is accepted is supported. *)

\* What a transaction that was accepted has besides: its parts are in the bytes, at p, and
\* its script has a length that script_size holds.
AcceptedAt(p) ==
    /\ SignersAt(raw, tx.signers, p, tx.signers_size)
    /\ AttributesAt(raw, tx, p[tx.signers_size])
    /\ p[tx.signers_size] + 1 + tx.attributes_size <= Len(raw)
    /\ Len(tx.script) \in 1..LongestScript

\* The inductive invariant.
PlacesInv == FormatInv /\ (Accepted => \E p : AcceptedAt(p))

\* Only the script ends an attempt with acceptance.
LEMMA OnlyScriptAccepts ==
    ASSUME FormatInv, Parse, Accepted'
    PROVE  ReadScript
<1>1. status = "none" /\ status' = "PARSING_OK" /\ TypeOK
  BY DEF FormatInv, ReaderInv, Accepted, Parse, ReadHeader, ReadSignerCount, ReadAccount,
     ReadScope, ReadContractCount, ReadContract, ReadGroupCount, ReadGroup, ReadAttributeCount,
     ReadAttribute, ReadScript, Reading
<1>2. ~ReadHeader
  <2> SUFFICES ASSUME ReadHeader PROVE FALSE
    OBVIOUS
  <2>1. PICK f : f = Header[i + 1]
    OBVIOUS
  <2>2. f \in {"version", "nonce", "system_fee", "network_fee", "valid_until_block"}
    BY <1>1, <2>1, HeaderNames DEF ReadHeader, Reading, TypeOK, Header, Numbers
  <2>3. ParsingError[f] # "PARSING_OK"
    BY <2>2 DEF ParsingError
  <2>4. BadValue(f, Value) => ValueError[f] # "PARSING_OK"
    <3>1. BadValue(f, Value) => f \in {"version", "system_fee", "network_fee"}
      BY DEF BadValue
    <3> QED
      BY <3>1 DEF ValueError
  <2> QED
    BY <1>1, <2>1, <2>3, <2>4
       DEF ReadHeader, Refuse, TakeAndRefuse, TakeAndGoto, Return, Goto
<1>3. ~ReadSignerCount /\ ~ReadAccount
  BY <1>1 DEF ReadSignerCount, ReadAccount, Refuse, TakeAndRefuse, TakeAndGoto, Return, Goto
<1>4. ~ReadScope
  BY <1>1 DEF ReadScope, AfterScope, AfterContracts, AfterSigner,
              Refuse, TakeAndRefuse, Return, Goto
<1>5. ~ReadContractCount /\ ~ReadContract
  BY <1>1 DEF ReadContractCount, ReadContract, AfterContracts, AfterSigner,
              Refuse, TakeAndRefuse, Return, Goto
<1>6. ~ReadGroupCount /\ ~ReadGroup
  BY <1>1 DEF ReadGroupCount, ReadGroup, AfterSigner, Refuse, TakeAndRefuse, Return, Goto
<1>7. ~ReadAttributeCount /\ ~ReadAttribute
  BY <1>1 DEF ReadAttributeCount, ReadAttribute, Refuse, TakeAndRefuse, TakeAndGoto, Return, Goto
<1> QED
  BY <1>2, <1>3, <1>4, <1>5, <1>6, <1>7 DEF Parse

\* There everything else has been read.
LEMMA ScriptPlaces ==
    ASSUME FormatInv, ReadScript, Accepted'
    PROVE  (\E p : AcceptedAt(p))'
<1>1. at = "script" /\ at \in AfterSigners /\ UNCHANGED raw
  BY DEF ReadScript, Reading, AfterSigners
<1>2. /\ tx \in Transaction /\ TypeOK /\ off \in Nat /\ off <= Len(raw) /\ Len(raw) \in Nat
      /\ tx.attributes_size \in Nat
  BY <1>1, AfterSignersFacts
<1>3. Readable("varint") /\ WholeScript
  BY DEF ReadScript, Refuse, TakeAndRefuse, Return, Accepted
<1>4. PICK x : x = ScriptBehind(raw, off)
  OBVIOUS
<1>5. Looked(tx', x, tx)
  <2>1. WithScript = [tx EXCEPT !.script = x] /\ WithScript.script = x
    BY <1>2, <1>4 DEF WithScript, Transaction
  <2> QED
    BY <1>3, <2>1 DEF ReadScript, Looked
<1>6. /\ tx'.script = x
      /\ tx'.signers = tx.signers /\ tx'.signers_size = tx.signers_size
      /\ tx'.attributes = tx.attributes /\ tx'.attributes_size = tx.attributes_size
  <2>1. Found(tx', x, tx)
    BY <1>2, <1>5, Recognised
  <2> QED
    BY <2>1 DEF Found
<1>7. PICK p, o : /\ SignersAt(raw, tx.signers, p, tx.signers_size) /\ WithinAttributes(o)
                  /\ o = p[tx.signers_size] /\ o \in Nat
  BY <1>1, AfterSignersFacts
<1>8. off = o + 1 + tx.attributes_size /\ AttributesAt(raw, tx, o)
  BY <1>1, <1>7 DEF WithinAttributes, AttributesAt
<1>9. Len(x) \in 1..LongestScript
  <2>1. /\ ReadableAt(off + 1, "script")
        /\ Value \in 1..LongestScript /\ Value <= Len(raw[off + 2].v)
    BY <1>3 DEF WholeScript
  <2>2. LongestScript \in Nat
    BY DEF LongestScript
  <2>3. raw[off + 2] \in Items /\ raw[off + 2].is = "script"
    <3>1. off + 1 < Len(raw) /\ raw[off + 1 + 1].is = "script" /\ off + 1 + 1 = off + 2
      BY <1>2, <2>1 DEF ReadableAt
    <3>2. off + 2 \in 1..Len(raw) /\ raw \in Seq(Items)
      BY <1>2, <3>1 DEF TypeOK
    <3> QED
      BY <3>1, <3>2, ElementOfSeq
  <2>4. PICK v \in Seq(Instructions) : v = raw[off + 2].v
    BY <2>3, ItemValue
  <2>5. PICK n \in Nat : n = Value /\ n >= 1 /\ n <= Len(v) /\ n <= LongestScript
    BY <2>1, <2>2, <2>4
  <2>6. x = SubSeq(v, 1, n)
    BY <1>4, <2>4, <2>5 DEF ScriptBehind, Value
  <2>7. Len(x) = n
    BY <2>5, <2>6, PartOf
  <2> QED
    BY <2>2, <2>5, <2>7
<1>10. AcceptedAt(p)'
  BY <1>1, <1>2, <1>6, <1>7, <1>8, <1>9 DEF AcceptedAt, AttributesAt
<1> QED
  BY <1>10

\* Every step keeps the invariant.
LEMMA StepPlaces == PlacesInv /\ [Next]_vars => PlacesInv'
<1> SUFFICES ASSUME PlacesInv, [Next]_vars PROVE PlacesInv'
  OBVIOUS
<1>1. FormatInv /\ FormatInv'
  BY NextFormat DEF PlacesInv
<1>2. CASE Parse
  BY <1>1, <1>2, OnlyScriptAccepts, ScriptPlaces DEF PlacesInv
<1>3. CASE \E n \in 1..Len(stream) : MoreChunk(n) \/ LastChunk(n)
  BY <1>1, <1>3 DEF PlacesInv, Accepted, MoreChunk, LastChunk, Append_raw
<1>4. CASE Restart
  BY <1>1, <1>4 DEF PlacesInv, Accepted, Restart
<1>5. CASE UNCHANGED vars
  BY <1>1, <1>5 DEF PlacesInv, Accepted, AcceptedAt, vars
<1> QED
  BY <1>2, <1>3, <1>4, <1>5 DEF Next

\* It holds always.
LEMMA PlacesInvariant == Spec => []PlacesInv
<1>1. Init => PlacesInv
  BY InitFormat DEF Init, PlacesInv, Accepted
<1> QED
  BY <1>1, StepPlaces, PTL DEF Spec

\* What items of a kind hold is in S.
Holds(is, S) == \A v : Item(is, v) \in Items => v \in S

LEMMA HeldIs ==
    /\ Holds("hash", Hash160) /\ Holds("key", Keys)
    /\ Holds("attribute", {"HIGH_PRIORITY", "OTHER"})
<1>1. \A is, v : Item(is, v).is = is /\ Item(is, v).v = v
  BY DEF Item
<1> QED
  BY <1>1, ItemValue DEF Holds

\* l is the first n elements of the array, all of them in S.
IsListOf(l, array, n, S) ==
    l \in Seq(S) /\ Len(l) = n /\ \A k \in 1..n : l[k] = array[k - 1]

\* A list that is placed in the bytes holds what its items may hold.
LEMMA ListedType ==
    ASSUME NEW r \in Seq(Items), NEW is, NEW array, NEW n \in Nat, NEW o \in Nat,
           o + 1 + n <= Len(r), ListAt(r, is, array, n, n, o),
           NEW S, Holds(is, S)
    PROVE  IsListOf(Listed(array, n), array, n, S)
<1>1. ASSUME NEW k \in 1..n PROVE array[k - 1] \in S
  <2>1. PICK l \in Nat : l = k - 1
    OBVIOUS
  <2>2. l \in 0..(n - 1) /\ o + 2 + l \in 1..Len(r)
    BY <2>1
  <2>3. r[o + 2 + l] = Item(is, array[l])
    BY <2>2 DEF ListAt
  <2>4. r[o + 2 + l] \in Items
    BY <2>2, ElementOfSeq
  <2> QED
    BY <2>1, <2>3, <2>4 DEF Holds
<1> QED
  BY <1>1 DEF Listed, IsListOf

\* A signer that is in the bytes is one of a wallet, and a supported one.
LEMMA SignerSupported ==
    ASSUME NEW r \in Seq(Items), NEW s \in Signers, NEW o \in Nat, Announced(s),
           SignerAt(r, s, o), SignerEnd(s, o) <= Len(r),
           "GLOBAL" \in s.scope => s.scope = {"GLOBAL"}
    PROVE  ReviewedSigner(s) \in WalletSigners /\ SupportedSigner(ReviewedSigner(s))
<1>1. PICK m \in Nat : m = s.allowed_contracts_size /\ m <= MAX_SIGNER_SUB_ITEMS
  BY SignerType
<1>2. PICK n \in Nat : n = s.allowed_groups_size /\ n <= MAX_SIGNER_SUB_ITEMS
  BY SignerType
<1>3. PICK c \in Nat : c = ContractsEnd(s, o)
  BY Ends
<1>4. PICK e \in Nat : e = SignerEnd(s, o) /\ e <= Len(r)
  BY Ends
<1>5. o + 2 <= c /\ c <= e
  BY <1>3, <1>4, Ends
<1>6. s.account \in Hash160 /\ s.scope \in SUBSET Scopes
  <2>1. r[o + 1] = Item("hash", s.account)
    BY DEF SignerAt
  <2>2. o + 1 \in 1..Len(r)
    BY <1>4, <1>5
  <2>3. r[o + 1] \in Items
    BY <2>2, ElementOfSeq
  <2> QED
    BY <2>1, <2>3, HeldIs, SignerType DEF Holds
<1>7. PICK u : u = Listed(s.allowed_contracts, m)
  OBVIOUS
<1>8. PICK w : w = Listed(s.allowed_groups, n)
  OBVIOUS
<1>9. /\ u \in Seq(Hash160) /\ Len(u) <= MAX_SIGNER_SUB_ITEMS
      /\ u # <<>> => "CUSTOM_CONTRACTS" \in s.scope
  <2>1. CASE m = 0
    <3>1. u = <<>>
      BY <1>7, <2>1 DEF Listed
    <3> QED
      BY <3>1, LimitsAssumption
  <2>2. CASE m # 0
    <3>1. "CUSTOM_CONTRACTS" \in s.scope
      BY <1>1, <2>2 DEF Announced
    <3>2. PICK a \in Nat : a = o + 2
      OBVIOUS
    <3>3. ListAt(r, "hash", s.allowed_contracts, m, m, a)
      BY <1>1, <3>1, <3>2 DEF SignerAt, ContractsAt
    <3>4. a + 1 + m <= Len(r)
      <4>1. c = o + 3 + m
        BY <1>1, <1>3, <3>1 DEF ContractsEnd
      <4> QED
        BY <1>4, <1>5, <3>2, <4>1
    <3>5. u \in Seq(Hash160) /\ Len(u) = m
      <4>1. Holds("hash", Hash160)
        BY HeldIs
      <4>2. IsListOf(u, s.allowed_contracts, m, Hash160)
        BY <1>7, <3>3, <3>4, <4>1, ListedType
      <4> QED
        BY <4>2 DEF IsListOf
    <3> QED
      BY <1>1, <3>1, <3>5
  <2> QED
    BY <2>1, <2>2
<1>10. /\ w \in Seq(Keys) /\ Len(w) <= MAX_SIGNER_SUB_ITEMS
       /\ w # <<>> => "CUSTOM_GROUPS" \in s.scope
  <2>1. CASE n = 0
    <3>1. w = <<>>
      BY <1>8, <2>1 DEF Listed
    <3> QED
      BY <3>1, LimitsAssumption
  <2>2. CASE n # 0
    <3>1. "CUSTOM_GROUPS" \in s.scope
      BY <1>2, <2>2 DEF Announced
    <3>2. ListAt(r, "key", s.allowed_groups, n, n, c)
      BY <1>2, <1>3, <3>1 DEF SignerAt, GroupsAt
    <3>3. c + 1 + n <= Len(r)
      <4>1. e = c + 1 + n
        BY <1>2, <1>3, <1>4, <3>1 DEF SignerEnd
      <4> QED
        BY <1>4, <4>1
    <3>4. w \in Seq(Keys) /\ Len(w) = n
      <4>1. Holds("key", Keys)
        BY HeldIs
      <4>2. IsListOf(w, s.allowed_groups, n, Keys)
        BY <1>8, <3>2, <3>3, <4>1, ListedType
      <4> QED
        BY <4>2 DEF IsListOf
    <3> QED
      BY <1>2, <3>1, <3>4
  <2> QED
    BY <2>1, <2>2
<1>11. PICK t : t = ReviewedSigner(s)
  OBVIOUS
<1>12. t = [account |-> s.account, scope |-> s.scope, contracts |-> u, groups |-> w]
  BY <1>1, <1>2, <1>7, <1>8, <1>11 DEF ReviewedSigner
<1>13. t \in WalletSigners
  BY <1>6, <1>9, <1>10, <1>12 DEF WalletSigners
<1>14. SupportedSigner(t)
  BY <1>9, <1>10, <1>12 DEF SupportedSigner
<1> QED
  BY <1>11, <1>13, <1>14

\* What is accepted is in the bytes, so it is a wallet's transaction.
LEMMA PlacesAreSupported == PlacesInv => AcceptedIsSupported
<1> SUFFICES ASSUME PlacesInv, Accepted
             PROVE  Reviewed \in WalletTransactions /\ Supported(Reviewed)
  BY DEF AcceptedIsSupported
<1>1. /\ TypeOK /\ AcceptedIsValid /\ Justified(raw, tx) /\ tx \in Transaction
      /\ raw \in Seq(Items) /\ Len(raw) \in Nat
  BY DEF PlacesInv, FormatInv, ReaderInv, TypeOK
<1>2. PICK p : AcceptedAt(p)
  BY DEF PlacesInv
<1>3. PICK n \in Nat :
          n = tx.signers_size /\ n \in MIN_TX_SIGNERS..MAX_TX_SIGNERS /\ n <= MAX_TX_SIGNERS
  BY <1>1, LimitsAssumption DEF AcceptedIsValid
<1>4. PICK m \in Nat : m = tx.attributes_size /\ m <= 1 /\ m <= MAX_ATTRIBUTES
  BY <1>1, LimitsAssumption DEF AcceptedIsValid, Transaction
<1>5. SignersAt(raw, tx.signers, p, n)
  BY <1>2, <1>3 DEF AcceptedAt
<1>6. p \in [0..n -> 6..Len(raw)]
  BY <1>5 DEF SignersAt
<1>7. PICK o \in Nat : o = p[n]
  BY <1>1, <1>6
<1>8. AllAnnounced(tx, n)
  BY <1>1, <1>3, <1>5, SignersAnnounced
<1>9. PICK l : l = [k \in 1..n |-> ReviewedSigner(tx.signers[k - 1])]
  OBVIOUS
<1>10. ASSUME NEW k \in 1..n
       PROVE  /\ l[k] \in WalletSigners /\ SupportedSigner(l[k])
              /\ l[k].account = tx.signers[k - 1].account
  <2>1. PICK g \in Nat : g = k - 1
    OBVIOUS
  <2>2. g \in 0..(n - 1) /\ g \in 0..n /\ g + 1 \in 0..n /\ g \in 0..(MAX_TX_SIGNERS - 1)
    BY <1>3, <2>1, LimitsAssumption
  <2>3. PICK s \in Signers : s = tx.signers[g]
    BY <1>1, <2>2 DEF Transaction
  <2>4. PICK a \in Nat : a = p[g]
    BY <1>1, <1>6, <2>2
  <2>5. SignerAt(raw, s, a) /\ SignerEnd(s, a) <= Len(raw)
    <3>1. SignerAt(raw, s, a) /\ p[g + 1] = SignerEnd(s, a)
      BY <1>5, <2>2, <2>3, <2>4 DEF SignersAt
    <3>2. p[g + 1] <= Len(raw)
      BY <1>1, <1>6, <2>2
    <3> QED
      BY <3>1, <3>2
  <2>6. Announced(s)
    BY <1>8, <2>2, <2>3 DEF AllAnnounced
  <2>7. "GLOBAL" \in s.scope => s.scope = {"GLOBAL"}
    BY <1>1, <1>3, <2>2, <2>3 DEF AcceptedIsValid
  <2>8. ReviewedSigner(s) \in WalletSigners /\ SupportedSigner(ReviewedSigner(s))
    BY <1>1, <2>5, <2>6, <2>7, SignerSupported
  <2>9. l[k] = ReviewedSigner(s)
    BY <1>9, <2>1, <2>3
  <2>10. ReviewedSigner(s).account = s.account
    BY DEF ReviewedSigner
  <2> QED
    BY <2>1, <2>3, <2>8, <2>9, <2>10
<1>11. l \in Seq(WalletSigners) /\ Len(l) = n
  BY <1>9, <1>10
<1>12. IsInjective([k \in 1..n |-> l[k].account])
  <2>1. ASSUME NEW k \in 1..n, NEW q \in 1..n, l[k].account = l[q].account
        PROVE  k = q
    <3>1. tx.signers[k - 1].account = tx.signers[q - 1].account
      BY <1>10, <2>1
    <3>2. k - 1 \in 0..(n - 1) /\ q - 1 \in 0..(n - 1)
      OBVIOUS
    <3>3. k - 1 = q - 1
      BY <1>1, <1>3, <3>1, <3>2 DEF AcceptedIsValid
    <3> QED
      BY <3>3
  <2> QED
    BY <2>1 DEF IsInjective
<1>13. PICK b : b = Listed(tx.attributes, m)
  OBVIOUS
<1>14. /\ b \in Seq({"HIGH_PRIORITY", "OTHER"}) /\ Len(b) = m
       /\ b \in {<<>>, <<"HIGH_PRIORITY">>}
  <2>1. AttributesAt(raw, tx, o) /\ o + 1 + m <= Len(raw)
    BY <1>2, <1>3, <1>4, <1>7 DEF AcceptedAt
  <2>2. ListAt(raw, "attribute", tx.attributes, m, m, o)
    BY <1>4, <2>1 DEF AttributesAt
  <2>3. Holds("attribute", {"HIGH_PRIORITY", "OTHER"})
    BY HeldIs
  <2>4. /\ b \in Seq({"HIGH_PRIORITY", "OTHER"}) /\ Len(b) = m
        /\ \A k \in 1..m : b[k] = tx.attributes[k - 1]
    <3>1. PICK y : y = tx.attributes
      OBVIOUS
    <3>2. PICK S : S = {"HIGH_PRIORITY", "OTHER"}
      OBVIOUS
    <3>3. ListAt(raw, "attribute", y, m, m, o) /\ Holds("attribute", S)
      BY <2>2, <2>3, <3>1, <3>2
    <3>4. IsListOf(Listed(y, m), y, m, S)
      BY <1>1, <2>1, <3>3, ListedType
    <3> QED
      BY <1>13, <3>1, <3>2, <3>4 DEF IsListOf
  <2>5. CASE m = 0
    <3>1. b = <<>>
      BY <2>4, <2>5
    <3> QED
      BY <2>4, <3>1
  <2>6. CASE m = 1
    <3>1. 1 \in 1..m /\ 0 \in 0..(MAX_ATTRIBUTES - 1) /\ 1 - 1 = 0
      BY <1>4, <2>6, LimitsAssumption
    <3>2. tx.attributes[0] \in {"NONE", "HIGH_PRIORITY"}
      BY <1>1, <3>1 DEF Transaction
    <3>3. b[1] = tx.attributes[0] /\ b[1] \in {"HIGH_PRIORITY", "OTHER"}
      BY <2>4, <3>1
    <3>4. b[1] = "HIGH_PRIORITY"
      BY <3>2, <3>3
    <3>5. b = <<"HIGH_PRIORITY">>
      BY <2>4, <2>6, <3>4
    <3> QED
      BY <2>4, <3>5
  <2> QED
    BY <1>4, <2>5, <2>6
<1>15. PICK x : x = tx.script
  OBVIOUS
<1>16. x \in Seq(Instructions) /\ Len(x) \in 1..LongestScript
  BY <1>1, <1>2, <1>15 DEF Transaction, AcceptedAt
<1>17. PICK t : t = Reviewed
  OBVIOUS
<1>18. t = [version |-> tx.version, nonce |-> tx.nonce,
            system_fee |-> tx.system_fee, network_fee |-> tx.network_fee,
            valid_until_block |-> tx.valid_until_block,
            signers |-> l, attributes |-> b, script |-> x]
  BY <1>3, <1>4, <1>9, <1>13, <1>15, <1>17 DEF Reviewed, ReviewedSigner
<1>19. t \in WalletTransactions
  <2>1. /\ tx.version \in Nat /\ tx.nonce \in Nat /\ tx.valid_until_block \in Nat
        /\ tx.system_fee \in Int /\ tx.network_fee \in Int
    BY <1>1 DEF Transaction
  <2> QED
    BY <1>11, <1>14, <1>16, <1>18, <2>1 DEF WalletTransactions
<1>20. Supported(t)
  <2>1. tx.version = 0 /\ tx.system_fee >= 0 /\ tx.network_fee >= 0
    BY <1>1 DEF AcceptedIsValid
  <2>2. \A s \in ToSet(l) : SupportedSigner(s)
    BY <1>10, <1>11 DEF ToSet
  <2>3. t.signers = l /\ t.attributes = b /\ t.script = x /\ Len(l) = n /\ Len(b) = m
    BY <1>11, <1>14, <1>18
  <2>4. t.version = 0 /\ t.system_fee >= 0 /\ t.network_fee >= 0
    BY <1>18, <2>1
  <2> QED
    BY <1>3, <1>4, <1>12, <1>14, <1>16, <2>2, <2>3, <2>4 DEF Supported
<1> QED
  BY <1>17, <1>19, <1>20

\* Only what the limits of transaction/types.h let pass is signed: what transaction_deserialize
\* accepts is a transaction of a wallet within all of them, and with AcceptedIsWritten its
\* bytes are how that transaction is written.  Remains of earlier attempts add nothing to it.
THEOREM AcceptedSupported == Spec => []AcceptedIsSupported
BY PlacesInvariant, PlacesAreSupported, PTL
=============================================================================
