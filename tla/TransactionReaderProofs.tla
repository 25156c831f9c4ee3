----------------------- MODULE TransactionReaderProofs -----------------------
(***************************************************************************)
(* Proofs about TransactionReader, for every value of its constants.  The  *)
(* difficulty is the structure that outlives an attempt: its fields may be *)
(* from an earlier one that failed.  ReaderInv therefore speaks only of    *)
(* what the attempt that is under way has read, up to the place it is at.  *)
(***************************************************************************)
EXTENDS TransactionReader, SequenceTheorems, TLAPS

-----------------------------------------------------------------------------
(* Types of what is read and stored. *)

\* The first elements of a sequence, some or all of them.
LEMMA PartOf ==
    ASSUME NEW S, NEW v \in Seq(S), NEW n \in Nat, n >= 1, n <= Len(v)
    PROVE  /\ SubSeq(v, 1, n) \in Seq(S) /\ Len(SubSeq(v, 1, n)) = n
           /\ n = Len(v) => SubSeq(v, 1, n) = v
<1> DEFINE u == SubSeq(v, 1, n)
<1>1. u \in Seq(S) /\ Len(u) = n /\ \A k \in 1..n : u[k] = v[k]
  BY SubSeqProperties
<1> HIDE DEF u
<1>2. ASSUME n = Len(v) PROVE u = v
  BY <1>1, <1>2, SeqEqual
<1> QED
  BY <1>1, <1>2 DEF u

\* What each kind of item holds.
LEMMA ItemValue ==
    ASSUME NEW x \in Items
    PROVE  /\ x.is \in {"version", "nonce", "valid_until_block", "varint"} => x.v \in Nat
           /\ x.is \in {"system_fee", "network_fee"} => x.v \in Int
           /\ x.is = "hash" => x.v \in Hash160
           /\ x.is = "scope" => x.v \in SUBSET Scopes
           /\ x.is = "key" => x.v \in Keys
           /\ x.is = "attribute" => x.v \in {"HIGH_PRIORITY", "OTHER"}
           /\ x.is = "script" => x.v \in Seq(Instructions)
BY DEF Items

\* What a field that can be read is, and that taking it stays within the bytes.
LEMMA ValueType ==
    ASSUME TypeOK, NEW is, Readable(is)
    PROVE  /\ raw[off + 1] \in Items /\ raw[off + 1].is = is /\ off + 1 \in 0..Len(raw)
<1>1. raw \in Seq(Items) /\ off \in 0..Len(raw)
  BY DEF TypeOK
<1>2. off < Len(raw) /\ raw[off + 1].is = is
  BY DEF Readable, ReadableAt
<1> QED
  BY <1>1, <1>2

\* Storing into one signer gives a transaction.
LEMMA SetSigner ==
    ASSUME NEW t \in Transaction, NEW k \in 0..(MAX_TX_SIGNERS - 1), NEW s \in Signers
    PROVE  [t EXCEPT !.signers[k] = s] \in Transaction
<1>1. [t.signers EXCEPT ![k] = s] \in [0..(MAX_TX_SIGNERS - 1) -> Signers]
  BY DEF Transaction
<1> QED
  BY <1>1 DEF Transaction

\* Storing a number of the header gives a transaction.
LEMMA SetHeader ==
    ASSUME NEW t \in Transaction, NEW f, NEW v, NEW u, u = [t EXCEPT ![f] = v],
           \/ f \in {"version", "nonce", "valid_until_block"} /\ v \in Nat
           \/ f \in {"system_fee", "network_fee"} /\ v \in Int
    PROVE  u \in Transaction
<1>1. CASE f = "version"
  BY <1>1 DEF Transaction
<1>2. CASE f = "nonce"
  BY <1>2 DEF Transaction
<1>3. CASE f = "valid_until_block"
  BY <1>3 DEF Transaction
<1>4. CASE f = "system_fee"
  BY <1>4 DEF Transaction
<1>5. CASE f = "network_fee"
  BY <1>5 DEF Transaction
<1> QED
  BY <1>1, <1>2, <1>3, <1>4, <1>5

\* Storing into one field of a signer gives a transaction.
LEMMA SignerFields ==
    ASSUME NEW t \in Transaction, NEW k \in 0..(MAX_TX_SIGNERS - 1)
    PROVE  /\ \A x \in Hash160 \cup {Unset} : [t EXCEPT !.signers[k].account = x] \in Transaction
           /\ \A x \in SUBSET Scopes : [t EXCEPT !.signers[k].scope = x] \in Transaction
           /\ \A x \in 0..MAX_SIGNER_SUB_ITEMS :
                [t EXCEPT !.signers[k].allowed_contracts_size = x] \in Transaction
           /\ \A x \in 0..MAX_SIGNER_SUB_ITEMS :
                [t EXCEPT !.signers[k].allowed_groups_size = x] \in Transaction
           /\ \A n \in 0..(MAX_SIGNER_SUB_ITEMS - 1), x \in Hash160 \cup {Unset} :
                [t EXCEPT !.signers[k].allowed_contracts[n] = x] \in Transaction
           /\ \A n \in 0..(MAX_SIGNER_SUB_ITEMS - 1), x \in Keys \cup {Unset} :
                [t EXCEPT !.signers[k].allowed_groups[n] = x] \in Transaction
<1> DEFINE s == t.signers[k]
<1>1. s \in Signers
  BY DEF Transaction
<1>2. \A x \in Hash160 \cup {Unset} : [s EXCEPT !.account = x] \in Signers
  BY <1>1 DEF Signers
<1>3. \A x \in SUBSET Scopes : [s EXCEPT !.scope = x] \in Signers
  BY <1>1 DEF Signers
<1>4. \A x \in 0..MAX_SIGNER_SUB_ITEMS :
        /\ [s EXCEPT !.allowed_contracts_size = x] \in Signers
        /\ [s EXCEPT !.allowed_groups_size = x] \in Signers
  BY <1>1 DEF Signers
<1>5. \A n \in 0..(MAX_SIGNER_SUB_ITEMS - 1), x \in Hash160 \cup {Unset} :
        [s EXCEPT !.allowed_contracts[n] = x] \in Signers
  BY <1>1 DEF Signers
<1>6. \A n \in 0..(MAX_SIGNER_SUB_ITEMS - 1), x \in Keys \cup {Unset} :
        [s EXCEPT !.allowed_groups[n] = x] \in Signers
  BY <1>1 DEF Signers
<1> QED
  BY <1>1, <1>2, <1>3, <1>4, <1>5, <1>6, SetSigner

-----------------------------------------------------------------------------
(* The invariant. *)

\* Where a signer is being read behind its account, and what follows the signers.
InSigner == {"scope", "contracts", "contract", "groups", "group"}
AfterSigners == {"attributes", "attribute", "script"}

\* How many signers have their account, and how many their scope.
AccountsRead ==
    IF at = "account" THEN i
    ELSE IF at \in InSigner THEN i + 1
    ELSE IF at \in AfterSigners THEN tx.signers_size ELSE 0
ScopesRead ==
    IF at \in {"account", "scope"} THEN i
    ELSE IF at \in InSigner THEN i + 1
    ELSE IF at \in AfterSigners THEN tx.signers_size ELSE 0

\* What was checked of the first n numbers of t, and of its first n signers.
HeaderRead(t, n) ==
    /\ n > 0 => t.version = 0
    /\ n > 2 => t.system_fee >= 0
    /\ n > 3 => t.network_fee >= 0
Distinct(t, n) == \A k, l \in 0..(n - 1) : k # l => t.signers[k].account # t.signers[l].account
GlobalAlone(t, n) ==
    \A k \in 0..(n - 1) : "GLOBAL" \in t.signers[k].scope => t.signers[k].scope = {"GLOBAL"}

\* The inductive invariant: a field that was read in this attempt is as its check wants it,
\* up to where the attempt is; what lies behind may be from an earlier one.
ReaderInv ==
    /\ TypeOK
    /\ at # "idle" => status = "none"
    /\ at = "header" => HeaderRead(tx, i)
    /\ at \notin {"idle", "header"} => HeaderRead(tx, 5)
    /\ at \notin {"idle", "header", "signers"} => tx.signers_size \in MIN_TX_SIGNERS..MAX_TX_SIGNERS
    /\ Distinct(tx, AccountsRead) /\ GlobalAlone(tx, ScopesRead)
    /\ at = "attribute" /\ i > 0 => tx.attributes[0] = "HIGH_PRIORITY"
    /\ at = "script" => tx.attributes_size <= 1
    /\ AcceptedIsValid

\* A cleared context is a transaction without signers, attributes and script.
LEMMA ZeroIsTransaction == ZeroTransaction \in Transaction
<1>1. ZeroSigner \in Signers
  BY LimitsAssumption DEF ZeroSigner, Signers
<1>2. [k \in 0..(MAX_TX_SIGNERS - 1) |-> ZeroSigner] \in [0..(MAX_TX_SIGNERS - 1) -> Signers]
  BY <1>1
<1>3. 0 \in 0..MAX_TX_SIGNERS /\ 0 \in 0..MAX_ATTRIBUTES
  BY LimitsAssumption
<1> HIDE DEF ZeroSigner, Signers
<1> QED
  BY <1>2, <1>3 DEF ZeroTransaction, Transaction

\* The invariant holds at the start.
LEMMA InitReaderInv == Init => ReaderInv
<1> SUFFICES ASSUME Init PROVE ReaderInv
  OBVIOUS
<1>1. /\ stream \in Seq(Items) /\ raw = <<>> /\ off = 0 /\ at = "idle" /\ i = 0 /\ j = 0
      /\ tx \in Transaction /\ status = "none"
  BY StreamsAssumption, ZeroIsTransaction DEF Init
<1>2. TypeOK
  BY <1>1 DEF TypeOK, Places
<1> QED
  BY <1>1, <1>2 DEF ReaderInv, AccountsRead, ScopesRead, Distinct, GlobalAlone, InSigner,
                   AfterSigners, AcceptedIsValid, Accepted

-----------------------------------------------------------------------------
(* What a step has to show. *)

\* A step that ends the attempt without accepting.
LEMMA RefusalKeeps ==
    ASSUME ReaderInv, NEW s, s # "PARSING_OK", Return(s),
           tx' \in Transaction, off' \in 0..Len(raw), UNCHANGED <<stream, raw, attempt>>
    PROVE  ReaderInv'
<1>1. TypeOK'
  BY DEF ReaderInv, TypeOK, Return, Places
<1> QED
  BY <1>1 DEF ReaderInv, Return, AccountsRead, ScopesRead, Distinct, GlobalAlone, InSigner,
              AfterSigners, AcceptedIsValid, Accepted

\* A step from one part of a signer to another, or to what follows the signer.
SignerGoto ==
    \/ AfterSigner
    \/ at' \in {"scope", "contracts", "groups"} /\ i' = i /\ j' = 0 /\ UNCHANGED status
    \/ /\ at' = "contract" /\ i' = i /\ UNCHANGED status
       /\ j' \in 0..(tx'.signers[i].allowed_contracts_size - 1)
    \/ /\ at' = "group" /\ i' = i /\ UNCHANGED status
       /\ j' \in 0..(tx'.signers[i].allowed_groups_size - 1)

\* A step inside a signer keeps the invariant if it keeps what was checked.
LEMMA SignerStepKeeps ==
    ASSUME ReaderInv, at \in InSigner \cup {"account"}, SignerGoto,
           tx' \in Transaction, off' \in 0..Len(raw), UNCHANGED <<stream, raw, attempt>>,
           tx'.signers_size = tx.signers_size, HeaderRead(tx', 5),
           Distinct(tx', i + 1),
           GlobalAlone(tx', IF at' = "scope" THEN i ELSE i + 1)
    PROVE  ReaderInv'
<1>1. /\ i \in 0..(tx.signers_size - 1) /\ tx.signers_size \in MIN_TX_SIGNERS..MAX_TX_SIGNERS
      /\ MAX_TX_SIGNERS \in Nat /\ MIN_TX_SIGNERS \in Nat /\ status = "none"
      /\ i \in Nat /\ j \in Nat /\ tx.signers_size \in Nat
      /\ stream \in Seq(Items) /\ raw \in Seq(Items)
  BY LimitsAssumption DEF ReaderInv, TypeOK, InSigner
<1>2. tx'.signers[i].allowed_contracts_size \in Nat /\ tx'.signers[i].allowed_groups_size \in Nat
  <2>1. i \in 0..(MAX_TX_SIGNERS - 1)
    BY <1>1
  <2>2. tx'.signers[i] \in Signers
    BY <2>1 DEF Transaction
  <2> QED
    BY <2>2, LimitsAssumption DEF Signers
<1>3. /\ status' = "none" /\ i' \in Nat /\ j' \in Nat
      /\ at' \in {"account", "attributes"} \cup InSigner
  BY <1>1, <1>2 DEF SignerGoto, AfterSigner, Goto, InSigner
<1>4. at' = "account" => i' = i + 1 /\ i + 1 < tx.signers_size
  BY <1>1 DEF SignerGoto, AfterSigner, Goto
<1>5. at' = "attributes" => i + 1 = tx.signers_size
  BY <1>1 DEF SignerGoto, AfterSigner, Goto
<1>6. at' \in InSigner => i' = i
  BY <1>1 DEF SignerGoto, AfterSigner, Goto, InSigner
<1>7. /\ at' = "contract" => j' \in 0..(tx'.signers[i'].allowed_contracts_size - 1)
      /\ at' = "group" => j' \in 0..(tx'.signers[i'].allowed_groups_size - 1)
  BY <1>1, <1>6 DEF SignerGoto, AfterSigner, Goto
<1>8. TypeOK'
  <2>1. /\ at' \in Places /\ at' \notin {"header", "attribute"}
        /\ stream' \in Seq(Items) /\ raw' \in Seq(Items) /\ off' \in 0..Len(raw')
    BY <1>1, <1>3 DEF Places, InSigner
  <2>2. at' \in {"account", "scope", "contracts", "contract", "groups", "group"} =>
            i' \in 0..(tx'.signers_size - 1)
    BY <1>1, <1>3, <1>4, <1>6 DEF InSigner
  <2> QED
    BY <1>3, <1>7, <2>1, <2>2 DEF TypeOK
<1>9. AccountsRead' = i + 1
  BY <1>1, <1>3, <1>4, <1>5, <1>6 DEF AccountsRead, InSigner, AfterSigners
<1>10. ScopesRead' = IF at' = "scope" THEN i ELSE i + 1
  BY <1>1, <1>3, <1>4, <1>5, <1>6 DEF ScopesRead, InSigner, AfterSigners
<1> QED
  BY <1>1, <1>3, <1>8, <1>9, <1>10 DEF ReaderInv, InSigner, AcceptedIsValid, Accepted

-----------------------------------------------------------------------------
(* The steps, one lemma for each read. *)

\* The offset before and after a field that can be read.
LEMMA Offsets ==
    ASSUME TypeOK
    PROVE  /\ off \in 0..Len(raw)
           /\ \A is : Readable(is) => off + 1 \in 0..Len(raw)
BY ValueType DEF TypeOK

\* The numbers at the start: bad ones end the attempt.
LEMMA HeaderKeeps ==
    ASSUME ReaderInv, ReadHeader
    PROVE  ReaderInv'
<1>1. /\ at = "header" /\ UNCHANGED <<stream, raw, attempt>> /\ i + 1 \in 1..5 /\ i \in Nat
      /\ tx \in Transaction /\ TypeOK /\ status = "none" /\ HeaderRead(tx, i)
  BY DEF ReadHeader, Reading, ReaderInv, TypeOK, Header
<1>2. PICK f : f = Header[i + 1]
  OBVIOUS
<1>3. /\ i = 0 => f = "version"
      /\ i = 1 => f = "nonce"
      /\ i = 2 => f = "system_fee"
      /\ i = 3 => f = "network_fee"
      /\ i = 4 => f = "valid_until_block"
  BY <1>2 DEF Header
<1>4. f \in {"version", "nonce", "valid_until_block", "system_fee", "network_fee"}
  BY <1>1, <1>3
<1>5. CASE ~Readable(f)
  <2>1. tx' = [tx EXCEPT ![f] = 0] /\ Refuse(ParsingError[f])
    BY <1>2, <1>5 DEF ReadHeader
  <2>2. tx' \in Transaction
    <3>1. PICK v \in Nat : v = 0
      OBVIOUS
    <3>2. v \in Int /\ tx' = [tx EXCEPT ![f] = v]
      BY <2>1, <3>1
    <3> QED
      BY <1>1, <1>4, <3>2, SetHeader
  <2>3. ParsingError[f] # "PARSING_OK"
    BY <1>4 DEF ParsingError
  <2> QED
    BY <1>1, <2>1, <2>2, <2>3, RefusalKeeps, Offsets DEF Refuse
<1>6. CASE Readable(f)
  <2>1. /\ tx' = [tx EXCEPT ![f] = Value]
        /\ IF BadValue(f, Value) THEN TakeAndRefuse(ValueError[f])
           ELSE IF i + 1 < Len(Header) THEN TakeAndGoto("header", i + 1, 0)
           ELSE TakeAndGoto("signers", 0, 0)
    BY <1>2, <1>6 DEF ReadHeader
  <2>2. raw[off + 1] \in Items /\ raw[off + 1].is = f /\ off + 1 \in 0..Len(raw)
    BY <1>1, <1>6, ValueType
  <2>3. \/ f \in {"version", "nonce", "valid_until_block"} /\ Value \in Nat
        \/ f \in {"system_fee", "network_fee"} /\ Value \in Int
    BY <1>4, <2>2, ItemValue DEF Value
  <2>4. /\ tx' \in Transaction
        /\ tx'.version = IF f = "version" THEN Value ELSE tx.version
        /\ tx'.system_fee = IF f = "system_fee" THEN Value ELSE tx.system_fee
        /\ tx'.network_fee = IF f = "network_fee" THEN Value ELSE tx.network_fee
    <3>1. PICK v : v = Value
      OBVIOUS
    <3>2. tx' = [tx EXCEPT ![f] = v]
      BY <2>1, <3>1
    <3>3. \/ f \in {"version", "nonce", "valid_until_block"} /\ v \in Nat
          \/ f \in {"system_fee", "network_fee"} /\ v \in Int
      BY <2>3, <3>1
    <3>4. /\ tx' \in Transaction
          /\ tx'.version = IF f = "version" THEN v ELSE tx.version
          /\ tx'.system_fee = IF f = "system_fee" THEN v ELSE tx.system_fee
          /\ tx'.network_fee = IF f = "network_fee" THEN v ELSE tx.network_fee
      <4>1. tx' \in Transaction
        BY <1>1, <3>2, <3>3, SetHeader
      <4>2. tx'.version = IF f = "version" THEN v ELSE tx.version
        BY <1>1, <1>4, <3>2 DEF Transaction
      <4>3. tx'.system_fee = IF f = "system_fee" THEN v ELSE tx.system_fee
        BY <1>1, <1>4, <3>2 DEF Transaction
      <4>4. tx'.network_fee = IF f = "network_fee" THEN v ELSE tx.network_fee
        BY <1>1, <1>4, <3>2 DEF Transaction
      <4> QED
        BY <4>1, <4>2, <4>3, <4>4
    <3> QED
      BY <3>1, <3>4
  <2>5. CASE BadValue(f, Value)
    <3>1. f \in {"version", "system_fee", "network_fee"}
      BY <2>5 DEF BadValue
    <3>2. ValueError[f] # "PARSING_OK"
      BY <3>1 DEF ValueError
    <3> QED
      BY <1>1, <2>1, <2>2, <2>4, <2>5, <3>2, RefusalKeeps DEF TakeAndRefuse
  <2>6. CASE ~BadValue(f, Value)
    <3>1. HeaderRead(tx', i + 1)
      BY <1>1, <1>3, <2>3, <2>4, <2>6 DEF HeaderRead, BadValue
    <3>2. off' \in 0..Len(raw)
      BY <2>1, <2>2, <2>6 DEF TakeAndGoto
    <3>3. CASE i + 1 < 5
      <4>1. at' = "header" /\ i' = i + 1 /\ j' = 0 /\ status' = status
        BY <2>1, <2>6, <3>3 DEF TakeAndGoto, Goto, Header
      <4>2. TypeOK'
        BY <1>1, <2>4, <3>2, <3>3, <4>1 DEF TypeOK, Places, Header
      <4> QED
        BY <1>1, <3>1, <4>1, <4>2 DEF ReaderInv, AccountsRead, ScopesRead, Distinct,
           GlobalAlone, InSigner, AfterSigners, AcceptedIsValid, Accepted
    <3>4. CASE ~(i + 1 < 5)
      <4>1. at' = "signers" /\ i' = 0 /\ j' = 0 /\ status' = status /\ i + 1 = 5
        BY <1>1, <2>1, <2>6, <3>4 DEF TakeAndGoto, Goto, Header
      <4>2. TypeOK'
        BY <1>1, <2>4, <3>2, <4>1 DEF TypeOK, Places
      <4> QED
        BY <1>1, <3>1, <4>1, <4>2 DEF ReaderInv, AccountsRead, ScopesRead, Distinct,
           GlobalAlone, InSigner, AfterSigners, AcceptedIsValid, Accepted
    <3> QED
      BY <3>3, <3>4
  <2> QED
    BY <2>5, <2>6
<1> QED
  BY <1>5, <1>6

\* The count of the signers fits their array.
LEMMA SignerCountKeeps ==
    ASSUME ReaderInv, ReadSignerCount
    PROVE  ReaderInv'
<1>1. /\ at = "signers" /\ UNCHANGED <<stream, raw, attempt>> /\ tx \in Transaction /\ TypeOK
      /\ status = "none" /\ HeaderRead(tx, 5)
  BY DEF ReadSignerCount, Reading, ReaderInv, TypeOK
<1>2. CASE ~Readable("varint")
  BY <1>1, <1>2, RefusalKeeps, Offsets DEF ReadSignerCount, Refuse
<1>3. CASE Readable("varint") /\ Value \notin MIN_TX_SIGNERS..MAX_TX_SIGNERS
  BY <1>1, <1>3, RefusalKeeps, Offsets DEF ReadSignerCount, TakeAndRefuse
<1>4. CASE Readable("varint") /\ Value \in MIN_TX_SIGNERS..MAX_TX_SIGNERS
  <2>1. /\ tx' = [tx EXCEPT !.signers_size = Value] /\ off' = off + 1
        /\ at' = "account" /\ i' = 0 /\ j' = 0 /\ status' = status
    BY <1>4 DEF ReadSignerCount, TakeAndGoto, Goto
  <2>2. Value \in 0..MAX_TX_SIGNERS /\ Value \in Nat \ {0}
    BY <1>4, LimitsAssumption
  <2>3. tx' \in Transaction /\ tx'.signers_size = Value /\ HeaderRead(tx', 5)
    BY <1>1, <2>1, <2>2 DEF Transaction, HeaderRead
  <2>4. off' \in 0..Len(raw)
    BY <1>1, <1>4, <2>1, Offsets
  <2>5. TypeOK'
    BY <1>1, <2>1, <2>2, <2>3, <2>4 DEF TypeOK, Places
  <2> QED
    BY <1>1, <1>4, <2>1, <2>3, <2>5 DEF ReaderInv, AccountsRead, ScopesRead, Distinct,
       GlobalAlone, InSigner, AfterSigners, AcceptedIsValid, Accepted
<1> QED
  BY <1>2, <1>3, <1>4 DEF ReadSignerCount

\* Where the signer that is being read is, and what is known of those before it.
LEMMA SignerPlace ==
    ASSUME ReaderInv, at \in InSigner \cup {"account"}
    PROVE  /\ i \in 0..(MAX_TX_SIGNERS - 1) /\ i \in Nat
           /\ tx \in Transaction /\ TypeOK /\ status = "none" /\ HeaderRead(tx, 5)
           /\ tx.signers[i] \in Signers
           /\ Distinct(tx, IF at = "account" THEN i ELSE i + 1)
           /\ GlobalAlone(tx, IF at \in {"account", "scope"} THEN i ELSE i + 1)
<1>1. i \in 0..(tx.signers_size - 1) /\ tx.signers_size \in 0..MAX_TX_SIGNERS /\ tx \in Transaction
  BY LimitsAssumption DEF ReaderInv, TypeOK, Transaction, InSigner
<1>2. i \in 0..(MAX_TX_SIGNERS - 1)
  BY <1>1, LimitsAssumption
<1>3. tx.signers[i] \in Signers
  BY <1>1, <1>2 DEF Transaction
<1> QED
  BY <1>1, <1>2, <1>3 DEF ReaderInv, TypeOK, InSigner, AccountsRead, ScopesRead

\* The account of a signer differs from those before it.
LEMMA AccountKeeps ==
    ASSUME ReaderInv, ReadAccount
    PROVE  ReaderInv'
<1>1. at = "account" /\ UNCHANGED <<stream, raw, attempt>>
  BY DEF ReadAccount, Reading
<1>2. /\ i \in 0..(MAX_TX_SIGNERS - 1) /\ tx \in Transaction /\ TypeOK /\ HeaderRead(tx, 5)
      /\ Distinct(tx, i) /\ GlobalAlone(tx, i) /\ tx.signers[i] \in Signers
  BY <1>1, SignerPlace DEF InSigner
<1> DEFINE a == IF Readable("hash") THEN Value ELSE Unset
<1>3. a \in Hash160 \cup {Unset}
  BY <1>2, ValueType, ItemValue DEF Value
<1>4. tx' = [tx EXCEPT !.signers[i].account = a]
  BY DEF ReadAccount
<1>5. tx' \in Transaction
  BY <1>2, <1>3, <1>4, SignerFields
<1>6. CASE ~Readable("hash")
  BY <1>1, <1>2, <1>5, <1>6, RefusalKeeps, Offsets DEF ReadAccount, Refuse
<1>7. CASE Readable("hash") /\ Duplicate(Value)
  BY <1>1, <1>2, <1>5, <1>7, RefusalKeeps, Offsets DEF ReadAccount, TakeAndRefuse
<1>8. CASE Readable("hash") /\ ~Duplicate(Value)
  <2>1. /\ at' = "scope" /\ i' = i /\ j' = 0 /\ status' = status /\ off' = off + 1
    BY <1>8 DEF ReadAccount, TakeAndGoto, Goto
  <2>2. /\ \A k \in 0..(MAX_TX_SIGNERS - 1) :
              /\ tx'.signers[k].account = IF k = i THEN a ELSE tx.signers[k].account
              /\ tx'.signers[k].scope = tx.signers[k].scope
        /\ tx'.signers_size = tx.signers_size
        /\ HeaderRead(tx', 5)
    BY <1>2, <1>4 DEF Transaction, Signers, HeaderRead
  <2>3. \A k \in 0..(i - 1) : tx.signers[k].account # a
    BY <1>8 DEF Duplicate
  <2> HIDE DEF a
  <2>4. Distinct(tx', i + 1)
    <3> SUFFICES ASSUME NEW k \in 0..i, NEW l \in 0..i, k # l
                 PROVE  tx'.signers[k].account # tx'.signers[l].account
      BY <1>2 DEF Distinct
    <3>1. k \in 0..(MAX_TX_SIGNERS - 1) /\ l \in 0..(MAX_TX_SIGNERS - 1)
      BY <1>2, LimitsAssumption
    <3>2. CASE k = i
      <4>1. l \in 0..(i - 1)
        BY <1>2, <3>2
      <4> QED
        BY <2>2, <2>3, <3>1, <3>2, <4>1
    <3>3. CASE l = i
      <4>1. k \in 0..(i - 1)
        BY <1>2, <3>3
      <4> QED
        BY <2>2, <2>3, <3>1, <3>3, <4>1
    <3>4. CASE k # i /\ l # i
      <4>1. k \in 0..(i - 1) /\ l \in 0..(i - 1)
        BY <1>2, <3>4
      <4> QED
        BY <1>2, <2>2, <3>1, <3>4, <4>1 DEF Distinct
    <3> QED
      BY <3>2, <3>3, <3>4
  <2>5. GlobalAlone(tx', i)
    <3>1. \A k \in 0..(i - 1) : k \in 0..(MAX_TX_SIGNERS - 1)
      BY <1>2, LimitsAssumption
    <3> QED
      BY <1>2, <2>2, <3>1 DEF GlobalAlone
  <2>6. SignerGoto
    BY <2>1 DEF SignerGoto
  <2>7. off' \in 0..Len(raw)
    BY <1>2, <1>8, <2>1, Offsets
  <2> QED
    BY <1>1, <1>5, <2>1, <2>2, <2>4, <2>5, <2>6, <2>7, SignerStepKeeps
<1> QED
  BY <1>6, <1>7, <1>8 DEF ReadAccount

\* The scope of a signer: GLOBAL stands alone.
LEMMA ScopeKeeps ==
    ASSUME ReaderInv, ReadScope
    PROVE  ReaderInv'
<1>1. at = "scope" /\ UNCHANGED <<stream, raw, attempt>>
  BY DEF ReadScope, Reading
<1>2. /\ i \in 0..(MAX_TX_SIGNERS - 1) /\ tx \in Transaction /\ TypeOK /\ HeaderRead(tx, 5)
      /\ Distinct(tx, i + 1) /\ GlobalAlone(tx, i)
  BY <1>1, SignerPlace DEF InSigner
<1>3. CASE ~Readable("scope")
  BY <1>1, <1>2, <1>3, RefusalKeeps, Offsets DEF ReadScope, Refuse
<1>4. CASE Readable("scope")
  <2>1. /\ tx' = [tx EXCEPT !.signers[i].scope = Value]
        /\ IF "GLOBAL" \in Value /\ Value # {"GLOBAL"}
           THEN TakeAndRefuse("SIGNER_SCOPE_VALUE_ERROR_GLOBAL_FLAG")
           ELSE AfterScope(Value) /\ off' = off + 1
    BY <1>4 DEF ReadScope
  <2>2. Value \in SUBSET Scopes /\ off + 1 \in 0..Len(raw)
    BY <1>2, <1>4, ValueType, ItemValue DEF Value
  <2>3. tx' \in Transaction
    BY <1>2, <2>1, <2>2, SignerFields
  <2>4. CASE "GLOBAL" \in Value /\ Value # {"GLOBAL"}
    BY <1>1, <2>1, <2>2, <2>3, <2>4, RefusalKeeps DEF TakeAndRefuse
  <2>5. CASE ~("GLOBAL" \in Value /\ Value # {"GLOBAL"})
    <3>1. /\ \A k \in 0..(MAX_TX_SIGNERS - 1) :
                /\ tx'.signers[k].account = tx.signers[k].account
                /\ tx'.signers[k].scope = IF k = i THEN Value ELSE tx.signers[k].scope
          /\ tx'.signers_size = tx.signers_size
          /\ HeaderRead(tx', 5)
      <4>1. \A k \in 0..(MAX_TX_SIGNERS - 1) :
               /\ tx'.signers[k].account = tx.signers[k].account
               /\ tx'.signers[k].scope = IF k = i THEN Value ELSE tx.signers[k].scope
        BY <1>2, <2>1 DEF Transaction, Signers
      <4>2. /\ tx'.signers_size = tx.signers_size /\ tx'.version = tx.version
            /\ tx'.system_fee = tx.system_fee /\ tx'.network_fee = tx.network_fee
        BY <1>2, <2>1 DEF Transaction
      <4> QED
        BY <1>2, <4>1, <4>2 DEF HeaderRead
    <3>2. \A k \in 0..i : k \in 0..(MAX_TX_SIGNERS - 1) /\ (k = i \/ k \in 0..(i - 1))
      BY <1>2, LimitsAssumption
    <3>3. Distinct(tx', i + 1)
      BY <1>2, <3>1, <3>2 DEF Distinct
    <3>4. GlobalAlone(tx', i + 1)
      BY <1>2, <2>5, <3>1, <3>2 DEF GlobalAlone
    <3>5. SignerGoto /\ at' # "scope"
      BY <2>1, <2>5 DEF SignerGoto, AfterScope, AfterContracts, AfterSigner, Goto
    <3> QED
      BY <1>1, <2>1, <2>2, <2>3, <2>5, <3>1, <3>3, <3>4, <3>5, SignerStepKeeps DEF InSigner
  <2> QED
    BY <2>4, <2>5
<1> QED
  BY <1>3, <1>4

\* A step that reads into the lists of a signer.
LEMMA ListStepKeeps ==
    ASSUME ReaderInv, at \in InSigner \ {"scope"}, SignerGoto, at' # "scope",
           tx' \in Transaction, off' \in 0..Len(raw), UNCHANGED <<stream, raw, attempt>>,
           tx'.signers_size = tx.signers_size,
           tx'.version = tx.version, tx'.system_fee = tx.system_fee,
           tx'.network_fee = tx.network_fee,
           \A k \in 0..(MAX_TX_SIGNERS - 1) :
              /\ tx'.signers[k].account = tx.signers[k].account
              /\ tx'.signers[k].scope = tx.signers[k].scope
    PROVE  ReaderInv'
<1>1. /\ i \in 0..(MAX_TX_SIGNERS - 1) /\ HeaderRead(tx, 5)
      /\ Distinct(tx, i + 1) /\ GlobalAlone(tx, i + 1)
  BY SignerPlace DEF InSigner
<1>2. \A k \in 0..(i + 1 - 1) : k \in 0..(MAX_TX_SIGNERS - 1)
  BY <1>1, LimitsAssumption
<1>3. Distinct(tx', i + 1) /\ GlobalAlone(tx', i + 1)
  BY <1>1, <1>2 DEF Distinct, GlobalAlone
<1>4. HeaderRead(tx', 5)
  BY <1>1 DEF HeaderRead
<1> QED
  BY <1>3, <1>4, SignerStepKeeps

\* The count of the contracts of a signer fits their array.
LEMMA ContractCountKeeps ==
    ASSUME ReaderInv, ReadContractCount
    PROVE  ReaderInv'
<1>1. at = "contracts" /\ UNCHANGED <<stream, raw, attempt>>
  BY DEF ReadContractCount, Reading
<1>2. /\ i \in 0..(MAX_TX_SIGNERS - 1) /\ tx \in Transaction /\ TypeOK
      /\ tx.signers[i] \in Signers
  BY <1>1, SignerPlace DEF InSigner
<1>3. CASE ~Readable("varint")
  BY <1>1, <1>2, <1>3, RefusalKeeps, Offsets DEF ReadContractCount, Refuse
<1>4. CASE Readable("varint") /\ TooMany(Value)
  BY <1>1, <1>2, <1>4, RefusalKeeps, Offsets DEF ReadContractCount, TakeAndRefuse
<1>5. CASE Readable("varint") /\ ~TooMany(Value)
  <2>1. /\ tx' = [tx EXCEPT !.signers[i].allowed_contracts_size = Value]
        /\ off' = off + 1
        /\ IF Value = 0 THEN AfterContracts(tx.signers[i].scope) ELSE Goto("contract", i, 0)
    BY <1>5 DEF ReadContractCount
  <2>2. Value \in 0..MAX_SIGNER_SUB_ITEMS
    <3>1. Value \in Nat
      BY <1>2, <1>5, ValueType, ItemValue DEF Value
    <3> QED
      BY <1>5, <3>1, LimitsAssumption DEF TooMany
  <2> DEFINE s == [tx.signers[i] EXCEPT !.allowed_contracts_size = Value]
  <2>3. /\ s \in Signers /\ s.account = tx.signers[i].account
        /\ s.scope = tx.signers[i].scope /\ s.allowed_contracts_size = Value
    BY <1>2, <2>2 DEF Signers
  <2>4. tx' = [tx EXCEPT !.signers[i] = s]
    BY <2>1
  <2> HIDE DEF s
  <2>5. tx' \in Transaction
    BY <1>2, <2>3, <2>4, SetSigner
  <2>6. /\ tx'.signers_size = tx.signers_size
        /\ tx'.version = tx.version /\ tx'.system_fee = tx.system_fee
        /\ tx'.network_fee = tx.network_fee
        /\ tx'.signers[i] = s
        /\ \A l \in 0..(MAX_TX_SIGNERS - 1) :
              /\ tx'.signers[l].account = tx.signers[l].account
              /\ tx'.signers[l].scope = tx.signers[l].scope
    BY <1>2, <2>3, <2>4 DEF Transaction
  <2>7. SignerGoto /\ at' # "scope"
    <3>1. CASE Value = 0
      BY <2>1, <3>1 DEF SignerGoto, AfterContracts, AfterSigner, Goto
    <3>2. CASE Value # 0
      BY <2>1, <2>2, <2>3, <2>6, <3>2, LimitsAssumption DEF SignerGoto, Goto
    <3> QED
      BY <3>1, <3>2
  <2>8. off' \in 0..Len(raw)
    BY <1>2, <1>5, <2>1, Offsets
  <2> QED
    BY <1>1, <2>5, <2>6, <2>7, <2>8, ListStepKeeps DEF InSigner
<1> QED
  BY <1>3, <1>4, <1>5 DEF ReadContractCount

\* The count of the groups of a signer fits their array.
LEMMA GroupCountKeeps ==
    ASSUME ReaderInv, ReadGroupCount
    PROVE  ReaderInv'
<1>1. at = "groups" /\ UNCHANGED <<stream, raw, attempt>>
  BY DEF ReadGroupCount, Reading
<1>2. /\ i \in 0..(MAX_TX_SIGNERS - 1) /\ tx \in Transaction /\ TypeOK
      /\ tx.signers[i] \in Signers
  BY <1>1, SignerPlace DEF InSigner
<1>3. CASE ~Readable("varint")
  BY <1>1, <1>2, <1>3, RefusalKeeps, Offsets DEF ReadGroupCount, Refuse
<1>4. CASE Readable("varint") /\ TooMany(Value)
  BY <1>1, <1>2, <1>4, RefusalKeeps, Offsets DEF ReadGroupCount, TakeAndRefuse
<1>5. CASE Readable("varint") /\ ~TooMany(Value)
  <2>1. /\ tx' = [tx EXCEPT !.signers[i].allowed_groups_size = Value]
        /\ off' = off + 1
        /\ IF Value = 0 THEN AfterSigner ELSE Goto("group", i, 0)
    BY <1>5 DEF ReadGroupCount
  <2>2. Value \in 0..MAX_SIGNER_SUB_ITEMS
    <3>1. Value \in Nat
      BY <1>2, <1>5, ValueType, ItemValue DEF Value
    <3> QED
      BY <1>5, <3>1, LimitsAssumption DEF TooMany
  <2> DEFINE s == [tx.signers[i] EXCEPT !.allowed_groups_size = Value]
  <2>3. /\ s \in Signers /\ s.account = tx.signers[i].account
        /\ s.scope = tx.signers[i].scope /\ s.allowed_groups_size = Value
    BY <1>2, <2>2 DEF Signers
  <2>4. tx' = [tx EXCEPT !.signers[i] = s]
    BY <2>1
  <2> HIDE DEF s
  <2>5. tx' \in Transaction
    BY <1>2, <2>3, <2>4, SetSigner
  <2>6. /\ tx'.signers_size = tx.signers_size
        /\ tx'.version = tx.version /\ tx'.system_fee = tx.system_fee
        /\ tx'.network_fee = tx.network_fee
        /\ tx'.signers[i] = s
        /\ \A l \in 0..(MAX_TX_SIGNERS - 1) :
              /\ tx'.signers[l].account = tx.signers[l].account
              /\ tx'.signers[l].scope = tx.signers[l].scope
    BY <1>2, <2>3, <2>4 DEF Transaction
  <2>7. SignerGoto /\ at' # "scope"
    <3>1. CASE Value = 0
      BY <2>1, <3>1 DEF SignerGoto, AfterSigner, Goto
    <3>2. CASE Value # 0
      BY <2>1, <2>2, <2>3, <2>6, <3>2, LimitsAssumption DEF SignerGoto, Goto
    <3> QED
      BY <3>1, <3>2
  <2>8. off' \in 0..Len(raw)
    BY <1>2, <1>5, <2>1, Offsets
  <2> QED
    BY <1>1, <2>5, <2>6, <2>7, <2>8, ListStepKeeps DEF InSigner
<1> QED
  BY <1>3, <1>4, <1>5 DEF ReadGroupCount

\* A contract is stored within its array.
LEMMA ContractKeeps ==
    ASSUME ReaderInv, ReadContract
    PROVE  ReaderInv'
<1>1. at = "contract" /\ UNCHANGED <<stream, raw, attempt>>
  BY DEF ReadContract, Reading
<1>2. /\ i \in 0..(MAX_TX_SIGNERS - 1) /\ tx \in Transaction /\ TypeOK
      /\ tx.signers[i] \in Signers
  BY <1>1, SignerPlace DEF InSigner
<1>3. /\ j \in 0..(tx.signers[i].allowed_contracts_size - 1) /\ j \in Nat
      /\ tx.signers[i].allowed_contracts_size \in 0..MAX_SIGNER_SUB_ITEMS
  BY <1>1, <1>2 DEF TypeOK, Signers
<1>4. j \in 0..(MAX_SIGNER_SUB_ITEMS - 1)
  BY <1>3, LimitsAssumption
<1> DEFINE a == IF Readable("hash") THEN Value ELSE Unset
<1>5. a \in Hash160 \cup {Unset}
  BY <1>2, ValueType, ItemValue DEF Value
<1>6. tx' = [tx EXCEPT !.signers[i].allowed_contracts[j] = a]
  BY DEF ReadContract
<1> HIDE DEF a
<1> DEFINE s == [tx.signers[i] EXCEPT !.allowed_contracts[j] = a]
<1>7. /\ s \in Signers /\ s.account = tx.signers[i].account
      /\ s.scope = tx.signers[i].scope
      /\ s.allowed_contracts_size = tx.signers[i].allowed_contracts_size
  BY <1>2, <1>4, <1>5 DEF Signers
<1>8. tx' = [tx EXCEPT !.signers[i] = s]
  BY <1>6
<1> HIDE DEF s
<1>9. tx' \in Transaction
  BY <1>2, <1>7, <1>8, SetSigner
<1>10. CASE ~Readable("hash")
  BY <1>1, <1>2, <1>9, <1>10, RefusalKeeps, Offsets DEF ReadContract, Refuse
<1>11. CASE Readable("hash")
  <2>1. /\ off' = off + 1
        /\ IF j + 1 < tx.signers[i].allowed_contracts_size THEN Goto("contract", i, j + 1)
           ELSE AfterContracts(tx.signers[i].scope)
    BY <1>11 DEF ReadContract
  <2>2. /\ tx'.signers_size = tx.signers_size
        /\ tx'.version = tx.version /\ tx'.system_fee = tx.system_fee
        /\ tx'.network_fee = tx.network_fee
        /\ tx'.signers[i] = s
        /\ \A l \in 0..(MAX_TX_SIGNERS - 1) :
              /\ tx'.signers[l].account = tx.signers[l].account
              /\ tx'.signers[l].scope = tx.signers[l].scope
    BY <1>2, <1>7, <1>8 DEF Transaction
  <2>3. SignerGoto /\ at' # "scope"
    <3>1. CASE j + 1 < tx.signers[i].allowed_contracts_size
      BY <1>3, <1>7, <2>1, <2>2, <3>1 DEF SignerGoto, Goto
    <3>2. CASE ~(j + 1 < tx.signers[i].allowed_contracts_size)
      BY <2>1, <3>2 DEF SignerGoto, AfterContracts, AfterSigner, Goto
    <3> QED
      BY <3>1, <3>2
  <2>4. off' \in 0..Len(raw)
    BY <1>2, <1>11, <2>1, Offsets
  <2> QED
    BY <1>1, <1>9, <2>2, <2>3, <2>4, ListStepKeeps DEF InSigner
<1> QED
  BY <1>10, <1>11

\* A group is stored within its array.
LEMMA GroupKeeps ==
    ASSUME ReaderInv, ReadGroup
    PROVE  ReaderInv'
<1>1. at = "group" /\ UNCHANGED <<stream, raw, attempt>>
  BY DEF ReadGroup, Reading
<1>2. /\ i \in 0..(MAX_TX_SIGNERS - 1) /\ tx \in Transaction /\ TypeOK
      /\ tx.signers[i] \in Signers
  BY <1>1, SignerPlace DEF InSigner
<1>3. /\ j \in 0..(tx.signers[i].allowed_groups_size - 1) /\ j \in Nat
      /\ tx.signers[i].allowed_groups_size \in 0..MAX_SIGNER_SUB_ITEMS
  BY <1>1, <1>2 DEF TypeOK, Signers
<1>4. j \in 0..(MAX_SIGNER_SUB_ITEMS - 1)
  BY <1>3, LimitsAssumption
<1> DEFINE a == IF Readable("key") THEN Value ELSE Unset
<1>5. a \in Keys \cup {Unset}
  BY <1>2, ValueType, ItemValue DEF Value
<1>6. tx' = [tx EXCEPT !.signers[i].allowed_groups[j] = a]
  BY DEF ReadGroup
<1> HIDE DEF a
<1> DEFINE s == [tx.signers[i] EXCEPT !.allowed_groups[j] = a]
<1>7. /\ s \in Signers /\ s.account = tx.signers[i].account
      /\ s.scope = tx.signers[i].scope
      /\ s.allowed_groups_size = tx.signers[i].allowed_groups_size
  BY <1>2, <1>4, <1>5 DEF Signers
<1>8. tx' = [tx EXCEPT !.signers[i] = s]
  BY <1>6
<1> HIDE DEF s
<1>9. tx' \in Transaction
  BY <1>2, <1>7, <1>8, SetSigner
<1>10. CASE ~Readable("key")
  BY <1>1, <1>2, <1>9, <1>10, RefusalKeeps, Offsets DEF ReadGroup, Refuse
<1>11. CASE Readable("key")
  <2>1. /\ off' = off + 1
        /\ IF j + 1 < tx.signers[i].allowed_groups_size THEN Goto("group", i, j + 1)
           ELSE AfterSigner
    BY <1>11 DEF ReadGroup
  <2>2. /\ tx'.signers_size = tx.signers_size
        /\ tx'.version = tx.version /\ tx'.system_fee = tx.system_fee
        /\ tx'.network_fee = tx.network_fee
        /\ tx'.signers[i] = s
        /\ \A l \in 0..(MAX_TX_SIGNERS - 1) :
              /\ tx'.signers[l].account = tx.signers[l].account
              /\ tx'.signers[l].scope = tx.signers[l].scope
    BY <1>2, <1>7, <1>8 DEF Transaction
  <2>3. SignerGoto /\ at' # "scope"
    <3>1. CASE j + 1 < tx.signers[i].allowed_groups_size
      BY <1>3, <1>7, <2>1, <2>2, <3>1 DEF SignerGoto, Goto
    <3>2. CASE ~(j + 1 < tx.signers[i].allowed_groups_size)
      BY <2>1, <3>2 DEF SignerGoto, AfterSigner, Goto
    <3> QED
      BY <3>1, <3>2
  <2>4. off' \in 0..Len(raw)
    BY <1>2, <1>11, <2>1, Offsets
  <2> QED
    BY <1>1, <1>9, <2>2, <2>3, <2>4, ListStepKeeps DEF InSigner
<1> QED
  BY <1>10, <1>11

\* A step from one part behind the signers to another.
LEMMA BehindSignersKeeps ==
    ASSUME ReaderInv, at \in {"attributes", "attribute"}, at' \in {"attribute", "script"},
           tx' \in Transaction, off' \in 0..Len(raw), UNCHANGED <<stream, raw, attempt, status>>,
           tx'.signers_size = tx.signers_size, tx'.signers = tx.signers,
           tx'.version = tx.version, tx'.system_fee = tx.system_fee,
           tx'.network_fee = tx.network_fee,
           i' \in Nat, j' \in Nat,
           at' = "attribute" => i' \in 0..(tx'.attributes_size - 1),
           at' = "attribute" /\ i' > 0 => tx'.attributes[0] = "HIGH_PRIORITY",
           at' = "script" => tx'.attributes_size <= 1
    PROVE  ReaderInv'
<1>1. /\ stream \in Seq(Items) /\ raw \in Seq(Items) /\ status = "none" /\ HeaderRead(tx, 5)
      /\ tx.signers_size \in MIN_TX_SIGNERS..MAX_TX_SIGNERS
      /\ Distinct(tx, tx.signers_size) /\ GlobalAlone(tx, tx.signers_size)
  BY DEF ReaderInv, TypeOK, AccountsRead, ScopesRead, InSigner, AfterSigners
<1>2. TypeOK'
  BY <1>1 DEF TypeOK, Places
<1>3. HeaderRead(tx', 5)
  BY <1>1 DEF HeaderRead
<1>4. Distinct(tx', tx'.signers_size) /\ GlobalAlone(tx', tx'.signers_size)
  BY <1>1 DEF Distinct, GlobalAlone
<1>5. AccountsRead' = tx'.signers_size /\ ScopesRead' = tx'.signers_size
  BY DEF AccountsRead, ScopesRead, InSigner, AfterSigners
<1> QED
  BY <1>1, <1>2, <1>3, <1>4, <1>5 DEF ReaderInv, AcceptedIsValid, Accepted

\* The count of the attributes fits their array.
LEMMA AttributeCountKeeps ==
    ASSUME ReaderInv, ReadAttributeCount
    PROVE  ReaderInv'
<1>1. at = "attributes" /\ UNCHANGED <<stream, raw, attempt>> /\ TypeOK /\ tx \in Transaction
  BY DEF ReadAttributeCount, Reading, ReaderInv, TypeOK
<1>2. CASE ~Readable("varint")
  BY <1>1, <1>2, RefusalKeeps, Offsets DEF ReadAttributeCount, Refuse
<1>3. CASE Readable("varint") /\ (Value > MAX_ATTRIBUTES \/ Value > 2)
  <2>1. Value \in Nat
    BY <1>1, <1>3, ValueType, ItemValue DEF Value
  <2>2. TakeAndRefuse("ATTRIBUTES_LENGTH_VALUE_ERROR") /\ UNCHANGED tx
    BY <1>3, <2>1, LimitsAssumption DEF ReadAttributeCount
  <2> QED
    BY <1>1, <1>3, <2>2, RefusalKeeps, Offsets DEF TakeAndRefuse
<1>4. CASE Readable("varint") /\ ~(Value > MAX_ATTRIBUTES \/ Value > 2)
  <2>1. Value \in Nat
    BY <1>1, <1>4, ValueType, ItemValue DEF Value
  <2>2. /\ tx' = [tx EXCEPT !.attributes_size = Value] /\ off' = off + 1
        /\ at' = (IF Value > 0 THEN "attribute" ELSE "script") /\ i' = 0 /\ j' = 0
        /\ status' = status
    BY <1>4, <2>1, LimitsAssumption DEF ReadAttributeCount, TakeAndGoto, Goto
  <2>3. Value \in 0..MAX_ATTRIBUTES
    BY <1>4, <2>1, LimitsAssumption
  <2>4. /\ tx' \in Transaction /\ tx'.signers_size = tx.signers_size /\ tx'.signers = tx.signers
        /\ tx'.version = tx.version /\ tx'.system_fee = tx.system_fee
        /\ tx'.network_fee = tx.network_fee /\ tx'.attributes_size = Value
    BY <1>1, <2>2, <2>3 DEF Transaction
  <2>5. off' \in 0..Len(raw)
    BY <1>1, <1>4, <2>2, Offsets
  <2>6. /\ at' = "attribute" => i' \in 0..(tx'.attributes_size - 1)
        /\ at' = "script" => tx'.attributes_size <= 1
    BY <2>1, <2>2, <2>4
  <2> QED
    BY <1>1, <2>2, <2>4, <2>5, <2>6, BehindSignersKeeps
<1> QED
  BY <1>2, <1>3, <1>4 DEF ReadAttributeCount

\* A second attribute is always refused, as a duplicate of the first.
LEMMA AttributeKeeps ==
    ASSUME ReaderInv, ReadAttribute
    PROVE  ReaderInv'
<1>1. /\ at = "attribute" /\ UNCHANGED <<stream, raw, attempt>> /\ TypeOK /\ tx \in Transaction
      /\ i > 0 => tx.attributes[0] = "HIGH_PRIORITY"
      /\ i \in 0..(tx.attributes_size - 1) /\ i \in Nat
      /\ tx.attributes_size \in 0..MAX_ATTRIBUTES
  BY DEF ReadAttribute, Reading, ReaderInv, TypeOK, Transaction
<1>2. CASE ~Readable("attribute")
  BY <1>1, <1>2, RefusalKeeps, Offsets DEF ReadAttribute, Refuse
<1>3. CASE Readable("attribute") /\ Value # "HIGH_PRIORITY"
  BY <1>1, <1>3, RefusalKeeps, Offsets DEF ReadAttribute, TakeAndRefuse
<1>4. CASE Readable("attribute") /\ Value = "HIGH_PRIORITY" /\ DuplicateAttribute(Value)
  BY <1>1, <1>4, RefusalKeeps, Offsets DEF ReadAttribute, TakeAndRefuse
<1>5. CASE Readable("attribute") /\ Value = "HIGH_PRIORITY" /\ ~DuplicateAttribute(Value)
  <2>1. i = 0
    <3>1. 0 \in 0..(tx.attributes_size - 1)
      BY <1>1, LimitsAssumption
    <3>2. tx.attributes[0] # "HIGH_PRIORITY"
      BY <1>5, <3>1 DEF DuplicateAttribute
    <3> QED
      BY <1>1, <3>2
  <2>2. /\ tx' = [tx EXCEPT !.attributes[i] = "HIGH_PRIORITY"] /\ off' = off + 1
        /\ IF i + 1 < tx.attributes_size THEN TakeAndGoto("attribute", i + 1, 0)
           ELSE TakeAndGoto("script", 0, 0)
    BY <1>5 DEF ReadAttribute, TakeAndGoto
  <2>3. 0 \in 0..(MAX_ATTRIBUTES - 1)
    BY <1>1, LimitsAssumption
  <2>4. /\ tx' \in Transaction /\ tx'.signers_size = tx.signers_size /\ tx'.signers = tx.signers
        /\ tx'.version = tx.version /\ tx'.system_fee = tx.system_fee
        /\ tx'.network_fee = tx.network_fee /\ tx'.attributes_size = tx.attributes_size
        /\ tx'.attributes[0] = "HIGH_PRIORITY"
    BY <1>1, <2>1, <2>2, <2>3 DEF Transaction
  <2>5. off' \in 0..Len(raw)
    BY <1>1, <1>5, <2>2, Offsets
  <2>6. /\ at' \in {"attribute", "script"} /\ i' \in Nat /\ j' \in Nat /\ status' = status
        /\ at' = "attribute" => i' \in 0..(tx'.attributes_size - 1)
        /\ at' = "script" => tx'.attributes_size <= 1
    BY <1>1, <2>1, <2>2, <2>4, LimitsAssumption DEF TakeAndGoto, Goto
  <2> QED
    BY <1>1, <2>4, <2>5, <2>6, BehindSignersKeeps
<1> QED
  BY <1>2, <1>3, <1>4, <1>5 DEF ReadAttribute

\* What the recogniser stores keeps the types, and touches nothing that was checked.
LEMMA RecogniserType ==
    ASSUME NEW t \in Transaction, NEW s \in Seq(Instructions)
    PROVE  LET u == try_parse_transfer_script(s, t)
           IN  /\ u \in Transaction
               /\ u.signers_size = t.signers_size /\ u.signers = t.signers
               /\ u.version = t.version /\ u.system_fee = t.system_fee
               /\ u.network_fee = t.network_fee /\ u.attributes_size = t.attributes_size
               /\ u.script = t.script
<1>1. HasAmount(s) => Amount(s[2]) \in Int
  <2> SUFFICES ASSUME HasAmount(s) PROVE Amount(s[2]) \in Int
    OBVIOUS
  <2>1. PICK x \in Instructions : x = s[2] /\ x.op \in AmountOps
    BY DEF HasAmount
  <2>2. x.v \in Int
    BY <2>1, ByteAssumption DEF Instructions, AmountOps
  <2>3. Word16 \in Int /\ Word32 \in Int /\ Word64 \in Int
    BY ByteAssumption DEF Word16, Word32, Word64
  <2>4. \A w \in Int : Signed(x.v, w) \in Int
    BY <2>2 DEF Signed
  <2>5. Amount(x) \in Int
    <3>1. Signed(x.v, Word16) \in Int /\ Signed(x.v, Word32) \in Int /\ Signed(x.v, Word64) \in Int
      BY <2>3, <2>4
    <3>2. Amount(x) \in {x.v, Signed(x.v, Word16), Signed(x.v, Word32), Signed(x.v, Word64)}
      BY <2>1 DEF Amount, AmountOps
    <3> QED
      BY <2>2, <3>1, <3>2
  <2> QED
    BY <2>1, <2>5
<1>2. HasDestination(s) => Address(s[3].v) \in Addresses
  BY DEF HasDestination, IsHash, Addresses
<1> DEFINE amount == IF HasAmount(s) THEN Amount(s[2]) ELSE t.amount
           address == IF HasDestination(s) THEN Address(s[3].v) ELSE t.dst_address
           neo == t.is_neo \/ (HasContract(s) /\ s[9].v = NEO)
           transfer == t.is_system_asset_transfer \/ IsTransfer(s)
           u == [t EXCEPT !.amount = amount, !.dst_address = address, !.is_neo = neo,
                          !.is_system_asset_transfer = transfer]
<1>3. amount \in Int
  BY <1>1 DEF Transaction
<1>4. address \in Addresses \cup {Unset}
  BY <1>2 DEF Transaction
<1>5. neo \in BOOLEAN /\ transfer \in BOOLEAN
  BY DEF Transaction
<1>6. try_parse_transfer_script(s, t) = u
  BY DEF try_parse_transfer_script
<1> HIDE DEF amount, address, neo, transfer
<1>7. /\ u \in Transaction
      /\ u.signers_size = t.signers_size /\ u.signers = t.signers
      /\ u.version = t.version /\ u.system_fee = t.system_fee
      /\ u.network_fee = t.network_fee /\ u.attributes_size = t.attributes_size
      /\ u.script = t.script
  BY <1>3, <1>4, <1>5 DEF Transaction
<1> QED
  BY <1>6, <1>7

\* The script: all that was read is as its checks want it, and nothing follows.
LEMMA ScriptKeeps ==
    ASSUME ReaderInv, ReadScript
    PROVE  ReaderInv'
<1>1. /\ at = "script" /\ UNCHANGED <<stream, raw, attempt>> /\ TypeOK /\ tx \in Transaction
      /\ HeaderRead(tx, 5) /\ tx.signers_size \in MIN_TX_SIGNERS..MAX_TX_SIGNERS
      /\ Distinct(tx, tx.signers_size) /\ GlobalAlone(tx, tx.signers_size)
      /\ tx.attributes_size <= 1 /\ off \in 0..Len(raw) /\ raw \in Seq(Items)
      /\ stream \in Seq(Items) /\ i \in Nat /\ j \in Nat
  BY DEF ReadScript, Reading, ReaderInv, TypeOK, AccountsRead, ScopesRead, InSigner, AfterSigners
<1>2. CASE ~Readable("varint")
  BY <1>1, <1>2, RefusalKeeps, Offsets DEF ReadScript, Refuse
<1>3. CASE Readable("varint") /\ ~WholeScript
  <2>1. tx' = [tx EXCEPT !.script = <<>>] /\ TakeAndRefuse("SCRIPT_LENGTH_VALUE_ERROR")
    BY <1>3 DEF ReadScript
  <2>2. tx' \in Transaction
    <3>1. <<>> \in Seq(Instructions)
      OBVIOUS
    <3> QED
      BY <1>1, <2>1, <3>1 DEF Transaction
  <2> QED
    BY <1>1, <1>3, <2>1, <2>2, RefusalKeeps, Offsets DEF TakeAndRefuse
<1>4. CASE Readable("varint") /\ WholeScript
  <2>1. /\ tx' = try_parse_transfer_script(WithScript.script, WithScript)
        /\ off' = off + 2 /\ Return(IF ScriptIsLast THEN "PARSING_OK" ELSE "INVALID_LENGTH_ERROR")
    BY <1>4 DEF ReadScript
  <2>2. off + 1 < Len(raw) /\ raw[off + 2].is = "script" /\ off + 2 \in 0..Len(raw)
    <3>1. off + 1 < Len(raw) /\ raw[off + 1 + 1].is = "script"
      <4>1. ReadableAt(off + 1, "script")
        BY <1>4 DEF WholeScript
      <4> QED
        BY <4>1 DEF ReadableAt
    <3> QED
      BY <1>1, <3>1
  <2>3. PICK x : x = ScriptBehind(raw, off)
    OBVIOUS
  <2>4. x \in Seq(Instructions) /\ (Value = Len(raw[off + 2].v) => x = raw[off + 2].v)
    <3>1. raw[off + 2] \in Items
      BY <1>1, <2>2
    <3>2. PICK v \in Seq(Instructions) : v = raw[off + 2].v
      BY <2>2, <3>1, ItemValue
    <3>3. PICK n \in Nat : n = Value /\ n >= 1 /\ n <= Len(v)
      <4>1. LongestScript \in Nat
        BY DEF LongestScript
      <4>2. Value \in 1..LongestScript /\ Value <= Len(v)
        BY <1>4, <3>2 DEF WholeScript
      <4> QED
        BY <4>1, <4>2
    <3>4. x = SubSeq(v, 1, n)
      BY <2>3, <3>2, <3>3 DEF ScriptBehind, Value
    <3>5. SubSeq(v, 1, n) \in Seq(Instructions) /\ (n = Len(v) => SubSeq(v, 1, n) = v)
      BY <3>3, PartOf
    <3> QED
      BY <3>2, <3>3, <3>4, <3>5
  <2>5. /\ WithScript \in Transaction /\ WithScript.script = x
        /\ WithScript.signers_size = tx.signers_size /\ WithScript.signers = tx.signers
        /\ WithScript.version = tx.version /\ WithScript.system_fee = tx.system_fee
        /\ WithScript.network_fee = tx.network_fee
        /\ WithScript.attributes_size = tx.attributes_size
    BY <1>1, <2>3, <2>4 DEF Transaction, WithScript
  <2>6. /\ tx' \in Transaction /\ tx'.script = x
        /\ tx'.signers_size = tx.signers_size /\ tx'.signers = tx.signers
        /\ tx'.version = tx.version /\ tx'.system_fee = tx.system_fee
        /\ tx'.network_fee = tx.network_fee /\ tx'.attributes_size = tx.attributes_size
    BY <2>1, <2>4, <2>5, RecogniserType
  <2>7. CASE ~ScriptIsLast
    <3>1. Return("INVALID_LENGTH_ERROR")
      BY <2>1, <2>7
    <3> QED
      BY <1>1, <2>1, <2>2, <2>6, <3>1, RefusalKeeps
  <2>8. CASE ScriptIsLast
    <3>1. at' = "idle" /\ i' = i /\ j' = j /\ off' = Len(raw)
      BY <2>1, <2>8 DEF Return, ScriptIsLast, AtEnd
    <3>2. TypeOK'
      BY <1>1, <2>2, <2>6, <3>1, <2>1 DEF TypeOK, Places
    <3>3. AcceptedIsValid'
      <4>1. off' = Len(raw') /\ tx'.script = raw'[Len(raw')].v
        BY <1>1, <2>4, <2>6, <2>8, <3>1 DEF ScriptIsLast, AtEnd
      <4>2. tx'.version = 0 /\ tx'.system_fee >= 0 /\ tx'.network_fee >= 0
        BY <1>1, <2>6 DEF HeaderRead
      <4>3. \A s, t \in 0..(tx'.signers_size - 1) :
              s # t => tx'.signers[s].account # tx'.signers[t].account
        BY <1>1, <2>6 DEF Distinct
      <4>4. \A s \in 0..(tx'.signers_size - 1) :
              "GLOBAL" \in tx'.signers[s].scope => tx'.signers[s].scope = {"GLOBAL"}
        BY <1>1, <2>6 DEF GlobalAlone
      <4> QED
        BY <1>1, <2>6, <4>1, <4>2, <4>3, <4>4 DEF AcceptedIsValid
    <3> QED
      BY <3>1, <3>2, <3>3 DEF ReaderInv, AccountsRead, ScopesRead, Distinct, GlobalAlone,
         InSigner, AfterSigners
  <2> QED
    BY <2>7, <2>8
<1> QED
  BY <1>2, <1>3, <1>4 DEF ReadScript

\* Every step of transaction_deserialize keeps the invariant.
LEMMA ParseKeeps == ReaderInv /\ Parse => ReaderInv'
BY HeaderKeeps, SignerCountKeeps, AccountKeeps, ScopeKeeps, ContractCountKeeps, ContractKeeps,
   GroupCountKeeps, GroupKeeps, AttributeCountKeeps, AttributeKeeps, ScriptKeeps DEF Parse

-----------------------------------------------------------------------------
(* The chunks, and the theorems. *)

\* A chunk only lengthens the bytes.
LEMMA AppendType ==
    ASSUME TypeOK, NEW n \in 1..Len(stream), Append_raw(n)
    PROVE  stream' \in Seq(Items) /\ raw' \in Seq(Items) /\ Len(raw) <= Len(raw')
<1>1. stream \in Seq(Items) /\ raw \in Seq(Items) /\ Len(stream) \in Nat
  BY DEF TypeOK
<1>2. /\ SubSeq(stream, 1, n) \in Seq(Items)
      /\ SubSeq(stream, n + 1, Len(stream)) \in Seq(Items)
  <2>1. \A k \in 1..n : k \in 1..Len(stream)
    BY <1>1
  <2>2. \A k \in (n + 1)..Len(stream) : k \in 1..Len(stream)
    BY <1>1
  <2> QED
    BY <1>1, <2>1, <2>2, SubSeqProperties
<1> QED
  BY <1>1, <1>2 DEF Append_raw

\* A chunk keeps the invariant, whether it is parsed after or not.
LEMMA ChunkKeeps ==
    ASSUME ReaderInv, NEW n \in 1..Len(stream), MoreChunk(n) \/ LastChunk(n)
    PROVE  ReaderInv'
<1>1. /\ at = "idle" /\ status' = "none" /\ stream' \in Seq(Items) /\ raw' \in Seq(Items)
      /\ Len(raw) <= Len(raw') /\ TypeOK /\ tx' = tx
  BY AppendType DEF ReaderInv, MoreChunk, LastChunk, Append_raw
<1>2. CASE MoreChunk(n)
  <2>1. at' = at /\ off' = off /\ i' = i /\ j' = j
    BY <1>2 DEF MoreChunk
  <2>2. off' \in 0..Len(raw')
    BY <1>1, <2>1 DEF TypeOK
  <2>3. TypeOK'
    BY <1>1, <2>1, <2>2 DEF TypeOK
  <2> QED
    BY <1>1, <2>1, <2>3 DEF ReaderInv, AccountsRead, ScopesRead, Distinct, GlobalAlone, InSigner,
       AfterSigners, AcceptedIsValid, Accepted
<1>3. CASE LastChunk(n)
  <2>1. at' = "header" /\ off' = 0 /\ i' = 0 /\ j' = 0
    BY <1>3 DEF LastChunk
  <2>2. off' \in 0..Len(raw')
    BY <1>1, <2>1
  <2>3. TypeOK'
    BY <1>1, <2>1, <2>2 DEF TypeOK, Places, Header
  <2> QED
    BY <1>1, <2>1, <2>3 DEF ReaderInv, HeaderRead, AccountsRead, ScopesRead, Distinct,
       GlobalAlone, InSigner, AfterSigners, AcceptedIsValid, Accepted
<1> QED
  BY <1>2, <1>3

\* The first chunk of another request keeps the invariant.
LEMMA RestartKeeps ==
    ASSUME ReaderInv, Restart
    PROVE  ReaderInv'
<1>1. /\ at' = "idle" /\ status' = "none" /\ stream' \in Seq(Items) /\ raw' = <<>> /\ off' = 0
      /\ i' = i /\ j' = j /\ tx' \in Transaction /\ TypeOK
  BY StreamsAssumption, ZeroIsTransaction DEF Restart, ReaderInv
<1>2. TypeOK'
  BY <1>1 DEF TypeOK, Places
<1> QED
  BY <1>1, <1>2 DEF ReaderInv, AccountsRead, ScopesRead, Distinct, GlobalAlone, InSigner,
     AfterSigners, AcceptedIsValid, Accepted

\* Every step keeps the invariant.
LEMMA NextReaderInv == ReaderInv /\ [Next]_vars => ReaderInv'
<1> SUFFICES ASSUME ReaderInv, [Next]_vars PROVE ReaderInv'
  OBVIOUS
<1>1. CASE Next
  BY <1>1, ParseKeeps, ChunkKeeps, RestartKeeps DEF Next
<1>2. CASE UNCHANGED vars
  BY <1>2 DEF vars, ReaderInv, TypeOK, AccountsRead, ScopesRead, Distinct, GlobalAlone,
     AcceptedIsValid, Accepted
<1> QED
  BY <1>1, <1>2

\* The invariant holds in every reachable state.
LEMMA ReaderInvariant == Spec => []ReaderInv
BY InitReaderInv, NextReaderInv, PTL DEF Spec

\* For all streams, limits and numbers of attempts: a list never outgrows its array, no loop
\* counter its list, and the offset stays within the bytes (transaction_deserialize).
THEOREM ReaderTypeCorrect == Spec => []TypeOK
<1>1. ReaderInv => TypeOK
  BY DEF ReaderInv
<1> QED
  BY <1>1, ReaderInvariant, PTL

\* For all streams, limits and numbers of attempts: what transaction_deserialize answers
\* with PARSING_OK has the form a transaction must have, although the structure may hold
\* what earlier attempts stored.
THEOREM AcceptedTransactions == Spec => []AcceptedIsValid
<1>1. ReaderInv => AcceptedIsValid
  BY DEF ReaderInv
<1> QED
  BY <1>1, ReaderInvariant, PTL

\* The signers of the structure as the pager of the review counts them.
Shapes ==
    [k \in 1..tx.signers_size |->
        [contracts |-> tx.signers[k - 1].allowed_contracts_size,
         groups |-> tx.signers[k - 1].allowed_groups_size]]

\* What SignerPages assumes of the transactions it reviews, ReviewsAssumption, holds of all
\* that transaction_deserialize accepts: as many signers and items as its cursors can count.
THEOREM AcceptedFitsPager ==
    Spec => [](Accepted =>
        /\ Shapes \in Seq([contracts : 0..MAX_SIGNER_SUB_ITEMS, groups : 0..MAX_SIGNER_SUB_ITEMS])
        /\ Len(Shapes) \in 1..MAX_TX_SIGNERS)
<1> DEFINE Shape == [contracts : 0..MAX_SIGNER_SUB_ITEMS, groups : 0..MAX_SIGNER_SUB_ITEMS]
<1>1. ASSUME ReaderInv, Accepted
      PROVE  Shapes \in Seq(Shape) /\ Len(Shapes) \in 1..MAX_TX_SIGNERS
  <2>1. tx.signers_size \in MIN_TX_SIGNERS..MAX_TX_SIGNERS /\ tx \in Transaction
    BY <1>1 DEF ReaderInv, TypeOK, AcceptedIsValid
  <2>2. tx.signers_size \in 1..MAX_TX_SIGNERS /\ tx.signers_size \in Nat
    BY <2>1, LimitsAssumption
  <2>3. ASSUME NEW k \in 1..tx.signers_size
        PROVE  [contracts |-> tx.signers[k - 1].allowed_contracts_size,
                groups |-> tx.signers[k - 1].allowed_groups_size] \in Shape
    <3>1. k - 1 \in 0..(MAX_TX_SIGNERS - 1)
      BY <2>2, LimitsAssumption
    <3>2. PICK s \in Signers : s = tx.signers[k - 1]
      BY <2>1, <3>1 DEF Transaction
    <3>3. /\ s.allowed_contracts_size \in 0..MAX_SIGNER_SUB_ITEMS
          /\ s.allowed_groups_size \in 0..MAX_SIGNER_SUB_ITEMS
      BY DEF Signers
    <3> QED
      BY <3>2, <3>3
  <2>4. Shapes \in [1..tx.signers_size -> Shape]
    BY <2>3 DEF Shapes
  <2> HIDE DEF Shape
  <2>5. Shapes \in Seq(Shape)
    BY <2>2, <2>4, SeqDef
  <2>6. Len(Shapes) = tx.signers_size
    <3>1. DOMAIN Shapes = 1..Len(Shapes) /\ Len(Shapes) \in Nat
      BY <2>5, LenProperties
    <3>2. DOMAIN Shapes = 1..tx.signers_size
      BY <2>4
    <3> QED
      BY <2>2, <3>1, <3>2
  <2> QED
    BY <2>2, <2>5, <2>6
<1> QED
  BY <1>1, ReaderInvariant, PTL
=============================================================================
