-------------------------- MODULE TransactionFormat --------------------------
(***************************************************************************)
(* What the parser should do, told without a parser: how a transaction is  *)
(* written, which transactions the application signs, and what the virtual *)
(* machine does with the script of one.                                    *)
(***************************************************************************)
EXTENDS TransactionReader, SequencesExt

\* A transaction as a wallet has it: its lists are sequences.
WalletSigners ==
    [account : Hash160, scope : SUBSET Scopes, contracts : Seq(Hash160), groups : Seq(Keys)]
WalletTransactions ==
    [version : Nat, nonce : Nat, system_fee : Int, network_fee : Int, valid_until_block : Nat,
     signers : Seq(WalletSigners), attributes : Seq({"HIGH_PRIORITY", "OTHER"}),
     script : Seq(Instructions)]

CONSTANT Transactions   \* the transactions hosts may write

ASSUME TransactionsAssumption == \A t \in Transactions : t \in WalletTransactions

\* How it is written.
WriteList(is, l) == <<Item("varint", Len(l))>> \o [k \in 1..Len(l) |-> Item(is, l[k])]

WriteSigner(s) ==
    <<Item("hash", s.account), Item("scope", s.scope)>>
    \o (IF "CUSTOM_CONTRACTS" \in s.scope \/ s.contracts # <<>>
        THEN WriteList("hash", s.contracts) ELSE <<>>)
    \o (IF "CUSTOM_GROUPS" \in s.scope \/ s.groups # <<>>
        THEN WriteList("key", s.groups) ELSE <<>>)

Write(t) ==
    [k \in 1..Len(Header) |-> Item(Header[k], t[Header[k]])]
    \o <<Item("varint", Len(t.signers))>>
    \o FlattenSeq([k \in 1..Len(t.signers) |-> WriteSigner(t.signers[k])])
    \o WriteList("attribute", t.attributes)
    \o <<Item("varint", Len(t.script))>>
    \o (IF t.script = <<>> THEN <<>> ELSE <<Item("script", t.script)>>)

\* The first n elements of an array.
Listed(array, n) == [k \in 1..n |-> array[k - 1]]

\* What a review shows of the structure: all of it, up to the counts.
Reviewed ==
    [version |-> tx.version, nonce |-> tx.nonce,
     system_fee |-> tx.system_fee, network_fee |-> tx.network_fee,
     valid_until_block |-> tx.valid_until_block,
     signers |->
        [k \in 1..tx.signers_size |->
            LET s == tx.signers[k - 1] IN
            [account |-> s.account, scope |-> s.scope,
             contracts |-> Listed(s.allowed_contracts, s.allowed_contracts_size),
             groups |-> Listed(s.allowed_groups, s.allowed_groups_size)]],
     attributes |-> Listed(tx.attributes, tx.attributes_size),
     script |-> tx.script]

\* The signers the limits of transaction/types.h let pass.  A list is written only behind a
\* scope that announces it.
SupportedSigner(s) ==
    /\ "GLOBAL" \in s.scope => s.scope = {"GLOBAL"}
    /\ s.contracts # <<>> => "CUSTOM_CONTRACTS" \in s.scope
    /\ s.groups # <<>> => "CUSTOM_GROUPS" \in s.scope
    /\ Len(s.contracts) <= MAX_SIGNER_SUB_ITEMS
    /\ Len(s.groups) <= MAX_SIGNER_SUB_ITEMS

\* The transactions its limits and comments let pass.
Supported(t) ==
    /\ t.version = 0 /\ t.system_fee >= 0 /\ t.network_fee >= 0
    /\ Len(t.signers) \in MIN_TX_SIGNERS..MAX_TX_SIGNERS
    /\ IsInjective([k \in 1..Len(t.signers) |-> t.signers[k].account])
    /\ \A s \in ToSet(t.signers) : SupportedSigner(s)
    /\ t.attributes \in {<<>>, <<"HIGH_PRIORITY">>}
    /\ Len(t.attributes) <= MAX_ATTRIBUTES
    /\ Len(t.script) \in 1..LongestScript

-----------------------------------------------------------------------------
(* The stack of the NEO virtual machine; its top is the last element. *)

Int_(n) == [type |-> "int", n |-> n]
Bytes_(b) == [type |-> "bytes", b |-> b]
Null_ == [type |-> "null"]
Array_(l) == [type |-> "array", l |-> l]

Pushed(ins) ==
    CASE ins.op = "PUSHNULL" -> Null_
      [] ins.op = "PUSH" -> Int_(ins.v)
      [] ins.op = "PUSHINT8" -> Int_(Signed(ins.v, BYTE))
      [] ins.op = "PUSHINT16" -> Int_(Signed(ins.v, Word16))
      [] ins.op = "PUSHINT32" -> Int_(Signed(ins.v, Word32))
      [] ins.op = "PUSHINT64" -> Int_(Signed(ins.v, Word64))
      [] OTHER -> Bytes_(ins.v)

\* One instruction: the machine has a stack and the calls that were made.
Execute(m, ins) ==
    LET s == m.stack
        top(k) == s[Len(s) + 1 - k]
        rest(k) == SubSeq(s, 1, Len(s) - k)
    IN  CASE m.fault -> m
          [] ~m.fault /\ ins.op = "PACK" ->
                IF s = <<>> \/ top(1).type # "int" \/ top(1).n \notin 0..(Len(s) - 1)
                THEN [m EXCEPT !.fault = TRUE]
                ELSE [m EXCEPT !.stack =
                        Append(rest(top(1).n + 1), Array_([k \in 1..top(1).n |-> top(k + 1)]))]
          [] ~m.fault /\ ins.op = "SYSCALL" ->
                IF ins.v # "System.Contract.Call" \/ Len(s) < 4
                THEN [m EXCEPT !.fault = TRUE]
                ELSE [m EXCEPT !.stack = rest(4), !.calls = Append(@,
                        [contract |-> top(1), method |-> top(2), flags |-> top(3), args |-> top(4)])]
          [] ~m.fault /\ ins.op = "OTHER" -> [m EXCEPT !.fault = TRUE]
          [] OTHER -> [m EXCEPT !.stack = Append(@, Pushed(ins))]

\* The machine after each of the instructions, and after the last one.
Run(script) ==
    LET m[k \in 0..Len(script)] ==
            IF k = 0 THEN [stack |-> <<>>, calls |-> <<>>, fault |-> FALSE]
            ELSE Execute(m[k - 1], script[k])
    IN  m[Len(script)]

-----------------------------------------------------------------------------
(* Properties. *)

\* What is signed is what is reviewed: the bytes of an accepted transaction are the
\* writing of what the structure says up to its counts.  Nothing in the bytes is left
\* out of the structure and nothing in the structure is from elsewhere.
AcceptedIsWritten == Accepted => raw = Write(Reviewed)

\* Nothing else is signed than what the limits let pass: what is reviewed is a wallet's
\* transaction, without a list that its signer's scope does not announce, an element that
\* was not read, or a script that was cut off, whatever was in the structure before.
AcceptedIsSupported == Accepted => Reviewed \in WalletTransactions /\ Supported(Reviewed)

\* A transfer on the screen is what the script does when it is executed: one call of
\* transfer, on the contract of the token, to the address, of the amount, negative ones
\* included unless it is PUSHINT8 that pushes them.
TransferIsExecuted ==
    Accepted /\ tx.is_system_asset_transfer =>
        LET m == Run(tx.script) IN
        /\ ~m.fault /\ m.stack = <<>> /\ Len(m.calls) = 1
        /\ LET c == m.calls[1] IN
           /\ c.contract = Bytes_(IF tx.is_neo THEN NEO ELSE GAS)
           /\ c.method = Bytes_("transfer")
           /\ c.args.type = "array" /\ Len(c.args.l) = 4
           /\ tx.dst_address = Address(c.args.l[2].b)
           /\ c.args.l[3].type = "int"
           /\ c.args.l[3].n >= 0 \/ tx.script[2].op # "PUSHINT8" => tx.amount = c.args.l[3].n
           /\ c.args.l[4] = Null_

\* A host that says that the last chunk is the last one, and no other, gets every
\* supported transaction to its review, in whatever pieces it sends it; and so does one
\* that said so too early before, of a transaction without attributes.
SupportedIsAccepted ==
    \A t \in Transactions :
        /\ Supported(t) /\ raw = Write(t)
        /\ at = "idle" /\ status # "none"
        /\ attempt = 1 \/ t.attributes = <<>>
        => Accepted

\* ATTRIBUTES_DUPLICATE_TYPE is the answer to a transaction with an attribute twice.
DuplicateIsInBytes ==
    status = "ATTRIBUTES_DUPLICATE_TYPE" =>
        \E m, n \in 1..Len(raw) :
            m # n /\ raw[m].is = "attribute" /\ raw[n].is = "attribute" /\ raw[m].v = raw[n].v
=============================================================================
