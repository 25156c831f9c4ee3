# A model of the NEO3 Ledger application

TLA+ modules for the Ledger Nano application of NEO N3 (`src/src/*.c`), TLC
configurations that check them on small instances, and TLAPS proofs of the
results that matter most. File names below are relative to `src/src`.

## The system

The application is one thread on a secure element. A host on USB sends commands
(APDUs); the device answers each with data and a status word. Some commands are
answered at once. Two of them, "show me this key" and "sign this transaction",
put a question on the screen; they are answered by the button the user presses.

| Component | Code | State | Operations |
| --- | --- | --- | --- |
| Request loop | `io.c`, `main.c` | `G_io_state`, `G_output_len`, `G_io_apdu_buffer` | `io_recv_command`, `io_send_response`, `io_event`, `app_main`, `main`, `app_exit` |
| Parser, dispatcher | `apdu/` | none | `apdu_parser`, `apdu_dispatcher` |
| Handlers | `handler/`, `helper/` | `G_context` | `handler_get_version`, `handler_get_app_name`, `handler_get_public_key`, `handler_sign_tx` |
| Approval | `ui/action/validate.c` | `G_context`, the menu | `ui_action_validate_pubkey`, `ui_action_validate_transaction` |
| Screens | `ui/menu.c`, `ui/display.c` | the flow, `g_validate_callback`, text buffers | `ui_display_address`, `ui_display_transaction`, the menus |
| Signer pager | `ui/display.c` | `display_ctx`, `g_title`, `g_text` | `next_prop`, `prev_prop`, `get_next_data`, `display_next_state` |
| Crypto | `crypto.c` | `G_context.tx_info.signature` | key derivation, `crypto_sign_tx` |
| Deserializer | `transaction/deserialize.c` | `transaction_t` inside `G_context` | `transaction_deserialize` |
| Script recogniser | `transaction/tx_utils.c` | the same | `try_parse_transfer_script` |
| Path reader | `common/bip44.c` | none | `buffer_read_and_validate_bip44` |
| Buffers, varint, integers | `common/buffer.c`, `varint.c`, `read.c`, `write.c` | an offset | reads, seeks |
| Formatting | `common/format.c`, `ui/utils.c`, `common/base58.c` | none | amounts, addresses |

How they interact:

- `app_main` receives a command, parses it and calls the dispatcher, which calls
  one handler. A handler answers with `io_send_response`, or shows a flow and
  returns without an answer.
- While the thread is blocked in `io_exchange`, the SDK calls `io_event`, and a
  button press runs the callback of the step on the screen *inside* the blocked
  `io_exchange`. That is the only interleaving there is: handlers are atomic,
  callbacks fall between them.
- Everything is shared: `G_io_apdu_buffer` holds the command and then the
  response; `G_context` holds the key of an address screen and, in the same
  memory, the transaction; `g_text` holds the amount and, later, a signer.
- The exceptions of the SDK cut across all this: a USB reset unwinds to `main`, an
  exception of the crypto library unwinds to `app_main`, out of a handler or out of
  a callback that runs inside `io_exchange`.

What makes it correct, per component:

- *Request loop*: one response per command, never twice, never none, and with the
  command's own result; the loop blocks with a command open only while the user is
  asked.
- *Handlers, approval, screens*: a signature leaves the device only after the user
  approved a review of exactly what it signs; a question keeps its callback and its
  content; a key to be displayed is released only after approval.
- *Signer pager*: every page of every signer is shown, once and in order, in both
  directions; no index leaves its list; nobody can decide before the last page.
- *Deserializer, recogniser*: a transaction is accepted only when it is read to its
  last byte; what is shown is what the bytes say; a failed attempt has no effect on
  the next one.
- *Path reader, buffers, formatting*: a path is accepted and refused as documented, up
  to the two limits at which the code departs from the documents (see below), and taken
  from the bytes whole; no read or write leaves its buffer; digits and decimals are those
  of the number.

## The modules

| Module | What it is |
| --- | --- |
| `NeoApp` | the request loop, dispatcher, handlers, approval callbacks and screens as one state machine, with the host, the user and the crypto library as environment |
| `ConsentService` | the abstract specification: one request at a time, answered at once or after a question |
| `NeoAppService` | the refinement mapping from `NeoApp` to `ConsentService` |
| `MCNeoApp` | instances of `NeoApp` for TLC |
| `SignerPages` | the review of a transaction as the user pages through it |
| `ReviewCursor` | the abstract specification: a list of screens and a position |
| `SignerPagesReview` | the refinement mapping from `SignerPages` to `ReviewCursor` |
| `MCSignerPages` | instances of `SignerPages` for TLC |
| `TransferScript` | `try_parse_transfer_script`: which scripts are transfers, and what is shown of them |
| `TransactionReader` | `transaction_deserialize` read by read, over the chunks and the failed attempts of a signing request |
| `TransactionFormat` | the specification of the reader: how a transaction is written, which are supported, what the virtual machine does with a script |
| `MCTransactionReader` | instances of the three for TLC |
| `Buffers` | `buffer_t` with the integer readers and writers and the varints, every call in any order |
| `Bip44Path` | `buffer_read_and_validate_bip44` over such a buffer |
| `MCBuffers` | instances of the two for TLC |
| `Formats`, `Base58` | the text of an amount and of an address, as operators, with a reference for each |
| `ReviewTexts` | what `ui_display_transaction` and `parse_scope_name` write to the static arrays, over several reviews |
| `MCReviewTexts` | instances of `ReviewTexts` for TLC |
| `NeoAppProofs`, `NeoAppServiceProofs`, `SignerPagesProofs`, `BuffersProofs`, `TransactionReaderProofs`, `TransactionFormatProofs`, `ReviewTextsProofs` | the theorems |
| `InductionLemmas` | induction and what it shows of sequences that are joined, for `TransactionFormatProofs` and `ReviewTextsProofs` |

How they fit together: `NeoApp` is the application as a whole, with the readers as
oracles. Each reader then has a module of its own, and what `NeoApp` or
`SignerPages` assume of it is shown there: `Bip44Path` decides what `PathReading`
leaves open, with the partly filled path of a refusal; `TransactionReader` decides
between `Parsed` and a parsing error and keeps the structure between the attempts
`NeoApp` makes possible; the theorem `AcceptedFitsPager` proves the
`ReviewsAssumption` of `SignerPages` of every transaction that is accepted;
`Buffers` is what all of them read from; `ReviewTexts` fills in the texts the flow
of `SignerPages` shows, and its assumption on the fees is part of `AcceptedIsValid`.

### NeoApp

`pc` says where the thread is: `boot` (the head of `main`'s loop), `recv` (before
`io_recv_command`), `sync` and `async` (blocked in the first or the second of its
two calls of `io_exchange`), `dispatch` (a command has arrived), `exited`. The
variables `G_io_state`, `G_output_len`, `G_io_apdu_buffer`, `G_context` and
`g_validate_callback` are the C objects of those names. `flow` is the flow that is
up, `shown` what its texts were made from. `consent`, `pending` and `wire` are
history: what the user approved since the last command, the commands not yet
answered, and the last transmission with the commands that were open then.

One action is one handler path from the command to the return into `app_main`, or
one button callback. A response is built in the buffer by `io_send_response`; in
state `RECEIVED` it leaves with the next `io_recv_command`, in state `WAITING` at
once. The guards are the code's: the order checks of `handler_sign_tx`, for
instance, are the conjunctions of lines 50 and 60.

Abstractions:

- A payload is a model value; `PathReading`, `MagicReading` and `Size` say what
  the readers make of it. Public keys and signatures are represented by what they
  are computed from (a path; a path, a magic and the sequence of data chunks).
- `transaction_deserialize` succeeds or fails nondeterministically, and may
  recognise a transfer or not (the flag is never cleared, as in the code). This
  allows more than the code, where at most one prefix of `raw_tx` can be accepted;
  `TransactionReader` has the parser itself.
- Formatting succeeds or fails by `FormatOutcomes`; `ReviewTexts` shows that it never
  fails.
- The union of `raw_public_key` with the transaction is the value `overlaid`, which
  the key takes when chunks are stored.
- A transmission inside `io_exchange` is atomic, and the bytes of a response that a
  newer command overwrote are not modelled.

### SignerPages

`index` is the step on the screen, in the order of `create_transaction_flow`;
`display_ctx` and `g_text` are the C objects, a text being represented by what it
was printed from (the amount, or signer, property and item); `seen` is history. A
button moves by one step; when that step is a delimiter its init function,
`display_next_state`, moves the cursor and then the flow. The pages within one long
text, which `bnnn_paging` makes, are the SDK's. `signers` is fixed during a review.

### TransferScript, TransactionReader, TransactionFormat

`raw` is `raw_tx` as far as it has arrived, `stream` what the host still has to send;
`at` is the place in `transaction_deserialize`, `off`, `i` and `j` its offset and
loop counters, `tx` the `transaction_t` in `G_context`, `status` the answer to the
last chunk. One action is one field: the read, the check and the store of the code in
their order. A read that fails stores 0 or a null pointer where the code passes
the field itself to the read, and leaves it alone where it does not.

Bytes are items, one for each field the parser could read. A field that is cut
short by the end of the bytes, and one that has bytes its read does not take, is an
item that is absent. Chunks end between items; where a chunk ends inside a field, the
parser finds what it would find had the chunk ended before it. The length prefix of
the script is an item of its own, which may say more or less than there is: `WholeScript`
is that there is enough, `ScriptBehind` the part it announces, `ScriptIsLast` that
nothing of the script is left over.
Several encodings of the same varint are not told apart.

`MoreChunk` and `LastChunk` are the chunks: after a chunk that is said to be the last
one the parser runs over everything in `raw`; when it fails, the host may send more,
and the parser runs again over the longer `raw` *and the same structure*. That is the
hazard of this component: counts, attributes, the transfer flag and the amount of the
failed attempt are still there.

A script is the sequence of its instructions. `try_parse_transfer_script` says which
fields are stored before the function returns; `HasAmount`, `HasDestination` and
`HasContract` are the places where it may.

`TransactionFormat` specifies without a parser: `Write` is the serialisation,
`Supported` collects the limits of `transaction/types.h`, and `Run` executes a script
on a stack, as the virtual machine will. A signer is supported when it lists contracts
and groups only behind the scopes that announce them, as the parser reads a list only
there; the run has signers that do not. A script has at most 65535 bytes, the most that
`script_size` holds and the code reads.

### Buffers, Bip44Path

`ptr` and `offset` are those of `buffer_t`; `call` is the last call with its result,
which is what the properties speak of. `size_t` is an integer modulo `WORD`, and the
readers, writers and shifts are those of `read.c`, `write.c` and `varint.c`, in a base
`BYTE`. `Bip44Path` adds the context's path and the status; a refused level is read and
not stored, as in the code.

The buffers are sequences, so a read outside of them is an error of the model checker
and not a value; the memory around a buffer is not modelled.

### Formats, Base58, ReviewTexts

Texts are sequences of characters, the arrays' ends are `snprintf`'s. The state is
the static arrays, which keep what an earlier review wrote, and `g_scope`, which
`parse_scope_name` writes without clearing it. `dst_address` is 34 characters without
a zero behind them and printed with `%s`: `Following` is what the memory behind may
add, and the properties hold for either value.

`g_text` has two users. Here it is the amount `ui_display_transaction` writes;
that the signers' pages overwrite it is in `SignerPages`.

## The runs

| Run | Property | What it shows |
| --- | --- | --- |
| `lockstep` (73 980 states) | `TypeOK`, `AnswersItsCommand`, `WaitsOnlyForUser`, `QuestionIsContext`, `NeverGivesUp`, `ImplementsService`, `ServiceProgress` | with a host that awaits each answer; the same host sees the abstract service and its progress |
| `throws` (173 940) | `CommandsAreServed` | a crypto library that throws leaves no command open |
| `overlap` (591 515) | `SignatureIsConsented`, `ScreenHasItsCallback` | whatever the host and the crypto library do |
| `pages` (12 444) | `TypeOK`, `AllSeenBeforeDeciding`, `ImplementsCursor` | every transaction of up to 2 signers with up to 2 contracts and groups each |
| `reader` (57 333) | `TypeOK`, `AcceptedIsValid`, `AcceptedIsWritten`, `TransferIsScript`, `TransferIsExecuted`, `AcceptedIsSupported`, `SupportedIsAccepted` | what is accepted is what the bytes say, valid, and executes as it is shown, whatever earlier attempts left; nothing but what is supported is accepted; and what is supported is, by a later attempt too when there is no attribute |
| `buffers` (166 183) | `TypeOK`, `ReadsTakeTheirBytes`, `SeekIsExact`, `WrittenIsReadBack`, `VarintIsReadBack`, `ChunkIsMoved`, `AcceptedPathIsRead`, `RefusedPathIsCut` | any sequence of calls with any length; every level of a path at its limits, the documented ones and those of the code |
| `texts` (8 445) | `TypeOK`, `FormattingSucceeds`, `FeesAreShown`, `AmountIsShown`, `AddressIsShown`, `NumbersAreShown`, `ScopeIsShown` | what stands on the screen reads as the numbers, the address and the scope of the transaction under review |
| `chunk_order` | `DataAfterMagic`, violated | see below |
| `sign_fail` | `SigningFailureIsReported`, violated | see below |
| `amount` | `AmountStepShowsAmount`, violated | see below |
| `duplicate` | `DuplicateIsInBytes`, violated | see below |
| `network` | `NetworkIsNumber`, violated | see below |

Bounds:

- `MAX_TRANSACTION_LEN = 2` with payloads of size 1 and 2: a transaction may have
  one or two chunks, and both a chunk that just fits and one that does not occur.
- Three payloads: an accepted path that is also a magic, a path refused half-way
  that is too short for a magic, and one refused at once. Two magics, one of them 0.
- `MCCommands` has a command for every branch of the dispatcher and the handlers;
  `MCFewCommands` keeps signing, one command that clears the context and one that
  leaves it alone, for the larger runs.
- `MaxPending` is the number of commands the host has in flight. 1 is a host that
  awaits its answers, which the APDU protocol demands; 2 is a host that sends a
  command while a question is up, enough to have every command meet every question.
- `Pages.cfg` uses the code's own limits, `MAX_TX_SIGNERS = 2` and
  `MAX_SIGNER_SUB_ITEMS = 2`, so the run is exhaustive for the shipped program.
- `Reader.cfg` uses the code's limits (1 to 2 signers, 2 sub-items, 2 attributes).
  `MCTransactions` has transactions below, at and beyond each of them, every kind of
  amount at the ends of its range and at its change of sign, and a transfer with each
  of its instructions changed, missing or followed by another; a script whose length is
  said to be shorter or longer than it is; each is sent in all pieces. `MaxAttempts = 2`: what a failed attempt leaves meets the next one; a third
  would find what the second left, which is of the same kind. Bytes have 4 values:
  the only arithmetic on them is the sign, at half of each range.
- `Buffers.cfg`: bytes of 8 values leave 5 for small varints, as 256 leave 253, and the
  wide numbers stay within the integers of TLC. `WORD = 32` is larger than every
  buffer, and the lengths are near 0, near the sizes and near the end of the type,
  where sums go round. All buffers of up to two bytes, and longer ones around the
  sizes 4, 5, 8, 9 and 10 with every prefix. The limits of a path are those of the
  code and of the documents except for the number of addresses, 500 instead of 5000, which
  must stay below half of the 4096 numbers four such bytes make; each level takes the
  values on both sides of each of its limits, the account of the documented 10 and of the
  code's 16.
- `Texts.cfg`: 64-bit numbers are represented by 20-bit ones, with the arrays shortened
  by the same number of digits, 7 instead of 20, and 4 decimals instead of 8, so that
  there are still more digits than decimals; 32-bit ones by 6-bit ones. Base58 runs at
  its real size of 25 bytes, against the value of the text modulo nine primes whose
  product exceeds 256^25; the checksum is a constant. The names of the networks are one
  character each, since only the two numbers in 11 (here 3) characters matter. `MaxReviews =
  2`: what a review leaves in the arrays meets the next one.

Deadlock is checked everywhere: a blocked device can always be sent a command or
unplugged.

Fairness: `WF_vars(Device)` only, where `Device` is what the thread does by itself.
The processor runs whenever the thread is not blocked, so a step of it that stays
possible is taken. Nothing is assumed of the host or the user: they may stop at any
time. The liveness properties therefore end at "an answer or a question". The readers
and the pager have no liveness property: they are called and return.

### What the violated runs show

- `chunk_order`: `apdu/dispatcher.h` says that the second APDU must always be the
  network magic. The checks of `handler_sign_tx` (lines 50 and 60) are written
  with `&&`, so a chunk is refused only if request type and state are *both*
  wrong. Data is accepted right after the path, with network magic 0, and after a
  failed or a decided transaction too. `SignatureIsConsented` holds nevertheless:
  the review shows the magic that is signed.
- `sign_fail`: `COMMANDS.md` gives `SW_SIGN_FAIL` for a signature that could not be
  created. `crypto_sign_tx` rethrows what the library throws, so the host gets the
  number of the exception, and the review stays on the screen.
- `amount`: the step "Token amount" and the signers' generic step share `g_text`. A
  user who pages into the signers and back to the amount reads a signer's page
  under the title "Token amount".
- `duplicate`: `ATTRIBUTES_DUPLICATE_TYPE` is returned for a transaction that has one
  attribute. The loop compares with all the slots the count announces, the one about
  to be written included, and an attempt that ended behind the attribute has left the
  type there. A host that splits the transaction behind the attributes and marks the
  first part as the last cannot get it accepted any more without starting again.
  `SupportedIsAccepted` is for a host that does not do this, or whose transaction has
  no attribute: the theorem `SupportedAccepted` shows that nothing else of an earlier
  attempt can refuse a transaction.
- `network`: the comment on `g_network` says that a private network is shown as its
  `uint32` number; it is printed with `%d`, and a magic of 2^31 or more is shown as a
  negative number. `NumbersAreShown` has what does hold. `valid_until_block` is printed
  in the same way.

Other disagreements of the documents and comments with the code, seen while reading
and not subject of a run:

- `doc/COMMANDS.md`: the instruction codes of `GET_VERSION` and `GET_APP_NAME` are
  exchanged; the display flag of `GET_PUBLIC_KEY` is in P2, not P1; the values of P2
  for "more" and "last" of `SIGN_TX` are exchanged in a table; a refusal of the user
  is `SW_DENY`, not `SW_TX_USER_CONFIRMATION_FAIL`.
- The limit of the account is 16 (`0x80000010`, `common/bip44.c:37`), where `sw.h:64` and
  `COMMANDS.md:92` speak of values that exceed 10; the address 5000 is refused
  (`common/bip44.c:53`), where `sw.h:72` and `COMMANDS.md:94` speak of values that exceed
  5000. `Bip44Path` has the documented limits beside those of the code
  (`IsDocumentedPath`), and the two properties of the run `buffers` state where they
  differ, and that they differ nowhere else: an accepted path is a documented one unless
  its account is one of `ExcessAccounts`, 11 to 16, and a documented path is refused only
  if its address is in `RefusedIndices`, 5000.
- `SIGNER_ALLOWED_GROUPS_PARSING_ERROR` is never returned: a group that is cut short is
  answered with the code of a contract that is.
- `PUSHINT8` of 128 and more pushes a negative number and is shown as a positive one.
  `TransferIsExecuted` excepts this case, and so does not catch it; all other amounts,
  negative ones of the wider instructions included, are shown as they are pushed.

## What is proved

Every proof is checked by TLAPS for all values of the constants, from the
assumptions the modules name (payloads and readings have their types, limits are
naturals, at least one signer per review, a byte has more values than the varint
prefixes take, a `size_t` counts every buffer).

`NeoAppProofs`, for any number of commands in flight and any crypto library:

- `TypeCorrect`: `Spec => []TypeOK`.
- `ScreenCallback`, `SignatureConsent`. `SignatureIsConsented` speaks of `wire` and
  is not inductive: it says nothing of the signature that is about to be sent. The
  invariant is `ConsentInv`. A callback transmits only if it finds `WAITING`, so
  `ConsentInv` says where `WAITING` can be (in `io_exchange`) and that the review on
  the screen is then the one made from `G_context` as it is. A command that arrives
  under a review ends `WAITING`: whatever it does to the context, an approval of the
  old review then finds another state, and the signature it makes is stored and not
  sent. The last parts of `ConsentInv` say that such a signature never leaves: the
  buffer holds none when `io_recv_command` is about to send a response, and a
  signature that is on the wire was approved, with no question left on the screen.

Its last part is under `AwaitsAnswers` (one command at a time, no throwing
library): `EveryAnswerFits`, `WaitingMeansAsking`, `ScreenIsContext`,
`AppMainKeepsRunning`. The inductive invariant is `LockstepInv`: at each place of
the thread it says which `G_io_state` is possible, how many commands are open and
whether a question is up. Before `io_recv_command` there are three
cases: nothing has been received yet, a response that fits the one open command is
stored, or the command has led to the question on the screen. Without the part
about the buffer a stale response could be sent for a new command; without the part
about `G_io_state` the default case of `io_recv_command`, which ends `app_main`,
could not be excluded.

`NeoAppServiceProofs`, under the same assumption: `ServiceImplemented`, that the
application refines `ConsentService` by the mapping of `NeoAppService`. Each step of the
thread, the user and the host is a step of the service or leaves the mapped state
alone. `LockstepInv` is not enough for that: the service sends a key or a signature
only after the question it belongs to was approved, and while a response waits for
`io_recv_command` nothing in `LockstepInv` says which response it is.
`StoredNeedsNoUser` adds it: that response is never a signature, and is a key
only if the host did not ask for the display. `HandlerAnswersOrAsks` says what a
handler leaves behind: a response in the buffer, or a question.

`SignerPagesProofs`, for any number of signers, contracts and groups that `int8_t`
indices can count: `PagesTypeCorrect`, `AllSeen` and `PagesAreAList`. The inductive invariant
`PagerInv` says that the cursor is valid (the indices of the two lists are before,
at or behind the item shown, depending on the property), that it and the step of
the flow tell the same place, that the dynamic flag is up exactly while there is a
page, and that everything up to the cursor was seen. The lemmas `NextIsNext` and
`PrevIsBack` say that `next_prop` and `prev_prop` go to the neighbouring page, with
none between; `DelimiterKeepsPagerInv` combines them with `display_next_state`.
`PagesAreAList` is the refinement of `ReviewCursor`. The position of a page in the list
is one more than the number of pages before it, so the proof counts finite sets:
`Neighbours` says that pages with none between have adjoining positions, `ScreensAre`
which screen the list has at a position, and `StaticTurns` and `DelimiterTurns` that
either kind of step of the flow is one turn of the cursor or none.

`BuffersProofs`, for every size of bytes and of `size_t`:

- `ReadsAreExact`, `NumbersAreReadBack` and `VarintsAreReadBack`, for every width, either
  order and signed numbers. A number of w bytes is two numbers of half as many, so each
  width follows from the one below; the shifts and ors of `read.c` and the divisions of
  `write.c` are compared there. `WrittenIsReadBack` speaks of two calls: `WrittenInv` says
  of the state between them that the buffer holds the number or the varint of the last
  call, byte by byte.
- `BuffersTypeCorrect`, `SeeksAreExact`, `ChunksAreMoved`. The invariant `BufferInv` is
  the type with the offset inside the buffer; `SeekCurIsExact` shows that the test for
  a sum that went round together with the comparison with the size is the comparison
  of the unbounded sum, and `LeftIsExact` that `size - offset` never goes round.
- `AcceptedPath`, `RefusedPath`, for all limits of the levels that lie to each other as they
  do (`DocumentsAssumption`: the documented account is not above that of the code, the
  documented last address is the first one the code refuses). `PassingLevels` shows which
  paths the checks let pass, `DocumentedPaths` which documented ones they do not. `PathInv` relates the
  levels that are stored to the bytes they were read from: `BytesOfNumber` is the lemma
  that the four bytes of a number are those it is read from, and `ReadIsWritten` its
  use.

`TransactionReaderProofs`, for all streams, limits and numbers of attempts:

- `ReaderTypeCorrect`: counts and loop counters stay within their arrays.
- `AcceptedTransactions`. `AcceptedIsValid` speaks of the end of an attempt and of a
  structure that holds remains of earlier ones. The invariant `ReaderInv` therefore
  speaks only of what the current attempt has read on its way to `at`: the version and
  the fees behind the header, the signers before `i`, the parts of signer `i` that
  precede the place. The attributes are the exception, since the duplicate check
  looks at remains: what is needed is that a second attribute is always refused.
- `AcceptedFitsPager`: the shapes of the accepted signers are in `Seq(SignerShape)`,
  between one and `MAX_TX_SIGNERS` of them, which is what `SignerPages` assumes.

`TransactionFormatProofs`, for the same:

- `SignedIsReviewed` and `FlaggedIsTransfer`. The invariant is `FormatInv`. Its first part,
  `Located`, says where everything the current attempt has read is in the bytes: the
  header, one place for each signer from which its account, scope and lists follow, the
  attributes up to the loop counter. At the end the places cover all bytes, and the lemma
  `Written` puts them together to the serialisation of the structure. Its second part,
  `Justified`, is about what earlier attempts left. A count, the transfer flag or the token
  may be left over, but only if the bytes *that are still there* gave the reason: a scope
  that has the flag for the list, a script at the place where a script is. Bytes are only
  added, and the places of the signers are determined by the bytes (`EndIsInBytes`), so an
  attempt that is accepted finds the same scope and the same script there, and sets the
  count and the flag itself. This is why remains of a failed attempt are never shown.
- `ShownIsExecuted`: a script that `try_parse_transfer_script` recognises has ten or eleven
  instructions whose execution, step by step, is in `TransferRuns`; `AmountIsPushed` is
  that the amount shown is the number pushed, for every kind of `PUSH` but a negative
  `PUSHINT8`.
- `SupportedAccepted`, the converse of the first: what the limits let pass is accepted. It is
  proved in two halves that meet in `Fits`. `Fits` says of bytes alone that they are the
  places of signers, of attributes and of a script, and that all limits are kept.
  `SupportedFits` puts the pieces of `Write` one behind the other (`SignersPlaced`,
  `SixPlaces`) and so finds the places. The other half never mentions a transaction.
  Its invariant is `AcceptInv`: bytes that fit, when they are complete, are accepted. For each
  place of the parser there is a lemma (`AccountFits`, `ScopeFits`, ..., gathered in
  `ParseFits`) that no refusal applies there, because `FormatInv` says that
  what is read so far is in the bytes, and the places are determined by the bytes. Only
  `AttributeFits` needs more, as the duplicate check compares with what is in the structure:
  `Fresh` says that in the first attempt no attribute is there before the first is stored.
  `TransactionsAssumption` gives the types of a wallet's transaction and no limit.
- `AcceptedSupported`: nothing else is accepted. With `SignedIsReviewed` and
  `SupportedAccepted` this is what `transaction_deserialize` decides, exactly: the bytes of
  a first attempt are accepted if and only if they are how a supported transaction is
  written. The invariant `PlacesInv` keeps for the state after the last chunk what
  `FormatInv` says of the attempt, that all parts are at places in the bytes. What is
  there are items of their kinds, so no account or key is one that was not read
  (`HeldIs`, `ListedType`), and no count is there that a scope does not announce
  (`SignersAnnounced`).

`ReviewTextsProofs`, for all accepted transactions and all widths of their numbers, from
`SizesAssumption` (the arrays are as long as the largest numbers, at least 4 decimals and
fewer than digits), `NetworksAssumption`, and `AddressAssumption` (20 bytes of hash, 34
characters, which is what the code has):

- `FeesShown`, `AmountShown`, `EveryNumberFormats`. `DigitsAreNumber` says that the digits of
  `format_u64` are read back as the number; `NumberShows` that `format_fpu64` puts the point
  where it belongs in each of its three cases and never finds its array too short, though it
  asks for more room than it needs; `TitleIs` that the token's name and `snprintf` leave the
  number whole. The total is added in 64 bits: it is below `UINT64` because the parser
  refuses a fee with the sign set.
- `NumbersShown`: `NetworkIs` also says that no number reads as the name of a network.
- `AddressShown`. The digits of `base58_encode` are a number in base 58 that is multiplied by
  256 for each byte. The inner loop may stop before the first digit when nothing is
  carried into digits no byte has reached, and `stop_at` goes round when it does not. The
  loop invariant is `Running`: the digits left of the place are those of before, and what is
  carried, those digits and the finished ones together are the number wanted; `ByteAdds`
  is that the loop ends with that number and nothing to carry. That nothing is carried out of
  the first digit, where it would be lost, needs `DigitsAreEnough`: 138 characters for
  100 bytes are enough, for up to 25 bytes, by comparing the powers of 58 and 256 one by
  one. The first byte of an address is 53, so the text has 34 characters for every
  hash and checksum (`FirstDigits`).
- `ScopeShown`, `TextsFitArrays`: the words of a scope, written one behind the other, are those
  of its flags and fit `g_scope`.

The inductive invariant is `TextsInv`. It says of each amount what the text is made of
(`IsTitled`: the token's name, then a text that reads as the number, within its array), as
the properties say only parts of that. The lengths are kept apart from what the texts say: a
transaction that is not a transfer leaves `g_address` and `g_text` of an earlier one, so
they still fit but say nothing of `tx`. A scope without a known flag prints what is in `g_scope`,
so `PossibleWords` says what can be there.

`InductionLemmas` has induction over the numbers stated of sets (`SetInduction`), from the
least element of a well-founded set. With it `FlattenSeq` and `Run` are shown to be what
their recursive functions say, and where its parts are in a flattened sequence
(`FlattenPlaces`).

Only model-checked:

- liveness (`CommandsAreServed`, `ServiceProgress`), which is beyond the installed
  provers, as is `ENABLED`.

Every safety and action property of the passing runs is a theorem.

`SameNumber` compares numbers modulo nine primes, which is what TLC can compute; the proof of
`AddressShown` has the numbers themselves (`BytesStandFor`) and takes the remainders at the
end.

## What is not modelled

- What the signer pager reads when a host sends commands during a review:
  `SignerPages` keeps the signers fixed (`ui/display.c:373`).
- What should be shown for a scope without a flag that has a name: the screen shows
  the scope that was shown before (`ui/display.c:357`). No text says what should be there.
- That a group key, 66 characters, is cut to the 63 that `g_text` holds
  (`ui/display.c:507`); the printing is the SDK's.
- `format_i64`, `format_hex` and `base58_decode`, which the application does not call.
- The hashes (SHA-256, RIPEMD-160), the redeem script and the curve: data of the SDK.
- The SDK (`io_exchange`, flows, crypto): only as the code uses it.
- The bootloader side, USB descriptors, and the Python client of the tests.

## The plan

Done: the application and its service, the pager, the reader with the script
recogniser, the path, the buffers and the texts, with the safety proofs above. Left: the pager over the
context of `NeoApp`, for a host that does not await its answers, with a statement of
what such a page may show.
