# Lastro: TLA+ models, checks and proofs

Lastro wraps a command, observes its output and exit code, and leaves a signed
receipt that anyone can verify offline. This directory holds TLA+ models of its
parts, translated from the Go source, the TLC configurations that check them on
small instances, and proofs checked by TLAPS for all values of the constants.
`PROJECT.json` maps every definition to the source lines it stands for.

## 1. Inventory

| Part | State | Operations | Module |
|---|---|---|---|
| `lastro run` (`cmd/lastro/main.go`, `cmdRun`) | main goroutine, child, two pipes, two copy goroutines, `captureWriter`, two output files | checks before the child, copy, capture, wait, save, seal, write | `LastroRun`, contract in `RunContract` |
| `lastro keygen` (`cmdKeygen`) | a key directory of four files | existence test, four truncate-then-fill writes | `Keygen` |
| `lastro verify` (`cmdVerify`, `wire.VerifyReceipt`, `method.go`) | receipt and certificate files | argument parsing, eight failing exits, the report | `ReceiptVerify` |
| certificates (`wire/cert.go`, `validate.go`, `crypto.go`) | none (pure) | role constraints, quorum, lifetime, signatures, trust, window | `CertChain` |
| grant chain (`wire/grantchain.go`, `VerifyGrant`) | none itself; the executor's clock, first receipt, revocations | fifteen ordered checks | `GrantChain` |
| scope walk (`scopeCoversResource`) | two loop indices | walk, scan, strip | `Scope`, `ScopeWalk` |
| wire codec (`cursor.go`, `span.go`, `cert.go`, `grant.go`, `envelope.go`, `encode.go`) | a cursor | read, bound, take, finish; encoders | `Codec` |
| resource grammar, `{sha}` (`resolveShaTemplate`, `validateResource`) | none (pure); git HEAD is in `LastroRun` | substitute, validate, bound | `Resource`, `ResourceWalk` |
| Noise handshake (`noise.go`) | transcript hash, chaining key, key, nonce | write and read of two messages, split | `Noise` |
| transport, binding frame (`transport.go`) | none (pure) | seal, open, build, verify | `Transport` |
| interop harness (`cmd/interop`) | a process, one UDP socket, two deadlines | load, handshake, binding, intent | `Interop`, abstraction in `Channel` |
| fingerprint, overlay address, usage text | none | hashes, wording | no |

How they interact: `keygen` makes the keys `run` signs with; a CA outside this
repository certifies the public half; `run` writes the receipt file that
`verify` reads, with the certificate and CA files beside it. `verify` and the
grant chain share certificate validation; the grant chain uses the scope walk,
over names that `run` holds to the grammar; everything that comes from bytes
passes the codec. The harness drives the handshake, the transport, the binding
frame (which uses certificate validation again) and the envelope against a
daemon that is not in this repository.

What is hard to get right here: the interleaving of two streams into one
buffer with a cap; which error `Wait` reports; pipes that must be drained after
the cap; files that are truncated before they are filled; keys generated by a
process that can be killed between two files; unsigned arithmetic on times;
redelivery of a grant while its time runs out and keys are revoked;
length-driven parsing of buffers that end anywhere; and a handshake over
datagrams in which both sides must hash and derive the same things in the same
order, and may read what was meant for another session. `PROJECT.json` lists each
hazard at its line with the properties aimed at it.

## 2. Modules and their correspondence to the code

**LastroRun.** `pc` is the position of the main goroutine. `EarlyReturns` lists
the returns before the child in the order of the code; `CheckPasses` and
`CheckFails` walk through it. A byte is `<<stream, index>>`, so sequences show
loss, duplication and reordering; the digest is taken to be injective, so a
receipt is represented by the bytes it digests. `CopyRead` takes any number of
waiting bytes (chunk sizes are arbitrary), `PassThrough` and
`PassThroughFails` are the terminal half of `io.MultiWriter`, `Capture` is
`captureWriter.Write` under its mutex. `Joined` and `CopyError` are what
`cmd.Wait` does: an unsuccessful exit hides the error of a copy goroutine.
`os.WriteFile` is two steps, open with truncation and fill, and may fail at
either. The line on stderr and the return are a step of their own (`Return`, from
`report` after the receipt and from `giveup` after an error). `Crash` can happen
at any moment: also between the completed receipt and the return, where the
message may raise SIGPIPE. Environment: the child writes, exits
with any code or by a signal, closes its streams early or late, and its
descendants may keep a pipe open; HEAD may move until the child is started, after
which nobody reads it. The path is taken to contain `{sha}`.

**RunContract.** What `run` promises of the receipt file and the exit status,
in nine actions on four variables: refuse, no key, start, the child ends, open,
complete, announce, give up, die. `LastroRun` maps to it with `result <- code`,
`file <- outFile` and `outcome <-` the status, or dead after a crash.
`ImplementsContract` says that an older receipt stays until the child has ended,
that the child's own status is returned only after the file is complete, and that
every other ending of a started run is 125 or silence. The converse is no part of
it: a complete file does not mean that a status was returned. A run killed in its
last message leaves a whole receipt, and a run whose write failed on closing
leaves one with 125. `NoKey` is an action of its own because the code returns 125
there with no child (section 3).

**Keygen.** One program counter per invocation, one entry per file. The
existence test, each truncation, each fill and the report are separate steps; a
failure or a kill may fall between any two. The directory may have been there
before, as `os.MkdirAll` allows: `Directories` is the set of states in which it
may be found, each file absent, useless or a whole key ("old"), and `found`
remembers which it was. `Overlap` allows concurrent invocations and
`StatErrors` a failing `os.Stat`, which the code takes for "absent". With
`Overlap` FALSE a process that has been killed is gone before the next starts.
`NoSecretReplaced` is the header of `cmdKeygen` word for word, and is refuted;
`SecretsKept` is what the code does keep: every secret except a `static.key` that
was found without a `sig.key`. `PairsMatch` has the corresponding exception for
public keys that were found.

**CertChain.** Operators only. Signatures are symbolic: the record of signer,
domain tag and message. Times are numbers below `W`, the number of values of
the integer type; `Plus`, `Minus`, `Times` wrap. Fields no check reads (names,
kex keys, ids) are left out of the signed records. `not_after - not_before` is
unsigned, so a certificate whose window is inverted so far that the difference
wraps below the cap passes the lifetime check. With a clock it is never valid
(`AuthorityIsCertified`); `verify` reads no clock, accepts it, and reports the
observation as outside the window.

**GrantChain.** `Checks` lists the checks of `VerifyGrant` in order with their
errors; the verdict is the error of the first that fails. The executor around
the function is external: `Tick`, `Receive` (first delivery), `Revoke`,
`Decide`. History variables remember when the verdict was computed and what was
revoked then. The consumed-nonce ledger (check 11) lives above this code and is
not modelled.

**Scope, ScopeWalk.** `Covers` is the definition of coverage; `ScopeWalk` is
the Go loop with its two indices. A scope id (8 bytes of a hash) stands for its
path: collisions are outside the model.

**ReceiptVerify.** `cmdVerify` gives the exit code of the first failing
condition. `LeadingFlags` and `NArg` are Go's flag parsing: flags end at the
first positional argument. The receipt file is truncated and filled by runs,
the certificate file by the CA, and a verification may happen at any moment.
`VerifyBegins` reads the receipt and `VerifyEnds` the certificate, so either file
may change in between; one verification runs at a time. `Exits` lists the
failing exits of `cmdVerify` in the order of the code. `printReport` keeps what the report says: the class
and ceiling that `ClassOf` gives the method, and whether the observation lies
in the certificate's window.

**Codec.** A parser is a layout (a sequence of fixed fields, length-prefixed
fields, the end of the signed part, CA pairs) and one cursor. The inputs are
the size of the buffer, the value in each length field and the position where
CA keys stop ascending. Layouts and bounds are the real ones. Encoders are the
lengths they accept and the sizes they produce.

**Resource, ResourceWalk.** A string is a sequence of pieces: a character, a
run of characters of one kind with a width in bytes, the placeholder, or what
git printed (after trimming and lower-casing). `Segments` is
`strings.Split`. `ResourceWalk` puts the grammar and the scope walk together:
its state is the walk's, its resources are the paths given to `run`.

**Noise.** Operators, one per function or method; a method that may fail returns
the object as the failure leaves it. Hashes, derived keys, ciphertexts and macs
are the tagged tuples of what went into them, so equality of results is equality
of everything below. Public keys that X25519 refuses are a constant set. The
fixed sizes and offsets of the two messages, and `mac2`, which nobody reads,
are left out.

**Transport.** Packets with header, counter as nonce and header as associated
data; the binding frame; the signed envelope with the fields the daemon checks.

**Interop.** `att[a]` is a process of the harness: its place in `main`, what its
flags and files hold, the handshake object, keys and index, the verified
certificate, the datagram it refused. Processes run one after the other on one
port. `up` and `down` keep every datagram ever sent; reading takes any of them
and removes none, which is loss, delay, repetition and reordering at once, and
lets a process read what was meant for an earlier one. `Fails` is every
`fail(...)` that reads no datagram, `Deadline` a read that returns with an
error. The daemon is external and taken from how the harness uses it: it answers
an initiation with `Responder` in the next free slot (a repeated one in another
slot), pushes its binding frame with counter 0, verifies the harness's, admits
envelopes signed by the bound certificate's key, and may restart. It keeps no
replay window, which only lets more happen. What a run finds in its files is
right or wrong in one place: another static public key than the secret's,
another or a low-order daemon key, another signing key for `mac1`, a gap in the
CA files, another certificate, a resource that is too long.

**Channel.** The abstraction of all that: runs are paired with slots one to one,
each end verifies the other on its own, intents come after both. `Interop` maps
`peer` to the index a process addresses and `owner` to the ephemeral key in the
initiation a bound slot answered.

Definitions named `Bug_...` are plausible faults of the definition after them.
No specification uses them; a property is trusted only if replacing the
definition by its fault violates it.

## 3. Runs

| Run | Instance | Shows | States |
|---|---|---|---|
| `run` | 3 bytes per stream, pipes of 2, cap 2, codes 0 and 1, two commits, failing terminal | merge, receipt, exit code, cap and save order agree in every interleaving; `LastroRun` implements `RunContract`; a blocked child is released; `run` ends | 790,464 |
| `keygen` | 3 invocations, no overlap, every directory of absent, useless and whole files | no secret replaced but the one exception, no mixed key pair, success is complete | 47,655 |
| `scope_walk` | paths up to 5 of two characters or 4 of five pieces, scopes of up to 2 paths up to 3 | the walk is `Covers`, in range, ends; accepted names are closed under ancestors, fit and tell commits apart | 721,684 |
| `grant_chain` | honest grant and context plus single deviations, 3-bit time | authority is timely, certified, bound; expiry is final | 325,304 |
| `receipt_verify` | 10 receipts, 10 certificates, 7 command lines | exit 0 is authentic, exit 3 is signed, reports claim what was signed, honest receipts verify | 135,139 |
| `codec` | 6 structures, lengths around every bound, sizes around every field boundary | parsers accept exactly what encoders produce, and report oversize as such | 96,257 |
| `interop` | 2 runs, 2 slots, 10 settings of the files | agreement, authenticity of bindings and intents, unique nonces, only foreign datagrams fail, `Channel` is implemented, every run ends | 57,197 |

Why the bounds are enough. `run`: the cap is reached exactly, passed by either
stream, by a chunk of one byte or two, or not at all, and a chunk that does not fit
can be followed by a smaller one of the same stream that would; a pipe fills
before and after the cap is passed, by either stream; both failures of each file
write occur, and a death at every point. Caps of zero and below are left to
`CapCorrect`, which holds for every integer. `keygen`: an invocation can leave
any partial layout, a second meets it, and a third meets what the two left, in
each of the 81 directories the first may find. `scope_walk`: paths contain leading, trailing
and doubled slashes and siblings that share a prefix; a long piece, a HEAD of 40
digits and a '/' are exactly 180 bytes, and HEADs of 6, 64 and 65 digits or of
other letters are there too. `grant_chain`: with eight
instants, both products and sums wrap, and inverted windows wrap to small and
large values; each of the fifteen errors and the success are reached.
`interop`: a slot may answer the other run's initiation or the same one again,
and a run may read the response or binding frame of either, so every confusion
of two sessions is there; the theorems hold for any number.
`codec`: the largest value of a 4-byte length is represented by 2^24, above
every bound; TLC's integers are 32 bits wide.

No run switches deadlock checking off: the modules of programs that return end
in an explicit stuttering step, and the others never stop.

Fairness. `run` assumes weak fairness of each copy goroutine and of
the main goroutine: the Go scheduler runs a runnable goroutine eventually, and
a terminal write returns, with success or not. Nothing is assumed of the child
or its descendants; `RunFinishes` therefore starts from a child that exited and
closed pipes. `scope_walk` assumes that a sequential loop is executed. `interop`
assumes weak fairness of each process: it executes what it can, and a read
returns when its deadline has passed, which `conn.SetDeadline` guarantees. It
assumes nothing of the network or the daemon; the whole run may consist of lost
datagrams.

### Disagreements with the documentation

Five runs state what a document or comment says and TLC refutes it; the findings
in `PROJECT.json` quote the lines.

| Run | Statement refuted | What happens |
|---|---|---|
| `run_truncation` | never a receipt of a truncation | a terminal write fails, the child exits non-zero, the copy error is hidden, a receipt of the cut stream is written |
| `run_head_moves` | a receipt about commit X claims nothing about Y | HEAD moves between `{sha}` and the start of the child |
| `keygen_race` | never regenerates over existing secrets | two overlapping invocations on an empty directory |
| `keygen_found` | the same | one invocation alone, in a directory with a `static.key` and no `sig.key` |
| `verify_documented_order` | the documented command verifies | flags after the file are positional: usage error |

Three more are visible in the modules without a run.

- An unreadable key returns 125 before the child is started (`EarlyReturns`),
  where `main.go` line 9 and RECEIPT-PROFILE section 2 say 125 means that the
  child ran. The contract has this as `NoKey`, the only way to 125 without a
  child: `RanWhereKeyReads` proves the documented meaning for every run whose key
  can be read.
- `BuildSignedEnvelope` checks that `parents` is as long as `parentCount` says,
  not that the count is within `MaxParents`: five parents are signed and not
  parsed, where `encode.go` line 9 calls encoders the exact inverse of the
  parsers. `EncodingAccepted` is restricted to what the layout allows. The
  harness sends none.
- The comment in `cmd/interop/main.go` lines 141 to 143 says that the initiator
  rejects a response whose announced index is not its slot; the code prints the
  echoed index and compares nothing. `SessionAgreement` holds without the
  comparison, on a network that alters no datagram: the answered initiation is
  under the transcript hash, and the index next to it is the slot's own.

## 4. Proofs

| Module | Theorems | Assumptions beyond the named ASSUMEs |
|---|---|---|
| `LastroRunProofs` | `TypeCorrect`, `MergeCorrect`, `ReceiptCorrect`, `GreenCorrect`, `CapCorrect`, `SaveCorrect`, `ContractCorrect` (refinement of `RunContract`), `EndingTerminates`; `WholeWithoutTerminalFailure`; `CommitWithSteadyHead`; `RanWhereKeyReads` | none; the last three: no terminal write fails; HEAD does not move between `gitHead` and `Start`; the key can be read |
| `KeygenProofs` | `KeygenTypeCorrect`; `SecretsCorrect`, `PairsCorrect`, `DoneCorrect`; `HeaderHolds` | none; the others: no overlap, `os.Stat` does not fail on an existing file; the last also: no directory is found with a `static.key` and no `sig.key` |
| `ScopeWalkProofs` | `WalkTypeCorrect`, `WalkCorrect`, `WalkTerminates`, `AncestorsCorrect`, `NamesCorrect` | none |
| `GrantChainProofs` | `ExpirySound`, `ExpiryExact`, `GrantTypeCorrect`, `TimelyCorrect`, `CertifiedCorrect`, `BoundCorrect`, `ExpiryFinalCorrect` | none; `ExpiryExact`: no overflow |
| `CodecProofs` | `CursorInRange`, `AcceptedCorrect`, `EncodingCorrect`, `OversizeCorrect` | none |
| `ReceiptVerifyProofs` | `VerifyTypeCorrect`, `AuthenticCorrect`, `UnanchoredCorrect`, `ReportCorrect`, `HonestCorrect` | none |
| `InteropProofs` | `HandshakeAgrees`, `Types`, `Agreement`, `BindingAuthentic`, `IntentsAuthentic` | none |
| `ChannelProofs` | `HandshakeCompletes`, `RefusalsJustified`, `NoncesNeverRepeat`, `Refinement` (of `Channel`) | none |

The named ASSUMEs and what they stand for: `BoundsAssumption` and its like give
constants their types; `PieceAssumption` (`Resource`) says that no piece of a
string is empty and that `{sha}`, with its braces, is no letter or digit;
`FreshAssumption` (`Interop`) that a random ephemeral key is neither a static
key somebody dials nor, being a multiple of the base point, one that X25519
refuses; `DaemonAssumption` that the daemon's certificate is well formed and for
its own key. Without the last a run would rightly refuse its own daemon's
binding frame. TLC evaluates all of them on every run that uses the module.

*LastroRun.* None of the properties is inductive alone. `IInv` adds `FlowInv`
(per pipe: held <= fetched <= written, and EOF only when all was fetched),
`MergeInv` (the buffer holds for each stream a prefix, which is all that was
handed over unless the cap was exceeded), `CapInv` (the length of the buffer
and the flag as functions of the number of bytes handed over) and `ControlInv`
(which facts hold at which point of `cmdRun`). `MergeCorrect` rests on a lemma
that appending the next chunk of a stream extends its prefix and leaves the
other's alone. Three theorems mark the boundary of a disagreement, and prove the
documented statement outside it: `WholeWithoutTerminalFailure` that of
`run_truncation`, `CommitWithSteadyHead` that of `run_head_moves`, where HEAD may
move at any time before, and `RanWhereKeyReads` that of exit 125. `EndingTerminates` is the part of `RunFinishes` that needs no fairness: from
the child's end on, `RunWork` (what is in the pipes, what each goroutine has yet
to do with its chunk, the steps left to `cmdRun`) falls with every step. The
refinement needs `IInv` and one more invariant, `FileInv`: while the main
goroutine has not reached the receipt the file is as before, while it writes it
is torn, when it reports it is full, and the status is unset until the process
ends. The step that completes the file maps to `Complete`, also when the write
then fails on closing; the return maps to `Announce` or `GiveUp`; whatever fails
before the receipt is opened maps to a stutter, and then to `GiveUp`.

*Keygen.* `IInv` adds that at most one invocation runs; that while it writes, the
files before its index are its own and those after are what was found; and that
nothing is ever written into a directory found with a `sig.key`. `sig.key` is the
first file to appear, so its presence stops every later invocation. Testing it
alone protects whatever an invocation wrote and whatever was found beside a
`sig.key`; it does not protect a `static.key` found without one, and
`SecretsCorrect` and `PairsCorrect` except exactly that. `HeaderHolds` proves the
header of `cmdKeygen` as it stands where such a directory is never found.

*ScopeWalk.* The loop invariant: `end` is at a segment boundary, every longer
boundary prefix was looked up and is not in the scope, and the scan has passed
no slash. `WalkTerminates` gives the measure, `StepsLeft`: it starts at
`2 * Len(resource) + 2` and falls with every step, so of `WalkReturns` only the
fairness is left to TLC.

*Resource names.* `AncestorsStayValid` says of a valid name that the prefixes the
walk looks up are not empty and are themselves valid: in length, in characters
and segment by segment. Lengths are a fold over a sequence of any length, so the
first needs induction. The library's
principle cannot be instantiated here; `Induction` states it for a set instead
of a predicate, from a least element (`Least`), and that is enough: `FoldExists`
builds the function the fold chooses, `BytesCounts` shows it to count piece by
piece, and `BytesOfPrefix` that a prefix is no longer than the whole.
`AncestorSegments` maps each segment of an ancestor to the same segment of the
name. `RootInv` adds to the loop invariant that the walk never gets to an empty
path unless the name starts with a slash, which the grammar refuses.
`NamesFitAndTell` follows from the bounds and from replacement being position by
position: two values of HEAD differ at the first placeholder.

*GrantChain.* The invariant says that a verdict is `VerifyGrant` at `decidedAt`
with the keys revoked then, and that the context's certificates were parsed.
Wraparound is handled by two lemmas: reducing modulo `W` never increases a
natural, so a wrapped bound only refuses more; and a wrapped difference within
the cap implies the exact one is. Finality of expiry follows because time only
grows and the first receipt is fixed.

*Codec.* `CursorInRange`: `pos <= size` is kept because every advance is guarded
by `need`. The rest goes along `ParseInv`: with `Heads(s, l)` the table of
positions where the fields of structure `s` with lengths `l` begin, the cursor is
at the head of field `i`, or past its length, or at its current CA pair; every
length already read is within its bound; the signed part ends at the head of
the mark; and a truncation was found before the next head. An accepted buffer
has then been read to the last head, which `EncoderAgrees` shows to be the size
the encoder produces; an encoding is never refused because `need` has the rest
of it before it. Layouts have at most twelve fields, so the table, and its
equality with the recursive `Offset`, need no induction.

*ReceiptVerify.* The invariant says that a finished verification is `cmdVerify`
on the files as read. The lemma on the first failing exit turns exit 0 into all
conditions and exit 3 into those before the fourth. Distinct CAs are counted by
an injection from the pairs, whose keys ascend; a wrapped lifetime within the cap implies the
exact one is.

*The handshake.* Everything follows from tagged tuples: an opened payload has the
same key, nonce and associated data on both sides; the associated data is the
transcript hash before, so the hashes agree; the key is derived from the
chaining key, so those agree too, and with them the split. `TranscriptInjective`
recovers from the hash after the initiation the responder's static key, the
initiator's ephemeral key and both ciphertexts. `HandshakeCompletes` is the
converse: a responder that read an initiation holds the initiator's keys (which
needs `DhInjective`: a shared secret names its two ends), so the initiator opens
what it writes.

*Interop.* `IInv` says what a process and a slot hold at each point, that every
datagram is one of five kinds some process or slot sent, that a process with
keys agrees with the slot it addresses (`PairInv`), and what a verified
certificate and an admitted intent rest on (`PeerInv`, `OwnerInv`, `AdmitInv`).
Agreement at `StageA` is `HandshakeAgrees`; that two slots never share a
transcript, so that a binding signature names one session, is
`HashNamesSlot`. Ephemeral keys being fresh is the modelling of `rand.Read`: each
run and each slot has its own.

*History.* What was refused and what was sealed is about datagrams of the past,
which `IInv` does not pin down. `HistInv` adds it: each initiation is the one its
run's files and ephemeral key give (`SentInv`), each slot that is not free read
one of those (`AnswersInv`), and a run that refused a
datagram had failed one named check on it (`RefusedInv`). `RefusalsJustified` then
takes the three places where a run can refuse. A response to its own initiation
is taken, by `HandshakeCompletes`. A packet of its own session opens and its
frame verifies, because its keys are those of the slot that sealed it
(`OwnAnswerTaken`, `OwnPushVerified`), unless the trust directory does not
cover the daemon.

*Nonces.* `EveryCipher` lists the places that seal: two in an initiation, one in
a response, the daemon's binding frame, and a run's binding frame and intent.
`KeyHasOneOwner` says that a key is used at one of them by one run or slot only,
because the chain below the key contains the
ephemeral keys and the position in the schedule (`KeyHasOnePlace`,
`SeedInjective`), except that a run's binding frame and intent share a key;
these have counters 0 and 1. That a repeated initiation is answered in two slots
does no harm: each has its own ephemeral key.

Only model-checked: liveness (`ChildNeverStuck`, `RunFinishes`, `WalkReturns`,
`AttemptEnds`), which needs fairness and ENABLED (for two of them the measure
that falls is proved: `EndingTerminates`, `WalkTerminates`); and the
statements that five runs refute, of which there is nothing to prove. Every
invariant, action property and refinement that a passing run checks has a theorem.

## 5. Not modelled

- Cryptography: hashes, signatures, key agreement and AEAD are symbolic, and a
  fingerprint or scope id stands for what it was made from. `OverlayAddr` is such
  a hash; nothing here compares one.
- Wording and layout: usage text, log lines, the form of the report.
- The contents of fixed-size fields, and the sizes of the two handshake messages.
- Failures of the random source: the Go runtime aborts (`Crash`, `Fails`).
- The consumed-nonce ledger, the daemon's replay window and its admission rules
  beyond the signature: they are not in this repository.
- `VerifyCASignatures` and `Refusal.VerifySigAgainst` have no caller outside
  tests. The loop of the first is the last conjunct of
  `ValidateCertChainNoClock`; the second is `VerifySigned` with another tag.
- Several harness processes at the same time: each has a port of its own, and
  the sets of datagrams already let a run read what was sent to another.
