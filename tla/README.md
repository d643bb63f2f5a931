# A TLA+ verification of aura-security-opaque-rs

The repository implements OPAQUE, a password-authenticated key exchange, with a
hybrid (Ristretto255 + ML-KEM-768) handshake: an *agent* (client) and a *relay*
(server), each a Rust crate, over a shared core, behind one C interface.
A Swift package wraps the C interface. This directory holds TLA+ models of the
protocol implementation, of the C interface, of the Swift wrapper and of the
byte-level code below them, the TLC runs that check them on small instances, and
TLAPS proofs for every size.

Cryptographic strength is not the subject (`formal/` has Tamarin and ProVerif
models of the design). The subject is what an implementation gets wrong: which
phase a session is in after every error, which secrets are left where, what
late, repeated or mixed-up messages can do, deadlines, threads that share
handles, panics between two steps, buffers that overlap, keys that are zeroed
too early or too late.

## 1. The system

| Component | State it keeps | Operations | Interacts with |
|---|---|---|---|
| `opaque-agent` registration | `InitiatorState`: phase, `created_at`, secure key, blind, static key pair | `create_registration_request`, `finalize_registration` | relay, through requests, responses and records the application carries |
| `opaque-agent` authentication | `InitiatorState`: phase, `created_at`, blind, ephemeral and KEM keys, session and export key | `generate_ke1`, `generate_ke3`, `initiator_finish` | relay, through KE1, KE2, KE3 |
| `opaque-relay` registration | none of its own; the application stores `ResponderCredentials` per account | `create_registration_response`, `build_credentials` | agent, the application's store |
| `opaque-relay` authentication | `ResponderState`: phase, `created_at`, private and ephemeral key, shared secret, session key, expected MAC | `generate_ke2`, `responder_finish` | agent, the store |
| `opaque-core` | none | OPRF, envelope, KEM, key schedule, parsing and writing of messages | called by both crates |
| `opaque-ffi` | heap handles: agent, agent state, relay, relay state, key pair; an `in_use` flag in each; `ke3_exported` in an agent state | one C function for each operation, `create`, `try_destroy` | any number of application threads; calls the two crates |
| `AuraOPAQUE` (Swift) | handles and one `NSLock` per object; `AuthenticationKeys` | the agent's operations, `dispose` | calls the C interface |

Hard behaviour, and what makes each part correct:

* **Messages.** The library never sees the network; whatever the application
  delivers is input. Lost, repeated, delayed, misrouted and damaged messages
  are all met by checks inside `generate_ke2`, `generate_ke3` and
  `responder_finish`. Correct: a key is only ever shared by one agent and one
  relay session, for one account, on the registered password.
* **Failure.** Some errors invalidate a state and others return early and
  leave it as it is; `generate_ke2` can fail after private keys were copied
  into the state. The C interface ends the state after every error or panic.
  Correct: which secrets a state holds is a function of its phase.
* **Restart.** A relay is its key pair and its OPRF seed; after a restart it may
  come back with the seed or, by mistake, with another. Correct: a login either
  yields the export key of the registration or fails.
* **Deadlines.** A state that waits for an answer expires after
  `STATE_MAX_LIFETIME_SECS`. Correct: a late answer never revives it.
* **One-shot states.** A state serves one registration or one login. Correct:
  a finished state never moves and never releases a key again.
* **Threads.** A C call takes two flags one after the other and never waits.
  Correct: calls on one handle exclude each other, no flag is leaked, nothing
  in use is freed, every call returns.
* **Commit.** Output is copied to the caller only after the crate's function
  moved the state; a panic can fall in between. Correct: state and caller
  agree on how far the session got, or the state is ended.
* **Memory of C callers.** Inputs and outputs are ranges the caller chose.
  Correct: no accepted call reads an input it has overwritten or cuts an output.
* **Locks in Swift.** An operation takes the agent's lock, then the state's;
  `dispose`, `deinit` and closures run on other threads. Correct: no deadlock but
  for closures that use keys objects from within closures, no handle freed under a
  call, none lost, no key zeroed that is still wanted.
* **Boundaries.** Offsets of messages, the last block of a key derivation, the
  counter of `derive_oprf_key`. Correct: what is written is what is parsed; every
  byte of the output is the one the standard says.

The complete list of hazards, each at its line, is in `PROJECT.json`.

## 2. Modules

| Module | What it is |
|---|---|
| `OpaqueCore` | the functions of `opaque-core` as symbolic terms |
| `Opaque` | the protocol of the two crates: sessions, messages, store, relays, deadlines; properties, inductive invariant |
| `MutualAuthentication` | abstract: what the handshake promises, with no messages or keys |
| `OpaqueRefinement` | the refinement mapping from `Opaque` to `MutualAuthentication` |
| `OpaqueProofs` | theorems about `Opaque`: types, secrets, authentication, deadlines |
| `OpaqueRefinementProofs` | theorems about `Opaque`: durable export keys, the refinement, injective agreement |
| `FfiHandles` | the C interface: threads, handles, flags, commit and failure |
| `OneShotSessions` | abstract: what the C interface promises the owner of a state |
| `FfiRefinement` | the refinement mapping from `FfiHandles` to `OneShotSessions` |
| `FfiProofs` | theorems about `FfiHandles`: flags and handles, states and their callers, the refinement |
| `FfiArguments` | the C interface: pointers, lengths, overlaps, slots, output copies |
| `FfiArgumentsProofs` | theorems about `FfiArguments` |
| `SwiftAgent` | the Swift objects and their locks, composed with `FfiHandles` step by step |
| `SwiftAgentProofs` | theorems about `SwiftAgent` |
| `SwiftKeys` | the copies of the keys in memory while Swift handles them |
| `SwiftKeysProofs` | theorems about `SwiftKeys` |
| `WireFormat` | writers and parsers of the six messages, with the lengths of the code |
| `WireFormatProofs` | theorems about `WireFormat` |
| `KeyDerivation` | the loops of `key_derivation_expand` and `derive_oprf_key` |
| `KeyDerivationProofs` | theorems about `KeyDerivation` |
| `MC…` | one per model: symmetry sets and instances for TLC; each `MC…_<what>.cfg` is one run |

How they fit together: `SwiftAgent` extends `FfiHandles` and is shown to use it
within its contract; `FfiHandles` begins where `FfiArguments` has found the
arguments valid, and implements `OneShotSessions`, which is why `Opaque` may take
a C call as one atomic action; `Opaque` treats messages as records of fields
because `WireFormat` shows that fields survive the wire, and keys as terms, whose
two loops `KeyDerivation` opens up.

Definitions whose comment begins with "Mutant:" are variants of the definition
that follows them, with a plausible bug; no specification uses them. Every
property of a passing run fails for at least one of them.

### OpaqueCore

A value is a pair of a tag and its ingredients: what was combined is what
distinguishes two values, and nothing else can produce them. So a MAC is the
tag `responder_mac` and the pseudo-random key it was computed under; a KEM
ciphertext determines its shared secret; a Diffie-Hellman value is the set of
its two public keys (hence commutative); unblinding succeeds for the blind that
was used and otherwise gives an unrelated value. `Bad` stands for any damaged
field: as a group element it does not decode (`decode_non_identity_point`), as
an ML-KEM key it is refused by `encapsulate`, elsewhere it is an unknown byte
string. `AllZero` is the masking key that `select_credentials` refuses.
ML-KEM's implicit rejection is kept: `Decapsulate` of a foreign ciphertext
returns a secret nobody else has, not an error.

### Opaque

`ISess` and `RSess` are the `InitiatorState` and `ResponderState` objects. Per
object: phase (`iphase`, `rphase`), ticks since `created_at` (`iage`, `rage`),
the set of secret fields that are not zero (`iheld`, `rheld`), what the caller
passed in (`input`, `served`), the derived key (`iview`, `rview`: the
pseudo-random key with its whole transcript), and what was handed to the
caller (`iout`, `rout`). `store` is the application's credential store; the
other variables are the sets of messages sent.

One action per public function; its disjuncts are the function's early returns
in the code's order, then its success. The helpers `Ke2Checks`, `ResponderPrk`,
`Ke3Checks`, `InitiatorPrk` and so on are the consecutive blocks of
`generate_ke2` and `generate_ke3`.

* *Two interfaces.* `CAbi` tells whether sessions are driven through
  `opaque-ffi` or from Rust. An error on which the crate returns early leaves
  the state as it is from Rust and ends it through C (`IReject`, `RReject`); a
  panic (`ICallPanics`, `RCallPanics`) ends it through C and is not modelled
  for Rust, where it unwinds into the application. Through C a call is one
  atomic action: `FfiHandles` is about what is inside, and `OneShotSessions`
  about why that may be forgotten here.
* *Transport.* Sent messages stay in their set, so each may be delivered any
  number of times, in any order, to any session, or never. For the kinds in
  `Mangled` any combination of fields of sent messages and `Bad`, and a
  message with a foreign version byte, may arrive as well. A message of the
  wrong length is refused before any state is looked at, and so is not an
  action.
* *Records.* `BuildCredentials` files any record that arrives under any
  account. From Rust `ResponderCredentials` refuses a second registration;
  through C each record builds fresh credentials and replaces the old.
* *Relays.* A relay is a key pair and an OPRF seed. A session names the relay
  that serves it, so a restart, with the stored seed or with another, is a later
  session at a relay with the same key pair; a relay of somebody else has another
  key pair. Agents pin a key pair (`Pinned`), never a seed.
* *Time.* `Tick` ages every session whose phase expires. The code keeps
  `created_at` and compares the time since then with the lifetime; the model keeps
  that time, and `Older` bounds it at `Lifetime`, the named bound on ages, past which
  no comparison in the code tells two of them apart. `Instant` is monotonic, so the
  failing `checked_duration_since` of `is_expired` does not occur.
* *Not modelled here.* Failure of the operating system's randomness
  (`OsRng` panics: covered by the panic actions), failures of AEAD or KDF calls
  with constant valid lengths, which cannot occur.

### MutualAuthentication and OpaqueRefinement

Sessions *want* and *offer* an account; an agent session *commits* to one relay
session that offers its account and that no other agent session has; a relay
session *accepts* only after an agent session has committed to it; keys are
*delivered* to the agent's caller after it committed. The mapping takes as peer
of an agent session the relay session with the same pseudo-random key. That
session is unique, since a relay session's key contains its own ephemeral key,
which also makes the `CHOOSE` in the mapping compatible with symmetry.

### FfiHandles

`live` are the allocated handles, `inUse` those whose flag is set; per state
the phase, `ke3_exported` (`exported`) and what callers have received
(`outputs`); per thread its position `pc`, its `call` and the result so far.
A call is: arguments valid (`Begin`); compare-exchange on the agent, relay or key
pair (`AdmitRoot`); for `generate_ke2` the check of the stored record
(`CorruptedRecord`); compare-exchange on the state (`AdmitState`); the crate's
function (`RunSucceeds`, `RunFails`); copying the output (`Commit`); in the
error and panic arms `invalidate_*_state` (`Terminalize`); the two guards
dropped in reverse order (`ReleaseState`, `ReleaseRoot`). `Panic` may strike
in the crate's function or between it and the commit, where the tests inject
it. Whether the crate's function succeeds in the right phase is left open.

Calls without a state (`create_registration_response`, `get_public_key`,
`opaque_relay_create`) do their work in one step (`Stateless`).
`opaque_relay_create` gives the key pair back *before* the new relay is published
(`Publish`), so the key pair may be destroyed in between. Every constructor and
destructor of the interface is an action.

The callers' part of the contract in `opaque_common.h` is assumed: pointers are
live and of the right type, and a handle is not destroyed while a call that has
not been admitted to it is under way (`Approaching`). The header asks for more,
that destruction overlaps no access at all; the model lets destructors run next
to admitted calls and shows that the flag then protects them.

### OneShotSessions and FfiRefinement

The owner of a state sees a session that is *opened*, *delivers* the outputs of
one registration or one login in order and each once, may be *broken off* and then
delivers nothing more, and is *closed*. There are no threads, flags, phases or
panics in it. The mapping is `outputs` for what was delivered; a session is broken
off when its state is `Finished` without its last output, unless a call is about to
copy that output. All the steps between are stutters: a call takes effect at once,
in `Commit`, or ends the session, in `Terminalize`.

### FfiArguments

One call on the caller's memory: an array of bytes addressed by a word, 0 being
null. `Call` chooses an entry point and any ranges; `NullSlot` is the null that a
constructor stores first; `Check` the comparisons of pointers, lengths and
overlaps, in which `ranges_overlap` counts a range whose end is not an address as
overlapping; `Run`/`RunFails` the work, which happens on copies; `Commit` copies one
output at a time. A byte is named by who wrote it and its place, so a byte that
was overwritten, cut or shifted differs from the one expected. What no code could
check is assumed in `Call`: the slot of a handle, and the output of
`get_public_key`, which has no other range to be compared with, lie in memory. A
constructor writes its slot before it compares it with its inputs; the model shows
that the call is then refused, and that accepted calls read untouched inputs.

### SwiftAgent

Extends `FfiHandles`: the C calls are its steps, but the constraints on callers are
gone, and whether the wrapper keeps them is the question (`KeepsTheContract`:
every step of the wrapper is a step `FfiHandles` allows). `field` is the handle
property of each object, `owner` its `NSLock`. `LockAgent`, `LockState`, `Call`,
`InCall`, `UnlockState`, `UnlockAgent` are an operation; `Dispose`, `TakeHandle`,
`Destroy` the two halves of `AgentState.dispose`, which takes the handle out under
the lock and destroys it after; `Deinit` runs when no method holds a reference.
Locks are not fair. A closure of `withSessionKey` or `withExportKey` runs under the
lock of its keys object and may do anything a thread may: work with agents and
states, dispose, and use keys objects again. `closures` is the stack of closures a
thread is in, innermost first.

`NSLock` is not recursive, so a closure that uses or disposes of its own keys object
waits for itself, and two closures that use each other's objects wait for each other;
nothing in the code or its documentation prevents or mentions it. The model has these
deadlocks. What it shows is that there are no others (`OnlyNestedClosuresDeadlock`):
in any set of threads that wait for locks which none of them will give back, all wait
for keys objects, and the owner of each of these is in a closure that has called into a
keys object again. Two threads that only share agents and states never stop, and
neither do closures that only use those.

### SwiftKeys

`Data` values share buffers until one is written to. The module follows each of the
buffers the session key and export key live in: the two locals of `finish`, the
stored properties of `AuthenticationKeys`, the parameter of a closure; the copy made
when the new object gets hold of its own bytes to pin them, the zeroing of the
locals in `defer`, `dispose`. Freed memory keeps its contents. A closure has a
parameter for each keys object (`Param`), and a thread in a closure may call `finish`,
start further closures or dispose; their ends may come in any order, which allows more
than the stack of `SwiftAgent`.

Assumption: a closure does not let its `Data` escape. `withSessionKey { $0 }` returns a
value that shares the buffer, and `dispose` would then zero a copy; the documentation
speaks of access "within a scoped closure", the code cannot enforce it.

### WireFormat

Messages are sequences of bytes of the real lengths (33 to 1377), each byte named by
the field it came from. `Write` is any writer, with a field that may be short by one
and a buffer from one byte short to `Spare` bytes too long; `Deliver` may cut,
extend or re-version the message; `Parse` is any parser, the wrong one too. An
envelope is followed from `finalize_registration` through the record, any number of
`opaque_relay_build_credentials`, the relay's credentials and KE2 to the parts that
`generate_ke3` opens. The offsets at which the writers copy (`WriteSlices`) and
those at which each `parse_*` cuts (`RegistrationRequestRef` to `Ke3Ref`) are
transcribed separately, from the writers and from the parsers. The compile-time
assertions of `types.rs` are assumptions that TLC evaluates. A KE3 and a
registration response have the same length and both parse as either; what tells them
apart is the function they are given to.

### KeyDerivation

`key_derivation_expand` round by round over two block buffers that change places,
and `derive_oprf_key` counter by counter, where *any* set of counters may give a
zero scalar, which no test can bring about. The reference is the recursive
definition of RFC 5869 (`T`). Empty inputs are refused, and every `?` is an action: a
failing HMAC in `key_derivation_expand` leaves only the inner function and the
buffers are wiped (`ExpandFails`); one that seeds `derive_oprf_key` fills nothing
(`SeedOprf`); the two in its loop (`DrawFails`) return with `oprf_seed` and `mac_out` as
they are. `BuffersAreWiped` says exactly that. With the `hmac` crate these two do not
fail, since keys may have any length and the output has `MAC_LENGTH` bytes; if either
could, the seed would stay on the stack.

## 3. Runs

| Run | Instance | Checks |
|---|---|---|
| `login` | C interface; 2 agent states, 1 relay state, 2 passwords, lifetime 2, all kinds of message mangled | `InitiatorAuthentication`, `InitiatorSecrets`, `ResponderSecrets`, `FinishedIsFinal`, `ExpiryIsFinal` |
| `mixed` | Rust interface; 2 + 2 states, KE1, KE2, KE3 mangled | `ResponderAuthentication`, `ResponderSecrets` |
| `misdirected` | Rust interface; 2 accounts; a relay, the same with another seed, a foreign relay; 2 + 1 states, KE3 mangled | `InitiatorAuthentication`, `ExportKeyIsDurable`, `InitiatorSecrets` |
| `crossed` | C interface; 3 + 2 states | `ImplementsMutualAuthentication`, `ExportKeyIsDurable`, `AgreementIsInjective` |
| `lifetime` | C interface; 2 + 1 states; expected to fail | `NoKeyAfterDeadline` |
| `ffi_calls` | 2 threads, 2 agents, 1 relay, 1 key pair, 1 agent state, 1 relay state | `TypeOK`, `Serialized`, `FlagsAreOwned`, `NoUseAfterFree`, `CommittedOrTerminal`, `FailuresAreTerminal`, `ImplementsOneShotSessions` |
| `ffi_progress` | 2 threads, 2 agents, 1 agent state, fairness | `CallsReturn`, `HandlesAreReleased` |
| `ffi_arguments` | 7 addresses, ranges of 0 to 3 bytes, messages of 1 or 2 | `OverlapIsExact`, `InputsIntact`, `OutputsComplete`, `WritesInBounds` |
| `swift_locks` | 2 threads; 1 agent, 2 state and 1 keys object; 1 + 2 handles | `KeepsTheContract`, `NeverBusy`, `HandlesHaveOneOwner`, `OnlyNestedClosuresDeadlock`, `ClosuresSeeKeys` |
| `swift_memory` | 3 threads, 2 keys objects, 8 buffers | `NoStrayKeys`, `KeysSurviveFinish` |
| `wire_layout` | the code's lengths; buffers 1 too short to 2 too long | `RoundTrip`, `LookAlikes`, `WritesAreExact`, `EnvelopeSurvives` |
| `kdf_loops` | blocks of 3 bytes, 7 blocks, counters 0 to 7, lengths 0 to 25 | `ExpandsAsRfc5869`, `FirstScalar`, `BuffersAreWiped` |

Each property is stated in words above its definition; `PROJECT.json` says of each
run what it shows, and of each hazard which properties are about it.

Why these bounds:

* A login needs one agent state that registered and one that logs in; a third
  is a second registration or a second, competing login. Two relay states are
  what it takes to mix the answers of two sessions or to answer one KE1 twice.
* Two passwords: a wrong one exists. Two accounts and three relays: wrong
  accounts, wrong relays and a relay that lost its seed exist.
* Lifetime 1 separates "in time" from "expired"; 2 also shows a deadline that
  is restarted half way.
* Two threads suffice for a flag to be found taken; in the two C runs two agents let
  the threads meet on the state and not already on the agent. In `swift_locks` two
  states let them meet on the agent alone, and `dispose` lets them meet on a state; with
  one keys object a closure can wait for itself, and the other thread for it. Two agents
  that share one state, and two closures that use each other's keys objects, are left
  to the proofs, which hold for any number: each of them makes the run four times as
  large.
* Seven addresses hold the ranges of a call apart, adjacent and overlapping, and
  three bytes reach past the end; lengths 1 and 2 tell a whole output from a cut one.
* 25 bytes go past the limit of seven blocks of three; the ratio of counters to
  blocks, 2^8 to 255, is kept at 2^3 to 7.
* Eight buffers are four per keys object, the most `finish` needs at once
  (`BuffersAssumption`).
* States are interchangeable, so `Permutations` of them are symmetries, and so are
  accounts (`misdirected`), threads, agents, and the Swift objects of a kind. Neither
  refinement mapping tells them apart. The liveness run uses no symmetry.

Deadlock is checked for the protocol and the handles: `Tick`, repeated deliveries and
new calls are always possible there, so a deadlock would be an error. In `swift_locks`
the program really can stop, when every thread is in a closure that waits for a keys
object; the run says `CHECK_DEADLOCK FALSE`, and `OnlyNestedClosuresDeadlock`, which is
also about some of the threads, says that this is the only way.
`FfiArguments`, `WireFormat` and `KeyDerivation` model one call or one message, after
which the system really stops, and say `CHECK_DEADLOCK FALSE`.

**Fairness.** Only `ffi_progress` is about progress: `WF_vars(Step(t))` for each
thread, i.e. a thread inside a call is scheduled again. A call contains no
loop, no lock and no wait, so this is the operating system's scheduling and
nothing else; in particular no thread is obliged to start or to repeat a call.
The protocol itself promises no progress: it waits for messages.

### What the failing run shows

`lifetime` states what the documentation of `opaque_agent_state_create` says
(`agent_ffi.rs:367-369`): if the protocol is not completed within the state's
lifetime, subsequent calls fail. `initiator_finish` never looks at the
deadline, so an agent state in `Ke3Generated` hands out its keys at any later
time. `is_expired` does count `Ke3Generated` among the phases that expire, and
`generate_ke3` restarts the deadline, but nobody asks. The text also says five
minutes and error `-4`; the constant is 900 seconds (`types.rs:52`), and
protocol errors are collapsed to `-5`.

Smaller differences between documentation and code, not runs of their own:
`relay_ffi.rs:728` announces `-7` for a second registration, which
`opaque_relay_build_credentials` cannot return because it starts from fresh
credentials each time; `relay_ffi.rs:1060` and `agent_ffi.rs:264` announce `-5`
where the code returns `-1` and `-6` (`FailureCodes`); `OpaqueAgent.swift:306`
repeats the five minutes. The contract in `opaque_common.h` (serialized operations,
errors before admission preserve the state, errors after it end the state) holds in
the model.

## 4. Proofs

The theorems hold for all values of the constants under the assumptions stated in
the modules: a relay is a key pair and a seed, some relay has the pinned key pair,
the lifetime is positive, `CAbi` is Boolean, `None` is neither an account nor a relay
session; the null pointer is no handle and kinds of handles are disjoint, as are
kinds of Swift objects; lengths of messages are positive, sizes and the number of
addresses are natural numbers; blocks are not empty and a counter byte can number
all of them; `Nothing` is neither a thread nor an object nor a buffer, and the heap
has four buffers for each keys object. TLC evaluates all of them in the runs.

Almost no property is inductive as it stands. What each proof adds to it, and why:

**The protocol** (`OpaqueProofs`, `OpaqueRefinementProofs`).

* `TypeCorrect`: `Spec => []TypeOK`. `TypeOK` is inductive.
* `SecretsFollowPhases`: `Spec => [](InitiatorSecrets /\ ResponderSecrets)`.
  Inductive together with `TypeOK`, one step per action.
* `Authentication`: `Spec => [](InitiatorAuthentication /\
  ResponderAuthentication)`. Neither is inductive: that `generate_ke3` accepts
  a MAC says nothing unless MACs on the wire have an origin. The inductive
  invariant `AuthInv` adds that keys exist only from the right phase on
  (`KeysFollowPhases`), that a relay session's transcript names itself, its
  relay, its account and the masked envelope of the credentials it served
  (`ViewsAreBound`), that each MAC on the wire was made by a session under its
  key (`MacsAreGenuine`), and that a released relay key is shared
  (`ReleasedKeysAreShared`). The heart is lemma `AcceptedKe2`: a KE2 that
  passes `Ke3Checks` carries the MAC of a relay session with the same
  pseudo-random key, hence the same transcript; the masked envelope in it
  opens under the agent's password and the pinned key, so the credentials are
  a registered record sealed under this password and not the fake ones of an
  unknown account.
* `RelayReleasesSharedKeys` (`ResponderAuthentication`) and
  `RelaySecretsFollowPhases` (`ResponderSecrets`): the relay's half of the two
  theorems above, on its own.
* `SessionsAreOneShot` (`FinishedIsFinal`) and `ExpiredSessionsAreDead`
  (`ExpiryIsFinal`): action properties, one step per action; in each, what the
  action's guard says of the phase excludes the finished or expired session.
  Agent sessions in `Ke3Generated` are left out of `ExpiryIsFinal`: they are the
  ones the run `lifetime` is about.
* `DurableExportKey` (`ExportKeyIsDurable`) and `HandshakeIsImplemented`
  (`ImplementsMutualAuthentication`), from `ProvenanceInv` on top of `AuthInv`: where
  the inputs of a session came from. An agent session is given one input, for one
  purpose (`InputsFollowPhases`); envelopes are sealed by registrations, never by
  logins (`EnvelopesAreRegistered`); relay sessions evaluate what an agent session
  blinded (`RequestsAreBlinded`); the tables of a session are filled together and an
  agent's key names it (`ViewsAreComplete`). The export key then depends on the
  password and on the OPRF key alone: an envelope that opens was sealed under the same
  randomized password, and a blind that did not cancel would have to be that of
  a session which registered and logged in at once. For the refinement, `AcceptedKe2`
  gives the relay session that `generate_ke3` commits to; it is the only one with that
  key, and no other agent session has it, since the key names the agent's ephemeral
  key. Every action is then a step of `MutualAuthentication` or a stutter.
* `LoginsAreInjective` (`AgreementIsInjective`): the session key that a relay
  session releases was derived by one agent session alone, which authenticated this
  relay session, and is released by no other relay session. It follows from the two
  invariants because the transcript under the key names both ephemeral keys;
  repeating a KE1, KE2 or KE3 does not help.

**The C interface** (`FfiProofs`, `FfiArgumentsProofs`).

* `CallsAreSerialized` (`Serialized`), `NoFlagIsLeaked` (`FlagsAreOwned`) and
  `NothingInUseIsFreed` (`NoUseAfterFree`), from one inductive invariant.
  `GuardInv` adds to the three `CallsAreLive`, the callers' contract carried along:
  a handle a call has not been admitted to yet is live. `GuardsSame`, `GuardTaken`
  and `GuardDropped` say what a step that keeps, takes or drops one guard does to
  the set of all guards; each step of `FfiHandles` is one of the three.
* `FfiTypes` (`TypeOK`), `FailedStatesAreOver` (`FailuresAreTerminal`),
  `CallersKeepUp` (`CommittedOrTerminal`) and `HandlesAreOneShotSessions`
  (`ImplementsOneShotSessions`), from `StateInv` on top of `GuardInv`: because a
  state is held by one call (lemma `OneHolder`), nobody else moves a state that is
  ahead of its caller. A state that no call is between running and committing, or
  between failing and handling the failure, has come as far as its caller
  (`Settled`); one that is about to commit is exactly one output ahead
  (`OneOutputAhead`). The refinement maps `Commit` to a delivery, the failures to
  breaking off, and everything else to a stutter.
* `OverlapCheckIsExact`, `InputsStayIntact`, `OutputsAreComplete`,
  `WritesStayInBounds`: the four properties of `FfiArguments`, for any number of
  addresses and any lengths of messages. The invariant `ArgumentsInv` says that the
  arguments fit the entry point (`ArgsOK`), how far the call is and what it has
  checked by then (`Progress`), and for every byte of memory whether it is the
  caller's, the null of a slot, or the right byte of an output already copied
  (`MemoryOK`). The properties are consequences: lemma `Disjoint`, that ranges which
  `ranges_overlap` lets pass have no byte in common, keeps inputs and earlier
  outputs out of reach of each copy.

**The Swift wrapper** (`SwiftAgentProofs`, `SwiftKeysProofs`).

* `CallsAreNeverBusy` (`NeverBusy`), `HandlesAreOwnedOnce` (`HandlesHaveOneOwner`),
  `AgentsNeverDeadlock` (`OnlyNestedClosuresDeadlock`), `ClosuresHaveKeys`
  (`ClosuresSeeKeys`) and `WrapperKeepsTheContract` (`KeepsTheContract`), from one
  invariant, `SwiftInv`. Why a handle that a thread passes to C is in nobody else's
  hands depends on three things at once: the thread has exactly the locks of its
  place (`LocksAreOwned`), its C call is on the handles that its locked objects
  still have (`CallsFollowJobs`), and no other object or destroyer has these handles
  (`HandlesHaveOneOwner`, itself one of the properties). `GuardInv` of the C
  interface is part of it, and the proof uses the wrapper's steps as steps of
  `FfiHandles` (`StepsKeepTheContract`) to keep it. `OnlyNestedClosuresDeadlock`
  follows from an order of the locks, keys objects before agents before states: a
  thread that owns a state waits for nothing, one that owns an agent waits only for
  a state, so a thread that waits for one of these waits for one that will move on;
  who owns the lock of a keys object is in a closure of it (`LocksAreOwned`;
  `ClosuresDiffer`: no two closures of a thread are of one object).
* `WrapperInheritsSafety`: `Serialized`, `FlagsAreOwned` and `NoUseAfterFree` under
  the wrapper, with no assumption on callers left.
* `NoKeyIsLeft` (`NoStrayKeys`) and `KeysSurvive` (`KeysSurviveFinish`), from
  `KeysInv`: for each place of `finish` and `dispose`, which of the two keys the
  present loop has treated and what that established (`Progress`); which pairs of
  values may share a buffer there (`BuffersAreApart`); and that threads work on
  objects of their own (`TargetsAreApart`). Lemma `WorkKeepsInv` is the frame: a
  thread that stays within its own buffers and unused ones leaves what is true of the
  others true. That there is an unused buffer at all when one is asked for is a
  counting argument (`SparedBuffers`): used buffers are injected into four slots for
  each object, and the slots that are idle at that moment are spared.

**Wire format** (`WireFormatProofs`).

* `FieldsComeBack` (`RoundTrip`), `KindsAreTold` (`LookAlikes`), `WritersAreExact`
  (`WritesAreExact`) and `EnvelopesSurvive` (`EnvelopeSurvives`), for buffers of any
  size. What the proofs use of the code's numbers is collected in `Layout`: the slices
  of a writer follow each other from the version byte to the end of the message, one
  for each field and as long as the field. Lemma `LayoutIsRight` computes it from the
  offsets of `protocol.rs` and the lengths of `types.rs`, once for each kind, and
  `ParsersAgree` shows that every parser cuts where the writer copied; the rest
  is one argument for all six. `NextSlice` is one `copy_from_slice`, `WrittenBytes` the
  whole of a writer: each slice holds its field, and behind the message the buffer is
  as it was. `Written` is a recursive function over the slices of a message;
  `CopyingExists` gives its values, of which no message has more than six, without
  induction. The invariant `WireInv` says that the fields given to a writer fit and
  have the stored credentials in them where they should (`GivenIsSound`), that a
  buffer and what arrives of it carry these fields unless it was damaged
  (`BufferIsSound`, `ArrivalIsSound`), and that a view is what a parser makes of the
  buffer (`ViewIsParsed`). The envelope goes through a record and a KE2, which cut it
  at different places: `StoredBytes` and `EnvelopeIsKept` say that the cuts agree.

**Key derivation** (`KeyDerivationProofs`).

* `ExpandImplementsRfc5869` (`ExpandsAsRfc5869`), `FirstScalarIsTaken` (`FirstScalar`)
  and `WhatIsWiped` (`BuffersAreWiped`), for every block length, output length and
  number of blocks. `DerivationInv` says which part of the output is filled and that
  the current block is the `T` of its number. `T` is a recursive function; that it
  has the values its definition asks for is proved by induction, with sets in the
  place of predicates (`Smallest`, `Induction`, from the minimum of a well-founded
  set), since the provers cannot instantiate an operator parameter.

Each of these invariants was also checked by TLC on the instance of its run.

Only model-checked: the liveness properties `CallsReturn` and `HandlesAreReleased`;
liveness under fairness is out of the prover's reach.

## 5. Not modelled

* Cryptographic strength, disclosure of long-term keys, side channels: comparisons
  in constant time, the cost of Argon2, pages pinned by `mlock`.
* Primitives: HMAC, SHA-512, Ristretto255, ML-KEM and the AEAD are terms.
* Swift closures that let their `Data` escape (see SwiftKeys), and the mapping of
  error codes to Swift errors, which keeps no state.
* A clock that runs backwards: `is_expired` treats it as expired, but `Instant` is
  monotonic.
* Getters of lengths, version and error strings; tests, fuzz targets, benchmarks,
  build and release scripts; the Tamarin, ProVerif and CryptoVerif models.

## 6. Plan

Done, in the order of importance:

1. `OpaqueCore`, `Opaque`, `OpaqueProofs`: the protocol.
2. `MutualAuthentication`, `OpaqueRefinement`: what it promises.
3. `FfiHandles`, `FfiProofs`: the C interface, with key pairs and all constructors
   and destructors.
4. `OneShotSessions`, `FfiRefinement`: why a C call may be taken as one step.
5. Relays as key pair and seed, and their restart, in `Opaque`.
6. `SwiftAgent`, `SwiftKeys`: the Swift wrapper.
7. `FfiArguments`, `FfiArgumentsProofs`, `WireFormat`, `KeyDerivation`: the
   byte-level code against reference definitions.
8. The rest of `FfiProofs`, `OpaqueRefinementProofs`, `SwiftAgentProofs`,
   `SwiftKeysProofs`, `KeyDerivationProofs`, `WireFormatProofs`: every safety property
   of the runs, and all three implementations of a more abstract specification.

Left: the two liveness properties, which stay with TLC.
