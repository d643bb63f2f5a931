---------------------------- MODULE FfiArguments ----------------------------
(***************************************************************************)
(* What a call of the C interface does to the caller's memory: the checks  *)
(* of its pointers and lengths, the copies it makes of its inputs, and the *)
(* copies of its outputs.  Threads, handles and states are the subject of  *)
(* FfiHandles, which takes over once the arguments were found valid.       *)
(*                                                                         *)
(* An address is a machine word; 0 is the null pointer.  A range is a      *)
(* pointer and a length.  The lengths of the messages are parameters.      *)
(***************************************************************************)
EXTENDS Integers, Sequences

CONSTANTS
  WordSize,          \* the number of addresses, 2^64 in the builds
  HandleSize,        \* size_of::<*mut c_void>()
  KeyLength,         \* PUBLIC_KEY_LENGTH, PRIVATE_KEY_LENGTH, OPRF_SEED_LENGTH
  HashLength,        \* HASH_LENGTH
  ExportKeyLength,   \* EXPORT_KEY_LENGTH
  RequestLength, ResponseLength, RecordLength,  \* registration messages
  Ke1Length, Ke2Length, Ke3Length,
  MaxSecureKey,      \* MAX_SECURE_KEY_LENGTH
  MaxAccountId,      \* MAX_ACCOUNT_ID_LENGTH
  Sizes              \* the lengths that callers pass

Addresses == 0..(WordSize - 1)

Lengths == {HandleSize, KeyLength, HashLength, ExportKeyLength, RequestLength,
            ResponseLength, RecordLength, Ke1Length, Ke2Length, Ke3Length,
            MaxSecureKey, MaxAccountId}

ASSUME WordAssumption == WordSize \in Nat
ASSUME LengthsAssumption == Lengths \subseteq Nat \ {0} /\ Sizes \subseteq Nat

VARIABLES
  memory,  \* the caller's memory
  args,    \* the call and its arguments
  step,    \* where it is
  next,    \* the output to be copied next
  code     \* what it returned

vars == <<memory, args, step, next, code>>

-----------------------------------------------------------------------------
(* ranges_overlap: end addresses by checked_add.                           *)

\* Mutant: the end addresses wrap around.
RangesOverlap_Wraps(l, r) ==
  LET lEnd == (l.at + l.len) % WordSize
      rEnd == (r.at + r.len) % WordSize IN
  /\ l.len # 0 /\ r.len # 0
  /\ l.at < rEnd /\ r.at < lEnd

RangesOverlap(l, r) ==
  LET lEnd == l.at + l.len
      rEnd == r.at + r.len IN
  /\ l.len # 0 /\ r.len # 0
  /\ \/ lEnd >= WordSize
     \/ rEnd >= WordSize
     \/ l.at < rEnd /\ r.at < lEnd

-----------------------------------------------------------------------------
(* The entry points: the lengths each input may have, and the lengths of   *)
(* the outputs.  slot says that the output is a pointer to a handle, which *)
(* a constructor sets to null before it does anything else.                *)

AgentCreateRegistrationRequest ==
  [name |-> "registration_request", ins |-> <<1..MaxSecureKey>>, outs |-> <<RequestLength>>,
   slot |-> FALSE]
AgentFinalizeRegistration ==
  [name |-> "registration_record", ins |-> <<{ResponseLength}>>, outs |-> <<RecordLength>>,
   slot |-> FALSE]
AgentGenerateKe1 ==
  [name |-> "ke1", ins |-> <<1..MaxSecureKey, 1..MaxAccountId>>, outs |-> <<Ke1Length>>,
   slot |-> FALSE]
AgentGenerateKe3 ==
  [name |-> "ke3", ins |-> <<{Ke2Length}>>, outs |-> <<Ke3Length>>, slot |-> FALSE]
AgentFinish ==
  [name |-> "agent_keys", ins |-> <<>>, outs |-> <<HashLength, ExportKeyLength>>,
   slot |-> FALSE]
RelayCreateRegistrationResponse ==
  [name |-> "registration_response", ins |-> <<{RequestLength}, 1..MaxAccountId>>,
   outs |-> <<ResponseLength>>, slot |-> FALSE]
RelayBuildCredentials ==
  [name |-> "credentials", ins |-> <<{RecordLength}>>, outs |-> <<RecordLength>>,
   slot |-> FALSE]
(* Credentials of length 0 stand for an account that is not registered.    *)
RelayGenerateKe2 ==
  [name |-> "ke2", ins |-> <<{Ke1Length}, 1..MaxAccountId, {0, RecordLength}>>,
   outs |-> <<Ke2Length>>, slot |-> FALSE]
RelayFinish ==
  [name |-> "relay_key", ins |-> <<{Ke3Length}>>, outs |-> <<HashLength>>, slot |-> FALSE]
RelayKeypairGetPublicKey ==
  [name |-> "public_key", ins |-> <<>>, outs |-> <<KeyLength>>, slot |-> FALSE]
AgentCreate ==
  [name |-> "agent", ins |-> <<{KeyLength}>>, outs |-> <<HandleSize>>, slot |-> TRUE]
RelayCreateWithKeys ==
  [name |-> "relay", ins |-> <<{KeyLength}, {KeyLength}, {KeyLength}>>,
   outs |-> <<HandleSize>>, slot |-> TRUE]

Entries == {AgentCreateRegistrationRequest, AgentFinalizeRegistration, AgentGenerateKe1,
            AgentGenerateKe3, AgentFinish, RelayCreateRegistrationResponse,
            RelayBuildCredentials, RelayGenerateKe2, RelayFinish,
            RelayKeypairGetPublicKey, AgentCreate, RelayCreateWithKeys}

NoEntry == [name |-> "none", ins |-> <<>>, outs |-> <<>>, slot |-> FALSE]

-----------------------------------------------------------------------------
(* Memory.                                                                 *)

Ranges == [at : Addresses, len : Sizes]

Bytes(range) == {a \in Addresses : range.at <= a /\ a < range.at + range.len}

(* What the caller has at address a.                                       *)
Caller(a) == <<"caller", a>>

(* What the call leaves in its j-th output, byte by byte; a null pointer.  *)
Output(j, k) == <<"output", j, k>>
NullByte     == <<"null">>

(* The part of its j-th output that the call writes.                       *)
Extent(j) == [at |-> args.outs[j].at, len |-> args.entry.outs[j]]

Ins  == DOMAIN args.ins
Outs == DOMAIN args.outs

Init ==
  /\ memory = [a \in Addresses |-> Caller(a)]
  /\ args = [entry |-> NoEntry, ins |-> <<>>, outs |-> <<>>]
  /\ step = "idle" /\ next = 1 /\ code = 0

(* A call with any pointers and lengths.  What the code cannot check is    *)
(* the caller's duty: the slot of a handle, and an output that is the only *)
(* range of the call, lie in memory.                                       *)
Call ==
  /\ step = "idle"
  /\ \E entry \in Entries :
     \E ins \in [DOMAIN entry.ins -> Ranges], outs \in [DOMAIN entry.outs -> Ranges] :
       /\ entry.slot => outs[1].len = HandleSize
       /\ entry.slot \/ entry = RelayKeypairGetPublicKey =>
            outs[1].at + outs[1].len <= WordSize
       /\ args' = [entry |-> entry, ins |-> ins, outs |-> outs]
       /\ step' = IF entry.slot THEN "slot" ELSE "check"
  /\ UNCHANGED <<memory, next, code>>

Return(value) == step' = "done" /\ code' = value

(* The slot is set to null before anything else can fail.                  *)
NullSlot ==
  /\ step = "slot"
  /\ IF args.outs[1].at = 0
     THEN Return(-1) /\ UNCHANGED memory
     ELSE /\ memory' = [a \in Addresses |-> IF a \in Bytes(Extent(1)) THEN NullByte ELSE memory[a]]
          /\ step' = "check"
          /\ UNCHANGED code
  /\ UNCHANGED <<args, next>>

\* Mutant: the capacity of an output is not compared.
BadArgument_AnyCapacity ==
  \/ \E i \in Ins : \/ args.ins[i].len \notin args.entry.ins[i]
                    \/ args.ins[i].at = 0 /\ args.ins[i].len # 0
  \/ \E j \in Outs : args.outs[j].at = 0

(* OPAQUE_ERROR_INVALID_INPUT: a length or a null pointer ...              *)
BadArgument ==
  \/ \E i \in Ins : \/ args.ins[i].len \notin args.entry.ins[i]
                    \/ args.ins[i].at = 0 /\ args.ins[i].len # 0
  \/ \E j \in Outs : args.outs[j].at = 0 \/ args.outs[j].len < args.entry.outs[j]

\* Mutant: only inputs are compared with outputs.
Overlap_InputsOnly == \E i \in Ins, j \in Outs : RangesOverlap(args.ins[i], Extent(j))

\* Mutant: only outputs are compared with each other.
Overlap_OutputsOnly == \E j, k \in Outs : j # k /\ RangesOverlap(Extent(j), Extent(k))

(* ... or an output that overlaps an input or another output.              *)
Overlap ==
  \/ \E i \in Ins, j \in Outs : RangesOverlap(args.ins[i], Extent(j))
  \/ \E j, k \in Outs : j # k /\ RangesOverlap(Extent(j), Extent(k))

Check ==
  /\ step = "check"
  /\ IF BadArgument \/ Overlap THEN Return(-1) ELSE step' = "run" /\ UNCHANGED code
  /\ UNCHANGED <<memory, args, next>>

(* What a call may return when the work fails: to_c_int of an error, BUSY  *)
(* or PANIC, and for a stored record that does not parse CORRUPTED_RECORD. *)
(* A constructor fails when it does not accept a key.                      *)
FFI_PANIC == -99
FFI_BUSY  == -100
FFI_CORRUPTED_RECORD == -101

FailureCodes(entry) ==
  CASE entry = AgentCreate         -> {-6, FFI_PANIC}
    [] entry = RelayCreateWithKeys -> {-1, FFI_PANIC}
    [] OTHER -> {-1, -2, -5, -6, -10, FFI_PANIC, FFI_BUSY}
                \cup (IF entry = RelayGenerateKe2 THEN {FFI_CORRUPTED_RECORD} ELSE {})

(* The inputs are read and the work is done on copies.                     *)
RunFails ==
  /\ step = "run"
  /\ \E error \in FailureCodes(args.entry) : Return(error)
  /\ UNCHANGED <<memory, args, next>>

Run ==
  /\ step = "run"
  /\ step' = "commit"
  /\ UNCHANGED <<memory, args, next, code>>

(* copy_nonoverlapping, output by output.                                  *)
Commit ==
  LET range == Extent(next) IN
  /\ step = "commit"
  /\ memory' = [a \in Addresses |-> IF a \in Bytes(range) THEN Output(next, a - range.at)
                                    ELSE memory[a]]
  /\ next' = next + 1
  /\ IF next + 1 \in Outs THEN UNCHANGED <<step, code>> ELSE Return(0)
  /\ UNCHANGED args

Next == Call \/ NullSlot \/ Check \/ RunFails \/ Run \/ Commit

Spec == Init /\ [][Next]_vars

-----------------------------------------------------------------------------
(* Properties.                                                             *)

Accepted == step \in {"run", "commit"} \/ (step = "done" /\ code = 0)

(* ranges_overlap says of an input and an output exactly whether they have *)
(* a byte in common or run past the last address that can be an end, also  *)
(* where they touch, where they are empty and at the top of memory.        *)
OverlapIsExact ==
  \A i \in Ins, j \in Outs :
    RangesOverlap(args.ins[i], Extent(j)) <=>
      /\ args.ins[i].len > 0
      /\ \/ Bytes(args.ins[i]) \cap Bytes(Extent(j)) # {}
         \/ args.ins[i].at + args.ins[i].len \notin Addresses
         \/ Extent(j).at + Extent(j).len \notin Addresses

(* An accepted call reads its inputs as the caller left them, although a   *)
(* constructor has written to its slot by then, and leaves them so.        *)
InputsIntact ==
  Accepted => \A i \in Ins : \A a \in Bytes(args.ins[i]) : memory[a] = Caller(a)

(* After a call that succeeded every output is there from the first byte   *)
(* to the last: the export key has not overwritten the session key.        *)
OutputsComplete ==
  step = "done" /\ code = 0 =>
    \A j \in Outs : \A a \in Bytes(Extent(j)) : memory[a] = Output(j, a - Extent(j).at)

(* A call writes inside the buffers it was given and nowhere else, and a   *)
(* call that did not succeed has written nothing but a null handle.        *)
WritesInBounds ==
  \A a \in Addresses : memory[a] # Caller(a) =>
    /\ a # 0 /\ \E j \in Outs : a \in Bytes(args.outs[j])
    /\ step = "done" /\ code # 0 => args.entry.slot /\ memory[a] = NullByte
=============================================================================
