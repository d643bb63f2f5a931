----------------------------- MODULE FfiHandles -----------------------------
(***************************************************************************)
(* The C interface (opaque-ffi): calls that run on several threads, on     *)
(* handles guarded by one atomic flag each, around the sessions of         *)
(* opaque-agent and opaque-relay.                                          *)
(*                                                                         *)
(* A protocol call takes the flag of its agent or relay, then the flag of  *)
(* its state, runs the crate's function on the state, copies the output to *)
(* the caller, and gives the flags back in reverse order.  It never waits: *)
(* a flag that is taken ends the call with OPAQUE_ERROR_BUSY.  Whether the *)
(* crate's function succeeds in the right phase depends on its input, and  *)
(* is left open here; Opaque has the details.                              *)
(*                                                                         *)
(* The callers keep the contract of opaque_common.h: handles are live and  *)
(* of the right type, and a handle is not destroyed while a call that has  *)
(* not been admitted to it yet is under way.                               *)
(***************************************************************************)
EXTENDS Sequences

CONSTANTS
  Threads,      \* threads of the application
  Agents,       \* AgentHandle allocations
  Relays,       \* RelayHandle allocations
  Keypairs,     \* RelayKeypairHandle allocations
  AgentStates,  \* AgentStateHandle allocations
  RelayStates,  \* RelayStateHandle allocations
  Null          \* the null pointer

States  == AgentStates \cup RelayStates
Roots   == Agents \cup Relays \cup Keypairs
Handles == Roots \cup States

ASSUME NullAssumption == Null \notin Handles
ASSUME KindsAssumption ==
  /\ Agents \cap Relays = {} /\ Keypairs \cap (Agents \cup Relays) = {}
  /\ AgentStates \cap RelayStates = {} /\ Roots \cap States = {}

VARIABLES
  live,       \* handles that have been created and not destroyed
  inUse,      \* handles whose in_use flag is set
  phase,      \* the phase of each state
  exported,   \* agent states whose ke3_exported is set
  outputs,    \* what the calls on a state have handed to the caller, in order
  pc,         \* where each thread is
  call,       \* the call it is in
  result      \* what the call will return, once that is settled

vars == <<live, inUse, phase, exported, outputs, pc, call, result>>

-----------------------------------------------------------------------------
(* The entry points that take a state: the type of their handles, the      *)
(* phase the crate's function requires and the one it leaves.              *)

AgentCreateRegistrationRequest ==
  [name |-> "registration_request", on |-> "agent",
   from |-> "Created", to |-> "RegistrationRequested"]

AgentFinalizeRegistration ==
  [name |-> "registration_record", on |-> "agent",
   from |-> "RegistrationRequested", to |-> "RegistrationFinalized"]

AgentGenerateKe1 ==
  [name |-> "ke1", on |-> "agent", from |-> "Created", to |-> "Ke1Generated"]

AgentGenerateKe3 ==
  [name |-> "ke3", on |-> "agent", from |-> "Ke1Generated", to |-> "Ke3Generated"]

AgentFinish ==
  [name |-> "agent_keys", on |-> "agent", from |-> "Ke3Generated", to |-> "Finished"]

RelayGenerateKe2 ==
  [name |-> "ke2", on |-> "relay", from |-> "Created", to |-> "Ke2Generated"]

RelayFinish ==
  [name |-> "relay_key", on |-> "relay", from |-> "Ke2Generated", to |-> "Finished"]

(* These take a relay or a key pair and no state.                          *)
RelayCreateRegistrationResponse == [name |-> "registration_response", on |-> "relay"]
RelayKeypairGetPublicKey == [name |-> "public_key", on |-> "keypair"]
RelayCreate == [name |-> "relay", on |-> "keypair"]

Ops == {AgentCreateRegistrationRequest, AgentFinalizeRegistration, AgentGenerateKe1,
        AgentGenerateKe3, AgentFinish, RelayGenerateKe2, RelayFinish}
StatelessOps == {RelayCreateRegistrationResponse, RelayKeypairGetPublicKey, RelayCreate}

AgentPhases == {op.from : op \in {o \in Ops : o.on = "agent"}} \cup
               {op.to   : op \in {o \in Ops : o.on = "agent"}}
RelayPhases == {op.from : op \in {o \in Ops : o.on = "relay"}} \cup
               {op.to   : op \in {o \in Ops : o.on = "relay"}}

RootsOf(op) == CASE op.on = "agent"   -> Agents
                 [] op.on = "relay"   -> Relays
                 [] op.on = "keypair" -> Keypairs

\* Mutant: the pointer is not checked for its type by the caller either.
StatesOf_AnyState(op) == States \cup {Null}

StatesOf(op) == (IF op.on = "agent" THEN AgentStates ELSE RelayStates) \cup {Null}

NoCall == [op |-> [name |-> "none", on |-> "none"], root |-> Null, state |-> Null]

-----------------------------------------------------------------------------
Init ==
  /\ live = {} /\ inUse = {} /\ exported = {}
  /\ phase = [s \in States |-> "Created"]
  /\ outputs = [s \in States |-> <<>>]
  /\ pc = [t \in Threads |-> "idle"]
  /\ call = [t \in Threads |-> NoCall]
  /\ result = [t \in Threads |-> "none"]

(* The pointer to a new handle, with its flag clear, goes into the         *)
(* caller's slot as the last thing a constructor does; one that fails or   *)
(* panics before leaves the slot null.  A state starts in Created.         *)
Create(t, handles) ==
  /\ pc[t] = "idle"
  /\ \E h \in handles \ live : live' = live \cup {h}
  /\ UNCHANGED <<inUse, phase, exported, outputs, pc, call, result>>

AgentCreate(t)          == Create(t, Agents)
AgentStateCreate(t)     == Create(t, AgentStates)
RelayStateCreate(t)     == Create(t, RelayStates)
RelayKeypairGenerate(t) == Create(t, Keypairs)
RelayCreateWithKeys(t)  == Create(t, Relays)

(* Drop zeroizes what the handle held; nothing of it is left for the next  *)
(* handle in that slot.                                                    *)
Forget(h) ==
  /\ phase' = [s \in States |-> IF s = h THEN "Created" ELSE phase[s]]
  /\ outputs' = [s \in States |-> IF s = h THEN <<>> ELSE outputs[s]]
  /\ exported' = exported \ {h}

(* Calls that have started and have not been admitted to h.                *)
Approaching(h) ==
  {t \in Threads : \/ pc[t] = "admit_root" /\ h \in {call[t].root, call[t].state}
                   \/ pc[t] = "admit_state" /\ h = call[t].state}

\* Mutant: the handle is freed without a look at its flag.
TryDestroy_NoFlag(t, h) ==
  /\ pc[t] = "idle" /\ h \in live /\ Approaching(h) = {}
  /\ live' = live \ {h}
  /\ Forget(h)
  /\ UNCHANGED <<inUse, pc, call, result>>

(* try_destroy: frees the handle unless its flag is set (OPAQUE_ERROR_BUSY *)
(* otherwise, with no effect).                                             *)
TryDestroy(t, h) ==
  /\ pc[t] = "idle" /\ h \in live \ inUse
  /\ live' = live \ {h}
  /\ Approaching(h) = {}
  /\ Forget(h)
  /\ UNCHANGED <<inUse, pc, call, result>>

AgentTryDestroy(t)        == \E h \in Agents : TryDestroy(t, h)
AgentStateTryDestroy(t)   == \E h \in AgentStates : TryDestroy(t, h)
RelayTryDestroy(t)        == \E h \in Relays : TryDestroy(t, h)
RelayStateTryDestroy(t)   == \E h \in RelayStates : TryDestroy(t, h)
RelayKeypairTryDestroy(t) == \E h \in Keypairs : TryDestroy(t, h)

-----------------------------------------------------------------------------
(* A call, step by step.                                                   *)

(* The arguments were found valid; no flag has been touched.               *)
Begin(t) ==
  /\ pc[t] = "idle"
  /\ pc' = [pc EXCEPT ![t] = "admit_root"]
  /\ \/ \E op \in Ops : \E root \in RootsOf(op) \cap live,
                           state \in StatesOf(op) \cap (live \cup {Null}) :
          call' = [call EXCEPT ![t] = [op |-> op, root |-> root, state |-> state]]
     \/ \E op \in StatelessOps : \E root \in RootsOf(op) \cap live :
          call' = [call EXCEPT ![t] = [op |-> op, root |-> root, state |-> Null]]
  /\ UNCHANGED <<live, inUse, phase, exported, outputs, result>>

Return(t) ==
  /\ pc' = [pc EXCEPT ![t] = "idle"]
  /\ call' = [call EXCEPT ![t] = NoCall]
  /\ result' = [result EXCEPT ![t] = "none"]

(* acquire_agent, acquire_relay, acquire_relay_keypair: one                *)
(* compare_exchange.                                                       *)
AdmitRoot(t) ==
  /\ pc[t] = "admit_root"
  /\ \/ /\ call[t].root \in inUse
        /\ Return(t)
        /\ UNCHANGED inUse
     \/ /\ call[t].root \notin inUse
        /\ inUse' = inUse \cup {call[t].root}
        /\ pc' = [pc EXCEPT ![t] = IF call[t].op \in StatelessOps
                                   THEN "stateless" ELSE "admit_state"]
        /\ UNCHANGED <<call, result>>
  /\ UNCHANGED <<live, phase, exported, outputs>>

(* An early return after the root was admitted; its guard is dropped on    *)
(* the way out and the state has not been touched.                         *)
Refuse(t, code) ==
  /\ result' = [result EXCEPT ![t] = code]
  /\ pc' = [pc EXCEPT ![t] = "release_root"]
  /\ UNCHANGED <<live, inUse, phase, exported, outputs, call>>

Admit(t) ==
  /\ inUse' = inUse \cup {call[t].state}
  /\ pc' = [pc EXCEPT ![t] = "run"]
  /\ UNCHANGED <<live, phase, exported, outputs, call, result>>

\* Mutant: the early return leaks the flag of the agent or relay.
AdmitState_LeaksRoot(t) ==
  /\ pc[t] = "admit_state"
  /\ \/ /\ call[t].state = Null \/ call[t].state \in inUse
        /\ Return(t)
        /\ UNCHANGED <<live, inUse, phase, exported, outputs>>
     \/ call[t].state # Null /\ call[t].state \notin inUse /\ Admit(t)

\* Mutant: the flag of the state is set without having been compared.
AdmitState_NoCompare(t) ==
  /\ pc[t] = "admit_state"
  /\ \/ call[t].state = Null /\ Refuse(t, "invalid_handle")
     \/ call[t].state # Null /\ Admit(t)

\* Mutant: the call waits for the state instead of returning busy.
AdmitState_Waits(t) ==
  /\ pc[t] = "admit_state"
  /\ \/ call[t].state = Null /\ Refuse(t, "invalid_handle")
     \/ call[t].state # Null /\ call[t].state \notin inUse /\ Admit(t)

(* acquire_agent_state, acquire_relay_state: a null pointer or a flag that *)
(* is taken ends the call.                                                 *)
AdmitState(t) ==
  /\ pc[t] = "admit_state"
  /\ \/ call[t].state = Null /\ Refuse(t, "invalid_handle")
     \/ call[t].state \in inUse /\ Refuse(t, "busy")
     \/ call[t].state # Null /\ call[t].state \notin inUse /\ Admit(t)

(* generate_ke2 parses the stored record before it turns to the state.     *)
CorruptedRecord(t) ==
  /\ pc[t] = "admit_state" /\ call[t].op = RelayGenerateKe2
  /\ Refuse(t, "corrupted_record")

(* The crate's function, on a state in the phase it requires: it may       *)
(* succeed.  generate_ke3 first withdraws the mark of an exported KE3;     *)
(* finish requires it.                                                     *)
RunSucceeds(t) ==
  LET op == call[t].op  s == call[t].state IN
  /\ pc[t] = "run"
  /\ phase[s] = op.from
  /\ op = AgentFinish => s \in exported
  /\ phase' = [phase EXCEPT ![s] = op.to]
  /\ exported' = IF op = AgentGenerateKe3 THEN exported \ {s} ELSE exported
  /\ pc' = [pc EXCEPT ![t] = "commit"]
  /\ UNCHANGED <<live, inUse, outputs, call, result>>

(* It fails in any other phase and may fail in this one.                   *)
RunFails(t) ==
  /\ pc[t] = "run"
  /\ result' = [result EXCEPT ![t] = "error"]
  /\ pc' = [pc EXCEPT ![t] = "failed"]
  /\ UNCHANGED <<live, inUse, phase, exported, outputs, call>>

(* A panic, in the crate's function or after it and before the output was  *)
(* copied.                                                                 *)
Panic(t) ==
  /\ pc[t] \in {"run", "commit"}
  /\ result' = [result EXCEPT ![t] = "panic"]
  /\ pc' = [pc EXCEPT ![t] = "failed"]
  /\ UNCHANGED <<live, inUse, phase, exported, outputs, call>>

(* The output is copied to the caller.                                     *)
Commit(t) ==
  LET op == call[t].op  s == call[t].state IN
  /\ pc[t] = "commit"
  /\ outputs' = [outputs EXCEPT ![s] = Append(@, op.name)]
  /\ exported' = IF op = AgentGenerateKe3 THEN exported \cup {s}
                 ELSE IF op = AgentFinish THEN exported \ {s} ELSE exported
  /\ result' = [result EXCEPT ![t] = "ok"]
  /\ pc' = [pc EXCEPT ![t] = "release_state"]
  /\ UNCHANGED <<live, inUse, phase, call>>

\* Mutant: only errors invalidate the state, a caught panic does not.
Terminalize_NotOnPanic(t) ==
  LET s == call[t].state IN
  /\ pc[t] = "failed"
  /\ phase' = [phase EXCEPT ![s] = IF result[t] = "panic" THEN @ ELSE "Finished"]
  /\ exported' = IF result[t] = "panic" THEN exported ELSE exported \ {s}
  /\ pc' = [pc EXCEPT ![t] = "release_state"]
  /\ UNCHANGED <<live, inUse, outputs, call, result>>

\* Mutant: only a panic invalidates the state, an error does not.
Terminalize_NotOnError(t) ==
  LET s == call[t].state IN
  /\ pc[t] = "failed"
  /\ phase' = [phase EXCEPT ![s] = IF result[t] = "error" THEN @ ELSE "Finished"]
  /\ exported' = IF result[t] = "error" THEN exported ELSE exported \ {s}
  /\ pc' = [pc EXCEPT ![t] = "release_state"]
  /\ UNCHANGED <<live, inUse, outputs, call, result>>

(* run_agent_stateful, run_relay_stateful: the error and the panic arm.    *)
Terminalize(t) ==
  LET s == call[t].state IN
  /\ pc[t] = "failed"
  /\ phase' = [phase EXCEPT ![s] = "Finished"]
  /\ exported' = exported \ {s}
  /\ pc' = [pc EXCEPT ![t] = "release_state"]
  /\ UNCHANGED <<live, inUse, outputs, call, result>>

(* BusyGuard::drop, of the state first.                                    *)
ReleaseState(t) ==
  /\ pc[t] = "release_state"
  /\ inUse' = inUse \ {call[t].state}
  /\ pc' = [pc EXCEPT ![t] = "release_root"]
  /\ UNCHANGED <<live, phase, exported, outputs, call, result>>

(* opaque_relay_create gives the key pair back before it publishes.        *)
ReleaseRoot(t) ==
  /\ pc[t] = "release_root"
  /\ inUse' = inUse \ {call[t].root}
  /\ \/ /\ call[t].op = RelayCreate /\ result[t] = "ok"
        /\ pc' = [pc EXCEPT ![t] = "publish"]
        /\ UNCHANGED <<call, result>>
     \/ /\ ~(call[t].op = RelayCreate /\ result[t] = "ok")
        /\ Return(t)
  /\ UNCHANGED <<live, phase, exported, outputs>>

(* The relay made from a copy of the key pair is published, or dropped by  *)
(* a panic.                                                                *)
Publish(t) ==
  /\ pc[t] = "publish"
  /\ \/ \E h \in Relays \ live : live' = live \cup {h}
     \/ UNCHANGED live
  /\ Return(t)
  /\ UNCHANGED <<inUse, phase, exported, outputs>>

(* A call without a state does all it does in one step: success, error or  *)
(* panic.                                                                  *)
Stateless(t) ==
  /\ pc[t] = "stateless"
  /\ \E code \in {"ok", "error", "panic"} : result' = [result EXCEPT ![t] = code]
  /\ pc' = [pc EXCEPT ![t] = "release_root"]
  /\ UNCHANGED <<live, inUse, phase, exported, outputs, call>>

Step(t) ==
  \/ AdmitRoot(t) \/ AdmitState(t) \/ CorruptedRecord(t) \/ Stateless(t)
  \/ RunSucceeds(t) \/ RunFails(t) \/ Panic(t)
  \/ Commit(t) \/ Terminalize(t) \/ ReleaseState(t) \/ ReleaseRoot(t) \/ Publish(t)

Creates(t) ==
  \/ AgentCreate(t) \/ AgentStateCreate(t)
  \/ RelayKeypairGenerate(t) \/ RelayCreateWithKeys(t) \/ RelayStateCreate(t)

Destroys(t) ==
  \/ AgentTryDestroy(t) \/ AgentStateTryDestroy(t)
  \/ RelayKeypairTryDestroy(t) \/ RelayTryDestroy(t) \/ RelayStateTryDestroy(t)

Next ==
  \E t \in Threads :
    \/ Begin(t)
    \/ Step(t)
    \/ Creates(t)
    \/ Destroys(t)

Spec == Init /\ [][Next]_vars

(* A thread that is in a call goes on with it; nothing obliges the         *)
(* application to start one.                                               *)
FairSpec == Spec /\ \A t \in Threads : WF_vars(Step(t))

-----------------------------------------------------------------------------
(* Properties.                                                             *)

Results == {"none", "ok", "busy", "invalid_handle", "corrupted_record", "error",
            "panic"}

Labels == {"idle", "admit_root", "admit_state", "stateless", "run", "commit",
           "failed", "release_state", "release_root", "publish"}

(* Every variable has the shape the code gives it; in particular an agent  *)
(* state is in a phase of the agent and a relay state in one of the relay. *)
TypeOK ==
  /\ live \subseteq Handles /\ inUse \subseteq Handles
  /\ exported \subseteq AgentStates
  /\ phase \in [States -> AgentPhases \cup RelayPhases]
  /\ \A s \in AgentStates : phase[s] \in AgentPhases
  /\ \A s \in RelayStates : phase[s] \in RelayPhases
  /\ outputs \in [States -> Seq({op.name : op \in Ops})]
  /\ pc \in [Threads -> Labels]
  /\ DOMAIN call = Threads
  /\ result \in [Threads -> Results]

HoldsState(t) == pc[t] \in {"run", "commit", "failed", "release_state"}
HoldsRoot(t)  == HoldsState(t) \/ pc[t] \in {"admit_state", "stateless", "release_root"}

(* The handles whose BusyGuard thread t owns.                              *)
Guards(t) == (IF HoldsRoot(t) THEN {call[t].root} ELSE {}) \cup
             (IF HoldsState(t) THEN {call[t].state} ELSE {})

(* "Operations on the same live handle are serialized": the mutable        *)
(* reference that acquire_agent_state or acquire_relay_state makes is the  *)
(* only one, and no two calls hold the same agent or relay.                *)
Serialized == \A t, u \in Threads : t # u => Guards(t) \cap Guards(u) = {}

(* A flag is set exactly while a call owns its guard: no early return,     *)
(* error or panic leaves a handle busy for ever, and none clears the flag  *)
(* of a handle that another call is using.                                 *)
FlagsAreOwned == inUse = UNION {Guards(t) : t \in Threads}

(* No handle is freed while a call uses it, although the destructors are   *)
(* free to run next to calls that have been admitted.                      *)
NoUseAfterFree == \A t \in Threads : Guards(t) \subseteq live

(* The contract of the callers, carried along: a call in progress names a  *)
(* root and, unless it refused or has given it back, a state; those it has *)
(* not been admitted to yet are live.                                      *)
CallsAreLive ==
  \A t \in Threads :
    /\ pc[t] # "idle" => call[t].root \in Roots
    /\ pc[t] \in {"admit_root", "admit_state"} => call[t].state \in (States \cap live) \cup {Null}
    /\ pc[t] = "admit_root" => call[t].root \in live
    /\ HoldsState(t) => call[t].state \in States

(* The inductive invariant behind the three properties above.              *)
GuardInv == CallsAreLive /\ FlagsAreOwned /\ Serialized /\ NoUseAfterFree

(* What the caller of a state that is in a given phase has received.       *)
Received(s) ==
  CASE phase[s] = "Created"               -> <<>>
    [] phase[s] = "RegistrationRequested" -> <<"registration_request">>
    [] phase[s] = "RegistrationFinalized" -> <<"registration_request", "registration_record">>
    [] phase[s] = "Ke1Generated"          -> <<"ke1">>
    [] phase[s] = "Ke3Generated"          -> <<"ke1", "ke3">>
    [] phase[s] = "Ke2Generated"          -> <<"ke2">>
    [] OTHER                              -> outputs[s]

(* The state and the caller agree: a state no call is using has advanced   *)
(* exactly as far as the outputs that were handed over, whatever panicked  *)
(* between the crate's function and the copy, and its KE3 is marked as     *)
(* exported exactly when the caller has it and may still ask for the keys. *)
CommittedOrTerminal ==
  \A s \in live \cap States : s \notin inUse =>
    /\ outputs[s] = Received(s)
    /\ s \in exported <=> phase[s] = "Ke3Generated"

(* "errors or panics after admission terminalize and zeroize that one-shot *)
(* state": the state of a call that is about to return an error is over.   *)
FailuresAreTerminal ==
  \A t \in Threads :
    pc[t] = "release_state" /\ result[t] # "ok" => phase[call[t].state] = "Finished"

(* No call waits for another one: every call returns, also when every      *)
(* other thread keeps the handles busy.                                    *)
CallsReturn == \A t \in Threads : pc[t] # "idle" ~> pc[t] = "idle"

(* Every handle that is in use becomes free again.                         *)
HandlesAreReleased == \A h \in Handles : h \in inUse ~> h \notin inUse
=============================================================================
