----------------------------- MODULE SwiftAgent ------------------------------
(***************************************************************************)
(* AuraOPAQUE, the Swift wrapper: OpaqueAgent, AgentState and              *)
(* AuthenticationKeys objects shared by threads, on top of the C interface *)
(* of FfiHandles.                                                          *)
(*                                                                         *)
(* Every object has a lock of its own that is not recursive and promises   *)
(* no order among the threads that wait for it.  An operation of an agent  *)
(* holds the agent's lock and inside it the state's lock around the C      *)
(* call; a closure that was given a key runs under the lock of the keys    *)
(* object and may call anything of the wrapper, that keys object again     *)
(* included.                                                               *)
(*                                                                         *)
(* The C calls are those of FfiHandles step by step, except that nothing   *)
(* here assumes the contract of opaque_common.h: the wrapper has to keep   *)
(* it.                                                                     *)
(***************************************************************************)
EXTENDS FfiHandles

CONSTANTS
  AgentObjects,  \* OpaqueAgent objects
  StateObjects,  \* AgentState objects
  KeysObjects,   \* AuthenticationKeys objects
  Nobody         \* the owner of a free lock, no object

Objects == AgentObjects \cup StateObjects
Locks   == Objects \cup KeysObjects

ASSUME ObjectsAssumption ==
  /\ AgentObjects \cap StateObjects = {} /\ KeysObjects \cap Objects = {}
  /\ Nobody \notin Threads \cup Locks

VARIABLES
  initialized,  \* OpaqueAgent.isInitialized
  objects,      \* objects that are referenced
  field,        \* the handle property of each agent and state object
  disposed,     \* keys objects that were disposed of
  owner,        \* the thread that has each lock
  at,           \* where each thread is in the wrapper
  job,          \* the objects it is working on
  local,        \* a handle that it has taken out of an object to destroy it
  closures,     \* the keys objects whose closures it runs, innermost first
  succeeded     \* whether its C call returned zero

wvars == <<initialized, objects, field, disposed, owner, at, job, local, closures,
           succeeded>>
svars == <<vars, wvars>>

AgentOps == {op \in Ops : op.on = "agent"}

NoJob == [op |-> NoCall.op, agent |-> Nobody, state |-> Nobody, keys |-> Nobody]

SwiftInit ==
  /\ Init
  /\ initialized = FALSE /\ objects = {} /\ disposed = {}
  /\ field = [o \in Objects |-> Null]
  /\ owner = [l \in Locks |-> Nobody]
  /\ at = [t \in Threads |-> "outside"]
  /\ job = [t \in Threads |-> NoJob]
  /\ local = [t \in Threads |-> Null]
  /\ closures = [t \in Threads |-> <<>>]
  /\ succeeded = [t \in Threads |-> FALSE]

Go(t, place) == at' = [at EXCEPT ![t] = place]

(* The keys objects that a thread runs closures of.                        *)
Running(t) == {closures[t][i] : i \in DOMAIN closures[t]}

(* ARC keeps an object while a method of it runs.                          *)
Referenced(o) ==
  \E t \in Threads : at[t] # "outside" /\ o \in {job[t].agent, job[t].state, job[t].keys}

-----------------------------------------------------------------------------
(* Construction and deinit.                                                *)

(* initialize: opaque_init always succeeds, and a repeated call does       *)
(* nothing.                                                                *)
Initialize(t) ==
  /\ at[t] = "outside" /\ ~initialized
  /\ initialized' = TRUE
  /\ UNCHANGED <<vars, objects, field, disposed, owner, at, job, local, closures,
                 succeeded>>

(* OpaqueAgent.init or AgentState.init: the object keeps the handle that   *)
(* the C constructor published.                                            *)
Construct(t, o, handles) ==
  /\ at[t] = "outside" /\ o \notin objects
  /\ \E h \in handles \ live :
       /\ live' = live \cup {h}
       /\ field' = [field EXCEPT ![o] = h]
  /\ objects' = objects \cup {o}
  /\ UNCHANGED <<inUse, phase, exported, outputs, pc, call, result, initialized,
                 disposed, owner, at, job, local, closures, succeeded>>

OpaqueAgentInit(t) ==
  initialized /\ \E o \in AgentObjects : Construct(t, o, Agents)
CreateState(t) == \E o \in StateObjects : Construct(t, o, AgentStates)

(* deinit, when the last reference is gone: nobody else can see the        *)
(* object.                                                                 *)
Deinit(t) ==
  \E o \in objects \cap Objects :
    /\ at[t] = "outside" /\ ~Referenced(o)
    /\ objects' = objects \ {o}
    /\ local' = [local EXCEPT ![t] = field[o]]
    /\ field' = [field EXCEPT ![o] = Null]
    /\ Go(t, IF field[o] = Null THEN "outside" ELSE "destroy")
    /\ UNCHANGED <<vars, initialized, disposed, owner, job, closures, succeeded>>

-----------------------------------------------------------------------------
(* The operations of an agent.                                             *)

(* createRegistrationRequest, finalizeRegistration, generateKE1,           *)
(* generateKE3 or finish is called, with arguments it accepts.             *)
Enter(t) ==
  /\ at[t] = "outside"
  /\ \E op \in AgentOps, agent \in AgentObjects \cap objects,
        state \in StateObjects \cap objects :
       job' = [job EXCEPT ![t] = [NoJob EXCEPT !.op = op, !.agent = agent,
                                               !.state = state]]
  /\ Go(t, "lock_agent")
  /\ UNCHANGED <<vars, initialized, objects, field, disposed, owner, local, closures,
                 succeeded>>

\* Mutant: the agent is not locked.
LockAgent_NotAtAll(t) ==
  /\ at[t] = "lock_agent"
  /\ Go(t, IF field[job[t].agent] = Null THEN "unlock_agent" ELSE "lock_state")
  /\ UNCHANGED <<vars, initialized, objects, field, disposed, owner, job, local,
                 closures, succeeded>>

LockAgent(t) ==
  /\ at[t] = "lock_agent" /\ owner[job[t].agent] = Nobody
  /\ owner' = [owner EXCEPT ![job[t].agent] = t]
  /\ Go(t, IF field[job[t].agent] = Null THEN "unlock_agent" ELSE "lock_state")
  /\ UNCHANGED <<vars, initialized, objects, field, disposed, job, local, closures,
                 succeeded>>

\* Mutant: a disposed state throws without giving its lock back.
LockState_ThrowKeepsLock(t) ==
  /\ at[t] = "lock_state" /\ owner[job[t].state] = Nobody
  /\ owner' = [owner EXCEPT ![job[t].state] = t]
  /\ Go(t, IF field[job[t].state] = Null THEN "unlock_agent" ELSE "call")
  /\ UNCHANGED <<vars, initialized, objects, field, disposed, job, local, closures,
                 succeeded>>

\* Mutant: withHandle reads the handle and lets go of the lock at once.
LockState_ReadsOnly(t) ==
  /\ at[t] = "lock_state" /\ owner[job[t].state] = Nobody
  /\ Go(t, IF field[job[t].state] = Null THEN "unlock_agent" ELSE "call")
  /\ UNCHANGED <<vars, initialized, objects, field, disposed, owner, job, local,
                 closures, succeeded>>

(* AgentState.withHandle, up to its body.                                  *)
LockState(t) ==
  /\ at[t] = "lock_state" /\ owner[job[t].state] = Nobody
  /\ owner' = [owner EXCEPT ![job[t].state] = t]
  /\ Go(t, IF field[job[t].state] = Null THEN "unlock_state" ELSE "call")
  /\ UNCHANGED <<vars, initialized, objects, field, disposed, job, local, closures,
                 succeeded>>

(* The body enters the C interface with the two handles.                   *)
Call(t) ==
  /\ at[t] = "call"
  /\ call' = [call EXCEPT ![t] = [op |-> job[t].op, root |-> field[job[t].agent],
                                  state |-> field[job[t].state]]]
  /\ pc' = [pc EXCEPT ![t] = "admit_root"]
  /\ Go(t, "in_call")
  /\ UNCHANGED <<live, inUse, phase, exported, outputs, result, initialized, objects,
                 field, disposed, owner, job, local, closures, succeeded>>

InCall(t) ==
  /\ at[t] = "in_call"
  /\ Step(t)
  /\ Go(t, IF pc'[t] = "idle" THEN "unlock_state" ELSE "in_call")
  /\ succeeded' = [succeeded EXCEPT ![t] = pc'[t] = "idle" /\ result[t] = "ok"]
  /\ UNCHANGED <<initialized, objects, field, disposed, owner, job, local, closures>>

Unlock(t, lock) ==
  owner' = [owner EXCEPT ![lock] = IF @ = t THEN Nobody ELSE @]

UnlockState(t) ==
  /\ at[t] = "unlock_state"
  /\ Unlock(t, job[t].state)
  /\ Go(t, "unlock_agent")
  /\ UNCHANGED <<vars, initialized, objects, field, disposed, job, local, closures,
                 succeeded>>

(* The keys that finish extracted go into a new object.                    *)
UnlockAgent(t) ==
  /\ at[t] = "unlock_agent"
  /\ Unlock(t, job[t].agent)
  /\ \/ /\ job[t].op = AgentFinish /\ succeeded[t]
        /\ \E k \in KeysObjects \ objects :
             objects' = objects \cup {k} /\ disposed' = disposed \ {k}
     \/ /\ job[t].op = AgentFinish /\ succeeded[t] => KeysObjects \subseteq objects
        /\ UNCHANGED <<objects, disposed>>
  /\ Go(t, "outside")
  /\ job' = [job EXCEPT ![t] = NoJob]
  /\ succeeded' = [succeeded EXCEPT ![t] = FALSE]
  /\ UNCHANGED <<vars, initialized, field, local, closures>>

-----------------------------------------------------------------------------
(* AgentState.dispose.                                                     *)

Dispose(t) ==
  /\ at[t] = "outside"
  /\ \E state \in StateObjects \cap objects :
       job' = [job EXCEPT ![t] = [NoJob EXCEPT !.state = state]]
  /\ Go(t, "dispose")
  /\ UNCHANGED <<vars, initialized, objects, field, disposed, owner, local, closures,
                 succeeded>>

\* Mutant: dispose copies the handle and leaves it in the object.
TakeHandle_LeavesField(t) ==
  LET o == job[t].state IN
  /\ at[t] = "dispose" /\ owner[o] = Nobody
  /\ local' = [local EXCEPT ![t] = field[o]]
  /\ Go(t, IF field[o] = Null THEN "outside" ELSE "destroy")
  /\ job' = [job EXCEPT ![t] = NoJob]
  /\ UNCHANGED <<vars, initialized, objects, field, disposed, owner, closures,
                 succeeded>>

(* The handle is taken out of the object under its lock ...                *)
TakeHandle(t) ==
  LET o == job[t].state IN
  /\ at[t] = "dispose" /\ owner[o] = Nobody
  /\ local' = [local EXCEPT ![t] = field[o]]
  /\ field' = [field EXCEPT ![o] = Null]
  /\ Go(t, IF field[o] = Null THEN "outside" ELSE "destroy")
  /\ job' = [job EXCEPT ![t] = NoJob]
  /\ UNCHANGED <<vars, initialized, objects, disposed, owner, closures, succeeded>>

(* ... and destroyed outside it; the void destructors drop a BUSY result.  *)
Destroy(t) ==
  LET h == local[t] IN
  /\ at[t] = "destroy"
  /\ live' = live \ ({h} \ inUse)
  /\ Forget(IF h \in inUse THEN Null ELSE h)
  /\ local' = [local EXCEPT ![t] = Null]
  /\ Go(t, "outside")
  /\ UNCHANGED <<inUse, pc, call, result, initialized, objects, field, disposed,
                 owner, job, closures, succeeded>>

-----------------------------------------------------------------------------
(* AuthenticationKeys.                                                     *)

(* withSessionKey, withExportKey or dispose is called, in a closure or     *)
(* not.                                                                    *)
UseKeys(t) ==
  /\ at[t] = "outside"
  /\ \E k \in KeysObjects \cap objects, place \in {"lock_keys", "dispose_keys"} :
       /\ job' = [job EXCEPT ![t] = [NoJob EXCEPT !.keys = k]]
       /\ Go(t, place)
  /\ UNCHANGED <<vars, initialized, objects, field, disposed, owner, local, closures,
                 succeeded>>

(* The closure gets the key unless the object was disposed of.             *)
LockKeys(t) ==
  LET k == job[t].keys IN
  /\ at[t] = "lock_keys" /\ owner[k] = Nobody
  /\ \/ /\ k \notin disposed
        /\ owner' = [owner EXCEPT ![k] = t]
        /\ closures' = [closures EXCEPT ![t] = <<k>> \o @]
     \/ /\ k \in disposed
        /\ UNCHANGED <<owner, closures>>
  /\ Go(t, "outside")
  /\ job' = [job EXCEPT ![t] = NoJob]
  /\ UNCHANGED <<vars, initialized, objects, field, disposed, local, succeeded>>

(* The innermost closure returns or throws.                                *)
LeaveClosure(t) ==
  /\ at[t] = "outside" /\ closures[t] # <<>>
  /\ Unlock(t, Head(closures[t]))
  /\ closures' = [closures EXCEPT ![t] = Tail(@)]
  /\ UNCHANGED <<vars, initialized, objects, field, disposed, at, job, local,
                 succeeded>>

\* Mutant: dispose zeroizes the keys without the lock.
DisposeKeys_NoLock(t) ==
  /\ at[t] = "dispose_keys"
  /\ disposed' = disposed \cup {job[t].keys}
  /\ Go(t, "outside")
  /\ job' = [job EXCEPT ![t] = NoJob]
  /\ UNCHANGED <<vars, initialized, objects, field, owner, local, closures, succeeded>>

DisposeKeys(t) ==
  /\ at[t] = "dispose_keys" /\ owner[job[t].keys] = Nobody
  /\ disposed' = disposed \cup {job[t].keys}
  /\ Go(t, "outside")
  /\ job' = [job EXCEPT ![t] = NoJob]
  /\ UNCHANGED <<vars, initialized, objects, field, owner, local, closures, succeeded>>

(* deinit disposes; nobody else can see the object.                        *)
DeinitKeys(t) ==
  \E k \in KeysObjects \cap objects :
    /\ at[t] = "outside" /\ ~Referenced(k)
    /\ \A u \in Threads : k \notin Running(u)
    /\ objects' = objects \ {k}
    /\ disposed' = disposed \cup {k}
    /\ UNCHANGED <<vars, initialized, field, owner, at, job, local, closures, succeeded>>

-----------------------------------------------------------------------------
Moves(t) ==
  \/ LockAgent(t) \/ LockState(t) \/ Call(t) \/ InCall(t)
  \/ UnlockState(t) \/ UnlockAgent(t)
  \/ TakeHandle(t) \/ Destroy(t)
  \/ LockKeys(t) \/ DisposeKeys(t) \/ LeaveClosure(t)

SwiftNext ==
  \E t \in Threads :
    \/ Initialize(t) \/ OpaqueAgentInit(t) \/ CreateState(t)
    \/ Enter(t) \/ Dispose(t) \/ UseKeys(t)
    \/ Moves(t)
    \/ Deinit(t) \/ DeinitKeys(t)

SwiftSpec == SwiftInit /\ [][SwiftNext]_svars

-----------------------------------------------------------------------------
(* Properties.                                                             *)

(* The locks of OpaqueAgent and AgentState keep the contract that          *)
(* opaque_common.h asks of C callers: every step of the wrapper is one     *)
(* that FfiHandles allows, so no handle is destroyed while a call that has *)
(* not been admitted to it is under way, no call names a destroyed handle, *)
(* and all that is shown of FfiHandles holds for Swift code.               *)
KeepsTheContract == Spec

(* The wrapper never meets OPAQUE_ERROR_BUSY: a call that is about to take *)
(* a flag finds it clear, and so does a destructor, which would otherwise  *)
(* leave the state and its secrets behind for ever.                        *)
NeverBusy ==
  \A t \in Threads :
    /\ pc[t] = "admit_root" => call[t].root \notin inUse
    /\ pc[t] = "admit_state" => call[t].state \notin inUse
    /\ at[t] = "destroy" => local[t] \notin inUse

(* No handle is lost: each one is in exactly one object or in the hands of *)
(* exactly one thread that is about to destroy it.                         *)
HandlesHaveOneOwner ==
  \A h \in live :
    \/ /\ \E o \in Objects : field[o] = h /\ \A p \in Objects \ {o} : field[p] # h
       /\ \A t \in Threads : local[t] # h
    \/ /\ \E t \in Threads : local[t] = h /\ \A u \in Threads \ {t} : local[u] # h
       /\ \A o \in Objects : field[o] # h

Wanted(t) == CASE at[t] = "lock_agent"                   -> job[t].agent
               [] at[t] \in {"lock_state", "dispose"}      -> job[t].state
               [] at[t] \in {"lock_keys", "dispose_keys"}  -> job[t].keys

Blocked(t) ==
  /\ at[t] \in {"lock_agent", "lock_state", "dispose", "lock_keys", "dispose_keys"}
  /\ owner[Wanted(t)] # Nobody

Idle(t) == at[t] = "outside" /\ closures[t] = <<>>

(* A closure has called withSessionKey, withExportKey or dispose.          *)
Nested(t) == at[t] \in {"lock_keys", "dispose_keys"} /\ closures[t] # <<>>

(* The locks of agents and states never deadlock.  Where threads wait for  *)
(* locks that none of them will give back, because they wait in a circle,  *)
(* for themselves, or for a thread that has left the wrapper, they all     *)
(* wait for keys objects, and the thread behind each of these is in a      *)
(* closure that uses a keys object, its own or another one: nothing else   *)
(* that a closure or an operation does can stop the wrapper.               *)
OnlyNestedClosuresDeadlock ==
  \A S \in SUBSET Threads :
    (\A t \in S : Idle(t) \/ (Blocked(t) /\ owner[Wanted(t)] \in S))
    => \A t \in S : Blocked(t) =>
         Wanted(t) \in KeysObjects /\ Nested(owner[Wanted(t)])

(* A closure sees the key and never the zeros of dispose, on whichever     *)
(* thread that is called.                                                  *)
ClosuresSeeKeys ==
  \A t \in Threads : Running(t) \subseteq objects \ disposed
=============================================================================
