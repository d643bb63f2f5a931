-------------------------- MODULE SwiftAgentProofs ---------------------------
(***************************************************************************)
(* Theorems about SwiftAgent, for any number of threads and objects.       *)
(*                                                                         *)
(* None of its properties is inductive: why a handle that a thread passes  *)
(* to the C interface is in nobody else's hands depends on the lock that   *)
(* the thread holds at that place, on the object it holds it for, and on   *)
(* that object being the only one with this handle.  SwiftInv puts the     *)
(* three together.                                                         *)
(***************************************************************************)
EXTENDS SwiftAgent, FfiProofs

(* Where a thread holds the lock of the agent, and of the state, of its    *)
(* job.                                                                    *)
HasAgent == {"lock_state", "call", "in_call", "unlock_state", "unlock_agent"}
HasState == {"call", "in_call", "unlock_state"}

Places == {"outside", "lock_agent", "dispose", "destroy", "lock_keys", "dispose_keys"}
          \cup HasAgent

SwiftShape ==
  /\ at \in [Threads -> Places]
  /\ DOMAIN job = Threads /\ DOMAIN local = Threads
  /\ closures \in [Threads -> Seq(KeysObjects)]
  /\ DOMAIN field = Objects /\ DOMAIN owner = Locks

(* A job is about objects that are referenced.                             *)
JobsAreReferenced ==
  \A t \in Threads :
    /\ at[t] \in {"lock_agent"} \cup HasAgent =>
         /\ job[t].op \in AgentOps
         /\ job[t].agent \in AgentObjects \cap objects
         /\ job[t].state \in StateObjects \cap objects
    /\ at[t] = "dispose" => job[t].state \in StateObjects \cap objects
    /\ at[t] \in {"lock_keys", "dispose_keys"} =>
         job[t].keys \in KeysObjects \cap objects

Injective(s) == \A i, j \in DOMAIN s : s[i] = s[j] => i = j

(* A thread runs no two closures of one keys object.                       *)
ClosuresDiffer == \A t \in Threads : Injective(closures[t])

(* The locks that a thread at its place must have.                         *)
Held(t) == (IF at[t] \in HasAgent THEN {job[t].agent} ELSE {})
           \cup (IF at[t] \in HasState THEN {job[t].state} ELSE {})
           \cup Running(t)

(* It has these and no others.                                             *)
LocksAreOwned ==
  /\ \A l \in Locks : owner[l] \in Threads \cup {Nobody}
  /\ \A l \in Locks, t \in Threads : owner[l] = t <=> l \in Held(t)

(* Objects and destroyers have live handles of the right type.             *)
HandlesAreTyped ==
  /\ live \subseteq Agents \cup AgentStates
  /\ \A o \in AgentObjects : field[o] \in Agents \cup {Null}
  /\ \A o \in StateObjects : field[o] \in AgentStates \cup {Null}
  /\ \A o \in Objects : field[o] # Null => o \in objects /\ field[o] \in live
  /\ \A t \in Threads : IF at[t] = "destroy" THEN local[t] \in live ELSE local[t] = Null

(* The C call of a thread is the one of its job, on the handles that its   *)
(* objects still have.                                                     *)
CallsFollowJobs ==
  \A t \in Threads :
    /\ at[t] \in {"lock_state", "call", "in_call"} => field[job[t].agent] # Null
    /\ at[t] \in {"call", "in_call"} => field[job[t].state] # Null
    /\ pc[t] = "idle" <=> at[t] # "in_call"
    /\ at[t] = "in_call" =>
         /\ pc[t] # "publish"
         /\ call[t].op = job[t].op
         /\ call[t].root = field[job[t].agent]
         /\ call[t].state = field[job[t].state]

SwiftInv ==
  /\ SwiftShape /\ JobsAreReferenced /\ ClosuresDiffer /\ LocksAreOwned
  /\ HandlesAreTyped /\ CallsFollowJobs
  /\ HandlesHaveOneOwner /\ ClosuresSeeKeys
  /\ Shape /\ GuardInv

-----------------------------------------------------------------------------
(* Stacks of closures.                                                     *)

Elements(s) == {s[i] : i \in DOMAIN s}

(* A closure is begun: its object is now in the stack.                     *)
LEMMA Pushed ==
  ASSUME NEW s \in Seq(KeysObjects), NEW k \in KeysObjects,
         k \notin Elements(s), Injective(s)
  PROVE  /\ <<k>> \o s \in Seq(KeysObjects)
         /\ Elements(<<k>> \o s) = Elements(s) \cup {k}
         /\ Injective(<<k>> \o s)
  <1> DEFINE r == <<k>> \o s
  <1>1. /\ r \in Seq(KeysObjects) /\ Len(s) \in Nat
        /\ DOMAIN r = 1..(Len(s) + 1) /\ DOMAIN s = 1..Len(s)
        /\ \A i \in DOMAIN r : r[i] = IF i = 1 THEN k ELSE s[i - 1]
    OBVIOUS
  <1> HIDE DEF r
  <1>2. /\ \A i \in DOMAIN s : i + 1 \in DOMAIN r /\ r[i + 1] = s[i]
        /\ 1 \in DOMAIN r /\ r[1] = k
        /\ \A i \in DOMAIN r : i = 1 \/ (i - 1 \in DOMAIN s /\ r[i] = s[i - 1])
    BY <1>1
  <1>3. Elements(r) = Elements(s) \cup {k}
    BY <1>2 DEF Elements
  <1>4. Injective(r)
    BY <1>1, <1>2 DEF Elements, Injective
  <1>5. QED
    BY <1>1, <1>3, <1>4 DEF r

(* The innermost closure ends: its object, and no other, has left the      *)
(* stack.                                                                  *)
LEMMA Popped ==
  ASSUME NEW s \in Seq(KeysObjects), s # <<>>, Injective(s)
  PROVE  /\ Head(s) \in KeysObjects \cap Elements(s) /\ Tail(s) \in Seq(KeysObjects)
         /\ Elements(Tail(s)) = Elements(s) \ {Head(s)}
         /\ Injective(Tail(s))
  <1> DEFINE r == Tail(s)
  <1>1. /\ r \in Seq(KeysObjects) /\ Len(s) \in Nat \ {0} /\ Head(s) = s[1]
        /\ DOMAIN r = 1..(Len(s) - 1) /\ DOMAIN s = 1..Len(s)
        /\ \A i \in DOMAIN r : r[i] = s[i + 1]
    OBVIOUS
  <1> HIDE DEF r
  <1>2. /\ \A i \in DOMAIN r : i + 1 \in DOMAIN s /\ i + 1 # 1 /\ r[i] = s[i + 1]
        /\ 1 \in DOMAIN s /\ Head(s) = s[1]
        /\ \A i \in DOMAIN s : i = 1 \/ (i - 1 \in DOMAIN r /\ r[i - 1] = s[i])
    BY <1>1
  <1>3. Head(s) \in KeysObjects \cap Elements(s)
    BY <1>2 DEF Elements
  <1>4. Elements(r) = Elements(s) \ {Head(s)}
    BY <1>2 DEF Elements, Injective
  <1>5. Injective(r)
    BY <1>1, <1>2 DEF Injective
  <1>6. QED
    BY <1>1, <1>3, <1>4, <1>5 DEF r

-----------------------------------------------------------------------------
(* What the invariant says of the locks.                                   *)

(* A lock of an object is held for the job by one thread.                  *)
LEMMA OneOwner ==
  ASSUME LocksAreOwned, NEW l \in Locks, NEW t \in Threads, NEW u \in Threads,
         l \in Held(t), l \in Held(u)
  PROVE  t = u
  BY DEF LocksAreOwned

(* The locks of keys objects are those of the closures a thread runs.      *)
LEMMA KeysHeld ==
  ASSUME SwiftShape, JobsAreReferenced, NEW t \in Threads
  PROVE  /\ Running(t) \subseteq KeysObjects
         /\ closures[t] = <<>> <=> Running(t) = {}
         /\ Held(t) \cap KeysObjects = Running(t)
  <1>1. closures[t] \in Seq(KeysObjects)
    BY DEF SwiftShape
  <1>2. Running(t) \subseteq KeysObjects
    BY <1>1 DEF Running
  <1>3. closures[t] # <<>> => 1 \in DOMAIN closures[t]
    BY <1>1
  <1>4. closures[t] = <<>> <=> Running(t) = {}
    <2>1. CASE closures[t] = <<>>
      BY <2>1 DEF Running
    <2>2. CASE closures[t] # <<>>
      BY <1>3, <2>2 DEF Running
    <2>3. QED
      BY <2>1, <2>2
  <1>5. Held(t) \cap KeysObjects = Running(t)
    BY <1>2, ObjectsAssumption
       DEF Held, HasAgent, HasState, JobsAreReferenced, Objects
  <1>6. QED
    BY <1>2, <1>4, <1>5

(* A thread that waits has no state, and an agent only where it waits for  *)
(* a state.                                                                *)
LEMMA WaitersHold ==
  ASSUME SwiftShape, JobsAreReferenced, NEW t \in Threads, Blocked(t)
  PROVE  /\ Held(t) \cap StateObjects = {}
         /\ Held(t) \cap AgentObjects # {} => at[t] = "lock_state"
         /\ at[t] = "lock_state" => Wanted(t) \in StateObjects
         /\ Wanted(t) \in KeysObjects => at[t] \in {"lock_keys", "dispose_keys"}
         /\ Wanted(t) \in Locks
  <1>0. Running(t) \subseteq KeysObjects
    BY KeysHeld
  <1>1. CASE at[t] = "lock_agent"
    BY <1>0, <1>1, ObjectsAssumption
       DEF JobsAreReferenced, Blocked, Held, Wanted, HasAgent, HasState, Objects, Locks
  <1>2. CASE at[t] = "lock_state"
    BY <1>0, <1>2, ObjectsAssumption
       DEF JobsAreReferenced, Blocked, Held, Wanted, HasAgent, HasState, Objects, Locks
  <1>3. CASE at[t] = "dispose"
    BY <1>0, <1>3, ObjectsAssumption
       DEF JobsAreReferenced, Blocked, Held, Wanted, HasAgent, HasState, Objects, Locks
  <1>4. CASE at[t] \in {"lock_keys", "dispose_keys"}
    BY <1>0, <1>4, ObjectsAssumption
       DEF JobsAreReferenced, Blocked, Held, Wanted, HasAgent, HasState, Objects, Locks
  <1>5. QED
    BY <1>1, <1>2, <1>3, <1>4 DEF Blocked

(* Keys objects come before agents and agents before states: nobody who    *)
(* has a state waits, who has an agent waits for a state, and so threads   *)
(* that wait only for each other all wait for keys objects, inside a       *)
(* closure of the keys object that the next one waits for.                 *)
LEMMA LocksAreOrdered == SwiftInv => OnlyNestedClosuresDeadlock
  <1> SUFFICES ASSUME SwiftInv, NEW S \in SUBSET Threads,
                      \A t \in S : Idle(t) \/ (Blocked(t) /\ owner[Wanted(t)] \in S)
               PROVE  \A t \in S : Blocked(t) =>
                        Wanted(t) \in KeysObjects /\ Nested(owner[Wanted(t)])
    BY DEF OnlyNestedClosuresDeadlock
  <1>1. SwiftShape /\ JobsAreReferenced /\ LocksAreOwned
    BY DEF SwiftInv
  <1>2. ASSUME NEW t \in S, Blocked(t)
        PROVE  /\ owner[Wanted(t)] \in S /\ Blocked(owner[Wanted(t)])
               /\ Wanted(t) \in Locks \cap Held(owner[Wanted(t)])
    <2> DEFINE u == owner[Wanted(t)]
    <2>1. u \in S
      BY <1>2 DEF Idle, Blocked
    <2>2. Wanted(t) \in Locks
      BY <1>1, <1>2, WaitersHold
    <2>3. Wanted(t) \in Held(u)
      BY <1>1, <2>1, <2>2 DEF LocksAreOwned
    <2>4. ~Idle(u)
      BY <1>1, <2>1, <2>3, KeysHeld DEF Idle, Held, HasAgent, HasState
    <2>5. QED
      BY <2>1, <2>2, <2>3, <2>4
  <1>3. ASSUME NEW t \in S, Blocked(t)
        PROVE  Wanted(t) \notin StateObjects
    BY <1>1, <1>2, <1>3, WaitersHold
  <1>4. ASSUME NEW t \in S, Blocked(t)
        PROVE  Wanted(t) \notin AgentObjects
    <2> DEFINE u == owner[Wanted(t)]
    <2>1. SUFFICES ASSUME Wanted(t) \in AgentObjects
                   PROVE  FALSE
      OBVIOUS
    <2>2. u \in S /\ Blocked(u) /\ Held(u) \cap AgentObjects # {}
      BY <1>2, <1>4, <2>1
    <2>3. Wanted(u) \in StateObjects
      BY <1>1, <2>2, WaitersHold
    <2>4. QED
      BY <1>3, <2>2, <2>3
  <1>5. ASSUME NEW t \in S, Blocked(t)
        PROVE  Wanted(t) \in KeysObjects
    BY <1>2, <1>3, <1>4, <1>5 DEF Locks, Objects
  <1>6. ASSUME NEW t \in S, Blocked(t)
        PROVE  Nested(owner[Wanted(t)])
    <2> DEFINE u == owner[Wanted(t)]
    <2>1. u \in S /\ Blocked(u) /\ Wanted(t) \in Held(u) \cap KeysObjects
      BY <1>2, <1>5, <1>6
    <2>2. closures[u] # <<>>
      BY <1>1, <2>1, KeysHeld
    <2>3. Wanted(u) \in KeysObjects
      BY <1>5, <2>1
    <2>4. QED
      BY <1>1, <2>1, <2>2, <2>3, WaitersHold DEF Nested
  <1>7. QED
    BY <1>5, <1>6

-----------------------------------------------------------------------------
(* What it says of the handles.                                            *)

(* A call in progress has the handles of two locked objects.               *)
LEMMA CallHandles ==
  ASSUME SwiftInv, NEW t \in Threads, pc[t] # "idle"
  PROVE  /\ at[t] = "in_call"
         /\ job[t].agent \in AgentObjects \cap Held(t)
         /\ job[t].state \in StateObjects \cap Held(t)
         /\ call[t].root = field[job[t].agent] /\ call[t].root \in Agents
         /\ call[t].state = field[job[t].state] /\ call[t].state \in AgentStates
  BY DEF SwiftInv, CallsFollowJobs, JobsAreReferenced, HandlesAreTyped, Held, HasAgent,
         HasState

(* The handle of an object is in no other object and in nobody's hands.    *)
LEMMA OwnHandle ==
  ASSUME SwiftInv, NEW o \in Objects, field[o] # Null
  PROVE  /\ \A p \in Objects \ {o} : field[p] # field[o]
         /\ \A t \in Threads : local[t] # field[o]
  BY DEF SwiftInv, HandlesHaveOneOwner, HandlesAreTyped

(* Two calls have no handle in common.                                     *)
LEMMA CallsApart ==
  ASSUME SwiftInv, NEW t \in Threads, NEW u \in Threads, t # u,
         pc[t] # "idle", pc[u] # "idle"
  PROVE  {call[t].root, call[t].state} \cap {call[u].root, call[u].state} = {}
  <1>1. call[t].root \notin AgentStates /\ call[u].root \notin AgentStates
    BY CallHandles, KindsAssumption DEF Roots, States
  <1>2. call[t].root # call[u].root
    <2>1. job[t].agent # job[u].agent
      BY CallHandles, OneOwner DEF SwiftInv, Locks, Objects
    <2>2. QED
      BY <2>1, CallHandles, OwnHandle, NullAssumption DEF Objects, Handles, Roots
  <1>3. call[t].state # call[u].state
    <2>1. job[t].state # job[u].state
      BY CallHandles, OneOwner DEF SwiftInv, Locks, Objects
    <2>2. QED
      BY <2>1, CallHandles, OwnHandle, NullAssumption DEF Objects, Handles, States
  <1>4. QED
    BY <1>1, <1>2, <1>3, CallHandles

(* The handle of a destroyer is in no call.                                *)
LEMMA DestroyedApart ==
  ASSUME SwiftInv, NEW t \in Threads, at[t] = "destroy", NEW u \in Threads,
         pc[u] # "idle"
  PROVE  local[t] \notin {call[u].root, call[u].state}
  BY CallHandles, OwnHandle, NullAssumption DEF Objects, Handles, Roots, States

(* Flags are set by calls, and so nobody meets one.                        *)
LEMMA FlagsAreClear == SwiftInv => NeverBusy
  <1> SUFFICES ASSUME SwiftInv, NEW t \in Threads
               PROVE  /\ pc[t] = "admit_root" => call[t].root \notin inUse
                      /\ pc[t] = "admit_state" => call[t].state \notin inUse
                      /\ at[t] = "destroy" => local[t] \notin inUse
    BY DEF NeverBusy
  <1>1. \A h \in inUse : \E u \in Threads : h \in Guards(u)
    BY DEF SwiftInv, GuardInv, FlagsAreOwned
  <1>2. \A u \in Threads : /\ Guards(u) \subseteq {call[u].root, call[u].state}
                           /\ Guards(u) # {} => pc[u] # "idle"
    BY DEF Guards, HoldsRoot, HoldsState
  <1>3. CASE pc[t] = "admit_root"
    <2>1. Guards(t) = {}
      BY <1>3 DEF Guards, HoldsRoot, HoldsState
    <2>2. at[t] # "destroy"
      BY <1>3, CallHandles
    <2>3. QED
      BY <1>1, <1>2, <1>3, <2>1, <2>2, CallsApart
  <1>4. CASE pc[t] = "admit_state"
    <2>1. Guards(t) = {call[t].root}
      BY <1>4 DEF Guards, HoldsRoot, HoldsState
    <2>2. at[t] # "destroy" /\ call[t].root # call[t].state
      BY <1>4, CallHandles, KindsAssumption DEF Roots, States
    <2>3. \A u \in Threads \ {t} : call[t].state \notin Guards(u)
      BY <1>2, <1>4, CallsApart
    <2>4. QED
      BY <1>1, <1>4, <2>1, <2>2, <2>3
  <1>5. CASE at[t] = "destroy"
    BY <1>1, <1>2, <1>5, DestroyedApart, CallHandles
  <1>6. QED
    BY <1>3, <1>4, <1>5

-----------------------------------------------------------------------------
(* The wrapper keeps the contract of the C interface.                      *)

(* Every step is a step of FfiHandles, or leaves the C interface alone.    *)
LEMMA StepsKeepTheContract == SwiftInv /\ [SwiftNext]_svars => [Next]_vars
  <1> SUFFICES ASSUME SwiftInv, NEW t \in Threads,
                      \/ Initialize(t) \/ OpaqueAgentInit(t) \/ CreateState(t)
                      \/ Enter(t) \/ Dispose(t) \/ UseKeys(t)
                      \/ Moves(t)
                      \/ Deinit(t) \/ DeinitKeys(t)
               PROVE  [Next]_vars
    BY DEF SwiftNext, svars, vars
  <1>1. CASE OpaqueAgentInit(t)
    <2>1. AgentCreate(t)
      BY <1>1 DEF OpaqueAgentInit, Construct, AgentCreate, Create, SwiftInv, CallsFollowJobs
    <2>2. QED
      BY <2>1 DEF Next, Creates
  <1>2. CASE CreateState(t)
    <2>1. AgentStateCreate(t)
      BY <1>2 DEF CreateState, Construct, AgentStateCreate, Create, SwiftInv, CallsFollowJobs
    <2>2. QED
      BY <2>1 DEF Next, Creates
  <1>3. CASE Call(t)
    <2>1. /\ job[t].op \in Ops /\ job[t].op.on = "agent"
          /\ job[t].agent \in AgentObjects /\ job[t].state \in StateObjects
      BY <1>3 DEF Call, SwiftInv, JobsAreReferenced, HasAgent, AgentOps
    <2>2. /\ field[job[t].agent] \in Agents \cap live
          /\ field[job[t].state] \in AgentStates \cap live
      BY <1>3, <2>1 DEF Call, SwiftInv, HandlesAreTyped, CallsFollowJobs, Objects
    <2>3. /\ field[job[t].agent] \in RootsOf(job[t].op) \cap live
          /\ field[job[t].state] \in StatesOf(job[t].op) \cap (live \cup {Null})
      BY <2>1, <2>2 DEF RootsOf, StatesOf
    <2>4. pc[t] = "idle"
      BY <1>3 DEF Call, SwiftInv, CallsFollowJobs
    <2>5. Begin(t)
      BY <1>3, <2>1, <2>3, <2>4 DEF Call, Begin
    <2>6. QED
      BY <2>5 DEF Next
  <1>4. CASE InCall(t)
    BY <1>4 DEF InCall, Next
  <1>5. CASE Destroy(t)
    <2> DEFINE h == local[t]
    <2>1. at[t] = "destroy" /\ h \in live /\ h \in Agents \cup AgentStates
      BY <1>5 DEF Destroy, SwiftInv, HandlesAreTyped
    <2>2. h \notin inUse
      BY <2>1, FlagsAreClear DEF NeverBusy
    <2>3. Approaching(h) = {}
      BY <2>1, DestroyedApart DEF Approaching
    <2>4. pc[t] = "idle"
      BY <2>1 DEF SwiftInv, CallsFollowJobs
    <2>5. TryDestroy(t, h)
      BY <1>5, <2>1, <2>2, <2>3, <2>4 DEF Destroy, TryDestroy
    <2>6. AgentTryDestroy(t) \/ AgentStateTryDestroy(t)
      BY <2>1, <2>5 DEF AgentTryDestroy, AgentStateTryDestroy
    <2>7. QED
      BY <2>6 DEF Next, Destroys
  <1>6. CASE \/ Initialize(t) \/ Enter(t) \/ Dispose(t) \/ UseKeys(t)
             \/ Deinit(t) \/ DeinitKeys(t)
             \/ LockAgent(t) \/ LockState(t) \/ UnlockState(t) \/ UnlockAgent(t)
             \/ TakeHandle(t) \/ LockKeys(t) \/ DisposeKeys(t) \/ LeaveClosure(t)
    <2>1. UNCHANGED vars
      BY <1>6 DEF Initialize, Enter, Dispose, UseKeys, Deinit, DeinitKeys, LockAgent,
                  LockState, UnlockState, UnlockAgent, TakeHandle, LockKeys, DisposeKeys,
                  LeaveClosure
    <2>2. QED
      BY <2>1
  <1>7. QED
    BY <1>1, <1>2, <1>3, <1>4, <1>5, <1>6 DEF Moves

-----------------------------------------------------------------------------
(* The invariant is inductive, part by part.                               *)

(* What step t of the wrapper may be, when it is one.                      *)
SwiftStep(t) ==
  \/ Initialize(t) \/ OpaqueAgentInit(t) \/ CreateState(t)
  \/ Enter(t) \/ Dispose(t) \/ UseKeys(t)
  \/ Moves(t)
  \/ Deinit(t) \/ DeinitKeys(t)

(* A step is one thread's: the others stay where they are.                 *)
OthersStay(t) ==
  \A u \in Threads \ {t} :
    /\ at'[u] = at[u] /\ job'[u] = job[u] /\ local'[u] = local[u]
    /\ closures'[u] = closures[u] /\ pc'[u] = pc[u] /\ call'[u] = call[u]

(* Every step is one thread's.                                             *)
LEMMA StepsAreLocal ==
  ASSUME SwiftInv, NEW t \in Threads, SwiftStep(t)
  PROVE  SwiftShape' /\ OthersStay(t)
  <1> USE DEF SwiftInv, SwiftShape, OthersStay, Go, Places, HasAgent
  <1>1. CASE Initialize(t)
    BY <1>1 DEF Initialize, vars
  <1>2. CASE OpaqueAgentInit(t) \/ CreateState(t)
    BY <1>2 DEF OpaqueAgentInit, CreateState, Construct
  <1>3. CASE Enter(t) \/ Dispose(t) \/ UseKeys(t)
    BY <1>3 DEF Enter, Dispose, UseKeys, vars
  <1>4. CASE LockAgent(t) \/ LockState(t)
    BY <1>4 DEF LockAgent, LockState, vars
  <1>5. CASE Call(t)
    BY <1>5 DEF Call, Shape
  <1>6. CASE InCall(t)
    <2>1. \A u \in Threads \ {t} : pc'[u] = pc[u] /\ call'[u] = call[u]
      BY <1>6 DEF InCall, Shape, Step, AdmitRoot, Return, AdmitState, Refuse, Admit,
           CorruptedRecord, Stateless, RunSucceeds, RunFails, Panic, Commit, Terminalize,
           ReleaseState, ReleaseRoot, Publish
    <2>2. QED
      BY <1>6, <2>1 DEF InCall
  <1>7. CASE UnlockState(t) \/ UnlockAgent(t)
    BY <1>7 DEF UnlockState, UnlockAgent, Unlock, vars
  <1>8. CASE TakeHandle(t) \/ Destroy(t)
    BY <1>8 DEF TakeHandle, Destroy, vars
  <1>9. CASE LockKeys(t)
    <2>1. at[t] = "lock_keys" /\ closures[t] \in Seq(KeysObjects)
      BY <1>9 DEF LockKeys
    <2>2. job[t].keys \in KeysObjects
      BY <2>1 DEF JobsAreReferenced
    <2>3. <<job[t].keys>> \o closures[t] \in Seq(KeysObjects)
      BY <2>1, <2>2
    <2>4. QED
      BY <1>9, <2>3 DEF LockKeys, vars
  <1>10. CASE DisposeKeys(t) \/ Deinit(t) \/ DeinitKeys(t)
    BY <1>10 DEF DisposeKeys, Deinit, DeinitKeys, vars
  <1>11. CASE LeaveClosure(t)
    <2>1. closures[t] \in Seq(KeysObjects) /\ closures[t] # <<>>
      BY <1>11 DEF LeaveClosure
    <2>2. Tail(closures[t]) \in Seq(KeysObjects)
      BY <2>1
    <2>3. QED
      BY <1>11, <2>2 DEF LeaveClosure, Unlock, vars
  <1>12. QED
    BY <1>1, <1>2, <1>3, <1>4, <1>5, <1>6, <1>7, <1>8, <1>9, <1>10, <1>11
       DEF SwiftStep, Moves

(* A stack of closures changes where a closure begins, on a keys object    *)
(* that was free and is in use, and where the innermost one ends.          *)
LEMMA StacksChange ==
  ASSUME SwiftInv, NEW t \in Threads, SwiftStep(t)
  PROVE  /\ ClosuresDiffer'
         /\ closures' = closures \/ LockKeys(t) \/ LeaveClosure(t)
         /\ LockKeys(t) /\ closures' # closures =>
              /\ owner' = [owner EXCEPT ![job[t].keys] = t]
              /\ job[t].keys \in objects \ disposed
              /\ Running(t)' = Running(t) \cup {job[t].keys}
         /\ LeaveClosure(t) =>
              /\ Head(closures[t]) \in KeysObjects \cap Running(t)
              /\ Running(t)' = Running(t) \ {Head(closures[t])}
  <1>1. /\ SwiftShape /\ SwiftShape' /\ OthersStay(t)
        /\ JobsAreReferenced /\ ClosuresDiffer /\ LocksAreOwned
    BY StepsAreLocal DEF SwiftInv
  <1>2. ASSUME Injective(closures'[t])
        PROVE  ClosuresDiffer'
    BY <1>1, <1>2 DEF ClosuresDiffer, OthersStay
  <1>3. closures[t] \in Seq(KeysObjects) /\ Injective(closures[t])
    BY <1>1 DEF SwiftShape, ClosuresDiffer
  <1>4. CASE closures' = closures /\ ~LeaveClosure(t)
    BY <1>2, <1>3, <1>4
  <1>5. CASE LockKeys(t) /\ closures' # closures
    <2> DEFINE k == job[t].keys
    <2>1. /\ k \in KeysObjects \cap objects /\ k \notin disposed /\ owner[k] = Nobody
          /\ owner' = [owner EXCEPT ![k] = t] /\ closures'[t] = <<k>> \o closures[t]
      BY <1>1, <1>5 DEF LockKeys, SwiftShape, JobsAreReferenced
    <2>2. k \notin Elements(closures[t])
      BY <1>1, <2>1, ObjectsAssumption DEF LocksAreOwned, Locks, Held, Running, Elements
    <2>3. Elements(closures'[t]) = Elements(closures[t]) \cup {k} /\ Injective(closures'[t])
      BY <1>3, <2>1, <2>2, Pushed
    <2>4. ~LeaveClosure(t)
      BY <1>5 DEF LockKeys, LeaveClosure
    <2>5. QED
      BY <1>2, <1>5, <2>1, <2>3, <2>4 DEF Running, Elements
  <1>6. CASE LeaveClosure(t)
    <2>1. closures[t] # <<>> /\ closures'[t] = Tail(closures[t])
      BY <1>1, <1>6 DEF LeaveClosure, SwiftShape
    <2>2. /\ Head(closures[t]) \in KeysObjects \cap Elements(closures[t])
          /\ Elements(closures'[t]) = Elements(closures[t]) \ {Head(closures[t])}
          /\ Injective(closures'[t])
      BY <1>3, <2>1, Popped
    <2>3. ~LockKeys(t)
      BY <1>6 DEF LockKeys, LeaveClosure
    <2>4. QED
      BY <1>2, <1>6, <2>2, <2>3 DEF Running, Elements
  <1>7. QED
    BY <1>4, <1>5, <1>6
       DEF SwiftStep, Moves, Initialize, OpaqueAgentInit, CreateState, Construct, Enter,
           Dispose, UseKeys, LockAgent, LockState, Call, InCall, UnlockState, UnlockAgent,
           TakeHandle, Destroy, DisposeKeys, Deinit, DeinitKeys

(* Objects are dropped only when nobody works on them.                     *)
LEMMA JobsKept ==
  ASSUME SwiftInv, NEW t \in Threads, SwiftStep(t)
  PROVE  JobsAreReferenced'
  <1> USE DEF HasAgent
  <1>0. SwiftShape /\ SwiftShape' /\ OthersStay(t) /\ JobsAreReferenced
    BY StepsAreLocal DEF SwiftInv
  <1>1. SUFFICES ASSUME NEW u \in Threads
                 PROVE  /\ at'[u] \in {"lock_agent"} \cup HasAgent =>
                             /\ job'[u].op \in AgentOps
                             /\ job'[u].agent \in AgentObjects \cap objects'
                             /\ job'[u].state \in StateObjects \cap objects'
                        /\ at'[u] = "dispose" => job'[u].state \in StateObjects \cap objects'
                        /\ at'[u] \in {"lock_keys", "dispose_keys"} =>
                             job'[u].keys \in KeysObjects \cap objects'
    BY DEF JobsAreReferenced
  <1>2. CASE u # t
    <2>1. \A o \in objects \ objects' : ~Referenced(o)
      BY DEF SwiftStep, Moves, Initialize, OpaqueAgentInit, CreateState, Construct,
             Enter, Dispose, UseKeys, LockAgent, LockState, Call, InCall, UnlockState,
             UnlockAgent, TakeHandle, Destroy, LockKeys, DisposeKeys, LeaveClosure,
             Deinit, DeinitKeys
    <2>2. QED
      BY <1>0, <1>2, <2>1 DEF JobsAreReferenced, OthersStay, Referenced
  <1>3. CASE u = t
    <2> USE <1>0, <1>3 DEF JobsAreReferenced, SwiftShape, Go
    <2>1. CASE Initialize(t) \/ OpaqueAgentInit(t) \/ CreateState(t)
      BY <2>1 DEF Initialize, OpaqueAgentInit, CreateState, Construct
    <2>2. CASE Enter(t)
      BY <2>2 DEF Enter, NoJob
    <2>3. CASE Dispose(t) \/ UseKeys(t)
      BY <2>3 DEF Dispose, UseKeys, NoJob
    <2>4. CASE LockAgent(t) \/ LockState(t)
      BY <2>4 DEF LockAgent, LockState
    <2>5. CASE Call(t) \/ InCall(t)
      BY <2>5 DEF Call, InCall
    <2>6. CASE UnlockState(t) \/ UnlockAgent(t)
      BY <2>6 DEF UnlockState, UnlockAgent
    <2>7. CASE TakeHandle(t) \/ Destroy(t)
      BY <2>7 DEF TakeHandle, Destroy
    <2>8. CASE LockKeys(t) \/ DisposeKeys(t) \/ LeaveClosure(t)
      BY <2>8 DEF LockKeys, DisposeKeys, LeaveClosure
    <2>9. CASE Deinit(t) \/ DeinitKeys(t)
      BY <2>9 DEF Deinit, DeinitKeys
    <2>10. QED
      BY <2>1, <2>2, <2>3, <2>4, <2>5, <2>6, <2>7, <2>8, <2>9 DEF SwiftStep, Moves
  <1>4. QED
    BY <1>2, <1>3

(* The locks that change hands in a step are those its thread gains or     *)
(* gives back.                                                             *)
LEMMA LocksChange ==
  ASSUME SwiftInv, NEW t \in Threads, OthersStay(t), DOMAIN owner' = Locks,
         NEW gained, NEW lost, gained \cup lost \subseteq Locks,
         \A l \in gained : owner[l] = Nobody, lost \subseteq Held(t),
         Held(t)' = (Held(t) \ lost) \cup gained,
         \A l \in Locks : owner'[l] = IF l \in gained THEN t
                                      ELSE IF l \in lost THEN Nobody ELSE owner[l]
  PROVE  LocksAreOwned'
  <1>1. \A u \in Threads \ {t} : Held(u)' = Held(u)
    BY DEF Held, Running, OthersStay
  <1>2. \A l \in Locks : owner'[l] \in Threads \cup {Nobody}
    BY DEF SwiftInv, LocksAreOwned
  <1>3. ASSUME NEW l \in Locks, NEW u \in Threads
        PROVE  owner'[l] = u <=> l \in Held(u)'
    <2>1. Nobody \notin Threads
      BY ObjectsAssumption
    <2>2. owner[l] = u <=> l \in Held(u)
      BY DEF SwiftInv, LocksAreOwned
    <2>3. owner[l] = t <=> l \in Held(t)
      BY DEF SwiftInv, LocksAreOwned
    <2>4. CASE l \in gained
      BY <1>1, <2>1, <2>2, <2>3, <2>4
    <2>5. CASE l \in lost /\ l \notin gained
      BY <1>1, <2>1, <2>2, <2>3, <2>5
    <2>6. CASE l \notin lost /\ l \notin gained
      BY <1>1, <2>2, <2>6
    <2>7. QED
      BY <2>4, <2>5, <2>6
  <1>4. QED
    BY <1>2, <1>3 DEF LocksAreOwned

(* A lock is taken when it is free and given back by who has it.           *)
LEMMA LocksKept ==
  ASSUME SwiftInv, NEW t \in Threads, SwiftStep(t)
  PROVE  LocksAreOwned'
  <1>1. /\ SwiftShape /\ SwiftShape' /\ OthersStay(t) /\ JobsAreReferenced
        /\ DOMAIN owner' = Locks
    BY StepsAreLocal DEF SwiftInv, SwiftShape
  <1>2. ASSUME owner' = owner, Held(t)' = Held(t)
        PROVE  LocksAreOwned'
    <2> DEFINE none == {}
    <2>1. /\ none \cup none \subseteq Locks /\ none \subseteq Held(t)
          /\ \A l \in none : owner[l] = Nobody
          /\ Held(t)' = (Held(t) \ none) \cup none
          /\ \A l \in Locks : owner'[l] = IF l \in none THEN t
                                          ELSE IF l \in none THEN Nobody ELSE owner[l]
      BY <1>2
    <2> HIDE DEF none
    <2>2. QED
      BY <1>1, <2>1, LocksChange
  <1>3. ASSUME NEW lock \in Locks, owner[lock] = Nobody, Held(t)' = Held(t) \cup {lock},
               owner' = [owner EXCEPT ![lock] = t]
        PROVE  LocksAreOwned'
    <2> DEFINE none == {}
               gained == {lock}
    <2>1. /\ gained \cup none \subseteq Locks /\ none \subseteq Held(t)
          /\ \A l \in gained : owner[l] = Nobody
          /\ Held(t)' = (Held(t) \ none) \cup gained
          /\ \A l \in Locks : owner'[l] = IF l \in gained THEN t
                                          ELSE IF l \in none THEN Nobody ELSE owner[l]
      BY <1>1, <1>3 DEF SwiftShape
    <2> HIDE DEF none, gained
    <2>2. QED
      BY <1>1, <2>1, LocksChange
  <1>4. ASSUME NEW lock \in Locks, lock \in Held(t), Held(t)' = Held(t) \ {lock},
               Unlock(t, lock)
        PROVE  LocksAreOwned'
    <2> DEFINE none == {}
               lost == {lock}
    <2>1. owner[lock] = t
      BY <1>4 DEF SwiftInv, LocksAreOwned
    <2>2. /\ none \cup lost \subseteq Locks /\ lost \subseteq Held(t)
          /\ \A l \in none : owner[l] = Nobody
          /\ Held(t)' = (Held(t) \ lost) \cup none
          /\ \A l \in Locks : owner'[l] = IF l \in none THEN t
                                          ELSE IF l \in lost THEN Nobody ELSE owner[l]
      BY <1>1, <1>4, <2>1 DEF Unlock, SwiftShape
    <2> HIDE DEF none, lost
    <2>3. QED
      BY <1>1, <2>2, LocksChange
  <1>5. CASE Initialize(t) \/ OpaqueAgentInit(t) \/ CreateState(t) \/ DeinitKeys(t)
    <2>1. owner' = owner /\ at' = at /\ job' = job /\ closures' = closures
      BY <1>5 DEF Initialize, OpaqueAgentInit, CreateState, Construct, DeinitKeys
    <2>2. QED
      BY <1>2, <2>1 DEF Held, Running
  <1>6. CASE \/ Enter(t) \/ Dispose(t) \/ UseKeys(t) \/ TakeHandle(t) \/ Destroy(t)
             \/ DisposeKeys(t) \/ Deinit(t)
    <2>1. /\ owner' = owner /\ closures' = closures
          /\ at[t] \notin HasAgent /\ at'[t] \notin HasAgent
      BY <1>1, <1>6 DEF Enter, Dispose, UseKeys, TakeHandle, Destroy, DisposeKeys, Deinit,
                        Go, HasAgent, SwiftShape
    <2>2. QED
      BY <1>2, <2>1 DEF Held, HasAgent, HasState, Running
  <1>7. CASE Call(t) \/ InCall(t)
    <2>1. /\ owner' = owner /\ closures' = closures /\ job' = job
          /\ at[t] \in HasState /\ at'[t] \in HasState
      BY <1>1, <1>7 DEF Call, InCall, Go, HasState, SwiftShape
    <2>2. QED
      BY <1>2, <2>1 DEF Held, HasAgent, HasState, Running
  <1>8. CASE LockAgent(t)
    <2>1. /\ job[t].agent \in Locks /\ at[t] = "lock_agent" /\ closures' = closures
          /\ job' = job /\ at'[t] \in {"lock_state", "unlock_agent"}
          /\ owner[job[t].agent] = Nobody /\ owner' = [owner EXCEPT ![job[t].agent] = t]
      BY <1>1, <1>8 DEF LockAgent, Go, SwiftShape, JobsAreReferenced, Locks, Objects
    <2>2. Held(t)' = Held(t) \cup {job[t].agent}
      BY <2>1 DEF Held, HasAgent, HasState, Running
    <2>3. QED
      BY <1>3, <2>1, <2>2
  <1>9. CASE LockState(t)
    <2>1. /\ job[t].state \in Locks /\ at[t] = "lock_state" /\ closures' = closures
          /\ job' = job /\ at'[t] \in {"call", "unlock_state"}
          /\ owner[job[t].state] = Nobody /\ owner' = [owner EXCEPT ![job[t].state] = t]
      BY <1>1, <1>9 DEF LockState, Go, SwiftShape, JobsAreReferenced, HasAgent, Locks, Objects
    <2>2. Held(t)' = Held(t) \cup {job[t].state}
      BY <2>1 DEF Held, HasAgent, HasState, Running
    <2>3. QED
      BY <1>3, <2>1, <2>2
  <1>10. CASE UnlockState(t)
    <2>1. /\ job[t].agent \in AgentObjects /\ job[t].state \in StateObjects
          /\ Running(t) \subseteq KeysObjects
          /\ at[t] = "unlock_state" /\ at'[t] = "unlock_agent"
          /\ closures' = closures /\ job' = job /\ Unlock(t, job[t].state)
      BY <1>1, <1>10, KeysHeld DEF UnlockState, Go, SwiftShape, JobsAreReferenced, HasAgent
    <2>2. job[t].state \in Locks /\ job[t].state \notin {job[t].agent} \cup Running(t)
      BY <2>1, ObjectsAssumption DEF Locks, Objects
    <2>3. job[t].state \in Held(t) /\ Held(t)' = Held(t) \ {job[t].state}
      BY <2>1, <2>2 DEF Held, HasAgent, HasState, Running
    <2>4. QED
      BY <1>4, <2>1, <2>2, <2>3
  <1>11. CASE UnlockAgent(t)
    <2>1. /\ job[t].agent \in AgentObjects /\ Running(t) \subseteq KeysObjects
          /\ at[t] = "unlock_agent" /\ at'[t] = "outside"
          /\ closures' = closures /\ Unlock(t, job[t].agent)
      BY <1>1, <1>11, KeysHeld DEF UnlockAgent, Go, SwiftShape, JobsAreReferenced, HasAgent
    <2>2. job[t].agent \in Locks /\ job[t].agent \notin Running(t)
      BY <2>1, ObjectsAssumption DEF Locks, Objects
    <2>3. job[t].agent \in Held(t) /\ Held(t)' = Held(t) \ {job[t].agent}
      BY <2>1, <2>2 DEF Held, HasAgent, HasState, Running
    <2>4. QED
      BY <1>4, <2>1, <2>2, <2>3
  <1>12. CASE LockKeys(t)
    <2> DEFINE k == job[t].keys
    <2>1. /\ k \in Locks /\ owner[k] = Nobody
          /\ at[t] \notin HasAgent /\ at'[t] \notin HasAgent
          /\ closures' = closures => owner' = owner
      BY <1>1, <1>12, StacksChange
         DEF LockKeys, Go, SwiftShape, JobsAreReferenced, HasAgent, Locks
    <2>2. Held(t) = Running(t) /\ Held(t)' = Running(t)'
      BY <2>1 DEF Held, HasAgent, HasState
    <2>3. CASE closures' = closures
      BY <1>2, <2>1, <2>2, <2>3 DEF Running
    <2>4. CASE closures' # closures
      BY <1>3, <1>12, <2>1, <2>2, <2>4, StacksChange
    <2>5. QED
      BY <2>3, <2>4
  <1>13. CASE LeaveClosure(t)
    <2> DEFINE k == Head(closures[t])
    <2>1. at[t] = "outside" /\ at' = at /\ Unlock(t, k)
      BY <1>13 DEF LeaveClosure
    <2>2. k \in KeysObjects \cap Running(t) /\ Running(t)' = Running(t) \ {k}
      BY <1>13, StacksChange
    <2>3. k \in Locks /\ k \in Held(t) /\ Held(t)' = Held(t) \ {k}
      BY <2>1, <2>2 DEF Held, HasAgent, HasState, Locks
    <2>4. QED
      BY <1>4, <2>1, <2>3
  <1>14. QED
    BY <1>5, <1>6, <1>7, <1>8, <1>9, <1>10, <1>11, <1>12, <1>13 DEF SwiftStep, Moves

(* How a step moves handles: it leaves them alone, publishes a new one in  *)
(* an object, takes one out of an object, or destroys one.                 *)
HandlesStay == UNCHANGED <<live, field, local>>

HandlePublished(o) ==
  /\ o \notin objects /\ o \in objects'
  /\ \E h \in (IF o \in AgentObjects THEN Agents ELSE AgentStates) \ live :
       live' = live \cup {h} /\ field' = [field EXCEPT ![o] = h]
  /\ local' = local

HandleTaken(t, o) ==
  /\ live' = live
  /\ field' = [field EXCEPT ![o] = Null] /\ local' = [local EXCEPT ![t] = field[o]]

HandleDestroyed(t) ==
  /\ live' = live \ {local[t]} /\ field' = field
  /\ local' = [local EXCEPT ![t] = Null]

(* What a step does to handles: it leaves them, stores a new one in an     *)
(* object, takes one out of an object, or destroys the one it took.        *)
LEMMA HandlesMove ==
  ASSUME SwiftInv, NEW t \in Threads, SwiftStep(t)
  PROVE  \/ /\ HandlesStay
            /\ at'[t] = "destroy" <=> at[t] = "destroy"
            /\ \A o \in objects \ objects' : o \in KeysObjects
         \/ /\ at' = at /\ \E o \in Objects : HandlePublished(o)
            /\ objects \subseteq objects'
         \/ /\ at[t] # "destroy"
            /\ \E o \in Objects :
                 /\ HandleTaken(t, o)
                 /\ at'[t] = "destroy" <=> field[o] # Null
                 /\ \A p \in objects \ objects' : p = o
         \/ /\ at[t] = "destroy" /\ at'[t] = "outside"
            /\ HandleDestroyed(t) /\ objects' = objects
  <1>1. SwiftShape /\ JobsAreReferenced
    BY DEF SwiftInv
  <1> USE <1>1 DEF SwiftShape, Go
  <1>2. CASE OpaqueAgentInit(t) \/ CreateState(t)
    <2>1. PICK o \in Objects : \/ o \in AgentObjects /\ Construct(t, o, Agents)
                               \/ o \in StateObjects /\ Construct(t, o, AgentStates)
      BY <1>2 DEF OpaqueAgentInit, CreateState, Objects
    <2>2. HandlePublished(o) /\ at' = at /\ objects \subseteq objects'
      BY <2>1, ObjectsAssumption DEF Construct, HandlePublished
    <2>3. QED
      BY <2>2
  <1>3. CASE TakeHandle(t)
    <2>1. job[t].state \in Objects /\ HandleTaken(t, job[t].state)
      BY <1>3 DEF TakeHandle, HandleTaken, JobsAreReferenced, Objects, vars
    <2>2. /\ at[t] # "destroy" /\ objects' = objects
          /\ at'[t] = "destroy" <=> field[job[t].state] # Null
      BY <1>3 DEF TakeHandle
    <2>3. QED
      BY <2>1, <2>2
  <1>4. CASE Deinit(t)
    <2>1. PICK o \in objects \cap Objects :
            /\ at[t] = "outside" /\ objects' = objects \ {o}
            /\ HandleTaken(t, o)
            /\ at'[t] = "destroy" <=> field[o] # Null
      BY <1>4 DEF Deinit, HandleTaken, vars
    <2>2. QED
      BY <2>1
  <1>5. CASE Destroy(t)
    <2>1. local[t] \notin inUse
      BY <1>5, FlagsAreClear DEF Destroy, NeverBusy
    <2>2. QED
      BY <1>5, <2>1 DEF Destroy, HandleDestroyed
  <1>6. CASE InCall(t)
    <2>1. pc[t] # "publish"
      BY <1>6 DEF InCall, SwiftInv, CallsFollowJobs
    <2>2. live' = live
      BY <1>6, <2>1 DEF InCall, Step, AdmitRoot, AdmitState, Refuse, Admit,
           CorruptedRecord, Stateless, RunSucceeds, RunFails, Panic, Commit, Terminalize,
           ReleaseState, ReleaseRoot, Publish
    <2>3. QED
      BY <1>6, <2>2 DEF InCall, HandlesStay
  <1>7. CASE \/ Initialize(t) \/ Enter(t) \/ Dispose(t) \/ UseKeys(t) \/ Call(t)
             \/ LockAgent(t) \/ LockState(t) \/ UnlockState(t) \/ UnlockAgent(t)
             \/ LockKeys(t) \/ DisposeKeys(t) \/ LeaveClosure(t) \/ DeinitKeys(t)
    <2>1. HandlesStay
      BY <1>7 DEF HandlesStay, vars, Initialize, Enter, Dispose, UseKeys, Call, LockAgent,
                  LockState, UnlockState, UnlockAgent, LockKeys, DisposeKeys,
                  LeaveClosure, DeinitKeys
    <2>2. at'[t] = "destroy" <=> at[t] = "destroy"
      BY <1>7 DEF Initialize, Enter, Dispose, UseKeys, Call, LockAgent, LockState,
                  UnlockState, UnlockAgent, LockKeys, DisposeKeys, LeaveClosure, DeinitKeys
    <2>3. \A o \in objects \ objects' : o \in KeysObjects
      BY <1>7 DEF Initialize, Enter, Dispose, UseKeys, Call, LockAgent, LockState,
                  UnlockState, UnlockAgent, LockKeys, DisposeKeys, LeaveClosure, DeinitKeys
    <2>4. QED
      BY <2>1, <2>2, <2>3
  <1>8. QED
    BY <1>2, <1>3, <1>4, <1>5, <1>6, <1>7 DEF SwiftStep, Moves

(* Objects and destroyers keep live handles.                               *)
LEMMA HandlesKept ==
  ASSUME SwiftInv, NEW t \in Threads, SwiftStep(t)
  PROVE  HandlesAreTyped'
  <1>1. /\ HandlesAreTyped /\ OthersStay(t)
        /\ DOMAIN field = Objects /\ DOMAIN local = Threads
        /\ DOMAIN field' = Objects /\ DOMAIN local' = Threads
        /\ Null \notin Agents \cup AgentStates
    BY StepsAreLocal, NullAssumption DEF SwiftInv, SwiftShape, Handles, Roots, States
  <1>2. CASE /\ HandlesStay
             /\ at'[t] = "destroy" <=> at[t] = "destroy"
             /\ \A o \in objects \ objects' : o \in KeysObjects
    <2>1. \A o \in Objects : o \in objects => o \in objects'
      BY <1>2, ObjectsAssumption
    <2>2. \A u \in Threads : at'[u] = "destroy" <=> at[u] = "destroy"
      BY <1>1, <1>2 DEF OthersStay
    <2>3. QED
      BY <1>1, <1>2, <2>1, <2>2 DEF HandlesStay, HandlesAreTyped
  <1>3. ASSUME at' = at, NEW o \in Objects, HandlePublished(o), objects \subseteq objects'
        PROVE  HandlesAreTyped'
    <2>1. PICK h \in (IF o \in AgentObjects THEN Agents ELSE AgentStates) \ live :
            live' = live \cup {h} /\ field' = [field EXCEPT ![o] = h]
      BY <1>3 DEF HandlePublished
    <2>2. /\ field'[o] = h /\ o \in objects'
          /\ \A p \in Objects \ {o} : field'[p] = field[p]
      BY <1>1, <1>3, <2>1 DEF HandlePublished
    <2>3. o \in AgentObjects <=> o \notin StateObjects
      BY ObjectsAssumption DEF Objects
    <2>4. QED
      BY <1>1, <1>3, <2>1, <2>2, <2>3 DEF HandlesAreTyped, HandlePublished, Objects
  <1>4. ASSUME at[t] # "destroy", NEW o \in Objects, HandleTaken(t, o),
               at'[t] = "destroy" <=> field[o] # Null,
               \A p \in objects \ objects' : p = o
        PROVE  HandlesAreTyped'
    <2>1. /\ field'[o] = Null /\ local'[t] = field[o] /\ live' = live
          /\ \A p \in Objects \ {o} : field'[p] = field[p]
      BY <1>1, <1>4 DEF HandleTaken
    <2>2. QED
      BY <1>1, <1>4, <2>1 DEF HandlesAreTyped, OthersStay, Objects
  <1>5. CASE /\ at[t] = "destroy" /\ at'[t] = "outside"
             /\ HandleDestroyed(t) /\ objects' = objects
    <2>1. /\ field' = field /\ local'[t] = Null /\ live' = live \ {local[t]}
          /\ local[t] \in live
      BY <1>1, <1>5 DEF HandleDestroyed, HandlesAreTyped
    <2>2. /\ \A o \in Objects : field[o] # local[t]
          /\ \A u \in Threads \ {t} : local[u] # local[t]
      BY <1>1, <2>1 DEF SwiftInv, HandlesHaveOneOwner, HandlesAreTyped
    <2>3. QED
      BY <1>1, <1>5, <2>1, <2>2 DEF HandlesAreTyped, OthersStay
  <1>6. QED
    BY HandlesMove, <1>2, <1>3, <1>4, <1>5

(* A handle that is somewhere is there alone.                              *)
InObject(h, o) ==
  /\ field[o] = h /\ \A p \in Objects \ {o} : field[p] # h
  /\ \A t \in Threads : local[t] # h
InHands(h, t) ==
  /\ local[t] = h /\ \A u \in Threads \ {t} : local[u] # h
  /\ \A o \in Objects : field[o] # h

(* A published handle was nowhere, one taken goes from an object into one  *)
(* thread's hands, and one destroyed was in no object.                     *)
LEMMA OneOwnerKept ==
  ASSUME SwiftInv, NEW t \in Threads, SwiftStep(t)
  PROVE  HandlesHaveOneOwner'
  <1>1. /\ HandlesAreTyped /\ OthersStay(t)
        /\ DOMAIN field = Objects /\ DOMAIN local = Threads
        /\ Null \notin live
    BY StepsAreLocal, NullAssumption
       DEF SwiftInv, SwiftShape, Handles, Roots, States, HandlesAreTyped
  <1>2. \A h \in live : (\E o \in Objects : InObject(h, o)) \/ (\E u \in Threads : InHands(h, u))
    BY DEF SwiftInv, HandlesHaveOneOwner, InObject, InHands
  <1>3. SUFFICES ASSUME NEW h \in live'
                 PROVE  \/ \E o \in Objects : InObject(h, o)'
                        \/ \E u \in Threads : InHands(h, u)'
    BY DEF HandlesHaveOneOwner, InObject, InHands
  <1>4. CASE HandlesStay
    BY <1>2, <1>4 DEF HandlesStay, InObject, InHands
  <1>5. ASSUME NEW o \in Objects, HandlePublished(o)
        PROVE  \/ \E p \in Objects : InObject(h, p)'
               \/ \E u \in Threads : InHands(h, u)'
    <2>1. PICK new \in (IF o \in AgentObjects THEN Agents ELSE AgentStates) \ live :
            live' = live \cup {new} /\ field' = [field EXCEPT ![o] = new]
      BY <1>5 DEF HandlePublished
    <2>2. /\ field'[o] = new /\ local' = local /\ field[o] = Null
          /\ \A p \in Objects \ {o} : field'[p] = field[p]
      BY <1>1, <1>5, <2>1 DEF HandlePublished, HandlesAreTyped
    <2>3. CASE h = new
      <3>1. InObject(h, o)'
        <4>1. \A p \in Objects : field[p] # new
          BY <1>1, <2>1, NullAssumption DEF HandlesAreTyped, Handles, Roots, States
        <4>2. \A u \in Threads : local[u] # new
          BY <1>1, <2>1, NullAssumption DEF HandlesAreTyped, Handles, Roots, States
        <4>3. QED
          BY <2>2, <2>3, <4>1, <4>2 DEF InObject
      <3>2. QED
        BY <3>1
    <2>4. CASE h # new
      <3>1. h \in live /\ h # Null
        BY <1>1, <2>1, <2>4
      <3>2. ASSUME NEW p \in Objects, InObject(h, p)
            PROVE  InObject(h, p)'
        BY <2>2, <2>4, <3>1, <3>2 DEF InObject
      <3>3. ASSUME NEW u \in Threads, InHands(h, u)
            PROVE  InHands(h, u)'
        BY <2>2, <2>4, <3>1, <3>3 DEF InHands
      <3>4. QED
        BY <1>2, <3>1, <3>2, <3>3
    <2>5. QED
      BY <2>3, <2>4
  <1>6. ASSUME at[t] # "destroy", NEW o \in Objects, HandleTaken(t, o)
        PROVE  \/ \E p \in Objects : InObject(h, p)'
               \/ \E u \in Threads : InHands(h, u)'
    <2>1. /\ field'[o] = Null /\ local'[t] = field[o] /\ local[t] = Null
          /\ \A p \in Objects \ {o} : field'[p] = field[p]
          /\ \A u \in Threads \ {t} : local'[u] = local[u]
          /\ h \in live /\ h # Null
      BY <1>1, <1>6 DEF HandleTaken, HandlesAreTyped
    <2>2. CASE h = field[o]
      <3>1. InObject(h, o)
        BY <1>2, <2>1, <2>2 DEF InObject, InHands
      <3>2. InHands(h, t)'
        BY <2>1, <2>2, <3>1 DEF InObject, InHands
      <3>3. QED
        BY <3>2
    <2>3. CASE h # field[o]
      <3>1. ASSUME NEW p \in Objects, InObject(h, p)
            PROVE  InObject(h, p)'
        BY <2>1, <2>3, <3>1 DEF InObject
      <3>2. ASSUME NEW u \in Threads, InHands(h, u)
            PROVE  InHands(h, u)'
        BY <2>1, <2>3, <3>2 DEF InHands
      <3>3. QED
        BY <1>2, <2>1, <3>1, <3>2
    <2>4. QED
      BY <2>2, <2>3
  <1>7. CASE HandleDestroyed(t)
    <2>1. /\ field' = field /\ local'[t] = Null
          /\ \A u \in Threads \ {t} : local'[u] = local[u]
          /\ h \in live /\ h # local[t] /\ h # Null
      BY <1>1, <1>7 DEF HandleDestroyed
    <2>2. ASSUME NEW p \in Objects, InObject(h, p)
          PROVE  InObject(h, p)'
      BY <2>1, <2>2 DEF InObject
    <2>3. ASSUME NEW u \in Threads, InHands(h, u)
          PROVE  InHands(h, u)'
      BY <2>1, <2>3 DEF InHands
    <2>4. QED
      BY <1>2, <2>1, <2>2, <2>3
  <1>8. QED
    BY HandlesMove, <1>4, <1>5, <1>6, <1>7

(* A handle leaves an object only under the object's lock, or when nobody  *)
(* works on the object.                                                    *)
LEMMA FieldsInUse ==
  ASSUME SwiftInv, NEW t \in Threads, SwiftStep(t), NEW u \in Threads, NEW o \in Objects,
         at[u] # "outside" /\ o \in {job[u].agent, job[u].state},
         o \in Held(u) \/ o \in AgentObjects, field[o] # Null
  PROVE  field'[o] = field[o]
  <1>1. SwiftShape /\ JobsAreReferenced /\ LocksAreOwned /\ HandlesAreTyped
    BY DEF SwiftInv
  <1>2. CASE TakeHandle(t)
    <2>1. /\ job[t].state \in StateObjects /\ owner[job[t].state] = Nobody
          /\ field' = [field EXCEPT ![job[t].state] = Null]
      BY <1>1, <1>2 DEF TakeHandle, JobsAreReferenced
    <2>2. job[t].state \notin Held(u) /\ job[t].state \notin AgentObjects
      BY <1>1, <2>1, ObjectsAssumption DEF LocksAreOwned, Locks, Objects
    <2>3. QED
      BY <1>1, <2>1, <2>2 DEF SwiftShape
  <1>3. CASE Deinit(t)
    <2>1. PICK p \in objects \cap Objects :
            ~Referenced(p) /\ field' = [field EXCEPT ![p] = Null]
      BY <1>3 DEF Deinit
    <2>2. p # o
      BY <2>1 DEF Referenced
    <2>3. QED
      BY <1>1, <2>1, <2>2 DEF SwiftShape
  <1>4. CASE OpaqueAgentInit(t) \/ CreateState(t)
    <2>1. PICK p \in Objects \ objects : \E h : field' = [field EXCEPT ![p] = h]
      BY <1>4 DEF OpaqueAgentInit, CreateState, Construct, Objects
    <2>2. p # o
      BY <1>1, <2>1 DEF HandlesAreTyped
    <2>3. QED
      BY <1>1, <2>1, <2>2 DEF SwiftShape
  <1>5. QED
    BY <1>2, <1>3, <1>4
       DEF SwiftStep, Moves, Initialize, Enter, Dispose, UseKeys, LockAgent, LockState,
           Call, InCall, UnlockState, UnlockAgent, Destroy, LockKeys, DisposeKeys,
           LeaveClosure, DeinitKeys

(* A call keeps its handles until it returns, and an operation of an agent *)
(* publishes nothing.                                                      *)
LEMMA CallsGoOn ==
  ASSUME Shape, NEW t \in Threads, Step(t), call[t].op \in AgentOps, pc[t] # "publish"
  PROVE  pc'[t] = "idle" \/ (call'[t] = call[t] /\ pc'[t] # "publish")
  <1>1. call[t].op # RelayCreate
    BY DEF AgentOps, RelayCreate
  <1>2. QED
    BY <1>1 DEF Shape, Step, AdmitRoot, Return, AdmitState, Refuse, Admit,
           CorruptedRecord, Stateless, RunSucceeds, RunFails, Panic, Commit, Terminalize,
           ReleaseState, ReleaseRoot, Publish

(* The handles of a call stay in the objects of its job.                   *)
LEMMA CallsKept ==
  ASSUME SwiftInv, NEW t \in Threads, SwiftStep(t)
  PROVE  CallsFollowJobs'
  <1>1. /\ SwiftShape /\ SwiftShape' /\ OthersStay(t)
        /\ JobsAreReferenced /\ CallsFollowJobs /\ Shape
    BY StepsAreLocal DEF SwiftInv
  <1>2. SUFFICES ASSUME NEW u \in Threads
                 PROVE  /\ at'[u] \in {"lock_state", "call", "in_call"} =>
                             field'[job'[u].agent] # Null
                        /\ at'[u] \in {"call", "in_call"} => field'[job'[u].state] # Null
                        /\ pc'[u] = "idle" <=> at'[u] # "in_call"
                        /\ at'[u] = "in_call" =>
                             /\ pc'[u] # "publish"
                             /\ call'[u].op = job'[u].op
                             /\ call'[u].root = field'[job'[u].agent]
                             /\ call'[u].state = field'[job'[u].state]
    BY DEF CallsFollowJobs
  <1>3. CASE u # t
    <2>1. /\ at'[u] = at[u] /\ job'[u] = job[u] /\ pc'[u] = pc[u] /\ call'[u] = call[u]
      BY <1>1, <1>3 DEF OthersStay
    <2>2. at[u] \in {"lock_state", "call", "in_call"} =>
            field'[job[u].agent] = field[job[u].agent]
      <3>1. SUFFICES ASSUME at[u] \in {"lock_state", "call", "in_call"}
                     PROVE  field'[job[u].agent] = field[job[u].agent]
        OBVIOUS
      <3>2. job[u].agent \in AgentObjects /\ field[job[u].agent] # Null
        BY <1>1, <3>1 DEF JobsAreReferenced, CallsFollowJobs, HasAgent
      <3>3. QED
        BY <3>1, <3>2, FieldsInUse DEF Objects
    <2>3. at[u] \in {"call", "in_call"} =>
            field'[job[u].state] = field[job[u].state]
      <3>1. SUFFICES ASSUME at[u] \in {"call", "in_call"}
                     PROVE  field'[job[u].state] = field[job[u].state]
        OBVIOUS
      <3>2. job[u].state \in StateObjects /\ field[job[u].state] # Null
        BY <1>1, <3>1 DEF JobsAreReferenced, CallsFollowJobs, HasAgent
      <3>3. job[u].state \in Held(u)
        BY <3>1 DEF Held, HasState
      <3>4. QED
        BY <3>1, <3>2, <3>3, FieldsInUse DEF Objects
    <2>4. QED
      BY <1>1, <2>1, <2>2, <2>3 DEF CallsFollowJobs
  <1>4. CASE u = t
    <2> USE <1>1, <1>4 DEF SwiftShape, Go
    <2>1. CASE InCall(t)
      <3>1. /\ Step(t) /\ at[t] = "in_call" /\ pc[t] # "publish"
            /\ field' = field /\ job' = job
            /\ at'[t] = IF pc'[t] = "idle" THEN "unlock_state" ELSE "in_call"
        BY <2>1 DEF InCall, CallsFollowJobs
      <3>2. call[t].op \in AgentOps
        BY <3>1 DEF CallsFollowJobs, JobsAreReferenced, HasAgent
      <3>3. pc'[t] = "idle" \/ (call'[t] = call[t] /\ pc'[t] # "publish")
        BY <3>1, <3>2, CallsGoOn
      <3>4. QED
        BY <3>1, <3>3 DEF CallsFollowJobs
    <2>2. CASE Call(t)
      BY <2>2 DEF Call, CallsFollowJobs, Shape
    <2>3. CASE LockAgent(t) \/ LockState(t)
      BY <2>3 DEF LockAgent, LockState, CallsFollowJobs, vars
    <2>4. CASE OpaqueAgentInit(t) \/ CreateState(t)
      BY <2>4 DEF OpaqueAgentInit, CreateState, Construct, CallsFollowJobs
    <2>5. CASE \/ Initialize(t) \/ Enter(t) \/ Dispose(t) \/ UseKeys(t)
               \/ UnlockState(t) \/ UnlockAgent(t) \/ TakeHandle(t) \/ Destroy(t)
               \/ LockKeys(t) \/ DisposeKeys(t) \/ LeaveClosure(t)
               \/ Deinit(t) \/ DeinitKeys(t)
      <3>1. /\ at[t] \notin {"lock_state", "call", "in_call"}
            /\ at'[t] \notin {"lock_state", "call", "in_call"}
            /\ pc' = pc
        BY <2>5 DEF Initialize, Enter, Dispose, UseKeys, UnlockState, UnlockAgent,
                    TakeHandle, Destroy, LockKeys, DisposeKeys, LeaveClosure, Deinit,
                    DeinitKeys, vars
      <3>2. QED
        BY <3>1 DEF CallsFollowJobs
    <2>6. QED
      BY <2>1, <2>2, <2>3, <2>4, <2>5 DEF SwiftStep, Moves
  <1>5. QED
    BY <1>3, <1>4

(* Keys are zeroized under the lock that a closure's thread has, or when   *)
(* no closure runs on them.                                                *)
LEMMA ClosuresKept ==
  ASSUME SwiftInv, NEW t \in Threads, SwiftStep(t)
  PROVE  ClosuresSeeKeys'
  <1>1. /\ SwiftShape /\ OthersStay(t) /\ JobsAreReferenced /\ LocksAreOwned
        /\ ClosuresSeeKeys
    BY StepsAreLocal DEF SwiftInv
  <1>2. SUFFICES ASSUME NEW u \in Threads, NEW k \in Running(u)'
                 PROVE  k \in objects' \ disposed'
    BY DEF ClosuresSeeKeys
  <1>3. CASE k \notin Running(u)
    <2>1. u = t /\ LockKeys(t) /\ k = job[t].keys /\ k \in objects \ disposed
      <3>1. u = t /\ closures' # closures
        BY <1>1, <1>2, <1>3 DEF OthersStay, Running
      <3>2. ~LeaveClosure(t)
        BY <1>2, <1>3, <3>1, StacksChange
      <3>3. QED
        BY <1>2, <1>3, <3>1, <3>2, StacksChange
    <2>2. QED
      BY <2>1 DEF LockKeys
  <1>4. CASE k \in Running(u)
    <2>1. k \in objects \ disposed /\ k \in KeysObjects
      BY <1>1, <1>4, KeysHeld DEF ClosuresSeeKeys
    <2>2. owner[k] = u
      BY <1>1, <1>4, <2>1 DEF LocksAreOwned, Held, Locks
    <2>3. CASE DisposeKeys(t)
      <3>1. owner[job[t].keys] = Nobody
        BY <2>3 DEF DisposeKeys
      <3>2. k # job[t].keys
        BY <2>2, <3>1, ObjectsAssumption
      <3>3. QED
        BY <2>1, <2>3, <3>2 DEF DisposeKeys
    <2>4. CASE DeinitKeys(t)
      BY <1>4, <2>1, <2>4 DEF DeinitKeys
    <2>5. CASE UnlockAgent(t)
      BY <2>1, <2>5 DEF UnlockAgent
    <2>6. CASE Deinit(t)
      BY <2>1, <2>6, ObjectsAssumption DEF Deinit
    <2>7. CASE OpaqueAgentInit(t) \/ CreateState(t)
      BY <2>1, <2>7 DEF OpaqueAgentInit, CreateState, Construct
    <2>8. QED
      BY <2>1, <2>3, <2>4, <2>5, <2>6, <2>7
         DEF SwiftStep, Moves, Initialize, Enter, Dispose, UseKeys, LockAgent, LockState,
             Call, InCall, UnlockState, TakeHandle, Destroy, LockKeys, LeaveClosure
  <1>5. QED
    BY <1>3, <1>4

-----------------------------------------------------------------------------
(* The invariant holds before the first step, and every step keeps it.     *)
LEMMA SwiftInvInit == SwiftInit => SwiftInv
  <1> SUFFICES ASSUME SwiftInit
               PROVE  SwiftInv
    OBVIOUS
  <1> USE DEF SwiftInit, Init
  <1>1. SwiftShape /\ Shape
    BY DEF SwiftShape, Places, Shape
  <1>2. JobsAreReferenced /\ ClosuresDiffer /\ ClosuresSeeKeys
    BY DEF JobsAreReferenced, HasAgent, ClosuresDiffer, Injective, ClosuresSeeKeys, Running
  <1>3. LocksAreOwned
    BY ObjectsAssumption DEF LocksAreOwned, Held, HasAgent, HasState, Running
  <1>4. HandlesAreTyped /\ HandlesHaveOneOwner
    BY DEF HandlesAreTyped, HandlesHaveOneOwner, Objects
  <1>5. CallsFollowJobs
    BY DEF CallsFollowJobs
  <1>6. GuardInv
    BY DEF GuardInv, CallsAreLive, FlagsAreOwned, Serialized, NoUseAfterFree, Guards,
           HoldsRoot, HoldsState
  <1>7. QED
    BY <1>1, <1>2, <1>3, <1>4, <1>5, <1>6 DEF SwiftInv

(* Every step preserves SwiftInv.                                          *)
LEMMA SwiftInvNext == SwiftInv /\ [SwiftNext]_svars => SwiftInv'
  <1> SUFFICES ASSUME SwiftInv, [SwiftNext]_svars
               PROVE  SwiftInv'
    OBVIOUS
  <1>1. Shape' /\ GuardInv'
    BY StepsKeepTheContract, ShapeNext, GuardInvNext DEF SwiftInv
  <1>2. CASE UNCHANGED svars
    <2>1. /\ SwiftShape' /\ JobsAreReferenced' /\ ClosuresDiffer' /\ ClosuresSeeKeys'
      BY <1>2 DEF SwiftInv, svars, wvars, SwiftShape, JobsAreReferenced, ClosuresDiffer,
                  ClosuresSeeKeys, Running
    <2>2. LocksAreOwned'
      BY <1>2 DEF SwiftInv, svars, wvars, LocksAreOwned, Held, Running
    <2>3. HandlesAreTyped' /\ HandlesHaveOneOwner'
      BY <1>2 DEF SwiftInv, svars, wvars, vars, HandlesAreTyped, HandlesHaveOneOwner
    <2>4. CallsFollowJobs'
      BY <1>2 DEF SwiftInv, svars, wvars, vars, CallsFollowJobs
    <2>5. QED
      BY <1>1, <2>1, <2>2, <2>3, <2>4 DEF SwiftInv
  <1>3. CASE SwiftNext
    <2>1. PICK t \in Threads : SwiftStep(t)
      BY <1>3 DEF SwiftNext, SwiftStep
    <2>2. QED
      BY <1>1, <2>1, StepsAreLocal, JobsKept, StacksChange, LocksKept, HandlesKept,
         OneOwnerKept, CallsKept, ClosuresKept DEF SwiftInv
  <1>4. QED
    BY <1>2, <1>3

(* Every reachable state satisfies SwiftInv.                               *)
LEMMA SwiftInvariant == SwiftSpec => []SwiftInv
  BY SwiftInvInit, SwiftInvNext, PTL DEF SwiftSpec

-----------------------------------------------------------------------------
(* Whatever threads do with shared agents and states, no call and no       *)
(* destructor meets a flag that is set: the locks of OpaqueAgent and       *)
(* AgentState exclude OPAQUE_ERROR_BUSY, and void destructors free.        *)
THEOREM CallsAreNeverBusy == SwiftSpec => []NeverBusy
  BY SwiftInvariant, FlagsAreClear, PTL

(* dispose, deinit and the constructors hand each C handle on without      *)
(* losing or doubling it.                                                  *)
THEOREM HandlesAreOwnedOnce == SwiftSpec => []HandlesHaveOneOwner
  <1>1. SwiftInv => HandlesHaveOneOwner
    BY DEF SwiftInv
  <1>2. QED
    BY <1>1, SwiftInvariant, PTL

(* The locks that threads take inside one another have an order, keys      *)
(* before agents before states: threads can stop for ever only in closures *)
(* that call withSessionKey, withExportKey or dispose of a keys object, as *)
(* these hold its lock and take the next one in any order.                 *)
THEOREM AgentsNeverDeadlock == SwiftSpec => []OnlyNestedClosuresDeadlock
  BY SwiftInvariant, LocksAreOrdered, PTL

(* withSessionKey and withExportKey give a closure keys that nobody        *)
(* disposes of before it returns.                                          *)
THEOREM ClosuresHaveKeys == SwiftSpec => []ClosuresSeeKeys
  <1>1. SwiftInv => ClosuresSeeKeys
    BY DEF SwiftInv
  <1>2. QED
    BY <1>1, SwiftInvariant, PTL

(* Swift code cannot break the contract of opaque_common.h: every          *)
(* behaviour of the wrapper is one of FfiHandles.                          *)
THEOREM WrapperKeepsTheContract == SwiftSpec => KeepsTheContract
  <1>1. SwiftInit => Init
    BY DEF SwiftInit
  <1>2. QED
    BY <1>1, SwiftInvariant, StepsKeepTheContract, PTL
    DEF SwiftSpec, KeepsTheContract, Spec

(* So what is proved of FfiHandles holds under the wrapper.                *)
THEOREM WrapperInheritsSafety ==
  SwiftSpec => [](Serialized /\ FlagsAreOwned /\ NoUseAfterFree)
  BY WrapperKeepsTheContract, CallsAreSerialized, NoFlagIsLeaked, NothingInUseIsFreed, PTL
  DEF KeepsTheContract
=============================================================================
