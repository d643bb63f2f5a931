----------------------------- MODULE FfiProofs ------------------------------
(***************************************************************************)
(* Theorems about FfiHandles, for any number of threads and handles: the   *)
(* flags and handles first, then the states behind them, their types, what *)
(* a failed call leaves of them, how far they and their caller have come,  *)
(* and that they are one-shot sessions.                                    *)
(***************************************************************************)
EXTENDS FfiHandles, FfiRefinement, Integers, TLAPS

-----------------------------------------------------------------------------
(* Flags and handles.                                                      *)

(* A thread that changes neither its place nor its call keeps its guards.  *)
LEMMA GuardsKept ==
  ASSUME NEW t \in Threads, pc'[t] = pc[t], call'[t] = call[t]
  PROVE  Guards(t)' = Guards(t)
  BY DEF Guards, HoldsRoot, HoldsState

(* The tables of the threads keep their domain.                            *)
Shape == DOMAIN pc = Threads /\ DOMAIN call = Threads /\ DOMAIN result = Threads

(* Every step leaves it to them.                                           *)
LEMMA ShapeNext == Shape /\ [Next]_vars => Shape'
  BY SMTT(30) DEF Shape, Next, vars, Begin, Step, AdmitRoot, Return, AdmitState, Refuse,
         Admit, CorruptedRecord, Stateless, RunSucceeds, RunFails, Panic, Commit,
         Terminalize, ReleaseState, ReleaseRoot, Publish, Creates, AgentCreate,
         AgentStateCreate, RelayStateCreate, RelayKeypairGenerate,
         RelayCreateWithKeys, Create, Destroys, AgentTryDestroy,
         AgentStateTryDestroy, RelayTryDestroy, RelayStateTryDestroy,
         RelayKeypairTryDestroy, TryDestroy

(* They have it in every reachable state.                                  *)
LEMMA ShapeInv == Spec => []Shape
  <1>1. Init => Shape
    BY DEF Init, Shape
  <1>2. QED
    BY <1>1, ShapeNext, PTL DEF Spec

(* A step of thread t that takes the handles in gained and gives back      *)
(* those in lost: enough to keep the flags owned and the calls serialized. *)
LEMMA GuardStep ==
  ASSUME GuardInv, Shape, NEW t \in Threads, NEW gained, NEW lost,
         \A u \in Threads \ {t} : pc'[u] = pc[u] /\ call'[u] = call[u],
         gained \cap inUse = {}, lost \subseteq Guards(t),
         Guards(t)' = (Guards(t) \ lost) \cup gained,
         inUse' = (inUse \ lost) \cup gained
  PROVE  FlagsAreOwned' /\ Serialized'
  <1>1. \A u \in Threads \ {t} : Guards(u)' = Guards(u)
    BY GuardsKept
  <1>2. \A u \in Threads : Guards(u) \subseteq inUse
    BY DEF GuardInv, FlagsAreOwned
  <1>3. \A u, v \in Threads : u # v => Guards(u) \cap Guards(v) = {}
    BY DEF GuardInv, Serialized
  <1>4. Serialized'
    <2> SUFFICES ASSUME NEW u \in Threads, NEW v \in Threads, u # v,
                        NEW h, h \in Guards(u)', h \in Guards(v)'
                 PROVE  FALSE
      BY DEF Serialized
    <2>1. CASE u # t /\ v # t
      BY <1>1, <1>3, <2>1
    <2>2. CASE u = t
      BY <1>1, <1>2, <1>3, <2>2
    <2>3. CASE v = t
      BY <1>1, <1>2, <1>3, <2>3
    <2>4. QED
      BY <2>1, <2>2, <2>3
  <1>5. FlagsAreOwned'
    <2> SUFFICES ASSUME NEW h
                 PROVE  h \in inUse' <=> \E u \in Threads : h \in Guards(u)'
      BY DEF FlagsAreOwned
    <2>1. h \in inUse <=> \E u \in Threads : h \in Guards(u)
      BY DEF GuardInv, FlagsAreOwned
    <2>2. CASE h \in gained
      BY <2>2
    <2>3. CASE h \in lost
      <3>1. \A u \in Threads \ {t} : h \notin Guards(u)
        BY <1>3, <2>3
      <3>2. QED
        BY <1>1, <2>3, <3>1
    <2>4. CASE h \notin gained /\ h \notin lost
      <3>1. h \in Guards(t)' <=> h \in Guards(t)
        BY <2>4
      <3>2. QED
        BY <1>1, <2>1, <2>4, <3>1
    <2>5. QED
      BY <2>2, <2>3, <2>4
  <1>6. QED
    BY <1>4, <1>5

(* The three ways a call moves.  It keeps its guards: every step between   *)
(* admission and release.                                                  *)
LEMMA GuardsSame ==
  ASSUME GuardInv, Shape, NEW t \in Threads,
         \A u \in Threads \ {t} : pc'[u] = pc[u] /\ call'[u] = call[u],
         Guards(t)' = Guards(t), inUse' = inUse
  PROVE  FlagsAreOwned' /\ Serialized'
  <1>1. /\ {} \cap inUse = {} /\ {} \subseteq Guards(t)
        /\ Guards(t)' = (Guards(t) \ {}) \cup {}
        /\ inUse' = (inUse \ {}) \cup {}
    OBVIOUS
  <1>2. QED
    BY <1>1, GuardStep, Zenon

(* It takes one: a compare_exchange that succeeds.                         *)
LEMMA GuardTaken ==
  ASSUME GuardInv, Shape, NEW t \in Threads, NEW h,
         \A u \in Threads \ {t} : pc'[u] = pc[u] /\ call'[u] = call[u],
         h \notin inUse,
         Guards(t)' = Guards(t) \cup {h}, inUse' = inUse \cup {h}
  PROVE  FlagsAreOwned' /\ Serialized'
  <1>1. /\ {h} \cap inUse = {} /\ {} \subseteq Guards(t)
        /\ Guards(t)' = (Guards(t) \ {}) \cup {h}
        /\ inUse' = (inUse \ {}) \cup {h}
    OBVIOUS
  <1>2. QED
    BY <1>1, GuardStep, Zenon

(* It drops one: BusyGuard::drop.                                          *)
LEMMA GuardDropped ==
  ASSUME GuardInv, Shape, NEW t \in Threads, NEW h,
         \A u \in Threads \ {t} : pc'[u] = pc[u] /\ call'[u] = call[u],
         h \in Guards(t),
         Guards(t)' = Guards(t) \ {h}, inUse' = inUse \ {h}
  PROVE  FlagsAreOwned' /\ Serialized'
  <1>1. /\ {} \cap inUse = {} /\ {h} \subseteq Guards(t)
        /\ Guards(t)' = (Guards(t) \ {h}) \cup {}
        /\ inUse' = (inUse \ {h}) \cup {}
    OBVIOUS
  <1>2. QED
    BY <1>1, GuardStep, Zenon

(* The invariant is inductive.                                             *)
LEMMA GuardInvNext == Shape /\ GuardInv /\ [Next]_vars => GuardInv'
  <1> SUFFICES ASSUME Shape, GuardInv, [Next]_vars
               PROVE  GuardInv'
    OBVIOUS
  <1> USE DEF Shape
  <1>0. /\ CallsAreLive /\ NoUseAfterFree
        /\ \A t \in Threads : Guards(t) \subseteq inUse
    BY DEF GuardInv, FlagsAreOwned
  <1>1. \* a step of t that keeps its guards, the flags and the live handles
        ASSUME NEW t \in Threads, pc[t] # "idle",
               UNCHANGED <<inUse, live, call>>,
               NEW label, pc' = [pc EXCEPT ![t] = label],
               label \notin {"idle", "admit_root", "admit_state"},
               HoldsRoot(t)' <=> HoldsRoot(t), HoldsState(t)' <=> HoldsState(t)
        PROVE  GuardInv'
    <2>1. Guards(t)' = Guards(t)
      BY <1>1 DEF Guards
    <2>2. \A u \in Threads \ {t} : pc'[u] = pc[u] /\ call'[u] = call[u]
      BY <1>1
    <2>3. FlagsAreOwned' /\ Serialized'
      BY <1>1, <2>1, <2>2, GuardsSame
    <2>4. NoUseAfterFree'
      BY <1>0, <1>1, <2>1, <2>2, GuardsKept DEF NoUseAfterFree
    <2>5. CallsAreLive'
      BY <1>0, <1>1, <2>2 DEF CallsAreLive, HoldsState
    <2>6. QED
      BY <2>3, <2>4, <2>5 DEF GuardInv
  <1> USE DEF HoldsRoot, HoldsState
  <1>2. ASSUME NEW t \in Threads, NEW code, pc[t] = "admit_state", Refuse(t, code)
        PROVE  GuardInv'
    BY <1>1, <1>2 DEF Refuse
  <1>3. ASSUME NEW t \in Threads, Begin(t)
        PROVE  GuardInv'
    <2>1. /\ pc[t] = "idle" /\ pc' = [pc EXCEPT ![t] = "admit_root"]
          /\ UNCHANGED <<inUse, live>>
          /\ \A u \in Threads \ {t} : pc'[u] = pc[u] /\ call'[u] = call[u]
      BY <1>3 DEF Begin
    <2>2. Guards(t) = {} /\ Guards(t)' = {}
      BY <2>1 DEF Guards
    <2>3. FlagsAreOwned' /\ Serialized'
      BY <2>1, <2>2, GuardsSame
    <2>4. NoUseAfterFree'
      BY <1>0, <2>1, <2>2, GuardsKept DEF NoUseAfterFree
    <2>5. /\ call'[t].root \in Roots \cap live
          /\ call'[t].state \in (States \cap live) \cup {Null}
      BY <1>3 DEF Begin, Ops, StatelessOps, RootsOf, StatesOf, Roots, States,
                  AgentCreateRegistrationRequest, AgentFinalizeRegistration,
                  AgentGenerateKe1, AgentGenerateKe3, AgentFinish, RelayGenerateKe2,
                  RelayFinish, RelayCreateRegistrationResponse,
                  RelayKeypairGetPublicKey, RelayCreate
    <2>6. CallsAreLive'
      BY <1>0, <2>1, <2>5 DEF CallsAreLive
    <2>7. QED
      BY <2>3, <2>4, <2>6 DEF GuardInv
  <1>4. ASSUME NEW t \in Threads, AdmitRoot(t)
        PROVE  GuardInv'
    <2>1. /\ pc[t] = "admit_root" /\ UNCHANGED live
          /\ \A u \in Threads \ {t} : pc'[u] = pc[u] /\ call'[u] = call[u]
      BY <1>4 DEF AdmitRoot, Return
    <2>2. Guards(t) = {}
      BY <2>1 DEF Guards
    <2>3. CASE call[t].root \in inUse
      <3>1. pc'[t] = "idle" /\ UNCHANGED inUse
        BY <1>4, <2>3 DEF AdmitRoot, Return
      <3>2. Guards(t)' = Guards(t)
        BY <2>2, <3>1 DEF Guards
      <3>3. FlagsAreOwned' /\ Serialized'
        BY <2>1, <3>1, <3>2, GuardsSame
      <3>4. NoUseAfterFree'
        BY <1>0, <2>1, <2>2, <3>2, GuardsKept DEF NoUseAfterFree
      <3>5. CallsAreLive'
        BY <1>0, <2>1, <3>1 DEF CallsAreLive
      <3>6. QED
        BY <3>3, <3>4, <3>5 DEF GuardInv
    <2>4. CASE call[t].root \notin inUse
      <3>1. /\ pc'[t] \in {"stateless", "admit_state"}
            /\ call'[t] = call[t]
            /\ inUse' = inUse \cup {call[t].root}
        BY <1>4, <2>4 DEF AdmitRoot
      <3>2. Guards(t)' = Guards(t) \cup {call[t].root}
        BY <2>2, <3>1 DEF Guards
      <3>3. FlagsAreOwned' /\ Serialized'
        BY <2>1, <2>4, <3>1, <3>2, GuardTaken
      <3>4. NoUseAfterFree'
        BY <1>0, <2>1, <2>2, <3>2, GuardsKept DEF NoUseAfterFree, CallsAreLive
      <3>5. CallsAreLive'
        BY <1>0, <2>1, <3>1 DEF CallsAreLive
      <3>6. QED
        BY <3>3, <3>4, <3>5 DEF GuardInv
    <2>5. QED
      BY <2>3, <2>4
  <1>5. ASSUME NEW t \in Threads, AdmitState(t)
        PROVE  GuardInv'
    <2>1. CASE Admit(t) /\ call[t].state # Null /\ call[t].state \notin inUse
      <3>1. /\ pc[t] = "admit_state" /\ pc'[t] = "run" /\ call'[t] = call[t]
            /\ UNCHANGED live
            /\ inUse' = inUse \cup {call[t].state}
            /\ \A u \in Threads \ {t} : pc'[u] = pc[u] /\ call'[u] = call[u]
        BY <1>5, <2>1 DEF AdmitState, Admit
      <3>2. Guards(t)' = Guards(t) \cup {call[t].state}
        BY <3>1 DEF Guards
      <3>3. FlagsAreOwned' /\ Serialized'
        BY <2>1, <3>1, <3>2, GuardTaken
      <3>4. call[t].state \in States \cap live
        BY <1>0, <2>1, <3>1 DEF CallsAreLive
      <3>5. NoUseAfterFree'
        BY <1>0, <3>1, <3>2, <3>4, GuardsKept DEF NoUseAfterFree
      <3>6. CallsAreLive'
        BY <1>0, <3>1, <3>4 DEF CallsAreLive
      <3>7. QED
        BY <3>3, <3>5, <3>6 DEF GuardInv
    <2>2. QED
      BY <1>2, <1>5, <2>1 DEF AdmitState
  <1>6. ASSUME NEW t \in Threads, CorruptedRecord(t)
        PROVE  GuardInv'
    BY <1>2, <1>6 DEF CorruptedRecord
  <1>7. ASSUME NEW t \in Threads, Stateless(t)
        PROVE  GuardInv'
    BY <1>1, <1>7 DEF Stateless
  <1>8. ASSUME NEW t \in Threads, RunSucceeds(t)
        PROVE  GuardInv'
    BY <1>1, <1>8 DEF RunSucceeds
  <1>9. ASSUME NEW t \in Threads, RunFails(t) \/ Panic(t)
        PROVE  GuardInv'
    BY <1>1, <1>9 DEF RunFails, Panic
  <1>10. ASSUME NEW t \in Threads, Commit(t)
         PROVE  GuardInv'
    BY <1>1, <1>10 DEF Commit
  <1>11. ASSUME NEW t \in Threads, Terminalize(t)
         PROVE  GuardInv'
    BY <1>1, <1>11 DEF Terminalize
  <1>12. ASSUME NEW t \in Threads, ReleaseState(t)
         PROVE  GuardInv'
    <2>1. /\ pc[t] = "release_state" /\ pc'[t] = "release_root" /\ call'[t] = call[t]
          /\ UNCHANGED live
          /\ inUse' = inUse \ {call[t].state}
          /\ \A u \in Threads \ {t} : pc'[u] = pc[u] /\ call'[u] = call[u]
      BY <1>12 DEF ReleaseState
    <2>2. call[t].root # call[t].state
      BY <1>0, <2>1, KindsAssumption DEF CallsAreLive
    <2>3. /\ Guards(t)' = Guards(t) \ {call[t].state}
          /\ call[t].state \in Guards(t)
      BY <2>1, <2>2 DEF Guards
    <2>4. FlagsAreOwned' /\ Serialized'
      BY <2>1, <2>3, GuardDropped
    <2>5. NoUseAfterFree'
      BY <1>0, <2>1, <2>3, GuardsKept DEF NoUseAfterFree
    <2>6. CallsAreLive'
      BY <1>0, <2>1 DEF CallsAreLive
    <2>7. QED
      BY <2>4, <2>5, <2>6 DEF GuardInv
  <1>13. ASSUME NEW t \in Threads, ReleaseRoot(t)
         PROVE  GuardInv'
    <2>1. /\ pc[t] = "release_root" /\ pc'[t] \in {"idle", "publish"}
          /\ pc'[t] = "publish" => call'[t] = call[t]
          /\ UNCHANGED live
          /\ inUse' = inUse \ {call[t].root}
          /\ \A u \in Threads \ {t} : pc'[u] = pc[u] /\ call'[u] = call[u]
      BY <1>13 DEF ReleaseRoot, Return
    <2>2. /\ Guards(t)' = Guards(t) \ {call[t].root}
          /\ call[t].root \in Guards(t)
      BY <2>1 DEF Guards
    <2>3. FlagsAreOwned' /\ Serialized'
      BY <2>1, <2>2, GuardDropped
    <2>4. NoUseAfterFree'
      BY <1>0, <2>1, <2>2, GuardsKept DEF NoUseAfterFree
    <2>5. CallsAreLive'
      BY <1>0, <2>1 DEF CallsAreLive
    <2>6. QED
      BY <2>3, <2>4, <2>5 DEF GuardInv
  <1>14. \* no thread moves; the live handles grow or lose one nobody is at
         ASSUME UNCHANGED <<inUse, pc, call>>,
                \/ live \subseteq live'
                \/ \E h : h \notin inUse /\ Approaching(h) = {} /\ live' = live \ {h}
         PROVE  GuardInv'
    <2>1. \A u \in Threads : Guards(u)' = Guards(u)
      BY <1>14, GuardsKept
    <2>2. FlagsAreOwned' /\ Serialized'
      BY <1>14, <2>1 DEF FlagsAreOwned, Serialized, GuardInv
    <2>3. NoUseAfterFree'
      BY <1>0, <1>14, <2>1 DEF NoUseAfterFree
    <2>4. CallsAreLive'
      BY <1>0, <1>14 DEF CallsAreLive, Approaching
    <2>5. QED
      BY <2>2, <2>3, <2>4 DEF GuardInv
  <1>15. ASSUME NEW t \in Threads, NEW handles, Create(t, handles)
         PROVE  GuardInv'
    BY <1>14, <1>15 DEF Create
  <1>16. ASSUME NEW t \in Threads, NEW h, TryDestroy(t, h)
         PROVE  GuardInv'
    BY <1>14, <1>16 DEF TryDestroy
  <1>17. ASSUME NEW t \in Threads, Publish(t)
         PROVE  GuardInv'
    <2>1. /\ pc[t] = "publish" /\ pc'[t] = "idle" /\ live \subseteq live'
          /\ UNCHANGED inUse
          /\ \A u \in Threads \ {t} : pc'[u] = pc[u] /\ call'[u] = call[u]
      BY <1>17 DEF Publish, Return
    <2>2. Guards(t) = {} /\ Guards(t)' = {}
      BY <2>1 DEF Guards
    <2>3. FlagsAreOwned' /\ Serialized'
      BY <2>1, <2>2, GuardsSame
    <2>4. NoUseAfterFree'
      BY <1>0, <2>1, <2>2, GuardsKept DEF NoUseAfterFree
    <2>5. CallsAreLive'
      BY <1>0, <2>1 DEF CallsAreLive
    <2>6. QED
      BY <2>3, <2>4, <2>5 DEF GuardInv
  <1>18. ASSUME NEW t \in Threads, Creates(t) \/ Destroys(t)
         PROVE  GuardInv'
    BY <1>15, <1>16, <1>18
    DEF Creates, AgentCreate, AgentStateCreate, RelayStateCreate,
        RelayKeypairGenerate, RelayCreateWithKeys, Destroys, AgentTryDestroy,
        AgentStateTryDestroy, RelayTryDestroy, RelayStateTryDestroy,
        RelayKeypairTryDestroy
  <1>19. CASE UNCHANGED vars
    BY <1>14, <1>19 DEF vars
  <1>20. QED
    BY <1>3, <1>4, <1>5, <1>6, <1>7, <1>8, <1>9, <1>10, <1>11, <1>12, <1>13,
       <1>17, <1>18, <1>19
    DEF Next, Step

(* Any number of threads may call the C interface on any handles: the      *)
(* invariant holds throughout.                                             *)
LEMMA Guarded == Spec => []GuardInv
  <1>1. Init => GuardInv
    BY DEF Init, GuardInv, CallsAreLive, FlagsAreOwned, Serialized, NoUseAfterFree,
           Guards, HoldsRoot, HoldsState
  <1>2. QED
    BY <1>1, ShapeInv, GuardInvNext, PTL DEF Spec

(* The calls that acquire_agent, acquire_agent_state and their             *)
(* counterparts admit to one handle exclude each other.                    *)
THEOREM CallsAreSerialized == Spec => []Serialized
  <1>1. GuardInv => Serialized
    BY DEF GuardInv
  <1>2. QED
    BY <1>1, Guarded, PTL

(* A flag is set exactly while some call owns its BusyGuard: no path out   *)
(* of a call, early, by an error or by a panic, leaks one.                 *)
THEOREM NoFlagIsLeaked == Spec => []FlagsAreOwned
  <1>1. GuardInv => FlagsAreOwned
    BY DEF GuardInv
  <1>2. QED
    BY <1>1, Guarded, PTL

(* The try_destroy functions never free a handle, key pairs included, that *)
(* a call has been admitted to.                                            *)
THEOREM NothingInUseIsFreed == Spec => []NoUseAfterFree
  <1>1. GuardInv => NoUseAfterFree
    BY DEF GuardInv
  <1>2. QED
    BY <1>1, Guarded, PTL

-----------------------------------------------------------------------------
(* States.                                                                 *)

(* A call in progress is one of the entry points, and one that is at its   *)
(* state is an entry point for a state of that kind.                       *)
TypedOp(c) == c.op \in Ops /\ c.state \in StatesOf(c.op)

CallsAreTyped ==
  \A t \in Threads :
    /\ pc[t] = "admit_root" => TypedOp(call[t]) \/ call[t].op \in StatelessOps
    /\ pc[t] = "admit_state" \/ HoldsState(t) => TypedOp(call[t])

(* What is left when a handle is dropped is a state as good as new.        *)
DestroyedAreFresh == \A s \in States \ live : phase[s] = "Created"

(* Between the crate's function and the copy of its output, and between a  *)
(* failure and its handling, a state is ahead of its caller.               *)
Ahead(t, s) == pc[t] \in {"commit", "failed"} /\ call[t].state = s

(* Every other state has come as far as its caller.                        *)
Settled ==
  \A s \in States : (\A t \in Threads : ~Ahead(t, s)) =>
    /\ outputs[s] = Received(s)
    /\ s \in exported <=> phase[s] = "Ke3Generated"

(* What the caller has when it asks for the output of an entry point.      *)
Before(op) ==
  IF op.from = "Created" THEN <<>>
  ELSE IF op.from = "RegistrationRequested" THEN <<"registration_request">>
  ELSE IF op.from = "Ke1Generated" THEN <<"ke1">>
  ELSE IF op.from = "Ke3Generated" THEN <<"ke1", "ke3">>
  ELSE <<"ke2">>

(* A state whose output has still to be copied is one output ahead.        *)
OneOutputAhead ==
  \A t \in Threads : pc[t] = "commit" =>
    /\ phase[call[t].state] = call[t].op.to
    /\ outputs[call[t].state] = Before(call[t].op)
    /\ call[t].op # AgentFinish => call[t].state \notin exported

(* The inductive invariant of this module, on top of GuardInv.             *)
StateInv ==
  /\ TypeOK /\ CallsAreTyped /\ DestroyedAreFresh
  /\ Settled /\ OneOutputAhead /\ FailuresAreTerminal

-----------------------------------------------------------------------------
(* A state is held by one call at a time.                                  *)
LEMMA OneHolder ==
  ASSUME GuardInv, NEW t \in Threads, NEW u \in Threads,
         HoldsState(t), HoldsState(u), call[t].state = call[u].state
  PROVE  t = u
  BY DEF GuardInv, Serialized, Guards

(* The entry points by the kind of their state.                            *)
LEMMA OpKinds ==
  /\ \A op \in Ops : \/ op.on = "agent" /\ op.from \in AgentPhases /\ op.to \in AgentPhases
                     \/ op.on = "relay" /\ op.from \in RelayPhases /\ op.to \in RelayPhases
  /\ {"Created", "Finished"} \subseteq AgentPhases \cap RelayPhases
  <1> USE DEF Ops, AgentCreateRegistrationRequest, AgentFinalizeRegistration,
              AgentGenerateKe1, AgentGenerateKe3, AgentFinish, RelayGenerateKe2,
              RelayFinish
  <1>1. \A op \in Ops : op.on \in {"agent", "relay"}
    OBVIOUS
  <1>2. \A op \in Ops : op.on = "agent" => op.from \in AgentPhases /\ op.to \in AgentPhases
    BY DEF AgentPhases
  <1>3. \A op \in Ops : op.on = "relay" => op.from \in RelayPhases /\ op.to \in RelayPhases
    BY DEF RelayPhases
  <1>4. /\ AgentGenerateKe1 \in Ops /\ AgentGenerateKe1.on = "agent"
        /\ AgentGenerateKe1.from = "Created"
        /\ AgentFinish \in Ops /\ AgentFinish.on = "agent" /\ AgentFinish.to = "Finished"
    OBVIOUS
  <1>5. /\ RelayGenerateKe2 \in Ops /\ RelayGenerateKe2.on = "relay"
        /\ RelayGenerateKe2.from = "Created"
        /\ RelayFinish \in Ops /\ RelayFinish.on = "relay" /\ RelayFinish.to = "Finished"
    OBVIOUS
  <1>6. QED
    BY <1>1, <1>2, <1>3, <1>4, <1>5

(* The sequences of outputs have one, two or three elements.               *)
LEMMA AppendOutput ==
  ASSUME NEW x, NEW y, NEW z
  PROVE  /\ Append(<<>>, x) = <<x>>
         /\ Append(<<x>>, y) = <<x, y>>
         /\ Append(<<x, y>>, z) = <<x, y, z>>
  <1>1. Append(<<>>, x) = <<x>>
    OBVIOUS
  <1>2. Append(<<x>>, y) = <<x, y>>
    <2>1. Append(<<x>>, y) = [i \in 1 .. 2 |-> IF i = 1 THEN x ELSE y]
      BY DEF Append
    <2>2. <<x, y>> = [i \in 1 .. 2 |-> IF i = 1 THEN x ELSE y]
      OBVIOUS
    <2>3. QED
      BY <2>1, <2>2
  <1>3. Append(<<x, y>>, z) = <<x, y, z>>
    <2>1. Append(<<x, y>>, z) = [i \in 1 .. 3 |-> IF i = 1 THEN x ELSE IF i = 2 THEN y ELSE z]
      BY DEF Append
    <2>2. <<x, y, z>> = [i \in 1 .. 3 |-> IF i = 1 THEN x ELSE IF i = 2 THEN y ELSE z]
      OBVIOUS
    <2>3. QED
      BY <2>1, <2>2
  <1>4. QED
    BY <1>1, <1>2, <1>3

(* What an entry point appends to what its caller had.                     *)
LEMMA OpOutputs ==
  ASSUME NEW op \in Ops
  PROVE  /\ op.to = "RegistrationRequested" => Append(Before(op), op.name) = <<"registration_request">>
         /\ op.to = "RegistrationFinalized" =>
              Append(Before(op), op.name) = <<"registration_request", "registration_record">>
         /\ op.to = "Ke1Generated" => Append(Before(op), op.name) = <<"ke1">>
         /\ op.to = "Ke3Generated" => Append(Before(op), op.name) = <<"ke1", "ke3">>
         /\ op.to = "Ke2Generated" => Append(Before(op), op.name) = <<"ke2">>
         /\ op.to # "Created"
         /\ op.to = "Ke3Generated" <=> op = AgentGenerateKe3
         /\ op.from = "Ke3Generated" <=> op = AgentFinish
         /\ op.to = "Finished" <=> op \in {AgentFinish, RelayFinish}
  <1>1. /\ Append(<<>>, "registration_request") = <<"registration_request">>
        /\ Append(<<>>, "ke1") = <<"ke1">>
        /\ Append(<<>>, "ke2") = <<"ke2">>
        /\ Append(<<"ke1">>, "ke3") = <<"ke1", "ke3">>
        /\ Append(<<"registration_request">>, "registration_record")
             = <<"registration_request", "registration_record">>
    BY AppendOutput
  <1>2. /\ AgentFinish.to # AgentGenerateKe3.to /\ RelayFinish.to # AgentGenerateKe3.to
        /\ AgentFinish.on # RelayFinish.on
    BY DEF AgentFinish, RelayFinish, AgentGenerateKe3
  <1>3. CASE op = AgentCreateRegistrationRequest
    <2>1. /\ op.name = "registration_request" /\ op.from = "Created"
          /\ op.to = "RegistrationRequested" /\ Before(op) = <<>>
      BY <1>3 DEF AgentCreateRegistrationRequest, Before
    <2>2. QED
      BY <1>1, <2>1 DEF AgentGenerateKe3, AgentFinish, RelayFinish
  <1>4. CASE op = AgentFinalizeRegistration
    <2>1. /\ op.name = "registration_record" /\ op.from = "RegistrationRequested"
          /\ op.to = "RegistrationFinalized" /\ Before(op) = <<"registration_request">>
      BY <1>4 DEF AgentFinalizeRegistration, Before
    <2>2. QED
      BY <1>1, <2>1 DEF AgentGenerateKe3, AgentFinish, RelayFinish
  <1>5. CASE op = AgentGenerateKe1
    <2>1. /\ op.name = "ke1" /\ op.from = "Created"
          /\ op.to = "Ke1Generated" /\ Before(op) = <<>>
      BY <1>5 DEF AgentGenerateKe1, Before
    <2>2. QED
      BY <1>1, <2>1 DEF AgentGenerateKe3, AgentFinish, RelayFinish
  <1>6. CASE op = AgentGenerateKe3
    <2>1. /\ op.name = "ke3" /\ op.from = "Ke1Generated"
          /\ op.to = "Ke3Generated" /\ Before(op) = <<"ke1">>
      BY <1>6 DEF AgentGenerateKe3, Before
    <2>2. QED
      BY <1>1, <1>2, <1>6, <2>1 DEF AgentFinish, RelayFinish
  <1>7. CASE op = AgentFinish
    <2>1. op.from = "Ke3Generated" /\ op.to = "Finished"
      BY <1>7 DEF AgentFinish
    <2>2. QED
      BY <1>7, <2>1 DEF AgentGenerateKe3
  <1>8. CASE op = RelayGenerateKe2
    <2>1. /\ op.name = "ke2" /\ op.from = "Created"
          /\ op.to = "Ke2Generated" /\ Before(op) = <<>>
      BY <1>8 DEF RelayGenerateKe2, Before
    <2>2. QED
      BY <1>1, <2>1 DEF AgentGenerateKe3, AgentFinish, RelayFinish
  <1>9. CASE op = RelayFinish
    <2>1. op.from = "Ke2Generated" /\ op.to = "Finished"
      BY <1>9 DEF RelayFinish
    <2>2. QED
      BY <1>9, <2>1 DEF AgentGenerateKe3, AgentFinish
  <1>10. QED
    BY <1>3, <1>4, <1>5, <1>6, <1>7, <1>8, <1>9 DEF Ops

-----------------------------------------------------------------------------
(* A step of thread t that touches no state: the invariant survives if it  *)
(* neither ends nor undoes what a call has done to its state.              *)
LEMMA StateUntouched ==
  ASSUME Shape, GuardInv, StateInv, NEW t \in Threads,
         UNCHANGED <<phase, exported, outputs>>,
         live \subseteq live', live' \subseteq Handles, inUse' \subseteq Handles,
         NEW label \in Labels \ {"commit", "release_state"},
         pc' = [pc EXCEPT ![t] = label],
         pc[t] \in {"commit", "failed"} => label = "failed",
         label = "failed" => call'[t] = call[t],
         DOMAIN call' = Threads, result' \in [Threads -> Results],
         \A u \in Threads \ {t} : call'[u] = call[u] /\ result'[u] = result[u],
         label = "admit_root" => TypedOp(call'[t]) \/ call'[t].op \in StatelessOps,
         label \in {"admit_state", "run", "failed"} => TypedOp(call'[t])
  PROVE  StateInv'
  <1> USE DEF Shape, HoldsState
  <1>1. TypeOK'
    BY DEF StateInv, TypeOK
  <1>2. CallsAreTyped'
    BY DEF StateInv, CallsAreTyped, Labels
  <1>3. DestroyedAreFresh'
    BY DEF StateInv, DestroyedAreFresh
  <1>4. Settled'
    <2> SUFFICES ASSUME NEW s \in States, \A u \in Threads : ~Ahead(u, s)'
                 PROVE  /\ outputs[s] = Received(s)
                        /\ s \in exported <=> phase[s] = "Ke3Generated"
      BY DEF Settled, Received
    <2>1. \A u \in Threads : ~Ahead(u, s)
      BY DEF Ahead
    <2>2. QED
      BY <2>1 DEF StateInv, Settled
  <1>5. OneOutputAhead'
    BY DEF StateInv, OneOutputAhead, Before
  <1>6. FailuresAreTerminal'
    BY DEF StateInv, FailuresAreTerminal
  <1>7. QED
    BY <1>1, <1>2, <1>3, <1>4, <1>5, <1>6 DEF StateInv

(* A step of thread t that touches only the state it holds.                *)
LEMMA OwnStateTouched ==
  ASSUME Shape, GuardInv, StateInv, NEW t \in Threads, HoldsState(t),
         UNCHANGED <<live, inUse, call>>,
         NEW label \in {"commit", "release_state"}, pc' = [pc EXCEPT ![t] = label],
         NEW s, s = call[t].state,
         NEW p, phase' = [phase EXCEPT ![s] = p],
         s \in AgentStates => p \in AgentPhases, s \in RelayStates => p \in RelayPhases,
         exported' \subseteq AgentStates,
         \A r \in States \ {s} : r \in exported' <=> r \in exported,
         outputs' \in [States -> Seq({op.name : op \in Ops})],
         \A r \in States \ {s} : outputs'[r] = outputs[r],
         result' \in [Threads -> Results],
         \A u \in Threads \ {t} : result'[u] = result[u],
         label = "commit" => /\ p = call[t].op.to
                             /\ outputs'[s] = Before(call[t].op)
                             /\ call[t].op # AgentFinish => s \notin exported',
         label = "release_state" => /\ result'[t] # "ok" => p = "Finished"
                                    /\ outputs'[s] = Received(s)'
                                    /\ s \in exported' <=> p = "Ke3Generated"
  PROVE  StateInv'
  <1> USE DEF Shape, HoldsState
  <1>1. /\ s \in States \cap live
        /\ \A u \in Threads \ {t} : HoldsState(u) => call[u].state # s
    BY OneHolder DEF GuardInv, CallsAreLive, NoUseAfterFree, Guards
  <1>2. /\ phase \in [States -> AgentPhases \cup RelayPhases]
        /\ phase'[s] = p /\ \A r \in States \ {s} : phase'[r] = phase[r]
        /\ pc'[t] = label /\ \A u \in Threads \ {t} : pc'[u] = pc[u]
    BY <1>1 DEF StateInv, TypeOK
  <1>3. TypeOK'
    <2>1. phase' \in [States -> AgentPhases \cup RelayPhases]
      BY <1>1, <1>2 DEF States
    <2>2. /\ \A r \in AgentStates : phase'[r] \in AgentPhases
          /\ \A r \in RelayStates : phase'[r] \in RelayPhases
      BY <1>1, <1>2 DEF StateInv, TypeOK, States
    <2>3. pc' \in [Threads -> Labels]
      BY DEF StateInv, TypeOK, Labels
    <2>4. QED
      BY <2>1, <2>2, <2>3 DEF StateInv, TypeOK
  <1>4. CallsAreTyped'
    BY <1>2 DEF StateInv, CallsAreTyped
  <1>5. DestroyedAreFresh'
    BY <1>1, <1>2 DEF StateInv, DestroyedAreFresh
  <1>6. Settled'
    <2> SUFFICES ASSUME NEW r \in States, \A u \in Threads : ~Ahead(u, r)'
                 PROVE  /\ outputs'[r] = Received(r)'
                        /\ r \in exported' <=> phase'[r] = "Ke3Generated"
      BY DEF Settled
    <2>1. CASE r = s
      BY <1>2, <2>1 DEF Ahead
    <2>2. CASE r # s
      <3>1. \A u \in Threads : ~Ahead(u, r)
        BY <1>2, <2>2 DEF Ahead
      <3>2. /\ outputs[r] = Received(r)
            /\ r \in exported <=> phase[r] = "Ke3Generated"
        BY <3>1 DEF StateInv, Settled
      <3>3. Received(r)' = Received(r)
        BY <1>2, <2>2 DEF Received
      <3>4. QED
        BY <1>2, <2>2, <3>2, <3>3
    <2>3. QED
      BY <2>1, <2>2
  <1>7. OneOutputAhead'
    <2> SUFFICES ASSUME NEW u \in Threads, pc'[u] = "commit"
                 PROVE  /\ phase'[call[u].state] = call[u].op.to
                        /\ outputs'[call[u].state] = Before(call[u].op)
                        /\ call[u].op # AgentFinish => call[u].state \notin exported'
      BY DEF OneOutputAhead, Before
    <2>1. CASE u = t
      BY <1>2, <2>1
    <2>2. CASE u # t
      <3>1. pc[u] = "commit" /\ call[u].state \in States \ {s}
        BY <1>1, <1>2, <2>2 DEF GuardInv, CallsAreLive
      <3>2. QED
        BY <1>2, <3>1 DEF StateInv, OneOutputAhead
    <2>3. QED
      BY <2>1, <2>2
  <1>8. FailuresAreTerminal'
    <2> SUFFICES ASSUME NEW u \in Threads, pc'[u] = "release_state", result'[u] # "ok"
                 PROVE  phase'[call[u].state] = "Finished"
      BY DEF FailuresAreTerminal
    <2>1. CASE u = t
      BY <1>2, <2>1
    <2>2. CASE u # t
      <3>1. pc[u] = "release_state" /\ call[u].state \in States \ {s}
        BY <1>1, <1>2, <2>2 DEF GuardInv, CallsAreLive
      <3>2. QED
        BY <1>2, <2>2, <3>1 DEF StateInv, FailuresAreTerminal
    <2>3. QED
      BY <2>1, <2>2
  <1>9. QED
    BY <1>3, <1>4, <1>5, <1>6, <1>7, <1>8 DEF StateInv

(* The invariant is inductive.                                             *)
LEMMA StateInvNext == Shape /\ GuardInv /\ StateInv /\ [Next]_vars => StateInv'
  <1> SUFFICES ASSUME Shape, GuardInv, StateInv, [Next]_vars
               PROVE  StateInv'
    OBVIOUS
  <1> USE DEF Shape
  <1>0. /\ TypeOK /\ CallsAreTyped /\ CallsAreLive
        /\ \A t \in Threads : HoldsState(t) => call[t].state \in States
        /\ \A t \in Threads : pc[t] # "idle" => call[t].root \in Roots
    BY DEF StateInv, GuardInv, CallsAreLive
  <1>1. ASSUME NEW t \in Threads, Begin(t)
        PROVE  StateInv'
    <2>1. /\ pc[t] = "idle" /\ pc' = [pc EXCEPT ![t] = "admit_root"]
          /\ UNCHANGED <<live, inUse, phase, exported, outputs, result>>
          /\ DOMAIN call' = Threads
          /\ \A u \in Threads \ {t} : call'[u] = call[u]
          /\ TypedOp(call'[t]) \/ call'[t].op \in StatelessOps
      BY <1>1 DEF Begin, TypedOp
    <2>2. QED
      BY <1>0, <2>1, StateUntouched DEF TypeOK, Labels
  <1>2. ASSUME NEW t \in Threads, AdmitRoot(t)
        PROVE  StateInv'
    <2>1. /\ pc[t] = "admit_root"
          /\ UNCHANGED <<live, phase, exported, outputs>>
          /\ inUse' \subseteq inUse \cup {call[t].root}
          /\ DOMAIN call' = Threads /\ result' \in [Threads -> Results]
          /\ \A u \in Threads \ {t} : call'[u] = call[u] /\ result'[u] = result[u]
      BY <1>0, <1>2 DEF AdmitRoot, Return, TypeOK, Results
    <2>2. inUse' \subseteq Handles
      BY <1>0, <2>1 DEF TypeOK, Handles
    <2>3. CASE pc' = [pc EXCEPT ![t] = "idle"]
      BY <1>0, <2>1, <2>2, <2>3, StateUntouched DEF TypeOK, Labels
    <2>4. CASE pc' = [pc EXCEPT ![t] = "stateless"]
      BY <1>0, <2>1, <2>2, <2>4, StateUntouched DEF TypeOK, Labels
    <2>5. CASE /\ pc' = [pc EXCEPT ![t] = "admit_state"]
               /\ call[t].op \notin StatelessOps /\ UNCHANGED call
      <3>1. TypedOp(call'[t])
        BY <1>0, <2>1, <2>5 DEF CallsAreTyped
      <3>2. QED
        BY <1>0, <2>1, <2>2, <2>5, <3>1, StateUntouched DEF TypeOK, Labels
    <2>6. QED
      BY <1>2, <2>3, <2>4, <2>5 DEF AdmitRoot, Return
  <1>3. ASSUME NEW t \in Threads, NEW code \in Results, pc[t] = "admit_state", Refuse(t, code)
        PROVE  StateInv'
    BY <1>0, <1>3, StateUntouched DEF Refuse, TypeOK, Labels
  <1>4. ASSUME NEW t \in Threads, AdmitState(t)
        PROVE  StateInv'
    <2>1. CASE Refuse(t, "invalid_handle") \/ Refuse(t, "busy")
      BY <1>3, <1>4, <2>1 DEF AdmitState, Results
    <2>2. CASE Admit(t) /\ call[t].state # Null
      <3>1. pc[t] = "admit_state" /\ call[t].state \in States /\ TypedOp(call[t])
        BY <1>0, <1>4, <2>2 DEF AdmitState, CallsAreLive, CallsAreTyped
      <3>2. inUse' \subseteq Handles
        BY <1>0, <2>2, <3>1 DEF Admit, TypeOK, Handles
      <3>3. QED
        BY <1>0, <2>2, <3>1, <3>2, StateUntouched DEF Admit, TypeOK, Labels
    <2>3. QED
      BY <1>4, <2>1, <2>2 DEF AdmitState
  <1>5. ASSUME NEW t \in Threads, CorruptedRecord(t)
        PROVE  StateInv'
    BY <1>3, <1>5 DEF CorruptedRecord, Results
  <1>6. ASSUME NEW t \in Threads, Stateless(t)
        PROVE  StateInv'
    <2>1. result' \in [Threads -> Results] /\ \A u \in Threads \ {t} : result'[u] = result[u]
      BY <1>0, <1>6 DEF Stateless, TypeOK, Results
    <2>2. QED
      BY <1>0, <1>6, <2>1, StateUntouched DEF Stateless, TypeOK, Labels
  <1>7. ASSUME NEW t \in Threads, RunSucceeds(t)
        PROVE  StateInv'
    <2> DEFINE op == call[t].op
               s  == call[t].state
    <2>1. /\ HoldsState(t) /\ op \in Ops /\ s \in States /\ s \in StatesOf(op)
          /\ phase[s] = op.from /\ (op = AgentFinish => s \in exported)
      BY <1>0, <1>7 DEF RunSucceeds, HoldsState, CallsAreTyped, TypedOp
    <2>2. /\ s \in AgentStates => op.to \in AgentPhases
          /\ s \in RelayStates => op.to \in RelayPhases
      BY <2>1, OpKinds, KindsAssumption, NullAssumption DEF StatesOf, Handles, States
    <2>3. \A u \in Threads : ~Ahead(u, s)
      BY <1>7, <2>1, OneHolder DEF Ahead, HoldsState, RunSucceeds
    <2>4. outputs[s] = Received(s) /\ (s \in exported <=> phase[s] = "Ke3Generated")
      BY <2>1, <2>3 DEF StateInv, Settled
    <2>5. outputs[s] = Before(op)
      BY <2>1, <2>4 DEF Received, Before, Ops, AgentCreateRegistrationRequest,
         AgentFinalizeRegistration, AgentGenerateKe1, AgentGenerateKe3, AgentFinish,
         RelayGenerateKe2, RelayFinish
    <2>6. op # AgentFinish => s \notin exported
      BY <2>1, <2>4, OpOutputs
    <2>7. /\ exported' \subseteq AgentStates
          /\ \A r \in States \ {s} : r \in exported' <=> r \in exported
          /\ exported' \subseteq exported
      BY <1>0, <1>7 DEF RunSucceeds, TypeOK
    <2>8. QED
      BY <1>0, <1>7, <2>1, <2>2, <2>5, <2>6, <2>7, OwnStateTouched DEF RunSucceeds, TypeOK
  <1>8. ASSUME NEW t \in Threads, RunFails(t) \/ Panic(t)
        PROVE  StateInv'
    <2>1. /\ pc[t] \in {"run", "commit"} /\ pc' = [pc EXCEPT ![t] = "failed"]
          /\ UNCHANGED <<live, inUse, phase, exported, outputs, call>>
          /\ result' \in [Threads -> Results]
          /\ \A u \in Threads \ {t} : result'[u] = result[u]
      BY <1>0, <1>8 DEF RunFails, Panic, TypeOK, Results
    <2>2. TypedOp(call[t])
      BY <1>0, <2>1 DEF CallsAreTyped, HoldsState
    <2>3. QED
      BY <1>0, <2>1, <2>2, StateUntouched DEF TypeOK, Labels
  <1>9. ASSUME NEW t \in Threads, Commit(t)
        PROVE  StateInv'
    <2> DEFINE op == call[t].op
               s  == call[t].state
    <2>1. /\ HoldsState(t) /\ op \in Ops /\ s \in States /\ s \in StatesOf(op)
          /\ phase[s] = op.to /\ outputs[s] = Before(op)
          /\ op # AgentFinish => s \notin exported
      BY <1>0, <1>9 DEF Commit, HoldsState, CallsAreTyped, TypedOp, StateInv, OneOutputAhead
    <2>2. /\ s \in AgentStates => op.to \in AgentPhases
          /\ s \in RelayStates => op.to \in RelayPhases
      BY <2>1, OpKinds, KindsAssumption, NullAssumption DEF StatesOf, Handles, States
    <2>3. /\ outputs' \in [States -> Seq({o.name : o \in Ops})]
          /\ outputs'[s] = Append(Before(op), op.name)
          /\ \A r \in States \ {s} : outputs'[r] = outputs[r]
      BY <1>0, <1>9, <2>1 DEF Commit, TypeOK
    <2>4. phase' = [phase EXCEPT ![s] = op.to] /\ phase'[s] = op.to
      BY <1>0, <1>9, <2>1 DEF Commit, TypeOK
    <2>5. op = AgentGenerateKe3 => s \in AgentStates
      BY <2>1, NullAssumption DEF StatesOf, AgentGenerateKe3, Handles
    <2>6. /\ exported' \subseteq AgentStates
          /\ \A r \in States \ {s} : r \in exported' <=> r \in exported
          /\ s \in exported' <=> op = AgentGenerateKe3
      BY <1>0, <1>9, <2>1, <2>5, OpOutputs DEF Commit, TypeOK
    <2>7. outputs'[s] = Received(s)'
      <3>1. phase'[s] = op.to
        BY <2>4
      <3>2. /\ op.to = "RegistrationRequested" => outputs'[s] = <<"registration_request">>
            /\ op.to = "RegistrationFinalized" =>
                 outputs'[s] = <<"registration_request", "registration_record">>
            /\ op.to = "Ke1Generated" => outputs'[s] = <<"ke1">>
            /\ op.to = "Ke3Generated" => outputs'[s] = <<"ke1", "ke3">>
            /\ op.to = "Ke2Generated" => outputs'[s] = <<"ke2">>
            /\ op.to # "Created"
        BY <2>1, <2>3, OpOutputs, Zenon
      <3>3. call' = call
        BY <1>9 DEF Commit
      <3>4. QED
        BY <3>1, <3>2, <3>3 DEF Received
    <2>8. result' \in [Threads -> Results] /\ result'[t] = "ok"
          /\ \A u \in Threads \ {t} : result'[u] = result[u]
      BY <1>0, <1>9 DEF Commit, TypeOK, Results
    <2>9. s \in exported' <=> op.to = "Ke3Generated"
      BY <2>1, <2>6, OpOutputs
    <2>10. /\ UNCHANGED <<live, inUse, call>>
           /\ pc' = [pc EXCEPT ![t] = "release_state"]
      BY <1>9 DEF Commit
    <2>11. QED
      BY <2>1, <2>2, <2>3, <2>4, <2>6, <2>7, <2>8, <2>9, <2>10, OwnStateTouched
  <1>10. ASSUME NEW t \in Threads, Terminalize(t)
         PROVE  StateInv'
    <2> DEFINE s  == call[t].state
    <2>1. /\ HoldsState(t) /\ s \in States
          /\ pc' = [pc EXCEPT ![t] = "release_state"]
          /\ phase' = [phase EXCEPT ![s] = "Finished"] /\ phase'[s] = "Finished"
          /\ exported' = exported \ {s}
          /\ UNCHANGED <<live, inUse, outputs, call, result>>
      BY <1>0, <1>10 DEF Terminalize, HoldsState, TypeOK
    <2>2. outputs'[s] = Received(s)'
      BY <2>1 DEF Received
    <2>3. QED
      BY <1>0, <2>1, <2>2, OpKinds, OwnStateTouched DEF TypeOK
  <1>11. ASSUME NEW t \in Threads, ReleaseState(t)
         PROVE  StateInv'
    BY <1>0, <1>11, StateUntouched DEF ReleaseState, TypeOK, Labels
  <1>12. ASSUME NEW t \in Threads, ReleaseRoot(t)
         PROVE  StateInv'
    <2>1. /\ pc[t] = "release_root"
          /\ UNCHANGED <<live, phase, exported, outputs>>
          /\ inUse' \subseteq Handles
          /\ DOMAIN call' = Threads /\ result' \in [Threads -> Results]
          /\ \A u \in Threads \ {t} : call'[u] = call[u] /\ result'[u] = result[u]
      BY <1>0, <1>12 DEF ReleaseRoot, Return, TypeOK, Results
    <2>2. CASE pc' = [pc EXCEPT ![t] = "idle"]
      BY <1>0, <2>1, <2>2, StateUntouched DEF TypeOK, Labels
    <2>3. CASE pc' = [pc EXCEPT ![t] = "publish"]
      BY <1>0, <2>1, <2>3, StateUntouched DEF TypeOK, Labels
    <2>4. QED
      BY <1>12, <2>2, <2>3 DEF ReleaseRoot, Return
  <1>13. ASSUME NEW t \in Threads, Publish(t)
         PROVE  StateInv'
    <2>1. /\ pc[t] = "publish" /\ pc' = [pc EXCEPT ![t] = "idle"]
          /\ UNCHANGED <<inUse, phase, exported, outputs>>
          /\ live \subseteq live' /\ live' \subseteq Handles
          /\ DOMAIN call' = Threads /\ result' \in [Threads -> Results]
          /\ \A u \in Threads \ {t} : call'[u] = call[u] /\ result'[u] = result[u]
      BY <1>0, <1>13 DEF Publish, Return, TypeOK, Results, Handles, Roots
    <2>2. QED
      BY <1>0, <2>1, StateUntouched DEF TypeOK, Labels
  <1>14. ASSUME NEW t \in Threads, NEW handles, handles \subseteq Handles, Create(t, handles)
         PROVE  StateInv'
    <2>1. /\ UNCHANGED <<inUse, phase, exported, outputs, pc, call, result>>
          /\ live \subseteq live' /\ live' \subseteq Handles
      BY <1>0, <1>14 DEF Create, TypeOK
    <2>2. QED
      BY <2>1 DEF StateInv, TypeOK, CallsAreTyped, HoldsState, DestroyedAreFresh, Settled,
                  Ahead, Received, OneOutputAhead, Before, FailuresAreTerminal
  <1>15. ASSUME NEW t \in Threads, NEW h, TryDestroy(t, h)
         PROVE  StateInv'
    <2>1. /\ UNCHANGED <<inUse, pc, call, result>>
          /\ live' = live \ {h} /\ h \notin inUse
          /\ phase' = [s \in States |-> IF s = h THEN "Created" ELSE phase[s]]
          /\ outputs' = [s \in States |-> IF s = h THEN <<>> ELSE outputs[s]]
          /\ exported' = exported \ {h}
      BY <1>15 DEF TryDestroy, Forget
    <2>2. \A u \in Threads : HoldsState(u) => call[u].state \in States \ {h}
      BY <1>0, <2>1 DEF GuardInv, FlagsAreOwned, Guards
    <2>3. TypeOK'
      BY <1>0, <2>1, OpKinds DEF TypeOK, States
    <2>4. CallsAreTyped'
      BY <1>0, <2>1 DEF CallsAreTyped, HoldsState
    <2>5. DestroyedAreFresh'
      BY <2>1 DEF StateInv, DestroyedAreFresh
    <2>6. Settled'
      <3> SUFFICES ASSUME NEW s \in States, \A u \in Threads : ~Ahead(u, s)'
                   PROVE  /\ outputs'[s] = Received(s)'
                          /\ s \in exported' <=> phase'[s] = "Ke3Generated"
        BY DEF Settled
      <3>1. CASE s = h
        BY <2>1, <3>1 DEF Received
      <3>2. CASE s # h
        <4>1. \A u \in Threads : ~Ahead(u, s)
          BY <2>1 DEF Ahead
        <4>2. Received(s)' = Received(s)
          BY <2>1, <3>2 DEF Received
        <4>3. QED
          BY <2>1, <3>2, <4>1, <4>2 DEF StateInv, Settled
      <3>3. QED
        BY <3>1, <3>2
    <2>7. OneOutputAhead'
      BY <2>1, <2>2 DEF StateInv, OneOutputAhead, HoldsState, Before
    <2>8. FailuresAreTerminal'
      BY <2>1, <2>2 DEF StateInv, FailuresAreTerminal, HoldsState
    <2>9. QED
      BY <2>3, <2>4, <2>5, <2>6, <2>7, <2>8 DEF StateInv
  <1>16. ASSUME NEW t \in Threads, Creates(t) \/ Destroys(t)
         PROVE  StateInv'
    BY <1>14, <1>15, <1>16
    DEF Creates, AgentCreate, AgentStateCreate, RelayStateCreate,
        RelayKeypairGenerate, RelayCreateWithKeys, Destroys, AgentTryDestroy,
        AgentStateTryDestroy, RelayTryDestroy, RelayStateTryDestroy,
        RelayKeypairTryDestroy, Handles, Roots, States
  <1>17. CASE UNCHANGED vars
    BY <1>17 DEF vars, StateInv, TypeOK, CallsAreTyped, HoldsState, DestroyedAreFresh,
                 Settled, Ahead, Received, OneOutputAhead, Before, FailuresAreTerminal
  <1>18. QED
    BY <1>1, <1>2, <1>4, <1>5, <1>6, <1>7, <1>8, <1>9, <1>10, <1>11, <1>12, <1>13,
       <1>16, <1>17
    DEF Next, Step

(* The states keep the invariant in every behaviour.                       *)
LEMMA StatesAreSound == Spec => []StateInv
  <1>1. Init => StateInv
    <2> SUFFICES ASSUME Init PROVE StateInv
      OBVIOUS
    <2>1. TypeOK
      <3>1. outputs \in [States -> Seq({op.name : op \in Ops})]
        BY DEF Init
      <3>2. phase \in [States -> AgentPhases \cup RelayPhases]
        BY OpKinds DEF Init
      <3>3. QED
        BY <3>1, <3>2, OpKinds DEF Init, TypeOK, Labels, Results, States
    <2>2. \A t \in Threads : pc[t] = "idle"
      BY DEF Init
    <2>3. \A s \in States : phase[s] = "Created" /\ outputs[s] = <<>> /\ s \notin exported
      BY DEF Init
    <2>4. Settled
      BY <2>3 DEF Settled, Received
    <2>5. QED
      BY <2>1, <2>2, <2>3, <2>4 DEF StateInv, CallsAreTyped, HoldsState, DestroyedAreFresh,
                                    OneOutputAhead, FailuresAreTerminal
  <1>2. QED
    BY <1>1, ShapeInv, Guarded, StateInvNext, PTL DEF Spec

(* The tables of the library have the types the code gives them; no call   *)
(* brings an agent state into a phase of the relay, or the other way       *)
(* round.                                                                  *)
THEOREM FfiTypes == Spec => []TypeOK
  <1>1. StateInv => TypeOK
    BY DEF StateInv
  <1>2. QED
    BY <1>1, StatesAreSound, PTL

(* terminalize_agent and terminalize_relay are on every path of a failed   *)
(* call that had been admitted to its state: the state is over before the  *)
(* error is returned, whatever the other threads do.                       *)
THEOREM FailedStatesAreOver == Spec => []FailuresAreTerminal
  <1>1. StateInv => FailuresAreTerminal
    BY DEF StateInv
  <1>2. QED
    BY <1>1, StatesAreSound, PTL

(* A state that no call is using and its caller agree on how far they have *)
(* come: no panic between the crate's function and the copy of the output  *)
(* leaves a state ahead, and ke3_exported is set exactly while the keys    *)
(* may still be asked for.                                                 *)
THEOREM CallersKeepUp == Spec => []CommittedOrTerminal
  <1>1. GuardInv /\ StateInv => CommittedOrTerminal
    <2> SUFFICES ASSUME GuardInv, StateInv, NEW s \in live \cap States, s \notin inUse
                 PROVE  /\ outputs[s] = Received(s)
                        /\ s \in exported <=> phase[s] = "Ke3Generated"
      BY DEF CommittedOrTerminal
    <2>1. \A t \in Threads : ~Ahead(t, s)
      BY DEF GuardInv, FlagsAreOwned, Guards, HoldsState, Ahead
    <2>2. QED
      BY <2>1 DEF StateInv, Settled
  <1>2. QED
    BY <1>1, Guarded, StatesAreSound, PTL

-----------------------------------------------------------------------------
(* The refinement of OneShotSessions.                                      *)

(* The outputs of a call, after what the caller had, begin a protocol.     *)
LEMMA OutputsBeginProtocols ==
  ASSUME NEW op \in Ops
  PROVE  /\ op.name \in Promise!Outputs
         /\ \E p \in Promise!Protocols : Promise!IsPrefix(Append(Before(op), op.name), p)
  <1> USE DEF Promise!Protocols, Promise!Outputs, Promise!IsPrefix
  <1> DEFINE registration == <<"registration_request", "registration_record">>
             login == <<"ke1", "ke3", "agent_keys">>
             answer == <<"ke2", "relay_key">>
  <1>1. CASE op = AgentCreateRegistrationRequest
    <2>1. op.name = "registration_request" /\ Before(op) = <<>>
      BY <1>1 DEF AgentCreateRegistrationRequest, Before
    <2>2. Promise!IsPrefix(<<"registration_request">>, registration)
      OBVIOUS
    <2>3. QED
      BY <2>1, <2>2, AppendOutput
  <1>2. CASE op = AgentFinalizeRegistration
    <2>1. op.name = "registration_record" /\ Before(op) = <<"registration_request">>
      BY <1>2 DEF AgentFinalizeRegistration, Before
    <2>2. Promise!IsPrefix(registration, registration)
      OBVIOUS
    <2>3. QED
      BY <2>1, <2>2, AppendOutput
  <1>3. CASE op = AgentGenerateKe1
    <2>1. op.name = "ke1" /\ Before(op) = <<>>
      BY <1>3 DEF AgentGenerateKe1, Before
    <2>2. Promise!IsPrefix(<<"ke1">>, login)
      OBVIOUS
    <2>3. QED
      BY <2>1, <2>2, AppendOutput
  <1>4. CASE op = AgentGenerateKe3
    <2>1. op.name = "ke3" /\ Before(op) = <<"ke1">>
      BY <1>4 DEF AgentGenerateKe3, Before
    <2>2. Promise!IsPrefix(<<"ke1", "ke3">>, login)
      OBVIOUS
    <2>3. QED
      BY <2>1, <2>2, AppendOutput
  <1>5. CASE op = AgentFinish
    <2>1. op.name = "agent_keys" /\ Before(op) = <<"ke1", "ke3">>
      BY <1>5 DEF AgentFinish, Before
    <2>2. Promise!IsPrefix(login, login)
      OBVIOUS
    <2>3. QED
      BY <2>1, <2>2, AppendOutput
  <1>6. CASE op = RelayGenerateKe2
    <2>1. op.name = "ke2" /\ Before(op) = <<>>
      BY <1>6 DEF RelayGenerateKe2, Before
    <2>2. Promise!IsPrefix(<<"ke2">>, answer)
      OBVIOUS
    <2>3. QED
      BY <2>1, <2>2, AppendOutput
  <1>7. CASE op = RelayFinish
    <2>1. op.name = "relay_key" /\ Before(op) = <<"ke2">>
      BY <1>7 DEF RelayFinish, Before
    <2>2. Promise!IsPrefix(answer, answer)
      OBVIOUS
    <2>3. QED
      BY <2>1, <2>2, AppendOutput
  <1>8. QED
    BY <1>1, <1>2, <1>3, <1>4, <1>5, <1>6, <1>7 DEF Ops

(* A call about to copy an output to the caller of s.                      *)
Copying(t, s) == pc[t] = "commit" /\ call[t].state = s

(* Whether a state is broken off depends on its own part of the tables.    *)
LEMMA BrokenOffKept ==
  ASSUME NEW s \in States, s \in live' <=> s \in live,
         phase'[s] = phase[s], outputs'[s] = outputs[s],
         \A t \in Threads : Copying(t, s)' <=> Copying(t, s)
  PROVE  s \in BrokenOff' <=> s \in BrokenOff
  BY DEF BrokenOff, Copying

(* A step that shows the callers nothing and breaks off at most state s.   *)
LEMMA BreaksOffOne ==
  ASSUME NEW s \in live \cap States, live' \cap States = live \cap States,
         UNCHANGED outputs,
         \A r \in States \ {s} : r \in BrokenOff' <=> r \in BrokenOff,
         s \in BrokenOff => s \in BrokenOff'
  PROVE  [Promise!Next]_Promise!vars
  <1>1. BrokenOff \subseteq States /\ BrokenOff' \subseteq States
    BY DEF BrokenOff
  <1>2. CASE s \in BrokenOff' /\ s \notin BrokenOff
    <2>1. BrokenOff' = BrokenOff \cup {s}
      BY <1>1, <1>2
    <2>2. Promise!BreakOff(s)
      BY <1>2, <2>1 DEF Promise!BreakOff
    <2>3. QED
      BY <2>2 DEF Promise!Next
  <1>3. CASE ~(s \in BrokenOff' /\ s \notin BrokenOff)
    <2>1. BrokenOff' = BrokenOff
      BY <1>1, <1>3
    <2>2. QED
      BY <2>1 DEF Promise!vars
  <1>4. QED
    BY <1>2, <1>3

(* A step of thread t that neither starts nor ends the copying of an       *)
(* output and touches no state is no step of the sessions.                 *)
LEMMA NothingShown ==
  ASSUME NEW t \in Threads, pc[t] # "commit", pc'[t] # "commit",
         \A u \in Threads \ {t} : pc'[u] = pc[u] /\ call'[u] = call[u],
         UNCHANGED <<phase, outputs>>, live' \cap States = live \cap States
  PROVE  UNCHANGED Promise!vars
  <1>1. \A u \in Threads, s \in States : Copying(u, s)' <=> Copying(u, s)
    BY DEF Copying
  <1>2. \A s \in States : s \in BrokenOff' <=> s \in BrokenOff
    BY <1>1, BrokenOffKept
  <1>3. BrokenOff' = BrokenOff
    BY <1>2 DEF BrokenOff
  <1>4. QED
    BY <1>3 DEF Promise!vars

(* Every step is a step of the one-shot sessions, or shows them nothing.   *)
LEMMA StepsKeepThePromise ==
  Shape /\ GuardInv /\ StateInv /\ [Next]_vars => [Promise!Next]_Promise!vars
  <1> SUFFICES ASSUME Shape, GuardInv, StateInv, [Next]_vars
               PROVE  [Promise!Next]_Promise!vars
    OBVIOUS
  <1>0. /\ TypeOK /\ CallsAreTyped
        /\ \A t \in Threads : HoldsState(t) => call[t].state \in live \cap States
        /\ \A t, u \in Threads :
             HoldsState(t) /\ HoldsState(u) /\ call[t].state = call[u].state => t = u
    BY OneHolder DEF StateInv, GuardInv, CallsAreLive, NoUseAfterFree, Guards
  <1>1. ASSUME NEW t \in Threads,
               \/ Begin(t) \/ AdmitRoot(t) \/ AdmitState(t) \/ CorruptedRecord(t)
               \/ Stateless(t) \/ RunFails(t) \/ ReleaseState(t) \/ ReleaseRoot(t)
        PROVE  UNCHANGED Promise!vars
    <2>1. UNCHANGED <<live, phase, outputs>>
      BY <1>1 DEF Begin, AdmitRoot, Return, AdmitState, Refuse, Admit, CorruptedRecord,
                  Stateless, RunFails, ReleaseState, ReleaseRoot
    <2>2. /\ \A u \in Threads \ {t} : pc'[u] = pc[u] /\ call'[u] = call[u]
          /\ pc'[t] # "commit"
      BY <1>1 DEF Begin, AdmitRoot, Return, AdmitState, Refuse, Admit, CorruptedRecord,
                  Stateless, RunFails, ReleaseState, ReleaseRoot, Shape
    <2>3. pc[t] # "commit"
      BY <1>1 DEF Begin, AdmitRoot, AdmitState, CorruptedRecord,
                  Stateless, RunFails, ReleaseState, ReleaseRoot
    <2>4. QED
      BY <2>1, <2>2, <2>3, NothingShown
  <1>2. ASSUME NEW t \in Threads, Publish(t)
        PROVE  UNCHANGED Promise!vars
    <2>1. live' \cap States = live \cap States
      BY <1>2, KindsAssumption DEF Publish, Roots
    <2>2. QED
      BY <1>2, <2>1, NothingShown DEF Publish, Return, Shape
  <1>3. ASSUME NEW t \in Threads, RunSucceeds(t)
        PROVE  [Promise!Next]_Promise!vars
    <2> DEFINE s == call[t].state
    <2>1. /\ s \in live \cap States /\ phase[s] = call[t].op.from /\ call[t].op \in Ops
          /\ pc'[t] = "commit" /\ call'[t].state = s
          /\ UNCHANGED <<live, outputs, call>>
      BY <1>0, <1>3 DEF RunSucceeds, HoldsState, CallsAreTyped, TypedOp, Shape
    <2>2. phase[s] # "Finished"
      BY <2>1 DEF Ops, AgentCreateRegistrationRequest, AgentFinalizeRegistration,
                  AgentGenerateKe1, AgentGenerateKe3, AgentFinish, RelayGenerateKe2,
                  RelayFinish
    <2>3. s \notin BrokenOff
      BY <2>2 DEF BrokenOff
    <2>4. ASSUME NEW r \in States \ {s}
          PROVE  r \in BrokenOff' <=> r \in BrokenOff
      <3>1. \A u \in Threads : Copying(u, r)' <=> Copying(u, r)
        BY <1>3 DEF RunSucceeds, Copying, Shape
      <3>2. phase'[r] = phase[r]
        BY <1>0, <1>3 DEF RunSucceeds, TypeOK
      <3>3. QED
        BY <2>1, <3>1, <3>2, BrokenOffKept
    <2>5. QED
      BY <2>1, <2>3, <2>4, BreaksOffOne
  <1>4. ASSUME NEW t \in Threads, Panic(t)
        PROVE  [Promise!Next]_Promise!vars
    <2> DEFINE s == call[t].state
    <2>1. /\ s \in live \cap States
          /\ pc[t] \in {"run", "commit"} /\ pc' = [pc EXCEPT ![t] = "failed"]
          /\ UNCHANGED <<live, phase, outputs, call>>
      BY <1>0, <1>4 DEF Panic, HoldsState
    <2>2. ASSUME NEW r \in States \ {s}
          PROVE  r \in BrokenOff' <=> r \in BrokenOff
      <3>1. \A u \in Threads : Copying(u, r)' <=> Copying(u, r)
        BY <2>1 DEF Copying, Shape
      <3>2. QED
        BY <2>1, <3>1, BrokenOffKept
    <2>3. s \in BrokenOff => s \in BrokenOff'
      BY <2>1 DEF BrokenOff, Shape
    <2>4. QED
      BY <2>1, <2>2, <2>3, BreaksOffOne
  <1>5. ASSUME NEW t \in Threads, Commit(t)
        PROVE  Promise!Next
    <2> DEFINE op == call[t].op
               s  == call[t].state
    <2>1. /\ s \in live \cap States /\ op \in Ops
          /\ pc[t] = "commit" /\ pc' = [pc EXCEPT ![t] = "release_state"]
          /\ UNCHANGED <<live, phase, call>>
          /\ outputs' = [outputs EXCEPT ![s] = Append(@, op.name)]
          /\ outputs[s] = Before(op) /\ phase[s] = op.to
      BY <1>0, <1>5 DEF Commit, HoldsState, CallsAreTyped, TypedOp, StateInv, OneOutputAhead
    <2>2. outputs'[s] = Append(Before(op), op.name)
      BY <1>0, <2>1 DEF TypeOK
    <2>3. s \notin BrokenOff
      BY <2>1 DEF BrokenOff
    <2>4. s \notin BrokenOff'
      <3>1. CASE op = AgentFinish
        <4>1. op.name = "agent_keys" /\ Before(op) = <<"ke1", "ke3">>
          BY <3>1 DEF AgentFinish, Before
        <4>2. outputs'[s] = <<"ke1", "ke3", "agent_keys">>
          <5>1. outputs'[s] = Append(<<"ke1", "ke3">>, "agent_keys")
            BY <2>2, <4>1, Zenon
          <5>2. QED
            BY <5>1, AppendOutput, Zenon
        <4>3. 3 \in DOMAIN outputs'[s] /\ outputs'[s][3] = "agent_keys"
          BY <4>2
        <4>4. QED
          BY <4>3 DEF BrokenOff
      <3>2. CASE op = RelayFinish
        <4>1. op.name = "relay_key" /\ Before(op) = <<"ke2">>
          BY <3>2 DEF RelayFinish, Before
        <4>2. outputs'[s] = <<"ke2", "relay_key">>
          BY <2>2, <4>1, AppendOutput
        <4>3. 2 \in DOMAIN outputs'[s] /\ outputs'[s][2] = "relay_key"
          BY <4>2
        <4>4. QED
          BY <4>3 DEF BrokenOff
      <3>3. CASE op \notin {AgentFinish, RelayFinish}
        <4>1. phase'[s] # "Finished"
          BY <2>1, <3>3, OpOutputs
        <4>2. QED
          BY <4>1 DEF BrokenOff
      <3>4. QED
        BY <3>1, <3>2, <3>3
    <2>5. ASSUME NEW r \in States \ {s}
          PROVE  r \in BrokenOff' <=> r \in BrokenOff
      <3>1. \A u \in Threads : Copying(u, r)' <=> Copying(u, r)
        BY <2>1 DEF Copying, Shape
      <3>2. QED
        BY <1>0, <2>1, <3>1, BrokenOffKept DEF TypeOK
    <2>6. BrokenOff' = BrokenOff
      BY <2>3, <2>4, <2>5 DEF BrokenOff
    <2>7. /\ op.name \in Promise!Outputs
          /\ \E p \in Promise!Protocols : Promise!IsPrefix(Append(outputs[s], op.name), p)
      BY <2>1, OutputsBeginProtocols
    <2>8. Promise!Deliver(s)
      BY <2>1, <2>3, <2>6, <2>7 DEF Promise!Deliver
    <2>9. QED
      BY <2>1, <2>8 DEF Promise!Next
  <1>6. ASSUME NEW t \in Threads, Terminalize(t)
        PROVE  [Promise!Next]_Promise!vars
    <2> DEFINE s == call[t].state
    <2>1. /\ s \in live \cap States
          /\ pc[t] = "failed" /\ pc' = [pc EXCEPT ![t] = "release_state"]
          /\ phase'[s] = "Finished" /\ \A r \in States \ {s} : phase'[r] = phase[r]
          /\ UNCHANGED <<live, outputs, call>>
      BY <1>0, <1>6 DEF Terminalize, HoldsState, TypeOK
    <2>2. \A u \in Threads, r \in States : Copying(u, r)' <=> Copying(u, r)
      BY <2>1 DEF Copying, Shape
    <2>3. \A r \in States \ {s} : r \in BrokenOff' <=> r \in BrokenOff
      BY <2>1, <2>2, BrokenOffKept
    <2>4. s \in BrokenOff => s \in BrokenOff'
      BY <2>1, <2>2 DEF BrokenOff, Copying
    <2>5. QED
      BY <2>1, <2>3, <2>4, BreaksOffOne
  <1>7. ASSUME NEW t \in Threads, NEW handles, Create(t, handles)
        PROVE  [Promise!Next]_Promise!vars
    <2>1. PICK h \in handles \ live : live' = live \cup {h}
      BY <1>7 DEF Create
    <2>2. UNCHANGED <<phase, outputs, pc, call>>
      BY <1>7 DEF Create
    <2>3. \A u \in Threads, s \in States : Copying(u, s)' <=> Copying(u, s)
      BY <2>2 DEF Copying
    <2>4. h \notin BrokenOff' /\ h \notin BrokenOff
      BY <2>1, <2>2 DEF BrokenOff, StateInv, DestroyedAreFresh
    <2>5. \A s \in States \ {h} : s \in BrokenOff' <=> s \in BrokenOff
      BY <2>1, <2>2, <2>3, BrokenOffKept
    <2>6. BrokenOff' = BrokenOff
      BY <2>4, <2>5 DEF BrokenOff
    <2>7. CASE h \in States
      <3>1. Promise!Open(h)
        BY <2>1, <2>2, <2>6, <2>7 DEF Promise!Open
      <3>2. QED
        BY <2>7, <3>1 DEF Promise!Next
    <2>8. CASE h \notin States
      <3>1. live' \cap States = live \cap States
        BY <2>1, <2>8
      <3>2. QED
        BY <2>2, <2>6, <3>1 DEF Promise!vars
    <2>9. QED
      BY <2>7, <2>8
  <1>8. ASSUME NEW t \in Threads, NEW h, TryDestroy(t, h)
        PROVE  [Promise!Next]_Promise!vars
    <2>1. /\ live' = live \ {h} /\ h \in live
          /\ outputs' = [s \in States |-> IF s = h THEN <<>> ELSE outputs[s]]
          /\ \A s \in States \ {h} : phase'[s] = phase[s] /\ outputs'[s] = outputs[s]
          /\ UNCHANGED <<pc, call>>
      BY <1>8 DEF TryDestroy, Forget
    <2>2. \A u \in Threads, s \in States : Copying(u, s)' <=> Copying(u, s)
      BY <2>1 DEF Copying
    <2>3. \A s \in States \ {h} : s \in BrokenOff' <=> s \in BrokenOff
      BY <2>1, <2>2, BrokenOffKept
    <2>4. BrokenOff' = BrokenOff \ {h}
      BY <2>1, <2>3 DEF BrokenOff
    <2>5. CASE h \in States
      <3>1. outputs' = [outputs EXCEPT ![h] = <<>>]
        BY <1>0, <2>1, <2>5 DEF TypeOK
      <3>2. Promise!Close(h)
        BY <2>1, <2>4, <2>5, <3>1 DEF Promise!Close
      <3>3. QED
        BY <2>5, <3>2 DEF Promise!Next
    <2>6. CASE h \notin States
      <3>1. outputs' = outputs
        BY <1>0, <2>1, <2>6 DEF TypeOK
      <3>2. BrokenOff' = BrokenOff
        BY <2>4, <2>6 DEF BrokenOff
      <3>3. live' \cap States = live \cap States
        BY <2>1, <2>6
      <3>4. QED
        BY <3>1, <3>2, <3>3 DEF Promise!vars
    <2>7. QED
      BY <2>5, <2>6
  <1>9. ASSUME NEW t \in Threads, Creates(t) \/ Destroys(t)
        PROVE  [Promise!Next]_Promise!vars
    BY <1>7, <1>8, <1>9
    DEF Creates, AgentCreate, AgentStateCreate, RelayStateCreate,
        RelayKeypairGenerate, RelayCreateWithKeys, Destroys, AgentTryDestroy,
        AgentStateTryDestroy, RelayTryDestroy, RelayStateTryDestroy,
        RelayKeypairTryDestroy
  <1>10. CASE UNCHANGED vars
    BY <1>10 DEF vars, Promise!vars, BrokenOff
  <1>11. QED
    BY <1>1, <1>2, <1>3, <1>4, <1>5, <1>6, <1>9, <1>10 DEF Next, Step

(* However the calls of several threads on a state interleave, fail or     *)
(* panic, what its owner is given is a one-shot session: the outputs of    *)
(* one protocol in order, none twice, none after a failure.  RunSucceeds   *)
(* and Commit together deliver one output; Panic and Terminalize break the *)
(* session off.                                                            *)
THEOREM HandlesAreOneShotSessions == Spec => ImplementsOneShotSessions
  <1>1. Init => Promise!Init
    BY DEF Init, Promise!Init, BrokenOff
  <1>2. QED
    BY <1>1, ShapeInv, Guarded, StatesAreSound, StepsKeepThePromise, PTL
    DEF Spec, ImplementsOneShotSessions, Promise!Spec
=============================================================================
