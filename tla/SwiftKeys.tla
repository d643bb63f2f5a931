------------------------------ MODULE SwiftKeys ------------------------------
(***************************************************************************)
(* Where the session key and the export key are in memory while the Swift  *)
(* wrapper handles them: the local variables of OpaqueAgent.finish, the    *)
(* AuthenticationKeys object it returns, and the closures that are given a *)
(* key.                                                                    *)
(*                                                                         *)
(* A Data value refers to a buffer that it may share with other values; a  *)
(* value that is written to while it shares its buffer gets a copy of its  *)
(* own first.  Freed memory keeps what was last written to it.             *)
(*                                                                         *)
(* It is assumed that closures keep to the scope they are documented to    *)
(* have: the Data a closure is given does not leave it.  A closure that    *)
(* returned it would keep the key in a buffer that dispose cannot reach.   *)
(***************************************************************************)
EXTENDS Sequences, FiniteSets, Naturals

CONSTANTS
  Threads,   \* threads of the application
  Keys,      \* AuthenticationKeys objects
  Buffers,   \* heap blocks that Data may use
  Nothing    \* no buffer, no object, the owner of a free lock

ASSUME NothingAssumption == Nothing \notin Threads \cup Keys \cup Buffers

(* A call of finish needs two buffers and its object two more.             *)
ASSUME BuffersAssumption ==
  IsFiniteSet(Buffers) /\ IsFiniteSet(Keys) /\ Cardinality(Buffers) >= 4 * Cardinality(Keys)

Names == <<"session", "export">>
Name  == {"session", "export"}

(* The Data values there are.                                              *)
Local(t, n)  == <<"local", t, n>>
Stored(k, n) == <<"stored", k, n>>
Param(k)     == <<"param", k>>
Values == {Local(t, n) : t \in Threads, n \in Name} \cup
          {Stored(k, n) : k \in Keys, n \in Name} \cup {Param(k) : k \in Keys}

VARIABLES
  memory,    \* what each buffer contains
  buffer,    \* the buffer of each value
  at,        \* where each thread is
  todo,      \* the keys its present loop has still to treat
  target,    \* the object it is working on
  existing,  \* objects that finish has returned and that are referenced
  disposed,  \* objects that were disposed of
  owner      \* the thread that has the lock of each object

vars == <<memory, buffer, at, todo, target, existing, disposed, owner>>

Init ==
  /\ memory = [b \in Buffers |-> "zeros"]
  /\ buffer = [v \in Values |-> Nothing]
  /\ at = [t \in Threads |-> "outside"]
  /\ todo = [t \in Threads |-> <<>>]
  /\ target = [t \in Threads |-> Nothing]
  /\ existing = {} /\ disposed = {}
  /\ owner = [k \in Keys |-> Nothing]

-----------------------------------------------------------------------------
(* Data.                                                                   *)

Sharing(b) == {v \in Values : buffer[v] = b}
Unused     == {b \in Buffers : Sharing(b) = {}}
Fresh      == CHOOSE b \in Unused : TRUE

\* Mutant: the bytes are written in place, whoever shares them.
WithMutableBytes_InPlace(v, content) ==
  /\ memory' = [memory EXCEPT ![buffer[v]] = content]
  /\ UNCHANGED buffer

(* withUnsafeMutableBytes on v, whose closure leaves content behind.       *)
WithMutableBytes(v, content) ==
  LET b == IF Sharing(buffer[v]) = {v} THEN buffer[v] ELSE Fresh IN
  /\ memory' = [memory EXCEPT ![b] = content]
  /\ buffer' = [buffer EXCEPT ![v] = b]

Goto(t, place, names) ==
  /\ at' = [at EXCEPT ![t] = place]
  /\ todo' = [todo EXCEPT ![t] = names]

(* One round of a loop over the two keys, then on to the next place.       *)
Round(t, next, names) ==
  IF Len(todo[t]) > 1 THEN Goto(t, at[t], Tail(todo[t])) ELSE Goto(t, next, names)

-----------------------------------------------------------------------------
(* OpaqueAgent.finish.                                                     *)

(* Two zeroed buffers for the output of opaque_agent_finish.               *)
Finish(t) ==
  /\ at[t] = "outside"
  /\ \E k \in Keys \ existing :
       /\ \A u \in Threads : target[u] # k
       /\ target' = [target EXCEPT ![t] = k]
  /\ LET one == Fresh
         two == CHOOSE b \in Unused \ {one} : TRUE IN
     /\ buffer' = [buffer EXCEPT ![Local(t, "session")] = one, ![Local(t, "export")] = two]
     /\ memory' = [memory EXCEPT ![one] = "zeros", ![two] = "zeros"]
  /\ Goto(t, "call", <<>>)
  /\ UNCHANGED <<existing, disposed, owner>>

(* The C call writes both keys, or returns an error and writes nothing.    *)
FinishCall(t) ==
  /\ at[t] = "call"
  /\ \/ /\ memory' = [memory EXCEPT ![buffer[Local(t, "session")]] = "key",
                                    ![buffer[Local(t, "export")]] = "key"]
        /\ Goto(t, "share", Names)
     \/ /\ UNCHANGED memory
        /\ Goto(t, "zero", Names)
  /\ UNCHANGED <<buffer, target, existing, disposed, owner>>

(* AuthenticationKeys.init: the properties share the buffers of the local  *)
(* variables ...                                                           *)
Share(t) ==
  LET n == Head(todo[t]) IN
  /\ at[t] = "share"
  /\ buffer' = [buffer EXCEPT ![Stored(target[t], n)] = buffer[Local(t, n)]]
  /\ Round(t, "lock_memory", Names)
  /\ UNCHANGED <<memory, target, existing, disposed, owner>>

(* ... until mlock is given a mutable pointer, which unshares them.        *)
LockMemory(t) ==
  LET v == Stored(target[t], Head(todo[t])) IN
  /\ at[t] = "lock_memory"
  /\ WithMutableBytes(v, memory[buffer[v]])
  /\ Round(t, "zero", Names)
  /\ UNCHANGED <<target, existing, disposed, owner>>

\* Mutant: the local copies are dropped as they are.
ZeroLocal_Forgotten(t) ==
  /\ at[t] = "zero"
  /\ Round(t, "return", <<>>)
  /\ UNCHANGED <<memory, buffer, target, existing, disposed, owner>>

(* The deferred secureZeroData, after success and after an error.          *)
ZeroLocal(t) ==
  /\ at[t] = "zero"
  /\ WithMutableBytes(Local(t, Head(todo[t])), "zeros")
  /\ Round(t, "return", <<>>)
  /\ UNCHANGED <<target, existing, disposed, owner>>

FinishReturn(t) ==
  /\ at[t] = "return"
  /\ existing' = IF buffer[Stored(target[t], "session")] = Nothing
                 THEN existing ELSE existing \cup {target[t]}
  /\ buffer' = [buffer EXCEPT ![Local(t, "session")] = Nothing,
                              ![Local(t, "export")] = Nothing]
  /\ target' = [target EXCEPT ![t] = Nothing]
  /\ Goto(t, "outside", <<>>)
  /\ UNCHANGED <<memory, disposed, owner>>

-----------------------------------------------------------------------------
(* AuthenticationKeys.                                                     *)

(* withSessionKey, withExportKey: the closure gets a value that shares the *)
(* buffer, under the lock.                                                 *)
WithKey(t) ==
  \E k \in existing \ disposed, n \in Name :
    /\ at[t] = "outside" /\ owner[k] = Nothing
    /\ owner' = [owner EXCEPT ![k] = t]
    /\ buffer' = [buffer EXCEPT ![Param(k)] = buffer[Stored(k, n)]]
    /\ UNCHANGED <<memory, at, todo, target, existing, disposed>>

(* A closure returns or throws, and its parameter goes.  Closures inside   *)
(* one another may end in any order here, which SwiftAgent is exact about. *)
LeaveClosure(t) ==
  \E k \in Keys :
    /\ at[t] = "outside" /\ owner[k] = t
    /\ buffer[Param(k)] # Nothing
    /\ buffer' = [buffer EXCEPT ![Param(k)] = Nothing]
    /\ owner' = [owner EXCEPT ![k] = Nothing]
    /\ UNCHANGED <<memory, at, todo, target, existing, disposed>>

(* dispose, also called by deinit; a second call does nothing.             *)
Dispose(t) ==
  \E k \in existing \ disposed :
    /\ at[t] = "outside" /\ owner[k] = Nothing
    /\ owner' = [owner EXCEPT ![k] = t]
    /\ disposed' = disposed \cup {k}
    /\ target' = [target EXCEPT ![t] = k]
    /\ Goto(t, "wipe", Names)
    /\ UNCHANGED <<memory, buffer, existing>>

Wipe(t) ==
  /\ at[t] = "wipe"
  /\ WithMutableBytes(Stored(target[t], Head(todo[t])), "zeros")
  /\ Round(t, "clear", <<>>)
  /\ UNCHANGED <<target, existing, disposed, owner>>

(* The properties become empty values, and the lock is given back.         *)
Clear(t) ==
  LET k == target[t] IN
  /\ at[t] = "clear"
  /\ buffer' = [buffer EXCEPT ![Stored(k, "session")] = Nothing,
                              ![Stored(k, "export")] = Nothing]
  /\ owner' = [owner EXCEPT ![k] = IF @ = t THEN Nothing ELSE @]
  /\ target' = [target EXCEPT ![t] = Nothing]
  /\ Goto(t, "outside", <<>>)
  /\ UNCHANGED <<memory, existing, disposed>>

(* The last reference goes; deinit has disposed of the object.             *)
Release(t) ==
  \E k \in existing \cap disposed :
    /\ at[t] = "outside" /\ owner[k] = Nothing /\ \A u \in Threads : target[u] # k
    /\ existing' = existing \ {k}
    /\ disposed' = disposed \ {k}
    /\ UNCHANGED <<memory, buffer, at, todo, target, owner>>

Next ==
  \E t \in Threads :
    \/ Finish(t) \/ FinishCall(t) \/ Share(t) \/ LockMemory(t) \/ ZeroLocal(t)
    \/ FinishReturn(t)
    \/ WithKey(t) \/ LeaveClosure(t)
    \/ Dispose(t) \/ Wipe(t) \/ Clear(t) \/ Release(t)

Spec == Init /\ [][Next]_vars

-----------------------------------------------------------------------------
(* Properties.                                                             *)

(* No key is left behind: a buffer that nothing refers to any more holds   *)
(* no key, whichever copies were made on the way and wherever finish       *)
(* failed.                                                                 *)
NoStrayKeys == \A b \in Unused : memory[b] = "zeros"

(* Zeroing the copies does not destroy the keys: an object that was        *)
(* returned holds both of them until it is disposed of, and a closure sees *)
(* the key as long as it runs.                                             *)
KeysSurviveFinish ==
  /\ \A k \in existing \ disposed, n \in Name :
       buffer[Stored(k, n)] # Nothing /\ memory[buffer[Stored(k, n)]] = "key"
  /\ \A k \in Keys : buffer[Param(k)] # Nothing => memory[buffer[Param(k)]] = "key"
=============================================================================
