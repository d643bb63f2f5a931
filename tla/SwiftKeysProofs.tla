--------------------------- MODULE SwiftKeysProofs ---------------------------
(***************************************************************************)
(* Theorems about SwiftKeys, for any number of threads, keys objects and   *)
(* buffers.                                                                *)
(*                                                                         *)
(* Whether a buffer holds a key when the last value that refers to it goes *)
(* depends on what each loop has already treated, and whether it is the    *)
(* last value depends on who may share with whom, and when.  KeysInv says  *)
(* both, place by place.                                                   *)
(***************************************************************************)
EXTENDS SwiftKeys, FiniteSetTheorems, TLAPS

Finishing == {"call", "share", "lock_memory", "zero", "return"}
Wiping    == {"wipe", "clear"}
Looping   == {"share", "lock_memory", "zero", "wipe"}

KeysTypes ==
  /\ memory \in [Buffers -> {"zeros", "key"}]
  /\ buffer \in [Values -> Buffers \cup {Nothing}]
  /\ at \in [Threads -> {"outside"} \cup Finishing \cup Wiping]
  /\ DOMAIN todo = Threads
  /\ \A t \in Threads : at[t] \in Looping => todo[t] \in {Names, <<"export">>}
  /\ target \in [Threads -> Keys \cup {Nothing}]
  /\ existing \subseteq Keys /\ disposed \subseteq existing
  /\ owner \in [Keys -> Threads \cup {Nothing}]

(* Threads work on objects of their own: on one that nobody has seen yet,  *)
(* or on one that they dispose of under its lock.                          *)
TargetsAreApart ==
  /\ \A t \in Threads : target[t] = Nothing <=> at[t] = "outside"
  /\ \A t, u \in Threads : t # u /\ target[t] # Nothing => target[t] # target[u]
  /\ \A t \in Threads : at[t] \in Finishing => target[t] \notin existing
  /\ \A t \in Threads : at[t] \in Wiping => target[t] \in disposed /\ owner[target[t]] = t

(* The objects that closures may be given keys of.                         *)
Usable == existing \ disposed

(* finish has its local variables, and a closure its parameter, from the   *)
(* object that is locked for it.                                           *)
ParametersAreLocked ==
  /\ \A t \in Threads, n \in Name : buffer[Local(t, n)] = Nothing <=> at[t] \notin Finishing
  /\ \A k \in Keys : buffer[Param(k)] # Nothing =>
       /\ k \in Usable /\ owner[k] # Nothing
       /\ \E n \in Name : buffer[Param(k)] = buffer[Stored(k, n)]

(* An object that nobody works on has both keys or none.                   *)
ObjectsAreWhole ==
  \A k \in Keys, n \in Name :
    /\ k \in Usable => /\ buffer[Stored(k, n)] # Nothing
                       /\ memory[buffer[Stored(k, n)]] = "key"
    /\ k \notin Usable /\ (\A t \in Threads : target[t] # k) => buffer[Stored(k, n)] = Nothing

(* The present loop of t has still to treat n.                             *)
Left(t, n) == n = "export" \/ todo[t] = Names

(* What each place of finish and dispose has established about key n.      *)
Progress(t, n) ==
  LET stored == buffer[Stored(target[t], n)]
      local  == buffer[Local(t, n)] IN
  /\ at[t] = "call" => stored = Nothing
  /\ at[t] = "share" => /\ memory[local] = "key"
                        /\ stored = IF Left(t, n) THEN Nothing ELSE local
  /\ at[t] = "lock_memory" => /\ memory[local] = "key"
                              /\ stored # Nothing /\ memory[stored] = "key"
                              /\ stored = local <=> Left(t, n)
  /\ at[t] \in {"zero", "return"} => /\ stored # local
                                     /\ stored # Nothing => memory[stored] = "key"
  /\ at[t] = "zero" /\ ~Left(t, n) => memory[local] = "zeros"
  /\ at[t] = "return" => memory[local] = "zeros"
  /\ at[t] \in Wiping => stored # Nothing
  /\ at[t] = "wipe" /\ ~Left(t, n) => memory[stored] = "zeros"
  /\ at[t] = "clear" => memory[stored] = "zeros"

LoopsProgress ==
  /\ \A t \in Threads, n \in Name : Progress(t, n)
  /\ \A t \in Threads : at[t] \in {"zero", "return"} =>
       (buffer[Stored(target[t], "session")] = Nothing
          <=> buffer[Stored(target[t], "export")] = Nothing)

(* Two values that may share a buffer: a local variable and the property   *)
(* that was initialized from it, a parameter and the property it is of.    *)
MayShare(v, w) ==
  \/ \E t \in Threads, n \in Name :
       at[t] \in {"share", "lock_memory"} /\ v = Local(t, n) /\ w = Stored(target[t], n)
  \/ \E k \in Usable, n \in Name :
       owner[k] # Nothing /\ v = Param(k) /\ w = Stored(k, n)

BuffersAreApart ==
  \A v, w \in Values :
    v # w /\ buffer[v] # Nothing /\ buffer[v] = buffer[w] => MayShare(v, w) \/ MayShare(w, v)

KeysInv ==
  /\ KeysTypes /\ TargetsAreApart /\ ParametersAreLocked /\ ObjectsAreWhole
  /\ LoopsProgress /\ BuffersAreApart /\ NoStrayKeys

-----------------------------------------------------------------------------
(* The values and the loops.                                               *)

(* Values are what their names say.                                        *)
LEMMA ValuesDiffer ==
  /\ \A t, u, n, m : Local(t, n) = Local(u, m) => t = u /\ n = m
  /\ \A k, l, n, m : Stored(k, n) = Stored(l, m) => k = l /\ n = m
  /\ \A k, l : Param(k) = Param(l) => k = l
  /\ \A t, k, n, m : Local(t, n) # Stored(k, m)
  /\ \A t, k, n : Local(t, n) # Param(k)
  /\ \A k, l, n : Stored(k, n) # Param(l)
  <1>1. /\ \A t, u, n, m : Local(t, n) = Local(u, m) => t = u /\ n = m
        /\ \A k, l, n, m : Stored(k, n) = Stored(l, m) => k = l /\ n = m
        /\ \A k, l : Param(k) = Param(l) => k = l
    BY DEF Local, Stored, Param
  <1>2. \A t, k, n, m : Local(t, n) # Stored(k, m)
    BY DEF Local, Stored
  <1>3. /\ \A t, k, n : Local(t, n) # Param(k)
        /\ \A k, l, n : Stored(k, n) # Param(l)
    BY DEF Local, Stored, Param
  <1>4. QED
    BY <1>1, <1>2, <1>3

(* These are all.                                                          *)
LEMMA ValuesAre ==
  /\ \A t \in Threads, n \in Name : Local(t, n) \in Values
  /\ \A k \in Keys, n \in Name : Stored(k, n) \in Values
  /\ \A k \in Keys : Param(k) \in Values
  /\ \A v \in Values : \/ \E t \in Threads, n \in Name : v = Local(t, n)
                       \/ \E k \in Keys, n \in Name : v = Stored(k, n)
                       \/ \E k \in Keys : v = Param(k)
  BY DEF Values

(* The loops treat the session key first, then the export key.             *)
LEMMA NamesAre ==
  /\ Names # <<"export">> /\ Len(Names) = 2 /\ Len(<<"export">>) = 1
  /\ Head(Names) = "session" /\ Tail(Names) = <<"export">>
  /\ Head(<<"export">>) = "export"
  BY DEF Names

(* A round of a loop.                                                      *)
LEMMA RoundIs ==
  ASSUME KeysTypes, NEW t \in Threads, at[t] \in Looping, NEW next, NEW names,
         Round(t, next, names)
  PROVE  /\ \/ /\ todo[t] = Names /\ Head(todo[t]) = "session"
               /\ at' = at /\ todo'[t] = <<"export">>
            \/ /\ todo[t] = <<"export">> /\ Head(todo[t]) = "export"
               /\ at' = [at EXCEPT ![t] = next] /\ todo'[t] = names
         /\ todo' = [todo EXCEPT ![t] = todo'[t]]
  <1>1. CASE todo[t] = Names
    <2>0. Len(todo[t]) > 1 /\ Tail(todo[t]) = <<"export">>
      BY <1>1, NamesAre
    <2>1. at' = [at EXCEPT ![t] = at[t]] /\ todo' = [todo EXCEPT ![t] = <<"export">>]
      BY <2>0, Zenon DEF Round, Goto
    <2>2. at' = at /\ todo'[t] = <<"export">>
      BY <2>1 DEF KeysTypes
    <2>3. QED
      BY <1>1, <2>1, <2>2, NamesAre
  <1>2. CASE todo[t] = <<"export">>
    <2>1. at' = [at EXCEPT ![t] = next] /\ todo' = [todo EXCEPT ![t] = names]
      BY <1>2, NamesAre DEF Round, Goto
    <2>2. todo'[t] = names
      BY <2>1 DEF KeysTypes
    <2>3. QED
      BY <1>2, <2>1, <2>2, NamesAre
  <1>3. QED
    BY <1>1, <1>2 DEF KeysTypes

-----------------------------------------------------------------------------
(* There are enough buffers.  A slot stands for a value that may need a    *)
(* buffer of its own: two properties of each object and two local          *)
(* variables of the thread that makes it.                                  *)

Slots     == Keys \X (Name \X {"stored", "local"})
Worker(k) == CHOOSE t \in Threads : target[t] = k

SlotBuffer(s) ==
  buffer[IF s[2][2] = "stored" THEN Stored(s[1], s[2][1]) ELSE Local(Worker(s[1]), s[2][1])]

(* Four slots for each object.                                             *)
LEMMA SlotsAreFour ==
  IsFiniteSet(Slots) /\ Cardinality(Slots) = 4 * Cardinality(Keys)
  <1>1. IsFiniteSet(Name) /\ Cardinality(Name) = 2
    <2>1. IsFiniteSet({"session"}) /\ Cardinality({"session"}) = 1
      BY FS_Singleton
    <2>2. /\ IsFiniteSet({"session"} \cup {"export"})
          /\ Cardinality({"session"} \cup {"export"}) = 2
      BY <2>1, FS_AddElement
    <2>3. Name = {"session"} \cup {"export"}
      BY DEF Name
    <2>4. QED
      BY <2>2, <2>3
  <1>2. IsFiniteSet({"stored", "local"}) /\ Cardinality({"stored", "local"}) = 2
    <2>1. IsFiniteSet({"stored"}) /\ Cardinality({"stored"}) = 1
      BY FS_Singleton
    <2>2. /\ IsFiniteSet({"stored"} \cup {"local"})
          /\ Cardinality({"stored"} \cup {"local"}) = 2
      BY <2>1, FS_AddElement
    <2>3. {"stored", "local"} = {"stored"} \cup {"local"}
      OBVIOUS
    <2>4. QED
      BY <2>2, <2>3
  <1>3. /\ IsFiniteSet(Name \X {"stored", "local"})
        /\ Cardinality(Name \X {"stored", "local"}) = 4
    BY <1>1, <1>2, FS_Product
  <1>4. IsFiniteSet(Keys) /\ Cardinality(Keys) \in Nat
    BY BuffersAssumption, FS_CardinalityType
  <1> DEFINE kinds == Name \X {"stored", "local"}
  <1>5. Slots = Keys \X kinds
    BY DEF Slots
  <1> HIDE DEF kinds
  <1>6. /\ IsFiniteSet(Keys \X kinds)
        /\ Cardinality(Keys \X kinds) = Cardinality(Keys) * Cardinality(kinds)
    BY <1>3, <1>4, FS_Product DEF kinds
  <1>7. Cardinality(kinds) = 4
    BY <1>3 DEF kinds
  <1>8. QED
    BY <1>4, <1>5, <1>6, <1>7

(* Slots that nobody needs leave as many buffers unused.                   *)
LEMMA SparedBuffers ==
  ASSUME NEW D, D \subseteq Slots,
         \A b \in Buffers \ Unused : \E s \in Slots \ D : SlotBuffer(s) = b
  PROVE  IsFiniteSet(Unused) /\ Cardinality(Unused) >= Cardinality(D)
  <1> DEFINE used == Buffers \ Unused
             f == [b \in used |-> CHOOSE s \in Slots \ D : SlotBuffer(s) = b]
  <1>1. \A b \in used : f[b] \in Slots \ D /\ SlotBuffer(f[b]) = b
    BY Zenon
  <1>2. f \in Injection(used, Slots \ D)
    <2>1. f \in [used -> Slots \ D]
      BY <1>1
    <2>2. \A b, c \in used : f[b] = f[c] => b = c
      BY <1>1
    <2> HIDE DEF f, used
    <2>3. QED
      BY <2>1, <2>2 DEF Injection, IsInjective
  <1>3. /\ IsFiniteSet(Slots \ D)
        /\ Cardinality(Slots \ D) = Cardinality(Slots) - Cardinality(D)
    <2>1. Slots \cap D = D
      OBVIOUS
    <2>2. IsFiniteSet(Slots)
      BY SlotsAreFour
    <2>3. QED
      BY <2>1, <2>2, FS_Difference
  <1>4. IsFiniteSet(used) /\ Cardinality(used) <= Cardinality(Slots \ D)
    <2> HIDE DEF f, used
    <2>1. QED
      BY <1>2, <1>3, FS_Injection
  <1>5. IsFiniteSet(Unused) /\ Cardinality(Unused) = Cardinality(Buffers) - Cardinality(used)
    <2>1. Unused = Buffers \ used /\ Buffers \cap used = used
      BY DEF Unused
    <2>2. IsFiniteSet(Buffers)
      BY BuffersAssumption
    <2> HIDE DEF used
    <2>3. QED
      BY <2>1, <2>2, FS_Difference
  <1>6. /\ Cardinality(used) \in Nat /\ Cardinality(Buffers) \in Nat
        /\ Cardinality(Keys) \in Nat /\ Cardinality(D) \in Nat
    <2>1. IsFiniteSet(D)
      BY SlotsAreFour, FS_Subset
    <2> HIDE DEF used
    <2>2. QED
      BY <1>4, <2>1, BuffersAssumption, FS_CardinalityType
  <1> HIDE DEF used
  <1>7. QED
    BY <1>3, <1>4, <1>5, <1>6, SlotsAreFour, BuffersAssumption

(* A buffer that is used is that of a property or of a local variable of   *)
(* the thread that makes an object.                                        *)
LEMMA UsedBuffers ==
  ASSUME KeysInv, NEW b \in Buffers \ Unused
  PROVE  \/ \E k \in Keys, n \in Name : buffer[Stored(k, n)] = b
         \/ \E t \in Threads, n \in Name :
              target[t] \in Keys /\ Worker(target[t]) = t /\ buffer[Local(t, n)] = b
  <1>1. PICK v \in Values : buffer[v] = b
    BY DEF Unused, Sharing
  <1>2. b # Nothing
    BY NothingAssumption
  <1>3. CASE \E k \in Keys : v = Param(k)
    BY <1>1, <1>2, <1>3 DEF KeysInv, ParametersAreLocked, Usable, KeysTypes
  <1>4. ASSUME NEW t \in Threads, NEW n \in Name, v = Local(t, n)
        PROVE  target[t] \in Keys /\ Worker(target[t]) = t
    <2>1. at[t] \in Finishing
      BY <1>1, <1>2, <1>4 DEF KeysInv, ParametersAreLocked
    <2>2. target[t] \in Keys
      BY <2>1 DEF KeysInv, TargetsAreApart, KeysTypes, Finishing
    <2>3. \A u \in Threads : target[u] = target[t] => u = t
      BY <2>2, NothingAssumption DEF KeysInv, TargetsAreApart
    <2>4. QED
      BY <2>2, <2>3 DEF Worker
  <1>5. QED
    BY <1>1, <1>3, <1>4, ValuesAre

(* An object that is about to be made spares the two buffers of finish.    *)
LEMMA TwoUnused ==
  ASSUME KeysInv, NEW k \in Keys \ existing, \A t \in Threads : target[t] # k
  PROVE  /\ Fresh \in Unused
         /\ \E b \in Unused \ {Fresh} : TRUE
  <1> DEFINE one == <<k, <<"session", "stored">>>>
             two == <<k, <<"export", "stored">>>>
             D   == {one} \cup {two}
  <1>1. one \in Slots /\ two \in Slots /\ one # two
    BY DEF Slots, Name
  <1>2. IsFiniteSet(D) /\ Cardinality(D) = 2
    <2>1. IsFiniteSet({one}) /\ Cardinality({one}) = 1
      BY FS_Singleton
    <2>2. two \notin {one}
      BY <1>1
    <2> HIDE DEF one, two
    <2>3. QED
      BY <2>1, <2>2, FS_AddElement
  <1>3. ASSUME NEW b \in Buffers \ Unused
        PROVE  \E s \in Slots \ D : SlotBuffer(s) = b
    <2>1. b # Nothing
      BY NothingAssumption
    <2>2. ASSUME NEW l \in Keys, NEW n \in Name, buffer[Stored(l, n)] = b
          PROVE  \E s \in Slots \ D : SlotBuffer(s) = b
      <3>1. k # l
        BY <2>1, <2>2 DEF KeysInv, ObjectsAreWhole, Usable
      <3>2. <<l, <<n, "stored">>>> \in Slots \ D
        BY <3>1 DEF Slots
      <3>3. SlotBuffer(<<l, <<n, "stored">>>>) = b
        BY <2>2 DEF SlotBuffer
      <3>4. QED
        BY <3>2, <3>3
    <2>3. ASSUME NEW t \in Threads, NEW n \in Name,
                 target[t] \in Keys, Worker(target[t]) = t, buffer[Local(t, n)] = b
          PROVE  \E s \in Slots \ D : SlotBuffer(s) = b
      <3>1. <<target[t], <<n, "local">>>> \in Slots \ D
        BY <2>3 DEF Slots
      <3>2. SlotBuffer(<<target[t], <<n, "local">>>>) = b
        BY <2>3 DEF SlotBuffer
      <3>3. QED
        BY <3>1, <3>2
    <2>4. QED
      BY <2>2, <2>3, UsedBuffers
  <1>4. IsFiniteSet(Unused) /\ Cardinality(Unused) >= 2
    <2>1. D \subseteq Slots
      BY <1>1
    <2> HIDE DEF D
    <2>2. IsFiniteSet(Unused) /\ Cardinality(Unused) >= Cardinality(D)
      BY <1>3, <2>1, SparedBuffers
    <2>3. QED
      BY <1>2, <2>2
  <1>5. Fresh \in Unused
    <2>1. Unused # {}
      BY <1>4, FS_EmptySet
    <2>2. QED
      BY <2>1 DEF Fresh
  <1>6. Cardinality(Unused \ {Fresh}) = Cardinality(Unused) - 1 /\ IsFiniteSet(Unused \ {Fresh})
    BY <1>4, <1>5, FS_RemoveElement
  <1>7. Unused \ {Fresh} # {}
    BY <1>4, <1>6, FS_EmptySet, FS_CardinalityType
  <1>8. QED
    BY <1>5, <1>7

(* A property that shares its buffer spares one for its copy.              *)
LEMMA OneUnused ==
  ASSUME KeysInv, NEW t \in Threads, NEW n \in Name, target[t] \in Keys, at[t] \in Finishing,
         buffer[Stored(target[t], n)] = buffer[Local(t, n)]
  PROVE  Fresh \in Unused
  <1> DEFINE one == <<target[t], <<n, "stored">>>>
             other == <<target[t], <<n, "local">>>>
             D == {one}
  <1>1. one \in Slots /\ other \in Slots \ D
    BY DEF Slots
  <1>2. IsFiniteSet(D) /\ Cardinality(D) = 1
    BY FS_Singleton
  <1>3. Worker(target[t]) = t
    <2>1. \A u \in Threads : target[u] = target[t] => u = t
      BY NothingAssumption DEF KeysInv, TargetsAreApart
    <2>2. QED
      BY <2>1 DEF Worker
  <1>4. ASSUME NEW b \in Buffers \ Unused
        PROVE  \E s \in Slots \ D : SlotBuffer(s) = b
    <2>1. ASSUME NEW l \in Keys, NEW m \in Name, buffer[Stored(l, m)] = b
          PROVE  \E s \in Slots \ D : SlotBuffer(s) = b
      <3>1. CASE l = target[t] /\ m = n
        <4>1. SlotBuffer(other) = b
          BY <1>3, <2>1, <3>1 DEF SlotBuffer
        <4>2. QED
          BY <1>1, <4>1
      <3>2. CASE ~(l = target[t] /\ m = n)
        <4>1. <<l, <<m, "stored">>>> \in Slots \ D
          BY <3>2 DEF Slots
        <4>2. SlotBuffer(<<l, <<m, "stored">>>>) = b
          BY <2>1 DEF SlotBuffer
        <4>3. QED
          BY <4>1, <4>2
      <3>3. QED
        BY <3>1, <3>2
    <2>2. ASSUME NEW u \in Threads, NEW m \in Name,
                 target[u] \in Keys, Worker(target[u]) = u, buffer[Local(u, m)] = b
          PROVE  \E s \in Slots \ D : SlotBuffer(s) = b
      <3>1. <<target[u], <<m, "local">>>> \in Slots \ D
        BY <2>2 DEF Slots
      <3>2. SlotBuffer(<<target[u], <<m, "local">>>>) = b
        BY <2>2 DEF SlotBuffer
      <3>3. QED
        BY <3>1, <3>2
    <2>3. QED
      BY <2>1, <2>2, UsedBuffers
  <1>5. IsFiniteSet(Unused) /\ Cardinality(Unused) >= 1
    <2>1. D \subseteq Slots
      BY <1>1
    <2> HIDE DEF D
    <2>2. IsFiniteSet(Unused) /\ Cardinality(Unused) >= Cardinality(D)
      BY <1>4, <2>1, SparedBuffers
    <2>3. QED
      BY <1>2, <2>2
  <1>6. Unused # {}
    BY <1>5, FS_EmptySet
  <1>7. QED
    BY <1>6 DEF Fresh

-----------------------------------------------------------------------------
(* A thread that works on an object touches only the values and buffers of *)
(* its own.                                                                *)

Mine(t, k)  == {Local(t, n) : n \in Name} \cup {Stored(k, n) : n \in Name}
Reach(t, k) == Unused \cup {b \in Buffers : \E v \in Mine(t, k) : buffer[v] = b}

Alone(t, k) ==
  /\ \A u \in Threads \ {t} : target[u] # k
  /\ target[t] \in {k, Nothing} /\ k \notin Usable

Works(t, k) ==
  /\ Alone(t, k)
  /\ target' = [target EXCEPT ![t] = k]
  /\ \A u \in Threads \ {t} : at'[u] = at[u] /\ todo'[u] = todo[u]
  /\ UNCHANGED <<existing, disposed, owner>>
  /\ \A v \in Values \ Mine(t, k) : buffer'[v] = buffer[v]
  /\ \A v \in Mine(t, k) : buffer'[v] \in Reach(t, k) \cup {Nothing}
  /\ \A b \in Buffers \ Reach(t, k) : memory'[b] = memory[b]

(* Values of t share only while finish hands its keys over.                *)
Distinct(t, k) ==
  /\ \A m, n \in Name : m # n =>
       /\ \/ buffer[Local(t, m)] = Nothing
          \/ buffer[Local(t, m)] \notin {buffer[Local(t, n)], buffer[Stored(k, n)]}
       /\ \/ buffer[Stored(k, m)] = Nothing
          \/ buffer[Stored(k, m)] \notin {buffer[Local(t, n)], buffer[Stored(k, n)]}
  /\ \A n \in Name : \/ buffer[Local(t, n)] = Nothing \/ at[t] \in {"share", "lock_memory"}
                     \/ buffer[Local(t, n)] # buffer[Stored(k, n)]

(* What KeysInv says of the object t works on.                             *)
OwnInv(t) ==
  /\ \A n \in Name : buffer[Local(t, n)] = Nothing <=> at[t] \notin Finishing
  /\ \A n \in Name : Progress(t, n)
  /\ at[t] \in {"zero", "return"} =>
       (buffer[Stored(target[t], "session")] = Nothing
          <=> buffer[Stored(target[t], "export")] = Nothing)
  /\ Distinct(t, target[t])

(* The values of others are out of its reach.                              *)
LEMMA OthersAreOutOfReach ==
  ASSUME KeysInv, NEW t \in Threads, NEW k \in Keys, Alone(t, k),
         NEW v \in Values \ Mine(t, k), buffer[v] # Nothing
  PROVE  buffer[v] \in Buffers \ Reach(t, k)
  <1>1. buffer[v] \in Buffers \ Unused
    BY DEF KeysInv, KeysTypes, Unused, Sharing
  <1>2. ASSUME NEW w \in Mine(t, k), buffer[w] = buffer[v] PROVE FALSE
    <2>1. w \in Values /\ w # v
      BY ValuesAre DEF Mine
    <2>2. MayShare(v, w) \/ MayShare(w, v)
      BY <1>2, <2>1 DEF KeysInv, BuffersAreApart
    <2>3. ~MayShare(v, w)
      BY ValuesDiffer DEF MayShare, Mine, Alone
    <2>4. ~MayShare(w, v)
      <3>1. target[t] # k => at[t] = "outside"
        BY DEF Alone, KeysInv, TargetsAreApart
      <3>2. QED
        BY <3>1, ValuesDiffer DEF MayShare, Mine, Alone
    <2>5. QED
      BY <2>2, <2>3, <2>4
  <1>3. QED
    BY <1>1, <1>2 DEF Reach

(* So what was true of others stays true.                                  *)
LEMMA WorkKeepsInv ==
  ASSUME KeysInv, NEW t \in Threads, NEW k \in Keys, Works(t, k),
         KeysTypes', TargetsAreApart', OwnInv(t)', NoStrayKeys'
  PROVE  KeysInv'
  <1>1. /\ Alone(t, k) /\ target'[t] = k /\ Usable' = Usable /\ owner' = owner
        /\ at'[t] # "outside"
        /\ \A u \in Threads \ {t} : target'[u] = target[u] /\ at'[u] = at[u] /\ todo'[u] = todo[u]
    <2>1. target'[t] = k /\ \A u \in Threads \ {t} : target'[u] = target[u]
      BY DEF Works, KeysInv, KeysTypes
    <2>2. at'[t] # "outside"
      BY <2>1, NothingAssumption DEF TargetsAreApart
    <2>3. QED
      BY <2>1, <2>2 DEF Works, Usable
  <1>2. \A v \in Values \ Mine(t, k) :
          /\ buffer'[v] = buffer[v]
          /\ buffer[v] # Nothing => /\ buffer[v] \in Buffers \ Reach(t, k)
                                   /\ memory'[buffer[v]] = memory[buffer[v]]
    BY <1>1, OthersAreOutOfReach DEF Works
  <1>3. /\ \A u \in Threads \ {t}, n \in Name : Local(u, n) \in Values \ Mine(t, k)
        /\ \A l \in Keys \ {k}, n \in Name : Stored(l, n) \in Values \ Mine(t, k)
        /\ \A l \in Keys : Param(l) \in Values \ Mine(t, k)
    BY ValuesAre, ValuesDiffer DEF Mine
  <1>4. ParametersAreLocked'
    <2>1. \A u \in Threads, n \in Name :
            buffer'[Local(u, n)] = Nothing <=> at'[u] \notin Finishing
      BY <1>1, <1>2, <1>3 DEF OwnInv, KeysInv, ParametersAreLocked
    <2>2. ASSUME NEW l \in Keys, buffer'[Param(l)] # Nothing
          PROVE  /\ l \in Usable' /\ owner'[l] # Nothing
                 /\ \E n \in Name : buffer'[Param(l)] = buffer'[Stored(l, n)]
      <3>1. buffer'[Param(l)] = buffer[Param(l)]
        BY <1>2, <1>3
      <3>2. l \in Usable /\ owner[l] # Nothing
        BY <2>2, <3>1 DEF KeysInv, ParametersAreLocked
      <3>3. PICK n \in Name : buffer[Param(l)] = buffer[Stored(l, n)]
        BY <2>2, <3>1 DEF KeysInv, ParametersAreLocked
      <3>4. l # k
        BY <1>1, <3>2 DEF Alone
      <3>5. QED
        BY <1>1, <1>2, <1>3, <3>1, <3>2, <3>3, <3>4
    <2>3. QED
      BY <2>1, <2>2 DEF ParametersAreLocked
  <1>5. ObjectsAreWhole'
    <2>1. ASSUME NEW l \in Keys, NEW n \in Name
          PROVE  /\ l \in Usable' => /\ buffer'[Stored(l, n)] # Nothing
                                     /\ memory'[buffer'[Stored(l, n)]] = "key"
                 /\ l \notin Usable' /\ (\A u \in Threads : target'[u] # l)
                      => buffer'[Stored(l, n)] = Nothing
      <3>1. CASE l = k
        BY <1>1, <3>1 DEF Alone
      <3>2. CASE l # k
        <4>1. Stored(l, n) \in Values \ Mine(t, k)
          BY <1>3, <3>2
        <4>2. (\A u \in Threads : target'[u] # l) => \A u \in Threads : target[u] # l
          BY <1>1, <3>2, NothingAssumption DEF Alone
        <4>3. QED
          BY <1>1, <1>2, <4>1, <4>2 DEF KeysInv, ObjectsAreWhole
      <3>3. QED
        BY <3>1, <3>2
    <2>2. QED
      BY <2>1 DEF ObjectsAreWhole
  <1>6. LoopsProgress'
    <2>1. ASSUME NEW u \in Threads \ {t}, NEW n \in Name
          PROVE  Progress(u, n)'
      <3>1. CASE target[u] = Nothing
        <4>1. at'[u] = "outside"
          BY <1>1, <3>1 DEF KeysInv, TargetsAreApart
        <4>2. QED
          BY <4>1 DEF Progress, Wiping
      <3>2. CASE target[u] # Nothing
        <4>1. target[u] \in Keys \ {k} /\ target'[u] = target[u]
          BY <1>1, <3>2 DEF Alone, KeysInv, KeysTypes
        <4>2. /\ buffer'[Stored(target[u], n)] = buffer[Stored(target[u], n)]
              /\ buffer'[Local(u, n)] = buffer[Local(u, n)]
              /\ buffer[Stored(target[u], n)] # Nothing =>
                   memory'[buffer[Stored(target[u], n)]] = memory[buffer[Stored(target[u], n)]]
              /\ buffer[Local(u, n)] # Nothing =>
                   memory'[buffer[Local(u, n)]] = memory[buffer[Local(u, n)]]
          BY <1>2, <1>3, <4>1
        <4>3. at[u] \in Finishing => buffer[Local(u, n)] # Nothing
          BY DEF KeysInv, ParametersAreLocked
        <4>4. Progress(u, n)
          BY DEF KeysInv, LoopsProgress
        <4>5. at'[u] = at[u] /\ todo'[u] = todo[u]
          BY <1>1
        <4>6. QED
          BY <4>1, <4>2, <4>3, <4>4, <4>5 DEF Progress, Left, Finishing, Wiping
      <3>3. QED
        BY <3>1, <3>2
    <2>2. ASSUME NEW u \in Threads \ {t}, at'[u] \in {"zero", "return"}
          PROVE  buffer'[Stored(target'[u], "session")] = Nothing
                   <=> buffer'[Stored(target'[u], "export")] = Nothing
      <3>1. at[u] \in {"zero", "return"} /\ target'[u] = target[u]
        BY <1>1, <2>2
      <3>2. target[u] \in Keys \ {k}
        BY <1>1, <3>1 DEF Alone, KeysInv, KeysTypes, TargetsAreApart
      <3>3. QED
        BY <1>2, <1>3, <3>1, <3>2 DEF KeysInv, LoopsProgress, Name
    <2>3. QED
      BY <2>1, <2>2 DEF LoopsProgress, OwnInv
  <1>7. BuffersAreApart'
    <2>1. ASSUME NEW v \in Values, NEW w \in Values,
                 v # w, buffer'[v] # Nothing, buffer'[v] = buffer'[w]
          PROVE  MayShare(v, w)' \/ MayShare(w, v)'
      <3>1. CASE v \in Mine(t, k) /\ w \in Mine(t, k)
        <4>1. Distinct(t, k)'
          BY <1>1 DEF OwnInv, Distinct
        <4>2. PICK n \in Name : \/ v = Local(t, n) /\ w = Stored(k, n)
                                \/ w = Local(t, n) /\ v = Stored(k, n)
          <5>1. PICK m \in Name, n \in Name :
                  v \in {Local(t, m), Stored(k, m)} /\ w \in {Local(t, n), Stored(k, n)}
            BY <3>1 DEF Mine
          <5>2. m = n
            BY <2>1, <4>1, <5>1 DEF Distinct
          <5>3. \/ v = Local(t, m) /\ w = Stored(k, m)
                \/ w = Local(t, m) /\ v = Stored(k, m)
            BY <2>1, <5>1, <5>2
          <5>4. QED
            BY <5>3
        <4>3. at'[t] \in {"share", "lock_memory"}
          BY <2>1, <4>1, <4>2 DEF Distinct
        <4>4. QED
          BY <1>1, <4>2, <4>3 DEF MayShare
      <3>2. CASE v \in Mine(t, k) /\ w \notin Mine(t, k)
        BY <1>2, <2>1, <3>2 DEF Works
      <3>3. CASE v \notin Mine(t, k) /\ w \in Mine(t, k)
        BY <1>2, <2>1, <3>3 DEF Works
      <3>4. CASE v \notin Mine(t, k) /\ w \notin Mine(t, k)
        <4>1. MayShare(v, w) \/ MayShare(w, v)
          BY <1>2, <2>1, <3>4 DEF KeysInv, BuffersAreApart
        <4>2. ASSUME NEW x \in Values \ Mine(t, k), NEW y \in Values, MayShare(x, y)
              PROVE  MayShare(x, y)'
          <5>1. CASE \E u \in Threads, n \in Name :
                       /\ at[u] \in {"share", "lock_memory"}
                       /\ x = Local(u, n) /\ y = Stored(target[u], n)
            BY <1>1, <5>1 DEF MayShare, Mine
          <5>2. CASE \E l \in Usable, n \in Name :
                       owner[l] # Nothing /\ x = Param(l) /\ y = Stored(l, n)
            BY <1>1, <5>2 DEF MayShare
          <5>3. QED
            BY <4>2, <5>1, <5>2 DEF MayShare
        <4>3. QED
          BY <3>4, <4>1, <4>2
      <3>5. QED
        BY <3>1, <3>2, <3>3, <3>4
    <2>2. QED
      BY <2>1 DEF BuffersAreApart
  <1>8. QED
    BY <1>4, <1>5, <1>6, <1>7 DEF KeysInv

(* A thread that has an object is alone with it.                           *)
LEMMA WorkersAreAlone ==
  ASSUME KeysInv, NEW t \in Threads, at[t] # "outside"
  PROVE  target[t] \in Keys /\ Alone(t, target[t]) /\ OwnInv(t)
  <1>1. target[t] \in Keys /\ target[t] # Nothing
    BY NothingAssumption DEF KeysInv, KeysTypes, TargetsAreApart
  <1>2. target[t] \notin Usable
    BY DEF KeysInv, KeysTypes, TargetsAreApart, Usable
  <1>3. Alone(t, target[t])
    BY <1>1, <1>2 DEF Alone, KeysInv, TargetsAreApart, ParametersAreLocked
  <1>4. Distinct(t, target[t])
    <2> DEFINE k == target[t]
    <2>1. ASSUME NEW v \in Mine(t, k), NEW w \in Mine(t, k),
                 v # w, buffer[v] # Nothing, buffer[v] = buffer[w]
          PROVE  \E n \in Name : /\ at[t] \in {"share", "lock_memory"}
                                 /\ \/ v = Local(t, n) /\ w = Stored(k, n)
                                    \/ w = Local(t, n) /\ v = Stored(k, n)
      <3>1. v \in Values /\ w \in Values
        BY <1>1, ValuesAre DEF Mine
      <3>2. MayShare(v, w) \/ MayShare(w, v)
        BY <2>1, <3>1 DEF KeysInv, BuffersAreApart
      <3>3. ASSUME NEW x \in Mine(t, k), NEW y, MayShare(x, y)
            PROVE  \E n \in Name : /\ at[t] \in {"share", "lock_memory"}
                                   /\ x = Local(t, n) /\ y = Stored(k, n)
        BY <3>3, ValuesDiffer DEF MayShare, Mine
      <3>4. CASE MayShare(v, w)
        BY <3>3, <3>4
      <3>5. CASE MayShare(w, v)
        BY <3>3, <3>5
      <3>6. QED
        BY <3>2, <3>4, <3>5
    <2>2. \A n \in Name : Local(t, n) \in Mine(t, k) /\ Stored(k, n) \in Mine(t, k)
      BY DEF Mine
    <2> HIDE DEF k
    <2>3. ASSUME NEW m \in Name, NEW n \in Name, m # n
          PROVE  /\ \/ buffer[Local(t, m)] = Nothing
                    \/ buffer[Local(t, m)] \notin {buffer[Local(t, n)], buffer[Stored(k, n)]}
                 /\ \/ buffer[Stored(k, m)] = Nothing
                    \/ buffer[Stored(k, m)] \notin {buffer[Local(t, n)], buffer[Stored(k, n)]}
      <3>1. \/ buffer[Local(t, m)] = Nothing
            \/ buffer[Local(t, m)] \notin {buffer[Local(t, n)], buffer[Stored(k, n)]}
        BY <2>1, <2>2, <2>3, ValuesDiffer
      <3>2. \/ buffer[Stored(k, m)] = Nothing
            \/ buffer[Stored(k, m)] \notin {buffer[Local(t, n)], buffer[Stored(k, n)]}
        BY <2>1, <2>2, <2>3, ValuesDiffer
      <3>3. QED
        BY <3>1, <3>2
    <2>4. ASSUME NEW n \in Name
          PROVE  \/ buffer[Local(t, n)] = Nothing \/ at[t] \in {"share", "lock_memory"}
                 \/ buffer[Local(t, n)] # buffer[Stored(k, n)]
      BY <2>1, <2>2, ValuesDiffer
    <2>5. QED
      BY <2>3, <2>4 DEF Distinct, k
  <1>5. QED
    BY <1>1, <1>3, <1>4 DEF OwnInv, KeysInv, ParametersAreLocked, LoopsProgress

(* What shares a buffer with none of its own is written in place.          *)
LEMMA WritesInPlace ==
  ASSUME KeysInv, NEW t \in Threads, NEW k \in Keys, Alone(t, k),
         NEW v \in Mine(t, k), buffer[v] # Nothing,
         \A w \in Mine(t, k) \ {v} : buffer[w] # buffer[v],
         NEW content, WithMutableBytes(v, content)
  PROVE  /\ buffer' = buffer /\ buffer[v] \in Buffers
         /\ memory' = [memory EXCEPT ![buffer[v]] = content]
  <1>1. v \in Values /\ buffer[v] \in Buffers
    BY ValuesAre DEF Mine, KeysInv, KeysTypes
  <1>2. ASSUME NEW w \in Values, buffer[w] = buffer[v] PROVE w = v
    <2>1. buffer[v] \in Reach(t, k)
      BY <1>1 DEF Reach
    <2>2. w \in Mine(t, k)
      BY <1>2, <2>1, OthersAreOutOfReach
    <2>3. QED
      BY <1>2, <2>2
  <1>3. Sharing(buffer[v]) = {v}
    BY <1>1, <1>2 DEF Sharing
  <1>4. /\ memory' = [memory EXCEPT ![buffer[v]] = content]
        /\ buffer' = [buffer EXCEPT ![v] = buffer[v]]
    BY <1>3 DEF WithMutableBytes
  <1>5. QED
    BY <1>1, <1>4 DEF KeysInv, KeysTypes

-----------------------------------------------------------------------------
(* finish, step by step.                                                   *)

(* The two local variables get unused buffers of their own.                *)
LEMMA FinishKeepsInv ==
  ASSUME KeysInv, NEW t \in Threads, Finish(t) PROVE KeysInv'
  <1>1. PICK k \in Keys \ existing : /\ \A u \in Threads : target[u] # k
                                     /\ target' = [target EXCEPT ![t] = k]
    BY DEF Finish
  <1> DEFINE one == Fresh
             two == CHOOSE b \in Unused \ {one} : TRUE
             ls  == Local(t, "session")
             le  == Local(t, "export")
  <1>2. one \in Unused /\ two \in Unused /\ one # two
    BY <1>1, TwoUnused, Zenon
  <1>3. /\ at[t] = "outside"
        /\ buffer' = [buffer EXCEPT ![ls] = one, ![le] = two]
        /\ memory' = [memory EXCEPT ![one] = "zeros", ![two] = "zeros"]
        /\ at' = [at EXCEPT ![t] = "call"] /\ todo' = [todo EXCEPT ![t] = <<>>]
        /\ UNCHANGED <<existing, disposed, owner>>
    BY Zenon DEF Finish, Goto
  <1>4. ls \in Values /\ le \in Values /\ ls # le
    BY ValuesAre, ValuesDiffer DEF Name
  <1>5. Unused \subseteq Buffers /\ Nothing \notin Buffers
    BY NothingAssumption DEF Unused
  <1> HIDE DEF one, two, ls, le
  <1>6. /\ buffer'[ls] = one /\ buffer'[le] = two
        /\ \A v \in Values \ {ls, le} : buffer'[v] = buffer[v]
        /\ \A b \in Buffers \ {one, two} : memory'[b] = memory[b]
    BY <1>3, <1>4 DEF KeysInv, KeysTypes
  <1>7. target'[t] = k /\ at'[t] = "call" /\ target[t] = Nothing
    BY <1>1, <1>3 DEF KeysInv, KeysTypes, TargetsAreApart
  <1>8. KeysTypes'
    BY <1>1, <1>2, <1>3, <1>5 DEF KeysInv, KeysTypes, Finishing, Looping
  <1>9. TargetsAreApart'
    BY <1>1, <1>3, <1>7, NothingAssumption DEF KeysInv, KeysTypes, TargetsAreApart, Finishing, Wiping
  <1>10. \A n \in Name : buffer[Stored(k, n)] = Nothing
    BY <1>1 DEF KeysInv, ObjectsAreWhole, Usable
  <1>11. /\ \A n \in Name : Stored(k, n) \in Values \ {ls, le}
         /\ Mine(t, k) \subseteq Values
         /\ \A n \in Name : Local(t, n) \in {ls, le}
    BY ValuesAre, ValuesDiffer DEF Mine, ls, le, Name
  <1>12. Works(t, k)
    <2>1. Alone(t, k)
      BY <1>1, <1>3, <1>7 DEF Alone, Usable
    <2>2. \A v \in Values \ Mine(t, k) : buffer'[v] = buffer[v]
      BY <1>6 DEF Mine, ls, le, Name
    <2>3. \A v \in Mine(t, k) : buffer'[v] \in Unused \cup {Nothing}
      BY <1>2, <1>6, <1>10, <1>11 DEF Mine
    <2>4. \A b \in Buffers \ Reach(t, k) : memory'[b] = memory[b]
      BY <1>2, <1>6 DEF Reach
    <2>5. \A v \in Mine(t, k) : buffer'[v] \in Reach(t, k) \cup {Nothing}
      BY <2>3 DEF Reach
    <2>6. \A u \in Threads \ {t} : at'[u] = at[u] /\ todo'[u] = todo[u]
      BY <1>3 DEF KeysInv, KeysTypes
    <2>7. QED
      BY <1>1, <1>3, <2>1, <2>2, <2>4, <2>5, <2>6 DEF Works
  <1>13. OwnInv(t)'
    <2>1. \A n \in Name : buffer'[Stored(k, n)] = Nothing
      BY <1>6, <1>10, <1>11
    <2>2. \A n \in Name : buffer'[Local(t, n)] \in Buffers
      BY <1>2, <1>5, <1>6, <1>11
    <2>3. \A m, n \in Name : m # n => buffer'[Local(t, m)] # buffer'[Local(t, n)]
      BY <1>2, <1>6 DEF ls, le, Name
    <2>4. \A n \in Name : Progress(t, n)'
      BY <1>7, <2>1 DEF Progress, Wiping
    <2>5. Distinct(t, k)'
      BY <1>5, <2>1, <2>2, <2>3 DEF Distinct
    <2>6. QED
      BY <1>5, <1>7, <2>2, <2>4, <2>5 DEF OwnInv, Finishing, Distinct
  <1>14. NoStrayKeys'
    <2>1. Unused' \subseteq Unused \ {one, two}
      <3>1. ASSUME NEW b \in Buffers, \A v \in Values : buffer'[v] # b
            PROVE  b \in Unused \ {one, two}
        <4>1. b # one /\ b # two
          BY <1>4, <1>6, <3>1
        <4>2. ASSUME NEW v \in Values, buffer[v] = b PROVE FALSE
          <5>1. v \in {ls, le}
            BY <1>6, <3>1, <4>2
          <5>2. v = Local(t, "session") \/ v = Local(t, "export")
            BY <5>1 DEF ls, le
          <5>3. buffer[v] = Nothing
            BY <1>3, <5>2 DEF KeysInv, ParametersAreLocked, Finishing, Name
          <5>4. QED
            BY <1>5, <4>2, <5>3
        <4>3. QED
          BY <4>1, <4>2 DEF Unused, Sharing
      <3>2. QED
        BY <3>1 DEF Unused, Sharing
    <2>2. QED
      BY <1>5, <1>6, <2>1 DEF NoStrayKeys, KeysInv
  <1>15. QED
    BY <1>8, <1>9, <1>12, <1>13, <1>14, WorkKeepsInv

(* No property refers to the local variables yet, whatever was written.    *)
LEMMA FinishCallKeepsInv ==
  ASSUME KeysInv, NEW t \in Threads, FinishCall(t) PROVE KeysInv'
  <1> DEFINE k  == target[t]
             ls == buffer[Local(t, "session")]
             le == buffer[Local(t, "export")]
  <1>1. at[t] = "call" /\ UNCHANGED <<buffer, target, existing, disposed, owner>>
    BY DEF FinishCall
  <1>2. k \in Keys /\ Alone(t, k) /\ OwnInv(t)
    BY <1>1, WorkersAreAlone
  <1>3. /\ ls \in Buffers /\ le \in Buffers
        /\ \A n \in Name : buffer[Local(t, n)] \in {ls, le}
        /\ ls \in Reach(t, k) /\ le \in Reach(t, k)
    BY <1>1, <1>2, ValuesAre DEF OwnInv, KeysInv, KeysTypes, Finishing, Name, Reach, Mine
  <1> HIDE DEF ls, le
  <1>4. \/ /\ memory' = [memory EXCEPT ![ls] = "key", ![le] = "key"]
           /\ at' = [at EXCEPT ![t] = "share"] /\ todo' = [todo EXCEPT ![t] = Names]
        \/ /\ memory' = memory
           /\ at' = [at EXCEPT ![t] = "zero"] /\ todo' = [todo EXCEPT ![t] = Names]
    BY Zenon DEF FinishCall, Goto, ls, le
  <1>5. /\ at'[t] \in {"share", "zero"} /\ todo'[t] = Names
        /\ \A u \in Threads \ {t} : at'[u] = at[u] /\ todo'[u] = todo[u]
        /\ at'[t] = "share" => memory'[ls] = "key" /\ memory'[le] = "key"
        /\ \A b \in Buffers \ {ls, le} : memory'[b] = memory[b]
    BY <1>3, <1>4 DEF KeysInv, KeysTypes
  <1>6. KeysTypes'
    <2>1. memory' \in [Buffers -> {"zeros", "key"}]
      BY <1>4 DEF KeysInv, KeysTypes
    <2>2. /\ at' \in [Threads -> {"outside"} \cup Finishing \cup Wiping] /\ DOMAIN todo' = Threads
      BY <1>4 DEF KeysInv, KeysTypes, Finishing
    <2>3. QED
      BY <1>1, <1>5, <2>1, <2>2 DEF KeysInv, KeysTypes
  <1>7. TargetsAreApart'
    BY <1>1, <1>5 DEF KeysInv, TargetsAreApart, Finishing, Wiping
  <1>8. Works(t, k)
    <2>1. target' = [target EXCEPT ![t] = k]
      BY <1>1 DEF KeysInv, KeysTypes
    <2>2. \A v \in Mine(t, k) : buffer'[v] \in Reach(t, k) \cup {Nothing}
      BY <1>1, <1>2, ValuesAre DEF KeysInv, KeysTypes, Reach, Mine
    <2>3. \A b \in Buffers \ Reach(t, k) : memory'[b] = memory[b]
      BY <1>3, <1>5
    <2>4. QED
      BY <1>1, <1>2, <1>5, <2>1, <2>2, <2>3 DEF Works
  <1>9. OwnInv(t)'
    <2>1. /\ buffer' = buffer /\ target' = target
          /\ \A n \in Name : buffer[Stored(k, n)] = Nothing /\ buffer[Local(t, n)] # Nothing
      BY <1>1, <1>2 DEF OwnInv, Progress, Finishing
    <2>2. \A n \in Name : Left(t, n)'
      BY <1>5 DEF Left
    <2>3. \A n \in Name : Progress(t, n)'
      BY <1>3, <1>5, <2>1, <2>2 DEF Progress, Wiping
    <2>4. Distinct(t, target[t])'
      BY <1>1, <1>2, <2>1 DEF OwnInv, Distinct
    <2>5. QED
      BY <1>5, <2>1, <2>3, <2>4 DEF OwnInv, Finishing, Name
  <1>10. NoStrayKeys'
    <2>1. Unused' = Unused
      BY <1>1 DEF Unused, Sharing
    <2>2. ls \notin Unused /\ le \notin Unused /\ Unused \subseteq Buffers
      BY ValuesAre DEF Unused, Sharing, ls, le, Name
    <2>3. QED
      BY <1>5, <2>1, <2>2 DEF NoStrayKeys, KeysInv
  <1>11. QED
    BY <1>2, <1>6, <1>7, <1>8, <1>9, <1>10, WorkKeepsInv

(* A round that zeroes a value which shares its buffer with none.          *)
LEMMA ZeroingRound ==
  ASSUME KeysInv, NEW t \in Threads, at[t] \in {"zero", "wipe"},
         NEW v \in Mine(t, target[t]), buffer[v] # Nothing,
         \A w \in Mine(t, target[t]) \ {v} : buffer[w] # buffer[v],
         WithMutableBytes(v, "zeros"),
         Round(t, IF at[t] = "zero" THEN "return" ELSE "clear", <<>>),
         UNCHANGED <<target, existing, disposed, owner>>
  PROVE  /\ KeysTypes' /\ TargetsAreApart' /\ Works(t, target[t]) /\ NoStrayKeys'
         /\ buffer' = buffer /\ memory'[buffer[v]] = "zeros"
         /\ \A b \in Buffers \ {buffer[v]} : memory'[b] = memory[b]
         /\ \/ /\ todo[t] = Names /\ Head(todo[t]) = "session"
               /\ at'[t] = at[t] /\ todo'[t] = <<"export">>
            \/ /\ todo[t] = <<"export">> /\ Head(todo[t]) = "export"
               /\ at'[t] = IF at[t] = "zero" THEN "return" ELSE "clear"
  <1> DEFINE k == target[t]
             next == IF at[t] = "zero" THEN "return" ELSE "clear"
  <1>1. k \in Keys /\ Alone(t, k) /\ OwnInv(t)
    BY WorkersAreAlone
  <1>2. /\ buffer' = buffer /\ buffer[v] \in Buffers
        /\ memory' = [memory EXCEPT ![buffer[v]] = "zeros"]
    BY <1>1, WritesInPlace
  <1>3. /\ \/ /\ todo[t] = Names /\ Head(todo[t]) = "session"
              /\ at' = at /\ todo'[t] = <<"export">>
           \/ /\ todo[t] = <<"export">> /\ Head(todo[t]) = "export"
              /\ at' = [at EXCEPT ![t] = next] /\ todo'[t] = <<>>
        /\ todo' = [todo EXCEPT ![t] = todo'[t]]
    BY RoundIs DEF KeysInv, Looping
  <1>4. memory'[buffer[v]] = "zeros" /\ \A b \in Buffers \ {buffer[v]} : memory'[b] = memory[b]
    BY <1>2 DEF KeysInv, KeysTypes
  <1>5. /\ (at'[t] = at[t] /\ todo'[t] = <<"export">>) \/ at'[t] = next
        /\ \A u \in Threads \ {t} : at'[u] = at[u] /\ todo'[u] = todo[u]
        /\ at' \in [Threads -> {"outside"} \cup Finishing \cup Wiping] /\ DOMAIN todo' = Threads
    BY <1>3 DEF KeysInv, KeysTypes, Finishing, Wiping
  <1>6. KeysTypes'
    <2>1. memory' \in [Buffers -> {"zeros", "key"}]
      BY <1>2 DEF KeysInv, KeysTypes
    <2>2. QED
      BY <1>2, <1>5, <2>1 DEF KeysInv, KeysTypes, Looping
  <1>7. TargetsAreApart'
    BY <1>5 DEF KeysInv, TargetsAreApart, Finishing, Wiping
  <1>8. Works(t, k)
    <2>1. target' = [target EXCEPT ![t] = k]
      BY DEF KeysInv, KeysTypes
    <2>2. \A w \in Mine(t, k) : buffer'[w] \in Reach(t, k) \cup {Nothing}
      BY <1>1, <1>2, ValuesAre DEF KeysInv, KeysTypes, Reach, Mine
    <2>3. \A b \in Buffers \ Reach(t, k) : memory'[b] = memory[b]
      BY <1>2, <1>4 DEF Reach
    <2>4. QED
      BY <1>1, <1>2, <1>5, <2>1, <2>2, <2>3 DEF Works
  <1>9. NoStrayKeys'
    <2>1. Unused' = Unused /\ Unused \subseteq Buffers
      BY <1>2 DEF Unused, Sharing
    <2>2. buffer[v] \notin Unused
      BY <1>1, ValuesAre DEF Unused, Sharing, Mine
    <2>3. QED
      BY <1>4, <2>1, <2>2 DEF NoStrayKeys, KeysInv
  <1>10. QED
    BY <1>2, <1>3, <1>4, <1>6, <1>7, <1>8, <1>9 DEF KeysInv, KeysTypes

(* The properties were unshared before: only the local copy is zeroed.     *)
LEMMA ZeroLocalKeepsInv ==
  ASSUME KeysInv, NEW t \in Threads, ZeroLocal(t) PROVE KeysInv'
  <1> DEFINE k == target[t]
             h == Head(todo[t])
             v == Local(t, h)
  <1>1. /\ at[t] = "zero" /\ WithMutableBytes(v, "zeros") /\ Round(t, "return", <<>>)
        /\ UNCHANGED <<target, existing, disposed, owner>>
    BY DEF ZeroLocal
  <1>2. k \in Keys /\ Alone(t, k) /\ OwnInv(t)
    BY <1>1, WorkersAreAlone
  <1>3. h \in Name
    BY <1>1, NamesAre DEF KeysInv, KeysTypes, Looping, Name
  <1>4. v \in Mine(t, k) /\ buffer[v] # Nothing
    BY <1>1, <1>2, <1>3 DEF Mine, OwnInv, Finishing
  <1>5. \A w \in Mine(t, k) \ {v} : buffer[w] # buffer[v]
    BY <1>1, <1>2, <1>3, <1>4 DEF Mine, OwnInv, Distinct
  <1>6. /\ KeysTypes' /\ TargetsAreApart' /\ Works(t, k) /\ NoStrayKeys'
        /\ buffer' = buffer /\ memory'[buffer[v]] = "zeros"
        /\ \A b \in Buffers \ {buffer[v]} : memory'[b] = memory[b]
        /\ \/ /\ todo[t] = Names /\ Head(todo[t]) = "session"
              /\ at'[t] = at[t] /\ todo'[t] = <<"export">>
           \/ /\ todo[t] = <<"export">> /\ Head(todo[t]) = "export"
              /\ at'[t] = "return"
    BY <1>1, <1>4, <1>5, ZeroingRound
  <1>7. ASSUME NEW n \in Name PROVE Progress(t, n)'
    <2>1. /\ buffer'[Stored(k, n)] = buffer[Stored(k, n)] /\ buffer'[Local(t, n)] = buffer[Local(t, n)]
          /\ buffer[Stored(k, n)] # buffer[Local(t, n)]
          /\ buffer[Stored(k, n)] # Nothing => /\ buffer[Stored(k, n)] \in Buffers \ {buffer[v]}
                                              /\ memory[buffer[Stored(k, n)]] = "key"
      <3>1. Stored(k, n) \in Mine(t, k) \ {v} /\ Stored(k, n) \in Values
        BY <1>2, ValuesAre, ValuesDiffer DEF Mine
      <3>2. QED
        BY <1>1, <1>2, <1>5, <1>6, <3>1 DEF OwnInv, Progress, KeysInv, KeysTypes
    <2>2. ASSUME n # h, ~Left(t, n) \/ at'[t] = "return" PROVE memory'[buffer[Local(t, n)]] = "zeros"
      <3>1. ~Left(t, n)
        BY <1>1, <1>6, <2>2, NamesAre DEF Left, Name
      <3>2. memory[buffer[Local(t, n)]] = "zeros"
        BY <1>1, <1>2, <3>1 DEF OwnInv, Progress
      <3>3. Local(t, n) \in Mine(t, k) \ {v} /\ buffer[Local(t, n)] \in Buffers
        BY <1>1, <1>2, <2>2, ValuesAre, ValuesDiffer DEF Mine, OwnInv, Finishing, KeysInv, KeysTypes
      <3>4. QED
        BY <1>5, <1>6, <3>2, <3>3
    <2>3. at'[t] = "zero" /\ ~Left(t, n)' => memory'[buffer'[Local(t, n)]] = "zeros"
      BY <1>6, <2>1 DEF Left, Name
    <2>4. at'[t] = "return" => memory'[buffer'[Local(t, n)]] = "zeros"
      BY <1>6, <2>1, <2>2
    <2>5. target'[t] = k /\ at'[t] \in {"zero", "return"}
      BY <1>1, <1>6
    <2>6. QED
      BY <1>6, <2>1, <2>3, <2>4, <2>5 DEF Progress, Wiping
  <1>8. OwnInv(t)'
    <2>1. target'[t] = k /\ at'[t] \in {"zero", "return"} /\ buffer' = buffer
      BY <1>1, <1>6
    <2>2. Distinct(t, target[t])'
      BY <1>1, <1>2, <2>1 DEF OwnInv, Distinct
    <2>3. QED
      BY <1>1, <1>2, <1>7, <2>1, <2>2 DEF OwnInv, Finishing
  <1>9. QED
    BY <1>2, <1>6, <1>8, WorkKeepsInv

(* Each property begins to share the buffer of its local variable.         *)
LEMMA ShareKeepsInv ==
  ASSUME KeysInv, NEW t \in Threads, Share(t) PROVE KeysInv'
  <1> DEFINE k == target[t]
             h == Head(todo[t])
             v == Stored(k, h)
  <1>1. /\ at[t] = "share" /\ buffer' = [buffer EXCEPT ![v] = buffer[Local(t, h)]]
        /\ Round(t, "lock_memory", Names)
        /\ UNCHANGED <<memory, target, existing, disposed, owner>>
    BY DEF Share
  <1>2. k \in Keys /\ Alone(t, k) /\ OwnInv(t)
    BY <1>1, WorkersAreAlone
  <1>3. /\ \/ /\ todo[t] = Names /\ h = "session" /\ at' = at /\ todo'[t] = <<"export">>
           \/ /\ todo[t] = <<"export">> /\ h = "export"
              /\ at' = [at EXCEPT ![t] = "lock_memory"] /\ todo'[t] = Names
        /\ todo' = [todo EXCEPT ![t] = todo'[t]]
    BY <1>1, RoundIs DEF KeysInv, Looping
  <1>4. h \in Name /\ v \in Mine(t, k) /\ v \in Values /\ Left(t, h)
    BY <1>2, <1>3, ValuesAre DEF Mine, Name, Left
  <1>5. /\ \A n \in Name : buffer[Local(t, n)] \in Buffers /\ Local(t, n) \in Mine(t, k)
        /\ \A n \in Name : memory[buffer[Local(t, n)]] = "key"
        /\ buffer[v] = Nothing
    BY <1>1, <1>2, <1>4, ValuesAre DEF Mine, OwnInv, Finishing, Progress, KeysInv, KeysTypes
  <1>6. /\ buffer'[v] = buffer[Local(t, h)]
        /\ \A w \in Values \ {v} : buffer'[w] = buffer[w]
    BY <1>1, <1>4 DEF KeysInv, KeysTypes
  <1>7. /\ \/ at'[t] = "share" /\ todo'[t] = <<"export">> /\ h = "session"
           \/ at'[t] = "lock_memory" /\ todo'[t] = Names /\ h = "export" /\ todo[t] = <<"export">>
        /\ \A u \in Threads \ {t} : at'[u] = at[u] /\ todo'[u] = todo[u]
        /\ at' \in [Threads -> {"outside"} \cup Finishing \cup Wiping] /\ DOMAIN todo' = Threads
    BY <1>1, <1>3 DEF KeysInv, KeysTypes, Finishing
  <1>8. KeysTypes'
    <2>1. buffer' \in [Values -> Buffers \cup {Nothing}]
      BY <1>1, <1>4, <1>5 DEF KeysInv, KeysTypes
    <2>2. QED
      BY <1>1, <1>7, <2>1 DEF KeysInv, KeysTypes
  <1>9. TargetsAreApart'
    BY <1>1, <1>7 DEF KeysInv, TargetsAreApart, Finishing, Wiping
  <1>10. Works(t, k)
    <2>1. target' = [target EXCEPT ![t] = k]
      BY <1>1 DEF KeysInv, KeysTypes
    <2>2. \A w \in Mine(t, k) : w \in Values /\ buffer[w] \in Reach(t, k) \cup {Nothing}
      BY <1>2, ValuesAre DEF KeysInv, KeysTypes, Reach, Mine
    <2>3. \A w \in Mine(t, k) : buffer'[w] \in Reach(t, k) \cup {Nothing}
      BY <1>4, <1>5, <1>6, <2>2
    <2>4. \A w \in Values \ Mine(t, k) : buffer'[w] = buffer[w]
      BY <1>4, <1>6
    <2>5. QED
      BY <1>1, <1>2, <1>7, <2>1, <2>3, <2>4 DEF Works
  <1>11. OwnInv(t)'
    <2>1. \A n \in Name : /\ buffer'[Local(t, n)] = buffer[Local(t, n)]
                          /\ n # h => buffer'[Stored(k, n)] = buffer[Stored(k, n)]
      BY <1>2, <1>6, ValuesAre, ValuesDiffer
    <2>2. target'[t] = k /\ memory' = memory /\ at'[t] \in {"share", "lock_memory"}
      BY <1>1, <1>7
    <2>3. ASSUME NEW n \in Name
          PROVE  buffer'[Stored(k, n)] = IF at'[t] = "share" /\ Left(t, n)' THEN Nothing
                                         ELSE buffer'[Local(t, n)]
      <3>1. CASE n = h
        BY <1>6, <1>7, <2>1, <3>1, NamesAre DEF Left, Name
      <3>2. CASE n # h
        <4>1. buffer[Stored(k, n)] = IF Left(t, n) THEN Nothing ELSE buffer[Local(t, n)]
          BY <1>1, <1>2 DEF OwnInv, Progress
        <4>2. (at'[t] = "share" /\ Left(t, n)') <=> Left(t, n)
          BY <1>7, <1>4, <3>2, NamesAre DEF Left, Name
        <4>3. QED
          BY <2>1, <3>2, <4>1, <4>2
      <3>3. QED
        BY <3>1, <3>2
    <2>4. \A n \in Name : at'[t] = "lock_memory" => Left(t, n)'
      BY <1>7 DEF Left
    <2>5. \A n \in Name : buffer'[Local(t, n)] \in Buffers /\ memory'[buffer'[Local(t, n)]] = "key"
      BY <1>5, <2>1, <2>2
    <2>6. \A n \in Name : Progress(t, n)'
      BY <2>2, <2>3, <2>4, <2>5, NothingAssumption DEF Progress, Wiping
    <2>7. Distinct(t, k)'
      <3>1. \A m, n \in Name : m # n => buffer'[Local(t, m)] # buffer'[Local(t, n)]
        BY <1>2, <1>5, <2>1, NothingAssumption DEF OwnInv, Distinct
      <3>2. \A n \in Name : buffer'[Stored(k, n)] \in {Nothing, buffer'[Local(t, n)]}
        BY <2>3
      <3>3. QED
        BY <2>2, <2>5, <3>1, <3>2, NothingAssumption DEF Distinct
    <2>8. QED
      BY <2>2, <2>5, <2>6, <2>7, NothingAssumption DEF OwnInv, Distinct, Finishing
  <1>12. NoStrayKeys'
    <2>1. Unused' \subseteq Unused
      BY <1>5, <1>6, NothingAssumption DEF Unused, Sharing
    <2>2. QED
      BY <1>1, <2>1 DEF NoStrayKeys, KeysInv
  <1>13. QED
    BY <1>2, <1>8, <1>9, <1>10, <1>11, <1>12, WorkKeepsInv

(* A property that shares gets a copy; the local variable keeps its own.   *)
LEMMA LockMemoryKeepsInv ==
  ASSUME KeysInv, NEW t \in Threads, LockMemory(t) PROVE KeysInv'
  <1> DEFINE k == target[t]
             h == Head(todo[t])
             v == Stored(k, h)
  <1>1. /\ at[t] = "lock_memory" /\ WithMutableBytes(v, memory[buffer[v]])
        /\ Round(t, "zero", Names)
        /\ UNCHANGED <<target, existing, disposed, owner>>
    BY DEF LockMemory
  <1>2. k \in Keys /\ Alone(t, k) /\ OwnInv(t)
    BY <1>1, WorkersAreAlone
  <1>3. /\ \/ /\ todo[t] = Names /\ h = "session" /\ at' = at /\ todo'[t] = <<"export">>
           \/ /\ todo[t] = <<"export">> /\ h = "export"
              /\ at' = [at EXCEPT ![t] = "zero"] /\ todo'[t] = Names
        /\ todo' = [todo EXCEPT ![t] = todo'[t]]
    BY <1>1, RoundIs DEF KeysInv, Looping
  <1>4. h \in Name /\ v \in Mine(t, k) /\ v \in Values /\ Left(t, h)
    BY <1>2, <1>3, ValuesAre DEF Mine, Name, Left
  <1>5. buffer[v] = buffer[Local(t, h)] /\ memory[buffer[v]] = "key"
    BY <1>1, <1>2, <1>4 DEF OwnInv, Progress
  <1>6. Fresh \in Unused /\ Fresh \in Buffers /\ Fresh # Nothing
    BY <1>1, <1>2, <1>4, <1>5, OneUnused, NothingAssumption DEF Finishing, Unused
  <1>7. Sharing(buffer[v]) # {v}
    <2>1. Local(t, h) \in Sharing(buffer[v]) /\ Local(t, h) # v
      BY <1>4, <1>5, ValuesAre, ValuesDiffer DEF Sharing
    <2>2. QED
      BY <2>1
  <1>8. /\ memory' = [memory EXCEPT ![Fresh] = "key"]
        /\ buffer' = [buffer EXCEPT ![v] = Fresh]
    BY <1>1, <1>5, <1>7 DEF WithMutableBytes
  <1>9. /\ buffer'[v] = Fresh /\ memory'[Fresh] = "key"
        /\ \A w \in Values \ {v} : buffer'[w] = buffer[w] /\ buffer[w] # Fresh
        /\ \A b \in Buffers \ {Fresh} : memory'[b] = memory[b]
    BY <1>4, <1>6, <1>8 DEF KeysInv, KeysTypes, Unused, Sharing
  <1>10. /\ \/ at'[t] = "lock_memory" /\ todo'[t] = <<"export">> /\ h = "session"
            \/ at'[t] = "zero" /\ todo'[t] = Names /\ h = "export" /\ todo[t] = <<"export">>
         /\ \A u \in Threads \ {t} : at'[u] = at[u] /\ todo'[u] = todo[u]
         /\ at' \in [Threads -> {"outside"} \cup Finishing \cup Wiping] /\ DOMAIN todo' = Threads
    BY <1>1, <1>3 DEF KeysInv, KeysTypes, Finishing
  <1>11. KeysTypes'
    <2>1. /\ buffer' \in [Values -> Buffers \cup {Nothing}]
          /\ memory' \in [Buffers -> {"zeros", "key"}]
      BY <1>6, <1>8 DEF KeysInv, KeysTypes
    <2>2. QED
      BY <1>1, <1>10, <2>1 DEF KeysInv, KeysTypes
  <1>12. TargetsAreApart'
    BY <1>1, <1>10 DEF KeysInv, TargetsAreApart, Finishing, Wiping
  <1>13. Works(t, k)
    <2>1. target' = [target EXCEPT ![t] = k]
      BY <1>1 DEF KeysInv, KeysTypes
    <2>2. \A w \in Mine(t, k) : w \in Values /\ buffer[w] \in Reach(t, k) \cup {Nothing}
      BY <1>2, ValuesAre DEF KeysInv, KeysTypes, Reach, Mine
    <2>3. Fresh \in Reach(t, k)
      BY <1>6 DEF Reach
    <2>4. \A w \in Mine(t, k) : buffer'[w] \in Reach(t, k) \cup {Nothing}
      BY <1>9, <2>2, <2>3
    <2>5. /\ \A w \in Values \ Mine(t, k) : buffer'[w] = buffer[w]
          /\ \A b \in Buffers \ Reach(t, k) : memory'[b] = memory[b]
      BY <1>4, <1>9, <2>3
    <2>6. QED
      BY <1>1, <1>2, <1>10, <2>1, <2>4, <2>5 DEF Works
  <1>14. OwnInv(t)'
    <2>1. \A n \in Name : /\ Local(t, n) \in Values \ {v}
                          /\ buffer'[Local(t, n)] = buffer[Local(t, n)]
                          /\ buffer[Local(t, n)] \in Buffers \ {Fresh, Nothing}
                          /\ memory'[buffer'[Local(t, n)]] = "key"
      <3>1. \A n \in Name : Local(t, n) \in Values \ {v}
        BY ValuesAre, ValuesDiffer
      <3>2. \A n \in Name : buffer[Local(t, n)] # Nothing /\ memory[buffer[Local(t, n)]] = "key"
        BY <1>1, <1>2 DEF OwnInv, Finishing, Progress
      <3>3. QED
        BY <1>9, <3>1, <3>2 DEF KeysInv, KeysTypes
    <2>2. ASSUME NEW n \in Name, n # h
          PROVE  /\ buffer'[Stored(k, n)] = buffer[Stored(k, n)]
                 /\ buffer[Stored(k, n)] \in Buffers \ {Fresh, Nothing}
                 /\ memory'[buffer'[Stored(k, n)]] = "key"
                 /\ buffer[Stored(k, n)] = buffer[Local(t, n)] <=> Left(t, n)
      <3>1. Stored(k, n) \in Values \ {v}
        BY <1>2, <2>2, ValuesAre, ValuesDiffer
      <3>2. /\ buffer[Stored(k, n)] # Nothing /\ memory[buffer[Stored(k, n)]] = "key"
            /\ buffer[Stored(k, n)] = buffer[Local(t, n)] <=> Left(t, n)
        BY <1>1, <1>2 DEF OwnInv, Progress
      <3>3. QED
        BY <1>9, <3>1, <3>2 DEF KeysInv, KeysTypes
    <2>3. target'[t] = k /\ at'[t] \in {"lock_memory", "zero"}
      BY <1>1, <1>10
    <2>4. \A n \in Name : buffer'[Stored(k, n)] # Nothing /\ memory'[buffer'[Stored(k, n)]] = "key"
      BY <1>6, <1>9, <2>2
    <2>5. ASSUME NEW n \in Name
          PROVE  buffer'[Stored(k, n)] = buffer'[Local(t, n)] <=> at'[t] = "lock_memory" /\ Left(t, n)'
      <3>1. CASE n = h
        BY <1>9, <1>10, <2>1, <3>1, NamesAre DEF Left, Name
      <3>2. CASE n # h
        BY <1>4, <1>10, <2>1, <2>2, <3>2, NamesAre DEF Left, Name
      <3>3. QED
        BY <3>1, <3>2
    <2>6. \A n \in Name : Progress(t, n)'
      <3>1. \A n \in Name : at'[t] = "zero" => Left(t, n)'
        BY <1>10 DEF Left
      <3>2. QED
        BY <2>1, <2>3, <2>4, <2>5, <3>1 DEF Progress, Wiping
    <2>7. Distinct(t, k)'
      <3>1. \A m, n \in Name : m # n =>
              /\ buffer[Local(t, m)] # buffer[Local(t, n)]
              /\ buffer[Local(t, m)] # buffer[Stored(k, n)]
              /\ buffer[Stored(k, m)] # buffer[Stored(k, n)]
        BY <1>1, <1>2, <2>1 DEF OwnInv, Distinct, Progress
      <3>2. QED
        BY <1>9, <2>1, <2>2, <2>3, <2>5, <3>1 DEF Distinct
    <2>8. QED
      BY <2>1, <2>3, <2>4, <2>6, <2>7 DEF OwnInv, Distinct, Finishing, Name
  <1>15. NoStrayKeys'
    <2>1. ASSUME NEW b \in Buffers, \A w \in Values : buffer'[w] # b
          PROVE  b \in Unused \ {Fresh}
      <3>1. b # Fresh
        BY <1>4, <1>9, <2>1
      <3>2. Local(t, h) \in Values \ {v}
        BY <1>4, ValuesAre, ValuesDiffer
      <3>3. \A w \in Values : buffer[w] # b
        BY <1>5, <1>9, <2>1, <3>2
      <3>4. QED
        BY <3>1, <3>3 DEF Unused, Sharing
    <2>2. Unused' \subseteq Unused \ {Fresh} /\ Unused \subseteq Buffers
      BY <2>1 DEF Unused, Sharing
    <2>3. QED
      BY <1>9, <2>2 DEF NoStrayKeys, KeysInv
  <1>16. QED
    BY <1>2, <1>11, <1>12, <1>13, <1>14, <1>15, WorkKeepsInv

(* What finish gives up was zeroed; what it returns is whole.              *)
LEMMA FinishReturnKeepsInv ==
  ASSUME KeysInv, NEW t \in Threads, FinishReturn(t) PROVE KeysInv'
  <1> DEFINE k  == target[t]
             ls == Local(t, "session")
             le == Local(t, "export")
  <1>1. /\ at[t] = "return"
        /\ existing' = IF buffer[Stored(k, "session")] = Nothing THEN existing ELSE existing \cup {k}
        /\ buffer' = [buffer EXCEPT ![ls] = Nothing, ![le] = Nothing]
        /\ target' = [target EXCEPT ![t] = Nothing]
        /\ at' = [at EXCEPT ![t] = "outside"] /\ todo' = [todo EXCEPT ![t] = <<>>]
        /\ memory' = memory /\ disposed' = disposed /\ owner' = owner
    BY DEF FinishReturn, Goto
  <1>2. k \in Keys /\ Alone(t, k) /\ OwnInv(t) /\ k \notin existing
    BY <1>1, WorkersAreAlone DEF KeysInv, TargetsAreApart, Finishing
  <1>3. ls \in Values /\ le \in Values /\ \A n \in Name : Local(t, n) \in {ls, le}
    BY ValuesAre DEF Name
  <1>4. /\ \A n \in Name : buffer'[Local(t, n)] = Nothing
        /\ \A v \in Values : (\A n \in Name : v # Local(t, n)) => buffer'[v] = buffer[v]
        /\ target'[t] = Nothing /\ \A u \in Threads \ {t} : target'[u] = target[u]
        /\ at'[t] = "outside" /\ \A u \in Threads \ {t} : at'[u] = at[u] /\ todo'[u] = todo[u]
    BY <1>1, <1>3 DEF KeysInv, KeysTypes, Name
  <1>5. /\ \A u \in Threads \ {t}, n \in Name : buffer'[Local(u, n)] = buffer[Local(u, n)]
        /\ \A l \in Keys, n \in Name : buffer'[Stored(l, n)] = buffer[Stored(l, n)]
        /\ \A l \in Keys : buffer'[Param(l)] = buffer[Param(l)]
    BY <1>4, ValuesAre, ValuesDiffer
  <1>6. \/ Usable' = Usable
        \/ Usable' = Usable \cup {k} /\ buffer[Stored(k, "session")] # Nothing
    <2>1. CASE buffer[Stored(k, "session")] = Nothing
      <3>1. existing' = existing /\ disposed' = disposed
        BY <1>1, <2>1
      <3>2. Usable' = Usable
        BY <3>1 DEF Usable
      <3>3. QED
        BY <3>2
    <2>2. CASE buffer[Stored(k, "session")] # Nothing
      <3>1. existing' = existing \cup {k} /\ disposed' = disposed /\ k \notin disposed
        BY <1>1, <1>2, <2>2 DEF KeysInv, KeysTypes
      <3>2. Usable' = Usable \cup {k}
        BY <3>1, Zenon DEF Usable
      <3>3. QED
        BY <2>2, <3>2
    <2>3. QED
      BY <2>1, <2>2
  <1>7. KeysTypes'
    BY <1>1, <1>2, <1>4 DEF KeysInv, KeysTypes, Looping
  <1>8. TargetsAreApart'
    BY <1>1, <1>2, <1>4 DEF KeysInv, TargetsAreApart, Alone, Finishing, Wiping
  <1>9. ParametersAreLocked'
    <2>1. \A u \in Threads, n \in Name :
            buffer'[Local(u, n)] = Nothing <=> at'[u] \notin Finishing
      BY <1>4, <1>5 DEF KeysInv, ParametersAreLocked, Finishing
    <2>2. ASSUME NEW l \in Keys, buffer'[Param(l)] # Nothing
          PROVE  /\ l \in Usable' /\ owner'[l] # Nothing
                 /\ \E n \in Name : buffer'[Param(l)] = buffer'[Stored(l, n)]
      <3>1. l \in Usable /\ owner[l] # Nothing
        BY <1>5, <2>2 DEF KeysInv, ParametersAreLocked
      <3>2. PICK n \in Name : buffer[Param(l)] = buffer[Stored(l, n)]
        BY <1>5, <2>2 DEF KeysInv, ParametersAreLocked
      <3>3. QED
        BY <1>1, <1>5, <1>6, <3>1, <3>2
    <2>3. QED
      BY <2>1, <2>2 DEF ParametersAreLocked
  <1>10. ObjectsAreWhole'
    <2>1. ASSUME NEW l \in Keys, NEW n \in Name
          PROVE  /\ l \in Usable' => /\ buffer'[Stored(l, n)] # Nothing
                                     /\ memory'[buffer'[Stored(l, n)]] = "key"
                 /\ l \notin Usable' /\ (\A u \in Threads : target'[u] # l)
                      => buffer'[Stored(l, n)] = Nothing
      <3>1. CASE l = k
        <4>1. /\ buffer[Stored(k, "session")] = Nothing <=> buffer[Stored(k, "export")] = Nothing
              /\ buffer[Stored(k, n)] # Nothing => memory[buffer[Stored(k, n)]] = "key"
          BY <1>1, <1>2 DEF OwnInv, Progress
        <4>2. k \in Usable' <=> buffer[Stored(k, "session")] # Nothing
          BY <1>1, <1>2 DEF Usable, KeysInv, KeysTypes
        <4>3. QED
          BY <1>1, <1>5, <3>1, <4>1, <4>2 DEF Name
      <3>2. CASE l # k
        <4>1. (\A u \in Threads : target'[u] # l) => \A u \in Threads : target[u] # l
          BY <1>4, <3>2
        <4>2. l \in Usable' <=> l \in Usable
          BY <1>6, <3>2
        <4>3. QED
          BY <1>1, <1>5, <4>1, <4>2 DEF KeysInv, ObjectsAreWhole
      <3>3. QED
        BY <3>1, <3>2
    <2>2. QED
      BY <2>1 DEF ObjectsAreWhole
  <1>11. LoopsProgress'
    <2>1. ASSUME NEW u \in Threads, NEW n \in Name, at'[u] # "outside"
          PROVE  Progress(u, n)' /\
                 (at'[u] \in {"zero", "return"} =>
                    (buffer'[Stored(target'[u], "session")] = Nothing
                       <=> buffer'[Stored(target'[u], "export")] = Nothing))
      <3>1. /\ u # t /\ at'[u] = at[u] /\ todo'[u] = todo[u] /\ target'[u] = target[u]
            /\ target[u] \in Keys
        BY <1>4, <2>1, WorkersAreAlone
      <3>2. /\ \A m \in Name : buffer'[Stored(target[u], m)] = buffer[Stored(target[u], m)]
            /\ buffer'[Local(u, n)] = buffer[Local(u, n)] /\ memory' = memory
        BY <1>1, <1>5, <3>1
      <3>3. Progress(u, n)'
        BY <3>1, <3>2 DEF KeysInv, LoopsProgress, Progress, Left
      <3>4. QED
        BY <3>1, <3>2, <3>3 DEF KeysInv, LoopsProgress, Name
    <2>2. \A u \in Threads, n \in Name : at'[u] = "outside" => Progress(u, n)'
      BY DEF Progress, Wiping
    <2>3. QED
      BY <2>1, <2>2 DEF LoopsProgress, Name
  <1>12. BuffersAreApart'
    <2>1. ASSUME NEW v \in Values, NEW w \in Values,
                 v # w, buffer'[v] # Nothing, buffer'[v] = buffer'[w]
          PROVE  MayShare(v, w)' \/ MayShare(w, v)'
      <3>1. /\ \A n \in Name : v # Local(t, n) /\ w # Local(t, n)
            /\ buffer'[v] = buffer[v] /\ buffer'[w] = buffer[w]
        BY <1>4, <2>1
      <3>2. MayShare(v, w) \/ MayShare(w, v)
        BY <2>1, <3>1 DEF KeysInv, BuffersAreApart
      <3>3. ASSUME NEW x, NEW y, MayShare(x, y), \A n \in Name : x # Local(t, n)
            PROVE  MayShare(x, y)'
        <4>1. CASE \E u \in Threads, n \in Name :
                     /\ at[u] \in {"share", "lock_memory"}
                     /\ x = Local(u, n) /\ y = Stored(target[u], n)
          BY <1>4, <3>3, <4>1 DEF MayShare
        <4>2. CASE \E l \in Usable, n \in Name :
                     owner[l] # Nothing /\ x = Param(l) /\ y = Stored(l, n)
          BY <1>1, <1>6, <4>2 DEF MayShare
        <4>3. QED
          BY <3>3, <4>1, <4>2 DEF MayShare
      <3>4. QED
        BY <3>1, <3>2, <3>3
    <2>2. QED
      BY <2>1 DEF BuffersAreApart
  <1>13. NoStrayKeys'
    <2>1. ASSUME NEW b \in Buffers, \A v \in Values : buffer'[v] # b
          PROVE  memory'[b] = "zeros"
      <3>1. CASE \E n \in Name : buffer[Local(t, n)] = b
        BY <1>1, <1>2, <3>1 DEF OwnInv, Progress
      <3>2. CASE \A n \in Name : buffer[Local(t, n)] # b
        <4>1. b \in Unused
          BY <1>4, <2>1, <3>2 DEF Unused, Sharing
        <4>2. QED
          BY <1>1, <4>1 DEF KeysInv, NoStrayKeys
      <3>3. QED
        BY <3>1, <3>2
    <2>2. QED
      BY <2>1 DEF NoStrayKeys, Unused, Sharing
  <1>14. QED
    BY <1>7, <1>8, <1>9, <1>10, <1>11, <1>12, <1>13 DEF KeysInv

-----------------------------------------------------------------------------
(* The closures.                                                           *)

(* A step that leaves the work of all threads alone.                       *)
LEMMA WorkIsKept ==
  ASSUME KeysInv, UNCHANGED <<memory, at, todo, target>>,
         \A t \in Threads, n \in Name : buffer'[Local(t, n)] = buffer[Local(t, n)],
         \A k \in Keys, n \in Name : buffer'[Stored(k, n)] = buffer[Stored(k, n)]
  PROVE  LoopsProgress'
  <1>1. ASSUME NEW t \in Threads, NEW n \in Name, at[t] # "outside"
        PROVE  Progress(t, n)' /\
               (at'[t] \in {"zero", "return"} =>
                  (buffer'[Stored(target'[t], "session")] = Nothing
                     <=> buffer'[Stored(target'[t], "export")] = Nothing))
    <2>1. target[t] \in Keys
      BY <1>1, WorkersAreAlone
    <2>2. Progress(t, n)'
      BY <2>1 DEF KeysInv, LoopsProgress, Progress, Left
    <2>3. QED
      BY <2>1, <2>2 DEF KeysInv, LoopsProgress, Name
  <1>2. \A t \in Threads, n \in Name : at[t] = "outside" => Progress(t, n)'
    BY DEF Progress, Wiping
  <1>3. QED
    BY <1>1, <1>2 DEF LoopsProgress, Name

(* A closure shares the key of an object that it locks.                    *)
LEMMA WithKeyKeepsInv ==
  ASSUME KeysInv, NEW t \in Threads, WithKey(t) PROVE KeysInv'
  <1>1. PICK k \in Usable, n \in Name :
          /\ owner[k] = Nothing
          /\ owner' = [owner EXCEPT ![k] = t]
          /\ buffer' = [buffer EXCEPT ![Param(k)] = buffer[Stored(k, n)]]
    BY DEF WithKey, Usable
  <1>2. UNCHANGED <<memory, at, todo, target, existing, disposed, Usable>>
    BY DEF WithKey, Usable
  <1>3. k \in Keys /\ Stored(k, n) \in Values /\ Param(k) \in Values /\ Stored(k, n) # Param(k)
    BY <1>1, ValuesAre, ValuesDiffer DEF Usable, KeysInv, KeysTypes
  <1>4. /\ buffer'[Param(k)] = buffer[Stored(k, n)] /\ buffer[Stored(k, n)] # Nothing
        /\ \A v \in Values \ {Param(k)} : buffer'[v] = buffer[v]
        /\ owner'[k] = t /\ \A l \in Keys \ {k} : owner'[l] = owner[l]
    BY <1>1, <1>3 DEF KeysInv, KeysTypes, ObjectsAreWhole
  <1>5. /\ \A u \in Threads, m \in Name : buffer'[Local(u, m)] = buffer[Local(u, m)]
        /\ \A l \in Keys, m \in Name : buffer'[Stored(l, m)] = buffer[Stored(l, m)]
        /\ \A l \in Keys \ {k} : buffer'[Param(l)] = buffer[Param(l)]
    BY <1>4, ValuesAre, ValuesDiffer
  <1>6. KeysTypes'
    BY <1>1, <1>2, <1>3 DEF KeysInv, KeysTypes
  <1>7. TargetsAreApart'
    <2>1. \A u \in Threads : at[u] \in Wiping => target[u] # k /\ target[u] \in Keys
      BY <1>1 DEF KeysInv, KeysTypes, TargetsAreApart, Usable
    <2>2. QED
      BY <1>2, <1>4, <2>1 DEF KeysInv, TargetsAreApart
  <1>8. ParametersAreLocked'
    <2>1. ASSUME NEW l \in Keys, buffer'[Param(l)] # Nothing
          PROVE  /\ l \in Usable' /\ owner'[l] # Nothing
                 /\ \E m \in Name : buffer'[Param(l)] = buffer'[Stored(l, m)]
      <3>1. CASE l = k
        BY <1>1, <1>2, <1>3, <1>4, <1>5, <3>1, NothingAssumption
      <3>2. CASE l # k
        <4>1. l \in Usable /\ owner[l] # Nothing
          BY <1>5, <2>1, <3>2 DEF KeysInv, ParametersAreLocked
        <4>2. PICK m \in Name : buffer[Param(l)] = buffer[Stored(l, m)]
          BY <1>5, <2>1, <3>2 DEF KeysInv, ParametersAreLocked
        <4>3. QED
          BY <1>2, <1>4, <1>5, <3>2, <4>1, <4>2
      <3>3. QED
        BY <3>1, <3>2
    <2>2. QED
      BY <1>2, <1>5, <2>1 DEF KeysInv, ParametersAreLocked
  <1>9. ObjectsAreWhole'
    BY <1>2, <1>5 DEF KeysInv, ObjectsAreWhole
  <1>10. LoopsProgress'
    BY <1>2, <1>5, WorkIsKept
  <1>11. ASSUME NEW x \in Values, NEW y \in Values, MayShare(x, y) PROVE MayShare(x, y)'
    <2>1. CASE \E u \in Threads, m \in Name :
                 at[u] \in {"share", "lock_memory"} /\ x = Local(u, m) /\ y = Stored(target[u], m)
      BY <1>2, <2>1 DEF MayShare
    <2>2. CASE \E l \in Usable, m \in Name :
                 owner[l] # Nothing /\ x = Param(l) /\ y = Stored(l, m)
      <3>1. PICK l \in Usable, m \in Name :
              owner[l] # Nothing /\ x = Param(l) /\ y = Stored(l, m)
        BY <2>2
      <3>2. owner'[l] # Nothing
        BY <1>1, <1>4, <3>1, NothingAssumption DEF Usable, KeysInv, KeysTypes
      <3>3. QED
        BY <1>2, <3>1, <3>2 DEF MayShare
    <2>3. QED
      BY <1>11, <2>1, <2>2 DEF MayShare
  <1>12. ASSUME NEW w \in Values, w # Param(k), buffer[w] = buffer[Stored(k, n)]
         PROVE  w = Stored(k, n)
    <2>1. SUFFICES ASSUME w # Stored(k, n) PROVE FALSE
      OBVIOUS
    <2>2. MayShare(w, Stored(k, n)) \/ MayShare(Stored(k, n), w)
      BY <1>3, <1>4, <1>12, <2>1 DEF KeysInv, BuffersAreApart
    <2>3. ~MayShare(Stored(k, n), w)
      BY ValuesDiffer DEF MayShare
    <2>4. \A u \in Threads : at[u] \in {"share", "lock_memory"} => target[u] # k
      BY <1>1 DEF KeysInv, TargetsAreApart, Finishing, Usable
    <2>5. ~MayShare(w, Stored(k, n))
      BY <1>1, <2>4, ValuesDiffer, NothingAssumption DEF MayShare
    <2>6. QED
      BY <2>2, <2>3, <2>5
  <1>13. BuffersAreApart'
    <2>1. MayShare(Param(k), Stored(k, n))'
      BY <1>1, <1>2, <1>4, NothingAssumption DEF MayShare
    <2>2. ASSUME NEW v \in Values, NEW w \in Values,
                 v # w, buffer'[v] # Nothing, buffer'[v] = buffer'[w]
          PROVE  MayShare(v, w)' \/ MayShare(w, v)'
      <3>1. CASE v = Param(k)
        <4>1. w = Stored(k, n)
          BY <1>4, <1>12, <2>2, <3>1
        <4>2. QED
          BY <2>1, <3>1, <4>1
      <3>2. CASE w = Param(k)
        <4>1. v = Stored(k, n)
          BY <1>4, <1>12, <2>2, <3>2
        <4>2. QED
          BY <2>1, <3>2, <4>1
      <3>3. CASE v # Param(k) /\ w # Param(k)
        BY <1>4, <1>11, <2>2, <3>3 DEF KeysInv, BuffersAreApart
      <3>4. QED
        BY <3>1, <3>2, <3>3
    <2>3. QED
      BY <2>2 DEF BuffersAreApart
  <1>14. NoStrayKeys'
    <2>1. buffer[Param(k)] = Nothing
      BY <1>1, <1>3 DEF KeysInv, ParametersAreLocked
    <2>2. Unused' \subseteq Unused
      BY <1>3, <1>4, <2>1, NothingAssumption DEF Unused, Sharing
    <2>3. QED
      BY <1>2, <2>2 DEF NoStrayKeys, KeysInv
  <1>15. QED
    BY <1>6, <1>7, <1>8, <1>9, <1>10, <1>13, <1>14 DEF KeysInv

(* The property still refers to the buffer that the closure leaves.        *)
LEMMA LeaveClosureKeepsInv ==
  ASSUME KeysInv, NEW t \in Threads, LeaveClosure(t) PROVE KeysInv'
  <1>1. PICK k \in Keys :
          /\ buffer[Param(k)] # Nothing /\ buffer' = [buffer EXCEPT ![Param(k)] = Nothing]
          /\ owner' = [owner EXCEPT ![k] = Nothing]
    BY DEF LeaveClosure
  <1>2. UNCHANGED <<memory, at, todo, target, existing, disposed, Usable>>
    BY DEF LeaveClosure, Usable
  <1>3. k \in Usable /\ \E n \in Name : buffer[Param(k)] = buffer[Stored(k, n)]
    BY <1>1 DEF KeysInv, ParametersAreLocked
  <1>4. /\ buffer'[Param(k)] = Nothing
        /\ \A v \in Values \ {Param(k)} : buffer'[v] = buffer[v]
        /\ \A l \in Keys \ {k} : owner'[l] = owner[l]
    BY <1>1, ValuesAre DEF KeysInv, KeysTypes
  <1>5. /\ \A u \in Threads, m \in Name : buffer'[Local(u, m)] = buffer[Local(u, m)]
        /\ \A l \in Keys, m \in Name : buffer'[Stored(l, m)] = buffer[Stored(l, m)]
        /\ \A l \in Keys \ {k} : buffer'[Param(l)] = buffer[Param(l)]
    BY <1>4, ValuesAre, ValuesDiffer
  <1>6. KeysTypes'
    <2>1. owner' \in [Keys -> Threads \cup {Nothing}]
      BY <1>1 DEF KeysInv, KeysTypes
    <2>2. buffer' \in [Values -> Buffers \cup {Nothing}]
      BY <1>1 DEF KeysInv, KeysTypes
    <2>3. QED
      BY <1>2, <2>1, <2>2 DEF KeysInv, KeysTypes
  <1>7. TargetsAreApart'
    <2>1. \A u \in Threads : at[u] \in Wiping => target[u] \in Keys \ {k}
      BY <1>3, WorkersAreAlone DEF Wiping, Alone
    <2>2. \A u \in Threads : at[u] \in Wiping => target[u] \in disposed /\ owner'[target[u]] = u
      BY <1>4, <2>1 DEF KeysInv, TargetsAreApart
    <2>3. QED
      BY <1>2, <2>2 DEF KeysInv, TargetsAreApart
  <1>8. ParametersAreLocked'
    <2>1. ASSUME NEW l \in Keys, buffer'[Param(l)] # Nothing
          PROVE  /\ l \in Usable' /\ owner'[l] # Nothing
                 /\ \E m \in Name : buffer'[Param(l)] = buffer'[Stored(l, m)]
      <3>1. l # k
        BY <1>4, <2>1
      <3>2. l \in Usable /\ owner[l] # Nothing
        BY <1>5, <2>1, <3>1 DEF KeysInv, ParametersAreLocked
      <3>3. PICK m \in Name : buffer[Param(l)] = buffer[Stored(l, m)]
        BY <1>5, <2>1, <3>1 DEF KeysInv, ParametersAreLocked
      <3>4. QED
        BY <1>2, <1>4, <1>5, <3>1, <3>2, <3>3
    <2>2. QED
      BY <1>2, <1>5, <2>1 DEF KeysInv, ParametersAreLocked
  <1>9. ObjectsAreWhole'
    BY <1>2, <1>5 DEF KeysInv, ObjectsAreWhole
  <1>10. LoopsProgress'
    BY <1>2, <1>5, WorkIsKept
  <1>11. ASSUME NEW x \in Values, x # Param(k), NEW y \in Values, MayShare(x, y)
         PROVE  MayShare(x, y)'
    <2>1. CASE \E u \in Threads, m \in Name :
                 at[u] \in {"share", "lock_memory"} /\ x = Local(u, m) /\ y = Stored(target[u], m)
      BY <1>2, <2>1 DEF MayShare
    <2>2. CASE \E l \in Usable, m \in Name :
                 owner[l] # Nothing /\ x = Param(l) /\ y = Stored(l, m)
      <3>1. PICK l \in Usable, m \in Name :
              owner[l] # Nothing /\ x = Param(l) /\ y = Stored(l, m)
        BY <2>2
      <3>2. owner'[l] # Nothing
        BY <1>4, <1>11, <3>1 DEF Usable, KeysInv, KeysTypes
      <3>3. QED
        BY <1>2, <3>1, <3>2 DEF MayShare
    <2>3. QED
      BY <1>11, <2>1, <2>2 DEF MayShare
  <1>12. BuffersAreApart'
    <2>1. ASSUME NEW v \in Values, NEW w \in Values,
                 v # w, buffer'[v] # Nothing, buffer'[v] = buffer'[w]
          PROVE  MayShare(v, w)' \/ MayShare(w, v)'
      <3>1. v # Param(k) /\ w # Param(k)
        BY <1>4, <2>1
      <3>2. MayShare(v, w) \/ MayShare(w, v)
        BY <1>4, <2>1, <3>1 DEF KeysInv, BuffersAreApart
      <3>3. QED
        BY <1>11, <3>1, <3>2
    <2>2. QED
      BY <2>1 DEF BuffersAreApart
  <1>13. NoStrayKeys'
    <2>1. PICK n \in Name : buffer[Param(k)] = buffer[Stored(k, n)]
      BY <1>3
    <2>2. Stored(k, n) \in Values \ {Param(k)}
      BY ValuesAre, ValuesDiffer
    <2>3. Unused' \subseteq Unused
      BY <1>4, <2>1, <2>2 DEF Unused, Sharing
    <2>4. QED
      BY <1>2, <2>3 DEF NoStrayKeys, KeysInv
  <1>14. QED
    BY <1>6, <1>7, <1>8, <1>9, <1>10, <1>12, <1>13 DEF KeysInv

(* An object that was disposed of has no buffers.                          *)
LEMMA ReleaseKeepsInv ==
  ASSUME KeysInv, NEW t \in Threads, Release(t) PROVE KeysInv'
  <1>1. PICK k \in existing \cap disposed :
          /\ \A u \in Threads : target[u] # k
          /\ existing' = existing \ {k} /\ disposed' = disposed \ {k}
          /\ UNCHANGED <<memory, buffer, at, todo, target, owner>>
    BY DEF Release
  <1>2. Usable' = Usable
    <2>1. \A l : l \in Usable' <=> l \in Usable
      BY <1>1 DEF Usable
    <2>2. QED
      BY <2>1 DEF Usable
  <1>3. KeysTypes'
    BY <1>1 DEF KeysInv, KeysTypes
  <1>4. TargetsAreApart'
    BY <1>1 DEF KeysInv, TargetsAreApart
  <1>5. ParametersAreLocked' /\ ObjectsAreWhole'
    BY <1>1, <1>2 DEF KeysInv, ParametersAreLocked, ObjectsAreWhole
  <1>6. LoopsProgress'
    BY <1>1, WorkIsKept
  <1>7. BuffersAreApart'
    BY <1>1, <1>2 DEF KeysInv, BuffersAreApart, MayShare
  <1>8. NoStrayKeys'
    BY <1>1 DEF KeysInv, NoStrayKeys, Unused, Sharing
  <1>9. QED
    BY <1>3, <1>4, <1>5, <1>6, <1>7, <1>8 DEF KeysInv

-----------------------------------------------------------------------------
(* dispose, step by step.                                                  *)

(* No closure is running, for the lock was free.                           *)
LEMMA DisposeKeepsInv ==
  ASSUME KeysInv, NEW t \in Threads, Dispose(t) PROVE KeysInv'
  <1>1. PICK k \in Usable :
          /\ at[t] = "outside" /\ owner[k] = Nothing
          /\ owner' = [owner EXCEPT ![k] = t] /\ disposed' = disposed \cup {k}
          /\ target' = [target EXCEPT ![t] = k]
          /\ at' = [at EXCEPT ![t] = "wipe"] /\ todo' = [todo EXCEPT ![t] = Names]
          /\ UNCHANGED <<memory, buffer, existing>>
    BY Zenon DEF Dispose, Usable, Goto
  <1>2. k \in Keys /\ k \in existing /\ k \notin disposed /\ Usable' = Usable \ {k}
    BY <1>1, Zenon DEF Usable, KeysInv, KeysTypes
  <1>3. /\ at'[t] = "wipe" /\ todo'[t] = Names /\ target'[t] = k
        /\ \A u \in Threads \ {t} : at'[u] = at[u] /\ todo'[u] = todo[u] /\ target'[u] = target[u]
        /\ owner'[k] = t /\ \A l \in Keys \ {k} : owner'[l] = owner[l]
    BY <1>1, <1>2 DEF KeysInv, KeysTypes
  <1>4. \A u \in Threads : target[u] # k
    BY <1>2, NothingAssumption DEF KeysInv, KeysTypes, TargetsAreApart
  <1>5. KeysTypes'
    <2>1. /\ at' \in [Threads -> {"outside"} \cup Finishing \cup Wiping] /\ DOMAIN todo' = Threads
          /\ target' \in [Threads -> Keys \cup {Nothing}]
          /\ owner' \in [Keys -> Threads \cup {Nothing}]
      BY <1>1, <1>2 DEF KeysInv, KeysTypes, Wiping
    <2>2. QED
      BY <1>1, <1>2, <1>3, <2>1 DEF KeysInv, KeysTypes
  <1>6. TargetsAreApart'
    <2>1. \A u \in Threads : target'[u] = Nothing <=> at'[u] = "outside"
      BY <1>2, <1>3, NothingAssumption DEF KeysInv, TargetsAreApart
    <2>2. \A u, w \in Threads : u # w /\ target'[u] # Nothing => target'[u] # target'[w]
      BY <1>3, <1>4 DEF KeysInv, TargetsAreApart
    <2>3. \A u \in Threads : at'[u] \in Finishing => target'[u] \notin existing'
      BY <1>1, <1>3 DEF KeysInv, TargetsAreApart, Finishing
    <2>4. \A u \in Threads : at'[u] \in Wiping => target'[u] \in disposed' /\ owner'[target'[u]] = u
      BY <1>1, <1>3, <1>4 DEF KeysInv, KeysTypes, TargetsAreApart
    <2>5. QED
      BY <2>1, <2>2, <2>3, <2>4 DEF TargetsAreApart
  <1>7. ParametersAreLocked'
    <2>1. \A u \in Threads, n \in Name :
            buffer'[Local(u, n)] = Nothing <=> at'[u] \notin Finishing
      BY <1>1, <1>3 DEF KeysInv, ParametersAreLocked, Finishing
    <2>2. ASSUME NEW l \in Keys, buffer'[Param(l)] # Nothing
          PROVE  /\ l \in Usable' /\ owner'[l] # Nothing
                 /\ \E m \in Name : buffer'[Param(l)] = buffer'[Stored(l, m)]
      <3>1. /\ l \in Usable /\ owner[l] # Nothing
            /\ \E m \in Name : buffer[Param(l)] = buffer[Stored(l, m)]
        BY <1>1, <2>2 DEF KeysInv, ParametersAreLocked
      <3>2. QED
        BY <1>1, <1>2, <1>3, <3>1
    <2>3. QED
      BY <2>1, <2>2 DEF ParametersAreLocked
  <1>8. ObjectsAreWhole'
    <2>1. ASSUME NEW l \in Keys, \A u \in Threads : target'[u] # l
          PROVE  l # k /\ \A u \in Threads : target[u] # l
      BY <1>1, <1>3, <2>1, NothingAssumption DEF KeysInv, TargetsAreApart
    <2>2. QED
      BY <1>1, <1>2, <2>1 DEF KeysInv, ObjectsAreWhole
  <1>9. LoopsProgress'
    <2>1. \A n \in Name : Progress(t, n)'
      <3>1. \A n \in Name : buffer'[Stored(k, n)] # Nothing /\ Left(t, n)'
        BY <1>1, <1>2, <1>3 DEF KeysInv, ObjectsAreWhole, Left
      <3>2. QED
        BY <1>3, <3>1 DEF Progress, Wiping
    <2>2. \A u \in Threads \ {t}, n \in Name : Progress(u, n)'
      BY <1>1, <1>3 DEF KeysInv, LoopsProgress, Progress, Left
    <2>3. ASSUME NEW u \in Threads, at'[u] \in {"zero", "return"}
          PROVE  buffer'[Stored(target'[u], "session")] = Nothing
                   <=> buffer'[Stored(target'[u], "export")] = Nothing
      BY <1>1, <1>3, <2>3 DEF KeysInv, LoopsProgress
    <2>4. QED
      BY <2>1, <2>2, <2>3 DEF LoopsProgress
  <1>10. BuffersAreApart'
    <2>1. ASSUME NEW x, NEW y, MayShare(x, y) PROVE MayShare(x, y)'
      <3>1. CASE \E u \in Threads, m \in Name :
                   at[u] \in {"share", "lock_memory"} /\ x = Local(u, m) /\ y = Stored(target[u], m)
        BY <1>1, <1>3, <3>1 DEF MayShare
      <3>2. CASE \E l \in Usable, m \in Name :
                   owner[l] # Nothing /\ x = Param(l) /\ y = Stored(l, m)
        <4>1. PICK l \in Usable, m \in Name :
                owner[l] # Nothing /\ x = Param(l) /\ y = Stored(l, m)
          BY <3>2
        <4>2. l \in Keys \ {k}
          BY <1>1, <4>1, NothingAssumption DEF Usable, KeysInv, KeysTypes
        <4>3. QED
          BY <1>2, <1>3, <4>1, <4>2 DEF MayShare
      <3>3. QED
        BY <2>1, <3>1, <3>2 DEF MayShare
    <2>2. QED
      BY <1>1, <2>1 DEF KeysInv, BuffersAreApart
  <1>11. NoStrayKeys'
    BY <1>1 DEF KeysInv, NoStrayKeys, Unused, Sharing
  <1>12. QED
    BY <1>5, <1>6, <1>7, <1>8, <1>9, <1>10, <1>11 DEF KeysInv

(* No closure can share the property that is zeroed.                       *)
LEMMA WipeKeepsInv ==
  ASSUME KeysInv, NEW t \in Threads, Wipe(t) PROVE KeysInv'
  <1> DEFINE k == target[t]
             h == Head(todo[t])
             v == Stored(k, h)
  <1>1. /\ at[t] = "wipe" /\ WithMutableBytes(v, "zeros") /\ Round(t, "clear", <<>>)
        /\ UNCHANGED <<target, existing, disposed, owner>>
    BY DEF Wipe
  <1>2. k \in Keys /\ Alone(t, k) /\ OwnInv(t)
    BY <1>1, WorkersAreAlone
  <1>3. h \in Name
    BY <1>1, NamesAre DEF KeysInv, KeysTypes, Looping, Name
  <1>4. /\ v \in Mine(t, k) /\ buffer[v] # Nothing
        /\ \A n \in Name : buffer[Local(t, n)] = Nothing /\ buffer[Stored(k, n)] # Nothing
    BY <1>1, <1>2, <1>3 DEF Mine, OwnInv, Progress, Finishing, Wiping
  <1>5. \A w \in Mine(t, k) \ {v} : buffer[w] # buffer[v]
    BY <1>2, <1>3, <1>4 DEF Mine, OwnInv, Distinct
  <1>6. /\ KeysTypes' /\ TargetsAreApart' /\ Works(t, k) /\ NoStrayKeys'
        /\ buffer' = buffer /\ memory'[buffer[v]] = "zeros"
        /\ \A b \in Buffers \ {buffer[v]} : memory'[b] = memory[b]
        /\ \/ /\ todo[t] = Names /\ Head(todo[t]) = "session"
              /\ at'[t] = at[t] /\ todo'[t] = <<"export">>
           \/ /\ todo[t] = <<"export">> /\ Head(todo[t]) = "export"
              /\ at'[t] = "clear"
    BY <1>1, <1>4, <1>5, ZeroingRound
  <1>7. ASSUME NEW n \in Name PROVE Progress(t, n)'
    <2>1. ASSUME n # h, ~Left(t, n) \/ at'[t] = "clear" PROVE memory'[buffer[Stored(k, n)]] = "zeros"
      <3>1. ~Left(t, n)
        BY <1>1, <1>6, <2>1, NamesAre DEF Left, Name
      <3>2. memory[buffer[Stored(k, n)]] = "zeros"
        BY <1>1, <1>2, <3>1 DEF OwnInv, Progress
      <3>3. Stored(k, n) \in Mine(t, k) \ {v} /\ buffer[Stored(k, n)] \in Buffers
        BY <1>2, <1>4, <2>1, ValuesAre, ValuesDiffer DEF Mine, KeysInv, KeysTypes
      <3>4. QED
        BY <1>5, <1>6, <3>2, <3>3
    <2>2. at'[t] = "wipe" /\ ~Left(t, n)' => memory'[buffer'[Stored(k, n)]] = "zeros"
      BY <1>6 DEF Left, Name
    <2>3. at'[t] = "clear" => memory'[buffer'[Stored(k, n)]] = "zeros"
      BY <1>6, <2>1
    <2>4. target'[t] = k /\ at'[t] \in {"wipe", "clear"}
      BY <1>1, <1>6
    <2>5. QED
      BY <1>4, <1>6, <2>2, <2>3, <2>4 DEF Progress, Wiping
  <1>8. OwnInv(t)'
    <2>1. target'[t] = k /\ at'[t] \in {"wipe", "clear"} /\ buffer' = buffer
      BY <1>1, <1>6
    <2>2. Distinct(t, target[t])'
      BY <1>2, <1>4, <2>1 DEF OwnInv, Distinct
    <2>3. QED
      BY <1>4, <1>7, <2>1, <2>2 DEF OwnInv, Finishing
  <1>9. QED
    BY <1>2, <1>6, <1>8, WorkKeepsInv

(* Both properties were zeroed.                                            *)
LEMMA ClearKeepsInv ==
  ASSUME KeysInv, NEW t \in Threads, Clear(t) PROVE KeysInv'
  <1> DEFINE k  == target[t]
             ss == Stored(k, "session")
             se == Stored(k, "export")
  <1>1. /\ at[t] = "clear" /\ buffer' = [buffer EXCEPT ![ss] = Nothing, ![se] = Nothing]
        /\ owner' = [owner EXCEPT ![k] = IF @ = t THEN Nothing ELSE @]
        /\ target' = [target EXCEPT ![t] = Nothing]
        /\ at' = [at EXCEPT ![t] = "outside"] /\ todo' = [todo EXCEPT ![t] = <<>>]
        /\ memory' = memory /\ existing' = existing /\ disposed' = disposed
    BY DEF Clear, Goto
  <1>2. k \in Keys /\ Alone(t, k) /\ OwnInv(t) /\ owner[k] = t
    BY <1>1, WorkersAreAlone DEF KeysInv, TargetsAreApart, Wiping
  <1>3. ss \in Values /\ se \in Values /\ \A n \in Name : Stored(k, n) \in {ss, se}
    BY <1>2, ValuesAre DEF Name
  <1>4. /\ \A n \in Name : buffer'[Stored(k, n)] = Nothing
        /\ \A v \in Values : (\A n \in Name : v # Stored(k, n)) => buffer'[v] = buffer[v]
        /\ target'[t] = Nothing /\ \A u \in Threads \ {t} : target'[u] = target[u]
        /\ at'[t] = "outside" /\ \A u \in Threads \ {t} : at'[u] = at[u] /\ todo'[u] = todo[u]
        /\ \A l \in Keys \ {k} : owner'[l] = owner[l]
    BY <1>1, <1>2, <1>3 DEF KeysInv, KeysTypes, Name
  <1>5. /\ \A u \in Threads, n \in Name : buffer'[Local(u, n)] = buffer[Local(u, n)]
        /\ \A l \in Keys \ {k}, n \in Name : buffer'[Stored(l, n)] = buffer[Stored(l, n)]
        /\ \A l \in Keys : buffer'[Param(l)] = buffer[Param(l)]
    BY <1>4, ValuesAre, ValuesDiffer
  <1>6. Usable' = Usable /\ k \notin Usable
    BY <1>1, <1>2 DEF Usable, Alone
  <1>7. KeysTypes'
    BY <1>1, <1>2, <1>4 DEF KeysInv, KeysTypes, Looping
  <1>8. TargetsAreApart'
    <2>1. \A u \in Threads \ {t} : at[u] \in Wiping => target[u] \in Keys \ {k}
      BY <1>2, WorkersAreAlone DEF Alone, Wiping
    <2>2. \A u \in Threads : at'[u] \in Wiping => target'[u] \in disposed /\ owner'[target'[u]] = u
      BY <1>4, <2>1 DEF KeysInv, TargetsAreApart, Wiping
    <2>3. QED
      BY <1>1, <1>4, <2>2 DEF KeysInv, TargetsAreApart, Finishing
  <1>9. ParametersAreLocked'
    <2>1. \A u \in Threads, n \in Name :
            buffer'[Local(u, n)] = Nothing <=> at'[u] \notin Finishing
      <3>1. \A u \in Threads : at'[u] \in Finishing <=> at[u] \in Finishing
        BY <1>1, <1>4 DEF Finishing
      <3>2. QED
        BY <1>5, <3>1 DEF KeysInv, ParametersAreLocked
    <2>2. ASSUME NEW l \in Keys, buffer'[Param(l)] # Nothing
          PROVE  /\ l \in Usable' /\ owner'[l] # Nothing
                 /\ \E n \in Name : buffer'[Param(l)] = buffer'[Stored(l, n)]
      <3>1. l \in Usable /\ owner[l] # Nothing
        BY <1>5, <2>2 DEF KeysInv, ParametersAreLocked
      <3>2. PICK n \in Name : buffer[Param(l)] = buffer[Stored(l, n)]
        BY <1>5, <2>2 DEF KeysInv, ParametersAreLocked
      <3>3. l # k
        BY <1>6, <3>1
      <3>4. QED
        BY <1>4, <1>5, <1>6, <3>1, <3>2, <3>3
    <2>3. QED
      BY <2>1, <2>2 DEF ParametersAreLocked
  <1>10. ObjectsAreWhole'
    <2>1. ASSUME NEW l \in Keys, NEW n \in Name
          PROVE  /\ l \in Usable' => /\ buffer'[Stored(l, n)] # Nothing
                                     /\ memory'[buffer'[Stored(l, n)]] = "key"
                 /\ l \notin Usable' /\ (\A u \in Threads : target'[u] # l)
                      => buffer'[Stored(l, n)] = Nothing
      <3>1. CASE l = k
        BY <1>4, <1>6, <3>1
      <3>2. CASE l # k
        <4>1. (\A u \in Threads : target'[u] # l) => \A u \in Threads : target[u] # l
          BY <1>4, <3>2
        <4>2. buffer'[Stored(l, n)] = buffer[Stored(l, n)] /\ memory' = memory
          BY <1>1, <1>5, <3>2
        <4>3. QED
          BY <1>6, <4>1, <4>2 DEF KeysInv, ObjectsAreWhole
      <3>3. QED
        BY <3>1, <3>2
    <2>2. QED
      BY <2>1 DEF ObjectsAreWhole
  <1>11. LoopsProgress'
    <2>1. ASSUME NEW u \in Threads, NEW n \in Name, at'[u] # "outside"
          PROVE  Progress(u, n)' /\
                 (at'[u] \in {"zero", "return"} =>
                    (buffer'[Stored(target'[u], "session")] = Nothing
                       <=> buffer'[Stored(target'[u], "export")] = Nothing))
      <3>1. /\ u # t /\ at'[u] = at[u] /\ todo'[u] = todo[u] /\ target'[u] = target[u]
            /\ target[u] \in Keys \ {k}
        BY <1>2, <1>4, <2>1, WorkersAreAlone DEF Alone
      <3>2. /\ \A m \in Name : buffer'[Stored(target[u], m)] = buffer[Stored(target[u], m)]
            /\ buffer'[Local(u, n)] = buffer[Local(u, n)] /\ memory' = memory
        BY <1>1, <1>5, <3>1
      <3>3. Progress(u, n)'
        BY <3>1, <3>2 DEF KeysInv, LoopsProgress, Progress, Left
      <3>4. QED
        BY <3>1, <3>2, <3>3 DEF KeysInv, LoopsProgress, Name
    <2>2. \A u \in Threads, n \in Name : at'[u] = "outside" => Progress(u, n)'
      BY DEF Progress, Wiping
    <2>3. QED
      BY <2>1, <2>2 DEF LoopsProgress, Name
  <1>12. BuffersAreApart'
    <2>1. ASSUME NEW v \in Values, NEW w \in Values,
                 v # w, buffer'[v] # Nothing, buffer'[v] = buffer'[w]
          PROVE  MayShare(v, w)' \/ MayShare(w, v)'
      <3>1. buffer'[v] = buffer[v] /\ buffer'[w] = buffer[w]
        BY <1>4, <2>1
      <3>2. MayShare(v, w) \/ MayShare(w, v)
        BY <2>1, <3>1 DEF KeysInv, BuffersAreApart
      <3>3. ASSUME NEW x, NEW y, MayShare(x, y) PROVE MayShare(x, y)'
        <4>1. CASE \E u \in Threads, n \in Name :
                     /\ at[u] \in {"share", "lock_memory"}
                     /\ x = Local(u, n) /\ y = Stored(target[u], n)
          BY <1>1, <1>4, <4>1 DEF MayShare
        <4>2. CASE \E l \in Usable, n \in Name :
                     owner[l] # Nothing /\ x = Param(l) /\ y = Stored(l, n)
          <5>1. PICK l \in Usable, n \in Name :
                  owner[l] # Nothing /\ x = Param(l) /\ y = Stored(l, n)
            BY <4>2
          <5>2. owner'[l] # Nothing
            BY <1>4, <1>6, <5>1 DEF Usable, KeysInv, KeysTypes
          <5>3. QED
            BY <1>6, <5>1, <5>2 DEF MayShare
        <4>3. QED
          BY <3>3, <4>1, <4>2 DEF MayShare
      <3>4. QED
        BY <3>2, <3>3
    <2>2. QED
      BY <2>1 DEF BuffersAreApart
  <1>13. NoStrayKeys'
    <2>1. ASSUME NEW b \in Buffers, \A v \in Values : buffer'[v] # b
          PROVE  memory'[b] = "zeros"
      <3>1. CASE \E n \in Name : buffer[Stored(k, n)] = b
        BY <1>1, <1>2, <3>1 DEF OwnInv, Progress
      <3>2. CASE \A n \in Name : buffer[Stored(k, n)] # b
        <4>1. b \in Unused
          BY <1>4, <2>1, <3>2 DEF Unused, Sharing
        <4>2. QED
          BY <1>1, <4>1 DEF KeysInv, NoStrayKeys
      <3>3. QED
        BY <3>1, <3>2
    <2>2. QED
      BY <2>1 DEF NoStrayKeys, Unused, Sharing
  <1>14. QED
    BY <1>7, <1>8, <1>9, <1>10, <1>11, <1>12, <1>13 DEF KeysInv

-----------------------------------------------------------------------------
(* The invariant, and the theorems.                                        *)

(* No value has a buffer.                                                  *)
LEMMA KeysInvInit ==
  Init => KeysInv
  <1> SUFFICES ASSUME Init PROVE KeysInv
    OBVIOUS
  <1>1. KeysTypes
    BY DEF Init, KeysTypes, Looping
  <1>2. TargetsAreApart
    BY DEF Init, TargetsAreApart, Finishing, Wiping
  <1>3. \A v \in Values : buffer[v] = Nothing
    BY DEF Init
  <1>4. ParametersAreLocked
    BY <1>3, ValuesAre DEF Init, ParametersAreLocked, Finishing
  <1>5. ObjectsAreWhole
    BY <1>3, ValuesAre DEF Init, ObjectsAreWhole, Usable
  <1>6. LoopsProgress
    BY DEF Init, LoopsProgress, Progress, Wiping
  <1>7. BuffersAreApart
    BY <1>3 DEF BuffersAreApart
  <1>8. NoStrayKeys
    BY DEF Init, NoStrayKeys, Unused
  <1>9. QED
    BY <1>1, <1>2, <1>4, <1>5, <1>6, <1>7, <1>8 DEF KeysInv

(* Every step preserves KeysInv.                                           *)
LEMMA KeysInvNext ==
  KeysInv /\ [Next]_vars => KeysInv'
  <1> SUFFICES ASSUME KeysInv, [Next]_vars PROVE KeysInv'
    OBVIOUS
  <1>1. ASSUME NEW t \in Threads,
               Finish(t) \/ FinishCall(t) \/ Share(t) \/ LockMemory(t) \/ ZeroLocal(t)
        PROVE  KeysInv'
    BY <1>1, FinishKeepsInv, FinishCallKeepsInv, ShareKeepsInv, LockMemoryKeepsInv,
       ZeroLocalKeepsInv
  <1>2. ASSUME NEW t \in Threads, FinishReturn(t) PROVE KeysInv'
    BY <1>2, FinishReturnKeepsInv
  <1>3. ASSUME NEW t \in Threads, WithKey(t) \/ LeaveClosure(t) PROVE KeysInv'
    BY <1>3, WithKeyKeepsInv, LeaveClosureKeepsInv
  <1>4. ASSUME NEW t \in Threads, Dispose(t) \/ Wipe(t) \/ Clear(t) \/ Release(t)
        PROVE  KeysInv'
    BY <1>4, DisposeKeepsInv, WipeKeepsInv, ClearKeepsInv, ReleaseKeepsInv
  <1>5. CASE UNCHANGED vars
    BY <1>5 DEF vars, KeysInv, KeysTypes, TargetsAreApart, ParametersAreLocked, ObjectsAreWhole,
       LoopsProgress, Progress, Left, BuffersAreApart, MayShare, NoStrayKeys, Usable, Unused,
       Sharing
  <1>6. QED
    BY <1>1, <1>2, <1>3, <1>4, <1>5 DEF Next

(* Every reachable state satisfies KeysInv.                                *)
LEMMA KeysInvariant ==
  Spec => []KeysInv
  BY KeysInvInit, KeysInvNext, PTL DEF Spec

(* finish, the closures and dispose leave no key in memory that nothing    *)
(* refers to any more, however many threads and objects there are, which   *)
(* of them share a buffer and whether opaque_agent_finish succeeded.       *)
THEOREM NoKeyIsLeft ==
  Spec => []NoStrayKeys
  <1>1. KeysInv => NoStrayKeys
    BY DEF KeysInv
  <1>2. QED
    BY <1>1, KeysInvariant, PTL

(* Zeroing the local copies of finish, or the properties of another        *)
(* object, never destroys a key that an object still has to hand out or    *)
(* that a closure is reading.                                              *)
THEOREM KeysSurvive ==
  Spec => []KeysSurviveFinish
  <1>1. ASSUME KeysInv PROVE KeysSurviveFinish
    <2>1. \A k \in Usable, n \in Name :
            buffer[Stored(k, n)] # Nothing /\ memory[buffer[Stored(k, n)]] = "key"
      BY <1>1 DEF KeysInv, KeysTypes, ObjectsAreWhole, Usable
    <2>2. \A k \in Keys : buffer[Param(k)] # Nothing => memory[buffer[Param(k)]] = "key"
      BY <1>1, <2>1 DEF KeysInv, ParametersAreLocked
    <2>3. QED
      BY <2>1, <2>2 DEF KeysSurviveFinish, Usable
  <1>2. QED
    BY <1>1, KeysInvariant, PTL
=============================================================================
