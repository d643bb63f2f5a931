------------------------- MODULE FfiArgumentsProofs -------------------------
(***************************************************************************)
(* Proofs about FfiArguments, for every word size and all lengths.         *)
(***************************************************************************)
EXTENDS FfiArguments, TLAPS

(* What an address range has to be for ranges_overlap to be right.         *)
IsRange(r) == r.at \in Nat /\ r.len \in Nat

(* ranges_overlap finds a common byte, an end that is no address, and      *)
(* nothing else, for non-empty ranges that begin at an address.            *)
LEMMA OverlapExact ==
  ASSUME NEW l, NEW r, IsRange(l), IsRange(r), l.at \in Addresses, r.at \in Addresses
  PROVE  RangesOverlap(l, r) <=>
           /\ l.len > 0 /\ r.len > 0
           /\ \/ Bytes(l) \cap Bytes(r) # {}
              \/ l.at + l.len \notin Addresses
              \/ r.at + r.len \notin Addresses
<1>1. CASE l.len = 0 \/ r.len = 0
  BY <1>1 DEF RangesOverlap, IsRange
<1>2. CASE l.len # 0 /\ r.len # 0 /\ l.at + l.len \in Addresses /\ r.at + r.len \in Addresses
  <2>1. ASSUME l.at < r.at + r.len, r.at < l.at + l.len
        PROVE  Bytes(l) \cap Bytes(r) # {}
    <3>1. CASE l.at <= r.at
      <4>1. r.at \in Bytes(l) \cap Bytes(r)
        BY <2>1, <3>1, <1>2, WordAssumption DEF Bytes, IsRange, Addresses
      <4> QED BY <4>1
    <3>2. CASE r.at < l.at
      <4>1. l.at \in Bytes(l) \cap Bytes(r)
        BY <2>1, <3>2, <1>2, WordAssumption DEF Bytes, IsRange, Addresses
      <4> QED BY <4>1
    <3> QED BY <3>1, <3>2 DEF IsRange
  <2>2. ASSUME NEW a, a \in Bytes(l), a \in Bytes(r)
        PROVE  l.at < r.at + r.len /\ r.at < l.at + l.len
    BY <2>2, WordAssumption DEF Bytes, IsRange, Addresses
  <2>3. Bytes(l) \cap Bytes(r) # {} <=> l.at < r.at + r.len /\ r.at < l.at + l.len
    BY <2>1, <2>2
  <2>4. RangesOverlap(l, r) <=> l.at < r.at + r.len /\ r.at < l.at + l.len
    BY <1>2, WordAssumption DEF RangesOverlap, IsRange, Addresses
  <2>5. l.len > 0 /\ r.len > 0
    BY <1>2 DEF IsRange
  <2> QED BY <2>3, <2>4, <2>5, <1>2
<1>3. CASE l.len # 0 /\ r.len # 0 /\ (l.at + l.len \notin Addresses \/ r.at + r.len \notin Addresses)
  BY <1>3, WordAssumption DEF RangesOverlap, IsRange, Addresses
<1> QED BY <1>1, <1>2, <1>3

(* Ranges that ranges_overlap lets pass are disjoint.                      *)
LEMMA Disjoint ==
  ASSUME NEW l, NEW r, IsRange(l), IsRange(r), ~RangesOverlap(l, r), NEW a
  PROVE  ~(a \in Bytes(l) /\ a \in Bytes(r))
BY WordAssumption DEF RangesOverlap, Bytes, IsRange, Addresses

-----------------------------------------------------------------------------
(* What the proofs need to know about the table of entry points.           *)
EntryOK(entry) ==
  /\ entry.slot \in BOOLEAN
  /\ \A j \in DOMAIN entry.outs : j \in {1, 2} /\ entry.outs[j] \in Nat \ {0}
  /\ 2 \in DOMAIN entry.outs => 1 \in DOMAIN entry.outs
  /\ entry.slot => 1 \in DOMAIN entry.outs /\ 2 \notin DOMAIN entry.outs
                   /\ entry.outs[1] = HandleSize

(* An entry point with one output.                                         *)
LEMMA OneOutput ==
  ASSUME NEW entry, NEW n \in Nat \ {0}, entry.outs = <<n>>,
         entry.slot \in BOOLEAN, entry.slot => n = HandleSize
  PROVE  EntryOK(entry) /\ 1 \in DOMAIN entry.outs
BY DEF EntryOK

(* The table of entry points is as the proofs need it.                     *)
LEMMA EntryTypes ==
  ASSUME NEW entry \in Entries \cup {NoEntry}
  PROVE  EntryOK(entry) /\ (entry # NoEntry => 1 \in DOMAIN entry.outs)
<1> USE LengthsAssumption DEF Lengths
<1>1. CASE entry = AgentCreateRegistrationRequest
  <2>1. entry.outs = <<RequestLength>> /\ entry.slot = FALSE /\ RequestLength \in Nat \ {0}
    BY <1>1 DEF AgentCreateRegistrationRequest
  <2> QED BY <2>1, OneOutput
<1>2. CASE entry = AgentFinalizeRegistration
  <2>1. entry.outs = <<RecordLength>> /\ entry.slot = FALSE /\ RecordLength \in Nat \ {0}
    BY <1>2 DEF AgentFinalizeRegistration
  <2> QED BY <2>1, OneOutput
<1>3. CASE entry = AgentGenerateKe1
  <2>1. entry.outs = <<Ke1Length>> /\ entry.slot = FALSE /\ Ke1Length \in Nat \ {0}
    BY <1>3 DEF AgentGenerateKe1
  <2> QED BY <2>1, OneOutput
<1>4. CASE entry = AgentGenerateKe3
  <2>1. entry.outs = <<Ke3Length>> /\ entry.slot = FALSE /\ Ke3Length \in Nat \ {0}
    BY <1>4 DEF AgentGenerateKe3
  <2> QED BY <2>1, OneOutput
<1>5. CASE entry = RelayCreateRegistrationResponse
  <2>1. entry.outs = <<ResponseLength>> /\ entry.slot = FALSE /\ ResponseLength \in Nat \ {0}
    BY <1>5 DEF RelayCreateRegistrationResponse
  <2> QED BY <2>1, OneOutput
<1>6. CASE entry = RelayBuildCredentials
  <2>1. entry.outs = <<RecordLength>> /\ entry.slot = FALSE /\ RecordLength \in Nat \ {0}
    BY <1>6 DEF RelayBuildCredentials
  <2> QED BY <2>1, OneOutput
<1>7. CASE entry = RelayGenerateKe2
  <2>1. entry.outs = <<Ke2Length>> /\ entry.slot = FALSE /\ Ke2Length \in Nat \ {0}
    BY <1>7 DEF RelayGenerateKe2
  <2> QED BY <2>1, OneOutput
<1>8. CASE entry = RelayFinish
  <2>1. entry.outs = <<HashLength>> /\ entry.slot = FALSE /\ HashLength \in Nat \ {0}
    BY <1>8 DEF RelayFinish
  <2> QED BY <2>1, OneOutput
<1>9. CASE entry = RelayKeypairGetPublicKey
  <2>1. entry.outs = <<KeyLength>> /\ entry.slot = FALSE /\ KeyLength \in Nat \ {0}
    BY <1>9 DEF RelayKeypairGetPublicKey
  <2> QED BY <2>1, OneOutput
<1>10. CASE entry = AgentCreate
  <2>1. entry.outs = <<HandleSize>> /\ entry.slot = TRUE /\ HandleSize \in Nat \ {0}
    BY <1>10 DEF AgentCreate
  <2> QED BY <2>1, OneOutput
<1>11. CASE entry = RelayCreateWithKeys
  <2>1. entry.outs = <<HandleSize>> /\ entry.slot = TRUE /\ HandleSize \in Nat \ {0}
    BY <1>11 DEF RelayCreateWithKeys
  <2> QED BY <2>1, OneOutput
<1>12. CASE entry = AgentFinish
  <2>1. /\ entry.outs = <<HashLength, ExportKeyLength>> /\ entry.slot = FALSE
        /\ HashLength \in Nat \ {0} /\ ExportKeyLength \in Nat \ {0}
    BY <1>12 DEF AgentFinish
  <2>2. DOMAIN entry.outs = {1, 2} /\ entry.outs[1] = HashLength
        /\ entry.outs[2] = ExportKeyLength
    BY <2>1
  <2> QED BY <2>1, <2>2 DEF EntryOK
<1>13. CASE entry = NoEntry
  <2>1. entry.outs = <<>> /\ entry.slot = FALSE
    BY <1>13 DEF NoEntry
  <2>2. DOMAIN entry.outs = {}
    BY <2>1
  <2> QED BY <2>1, <2>2, <1>13 DEF EntryOK
<1> QED BY <1>1, <1>2, <1>3, <1>4, <1>5, <1>6, <1>7, <1>8, <1>9, <1>10, <1>11, <1>12, <1>13 DEF Entries

-----------------------------------------------------------------------------
(* The inductive invariant.                                                *)

Steps == {"idle", "slot", "check", "run", "commit", "done"}

(* The arguments fit the entry point.                                      *)
ArgsOK ==
  /\ args.entry \in Entries \cup {NoEntry}
  /\ DOMAIN args.outs = DOMAIN args.entry.outs
  /\ \A i \in Ins : args.ins[i].at \in Addresses /\ args.ins[i].len \in Nat
  /\ \A j \in Outs : args.outs[j].at \in Addresses /\ args.outs[j].len \in Nat
  /\ args.entry.slot => args.outs[1].len = HandleSize

(* How far the call is.                                                    *)
Progress ==
  /\ step \in Steps /\ code \in Int
  /\ next \in Nat \ {0}
  /\ step \in {"idle", "slot", "check", "run"} => next = 1
  /\ step = "idle" => args.entry = NoEntry
  /\ step # "idle" => args.entry # NoEntry
  /\ step = "slot" => args.entry.slot
  /\ step \in {"check", "run", "commit"} /\ args.entry.slot => args.outs[1].at # 0
  /\ step = "commit" => next \in Outs
  /\ step = "done" /\ code = 0 => next \notin Outs
  /\ step = "done" /\ code # 0 => next = 1
  /\ Accepted => ~BadArgument /\ ~Overlap
  /\ next > 1 => Accepted

(* What memory holds: the outputs that were copied; null in the slot of a  *)
(* handle that was not; and what the caller put there.                     *)
MemoryOK ==
  /\ \A a \in Addresses :
       \/ memory[a] = Caller(a)
       \/ /\ memory[a] = NullByte /\ args.entry.slot /\ args.outs[1].at # 0
          /\ a \in Bytes(Extent(1))
       \/ \E j \in Outs : j < next /\ a \in Bytes(Extent(j))
  /\ \A j \in Outs : j < next =>
       \A a \in Bytes(Extent(j)) : memory[a] = Output(j, a - Extent(j).at)

ArgumentsInv == ArgsOK /\ Progress /\ MemoryOK

-----------------------------------------------------------------------------
(* Consequences of the invariant.                                          *)

(* The ranges of a call begin at an address.                               *)
LEMMA RangesAreTyped ==
  ASSUME ArgsOK
  PROVE  /\ EntryOK(args.entry)
         /\ \A j \in Outs : IsRange(Extent(j)) /\ Extent(j).at \in Addresses /\ Extent(j).len > 0
         /\ \A i \in Ins : IsRange(args.ins[i]) /\ args.ins[i].at \in Addresses
<1>1. EntryOK(args.entry)
  BY EntryTypes DEF ArgsOK
<1>2. ASSUME NEW j \in Outs
      PROVE  IsRange(Extent(j)) /\ Extent(j).at \in Addresses /\ Extent(j).len > 0
  <2>1. args.outs[j].at \in Addresses /\ args.entry.outs[j] \in Nat \ {0}
    BY <1>1 DEF ArgsOK, EntryOK, Outs
  <2> QED BY <2>1, WordAssumption DEF Extent, IsRange, Addresses
<1>3. ASSUME NEW i \in Ins PROVE IsRange(args.ins[i]) /\ args.ins[i].at \in Addresses
  BY WordAssumption DEF ArgsOK, IsRange, Addresses
<1> QED BY <1>1, <1>2, <1>3

(* Inputs and accepted outputs are disjoint.                               *)
LEMMA InvInputs == ASSUME ArgumentsInv PROVE InputsIntact
<1> SUFFICES ASSUME Accepted, NEW i \in Ins, NEW a \in Bytes(args.ins[i])
             PROVE  memory[a] = Caller(a)
  BY DEF InputsIntact
<1> USE DEF ArgumentsInv
<1>1. \A j \in Outs : a \notin Bytes(Extent(j))
  <2>1. \A j \in Outs : ~RangesOverlap(args.ins[i], Extent(j))
    BY DEF Progress, Overlap
  <2> QED BY <2>1, RangesAreTyped, Disjoint
<1>2. args.entry.slot => 1 \in Outs
  BY RangesAreTyped DEF EntryOK, ArgsOK, Outs
<1>3. a \in Addresses
  BY DEF Bytes
<1> QED BY <1>1, <1>2, <1>3 DEF MemoryOK

(* A call that succeeded copied all its outputs.                           *)
LEMMA InvOutputs == ASSUME ArgumentsInv PROVE OutputsComplete
<1> SUFFICES ASSUME step = "done", code = 0, NEW j \in Outs
             PROVE  \A a \in Bytes(Extent(j)) : memory[a] = Output(j, a - Extent(j).at)
  BY DEF OutputsComplete
<1>1. next \notin Outs /\ next \in Nat \ {0}
  BY DEF ArgumentsInv, Progress
<1>2. j \in {1, 2} /\ (2 \in Outs => 1 \in Outs)
  BY RangesAreTyped DEF ArgumentsInv, ArgsOK, EntryOK, Outs
<1>3. j < next
  BY <1>1, <1>2
<1> QED BY <1>3 DEF ArgumentsInv, MemoryOK

(* Only accepted outputs and the slot of a handle are written.             *)
LEMMA InvWrites == ASSUME ArgumentsInv PROVE WritesInBounds
<1> SUFFICES ASSUME NEW a \in Addresses, memory[a] # Caller(a)
             PROVE  /\ a # 0 /\ \E j \in Outs : a \in Bytes(args.outs[j])
                    /\ step = "done" /\ code # 0 => args.entry.slot /\ memory[a] = NullByte
  BY DEF WritesInBounds
<1> USE DEF ArgumentsInv
<1>1. CASE /\ memory[a] = NullByte /\ args.entry.slot /\ args.outs[1].at # 0
           /\ a \in Bytes(Extent(1))
  <2>1. 1 \in Outs /\ args.entry.outs[1] = HandleSize /\ args.outs[1].len = HandleSize
    BY <1>1, RangesAreTyped DEF EntryOK, ArgsOK, Outs
  <2>2. a \in Bytes(args.outs[1])
    BY <1>1, <2>1 DEF Bytes, Extent
  <2>3. args.outs[1].at \in Nat /\ a \in Nat
    BY <2>1, WordAssumption DEF ArgsOK, Addresses
  <2>4. a # 0
    BY <1>1, <2>2, <2>3 DEF Bytes
  <2> QED BY <1>1, <2>1, <2>2, <2>4
<1>2. ASSUME NEW j \in Outs, j < next, a \in Bytes(Extent(j))
      PROVE  /\ a # 0 /\ a \in Bytes(args.outs[j])
             /\ ~(step = "done" /\ code # 0)
  <2>1. j \in {1, 2}
    BY RangesAreTyped DEF ArgsOK, EntryOK, Outs
  <2>2. next > 1
    BY <1>2, <2>1 DEF Progress
  <2>3. Accepted
    BY <2>2 DEF Progress
  <2>4. args.outs[j].at # 0 /\ ~(args.outs[j].len < args.entry.outs[j])
    BY <2>3 DEF Progress, BadArgument
  <2>5. /\ args.outs[j].at \in Nat /\ args.outs[j].len \in Nat /\ a \in Nat
        /\ args.entry.outs[j] \in Nat
    BY RangesAreTyped, WordAssumption DEF ArgsOK, EntryOK, Outs, Addresses
  <2>6. args.outs[j].at <= a /\ a < args.outs[j].at + args.entry.outs[j]
    BY <1>2 DEF Bytes, Extent
  <2>7. a # 0 /\ a < args.outs[j].at + args.outs[j].len
    BY <2>4, <2>5, <2>6
  <2> QED BY <2>2, <2>6, <2>7 DEF Bytes, Progress
<1> QED BY <1>1, <1>2 DEF MemoryOK

(* The ranges of a call are ones for which the check is exact.             *)
LEMMA InvExact == ASSUME ArgumentsInv PROVE OverlapIsExact
<1> SUFFICES ASSUME NEW i \in Ins, NEW j \in Outs
             PROVE  RangesOverlap(args.ins[i], Extent(j)) <=>
                      /\ args.ins[i].len > 0
                      /\ \/ Bytes(args.ins[i]) \cap Bytes(Extent(j)) # {}
                         \/ args.ins[i].at + args.ins[i].len \notin Addresses
                         \/ Extent(j).at + Extent(j).len \notin Addresses
  BY DEF OverlapIsExact
<1> DEFINE l == args.ins[i]  r == Extent(j)
<1>1. /\ IsRange(l) /\ l.at \in Addresses
      /\ IsRange(r) /\ r.at \in Addresses /\ r.len > 0
  BY RangesAreTyped DEF ArgumentsInv
<1> HIDE DEF l, r
<1>2. RangesOverlap(l, r) <=>
        /\ l.len > 0 /\ r.len > 0
        /\ \/ Bytes(l) \cap Bytes(r) # {}
           \/ l.at + l.len \notin Addresses
           \/ r.at + r.len \notin Addresses
  BY <1>1, OverlapExact
<1> QED BY <1>1, <1>2 DEF l, r

-----------------------------------------------------------------------------
(* The invariant holds initially and every step preserves it.              *)

(* No call yet.                                                            *)
LEMMA InitInv == Init => ArgumentsInv
<1> SUFFICES ASSUME Init PROVE ArgumentsInv
  OBVIOUS
<1>1. args.entry = NoEntry /\ args.ins = <<>> /\ args.outs = <<>>
  BY DEF Init
<1>2. DOMAIN args.ins = {} /\ DOMAIN args.outs = {}
  BY <1>1
<1>3. ArgsOK
  BY <1>1, <1>2 DEF ArgsOK, Ins, Outs, NoEntry
<1>4. Progress
  BY <1>1 DEF Init, Progress, Steps, Accepted
<1>5. MemoryOK
  BY <1>2 DEF Init, MemoryOK, Outs
<1> QED BY <1>3, <1>4, <1>5 DEF ArgumentsInv

(* A step that keeps the arguments keeps all that is said of them.         *)
LEMMA SameArgs ==
  ASSUME args' = args
  PROVE  /\ ArgsOK' = ArgsOK /\ BadArgument' = BadArgument /\ Overlap' = Overlap
         /\ Ins' = Ins /\ Outs' = Outs
         /\ \A j : Extent(j)' = Extent(j)
BY DEF ArgsOK, BadArgument, Overlap, Ins, Outs, Extent

(* A call begins with nothing written.                                     *)
LEMMA CallInv == ASSUME ArgumentsInv, Call PROVE ArgumentsInv'
<1> USE DEF ArgumentsInv
<1>0. PICK entry \in Entries :
        \E ins \in [DOMAIN entry.ins -> Ranges], outs \in [DOMAIN entry.outs -> Ranges] :
          /\ entry.slot => outs[1].len = HandleSize
          /\ args' = [entry |-> entry, ins |-> ins, outs |-> outs]
          /\ step' = IF entry.slot THEN "slot" ELSE "check"
  BY DEF Call
<1>1. PICK ins \in [DOMAIN entry.ins -> Ranges], outs \in [DOMAIN entry.outs -> Ranges] :
        /\ entry.slot => outs[1].len = HandleSize
        /\ args' = [entry |-> entry, ins |-> ins, outs |-> outs]
        /\ step' = IF entry.slot THEN "slot" ELSE "check"
  BY <1>0
<1>2. step = "idle" /\ UNCHANGED <<memory, next, code>> /\ next = 1
  BY DEF Call, Progress
<1>3. entry # NoEntry
  BY DEF Entries, NoEntry, AgentCreateRegistrationRequest, AgentFinalizeRegistration,
     AgentGenerateKe1, AgentGenerateKe3, AgentFinish, RelayCreateRegistrationResponse,
     RelayBuildCredentials, RelayGenerateKe2, RelayFinish, RelayKeypairGetPublicKey,
     AgentCreate, RelayCreateWithKeys
<1>4. EntryOK(entry)
  BY EntryTypes
<1>5. ArgsOK'
  <2>1. args'.entry = entry /\ args'.ins = ins /\ args'.outs = outs
    BY <1>1
  <2>2. /\ DOMAIN ins = DOMAIN entry.ins /\ DOMAIN outs = DOMAIN entry.outs
        /\ \A i \in DOMAIN ins : ins[i] \in Ranges
        /\ \A j \in DOMAIN outs : outs[j] \in Ranges
    OBVIOUS
  <2>3. \A r \in Ranges : r.at \in Addresses /\ r.len \in Nat
    BY LengthsAssumption DEF Ranges
  <2> QED BY <2>1, <2>2, <2>3, <1>1 DEF ArgsOK, Ins, Outs
<1>6. Progress'
  <2>1. args'.entry = entry
    BY <1>1
  <2>2. entry.slot \in BOOLEAN
    BY <1>4 DEF EntryOK
  <2>3. step' \in {"slot", "check"} /\ (step' = "slot" <=> entry.slot)
    BY <1>1, <2>2
  <2> QED BY <1>2, <1>3, <2>1, <2>3 DEF Progress, Steps, Accepted
<1>7. MemoryOK'
  <2>1. \A a \in Addresses : memory[a] = Caller(a)
    <3>1. args.entry = NoEntry /\ ~args.entry.slot
      BY <1>2 DEF Progress, NoEntry
    <3>2. Outs = {}
      <4>1. DOMAIN NoEntry.outs = {}
        BY DEF NoEntry
      <4> QED BY <3>1, <4>1 DEF ArgsOK, Outs
    <3> QED BY <3>1, <3>2 DEF MemoryOK
  <2>2. \A j \in Outs' : ~(j < next')
    <3>1. \A j \in Outs' : j \in {1, 2}
      BY <1>1, <1>4 DEF EntryOK, Outs
    <3> QED BY <3>1, <1>2
  <2> QED BY <2>1, <2>2, <1>2 DEF MemoryOK
<1> QED BY <1>5, <1>6, <1>7

(* Only the slot becomes null.                                             *)
LEMMA NullSlotInv == ASSUME ArgumentsInv, NullSlot PROVE ArgumentsInv'
<1> USE DEF ArgumentsInv
<1>1. step = "slot" /\ args.entry.slot /\ UNCHANGED <<args, next>> /\ next = 1
  BY DEF NullSlot, Progress
<1>2. ArgsOK'
  BY <1>1, SameArgs
<1>3. \A j \in Outs : j \in {1, 2} /\ ~(j < next)
  BY <1>1, RangesAreTyped DEF ArgsOK, EntryOK, Outs
<1>4. CASE args.outs[1].at = 0
  <2>1. step' = "done" /\ code' = -1 /\ UNCHANGED memory
    BY <1>1, <1>4 DEF NullSlot, Return
  <2>2. Progress'
    BY <1>1, <2>1 DEF Progress, Steps, Accepted
  <2>3. MemoryOK'
    BY <1>1, <1>4, <2>1, SameArgs DEF MemoryOK
  <2> QED BY <1>2, <2>2, <2>3
<1>5. CASE args.outs[1].at # 0
  <2>1. /\ step' = "check" /\ UNCHANGED code
        /\ memory' = [a \in Addresses |-> IF a \in Bytes(Extent(1)) THEN NullByte ELSE memory[a]]
    BY <1>1, <1>5 DEF NullSlot
  <2>2. Progress'
    BY <1>1, <1>5, <2>1 DEF Progress, Steps, Accepted
  <2>3. MemoryOK'
    <3>1. ASSUME NEW a \in Addresses
          PROVE  \/ memory'[a] = Caller(a)
                 \/ memory'[a] = NullByte /\ a \in Bytes(Extent(1))
      BY <2>1, <1>3 DEF MemoryOK
    <3> QED BY <1>1, <1>3, <1>5, <3>1, SameArgs DEF MemoryOK
  <2> QED BY <1>2, <2>2, <2>3
<1> QED BY <1>4, <1>5

(* Steps that only decide how the call goes on.                            *)
LEMMA CheckInv == ASSUME ArgumentsInv, Check PROVE ArgumentsInv'
<1> USE DEF ArgumentsInv
<1>1. step = "check" /\ UNCHANGED <<memory, args, next>> /\ next = 1
  BY DEF Check, Progress
<1>2. ArgsOK' /\ MemoryOK'
  BY <1>1, SameArgs DEF MemoryOK
<1>3. Progress'
  <2>1. CASE BadArgument \/ Overlap
    <3>1. step' = "done" /\ code' = -1
      BY <2>1 DEF Check, Return
    <3> QED BY <1>1, <3>1 DEF Progress, Steps, Accepted
  <2>2. CASE ~(BadArgument \/ Overlap)
    <3>1. step' = "run" /\ UNCHANGED code
      BY <2>2 DEF Check
    <3> QED BY <1>1, <2>2, <3>1, SameArgs DEF Progress, Steps, Accepted
  <2> QED BY <2>1, <2>2
<1> QED BY <1>2, <1>3

(* The work touches no memory of the caller.                               *)
LEMMA RunInv == ASSUME ArgumentsInv, RunFails \/ Run PROVE ArgumentsInv'
<1> USE DEF ArgumentsInv
<1>1. step = "run" /\ UNCHANGED <<memory, args, next>> /\ next = 1
  BY DEF Run, RunFails, Progress
<1>2. ArgsOK' /\ MemoryOK'
  BY <1>1, SameArgs DEF MemoryOK
<1>3. Progress'
  <2>1. CASE RunFails
    <3>1. step' = "done" /\ code' \in {-1, -2, -5, -6, -10, -99, -100, -101}
      BY <2>1 DEF RunFails, Return, FailureCodes, FFI_PANIC, FFI_BUSY, FFI_CORRUPTED_RECORD
    <3>2. code' \in Int /\ code' # 0
      BY <3>1
    <3> QED BY <1>1, <3>1, <3>2, SameArgs DEF Progress, Steps, Accepted
  <2>2. CASE Run
    <3>1. step' = "commit" /\ UNCHANGED code
      BY <2>2 DEF Run
    <3>2. 1 \in Outs
      BY <1>1, EntryTypes DEF Progress, ArgsOK, Outs
    <3> QED BY <1>1, <3>1, <3>2, SameArgs DEF Progress, Steps, Accepted
  <2> QED BY <2>1, <2>2
<1> QED BY <1>2, <1>3

(* An output is copied and leaves the ones before it as they are.          *)
LEMMA CommitInv == ASSUME ArgumentsInv, Commit PROVE ArgumentsInv'
<1> USE DEF ArgumentsInv
<1>1. /\ step = "commit" /\ UNCHANGED args /\ next \in Outs /\ next' = next + 1
      /\ memory' = [a \in Addresses |-> IF a \in Bytes(Extent(next))
                                        THEN Output(next, a - Extent(next).at) ELSE memory[a]]
      /\ IF next + 1 \in Outs THEN UNCHANGED <<step, code>> ELSE step' = "done" /\ code' = 0
  BY DEF Commit, Progress, Return
<1>2. ArgsOK'
  BY <1>1, SameArgs
<1>3. next \in {1, 2} /\ \A j \in Outs : j \in {1, 2}
  BY <1>1, RangesAreTyped DEF ArgsOK, EntryOK, Outs
<1>4. ~BadArgument /\ ~Overlap
  BY <1>1 DEF Progress, Accepted
<1>5. Progress'
  <2>1. CASE next + 1 \in Outs
    BY <1>1, <1>3, <1>4, <2>1, SameArgs DEF Progress, Steps, Accepted
  <2>2. CASE next + 1 \notin Outs
    BY <1>1, <1>3, <1>4, <2>2, SameArgs DEF Progress, Steps, Accepted
  <2> QED BY <2>1, <2>2
<1>6. MemoryOK'
  <2>1. ASSUME NEW a \in Addresses
        PROVE  \/ memory'[a] = Caller(a)
               \/ /\ memory'[a] = NullByte /\ args.entry.slot /\ args.outs[1].at # 0
                  /\ a \in Bytes(Extent(1))
               \/ \E j \in Outs : j < next + 1 /\ a \in Bytes(Extent(j))
    <3>1. CASE a \in Bytes(Extent(next))
      BY <1>1, <1>3, <3>1
    <3>2. CASE a \notin Bytes(Extent(next))
      <4>1. memory'[a] = memory[a]
        BY <1>1, <3>2
      <4>2. \A j \in Outs : j < next => j < next + 1
        BY <1>3
      <4> QED BY <4>1, <4>2 DEF MemoryOK
    <3> QED BY <3>1, <3>2
  <2>2. ASSUME NEW j \in Outs, j < next + 1, NEW a \in Bytes(Extent(j))
        PROVE  memory'[a] = Output(j, a - Extent(j).at)
    <3>1. a \in Addresses
      BY DEF Bytes
    <3>2. CASE j = next
      BY <1>1, <3>1, <3>2
    <3>3. CASE j # next
      <4>1. j < next
        BY <1>3, <2>2, <3>3
      <4>2. ~RangesOverlap(Extent(j), Extent(next))
        BY <1>1, <1>4, <3>3 DEF Overlap
      <4>3. a \notin Bytes(Extent(next))
        BY <4>2, <1>1, RangesAreTyped, Disjoint
      <4>4. memory'[a] = memory[a]
        BY <1>1, <3>1, <4>3
      <4> QED BY <4>1, <4>4 DEF MemoryOK
    <3> QED BY <3>2, <3>3
  <2> QED BY <2>1, <2>2, <1>1, SameArgs DEF MemoryOK
<1> QED BY <1>2, <1>5, <1>6

(* Every reachable state satisfies ArgumentsInv.                           *)
LEMMA Inductive == Spec => []ArgumentsInv
<1>1. ArgumentsInv /\ [Next]_vars => ArgumentsInv'
  <2> SUFFICES ASSUME ArgumentsInv, [Next]_vars PROVE ArgumentsInv'
    OBVIOUS
  <2>1. CASE UNCHANGED vars
    BY <2>1, SameArgs DEF vars, ArgumentsInv, Progress, MemoryOK, Accepted
  <2> QED BY <2>1, CallInv, NullSlotInv, CheckInv, RunInv, CommitInv DEF Next
<1> QED BY InitInv, <1>1, PTL DEF Spec

-----------------------------------------------------------------------------
(* Theorems.                                                               *)

(* ranges_overlap is exact for the arguments of every call, whatever the   *)
(* word size and the lengths of the messages.                              *)
THEOREM OverlapCheckIsExact == Spec => []OverlapIsExact
BY Inductive, InvExact, PTL

(* An accepted call reads what the caller wrote and leaves it alone.       *)
THEOREM InputsStayIntact == Spec => []InputsIntact
BY Inductive, InvInputs, PTL

(* A call that succeeds delivers every byte of every output.               *)
THEOREM OutputsAreComplete == Spec => []OutputsComplete
BY Inductive, InvOutputs, PTL

(* Nothing is written outside the caller's buffers, and a failed call      *)
(* writes nothing but a null handle.                                       *)
THEOREM WritesStayInBounds == Spec => []WritesInBounds
BY Inductive, InvWrites, PTL
=============================================================================
