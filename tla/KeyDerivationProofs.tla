------------------------- MODULE KeyDerivationProofs -------------------------
(***************************************************************************)
(* Theorems about KeyDerivation, for any block length, output length and   *)
(* range of counters.                                                      *)
(*                                                                         *)
(* The blocks T of RFC 5869 are a recursive function, so that the first    *)
(* part shows that there is such a function: by induction, in the form     *)
(* that a set with 0 and with every successor of its members has all       *)
(* natural numbers, for which the provers need no operator to instantiate. *)
(***************************************************************************)
EXTENDS KeyDerivation, Integers, WellFoundedInduction, TLAPS

-----------------------------------------------------------------------------
(* Induction.                                                              *)

(* A set of natural numbers that is not empty has a smallest member.       *)
LEMMA Smallest ==
  ASSUME NEW S \in SUBSET Nat, S # {}
  PROVE  \E m \in S : \A n \in S : m <= n
  <1> DEFINE R == OpToRel(<, Nat)
  <1>1. IsWellFoundedOn(R, Nat)
    BY NatLessThanWellFounded
  <1>2. PICK m \in S : \A n \in S : <<n, m>> \notin R
    <2> HIDE DEF R
    <2>1. QED
      BY <1>1, WFMin
  <1>3. \A n \in S : ~(n < m)
    BY <1>2 DEF OpToRel
  <1>4. QED
    BY <1>3

(* A set with 0 and with the successor of every member has them all.       *)
LEMMA Induction ==
  ASSUME NEW S, 0 \in S, \A n \in Nat : n \in S => n + 1 \in S
  PROVE  Nat \subseteq S
  <1> SUFFICES ASSUME Nat \ S # {}
               PROVE  FALSE
    OBVIOUS
  <1>1. PICK m \in Nat \ S : \A n \in Nat \ S : m <= n
    BY Smallest
  <1>2. m - 1 \in Nat /\ m - 1 \in S
    BY <1>1
  <1>3. QED
    BY <1>1, <1>2

-----------------------------------------------------------------------------
(* The blocks of RFC 5869.                                                 *)

(* B is a table of the first n blocks.                                     *)
IsBlocks(B, n) ==
  B = [m \in 1..n |-> IF m = 1 THEN Hmac(Nothing, 1) ELSE Hmac(B[m - 1], m)]

(* There is one for every n: each block is made from the one before it.    *)
LEMMA BlocksExist == \A n \in Nat : \E B : IsBlocks(B, n)
  <1> DEFINE S == {n \in Nat : \E B : IsBlocks(B, n)}
  <1>1. 0 \in S
    <2>1. IsBlocks([m \in 1..0 |-> Nothing], 0)
      BY DEF IsBlocks
    <2>2. QED
      BY <2>1
  <1>2. ASSUME NEW n \in Nat, n \in S
        PROVE  n + 1 \in S
    <2>1. PICK B : IsBlocks(B, n)
      BY <1>2
    <2> DEFINE C == [m \in 1..(n + 1) |-> IF m <= n THEN B[m]
                                          ELSE IF m = 1 THEN Hmac(Nothing, 1)
                                          ELSE Hmac(B[m - 1], m)]
    <2>2. \A m \in 1..(n + 1) :
            C[m] = IF m = 1 THEN Hmac(Nothing, 1) ELSE Hmac(C[m - 1], m)
      <3>1. TAKE m \in 1..(n + 1)
      <3>2. CASE m = 1
        BY <2>1, <3>2 DEF IsBlocks
      <3>3. CASE m # 1
        <4>1. m - 1 \in 1..n /\ C[m - 1] = B[m - 1]
          BY <3>3
        <4>2. m <= n => B[m] = Hmac(B[m - 1], m)
          BY <2>1, <3>3 DEF IsBlocks
        <4>3. QED
          BY <3>3, <4>1, <4>2
      <3>4. QED
        BY <3>2, <3>3
    <2>3. C = [m \in 1..(n + 1) |-> C[m]]
      OBVIOUS
    <2>4. IsBlocks(C, n + 1)
      <3> HIDE DEF C
      <3>1. QED
        BY <2>2, <2>3 DEF IsBlocks
    <2>5. QED
      BY <2>4
  <1>3. Nat \subseteq S
    <2> HIDE DEF S
    <2>1. QED
      BY <1>1, <1>2, Induction
  <1>4. QED
    BY <1>3

(* T is that table.                                                        *)
LEMMA BlocksAreT ==
  \A n \in 1..MaxBlocks : T[n] = IF n = 1 THEN Hmac(Nothing, 1) ELSE Hmac(T[n - 1], n)
  <1>1. \E B : IsBlocks(B, MaxBlocks)
    BY BlocksExist, LengthsAssumption
  <1>2. T = CHOOSE B : IsBlocks(B, MaxBlocks)
    BY DEF T, IsBlocks
  <1>3. IsBlocks(T, MaxBlocks)
    BY <1>1, <1>2
  <1>4. QED
    BY <1>3 DEF IsBlocks

-----------------------------------------------------------------------------
(* The lengths.                                                            *)

(* Multiplication keeps the order.                                         *)
LEMMA Monotone ==
  ASSUME NEW m \in Int, NEW n \in Int, NEW h \in Nat, m <= n
  PROVE  m * h <= n * h
  <1>1. n * h = m * h + (n - m) * h
    OBVIOUS
  <1>2. (n - m) * h >= 0
    <2>1. n - m \in Nat
      OBVIOUS
    <2>2. QED
      BY <2>1
  <1>3. m * h \in Int /\ (n - m) * h \in Int
    OBVIOUS
  <1>4. QED
    BY <1>1, <1>2, <1>3

(* A byte at place r of block q + 1 is found there.                        *)
LEMMA Division ==
  ASSUME NEW q \in Int, NEW h \in Nat \ {0}, NEW r \in 0..(h - 1), NEW k \in Int,
         k = q * h + r
  PROVE  k \div h = q /\ k % h = r
  <1> DEFINE d == k \div h
             e == k % h
  <1>1. d \in Int /\ e \in 0..(h - 1) /\ k = d * h + e
    OBVIOUS
  <1>2. d * h \in Int /\ q * h \in Int /\ (d + 1) * h = d * h + h /\ (q + 1) * h = q * h + h
    BY <1>1
  <1> HIDE DEF d, e
  <1>3. ~(d < q)
    <2>1. SUFFICES ASSUME d + 1 <= q
                   PROVE  FALSE
      BY <1>1
    <2>2. (d + 1) * h <= q * h
      BY <1>1, <2>1, Monotone
    <2>3. QED
      BY <1>1, <1>2, <2>2
  <1>4. ~(q < d)
    <2>1. SUFFICES ASSUME q + 1 <= d
                   PROVE  FALSE
      BY <1>1
    <2>2. (q + 1) * h <= d * h
      BY <1>1, <2>1, Monotone
    <2>3. QED
      BY <1>1, <1>2, <2>2
  <1>5. d = q
    BY <1>1, <1>3, <1>4
  <1>6. e = r
    BY <1>1, <1>2, <1>5
  <1>7. QED
    BY <1>5, <1>6 DEF d, e

(* div_ceil: the last block is needed and no further one is.               *)
LEMMA BlocksAreEnough ==
  ASSUME NEW len \in Nat
  PROVE  /\ Blocks(len) \in Nat
         /\ len <= Blocks(len) * HashLen
         /\ Blocks(len) * HashLen < len + HashLen
  <1> DEFINE a == len + HashLen - 1
             q == a \div HashLen
             r == a % HashLen
  <1>1. HashLen \in Nat /\ HashLen >= 1
    BY LengthsAssumption
  <1>2. a \in Nat
    BY <1>1
  <1>3. q \in Int /\ r \in 0..(HashLen - 1) /\ a = q * HashLen + r
    BY <1>1, <1>2
  <1>4. Blocks(len) = q
    BY DEF Blocks
  <1>5. q * HashLen \in Int
    BY <1>1, <1>3
  <1> HIDE DEF q, r
  <1>6. q >= 0
    <2>1. SUFFICES ASSUME q + 1 <= 0
                   PROVE  FALSE
      BY <1>3
    <2>2. (q + 1) * HashLen <= 0 * HashLen
      BY <1>1, <1>3, <2>1, Monotone
    <2>3. (q + 1) * HashLen = q * HashLen + HashLen
      BY <1>1, <1>3
    <2>4. QED
      BY <1>1, <1>2, <1>3, <1>5, <2>2, <2>3
  <1>7. QED
    BY <1>1, <1>3, <1>4, <1>5, <1>6

(* key_derivation_expand's check of its length.                            *)
LEMMA LengthCheck ==
  ASSUME NEW len \in Nat
  PROVE  len \in 1..(MaxBlocks * HashLen) <=> len # 0 /\ Blocks(len) <= MaxBlocks
  <1>1. HashLen \in Nat \ {0} /\ MaxBlocks \in Nat /\ MaxBlocks * HashLen \in Int
    BY LengthsAssumption
  <1>2. /\ Blocks(len) \in Nat /\ len <= Blocks(len) * HashLen
        /\ Blocks(len) * HashLen < len + HashLen
    BY BlocksAreEnough
  <1>3. Blocks(len) * HashLen \in Int
    BY <1>1, <1>2
  <1>4. Blocks(len) <= MaxBlocks => Blocks(len) * HashLen <= MaxBlocks * HashLen
    BY <1>1, <1>2, Monotone
  <1>5. MaxBlocks + 1 <= Blocks(len) => MaxBlocks * HashLen + HashLen <= Blocks(len) * HashLen
    <2>1. (MaxBlocks + 1) * HashLen = MaxBlocks * HashLen + HashLen
      BY <1>1
    <2>2. QED
      BY <1>1, <1>2, <2>1, Monotone
  <1>6. QED
    BY <1>1, <1>2, <1>3, <1>4, <1>5

-----------------------------------------------------------------------------
(* The invariant: what each place of the two loops has established.        *)

ByteOfRfc(k) == ByteOf(T[k \div HashLen + 1], k % HashLen)

(* Before round i of key_derivation_expand the first i - 1 blocks are in   *)
(* the output, as far as it goes, and the last of them is in t_prev.       *)
Expanding ==
  /\ length \in 1..(MaxBlocks * HashLen)
  /\ i \in 1..(Blocks(length) + 1)
  /\ DOMAIN okm = 0..(length - 1)
  /\ i > 1 => tPrev = T[i - 1]
  /\ \A k \in 0..(length - 1) : k < (i - 1) * HashLen => okm[k] = ByteOfRfc(k)

(* Before derive_oprf_key draws for counter i all smaller ones were zero.  *)
Drawing == i \in 0..ByteMax /\ 0..(i - 1) \subseteq zeros /\ zeros \subseteq 0..ByteMax

Places == {"idle", "expanding", "seeding", "copying", "drawing"} \cup Returned

(* Which buffers have something in them, and what the seeds are.           *)
Filled ==
  /\ at \notin {"expanding", "drawing", "draw_error"} => tPrev = Zeroed /\ tCurrent = Zeroed
  /\ at \in {"drawing", "draw_error"} => tPrev = Zeroed
  /\ seedFull = IF at = "copying" THEN SeedBlock ELSE Zeroed
  /\ at = "drawing" => seed = FirstHalf(SeedBlock)
  /\ at \notin {"drawing", "draw_error"} => seed = Zeroed

DerivationInv ==
  /\ at \in Places
  /\ Filled
  /\ at = "expanding" => Expanding
  /\ at \in {"seeding", "copying"} => i = 0
  /\ at \in {"seeding", "copying", "drawing"} => Drawing
  /\ ExpandsAsRfc5869
  /\ FirstScalar

(* A round of key_derivation_expand puts block i where RFC 5869 has it.    *)
LEMMA RoundFills ==
  ASSUME Expanding, at = "expanding", ExpandBlock
  PROVE  at' = "expanding" /\ Expanding'
  <1> DEFINE mac  == Hmac(IF i > 1 THEN tPrev ELSE Nothing, i)
             from == (i - 1) * HashLen
             copyLen == IF HashLen <= length - from THEN HashLen ELSE length - from
  <1>1. /\ HashLen \in Nat \ {0} /\ MaxBlocks \in Nat /\ ByteMax \in Nat
        /\ MaxBlocks <= ByteMax /\ MaxBlocks * HashLen \in Int
    BY LengthsAssumption, BlocksAssumption
  <1>2. /\ length \in Nat \ {0} /\ i \in Nat \ {0} /\ i <= Blocks(length)
        /\ Blocks(length) \in Nat /\ Blocks(length) <= MaxBlocks
    BY <1>1, LengthCheck, BlocksAreEnough DEF Expanding, ExpandBlock
  <1>3. ~(i > ByteMax)
    BY <1>1, <1>2
  <1>4. /\ at' = at /\ i' = i + 1 /\ tPrev' = mac /\ length' = length
        /\ okm' = [k \in DOMAIN okm |-> IF k \in from..(from + copyLen - 1)
                                        THEN ByteOf(mac, k - from) ELSE okm[k]]
    BY <1>3 DEF ExpandBlock
  <1>5. mac = T[i]
    BY <1>1, <1>2, BlocksAreT DEF Expanding
  <1>6. from \in Nat /\ i * HashLen = from + HashLen
    <2>1. i - 1 \in Nat
      BY <1>2
    <2>2. QED
      BY <1>1, <1>2, <2>1
  <1>7. ASSUME NEW k \in 0..(length - 1), k < i * HashLen
        PROVE  okm'[k] = ByteOfRfc(k)
    <2>1. CASE k < from
      BY <1>4, <1>6, <2>1 DEF Expanding
    <2>2. CASE k >= from
      <3>1. k - from \in 0..(HashLen - 1) /\ k = (i - 1) * HashLen + (k - from)
        BY <1>1, <1>2, <1>6, <1>7, <2>2
      <3>2. k \div HashLen = i - 1 /\ k % HashLen = k - from
        <4> DEFINE q == i - 1
                   r == k - from
        <4>1. q \in Int /\ r \in 0..(HashLen - 1) /\ k \in Int /\ k = q * HashLen + r
          BY <1>2, <3>1
        <4> HIDE DEF q, r
        <4>2. k \div HashLen = q /\ k % HashLen = r
          BY <1>1, <4>1, Division
        <4>3. QED
          BY <4>2 DEF q, r
      <3>3. ByteOfRfc(k) = ByteOf(mac, k - from)
        BY <1>2, <1>5, <3>2 DEF ByteOfRfc
      <3>4. k \in from..(from + copyLen - 1)
        BY <1>1, <1>2, <1>6, <1>7, <2>2
      <3>5. okm'[k] = ByteOf(mac, k - from)
        BY <1>4, <3>4 DEF Expanding
      <3>6. QED
        BY <3>3, <3>5
    <2>3. QED
      BY <1>6, <2>1, <2>2
  <1>8. Blocks(length)' = Blocks(length) /\ DOMAIN okm' = 0..(length' - 1)
    BY <1>4 DEF Blocks, Expanding
  <1>9. i' \in 1..(Blocks(length)' + 1) /\ tPrev' = T[i' - 1]
    BY <1>2, <1>4, <1>5, <1>8
  <1> HIDE DEF mac, from, copyLen
  <1>10. \A k \in 0..(length' - 1) : k < (i' - 1) * HashLen => okm'[k] = ByteOfRfc(k)
    BY <1>2, <1>4, <1>7
  <1>11. QED
    BY <1>4, <1>8, <1>9, <1>10 DEF Expanding, ByteOfRfc

(* When no round is left every byte has been filled.                       *)
LEMMA LastRound ==
  ASSUME Expanding, i > Blocks(length)
  PROVE  \A k \in 0..(length - 1) : okm[k] = ByteOfRfc(k)
  <1>1. HashLen \in Nat \ {0} /\ MaxBlocks \in Nat /\ MaxBlocks * HashLen \in Int
    BY LengthsAssumption
  <1>2. length \in Nat
    BY <1>1 DEF Expanding
  <1>3. Blocks(length) \in Nat /\ length <= Blocks(length) * HashLen
    BY <1>2, BlocksAreEnough
  <1>4. i - 1 = Blocks(length)
    BY <1>3 DEF Expanding
  <1>5. Blocks(length) * HashLen \in Int
    BY <1>1, <1>3
  <1>6. QED
    BY <1>2, <1>3, <1>4, <1>5 DEF Expanding

(* Every step keeps the invariant.                                         *)
LEMMA DerivationInvNext == DerivationInv /\ [Next]_vars => DerivationInv'
  <1> SUFFICES ASSUME DerivationInv, [Next]_vars
               PROVE  DerivationInv'
    OBVIOUS
  <1> USE DEF DerivationInv, Places, Returned, Filled
  <1>1. CASE UNCHANGED vars
    BY <1>1 DEF vars, seeds, Expanding, Drawing, ExpandsAsRfc5869, FirstScalar, Blocks, ByteOfRfc
  <1>2. CASE Expand
    <2>1. PICK len \in 0..MaxLength :
            /\ length' = len /\ i' = 1 /\ okm' = [k \in 0..(len - 1) |-> Old]
            /\ at' = IF empty' \/ len = 0 \/ Blocks(len) > MaxBlocks THEN "invalid_input"
                     ELSE "expanding"
            /\ at = "idle" /\ empty' \in BOOLEAN /\ UNCHANGED <<tPrev, tCurrent, seedFull, seed>>
      BY <1>2 DEF Expand, seeds
    <2>2. /\ len \in Nat /\ Blocks(len) \in Nat /\ MaxBlocks \in Nat
          /\ HashLen \in Nat \ {0} /\ MaxBlocks * HashLen \in Int
      BY LengthsAssumption, BlocksAreEnough
    <2>3. len \in 1..(MaxBlocks * HashLen) <=> len # 0 /\ Blocks(len) <= MaxBlocks
      BY <2>2, LengthCheck
    <2>4. CASE empty' \/ len = 0 \/ Blocks(len) > MaxBlocks
      <3>1. at' = "invalid_input" /\ (empty' \/ length' \notin 1..(MaxBlocks * HashLen))
        BY <2>1, <2>2, <2>3, <2>4
      <3>2. \A k \in DOMAIN okm' : okm'[k] = Old
        BY <2>1
      <3>3. QED
        BY <2>1, <3>1, <3>2 DEF ExpandsAsRfc5869, FirstScalar
    <2>5. CASE ~(empty' \/ len = 0 \/ Blocks(len) > MaxBlocks)
      <3>1. at' = "expanding" /\ ~empty' /\ length' \in 1..(MaxBlocks * HashLen)
        BY <2>1, <2>2, <2>3, <2>5
      <3>2. Blocks(length)' \in Nat
        BY <2>1, <2>2 DEF Blocks
      <3>3. \A k \in 0..(length' - 1) : ~(k < (i' - 1) * HashLen)
        BY <2>1, <2>2
      <3>4. Expanding'
        BY <2>1, <3>1, <3>2, <3>3 DEF Expanding
      <3>5. QED
        BY <2>1, <3>1, <3>4 DEF ExpandsAsRfc5869, FirstScalar
    <2>6. QED
      BY <2>4, <2>5
  <1>3. CASE ExpandBlock
    <2>1. at = "expanding" /\ Expanding /\ ~empty
      BY <1>3 DEF ExpandBlock, ExpandsAsRfc5869
    <2>2. at' = "expanding" /\ Expanding'
      BY <1>3, <2>1, RoundFills
    <2>3. UNCHANGED <<seedFull, seed, empty>>
      BY <1>3 DEF ExpandBlock, seeds
    <2>4. QED
      BY <2>1, <2>2, <2>3 DEF ExpandsAsRfc5869, FirstScalar, Expanding
  <1>4. CASE ExpandFails
    BY <1>4 DEF ExpandFails, seeds, ExpandsAsRfc5869, FirstScalar
  <1>5. CASE ExpandReturn
    <2>1. /\ at = "expanding" /\ at' = "expanded" /\ Expanding /\ i > Blocks(length) /\ ~empty
          /\ tPrev' = Zeroed /\ tCurrent' = Zeroed
          /\ UNCHANGED <<length, okm, seedFull, seed, empty>>
      BY <1>5 DEF ExpandReturn, seeds, ExpandsAsRfc5869
    <2>2. \A k \in 0..(length' - 1) : okm'[k] = ByteOfRfc(k)
      BY <2>1, LastRound
    <2>3. length' \in 1..(MaxBlocks * HashLen)
      BY <2>1 DEF Expanding
    <2>4. QED
      BY <2>1, <2>2, <2>3 DEF ExpandsAsRfc5869, FirstScalar, ByteOfRfc
  <1>6. CASE DeriveOprfKey
    <2>1. /\ at = "idle" /\ at' = (IF empty' THEN "invalid_input" ELSE "seeding")
          /\ empty' \in BOOLEAN /\ i' = 0 /\ zeros' \subseteq 0..ByteMax
          /\ okm' = [k \in {0} |-> Old] /\ UNCHANGED <<tPrev, tCurrent, seedFull, seed>>
      BY <1>6 DEF DeriveOprfKey, seeds
    <2>2. Drawing'
      BY <2>1, LengthsAssumption DEF Drawing
    <2>3. QED
      BY <2>1, <2>2 DEF ExpandsAsRfc5869, FirstScalar
  <1>7. CASE SeedOprf
    BY <1>7 DEF SeedOprf, Drawing, ExpandsAsRfc5869, FirstScalar
  <1>8. CASE CopySeed
    BY <1>8 DEF CopySeed, Drawing, ExpandsAsRfc5869, FirstScalar
  <1>9. CASE Draw
    <2>1. /\ at = "drawing" /\ Drawing /\ zeros' = zeros /\ tPrev' = tPrev /\ tPrev = Zeroed
          /\ seed = FirstHalf(SeedBlock) /\ seedFull' = seedFull /\ seedFull = Zeroed
      BY <1>9 DEF Draw
    <2>2. ByteMax \in Nat
      BY LengthsAssumption
    <2>3. CASE i \notin zeros
      <3>1. /\ at' = "drawn" /\ tCurrent' = Zeroed /\ seed' = Zeroed
            /\ okm'[0] = Hmac(FirstHalf(SeedBlock), i)
        BY <1>9, <2>1, <2>3 DEF Draw
      <3>2. i \in (0..ByteMax) \ zeros' /\ 0..(i - 1) \subseteq zeros'
        BY <2>1, <2>3 DEF Drawing
      <3>3. QED
        BY <2>1, <3>1, <3>2 DEF ExpandsAsRfc5869, FirstScalar
    <2>4. CASE i \in zeros /\ i = ByteMax
      <3>1. at' = "crypto_error" /\ tCurrent' = Zeroed /\ seed' = Zeroed
        BY <1>9, <2>4 DEF Draw, LastCounter
      <3>2. zeros' = 0..ByteMax
        <4>1. \A c \in 0..ByteMax : c \in 0..(ByteMax - 1) \/ c = ByteMax
          BY <2>2
        <4>2. QED
          BY <2>1, <2>4, <4>1 DEF Drawing
      <3>3. QED
        BY <2>1, <3>1, <3>2 DEF ExpandsAsRfc5869, FirstScalar
    <2>5. CASE i \in zeros /\ i # ByteMax
      <3>1. at' = "drawing" /\ i' = i + 1 /\ seed' = seed
        BY <1>9, <2>1, <2>5 DEF Draw, LastCounter
      <3>2. Drawing'
        BY <2>1, <2>2, <2>5, <3>1 DEF Drawing
      <3>3. QED
        BY <2>1, <3>1, <3>2 DEF ExpandsAsRfc5869, FirstScalar
    <2>6. QED
      BY <2>3, <2>4, <2>5
  <1>10. CASE DrawFails
    BY <1>10 DEF DrawFails, seeds, ExpandsAsRfc5869, FirstScalar
  <1>11. QED
    BY <1>1, <1>2, <1>3, <1>4, <1>5, <1>6, <1>7, <1>8, <1>9, <1>10 DEF Next

(* It holds throughout.                                                    *)
LEMMA Derivation == Spec => []DerivationInv
  <1>1. Init => DerivationInv
    BY DEF Init, DerivationInv, Places, Filled, ExpandsAsRfc5869, FirstScalar
  <1>2. QED
    BY <1>1, DerivationInvNext, PTL DEF Spec

-----------------------------------------------------------------------------
(* key_derivation_expand computes the expansion of RFC 5869, whatever the  *)
(* lengths of the hash and of the output, and refuses exactly an empty     *)
(* key, an empty output and one beyond its blocks: the counter byte never  *)
(* runs out before the output is full.                                     *)
THEOREM ExpandImplementsRfc5869 == Spec => []ExpandsAsRfc5869
  <1>1. DerivationInv => ExpandsAsRfc5869
    BY DEF DerivationInv
  <1>2. QED
    BY <1>1, Derivation, PTL

(* derive_oprf_key depends on the seed only: it yields the first scalar    *)
(* that is not zero, and gives up only if there is none.                   *)
THEOREM FirstScalarIsTaken == Spec => []FirstScalar
  <1>1. DerivationInv => FirstScalar
    BY DEF DerivationInv
  <1>2. QED
    BY <1>1, Derivation, PTL

(* key_derivation_expand zeroizes its blocks on every way out, and         *)
(* derive_oprf_key its seeds and its block on every way out but the two    *)
(* `?` in its loop, where the larger seed is gone all the same.            *)
THEOREM WhatIsWiped == Spec => []BuffersAreWiped
  <1>1. DerivationInv => BuffersAreWiped
    BY DEF DerivationInv, Filled, BuffersAreWiped, Returned
  <1>2. QED
    BY <1>1, Derivation, PTL
=============================================================================
