--------------------------- MODULE KeyDerivation ---------------------------
(***************************************************************************)
(* Two loops of opaque-core/src/crypto.rs, one round per step:             *)
(* key_derivation_expand, which fills an output with HMAC blocks, and      *)
(* derive_oprf_key, which draws scalars from a seed until one is not zero. *)
(*                                                                         *)
(* HMAC is a term of its inputs.  Which counters yield a zero scalar, and  *)
(* where a call that returns a Result fails, is left open: a test cannot   *)
(* make either happen.                                                     *)
(***************************************************************************)
EXTENDS Naturals

CONSTANTS
  HashLen,    \* HASH_LEN, the length of a block
  MaxBlocks,  \* MAX_BLOCKS
  ByteMax,    \* the largest value of a u8
  MaxLength   \* the longest output asked for

ASSUME LengthsAssumption ==
  HashLen \in Nat \ {0} /\ MaxBlocks \in Nat /\ ByteMax \in Nat /\ MaxLength \in Nat

(* The code's 255 blocks are the values a u8 has besides 0.                *)
ASSUME BlocksAssumption == MaxBlocks <= ByteMax

VARIABLES
  at,        \* where the function is, or how it returned
  length,    \* okm.len()
  i,         \* the loop variable: the block, or the counter
  tPrev, tCurrent,  \* the two block buffers; mac_out
  seedFull, seed,   \* oprf_seed_full and oprf_seed
  okm,       \* the output: expanded bytes, or the derived scalar in okm[0]
  empty,     \* whether an input that must not be empty is
  zeros      \* the counters whose scalar is zero

seeds == <<seedFull, seed>>
vars  == <<at, length, i, tPrev, tCurrent, seeds, okm, empty, zeros>>

-----------------------------------------------------------------------------
(* Terms.                                                                  *)

Zeroed == <<"zeroed">>
Old    == <<"old">>
Nothing == <<>>

Hmac(prev, counter) == <<"hmac", prev, counter>>

(* What hmac_sha512 makes of the relay's secret, and the part of it that   *)
(* derive_oprf_key goes on with.                                           *)
SeedBlock  == <<"seed_block">>
FirstHalf(block) == <<"first_half", block>>

(* A byte of a block.                                                      *)
ByteOf(block, k) == <<"byte", block, k>>

Init ==
  /\ at = "idle" /\ length = 0 /\ i = 0
  /\ tPrev = Zeroed /\ tCurrent = Zeroed /\ seedFull = Zeroed /\ seed = Zeroed
  /\ okm = <<>> /\ empty = FALSE /\ zeros = {}

-----------------------------------------------------------------------------
(* key_derivation_expand.                                                  *)

\* Mutant: the last, partial block is not counted.
Blocks_Floor(len) == len \div HashLen

(* div_ceil                                                                *)
Blocks(len) == (len + HashLen - 1) \div HashLen

(* The arguments are checked before the output is touched.                 *)
Expand ==
  /\ at = "idle"
  /\ empty' \in BOOLEAN
  /\ \E len \in 0..MaxLength :
       /\ length' = len
       /\ okm' = [k \in 0..(len - 1) |-> Old]
       /\ at' = IF empty' \/ len = 0 \/ Blocks(len) > MaxBlocks THEN "invalid_input"
                ELSE "expanding"
  /\ i' = 1
  /\ UNCHANGED <<tPrev, tCurrent, seeds, zeros>>

(* A round: the block over the previous one (none, in the first round) and *)
(* the counter, as much of it as the output has room for, and the swap.  A *)
(* counter that is no byte ends the loop.                                  *)
ExpandBlock ==
  LET mac     == Hmac(IF i > 1 THEN tPrev ELSE Nothing, i)
      from    == (i - 1) * HashLen
      copyLen == IF HashLen <= length - from THEN HashLen ELSE length - from IN
  /\ at = "expanding" /\ i <= Blocks(length)
  /\ IF i > ByteMax
     THEN /\ at' = "crypto_error"
          /\ tPrev' = Zeroed /\ tCurrent' = Zeroed
          /\ UNCHANGED <<okm, i>>
     ELSE /\ okm' = [k \in DOMAIN okm |-> IF k \in from..(from + copyLen - 1)
                                          THEN ByteOf(mac, k - from) ELSE okm[k]]
          /\ tPrev' = mac /\ tCurrent' = tPrev
          /\ i' = i + 1
          /\ UNCHANGED at
  /\ UNCHANGED <<length, seeds, empty, zeros>>

(* A round whose HMAC cannot be set up: the `?` leaves the inner function  *)
(* only, so that the buffers are zeroized here too.                        *)
ExpandFails ==
  /\ at = "expanding" /\ i <= Blocks(length)
  /\ at' = "hmac_error"
  /\ tPrev' = Zeroed /\ tCurrent' = Zeroed
  /\ UNCHANGED <<length, i, seeds, okm, empty, zeros>>

(* Both block buffers are zeroized.                                        *)
ExpandReturn ==
  /\ at = "expanding" /\ i > Blocks(length)
  /\ at' = "expanded"
  /\ tPrev' = Zeroed /\ tCurrent' = Zeroed
  /\ UNCHANGED <<length, i, seeds, okm, empty, zeros>>

-----------------------------------------------------------------------------
(* derive_oprf_key.                                                        *)

(* The arguments are checked first.                                        *)
DeriveOprfKey ==
  /\ at = "idle"
  /\ empty' \in BOOLEAN
  /\ zeros' \in SUBSET (0..ByteMax)
  /\ at' = IF empty' THEN "invalid_input" ELSE "seeding"
  /\ i' = 0 /\ length' = 1 /\ okm' = [k \in {0} |-> Old]
  /\ UNCHANGED <<tPrev, tCurrent, seeds>>

(* hmac_sha512 fills the larger seed buffer, or fails and fills nothing.   *)
SeedOprf ==
  /\ at = "seeding"
  /\ \/ at' = "copying" /\ seedFull' = SeedBlock
     \/ at' = "seed_error" /\ UNCHANGED seedFull
  /\ UNCHANGED <<length, i, tPrev, tCurrent, seed, okm, empty, zeros>>

(* The larger buffer is zeroized as soon as half of it has been copied.    *)
CopySeed ==
  /\ at = "copying"
  /\ at' = "drawing"
  /\ seed' = FirstHalf(seedFull) /\ seedFull' = Zeroed
  /\ UNCHANGED <<length, i, tPrev, tCurrent, okm, empty, zeros>>

\* Mutant: the range of counters excludes its end.
LastCounter_Exclusive == ByteMax - 1

(* 0u8..=255                                                               *)
LastCounter == ByteMax

\* Mutant: the seed is kept when every scalar was zero.
Draw_KeepsSeed ==
  LET nonzero == i \notin zeros
      last    == i = LastCounter IN
  /\ at = "drawing"
  /\ okm' = [k \in {0} |-> IF nonzero THEN Hmac(seed, i) ELSE Zeroed]
  /\ tCurrent' = IF nonzero \/ last THEN Zeroed ELSE Hmac(seed, i)
  /\ seed' = IF nonzero THEN Zeroed ELSE seed
  /\ at' = IF nonzero THEN "drawn" ELSE IF last THEN "crypto_error" ELSE at
  /\ i' = IF nonzero \/ last THEN i ELSE i + 1
  /\ UNCHANGED <<length, tPrev, seedFull, empty, zeros>>

(* The scalar goes into the caller's key at once and is drawn again while  *)
(* it is zero; mac_out and oprf_seed are zeroized before either return.    *)
Draw ==
  LET nonzero == i \notin zeros
      last    == i = LastCounter IN
  /\ at = "drawing"
  /\ okm' = [k \in {0} |-> IF nonzero THEN Hmac(seed, i) ELSE Zeroed]
  /\ tCurrent' = IF nonzero \/ last THEN Zeroed ELSE Hmac(seed, i)
  /\ seed' = IF nonzero \/ last THEN Zeroed ELSE seed
  /\ at' = IF nonzero THEN "drawn" ELSE IF last THEN "crypto_error" ELSE at
  /\ i' = IF nonzero \/ last THEN i ELSE i + 1
  /\ UNCHANGED <<length, tPrev, seedFull, empty, zeros>>

(* A round that is left by one of its two `?`, because the HMAC cannot be  *)
(* set up or its output has another length than MAC_LENGTH: nothing is     *)
(* zeroized.                                                               *)
DrawFails ==
  /\ at = "drawing"
  /\ at' = "draw_error"
  /\ tCurrent' \in {tCurrent, Hmac(seed, i)}
  /\ UNCHANGED <<length, i, tPrev, seeds, okm, empty, zeros>>

Next ==
  \/ Expand \/ ExpandBlock \/ ExpandFails \/ ExpandReturn
  \/ DeriveOprfKey \/ SeedOprf \/ CopySeed \/ Draw \/ DrawFails

Spec == Init /\ [][Next]_vars

-----------------------------------------------------------------------------
(* Properties.                                                             *)

(* The n-th block of RFC 5869.                                             *)
T[n \in 1..MaxBlocks] == IF n = 1 THEN Hmac(Nothing, 1) ELSE Hmac(T[n - 1], n)

(* key_derivation_expand fills every byte of its output, at any length up  *)
(* to the limit, with the byte that RFC 5869 puts there; it refuses        *)
(* exactly the empty key, the empty output and those beyond the limit,     *)
(* untouched.                                                              *)
ExpandsAsRfc5869 ==
  /\ at = "expanded" =>
       \A k \in 0..(length - 1) : okm[k] = ByteOf(T[k \div HashLen + 1], k % HashLen)
  /\ at \in {"expanding", "expanded"} =>
       ~empty /\ length \in 1..(MaxBlocks * HashLen)
  /\ at = "invalid_input" =>
       /\ empty \/ length \notin 1..(MaxBlocks * HashLen)
       /\ \A k \in DOMAIN okm : okm[k] = Old

(* derive_oprf_key yields the scalar of the smallest counter that has one, *)
(* under the seed of the relay's secret, so that registration and login    *)
(* agree, and gives up only if no byte has.  key_derivation_expand never   *)
(* runs out of counters.                                                   *)
FirstScalar ==
  /\ at = "drawn" => \E c \in (0..ByteMax) \ zeros :
                       /\ okm[0] = Hmac(FirstHalf(SeedBlock), c)
                       /\ 0..(c - 1) \subseteq zeros
  /\ at = "crypto_error" => zeros = 0..ByteMax

Returned == {"invalid_input", "expanded", "hmac_error", "seed_error", "drawn",
             "crypto_error", "draw_error"}

(* What the two functions leave in their buffers.  key_derivation_expand   *)
(* wipes both blocks on every way out, the failing HMAC included.          *)
(* derive_oprf_key wipes both seeds and mac_out, but for the two `?` in    *)
(* its loop, which leave oprf_seed and mac_out as they are; even there the *)
(* larger seed is gone.  The loop's HMAC takes keys of any length and has  *)
(* an output of MAC_LENGTH bytes, which is why the code can do without     *)
(* wiping there.                                                           *)
BuffersAreWiped ==
  at \in Returned =>
    /\ tPrev = Zeroed /\ seedFull = Zeroed
    /\ at # "draw_error" => tCurrent = Zeroed /\ seed = Zeroed
=============================================================================
