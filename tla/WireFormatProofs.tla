-------------------------- MODULE WireFormatProofs --------------------------
(***************************************************************************)
(* Theorems about WireFormat, for buffers of any size.  The lengths and    *)
(* offsets are those of the code; the facts about them that the proofs use *)
(* are collected in Layout, so that the rest is one argument for all six   *)
(* kinds of message.                                                       *)
(***************************************************************************)
EXTENDS WireFormat, SequenceTheorems, TLAPS

-----------------------------------------------------------------------------
(* Bytes.                                                                  *)

Names ==
  {"version", "extra", "payload", "evaluated_element", "responder_public_key",
   "initiator_public_key", "credential_request", "initiator_nonce",
   "pq_ephemeral_public_key", "responder_nonce", "responder_mac", "kem_ciphertext",
   "initiator_mac", "masking_key", "envelope_nonce", "ciphertext", "auth_tag"}

(* What is written into a buffer, and what was in it before.               *)
Plain   == Names \X Nat
Content == Plain \cup ({"masked"} \X Plain)
Octets  == Content \cup ({"old"} \X Nat)

(* An old byte is recognized.                                              *)
LEMMA OldIsNoContent ==
  \A n \in Nat : <<"old", n>> \in Octets \ Content
  BY DEF Octets, Content, Plain, Names

(* Both version bytes, and the byte too many, are content.                 *)
LEMMA SingleBytes ==
  /\ PROTOCOL_VERSION \in Content /\ PROTOCOL_VERSION_1 \in Content
  /\ <<"extra", 1>> \in Content /\ PROTOCOL_VERSION # PROTOCOL_VERSION_1
  BY DEF Content, Plain, Names, PROTOCOL_VERSION, PROTOCOL_VERSION_1

(* The bytes of a named value.                                             *)
LEMMA NamedBytes ==
  ASSUME NEW name \in Names, NEW n \in Nat
  PROVE  /\ Bytes(name, n) \in Seq(Plain) /\ Len(Bytes(name, n)) = n
         /\ \A i \in 1..n : Bytes(name, n)[i] = <<name, i>>
  BY DEF Plain, Bytes

(* The bytes of a buffer before it is written.                             *)
LEMMA OldBytes ==
  ASSUME NEW n \in Nat
  PROVE  /\ Bytes("old", n) \in Seq(Octets) /\ Len(Bytes("old", n)) = n
         /\ \A i \in 1..n : Bytes("old", n)[i] = <<"old", i>>
  BY OldIsNoContent DEF Bytes

(* A slice, byte by byte.                                                  *)
LEMMA SliceBytes ==
  ASSUME NEW S, NEW data \in Seq(S), NEW from \in Nat, NEW to \in from..Len(data)
  PROVE  /\ Slice(data, from, to) \in Seq(S)
         /\ Len(Slice(data, from, to)) = to - from
         /\ \A i \in 1..(to - from) : Slice(data, from, to)[i] = data[from + i]
  BY DEF Slice

(* A slice that has the bytes of a value is that value.                    *)
LEMMA SliceIs ==
  ASSUME NEW S, NEW data \in Seq(S), NEW value \in Seq(S), NEW from \in Nat,
         from + Len(value) <= Len(data),
         \A i \in 1..Len(value) : data[from + i] = value[i]
  PROVE  Slice(data, from, from + Len(value)) = value
  <1> DEFINE to == from + Len(value)
  <1>1. to \in from..Len(data) /\ to - from = Len(value)
    OBVIOUS
  <1> HIDE DEF to
  <1>2. /\ Slice(data, from, to) \in Seq(S)
        /\ Len(Slice(data, from, to)) = to - from
        /\ \A i \in 1..(to - from) : Slice(data, from, to)[i] = data[from + i]
    BY <1>1, SliceBytes
  <1>3. Slice(data, from, to) = value
    BY <1>1, <1>2, SeqEqual
  <1>4. QED
    BY <1>3 DEF to

(* Two values one behind the other, byte by byte.                          *)
LEMMA JoinedBytes ==
  ASSUME NEW S, NEW a \in Seq(S), NEW b \in Seq(S)
  PROVE  /\ a \o b \in Seq(S) /\ Len(a \o b) = Len(a) + Len(b)
         /\ \A i \in 1..Len(a) : (a \o b)[i] = a[i]
         /\ \A i \in 1..Len(b) : (a \o b)[Len(a) + i] = b[i]
  <1>1. /\ a \o b \in Seq(S) /\ Len(a \o b) = Len(a) + Len(b)
        /\ \A i \in 1 .. Len(a) + Len(b) : (a \o b)[i] =
                     IF i <= Len(a) THEN a[i] ELSE b[i - Len(a)]
    BY ConcatProperties
  <1>2. \A i \in 1..Len(a) : i \in 1..(Len(a) + Len(b)) /\ i <= Len(a)
    OBVIOUS
  <1>3. \A i \in 1..Len(b) : /\ Len(a) + i \in 1..(Len(a) + Len(b))
                             /\ ~(Len(a) + i <= Len(a)) /\ (Len(a) + i) - Len(a) = i
    OBVIOUS
  <1>4. QED
    BY <1>1, <1>2, <1>3

(* The second of them is the last slice.                                   *)
LEMMA JoinedSlices ==
  ASSUME NEW S, NEW a \in Seq(S), NEW b \in Seq(S)
  PROVE  /\ a \o b \in Seq(S) /\ Len(a \o b) = Len(a) + Len(b)
         /\ Slice(a \o b, Len(a), Len(a) + Len(b)) = b
  <1>1. /\ a \o b \in Seq(S) /\ Len(a \o b) = Len(a) + Len(b) /\ Len(a) \in Nat
        /\ \A i \in 1..Len(b) : (a \o b)[Len(a) + i] = b[i]
    BY JoinedBytes
  <1>2. Len(a) + Len(b) <= Len(a \o b)
    BY <1>1
  <1>3. QED
    BY <1>1, <1>2, SliceIs

(* What is appended does not change the slices before it.                  *)
LEMMA InnerSlice ==
  ASSUME NEW S, NEW a \in Seq(S), NEW b \in Seq(S), NEW from \in Nat, NEW to \in from..Len(a)
  PROVE  Slice(a \o b, from, to) = Slice(a, from, to)
  <1> DEFINE value == Slice(a, from, to)
  <1>1. /\ value \in Seq(S) /\ Len(value) = to - from
        /\ \A i \in 1..(to - from) : value[i] = a[from + i]
    BY SliceBytes
  <1>2. /\ a \o b \in Seq(S) /\ Len(a \o b) = Len(a) + Len(b)
        /\ \A i \in 1..Len(a) : (a \o b)[i] = a[i]
    BY JoinedBytes
  <1> HIDE DEF value
  <1>3. /\ from + Len(value) = to /\ to <= Len(a \o b)
    BY <1>1, <1>2
  <1>4. \A i \in 1..Len(value) : (a \o b)[from + i] = value[i]
    BY <1>1, <1>2
  <1>5. Slice(a \o b, from, from + Len(value)) = value
    BY <1>1, <1>2, <1>3, <1>4, SliceIs
  <1>6. QED
    BY <1>3, <1>5 DEF value

(* copy_from_slice between slices of one length does not panic, and it     *)
(* changes the bytes of the slice alone.                                   *)
LEMMA CopiedBytes ==
  ASSUME NEW S, NEW out \in Seq(S), NEW value \in Seq(S), NEW from \in Nat,
         NEW to \in from..Len(out), out # <<>>, Len(value) = to - from
  PROVE  /\ CopyFromSlice(out, from, to, value) \in Seq(S)
         /\ Len(CopyFromSlice(out, from, to, value)) = Len(out)
         /\ \A i \in 1..Len(out) : CopyFromSlice(out, from, to, value)[i] =
              IF from < i /\ i <= to THEN value[i - from] ELSE out[i]
  <1> DEFINE head  == Slice(out, 0, from)
             front == head \o value
             tail  == Slice(out, to, Len(out))
  <1>1. CopyFromSlice(out, from, to, value) = front \o tail
    BY DEF CopyFromSlice, Panic
  <1>2. /\ head \in Seq(S) /\ Len(head) = from
        /\ \A i \in 1..from : head[i] = out[i]
    BY DEF Slice
  <1>3. /\ tail \in Seq(S) /\ Len(tail) = Len(out) - to
        /\ \A i \in 1..(Len(out) - to) : tail[i] = out[to + i]
    BY DEF Slice
  <1> HIDE DEF head, tail
  <1>4. /\ front \in Seq(S) /\ Len(front) = to
        /\ \A i \in 1..to : front[i] = IF i <= from THEN out[i] ELSE value[i - from]
    <2>1. /\ front \in Seq(S) /\ Len(front) = Len(head) + Len(value)
          /\ \A i \in 1..(Len(head) + Len(value)) :
               front[i] = IF i <= Len(head) THEN head[i] ELSE value[i - Len(head)]
      BY <1>2, ConcatProperties
    <2> HIDE DEF front
    <2>2. Len(head) + Len(value) = to
      BY <1>2
    <2>3. QED
      BY <1>2, <2>1, <2>2
  <1> HIDE DEF front
  <1>5. /\ front \o tail \in Seq(S) /\ Len(front \o tail) = Len(front) + Len(tail)
        /\ \A i \in 1..(Len(front) + Len(tail)) :
             (front \o tail)[i] = IF i <= Len(front) THEN front[i] ELSE tail[i - Len(front)]
    BY <1>3, <1>4, ConcatProperties
  <1>6. \A i \in 1..Len(out) : i > to => tail[i - to] = out[i]
    BY <1>3
  <1>7. QED
    BY <1>1, <1>3, <1>4, <1>5, <1>6

-----------------------------------------------------------------------------
(* The layout of the messages.                                             *)

(* The slices of a writer follow each other from the version byte to the   *)
(* end of the message, one for each field, and as long as the field.       *)
Layout(k) ==
  LET slices == WriteSlices[k] lengths == FieldLengths[k] IN
  /\ WireLength[k] \in Nat \ {0} /\ Len(slices) \in 1..5
  /\ \A n \in 1..Len(slices) :
       /\ slices[n].from \in Nat \ {0} /\ slices[n].to \in Nat
       /\ slices[n].to <= WireLength[k]
       /\ slices[n].field \in DOMAIN lengths
       /\ slices[n].to = slices[n].from + lengths[slices[n].field]
  /\ \A m, n \in 1..Len(slices) : m < n => slices[m].to <= slices[n].from
  /\ \A m, n \in 1..Len(slices) : slices[m].field = slices[n].field => m = n
  /\ slices[Len(slices)].to = WireLength[k]
  /\ \A i \in 2..WireLength[k] :
       \E n \in 1..Len(slices) : slices[n].from < i /\ i <= slices[n].to
  /\ DOMAIN lengths = {slices[n].field : n \in 1..Len(slices)}
  /\ \A f \in DOMAIN lengths : lengths[f] \in Nat \ {0}

(* The offsets of protocol.rs and the lengths of types.rs have it so, for  *)
(* every kind of message.                                                  *)
LEMMA LayoutIsRight == \A k \in Kinds : Layout(k)
  <1> USE DEF Layout, WriteSlices, FieldLengths, WireLength, V, VERSION_PREFIX_LENGTH,
          PUBLIC_KEY_LENGTH, MASKING_KEY_LENGTH, NONCE_LENGTH, MAC_LENGTH, ENVELOPE_LENGTH,
          REGISTRATION_REQUEST_LENGTH
  <1>1. Layout("request")
    BY DEF REGISTRATION_REQUEST_WIRE_LENGTH
  <1>2. Layout("response")
    BY DEF REG_RESP_RESPONDER_KEY_OFFSET, REGISTRATION_RESPONSE_WIRE_LENGTH,
           REGISTRATION_RESPONSE_LENGTH
  <1>3. Layout("record")
    BY DEF REG_RECORD_INITIATOR_KEY_OFFSET, REGISTRATION_CREDENTIAL_LENGTH,
           REGISTRATION_RECORD_LENGTH
  <1>4. Layout("ke1")
    BY SMTT(20) DEF KE1_INITIATOR_PK_OFFSET, KE1_INITIATOR_NONCE_OFFSET, KE1_PQ_PK_OFFSET,
           KE1_LENGTH, KE1_BASE_LENGTH, KEM_PUBLIC_KEY_LENGTH
  <1>5. Layout("ke2")
    BY SMTT(20) DEF KE2_RESP_PK_OFFSET, KE2_CRED_RESP_OFFSET, KE2_RESP_MAC_OFFSET,
           KE2_KEM_CT_OFFSET, KE2_LENGTH, KE2_BASE_LENGTH, CREDENTIAL_RESPONSE_LENGTH, KEM_CIPHERTEXT_LENGTH
  <1>6. Layout("ke3")
    BY DEF KE3_LENGTH
  <1>7. QED
    <2> USE DEF Kinds
    <2> HIDE DEF Layout
    <2>1. QED
      BY <1>1, <1>2, <1>3, <1>4, <1>5, <1>6

-----------------------------------------------------------------------------
(* Writers.                                                                *)

(* The fields a writer accepts.                                            *)
FieldsFit(k, fields) ==
  /\ fields \in [DOMAIN FieldLengths[k] -> Seq(Content)]
  /\ \A f \in DOMAIN fields : Len(fields[f]) = FieldLengths[k][f]

(* Each slice lies in the message and is as long as its field.             *)
LEMMA SlicesFit ==
  ASSUME NEW k \in Kinds, NEW n \in 1..Len(WriteSlices[k])
  PROVE  LET s == WriteSlices[k][n] IN
         /\ s.from \in Nat \ {0} /\ s.to \in Nat /\ s.from <= s.to
         /\ s.to <= WireLength[k]
         /\ s.field \in DOMAIN FieldLengths[k]
         /\ FieldLengths[k][s.field] = s.to - s.from
  <1> DEFINE s == WriteSlices[k][n]
             l == FieldLengths[k][s.field]
  <1>1. /\ s.from \in Nat \ {0} /\ s.to \in Nat /\ s.to <= WireLength[k]
        /\ s.field \in DOMAIN FieldLengths[k] /\ s.to = s.from + l
    BY LayoutIsRight DEF Layout
  <1>2. l \in Nat
    BY <1>1, LayoutIsRight DEF Layout
  <1>3. QED
    BY <1>1, <1>2

(* So it is for the field that goes there.                                 *)
LEMMA FieldsOfSlices ==
  ASSUME NEW k \in Kinds, NEW fields, FieldsFit(k, fields), NEW n \in 1..Len(WriteSlices[k])
  PROVE  LET s == WriteSlices[k][n] IN
         fields[s.field] \in Seq(Content) /\ Len(fields[s.field]) = s.to - s.from
  BY SlicesFit DEF FieldsFit

(* They are sequences.                                                     *)
LEMMA SlicesAreSequences ==
  \A k \in Kinds : DOMAIN WriteSlices[k] = 1..Len(WriteSlices[k])
  BY DEF Kinds, WriteSlices

(* The buffer after the version byte and the first n slices.               *)
WrittenUpTo(data, k, fields, out, n) ==
  LET slices == WriteSlices[k] IN
  /\ data \in Seq(Octets) /\ Len(data) = Len(out)
  /\ data[1] = PROTOCOL_VERSION
  /\ \A m \in 1..n : \A i \in 1..Len(fields[slices[m].field]) :
       data[slices[m].from + i] = fields[slices[m].field][i]
  /\ \A i \in 2..Len(out) :
       (\A m \in 1..n : slices[m].to < i) => data[i] = out[i]

(* One more copy_from_slice.                                               *)
LEMMA NextSlice ==
  ASSUME NEW k \in Kinds, NEW fields, FieldsFit(k, fields),
         NEW out \in Seq(Octets), Len(out) >= WireLength[k],
         NEW n \in 1..Len(WriteSlices[k]), NEW data,
         WrittenUpTo(data, k, fields, out, n - 1)
  PROVE  LET s == WriteSlices[k][n] IN
         WrittenUpTo(CopyFromSlice(data, s.from, s.to, fields[s.field]), k, fields, out, n)
  <1> DEFINE slices == WriteSlices[k]
             from(m)  == slices[m].from
             to(m)    == slices[m].to
             value(m) == fields[slices[m].field]
             N == Len(slices)
             r == CopyFromSlice(data, from(n), to(n), value(n))
  <1>1. N \in 1..5 /\ WireLength[k] \in Nat \ {0} /\ Layout(k)
    BY LayoutIsRight DEF Layout
  <1>2. ASSUME NEW m \in 1..N
        PROVE  /\ from(m) \in Nat \ {0} /\ to(m) \in Nat /\ from(m) <= to(m)
               /\ to(m) <= WireLength[k]
               /\ value(m) \in Seq(Content) /\ Len(value(m)) = to(m) - from(m)
    BY SlicesFit, FieldsOfSlices
  <1>3. \A m \in 1..N : m < n => to(m) <= from(n)
    BY <1>1 DEF Layout
  <1>4. /\ data \in Seq(Octets) /\ Len(data) = Len(out) /\ data[1] = PROTOCOL_VERSION
        /\ \A m \in 1..(n - 1) : \A i \in 1..Len(value(m)) : data[from(m) + i] = value(m)[i]
        /\ \A i \in 2..Len(out) : (\A m \in 1..(n - 1) : to(m) < i) => data[i] = out[i]
    BY DEF WrittenUpTo
  <1>5. SUFFICES
          /\ r \in Seq(Octets) /\ Len(r) = Len(out) /\ r[1] = PROTOCOL_VERSION
          /\ \A m \in 1..n : \A i \in 1..Len(value(m)) : r[from(m) + i] = value(m)[i]
          /\ \A i \in 2..Len(out) : (\A m \in 1..n : to(m) < i) => r[i] = out[i]
    BY DEF WrittenUpTo
  <1> HIDE DEF from, to, value, N
  <1>6. /\ n \in 1..N /\ Len(data) \in Nat /\ data # <<>>
        /\ from(n) \in Nat /\ to(n) \in from(n)..Len(data)
        /\ Len(value(n)) = to(n) - from(n)
    BY <1>1, <1>2, <1>4 DEF N
  <1>7. value(n) \in Seq(Octets)
    BY <1>2, <1>6, SeqMonotonic DEF Octets
  <1>8. /\ r \in Seq(Octets) /\ Len(r) = Len(data)
        /\ \A i \in 1..Len(data) :
             r[i] = IF from(n) < i /\ i <= to(n) THEN value(n)[i - from(n)] ELSE data[i]
    <2> DEFINE f == from(n)
               t == to(n)
               v == value(n)
    <2>1. /\ data \in Seq(Octets) /\ data # <<>> /\ v \in Seq(Octets)
          /\ f \in Nat /\ t \in f..Len(data) /\ Len(v) = t - f
      BY <1>4, <1>6, <1>7
    <2> HIDE DEF f, t, v
    <2>2. /\ CopyFromSlice(data, f, t, v) \in Seq(Octets)
          /\ Len(CopyFromSlice(data, f, t, v)) = Len(data)
          /\ \A i \in 1..Len(data) : CopyFromSlice(data, f, t, v)[i] =
               IF f < i /\ i <= t THEN v[i - f] ELSE data[i]
      BY <2>1, CopiedBytes
    <2>3. QED
      BY <2>2 DEF f, t, v
  <1> HIDE DEF r
  <1>9. r[1] = PROTOCOL_VERSION
    <2>1. 1 \in 1..Len(data) /\ ~(from(n) < 1)
      BY <1>2, <1>6
    <2>2. QED
      BY <1>4, <1>8, <2>1
  <1>10. ASSUME NEW m \in 1..n, NEW i \in 1..Len(value(m))
         PROVE  r[from(m) + i] = value(m)[i]
    <2>1. m \in 1..N
      BY <1>1, <1>6
    <2>2. /\ from(m) \in Nat \ {0} /\ to(m) \in Nat /\ to(m) <= WireLength[k]
          /\ Len(value(m)) = to(m) - from(m)
      BY <1>2, <2>1
    <2>3. from(m) + i \in 1..Len(data) /\ from(m) + i <= to(m) /\ from(m) < from(m) + i
      <3>1. WireLength[k] \in Nat /\ WireLength[k] <= Len(data) /\ Len(data) \in Nat
        BY <1>1, <1>4, <1>6
      <3>2. QED
        BY <2>2, <3>1
    <2>4. CASE m = n
      <3>1. (from(n) + i) - from(n) = i
        BY <2>2, <2>4
      <3>2. QED
        BY <1>8, <2>3, <2>4, <3>1
    <2>5. CASE m # n
      <3>1. m < n /\ m \in 1..(n - 1)
        BY <1>1, <1>6, <2>5
      <3>2. data[from(m) + i] = value(m)[i]
        BY <1>4, <3>1
      <3>3. to(m) <= from(n)
        BY <1>3, <2>1, <3>1
      <3>4. ~(from(n) < from(m) + i)
        BY <1>6, <2>2, <2>3, <3>3
      <3>5. QED
        BY <1>8, <2>3, <3>2, <3>4
    <2>6. QED
      BY <2>4, <2>5
  <1>11. ASSUME NEW i \in 2..Len(out), \A m \in 1..n : to(m) < i
         PROVE  r[i] = out[i]
    <2>1. to(n) < i
      BY <1>6, <1>11
    <2>2. \A m \in 1..(n - 1) : to(m) < i
      BY <1>11
    <2>3. data[i] = out[i]
      BY <1>4, <2>2
    <2>4. QED
      BY <1>2, <1>4, <1>6, <1>8, <2>1, <2>3
  <1>12. QED
    BY <1>4, <1>8, <1>9, <1>10, <1>11

(* The buffers between the copies of write_*.                              *)
IsCopying(A, k, fields, out) ==
  LET slices == WriteSlices[k] IN
  A = [n \in 0..Len(slices) |->
         IF n = 0 THEN [out EXCEPT ![1] = PROTOCOL_VERSION]
         ELSE CopyFromSlice(A[n - 1], slices[n].from, slices[n].to, fields[slices[n].field])]

(* There are such buffers: no message has more than five slices.           *)
LEMMA CopyingExists ==
  ASSUME NEW k \in Kinds, NEW fields, NEW out
  PROVE  \E A : IsCopying(A, k, fields, out)
  <1> DEFINE slices == WriteSlices[k]
             N == Len(slices)
             C(data, n) == CopyFromSlice(data, slices[n].from, slices[n].to,
                                         fields[slices[n].field])
             a0 == [out EXCEPT ![1] = PROTOCOL_VERSION]
             a1 == C(a0, 1)
             a2 == C(a1, 2)
             a3 == C(a2, 3)
             a4 == C(a3, 4)
             a5 == C(a4, 5)
             A == [n \in 0..N |->
                     IF n = 0 THEN a0 ELSE IF n = 1 THEN a1 ELSE IF n = 2 THEN a2
                     ELSE IF n = 3 THEN a3 ELSE IF n = 4 THEN a4 ELSE a5]
  <1>1. N \in 1..5
    BY LayoutIsRight DEF Layout
  <1> HIDE DEF slices, N
  <1>2. ASSUME NEW n \in 1..N
        PROVE  n \in {1, 2, 3, 4, 5} /\ n - 1 \in 0..N
    BY <1>1
  <1>3. \A n \in 1..N : A[n] = C(A[n - 1], n)
    <2> HIDE DEF C
    <2>1. TAKE n \in 1..N
    <2>2. QED
      BY <1>2
  <1>4. A[0] = a0
    BY <1>1
  <1>5. A = [n \in 0..N |-> A[n]]
    OBVIOUS
  <1> HIDE DEF A, a0
  <1>6. \A n \in 0..N : A[n] = IF n = 0 THEN a0 ELSE C(A[n - 1], n)
    BY <1>1, <1>3, <1>4
  <1>7. A = [n \in 0..N |-> IF n = 0 THEN a0 ELSE C(A[n - 1], n)]
    BY <1>5, <1>6
  <1>8. QED
    BY <1>7 DEF IsCopying, a0, slices, N

(* What a writer that accepts its arguments leaves in the buffer.          *)
LEMMA WrittenBytes ==
  ASSUME NEW k \in Kinds, NEW fields, FieldsFit(k, fields),
         NEW out \in Seq(Octets), Len(out) >= WireLength[k]
  PROVE  WrittenUpTo(Written(k, fields, out), k, fields, out, Len(WriteSlices[k]))
  <1> DEFINE N == Len(WriteSlices[k])
             P(data, n) == WrittenUpTo(data, k, fields, out, n)
  <1>1. PICK A : IsCopying(A, k, fields, out) /\ Written(k, fields, out) = A[N]
    <2>1. Written(k, fields, out) = (CHOOSE A : IsCopying(A, k, fields, out))[N]
      BY DEF Written, IsCopying
    <2>2. QED
      BY <2>1, CopyingExists
  <1>2. Layout(k) /\ N \in 1..5 /\ WireLength[k] \in Nat \ {0}
    BY LayoutIsRight DEF Layout
  <1>3. P(A[0], 0)
    <2>1. A[0] = [out EXCEPT ![1] = PROTOCOL_VERSION]
      BY <1>1, <1>2 DEF IsCopying
    <2>2. 1 \in 1..Len(out) /\ PROTOCOL_VERSION \in Octets
      BY <1>2, SingleBytes DEF Octets
    <2>3. QED
      BY <2>1, <2>2, ExceptSeq DEF WrittenUpTo
  <1>4. ASSUME NEW m \in Nat, NEW n \in 1..N, n = m + 1, P(A[m], m)
        PROVE  P(A[n], n)
    <2>1. n \in 0..N /\ n # 0 /\ n - 1 = m
      BY <1>2, <1>4
    <2>2. LET s == WriteSlices[k][n] IN
          A[n] = CopyFromSlice(A[n - 1], s.from, s.to, fields[s.field])
      BY <1>1, <2>1 DEF IsCopying
    <2>3. QED
      BY <1>4, <2>1, <2>2, NextSlice
  <1> HIDE DEF P, N
  <1>5. P(A[1], 1)
    BY <1>2, <1>3, <1>4
  <1>6. N >= 2 => P(A[2], 2)
    BY <1>2, <1>4, <1>5
  <1>7. N >= 3 => P(A[3], 3)
    BY <1>2, <1>4, <1>6
  <1>8. N >= 4 => P(A[4], 4)
    BY <1>2, <1>4, <1>7
  <1>9. N = 5 => P(A[5], 5)
    BY <1>2, <1>4, <1>8
  <1>10. P(A[N], N)
    BY <1>2, <1>5, <1>6, <1>7, <1>8, <1>9
  <1>11. QED
    BY <1>1, <1>10 DEF P, N

-----------------------------------------------------------------------------
(* What is in a buffer.                                                    *)

(* Data carries a message of kind k with these fields.                     *)
Carries(k, fields, data) ==
  /\ data \in Seq(Octets) /\ Len(data) >= WireLength[k] /\ data[1] = PROTOCOL_VERSION
  /\ \A n \in 1..Len(WriteSlices[k]) :
       Slice(data, WriteSlices[k][n].from, WriteSlices[k][n].to)
         = fields[WriteSlices[k][n].field]

(* The message is complete, and what is behind it is as it was.            *)
Exact(k, data) ==
  /\ \A i \in 1..WireLength[k] : data[i] \in Content
  /\ \A i \in (WireLength[k] + 1)..Len(data) : data[i] = <<"old", i>>

(* Slices that hold the bytes of the fields are the fields.                *)
LEMMA WrittenCarries ==
  ASSUME NEW k \in Kinds, NEW fields, FieldsFit(k, fields),
         NEW room \in Nat, room >= WireLength[k]
  PROVE  /\ Carries(k, fields, Written(k, fields, Bytes("old", room)))
         /\ Exact(k, Written(k, fields, Bytes("old", room)))
         /\ Len(Written(k, fields, Bytes("old", room))) = room
  <1> DEFINE slices == WriteSlices[k]
             N == Len(slices)
             out == Bytes("old", room)
             w == Written(k, fields, out)
             from(m)  == slices[m].from
             to(m)    == slices[m].to
             value(m) == fields[slices[m].field]
  <1>1. N \in 1..5 /\ WireLength[k] \in Nat \ {0} /\ Layout(k)
    BY LayoutIsRight DEF Layout
  <1>2. ASSUME NEW m \in 1..N
        PROVE  /\ from(m) \in Nat \ {0} /\ to(m) \in Nat /\ from(m) <= to(m)
               /\ to(m) <= WireLength[k]
               /\ value(m) \in Seq(Content) /\ Len(value(m)) = to(m) - from(m)
    BY SlicesFit, FieldsOfSlices
  <1>3. /\ out \in Seq(Octets) /\ Len(out) = room
        /\ \A i \in 1..room : out[i] = <<"old", i>>
    BY OldBytes
  <1>4. WrittenUpTo(w, k, fields, out, N)
    BY <1>3, WrittenBytes
  <1>5. /\ w \in Seq(Octets) /\ Len(w) = room /\ w[1] = PROTOCOL_VERSION
        /\ \A m \in 1..N : \A i \in 1..Len(value(m)) : w[from(m) + i] = value(m)[i]
        /\ \A i \in 2..room : (\A m \in 1..N : to(m) < i) => w[i] = out[i]
    BY <1>3, <1>4 DEF WrittenUpTo
  <1>6. \A i \in 2..WireLength[k] : \E m \in 1..N : from(m) < i /\ i <= to(m)
    BY <1>1 DEF Layout
  <1>7. SUFFICES /\ \A m \in 1..N : Slice(w, from(m), to(m)) = value(m)
                 /\ \A i \in 1..WireLength[k] : w[i] \in Content
                 /\ \A i \in (WireLength[k] + 1)..room : w[i] = <<"old", i>>
    BY <1>5 DEF Carries, Exact
  <1> HIDE DEF from, to, value, N, w, out
  <1>8. ASSUME NEW m \in 1..N
        PROVE  Slice(w, from(m), to(m)) = value(m)
    <2>1. /\ from(m) \in Nat /\ to(m) \in from(m)..Len(w)
          /\ value(m) \in Seq(Content) /\ Len(value(m)) = to(m) - from(m)
      BY <1>1, <1>2, <1>5
    <2>2. value(m) \in Seq(Octets)
      BY <2>1, SeqMonotonic DEF Octets
    <2>3. \A i \in 1..Len(value(m)) : w[from(m) + i] = value(m)[i]
      BY <1>5
    <2>4. from(m) + Len(value(m)) = to(m) /\ from(m) + Len(value(m)) <= Len(w)
      BY <1>5, <2>1
    <2>5. Slice(w, from(m), from(m) + Len(value(m))) = value(m)
      BY <1>5, <2>1, <2>2, <2>3, <2>4, SliceIs
    <2>6. QED
      BY <2>4, <2>5
  <1>9. ASSUME NEW i \in 1..WireLength[k]
        PROVE  w[i] \in Content
    <2>1. CASE i = 1
      BY <1>5, <2>1, SingleBytes
    <2>2. CASE i # 1
      <3>1. PICK m \in 1..N : from(m) < i /\ i <= to(m)
        BY <1>1, <1>6, <2>2
      <3>2. /\ from(m) \in Nat /\ to(m) \in Nat
            /\ value(m) \in Seq(Content) /\ Len(value(m)) = to(m) - from(m)
        BY <1>2
      <3>3. i - from(m) \in 1..Len(value(m)) /\ from(m) + (i - from(m)) = i
        BY <1>1, <3>1, <3>2
      <3>4. w[i] = value(m)[i - from(m)]
        BY <1>5, <3>3
      <3>5. QED
        BY <3>2, <3>3, <3>4, ElementOfSeq
    <2>3. QED
      BY <2>1, <2>2
  <1>10. ASSUME NEW i \in (WireLength[k] + 1)..room
         PROVE  w[i] = <<"old", i>>
    <2>1. i \in 2..room /\ i \in 1..room /\ WireLength[k] < i
      BY <1>1
    <2>2. \A m \in 1..N : to(m) < i
      BY <1>1, <1>2, <2>1
    <2>3. QED
      BY <1>3, <1>5, <2>1, <2>2
  <1>11. QED
    BY <1>8, <1>9, <1>10

(* What arrives of a buffer that is cut to the length of its message.      *)
LEMMA DeliveredCarries ==
  ASSUME NEW k \in Kinds, NEW fields, NEW data, Carries(k, fields, data)
  PROVE  LET arrived == Slice(data, 0, WireLength[k]) IN
         Carries(k, fields, arrived) /\ Len(arrived) = WireLength[k]
  <1> DEFINE L == WireLength[k]
             arrived == Slice(data, 0, L)
             slices == WriteSlices[k]
  <1>1. L \in Nat \ {0} /\ Layout(k)
    BY LayoutIsRight DEF Layout
  <1>2. data \in Seq(Octets) /\ L \in 0..Len(data)
    BY <1>1 DEF Carries
  <1>3. /\ arrived \in Seq(Octets) /\ Len(arrived) = L
        /\ \A i \in 1..L : arrived[i] = data[i]
    BY <1>1, <1>2 DEF Slice
  <1>4. arrived[1] = PROTOCOL_VERSION
    BY <1>1, <1>3 DEF Carries
  <1>5. ASSUME NEW n \in 1..Len(slices)
        PROVE  Slice(arrived, slices[n].from, slices[n].to)
                 = Slice(data, slices[n].from, slices[n].to)
    <2> DEFINE from == slices[n].from
               to == slices[n].to
    <2>1. from \in Nat /\ to \in Nat /\ from <= to /\ to <= L
      BY SlicesFit
    <2> HIDE DEF from, to, arrived
    <2>2. to \in from..Len(arrived) /\ to \in from..Len(data)
      BY <1>1, <1>2, <1>3, <2>1
    <2>3. /\ Slice(arrived, from, to) \in Seq(Octets)
          /\ Len(Slice(arrived, from, to)) = to - from
          /\ \A i \in 1..(to - from) : Slice(arrived, from, to)[i] = arrived[from + i]
      BY <1>3, <2>1, <2>2, SliceBytes
    <2>4. /\ Slice(data, from, to) \in Seq(Octets)
          /\ Len(Slice(data, from, to)) = to - from
          /\ \A i \in 1..(to - from) : Slice(data, from, to)[i] = data[from + i]
      BY <1>2, <2>1, <2>2, SliceBytes
    <2>5. \A i \in 1..(to - from) : arrived[from + i] = data[from + i]
      BY <1>1, <1>3, <2>1
    <2>6. Slice(arrived, from, to) = Slice(data, from, to)
      BY <2>3, <2>4, <2>5, SeqEqual
    <2>7. QED
      BY <2>6 DEF from, to
  <1>6. QED
    <2> HIDE DEF arrived
    <2>1. Carries(k, fields, arrived)
      BY <1>1, <1>3, <1>4, <1>5 DEF Carries
    <2>2. QED
      BY <1>3, <2>1 DEF arrived

-----------------------------------------------------------------------------
(* Parsers.                                                                *)

(* But for a record, the parsers cut their messages where the writers put  *)
(* them together.                                                          *)
LEMMA ParsersAgree ==
  \A k \in Kinds \ {"record"} : ParseSlices(k, WireLength[k]) = WriteSlices[k]
  <1> USE DEF ParseSlices, WriteSlices, WireLength
  <1>1. ParseSlices("request", WireLength["request"]) = WriteSlices["request"]
    BY DEF RegistrationRequestRef
  <1>2. ParseSlices("response", WireLength["response"]) = WriteSlices["response"]
    BY DEF RegistrationResponseRef
  <1>3. ParseSlices("ke1", WireLength["ke1"]) = WriteSlices["ke1"]
    BY DEF Ke1Ref
  <1>4. ParseSlices("ke2", WireLength["ke2"]) = WriteSlices["ke2"]
    BY DEF Ke2Ref
  <1>5. ParseSlices("ke3", WireLength["ke3"]) = WriteSlices["ke3"]
    BY DEF Ke3Ref
  <1> HIDE DEF ParseSlices, WriteSlices, WireLength
  <1>6. QED
    BY <1>1, <1>2, <1>3, <1>4, <1>5 DEF Kinds

(* What a parser makes of the data that carries a message of its kind.     *)
LEMMA ParsedFields ==
  ASSUME NEW k \in Kinds \ {"record"}, NEW fields, FieldsFit(k, fields),
         NEW data, Carries(k, fields, data), Len(data) = WireLength[k]
  PROVE  Parsed(k, data) = [kind |-> k, ok |-> TRUE, fields |-> fields]
  <1> DEFINE slices == WriteSlices[k]
             Choice(f) == CHOOSE s \in ToSet(ParseSlices(k, Len(data))) : s.field = f
  <1>1. ParseAccepts(k, data) /\ ParseSlices(k, Len(data)) = slices
    BY ParsersAgree DEF ParseAccepts, Carries
  <1>2. /\ Len(slices) \in 1..5 /\ DOMAIN slices = 1..Len(slices)
        /\ \A m, n \in 1..Len(slices) : slices[m].field = slices[n].field => m = n
        /\ DOMAIN FieldLengths[k] = {slices[n].field : n \in 1..Len(slices)}
    BY LayoutIsRight, SlicesAreSequences DEF Layout
  <1>3. ToSet(ParseSlices(k, Len(data))) = {slices[n] : n \in 1..Len(slices)}
    BY <1>1, <1>2 DEF ToSet
  <1>4. {s.field : s \in ToSet(ParseSlices(k, Len(data)))} = DOMAIN fields
    BY <1>2, <1>3 DEF FieldsFit
  <1>5. ASSUME NEW f \in DOMAIN fields
        PROVE  Slice(data, Choice(f).from, Choice(f).to) = fields[f]
    <2>1. PICK n \in 1..Len(slices) : slices[n].field = f
      BY <1>2 DEF FieldsFit
    <2>2. Choice(f) = slices[n]
      <3>1. slices[n] \in ToSet(ParseSlices(k, Len(data)))
        BY <1>3
      <3>2. \A s \in ToSet(ParseSlices(k, Len(data))) : s.field = f => s = slices[n]
        BY <1>2, <1>3, <2>1
      <3>3. QED
        BY <2>1, <3>1, <3>2
    <2>3. QED
      BY <2>1, <2>2 DEF Carries
  <1>6. fields = [f \in {s.field : s \in ToSet(ParseSlices(k, Len(data)))} |->
                    Slice(data, Choice(f).from, Choice(f).to)]
    BY <1>4, <1>5 DEF FieldsFit
  <1>7. QED
    BY <1>1, <1>6 DEF Parsed

(* The three parts of a record, where the writer put two.                  *)
IsRecordOf(parsed, fields) ==
  LET stored == fields.credential_storage IN
  /\ parsed.kind = "record" /\ parsed.ok
  /\ parsed.fields.envelope = Slice(stored, 32, 168)
  /\ parsed.fields.masking_key \o parsed.fields.envelope = stored
  /\ parsed.fields.initiator_public_key = fields.initiator_public_key

(* The parser of a record finds them.                                      *)
LEMMA ParsedRecord ==
  ASSUME NEW fields, FieldsFit("record", fields),
         NEW data, Carries("record", fields, data), Len(data) = WireLength["record"]
  PROVE  IsRecordOf(Parsed("record", data), fields)
  <1> DEFINE parsed == Parsed("record", data)
             stored == fields.credential_storage
             slices == ParseSlices("record", Len(data))
             Choice(f) == CHOOSE s \in ToSet(slices) : s.field = f
             F == [f \in {s.field : s \in ToSet(slices)} |->
                     Slice(data, Choice(f).from, Choice(f).to)]
  <1>1. /\ "record" \in Kinds /\ ParseAccepts("record", data)
    BY DEF Kinds, ParseAccepts, Carries
  <1>2. slices =
          <<[field |-> "masking_key", from |-> 1, to |-> 33],
            [field |-> "envelope", from |-> 33, to |-> 169],
            [field |-> "initiator_public_key", from |-> 169, to |-> 201]>>
    BY DEF ParseSlices, RegistrationRecordRef, WireLength, V, VERSION_PREFIX_LENGTH, REG_RECORD_ENVELOPE_OFFSET,
           MASKING_KEY_LENGTH, REG_RECORD_INITIATOR_KEY_OFFSET, ENVELOPE_LENGTH,
           REGISTRATION_CREDENTIAL_LENGTH, REGISTRATION_RECORD_LENGTH, PUBLIC_KEY_LENGTH
  <1>3. WriteSlices["record"] =
          <<[field |-> "credential_storage", from |-> 1, to |-> 169],
            [field |-> "initiator_public_key", from |-> 169, to |-> 201]>>
    BY DEF WriteSlices, V, VERSION_PREFIX_LENGTH, MASKING_KEY_LENGTH, ENVELOPE_LENGTH,
           REG_RECORD_INITIATOR_KEY_OFFSET, REGISTRATION_CREDENTIAL_LENGTH,
           REGISTRATION_RECORD_LENGTH, PUBLIC_KEY_LENGTH
  <1>4. WireLength["record"] = 201 /\ data \in Seq(Octets) /\ Len(data) = 201
    BY DEF Carries, WireLength, REGISTRATION_RECORD_LENGTH, REGISTRATION_CREDENTIAL_LENGTH,
           VERSION_PREFIX_LENGTH, MASKING_KEY_LENGTH, ENVELOPE_LENGTH, PUBLIC_KEY_LENGTH
  <1>5. /\ Slice(data, 1, 169) = stored
        /\ Slice(data, 169, 201) = fields.initiator_public_key
    BY <1>3 DEF Carries
  <1>6. ToSet(slices) = {slices[1], slices[2], slices[3]}
    BY <1>2 DEF ToSet
  <1>7. /\ Choice("masking_key") = slices[1]
        /\ Choice("envelope") = slices[2]
        /\ Choice("initiator_public_key") = slices[3]
    BY <1>2, <1>6
  <1>8. {s.field : s \in ToSet(slices)} = {"masking_key", "envelope", "initiator_public_key"}
    BY <1>2, <1>6
  <1>9. parsed = [kind |-> "record", ok |-> TRUE, fields |-> F]
    BY <1>1 DEF Parsed
  <1>10. /\ F.masking_key = Slice(data, 1, 33)
         /\ F.envelope = Slice(data, 33, 169)
         /\ F.initiator_public_key = Slice(data, 169, 201)
    <2>1. /\ slices[1].from = 1 /\ slices[1].to = 33
          /\ slices[2].from = 33 /\ slices[2].to = 169
          /\ slices[3].from = 169 /\ slices[3].to = 201
      BY <1>2
    <2> HIDE DEF slices, Choice
    <2>2. \A f \in {"masking_key", "envelope", "initiator_public_key"} :
            F[f] = Slice(data, Choice(f).from, Choice(f).to)
      BY <1>8
    <2> HIDE DEF F
    <2>3. QED
      BY <1>7, <2>1, <2>2
  <1>11. Slice(stored, 0, 32) = Slice(data, 1, 33) /\ Slice(stored, 32, 168) = Slice(data, 33, 169)
    <2>1. /\ Slice(Slice(data, 1, 169), 0, 32) = Slice(data, 1, 33)
          /\ Slice(Slice(data, 1, 169), 32, 168) = Slice(data, 33, 169)
      BY <1>4 DEF Slice
    <2>2. QED
      BY <1>5, <2>1
  <1>12. Slice(data, 1, 33) \o Slice(data, 33, 169) = Slice(data, 1, 169)
    <2>1. SubSeq(data, 2, 33) \o SubSeq(data, 33 + 1, 169) = SubSeq(data, 2, 169)
      BY <1>4, ConcatAdjacentSubSeq
    <2>2. QED
      BY <2>1 DEF Slice
  <1> HIDE DEF F, parsed, stored
  <1>13. /\ parsed.kind = "record" /\ parsed.ok /\ parsed.fields = F
    BY <1>9
  <1>14. QED
    <2>1. /\ parsed.fields.envelope = Slice(stored, 32, 168)
          /\ parsed.fields.masking_key \o parsed.fields.envelope = stored
          /\ parsed.fields.initiator_public_key = fields.initiator_public_key
      BY <1>5, <1>10, <1>11, <1>12, <1>13
    <2>2. QED
      BY <1>13, <2>1 DEF IsRecordOf, parsed, stored

(* The lengths of the messages.                                            *)
LEMMA WireLengths ==
  /\ WireLength["request"] = 33 /\ WireLength["response"] = 65
  /\ WireLength["record"] = 201 /\ WireLength["ke1"] = 1273
  /\ WireLength["ke2"] = 1377 /\ WireLength["ke3"] = 65
  BY DEF WireLength, REGISTRATION_REQUEST_WIRE_LENGTH, REGISTRATION_RESPONSE_WIRE_LENGTH,
         REGISTRATION_RECORD_LENGTH, REGISTRATION_CREDENTIAL_LENGTH, KE1_LENGTH,
         KE1_BASE_LENGTH, KE2_LENGTH, KE2_BASE_LENGTH, KE3_LENGTH, VERSION_PREFIX_LENGTH,
         REGISTRATION_REQUEST_LENGTH, REGISTRATION_RESPONSE_LENGTH, PUBLIC_KEY_LENGTH,
         MASKING_KEY_LENGTH, ENVELOPE_LENGTH, NONCE_LENGTH, MAC_LENGTH,
         CREDENTIAL_RESPONSE_LENGTH, KEM_PUBLIC_KEY_LENGTH, KEM_CIPHERTEXT_LENGTH

(* What is cut, extended or of another version.                            *)
Damaged(k, data) ==
  \/ Len(data) = WireLength[k] - 1 \/ Len(data) = WireLength[k] + 1
  \/ data[1] = PROTOCOL_VERSION_1

(* No parser accepts it.                                                   *)
LEMMA DamageIsSeen ==
  ASSUME NEW k \in Kinds, NEW l \in Kinds, NEW data, Damaged(k, data)
  PROVE  ~ParseAccepts(l, data)
  <1>1. CASE data[1] = PROTOCOL_VERSION_1
    BY <1>1, SingleBytes DEF ParseAccepts
  <1>2. WireLength[l] # WireLength[k] - 1 /\ WireLength[l] # WireLength[k] + 1
    BY WireLengths DEF Kinds
  <1>3. QED
    BY <1>1, <1>2 DEF Damaged, ParseAccepts

(* Only two kinds have one length.                                         *)
LEMMA EqualLengths ==
  ASSUME NEW k \in Kinds, NEW l \in Kinds, WireLength[k] = WireLength[l]
  PROVE  k = l \/ {k, l} = {"response", "ke3"}
  BY WireLengths DEF Kinds

-----------------------------------------------------------------------------
(* The envelope.                                                           *)

(* Where its parts are in the stored credentials.                          *)
LEMMA StoredBytes ==
  /\ CredentialStorage \in Seq(Plain) /\ Len(CredentialStorage) = 168
  /\ Slice(CredentialStorage, 32, 56) = Sealed.nonce
  /\ Slice(CredentialStorage, 56, 152) = Sealed.ciphertext
  /\ Slice(CredentialStorage, 152, 168) = Sealed.auth_tag
  <1> DEFINE mk == Bytes("masking_key", 32)
             nonce == Bytes("envelope_nonce", 24)
             ct == Bytes("ciphertext", 96)
             tag == Bytes("auth_tag", 16)
             a == mk \o nonce
             b == a \o ct
             c == b \o tag
  <1>1. /\ CredentialStorage = c
        /\ Sealed.nonce = nonce /\ Sealed.ciphertext = ct /\ Sealed.auth_tag = tag
    BY DEF CredentialStorage, Sealed, CiphertextLength, MASKING_KEY_LENGTH, NONCE_LENGTH, PUBLIC_KEY_LENGTH, PRIVATE_KEY_LENGTH, SECRETBOX_MAC_LENGTH
  <1>2. mk \in Seq(Plain) /\ Len(mk) = 32
    BY DEF Bytes, Plain, Names
  <1>3. nonce \in Seq(Plain) /\ Len(nonce) = 24
    BY DEF Bytes, Plain, Names
  <1>4. ct \in Seq(Plain) /\ Len(ct) = 96
    BY DEF Bytes, Plain, Names
  <1>5. tag \in Seq(Plain) /\ Len(tag) = 16
    BY DEF Bytes, Plain, Names
  <1> HIDE DEF mk, nonce, ct, tag
  <1>6. /\ a \in Seq(Plain) /\ Len(a) = Len(mk) + Len(nonce)
        /\ Slice(a, Len(mk), Len(mk) + Len(nonce)) = nonce
    BY <1>2, <1>3, JoinedSlices
  <1> HIDE DEF a
  <1>7. /\ b \in Seq(Plain) /\ Len(b) = Len(a) + Len(ct)
        /\ Slice(b, Len(a), Len(a) + Len(ct)) = ct
    BY <1>4, <1>6, JoinedSlices
  <1>8. Slice(b, Len(mk), Len(a)) = Slice(a, Len(mk), Len(a))
    <2>1. Len(mk) \in Nat /\ Len(a) \in Len(mk)..Len(a)
      BY <1>2, <1>3, <1>6
    <2>2. QED
      BY <1>4, <1>6, <2>1, InnerSlice
  <1> HIDE DEF b
  <1>9. /\ c \in Seq(Plain) /\ Len(c) = Len(b) + Len(tag)
        /\ Slice(c, Len(b), Len(b) + Len(tag)) = tag
    BY <1>5, <1>7, JoinedSlices
  <1>10. /\ Slice(c, Len(mk), Len(a)) = Slice(b, Len(mk), Len(a))
         /\ Slice(c, Len(a), Len(b)) = Slice(b, Len(a), Len(b))
    <2>1. /\ Len(mk) \in Nat /\ Len(a) \in Len(mk)..Len(b)
          /\ Len(a) \in Nat /\ Len(b) \in Len(a)..Len(b)
      BY <1>2, <1>3, <1>4, <1>6, <1>7
    <2>2. QED
      BY <1>5, <1>7, <2>1, InnerSlice
  <1> HIDE DEF c
  <1>11. Len(mk) = 32 /\ Len(a) = 56 /\ Len(b) = 152 /\ Len(c) = 168
    BY <1>2, <1>3, <1>4, <1>5, <1>6, <1>7, <1>9
  <1>12. QED
    BY <1>1, <1>3, <1>4, <1>5, <1>6, <1>7, <1>8, <1>9, <1>10, <1>11

(* generate_ke3 finds in the response the envelope of the record.          *)
LEMMA EnvelopeIsKept ==
  ASSUME NEW response,
         response = Bytes("evaluated_element", PUBLIC_KEY_LENGTH)
                      \o Mask(Slice(CredentialStorage, 32, 168))
  PROVE  /\ response \in Seq(Content) /\ Len(response) = 168
         /\ EnvelopeParts(response) = Sealed
  <1> DEFINE element == Bytes("evaluated_element", PUBLIC_KEY_LENGTH)
             stored == CredentialStorage
             envelope == Slice(stored, 32, 168)
             masked == Mask(envelope)
             data == Unmask(Slice(response, PUBLIC_KEY_LENGTH, Len(response)))
  <1>1. element \in Seq(Content) /\ Len(element) = 32
    <2>1. element = Bytes("evaluated_element", 32)
      BY DEF PUBLIC_KEY_LENGTH
    <2>2. /\ Bytes("evaluated_element", 32) \in Seq(Plain)
          /\ Len(Bytes("evaluated_element", 32)) = 32
      <3>1. "evaluated_element" \in Names
        BY DEF Names
      <3>2. \A i \in 1..32 : <<"evaluated_element", i>> \in Plain
        BY <3>1 DEF Plain
      <3>3. QED
        BY <3>2 DEF Bytes
    <2>3. QED
      BY <2>1, <2>2, SeqMonotonic DEF Content
  <1>2. stored \in Seq(Plain) /\ Len(stored) = 168
    BY StoredBytes
  <1> HIDE DEF stored, element
  <1>3. envelope \in Seq(Plain) /\ Len(envelope) = 136
    <2>1. ASSUME NEW i \in 33..168
          PROVE  stored[i] \in Plain
      <3>1. stored \in Seq(Plain)
        BY <1>2
      <3>2. i \in 1..Len(stored)
        BY <1>2
      <3>3. QED
        BY <3>1, <3>2, ElementOfSeq
    <2>2. QED
      BY <2>1, SubSeqProperties DEF Slice
  <1>4. /\ Slice(envelope, 0, 24) = Slice(stored, 32, 56)
        /\ Slice(envelope, 24, 120) = Slice(stored, 56, 152)
        /\ Slice(envelope, 120, 136) = Slice(stored, 152, 168)
    BY <1>2 DEF Slice
  <1> HIDE DEF envelope
  <1>5. /\ DOMAIN envelope = 1..136 /\ envelope = [i \in 1..136 |-> envelope[i]]
        /\ \A i \in 1..136 : envelope[i] \in Plain
    <2>1. envelope \in [1..136 -> Plain]
      BY <1>3, LenProperties
    <2>2. QED
      BY <2>1
  <1>6. masked = [i \in 1..136 |-> <<"masked", envelope[i]>>]
    BY <1>5 DEF Mask
  <1>7. \A i \in 1..136 : <<"masked", envelope[i]>> \in Content
    BY <1>5 DEF Content
  <1>8. masked \in Seq(Content) /\ Len(masked) = 136
    BY <1>6, <1>7
  <1>9. Unmask(masked) = envelope
    <2>1. DOMAIN masked = 1..136 /\ \A i \in 1..136 : masked[i][2] = envelope[i]
      BY <1>6
    <2> HIDE DEF masked
    <2>2. QED
      BY <1>5, <2>1 DEF Unmask
  <1> HIDE DEF masked
  <1>10. response = element \o masked
    BY DEF element, masked, envelope, stored
  <1>11. /\ response \in Seq(Content) /\ Len(response) = Len(element) + Len(masked)
         /\ Slice(response, Len(element), Len(element) + Len(masked)) = masked
    <2>1. /\ element \o masked \in Seq(Content)
          /\ Len(element \o masked) = Len(element) + Len(masked)
          /\ Slice(element \o masked, Len(element), Len(element) + Len(masked)) = masked
      <3>1. element \in Seq(Content) /\ masked \in Seq(Content)
        BY <1>1, <1>8
      <3>2. QED
        BY <3>1, JoinedSlices
    <2>2. QED
      BY <1>10, <2>1
  <1>12. Len(response) = 168 /\ Slice(response, 32, 168) = masked
    BY <1>1, <1>8, <1>11
  <1>13. data = envelope
    BY <1>9, <1>12 DEF PUBLIC_KEY_LENGTH
  <1>14. EnvelopeParts(response) =
           [nonce      |-> Slice(data, 0, 24),
            ciphertext |-> Slice(data, 24, 120),
            auth_tag   |-> Slice(data, 120, Len(data))]
    BY DEF EnvelopeParts, NONCE_LENGTH, ENVELOPE_LENGTH, SECRETBOX_MAC_LENGTH
  <1> HIDE DEF data
  <1>15. Sealed = [nonce |-> Sealed.nonce, ciphertext |-> Sealed.ciphertext,
                   auth_tag |-> Sealed.auth_tag]
    BY DEF Sealed
  <1>16. /\ Slice(data, 0, 24) = Sealed.nonce
         /\ Slice(data, 24, 120) = Sealed.ciphertext
         /\ Slice(data, 120, Len(data)) = Sealed.auth_tag
    BY <1>3, <1>4, <1>13, StoredBytes DEF stored
  <1>17. QED
    BY <1>11, <1>12, <1>14, <1>15, <1>16

-----------------------------------------------------------------------------
(* The invariant.                                                          *)

(* What is inside the fields: the envelope that was sealed.                *)
Sealing(k, fields) ==
  /\ k = "record" => fields.credential_storage = CredentialStorage
  /\ k = "ke2" => EnvelopeParts(fields.credential_response) = Sealed

(* What was accepted for writing has the lengths it must have, and holds   *)
(* the envelope that was sealed.                                           *)
GivenIsSound ==
  step \in {"written", "arrived", "parsed"} =>
    FieldsFit(kind, given) /\ Sealing(kind, given)

(* A written buffer carries the message, and a refused one is untouched.   *)
BufferIsSound ==
  /\ step = "written" => Carries(kind, given, buffer) /\ Exact(kind, buffer)
  /\ step = "refused" => \A i \in 1..Len(buffer) : buffer[i] = <<"old", i>>

(* What arrives is the message, or it shows that it is not.                *)
ArrivalIsSound ==
  step \in {"arrived", "parsed"} =>
    IF intact THEN Carries(kind, given, buffer) /\ Len(buffer) = WireLength[kind]
    ELSE Damaged(kind, buffer)

(* What is in view is what some parser made of it.                         *)
ViewIsParsed == step = "parsed" => \E k \in Kinds : view = Parsed(k, buffer)

WireInv ==
  /\ kind \in Kinds /\ intact \in BOOLEAN
  /\ GivenIsSound /\ BufferIsSound /\ ArrivalIsSound /\ ViewIsParsed

(* A value that is cut by a byte is shorter.                               *)
LEMMA CutByOne ==
  ASSUME NEW S, NEW v \in Seq(S), Len(v) \in Nat \ {0}
  PROVE  Len(SubSeq(v, 1, Len(v) - 1)) = Len(v) - 1
  <1> DEFINE n == Len(v) - 1
  <1>1. n \in Nat /\ 1 \in Int /\ n \in Int /\ \A i \in 1..n : v[i] \in S
    BY LenProperties
  <1> HIDE DEF n
  <1>2. Len(SubSeq(v, 1, n)) = IF 1 <= n THEN n - 1 + 1 ELSE 0
    BY <1>1, SubSeqProperties
  <1>3. Len(SubSeq(v, 1, n)) = n
    BY <1>1, <1>2
  <1>4. QED
    BY <1>3 DEF n

(* A writer whose fields would be accepted makes the invariant true,       *)
(* whichever of them is cut and whatever the size of the buffer.           *)
LEMMA WriteStep ==
  ASSUME NEW k \in Kinds, NEW fields, FieldsFit(k, fields), Sealing(k, fields),
         Write(k, fields)
  PROVE  WireInv'
  <1>1. PICK short \in DOMAIN fields \cup {"none"}, room \in -1..Spare :
          LET out == Bytes("old", WireLength[k] + room)
              fs  == [f \in DOMAIN fields |->
                        IF f = short THEN SubSeq(fields[f], 1, Len(fields[f]) - 1)
                        ELSE fields[f]]
              ok  == WriteAccepts(k, fs, out) IN
          /\ kind' = k /\ given' = fs /\ intact' = TRUE /\ view' = Rejected("none")
          /\ step' = IF ok THEN "written" ELSE "refused"
          /\ buffer' = IF ok THEN Written(k, fs, out) ELSE out
    BY DEF Write
  <1> DEFINE n   == WireLength[k] + room
             out == Bytes("old", n)
             fs  == [f \in DOMAIN fields |->
                       IF f = short THEN SubSeq(fields[f], 1, Len(fields[f]) - 1)
                       ELSE fields[f]]
             ok  == WriteAccepts(k, fs, out)
  <1>2. /\ kind' = k /\ given' = fs /\ intact' = TRUE
        /\ step' = IF ok THEN "written" ELSE "refused"
        /\ buffer' = IF ok THEN Written(k, fs, out) ELSE out
    BY <1>1
  <1>3. n \in Nat
    BY LayoutIsRight, SpareAssumption DEF Layout
  <1>4. Len(out) = n /\ \A i \in 1..n : out[i] = <<"old", i>>
    BY <1>3, OldBytes
  <1>5. CASE ok
    <2>1. fs = fields
      <3>1. /\ fields \in [DOMAIN FieldLengths[k] -> Seq(Content)]
            /\ \A f \in DOMAIN fields : /\ Len(fields[f]) = FieldLengths[k][f]
                                        /\ Len(fs[f]) = FieldLengths[k][f]
        BY <1>5 DEF FieldsFit, WriteAccepts
      <3>2. ASSUME NEW f \in DOMAIN fields, f = short
            PROVE  FALSE
        <4>1. fields[f] \in Seq(Content) /\ Len(fields[f]) \in Nat \ {0}
          BY <3>1, LayoutIsRight DEF Layout
        <4>2. Len(SubSeq(fields[f], 1, Len(fields[f]) - 1)) = Len(fields[f]) - 1
          BY <4>1, CutByOne
        <4>3. fs[f] = SubSeq(fields[f], 1, Len(fields[f]) - 1)
          BY <3>2
        <4>4. QED
          BY <3>1, <4>1, <4>2, <4>3
      <3>3. QED
        BY <3>1, <3>2
    <2>2. n >= WireLength[k]
      BY <1>4, <1>5 DEF WriteAccepts
    <2> HIDE DEF n
    <2>3. Carries(k, fields, Written(k, fields, out)) /\ Exact(k, Written(k, fields, out))
      BY <1>3, <2>2, WrittenCarries
    <2> HIDE DEF ok, fs, out
    <2>4. kind' = k /\ given' = fields /\ intact' = TRUE /\ step' = "written"
          /\ buffer' = Written(k, fields, out)
      BY <1>2, <1>5, <2>1
    <2>5. QED
      BY <2>3, <2>4
      DEF WireInv, GivenIsSound, BufferIsSound, ArrivalIsSound, ViewIsParsed
  <1>6. CASE ~ok
    <2> HIDE DEF ok, fs, out, n
    <2>1. kind' = k /\ intact' = TRUE /\ step' = "refused" /\ buffer' = out
      BY <1>2, <1>6
    <2>2. QED
      BY <1>4, <2>1
      DEF WireInv, GivenIsSound, BufferIsSound, ArrivalIsSound, ViewIsParsed
  <1>7. QED
    BY <1>5, <1>6

(* What a parser that accepts has in its view: the message was delivered   *)
(* intact, and the parser is that of its kind or of one as long.           *)
LEMMA AcceptedView ==
  ASSUME WireInv, step = "parsed", view.ok
  PROVE  /\ intact /\ view.kind \in Kinds /\ view = Parsed(view.kind, buffer)
         /\ view.kind = kind \/ {view.kind, kind} = {"response", "ke3"}
  <1>1. PICK k \in Kinds : view = Parsed(k, buffer)
    BY DEF WireInv, ViewIsParsed
  <1>2. view.kind = k
    BY <1>1 DEF Parsed, Rejected
  <1>3. ParseAccepts(k, buffer)
    BY <1>1 DEF Parsed, Rejected
  <1>4. intact
    BY <1>3, DamageIsSeen DEF WireInv, ArrivalIsSound
  <1>5. WireLength[k] = WireLength[kind]
    BY <1>3, <1>4 DEF WireInv, ArrivalIsSound, ParseAccepts
  <1>6. k = kind \/ {k, kind} = {"response", "ke3"}
    BY <1>5, EqualLengths DEF WireInv
  <1>7. QED
    BY <1>1, <1>2, <1>4, <1>6

(* In particular a record that is in view is the one that was written.     *)
LEMMA RecordView ==
  ASSUME WireInv, step = "parsed", view.kind = "record", view.ok
  PROVE  /\ view.fields.masking_key \o view.fields.envelope = CredentialStorage
         /\ view.fields.envelope = Slice(CredentialStorage, 32, 168)
         /\ FieldsFit("record", [credential_storage   |-> CredentialStorage,
                                 initiator_public_key |-> view.fields.initiator_public_key])
  <1>1. /\ intact /\ kind = "record" /\ view = Parsed("record", buffer)
    BY AcceptedView
  <1>2. /\ FieldsFit("record", given) /\ given.credential_storage = CredentialStorage
        /\ Carries("record", given, buffer) /\ Len(buffer) = WireLength["record"]
    BY <1>1 DEF WireInv, GivenIsSound, ArrivalIsSound, Sealing
  <1>3. /\ view.fields.masking_key \o view.fields.envelope = CredentialStorage
        /\ view.fields.envelope = Slice(CredentialStorage, 32, 168)
        /\ view.fields.initiator_public_key = given.initiator_public_key
    <2>1. IsRecordOf(Parsed("record", buffer), given)
      BY <1>2, ParsedRecord
    <2>2. QED
      BY <1>1, <1>2, <2>1 DEF IsRecordOf
  <1>4. [credential_storage   |-> CredentialStorage,
         initiator_public_key |-> given.initiator_public_key] = given
    <2>1. DOMAIN FieldLengths["record"] = {"credential_storage", "initiator_public_key"}
      BY DEF FieldLengths
    <2>2. given \in [{"credential_storage", "initiator_public_key"} -> Seq(Content)]
      BY <1>2, <2>1 DEF FieldsFit
    <2>3. QED
      BY <1>2, <2>2
  <1>5. QED
    BY <1>2, <1>3, <1>4

(* The initial state has it.                                               *)
LEMMA WireInvInit == Init => WireInv
  BY DEF Init, WireInv, GivenIsSound, BufferIsSound, ArrivalIsSound, ViewIsParsed, Kinds

(* Fields made of bytes of their own names have the lengths asked for.     *)
LEMMA NamedFieldsFit ==
  ASSUME NEW k \in Kinds \ {"record", "ke2"}
  PROVE  FieldsFit(k, [f \in DOMAIN FieldLengths[k] |-> Bytes(f, FieldLengths[k][f])])
  <1>1. DOMAIN FieldLengths[k] \subseteq Names
    BY DEF Kinds, FieldLengths, Names
  <1>2. \A f \in DOMAIN FieldLengths[k] : FieldLengths[k][f] \in Nat
    BY LayoutIsRight DEF Layout
  <1>3. \A f \in DOMAIN FieldLengths[k] :
          /\ Bytes(f, FieldLengths[k][f]) \in Seq(Plain)
          /\ Len(Bytes(f, FieldLengths[k][f])) = FieldLengths[k][f]
    BY <1>1, <1>2, NamedBytes
  <1>4. \A f \in DOMAIN FieldLengths[k] : Bytes(f, FieldLengths[k][f]) \in Seq(Content)
    BY <1>3, SeqMonotonic DEF Content
  <1>5. QED
    BY <1>3, <1>4 DEF FieldsFit

(* What finalize_registration gives to its writer.                         *)
LEMMA SealedFieldsFit ==
  FieldsFit("record", [credential_storage   |-> CredentialStorage,
                       initiator_public_key |-> Bytes("initiator_public_key", PUBLIC_KEY_LENGTH)])
  <1> DEFINE key == Bytes("initiator_public_key", PUBLIC_KEY_LENGTH)
  <1>1. FieldLengths["record"] = [credential_storage |-> 168, initiator_public_key |-> 32]
    BY DEF FieldLengths, REGISTRATION_CREDENTIAL_LENGTH, MASKING_KEY_LENGTH,
           ENVELOPE_LENGTH, PUBLIC_KEY_LENGTH
  <1>2. CredentialStorage \in Seq(Content) /\ Len(CredentialStorage) = 168
    BY StoredBytes, SeqMonotonic DEF Content
  <1>3. key \in Seq(Content) /\ Len(key) = 32
    <2>1. "initiator_public_key" \in Names /\ PUBLIC_KEY_LENGTH \in Nat
      BY DEF Names, PUBLIC_KEY_LENGTH
    <2>2. key \in Seq(Plain) /\ Len(key) = PUBLIC_KEY_LENGTH
      BY <2>1, NamedBytes
    <2>3. QED
      BY <2>2, SeqMonotonic DEF Content, PUBLIC_KEY_LENGTH
  <1> DEFINE fields == [credential_storage |-> CredentialStorage, initiator_public_key |-> key]
  <1> HIDE DEF key
  <1>4. /\ DOMAIN fields = {"credential_storage", "initiator_public_key"}
        /\ fields.credential_storage = CredentialStorage /\ fields.initiator_public_key = key
        /\ fields = [f \in DOMAIN fields |-> fields[f]]
    OBVIOUS
  <1>5. /\ DOMAIN FieldLengths["record"] = {"credential_storage", "initiator_public_key"}
        /\ FieldLengths["record"]["credential_storage"] = 168
        /\ FieldLengths["record"]["initiator_public_key"] = 32
    BY <1>1
  <1> HIDE DEF fields
  <1>6. FieldsFit("record", fields)
    <2>1. ASSUME NEW f \in DOMAIN fields
          PROVE  fields[f] \in Seq(Content) /\ Len(fields[f]) = FieldLengths["record"][f]
      <3>1. CASE f = "credential_storage"
        BY <1>2, <1>4, <1>5, <3>1
      <3>2. CASE f = "initiator_public_key"
        BY <1>3, <1>4, <1>5, <3>2
      <3>3. QED
        BY <1>4, <3>1, <3>2
    <2>2. fields \in [DOMAIN FieldLengths["record"] -> Seq(Content)]
      BY <1>4, <1>5, <2>1
    <2>3. QED
      BY <2>1, <2>2 DEF FieldsFit
  <1>7. QED
    BY <1>6 DEF fields, key

(* What generate_ke2 gives to its writer.                                  *)
LEMMA ResponseFieldsFit ==
  ASSUME NEW response \in Seq(Content), Len(response) = 168
  PROVE  FieldsFit("ke2", [f \in DOMAIN FieldLengths.ke2 |->
                             IF f = "credential_response" THEN response
                             ELSE Bytes(f, FieldLengths.ke2[f])])
  <1>1. DOMAIN FieldLengths.ke2 \subseteq Names \cup {"credential_response"}
    BY DEF FieldLengths, Names
  <1>2. \A f \in DOMAIN FieldLengths.ke2 : FieldLengths.ke2[f] \in Nat
    BY LayoutIsRight DEF Layout, Kinds
  <1>3. \A f \in DOMAIN FieldLengths.ke2 \ {"credential_response"} :
          /\ Bytes(f, FieldLengths.ke2[f]) \in Seq(Plain)
          /\ Len(Bytes(f, FieldLengths.ke2[f])) = FieldLengths.ke2[f]
    BY <1>1, <1>2, NamedBytes
  <1>4. \A f \in DOMAIN FieldLengths.ke2 \ {"credential_response"} :
          Bytes(f, FieldLengths.ke2[f]) \in Seq(Content)
    BY <1>3, SeqMonotonic DEF Content
  <1>5. FieldLengths.ke2["credential_response"] = 168
    BY DEF FieldLengths, CREDENTIAL_RESPONSE_LENGTH
  <1>6. QED
    BY <1>3, <1>4, <1>5 DEF FieldsFit

(* Every step keeps the invariant.                                         *)
LEMMA WireInvNext == WireInv /\ [Next]_vars => WireInv'
  <1> SUFFICES ASSUME WireInv, [Next]_vars
               PROVE  WireInv'
    OBVIOUS
  <1>1. CASE WriteMessage
    <2>1. PICK k \in Kinds \ {"record", "ke2"} :
            Write(k, [f \in DOMAIN FieldLengths[k] |-> Bytes(f, FieldLengths[k][f])])
      BY <1>1 DEF WriteMessage
    <2> DEFINE fields == [f \in DOMAIN FieldLengths[k] |-> Bytes(f, FieldLengths[k][f])]
    <2>2. FieldsFit(k, fields)
      BY NamedFieldsFit
    <2> HIDE DEF fields
    <2>3. Sealing(k, fields)
      BY DEF Sealing
    <2>4. Write(k, fields)
      BY <2>1 DEF fields
    <2>5. QED
      BY <2>2, <2>3, <2>4, WriteStep
  <1>2. CASE FinalizeRegistration
    <2> DEFINE fields == [credential_storage   |-> CredentialStorage,
                          initiator_public_key |->
                            Bytes("initiator_public_key", PUBLIC_KEY_LENGTH)]
    <2>1. Write("record", fields) /\ FieldsFit("record", fields) /\ "record" \in Kinds
      BY <1>2, SealedFieldsFit DEF FinalizeRegistration, Kinds
    <2>2. Sealing("record", fields)
      BY DEF Sealing
    <2> HIDE DEF fields
    <2>3. QED
      BY <2>1, <2>2, WriteStep
  <1>3. CASE Deliver
    <2> DEFINE n == WireLength[kind]
               cut == Slice(buffer, 0, n)
    <2>1. /\ step = "written" /\ step' = "arrived" /\ UNCHANGED <<kind, given, view>>
          /\ \/ buffer' = cut /\ intact' = TRUE
             \/ /\ buffer' \in {Slice(buffer, 0, n - 1), Append(cut, <<"extra", 1>>),
                                [cut EXCEPT ![1] = PROTOCOL_VERSION_1]}
                /\ intact' = FALSE
      BY <1>3 DEF Deliver
    <2>2. kind \in Kinds /\ Carries(kind, given, buffer)
      BY <2>1 DEF WireInv, BufferIsSound
    <2>3. n \in Nat \ {0}
      BY <2>2, LayoutIsRight DEF Layout
    <2>4. Carries(kind, given, cut) /\ Len(cut) = n
      BY <2>2, DeliveredCarries
    <2>5. buffer \in Seq(Octets) /\ n <= Len(buffer) /\ cut \in Seq(Octets)
      BY <2>2, <2>4 DEF Carries
    <2> HIDE DEF n, cut
    <2>6. CASE buffer' = cut /\ intact' = TRUE
      BY <2>1, <2>2, <2>4, <2>6
      DEF WireInv, GivenIsSound, BufferIsSound, ArrivalIsSound, ViewIsParsed, n
    <2>7. CASE buffer' = Slice(buffer, 0, n - 1) /\ intact' = FALSE
      <3>1. Len(Slice(buffer, 0, n - 1)) = n - 1
        <4>1. 0 \in Nat /\ n - 1 \in 0..Len(buffer) /\ (n - 1) - 0 = n - 1
          BY <2>3, <2>5
        <4>2. QED
          BY <2>5, <4>1, SliceBytes
      <3>2. Damaged(kind, buffer')
        BY <2>7, <3>1 DEF Damaged, n
      <3>3. QED
        BY <2>1, <2>7, <3>2
        DEF WireInv, GivenIsSound, BufferIsSound, ArrivalIsSound, ViewIsParsed
    <2>8. CASE buffer' = Append(cut, <<"extra", 1>>) /\ intact' = FALSE
      <3>1. Len(Append(cut, <<"extra", 1>>)) = n + 1
        BY <2>4, <2>5, SingleBytes, AppendProperties DEF Octets
      <3>2. Damaged(kind, buffer')
        BY <2>8, <3>1 DEF Damaged, n
      <3>3. QED
        BY <2>1, <2>8, <3>2
        DEF WireInv, GivenIsSound, BufferIsSound, ArrivalIsSound, ViewIsParsed
    <2>9. CASE buffer' = [cut EXCEPT ![1] = PROTOCOL_VERSION_1] /\ intact' = FALSE
      <3>1. [cut EXCEPT ![1] = PROTOCOL_VERSION_1][1] = PROTOCOL_VERSION_1
        BY <2>3, <2>4, <2>5
      <3>2. Damaged(kind, buffer')
        BY <2>9, <3>1 DEF Damaged
      <3>3. QED
        BY <2>1, <2>9, <3>2
        DEF WireInv, GivenIsSound, BufferIsSound, ArrivalIsSound, ViewIsParsed
    <2>10. QED
      BY <2>1, <2>6, <2>7, <2>8, <2>9
  <1>4. CASE Parse
    BY <1>4
    DEF Parse, WireInv, GivenIsSound, BufferIsSound, ArrivalIsSound, ViewIsParsed
  <1>5. CASE BuildCredentials
    <2> DEFINE fields == [credential_storage   |-> view.fields.masking_key \o view.fields.envelope,
                          initiator_public_key |-> view.fields.initiator_public_key]
    <2>1. /\ step = "parsed" /\ view.kind = "record" /\ view.ok /\ Write("record", fields)
          /\ "record" \in Kinds
      BY <1>5 DEF BuildCredentials, Kinds
    <2>2. /\ fields = [credential_storage   |-> CredentialStorage,
                       initiator_public_key |-> view.fields.initiator_public_key]
          /\ FieldsFit("record", fields)
      BY <2>1, RecordView
    <2>3. Sealing("record", fields)
      BY <2>2 DEF Sealing
    <2> HIDE DEF fields
    <2>4. QED
      BY <2>1, <2>2, <2>3, WriteStep
  <1>6. CASE GenerateKe2
    <2> DEFINE response == Bytes("evaluated_element", PUBLIC_KEY_LENGTH)
                             \o Mask(view.fields.envelope)
               fields == [f \in DOMAIN FieldLengths.ke2 |->
                            IF f = "credential_response" THEN response
                            ELSE Bytes(f, FieldLengths.ke2[f])]
    <2>1. /\ step = "parsed" /\ view.kind = "record" /\ view.ok /\ Write("ke2", fields)
          /\ "ke2" \in Kinds
      BY <1>6 DEF GenerateKe2, Kinds
    <2>2. view.fields.envelope = Slice(CredentialStorage, 32, 168)
      BY <2>1, RecordView
    <2>3. /\ response \in Seq(Content) /\ Len(response) = 168
          /\ EnvelopeParts(response) = Sealed
      BY <2>2, EnvelopeIsKept
    <2> HIDE DEF response
    <2>4. FieldsFit("ke2", fields)
      BY <2>3, ResponseFieldsFit
    <2>5. fields.credential_response = response
      BY DEF FieldLengths
    <2> HIDE DEF fields
    <2>6. Sealing("ke2", fields)
      BY <2>3, <2>5 DEF Sealing
    <2>7. QED
      BY <2>1, <2>4, <2>6, WriteStep
  <1>7. CASE UNCHANGED vars
    BY <1>7
    DEF vars, WireInv, GivenIsSound, BufferIsSound, ArrivalIsSound, ViewIsParsed
  <1>8. QED
    BY <1>1, <1>2, <1>3, <1>4, <1>5, <1>6, <1>7 DEF Next

(* So every reachable state has it.                                        *)
LEMMA WireIsSound == Spec => []WireInv
  BY WireInvInit, WireInvNext, PTL DEF Spec

-----------------------------------------------------------------------------
(* The theorems.                                                           *)

(* write_* and parse_* agree on every field of every kind of message: what *)
(* arrives intact at the parser of its kind is accepted and yields the     *)
(* fields the writer was given, whatever the size of its buffer.           *)
THEOREM FieldsComeBack == Spec => []RoundTrip
  <1>1. ASSUME WireInv, step = "parsed", intact, view.kind = kind
        PROVE  /\ view.ok
               /\ IF kind = "record"
                  THEN /\ view.fields.masking_key \o view.fields.envelope
                            = given.credential_storage
                       /\ view.fields.initiator_public_key = given.initiator_public_key
                  ELSE view.fields = given
    <2>1. view = Parsed(kind, buffer)
      <3>1. PICK k \in Kinds : view = Parsed(k, buffer)
        BY <1>1 DEF WireInv, ViewIsParsed
      <3>2. view.kind = k
        BY <3>1 DEF Parsed, Rejected
      <3>3. QED
        BY <1>1, <3>1, <3>2
    <2>2. /\ kind \in Kinds /\ FieldsFit(kind, given)
          /\ Carries(kind, given, buffer) /\ Len(buffer) = WireLength[kind]
      BY <1>1 DEF WireInv, GivenIsSound, ArrivalIsSound
    <2>3. CASE kind = "record"
      <3>1. IsRecordOf(view, given)
        BY <2>1, <2>2, <2>3, ParsedRecord
      <3>2. QED
        BY <2>3, <3>1 DEF IsRecordOf
    <2>4. CASE kind # "record"
      <3>1. view = [kind |-> kind, ok |-> TRUE, fields |-> given]
        BY <2>1, <2>2, <2>4, ParsedFields
      <3>2. QED
        BY <2>4, <3>1
    <2>5. QED
      BY <2>3, <2>4
  <1>2. WireInv => RoundTrip
    BY <1>1 DEF RoundTrip
  <1>3. QED
    BY <1>2, WireIsSound, PTL

(* No parser takes a message for one of another kind, but for the two that *)
(* are 65 bytes long, and none accepts what was cut, extended or written   *)
(* by another version of the protocol.                                     *)
THEOREM KindsAreTold == Spec => []LookAlikes
  <1>1. WireInv => LookAlikes
    BY AcceptedView DEF LookAlikes
  <1>2. QED
    BY <1>1, WireIsSound, PTL

(* A writer that accepts never panics in copy_from_slice, fills the whole  *)
(* message and not a byte behind it; one that refuses writes nothing.      *)
THEOREM WritersAreExact == Spec => []WritesAreExact
  <1>1. ASSUME WireInv
        PROVE  WritesAreExact
    <2> DEFINE old == {k \in 1..Len(buffer) : buffer[k] = <<"old", k>>}
               n == WireLength[kind]
    <2>1. ASSUME step = "written"
          PROVE  buffer # Panic /\ old = (n + 1)..Len(buffer)
      <3>1. kind \in Kinds /\ Carries(kind, given, buffer) /\ Exact(kind, buffer)
        BY <1>1, <2>1 DEF WireInv, BufferIsSound
      <3>2. n \in Nat \ {0}
        BY <3>1, LayoutIsRight DEF Layout
      <3>3. buffer \in Seq(Octets) /\ Len(buffer) >= n /\ Len(buffer) \in Nat
        BY <3>1 DEF Carries
      <3>4. buffer # Panic
        BY <3>2, <3>3 DEF Panic
      <3>5. /\ \A i \in 1..n : buffer[i] # <<"old", i>>
            /\ \A i \in (n + 1)..Len(buffer) : buffer[i] = <<"old", i>>
        <4>1. ASSUME NEW i \in 1..n
              PROVE  buffer[i] # <<"old", i>>
          <5>1. buffer[i] \in Content /\ i \in Nat
            BY <3>1, <3>2 DEF Exact
          <5>2. QED
            BY <5>1, OldIsNoContent
        <4>2. QED
          BY <3>1, <4>1 DEF Exact
      <3> HIDE DEF n
      <3>6. old = (n + 1)..Len(buffer)
        BY <3>2, <3>3, <3>5
      <3>7. QED
        BY <3>4, <3>6
    <2>2. ASSUME step = "refused"
          PROVE  old = 1..Len(buffer)
      BY <1>1, <2>2 DEF WireInv, BufferIsSound
    <2>3. QED
      BY <2>1, <2>2 DEF WritesAreExact
  <1>2. QED
    BY <1>1, WireIsSound, PTL

(* The envelope that generate_ke3 opens is the one that was sealed, after  *)
(* any number of opaque_relay_build_credentials between the two.           *)
THEOREM EnvelopesSurvive == Spec => []EnvelopeSurvives
  <1>1. ASSUME WireInv, step = "parsed", view.kind = "ke2", view.ok
        PROVE  EnvelopeParts(view.fields.credential_response) = Sealed
    <2>1. intact /\ kind = "ke2" /\ view = Parsed("ke2", buffer)
      BY <1>1, AcceptedView
    <2>2. /\ FieldsFit("ke2", given) /\ EnvelopeParts(given.credential_response) = Sealed
          /\ Carries("ke2", given, buffer) /\ Len(buffer) = WireLength["ke2"]
      BY <1>1, <2>1 DEF WireInv, GivenIsSound, ArrivalIsSound, Sealing
    <2>3. view = [kind |-> "ke2", ok |-> TRUE, fields |-> given]
      BY <2>1, <2>2, ParsedFields DEF Kinds
    <2>4. QED
      BY <2>2, <2>3
  <1>2. WireInv => EnvelopeSurvives
    BY <1>1 DEF EnvelopeSurvives
  <1>3. QED
    BY <1>2, WireIsSound, PTL
=============================================================================
