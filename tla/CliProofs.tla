----------------------------- MODULE CliProofs -----------------------------
(***************************************************************************)
(* A request and a reply are read back, so that the clients and the server *)
(* stay in step.                                                           *)
(***************************************************************************)
EXTENDS Cli, ZOrderProofs, SequenceTheorems

Byte == 0 .. 255

-----------------------------------------------------------------------------
(* Recursive functions on 0 .. N. *)

LEMMA Climb ==
  ASSUME NEW N \in Nat, NEW S, 0 \in S, \A k \in 0 .. N - 1 : k \in S => k + 1 \in S
  PROVE  \A k \in 0 .. N : k \in S
<1> DEFINE missing == {k \in 0 .. N : k \notin S}
<1> SUFFICES ASSUME missing # {} PROVE FALSE
  OBVIOUS
<1>1. PICK m \in missing : \A k \in missing : m <= k
  <2>1. missing \subseteq Nat
    OBVIOUS
  <2> HIDE DEF missing
  <2> QED
    BY <2>1, LeastNumber
<1>2. m # 0 /\ m - 1 \in 0 .. N - 1 /\ (m - 1) + 1 = m
  BY <1>1
<1>3. m - 1 \in S
  BY <1>1, <1>2
<1> QED
  BY <1>1, <1>2, <1>3

LEMMA UptoUnfolds ==
  ASSUME NEW parts, Len(parts) \in Nat
  PROVE  Upto(parts) = [k \in 0 .. Len(parts) |->
                          IF k = 0 THEN <<>> ELSE Upto(parts)[k - 1] \o parts[k]]
<1> DEFINE N == Len(parts)
           P(f, h) == f = [k \in 0 .. h |-> IF k = 0 THEN <<>> ELSE f[k - 1] \o parts[k]]
           S == {h \in Nat : \E f : P(f, h)}
<1>1. 0 \in S
  <2>1. P([k \in 0 .. 0 |-> <<>>], 0)
    OBVIOUS
  <2> QED
    BY <2>1
<1>2. ASSUME NEW h \in 0 .. N - 1, h \in S PROVE h + 1 \in S
  <2>1. PICK f : P(f, h)
    BY <1>2
  <2> DEFINE g == [k \in 0 .. h + 1 |-> IF k = h + 1 THEN f[h] \o parts[h + 1] ELSE f[k]]
  <2>2. ASSUME NEW k \in 0 .. h + 1
        PROVE  g[k] = IF k = 0 THEN <<>> ELSE g[k - 1] \o parts[k]
    <3>1. CASE k = h + 1
      <4>1. k # 0 /\ k - 1 = h /\ h \in 0 .. h + 1 /\ h # h + 1
        BY <3>1
      <4> QED
        BY <3>1, <4>1
    <3>2. CASE k # h + 1
      <4>1. k \in 0 .. h /\ (k # 0 => k - 1 \in 0 .. h + 1 /\ k - 1 # h + 1)
        BY <3>2
      <4> QED
        BY <2>1, <3>2, <4>1
    <3> QED
      BY <3>1, <3>2
  <2>3. P(g, h + 1)
    BY <2>2
  <2>4. h + 1 \in Nat
    OBVIOUS
  <2> HIDE DEF P, g
  <2> QED
    BY <2>3, <2>4
<1> HIDE DEF P
<1>3. N \in S
  <2>1. N \in Nat /\ N \in 0 .. N
    OBVIOUS
  <2> HIDE DEF S
  <2>2. \A k \in 0 .. N : k \in S
    BY <1>1, <1>2, <2>1, Climb
  <2> QED
    BY <2>1, <2>2
<1>4. P(CHOOSE f : P(f, N), N)
  BY <1>3
<1> QED
  BY <1>4 DEF P, Upto

LEMMA WalkUnfolds ==
  ASSUME NEW next, NEW start, NEW n \in Nat
  PROVE  Walk(next, start, n) = [k \in 0 .. n |->
            IF k = 0 THEN start ELSE next[Walk(next, start, n)[k - 1]]]
<1> DEFINE P(f, h) == f = [k \in 0 .. h |-> IF k = 0 THEN start ELSE next[f[k - 1]]]
           S == {h \in Nat : \E f : P(f, h)}
<1>1. 0 \in S
  <2>1. P([k \in 0 .. 0 |-> start], 0)
    OBVIOUS
  <2> QED
    BY <2>1
<1>2. ASSUME NEW h \in 0 .. n - 1, h \in S PROVE h + 1 \in S
  <2>1. PICK f : P(f, h)
    BY <1>2
  <2> DEFINE g == [k \in 0 .. h + 1 |-> IF k = h + 1 THEN next[f[h]] ELSE f[k]]
  <2>2. ASSUME NEW k \in 0 .. h + 1
        PROVE  g[k] = IF k = 0 THEN start ELSE next[g[k - 1]]
    <3>1. CASE k = h + 1
      <4>1. k # 0 /\ k - 1 = h /\ h \in 0 .. h + 1 /\ h # h + 1
        BY <3>1
      <4> QED
        BY <3>1, <4>1
    <3>2. CASE k # h + 1
      <4>1. k \in 0 .. h /\ (k # 0 => k - 1 \in 0 .. h + 1 /\ k - 1 # h + 1)
        BY <3>2
      <4> QED
        BY <2>1, <3>2, <4>1
    <3> QED
      BY <3>1, <3>2
  <2>3. P(g, h + 1)
    BY <2>2
  <2>4. h + 1 \in Nat
    OBVIOUS
  <2> HIDE DEF P, g
  <2> QED
    BY <2>3, <2>4
<1> HIDE DEF P
<1>3. n \in S
  <2>1. n \in Nat /\ n \in 0 .. n
    OBVIOUS
  <2> HIDE DEF S
  <2>2. \A k \in 0 .. n : k \in S
    BY <1>1, <1>2, <2>1, Climb
  <2> QED
    BY <2>1, <2>2
<1>4. P(CHOOSE f : P(f, n), n)
  BY <1>3
<1> QED
  BY <1>4 DEF P, Walk

LEMMA WalkSteps ==
  ASSUME NEW next, NEW start, NEW n \in Nat
  PROVE  /\ Walk(next, start, n)[0] = start
         /\ \A k \in 0 .. n - 1 : Walk(next, start, n)[k + 1] = next[Walk(next, start, n)[k]]
<1> DEFINE w == Walk(next, start, n)
<1>1. w = [k \in 0 .. n |-> IF k = 0 THEN start ELSE next[w[k - 1]]]
  BY WalkUnfolds
<1> HIDE DEF w
<1>2. w[0] = start
  BY <1>1
<1>3. ASSUME NEW k \in 0 .. n - 1 PROVE w[k + 1] = next[w[k]]
  <2>1. k + 1 \in 0 .. n /\ k + 1 # 0 /\ (k + 1) - 1 = k
    OBVIOUS
  <2> QED
    BY <1>1, <2>1
<1> QED
  BY <1>2, <1>3 DEF w

-----------------------------------------------------------------------------
(* Strings one after the other. *)

LEMMA Concat ==
  ASSUME NEW s \in Seq(Byte), NEW t \in Seq(Byte)
  PROVE  /\ s \o t \in Seq(Byte) /\ Len(s) \in Nat /\ Len(t) \in Nat
         /\ Len(s \o t) = Len(s) + Len(t)
         /\ \A i \in 1 .. Len(s) : (s \o t)[i] = s[i]
         /\ \A j \in 1 .. Len(t) : (s \o t)[Len(s) + j] = t[j]
<1>1. /\ s \o t \in Seq(Byte) /\ Len(s) \in Nat /\ Len(t) \in Nat
      /\ Len(s \o t) = Len(s) + Len(t)
      /\ \A i \in 1 .. Len(s) + Len(t) :
           (s \o t)[i] = IF i <= Len(s) THEN s[i] ELSE t[i - Len(s)]
  BY ConcatProperties, LenProperties
<1> DEFINE q == s \o t
<1> HIDE DEF q
<1>2. \A i \in 1 .. Len(s) + Len(t) :
           q[i] = IF i <= Len(s) THEN s[i] ELSE t[i - Len(s)]
  BY <1>1 DEF q
<1>3. ASSUME NEW j \in 1 .. Len(t) PROVE q[Len(s) + j] = t[j]
  <2>1. Len(s) + j \in 1 .. Len(s) + Len(t) /\ ~(Len(s) + j <= Len(s))
        /\ (Len(s) + j) - Len(s) = j
    BY <1>1
  <2> QED
    BY <1>2, <2>1
<1>4. \A i \in 1 .. Len(s) : q[i] = s[i]
  BY <1>1, <1>2
<1> QED
  BY <1>1, <1>3, <1>4 DEF q

(* Where the k-th of them ends. *)
Off(parts, k) == Len(Upto(parts)[k])

LEMMA UptoSteps ==
  ASSUME NEW parts \in Seq(Seq(Byte))
  PROVE  /\ Upto(parts)[0] = <<>>
         /\ \A k \in 0 .. Len(parts) - 1 :
              Upto(parts)[k + 1] = Upto(parts)[k] \o parts[k + 1]
<1> DEFINE u == Upto(parts)
<1>1. u = [k \in 0 .. Len(parts) |-> IF k = 0 THEN <<>> ELSE u[k - 1] \o parts[k]]
  BY UptoUnfolds, LenProperties
<1> HIDE DEF u
<1>2. u[0] = <<>>
  BY <1>1
<1>3. ASSUME NEW k \in 0 .. Len(parts) - 1 PROVE u[k + 1] = u[k] \o parts[k + 1]
  <2>1. k + 1 \in 0 .. Len(parts) /\ k + 1 # 0 /\ (k + 1) - 1 = k
    OBVIOUS
  <2> QED
    BY <1>1, <2>1
<1> QED
  BY <1>2, <1>3 DEF u

LEMMA UptoBytes ==
  ASSUME NEW parts \in Seq(Seq(Byte))
  PROVE  \A k \in 0 .. Len(parts) : Upto(parts)[k] \in Seq(Byte) /\ Off(parts, k) \in Nat
<1> DEFINE u == Upto(parts)
           S == {k \in Nat : u[k] \in Seq(Byte)}
<1>1. 0 \in S
  <2>1. u[0] = <<>>
    BY UptoSteps
  <2>2. <<>> \in Seq(Byte)
    BY EmptySeq
  <2> QED
    BY <2>1, <2>2
<1>2. ASSUME NEW k \in 0 .. Len(parts) - 1, k \in S PROVE k + 1 \in S
  <2>1. u[k + 1] = u[k] \o parts[k + 1]
    BY UptoSteps
  <2>2. u[k] \in Seq(Byte) /\ parts[k + 1] \in Seq(Byte) /\ k + 1 \in Nat
    BY <1>2
  <2> HIDE DEF u
  <2> QED
    BY <2>1, <2>2, ConcatProperties
<1>3. \A k \in 0 .. Len(parts) : k \in S
  <2> HIDE DEF S
  <2> QED
    BY <1>1, <1>2, Climb, LenProperties
<1> QED
  BY <1>3, LenProperties DEF Off

LEMMA Offsets ==
  ASSUME NEW parts \in Seq(Seq(Byte))
  PROVE  /\ Off(parts, 0) = 0
         /\ \A k \in 0 .. Len(parts) - 1 :
              /\ parts[k + 1] \in Seq(Byte) /\ Len(parts[k + 1]) \in Nat
              /\ Off(parts, k) \in Nat
              /\ Off(parts, k + 1) = Off(parts, k) + Len(parts[k + 1])
<1>1. Off(parts, 0) = 0
  <2>1. Upto(parts)[0] = <<>>
    BY UptoSteps
  <2> QED
    BY <2>1 DEF Off
<1>2. ASSUME NEW k \in 0 .. Len(parts) - 1
      PROVE  /\ parts[k + 1] \in Seq(Byte) /\ Len(parts[k + 1]) \in Nat
             /\ Off(parts, k) \in Nat
             /\ Off(parts, k + 1) = Off(parts, k) + Len(parts[k + 1])
  <2>1. Upto(parts)[k + 1] = Upto(parts)[k] \o parts[k + 1]
    BY UptoSteps
  <2>2. parts[k + 1] \in Seq(Byte) /\ k \in 0 .. Len(parts)
    OBVIOUS
  <2>3. Upto(parts)[k] \in Seq(Byte) /\ Off(parts, k) \in Nat
    BY <2>2, UptoBytes
  <2> QED
    BY <2>1, <2>2, <2>3, ConcatProperties, LenProperties DEF Off
<1> QED
  BY <1>1, <1>2

(* The bytes of the k-th are where it starts. *)
LEMMA UptoKeeps ==
  ASSUME NEW parts \in Seq(Seq(Byte)), NEW k \in 0 .. Len(parts) - 1
  PROVE  \A m \in k + 1 .. Len(parts) :
            /\ Off(parts, k + 1) <= Off(parts, m)
            /\ \A j \in 1 .. Len(parts[k + 1]) :
                 Upto(parts)[m][Off(parts, k) + j] = parts[k + 1][j]
<1> DEFINE u == Upto(parts)
           S == {m \in Nat : k + 1 <= m =>
                   /\ Off(parts, k + 1) <= Off(parts, m)
                   /\ \A j \in 1 .. Len(parts[k + 1]) : u[m][Off(parts, k) + j] = parts[k + 1][j]}
<1> USE DEF Off
<1>1. 0 \in S
  OBVIOUS
<1>2. ASSUME NEW m \in 0 .. Len(parts) - 1, m \in S PROVE m + 1 \in S
  <2>1. u[m + 1] = u[m] \o parts[m + 1] /\ u[k + 1] = u[k] \o parts[k + 1]
    BY UptoSteps
  <2>2. /\ u[m] \in Seq(Byte) /\ parts[m + 1] \in Seq(Byte)
        /\ u[k] \in Seq(Byte) /\ parts[k + 1] \in Seq(Byte)
    <3>1. m \in 0 .. Len(parts) /\ k \in 0 .. Len(parts)
          /\ m + 1 \in 1 .. Len(parts) /\ k + 1 \in 1 .. Len(parts)
      BY LenProperties
    <3>2. u[m] \in Seq(Byte) /\ u[k] \in Seq(Byte)
      BY <3>1, UptoBytes
    <3>3. parts \in [1 .. Len(parts) -> Seq(Byte)]
      BY LenProperties
    <3>4. parts[m + 1] \in Seq(Byte) /\ parts[k + 1] \in Seq(Byte)
      BY <3>1, <3>3
    <3> QED
      BY <3>2, <3>4
  <2> DEFINE end(h) == Len(u[h])
             size == Len(parts[k + 1])
  <2> HIDE DEF u
  <2>3. /\ end(m + 1) = end(m) + Len(parts[m + 1])
        /\ \A i \in 1 .. end(m) : u[m + 1][i] = u[m][i]
        /\ end(m) \in Nat /\ Len(parts[m + 1]) \in Nat
    <3> DEFINE v == u[m]  t == parts[m + 1]
    <3>1. v \in Seq(Byte) /\ t \in Seq(Byte) /\ u[m + 1] = v \o t
      BY <2>1, <2>2
    <3> HIDE DEF v, t
    <3>2. /\ Len(u[m + 1]) = Len(v) + Len(t) /\ Len(v) \in Nat /\ Len(t) \in Nat
          /\ \A i \in 1 .. Len(v) : u[m + 1][i] = v[i]
      BY <3>1, Concat
    <3> QED
      BY <3>2 DEF v, t
  <2>4. /\ end(k + 1) = end(k) + size
        /\ \A j \in 1 .. size : u[k + 1][end(k) + j] = parts[k + 1][j]
        /\ end(k) \in Nat /\ size \in Nat
    <3> DEFINE v == u[k]  t == parts[k + 1]
    <3>1. v \in Seq(Byte) /\ t \in Seq(Byte) /\ u[k + 1] = v \o t
      BY <2>1, <2>2
    <3> HIDE DEF v, t
    <3>2. /\ Len(u[k + 1]) = Len(v) + Len(t) /\ Len(v) \in Nat /\ Len(t) \in Nat
          /\ \A j \in 1 .. Len(t) : u[k + 1][Len(v) + j] = t[j]
      BY <3>1, Concat
    <3> QED
      BY <3>2 DEF v, t
  <2> SUFFICES ASSUME k + 1 <= m + 1
               PROVE  /\ end(k + 1) <= end(m + 1)
                      /\ \A j \in 1 .. size : u[m + 1][end(k) + j] = parts[k + 1][j]
    BY DEF u
  <2>5. CASE m = k
    BY <2>3, <2>4, <2>5
  <2>6. CASE m > k
    <3>1. /\ end(k + 1) <= end(m)
          /\ \A j \in 1 .. size : u[m][end(k) + j] = parts[k + 1][j]
      BY <1>2, <2>6 DEF u
    <3> HIDE DEF end, size
    <3>2. ASSUME NEW j \in 1 .. size PROVE u[m + 1][end(k) + j] = parts[k + 1][j]
      <4>1. end(k) + j \in 1 .. end(m)
        BY <3>1, <2>3, <2>4
      <4> QED
        BY <3>1, <2>3, <4>1
    <3>3. end(k + 1) <= end(m + 1)
      BY <3>1, <2>3, <2>4
    <3> QED
      BY <3>2, <3>3
  <2> QED
    BY <2>5, <2>6
<1>3. \A m \in 0 .. Len(parts) : m \in S
  <2> HIDE DEF S
  <2> QED
    BY <1>1, <1>2, Climb, LenProperties
<1>4. \A m \in k + 1 .. Len(parts) : m \in 0 .. Len(parts) /\ k + 1 <= m
  OBVIOUS
<1> QED
  BY <1>3, <1>4

LEMMA JoinedHas ==
  ASSUME NEW parts \in Seq(Seq(Byte))
  PROVE  /\ Joined(parts) \in Seq(Byte)
         /\ Len(Joined(parts)) = Off(parts, Len(parts)) /\ Len(parts) \in Nat
         /\ \A k \in 0 .. Len(parts) - 1 :
              /\ Off(parts, k + 1) <= Off(parts, Len(parts))
              /\ \A j \in 1 .. Len(parts[k + 1]) :
                   Joined(parts)[Off(parts, k) + j] = parts[k + 1][j]
<1>1. Len(parts) \in Nat /\ Len(parts) \in 0 .. Len(parts)
  BY LenProperties
<1>2. Joined(parts) \in Seq(Byte) /\ Len(Joined(parts)) = Off(parts, Len(parts))
  BY <1>1, UptoBytes DEF Joined, Off
<1>3. ASSUME NEW k \in 0 .. Len(parts) - 1
      PROVE  /\ Off(parts, k + 1) <= Off(parts, Len(parts))
             /\ \A j \in 1 .. Len(parts[k + 1]) :
                  Joined(parts)[Off(parts, k) + j] = parts[k + 1][j]
  <2>1. Len(parts) \in k + 1 .. Len(parts)
    BY <1>1
  <2> QED
    BY <2>1, UptoKeeps DEF Joined
<1> QED
  BY <1>1, <1>2, <1>3

(* Offsets grow by at least the size that every string has. *)
LEMMA OffsetsGrow ==
  ASSUME NEW parts \in Seq(Seq(Byte)), NEW least \in Nat,
         \A k \in 1 .. Len(parts) : least <= Len(parts[k])
  PROVE  \A k \in 0 .. Len(parts) : least * k <= Off(parts, k)
<1> DEFINE S == {k \in Nat : least * k <= Off(parts, k)}
<1>1. 0 \in S
  BY Offsets
<1>2. ASSUME NEW k \in 0 .. Len(parts) - 1, k \in S PROVE k + 1 \in S
  <2>1. /\ Off(parts, k) \in Nat /\ Len(parts[k + 1]) \in Nat
        /\ Off(parts, k + 1) = Off(parts, k) + Len(parts[k + 1])
    BY Offsets
  <2>2. least <= Len(parts[k + 1]) /\ k \in Nat /\ k + 1 \in Nat
    BY LenProperties
  <2>3. least * (k + 1) = least * k + least /\ least * k \in Nat
    BY <2>2
  <2>4. least * k <= Off(parts, k)
    BY <1>2
  <2> QED
    BY <2>1, <2>2, <2>3, <2>4
<1>3. \A k \in 0 .. Len(parts) : k \in S
  <2> HIDE DEF S
  <2> QED
    BY <1>1, <1>2, Climb, LenProperties
<1> QED
  BY <1>3

-----------------------------------------------------------------------------
(* Numbers of 32 bits. *)

Words32 == {n \in Nat : n \div 65536 < 65536}

(* data has the bytes of s after its first pos. *)
Holds(data, pos, s) ==
  pos + Len(s) <= Len(data) /\ \A i \in 1 .. Len(s) : data[pos + i] = s[i]

LEMMA U32Bytes ==
  ASSUME NEW n \in Nat
  PROVE  U32(n) \in Seq(Byte) /\ Len(U32(n)) = 4
<1>1. /\ n % 256 \in Byte /\ (n \div 256) % 256 \in Byte
      /\ (n \div 65536) % 256 \in Byte /\ (n \div 16777216) % 256 \in Byte
  BY DEF Byte
<1> QED
  BY <1>1 DEF U32

LEMMA U32Value ==
  ASSUME NEW n \in Words32
  PROVE  (n % 256) + 256 * ((n \div 256) % 256) + 65536 * ((n \div 65536) % 256)
           + 16777216 * ((n \div 16777216) % 256) = n
BY DEF Words32

LEMMA U32Read ==
  ASSUME NEW n \in Words32, NEW data, NEW pos \in Nat, Len(data) \in Nat, Holds(data, pos, U32(n))
  PROVE  U32At(data, pos) = n /\ pos + 4 <= Len(data)
<1>1. n \in Nat
  BY DEF Words32
<1>2. Len(U32(n)) = 4 /\ pos + 4 <= Len(data) /\ \A i \in 1 .. 4 : data[pos + i] = U32(n)[i]
  BY <1>1, U32Bytes DEF Holds
<1>3. /\ data[pos + 1] = U32(n)[1] /\ data[pos + 2] = U32(n)[2]
      /\ data[pos + 3] = U32(n)[3] /\ data[pos + 4] = U32(n)[4]
  BY <1>2
<1>4. /\ data[pos + 1] = n % 256 /\ data[pos + 2] = (n \div 256) % 256
      /\ data[pos + 3] = (n \div 65536) % 256 /\ data[pos + 4] = (n \div 16777216) % 256
  BY <1>3 DEF U32
<1> QED
  BY <1>2, <1>4, U32Value DEF U32At

LEMMA HoldsItself ==
  ASSUME NEW s \in Seq(Byte)
  PROVE  Holds(s, 0, s)
BY LenProperties DEF Holds

LEMMA HoldsParts ==
  ASSUME NEW data, NEW pos \in Nat, NEW s \in Seq(Byte), NEW t \in Seq(Byte),
         Len(data) \in Nat, Holds(data, pos, s \o t)
  PROVE  Holds(data, pos, s) /\ Holds(data, pos + Len(s), t) /\ pos + Len(s) \in Nat
<1> DEFINE q == s \o t
<1>1. /\ Len(s) \in Nat /\ Len(t) \in Nat /\ Len(q) = Len(s) + Len(t)
      /\ \A i \in 1 .. Len(s) : q[i] = s[i]
      /\ \A j \in 1 .. Len(t) : q[Len(s) + j] = t[j]
  BY Concat
<1>2. pos + Len(q) <= Len(data) /\ \A i \in 1 .. Len(q) : data[pos + i] = q[i]
  BY DEF Holds
<1> HIDE DEF q
<1>3. Holds(data, pos, s)
  <2>1. \A i \in 1 .. Len(s) : i \in 1 .. Len(q)
    BY <1>1
  <2> QED
    BY <1>1, <1>2, <2>1 DEF Holds
<1>4. ASSUME NEW j \in 1 .. Len(t) PROVE data[(pos + Len(s)) + j] = t[j]
  <2>1. Len(s) + j \in 1 .. Len(q) /\ (pos + Len(s)) + j = pos + (Len(s) + j)
    BY <1>1
  <2> QED
    BY <1>1, <1>2, <2>1
<1>5. (pos + Len(s)) + Len(t) <= Len(data)
  BY <1>1, <1>2
<1>6. Holds(data, pos + Len(s), t)
  BY <1>4, <1>5 DEF Holds
<1>7. pos + Len(s) \in Nat
  BY <1>1
<1> QED
  BY <1>3, <1>6, <1>7

LEMMA HoldsJoined ==
  ASSUME NEW data, NEW pos \in Nat, NEW parts \in Seq(Seq(Byte)),
         Len(data) \in Nat, Holds(data, pos, Joined(parts)), NEW k \in 0 .. Len(parts) - 1
  PROVE  /\ Holds(data, pos + Off(parts, k), parts[k + 1])
         /\ pos + Off(parts, k) \in Nat
<1> DEFINE off == Off(parts, k)
           size == Len(parts[k + 1])
           all == Len(Joined(parts))
<1>1. /\ off \in Nat /\ size \in Nat /\ off + size <= all
      /\ \A j \in 1 .. size : Joined(parts)[off + j] = parts[k + 1][j]
  BY JoinedHas, Offsets
<1>2. pos + all <= Len(data) /\ all \in Nat /\ \A i \in 1 .. all : data[pos + i] = Joined(parts)[i]
  BY JoinedHas, LenProperties DEF Holds
<1> HIDE DEF off, size, all
<1>3. ASSUME NEW j \in 1 .. size PROVE data[(pos + off) + j] = parts[k + 1][j]
  <2>1. off + j \in 1 .. all /\ (pos + off) + j = pos + (off + j)
    BY <1>1, <1>2
  <2> QED
    BY <1>1, <1>2, <2>1
<1>4. (pos + off) + size <= Len(data)
  BY <1>1, <1>2
<1> QED
  BY <1>1, <1>3, <1>4 DEF Holds, off, size

LEMMA HoldsBytes ==
  ASSUME NEW data \in Seq(Byte), NEW pos \in Nat, NEW s \in Seq(Byte), Holds(data, pos, s)
  PROVE  Bytes(data, pos, Len(s)) = s
<1>1. Len(s) \in Nat /\ Len(data) \in Nat /\ pos + Len(s) <= Len(data)
  BY LenProperties DEF Holds
<1> DEFINE b == SubSeq(data, pos + 1, pos + Len(s))
<1>2. /\ pos + 1 \in 1 .. Len(data) + 1 /\ pos + Len(s) \in (pos + 1) - 1 .. Len(data)
      /\ (pos + Len(s)) - (pos + 1) + 1 = Len(s)
  BY <1>1
<1>3. /\ b \in Seq(Byte) /\ Len(b) = Len(s)
      /\ \A i \in 1 .. Len(s) : b[i] = data[pos + i]
  BY <1>1, <1>2, SubSeqProperties
<1> HIDE DEF b
<1>4. \A i \in 1 .. Len(s) : b[i] = s[i]
  BY <1>3 DEF Holds
<1>5. b = s
  BY <1>3, <1>4, SeqEqual
<1> QED
  BY <1>5 DEF b, Bytes

LEMMA RestAfter ==
  ASSUME NEW s \in Seq(Byte), NEW t \in Seq(Byte)
  PROVE  From(s \o t, Len(s)) = t
<1> DEFINE q == s \o t
<1>1. /\ q \in Seq(Byte) /\ Len(s) \in Nat /\ Len(t) \in Nat /\ Len(q) = Len(s) + Len(t)
      /\ \A j \in 1 .. Len(t) : q[Len(s) + j] = t[j]
  BY Concat
<1> HIDE DEF q
<1>2. Holds(q, Len(s), t)
  BY <1>1 DEF Holds
<1>3. Bytes(q, Len(s), Len(t)) = t
  BY <1>1, <1>2, HoldsBytes
<1> QED
  BY <1>1, <1>3 DEF q, Bytes, From

-----------------------------------------------------------------------------
(* Requests. *)

CountedWords(words) == [i \in DOMAIN words |-> Counted(words[i])]

(* Where the first k words end. *)
EndOf(words, k) == 4 + Off(CountedWords(words), k)

LEMMA SmallerFits ==
  ASSUME NEW n \in Words32, NEW m \in Nat, m <= n
  PROVE  m \in Words32
BY DEF Words32

LEMMA CountedBytes ==
  ASSUME NEW s \in Seq(Byte)
  PROVE  Counted(s) \in Seq(Byte) /\ Len(Counted(s)) = 4 + Len(s)
<1> DEFINE u == U32(Len(s))
<1>1. u \in Seq(Byte) /\ Len(u) = 4
  BY LenProperties, U32Bytes
<1> HIDE DEF u
<1>2. u \o s \in Seq(Byte) /\ Len(u \o s) = Len(u) + Len(s)
  BY <1>1, Concat
<1> QED
  BY <1>1, <1>2 DEF u, Counted

LEMMA CountedWordsBytes ==
  ASSUME NEW words \in Seq(Seq(Byte))
  PROVE  /\ CountedWords(words) \in Seq(Seq(Byte))
         /\ Len(CountedWords(words)) = Len(words)
         /\ \A i \in 1 .. Len(words) :
              /\ CountedWords(words)[i] = Counted(words[i])
              /\ words[i] \in Seq(Byte)
<1>1. words \in [1 .. Len(words) -> Seq(Byte)] /\ Len(words) \in Nat
  BY LenProperties
<1>2. \A i \in 1 .. Len(words) : words[i] \in Seq(Byte) /\ Counted(words[i]) \in Seq(Byte)
  BY <1>1, CountedBytes
<1>3. CountedWords(words) = [i \in 1 .. Len(words) |-> Counted(words[i])]
  BY <1>1 DEF CountedWords
<1>4. [i \in 1 .. Len(words) |-> Counted(words[i])] \in [1 .. Len(words) -> Seq(Byte)]
  BY <1>2
<1> DEFINE n == Len(words)
           f == [i \in 1 .. n |-> Counted(words[i])]
<1>5. f \in Seq(Seq(Byte)) /\ Len(f) = n
  <2> HIDE DEF n
  <2>1. f \in [1 .. n -> Seq(Byte)] /\ n \in Nat
    BY <1>1, <1>4 DEF n
  <2> HIDE DEF f
  <2> QED
    BY <2>1
<1> QED
  BY <1>2, <1>3, <1>5

LEMMA BodyBytes ==
  ASSUME NEW words \in Seq(Seq(Byte))
  PROVE  /\ Body(words) \in Seq(Byte) /\ Len(Body(words)) \in Nat
         /\ Len(words) \in Nat
         /\ Len(Body(words)) = EndOf(words, Len(words))
         /\ 4 + 4 * Len(words) <= Len(Body(words))
         /\ Holds(Body(words), 0, U32(Len(words)))
         /\ EndOf(words, 0) = 4
<1> DEFINE parts == CountedWords(words)
           u == U32(Len(words))
           n == Len(words)
<1>1. parts \in Seq(Seq(Byte)) /\ Len(parts) = n /\ n \in Nat
  BY CountedWordsBytes, LenProperties
<1>2. u \in Seq(Byte) /\ Len(u) = 4
  BY <1>1, U32Bytes
<1>3. Joined(parts) \in Seq(Byte) /\ Len(Joined(parts)) = Off(parts, n)
  BY <1>1, JoinedHas
<1>4. Body(words) = u \o Joined(parts)
  BY DEF Body, CountedWords
<1>5. 4 * n <= Off(parts, n)
  <2>1. \A k \in 1 .. Len(parts) : 4 <= Len(parts[k])
    <3>1. ASSUME NEW k \in 1 .. Len(parts) PROVE 4 <= Len(parts[k])
      <4>1. k \in 1 .. Len(words)
        BY <1>1
      <4>2. parts[k] = Counted(words[k]) /\ words[k] \in Seq(Byte)
        BY <4>1, CountedWordsBytes
      <4>3. Len(Counted(words[k])) = 4 + Len(words[k]) /\ Len(words[k]) \in Nat
        BY <4>2, CountedBytes, LenProperties
      <4> QED
        BY <4>2, <4>3
    <3> QED
      BY <3>1
  <2>2. Len(parts) \in 0 .. Len(parts)
    BY <1>1
  <2> HIDE DEF parts, n
  <2>3. \A k \in 0 .. Len(parts) : 4 * k <= Off(parts, k)
    BY <1>1, <2>1, OffsetsGrow
  <2> QED
    BY <1>1, <2>2, <2>3
<1>6. Off(parts, 0) = 0
  BY <1>1, Offsets
<1> DEFINE j == Joined(parts)
<1> HIDE DEF u, parts, n, j
<1>7. u \o j \in Seq(Byte) /\ Len(u \o j) = 4 + Len(j) /\ Len(j) \in Nat
  <2>1. j \in Seq(Byte)
    BY <1>3 DEF j
  <2>2. u \o j \in Seq(Byte) /\ Len(u \o j) = Len(u) + Len(j) /\ Len(j) \in Nat
    BY <1>2, <2>1, Concat
  <2> QED
    BY <1>2, <2>2
<1>8. Holds(u \o j, 0, u)
  BY <1>2, <1>3, <1>7, HoldsItself, HoldsParts, LenProperties DEF j
<1>9. Body(words) = u \o j
  BY <1>4 DEF j
<1>10. Len(j) = Off(parts, n)
  BY <1>3 DEF j
<1>11. Len(Body(words)) = 4 + Off(parts, n)
  BY <1>7, <1>9, <1>10
<1>12. Body(words) \in Seq(Byte) /\ Holds(Body(words), 0, u)
  BY <1>7, <1>8, <1>9
<1>13. 4 + 4 * n <= 4 + Off(parts, n) /\ 4 + Off(parts, n) \in Nat
  BY <1>1, <1>5, <1>7, <1>10
<1> QED
  BY <1>1, <1>6, <1>11, <1>12, <1>13 DEF u, parts, n, EndOf

(* Where a word is, its length first. *)
LEMMA BodyHolds ==
  ASSUME NEW words \in Seq(Seq(Byte)), NEW k \in 0 .. Len(words) - 1
  PROVE  /\ words[k + 1] \in Seq(Byte) /\ Len(words[k + 1]) \in Nat
         /\ EndOf(words, k) \in Nat
         /\ EndOf(words, k + 1) = EndOf(words, k) + 4 + Len(words[k + 1])
         /\ EndOf(words, k + 1) <= Len(Body(words))
         /\ Holds(Body(words), EndOf(words, k), U32(Len(words[k + 1])))
         /\ Holds(Body(words), EndOf(words, k) + 4, words[k + 1])
<1> DEFINE parts == CountedWords(words)
           w == words[k + 1]
           off == Off(parts, k)
           b == Body(words)
<1>1. /\ parts \in Seq(Seq(Byte)) /\ Len(parts) = Len(words) /\ Len(words) \in Nat
      /\ parts[k + 1] = Counted(w) /\ w \in Seq(Byte)
  BY CountedWordsBytes, LenProperties
<1>2. Len(w) \in Nat /\ Len(Counted(w)) = 4 + Len(w)
  BY <1>1, CountedBytes, LenProperties
<1>3. off \in Nat /\ Off(parts, k + 1) = off + (4 + Len(w))
  BY <1>1, <1>2, Offsets
<1>4. b \in Seq(Byte) /\ Len(b) \in Nat
  BY BodyBytes
<1>5. Holds(b, 4, Joined(parts))
  <2> DEFINE u == U32(Len(words))
             j == Joined(parts)
  <2>1. u \in Seq(Byte) /\ Len(u) = 4
    BY <1>1, U32Bytes
  <2>2. j \in Seq(Byte)
    BY <1>1, JoinedHas
  <2>3. b = u \o j
    BY DEF Body, CountedWords
  <2> HIDE DEF u, j, b
  <2>4. Holds(b, 0 + Len(u), j)
    BY <1>4, <2>1, <2>2, <2>3, HoldsItself, HoldsParts
  <2>5. 0 + Len(u) = 4
    BY <2>1
  <2>6. Holds(b, 4, j)
    BY <2>4, <2>5
  <2> QED
    BY <2>6 DEF j
<1> HIDE DEF b
<1>6. Holds(b, 4 + off, Counted(w)) /\ 4 + off \in Nat
  <2> HIDE DEF parts, w, off
  <2>1. k \in 0 .. Len(parts) - 1
    BY <1>1
  <2>2. Holds(b, 4 + Off(parts, k), parts[k + 1]) /\ 4 + Off(parts, k) \in Nat
    BY <1>1, <1>4, <1>5, <2>1, HoldsJoined
  <2> QED
    BY <1>1, <2>2 DEF off
<1>7. Holds(b, 4 + off, U32(Len(w))) /\ Holds(b, (4 + off) + 4, w)
  <2> DEFINE u == U32(Len(w))
             p == 4 + off
  <2>1. u \in Seq(Byte) /\ Len(u) = 4
    BY <1>2, U32Bytes
  <2>2. Holds(b, p, u \o w) /\ p \in Nat
    BY <1>6 DEF Counted
  <2> HIDE DEF u, p, w
  <2>3. Holds(b, p, u) /\ Holds(b, p + Len(u), w)
    BY <1>1, <1>4, <2>1, <2>2, HoldsParts
  <2>4. Holds(b, p + 4, w)
    BY <2>1, <2>3
  <2> QED
    BY <2>3, <2>4 DEF u, p
<1>8. Off(parts, k + 1) <= Off(parts, Len(words))
  BY <1>1, JoinedHas
<1>9. Len(b) = 4 + Off(parts, Len(words))
  BY BodyBytes DEF EndOf, b
<1>10. 4 + Off(parts, k + 1) = (4 + off) + 4 + Len(w)
  <2> HIDE DEF off, parts, w
  <2> QED
    BY <1>2, <1>3
<1>11. 4 + Off(parts, k + 1) <= Len(b)
  <2>1. Off(parts, Len(words)) = Len(b) - 4 /\ Off(parts, k + 1) \in Nat
    <3>1. Len(words) \in 0 .. Len(parts)
      BY <1>1
    <3>2. Off(parts, Len(words)) \in Nat
      BY <1>1, <3>1, UptoBytes
    <3>3. Off(parts, k + 1) \in Nat
      BY <1>2, <1>3
    <3> QED
      BY <1>9, <3>2, <3>3
  <2> QED
    BY <1>4, <1>8, <2>1
<1> QED
  BY <1>1, <1>2, <1>6, <1>7, <1>10, <1>11 DEF EndOf, b

(* data is as the body of words, as far as either goes. *)
Agrees(data, words) ==
  \A i \in 1 .. Len(Body(words)) : i <= Len(data) => data[i] = Body(words)[i]

(* The walk of parse_request goes from the end of a word to the end of the  *)
(* next, and past the data when it is cut.                                  *)
LEMMA WordsWalked ==
  ASSUME NEW words \in Seq(Seq(Byte)), Len(Body(words)) \in Words32,
         NEW data, Len(data) \in Nat, 4 <= Len(data), Agrees(data, words)
  PROVE  /\ U32At(data, 0) = Len(words)
         /\ \A k \in 0 .. Len(words) :
              Walk(WordEnds(data), 4, Len(words))[k] =
                IF EndOf(words, k) <= Len(data) THEN EndOf(words, k) ELSE Len(data) + 1
         /\ \A k \in 0 .. Len(words) - 1 :
              EndOf(words, k + 1) <= Len(data) =>
                /\ U32At(data, EndOf(words, k)) = Len(words[k + 1])
                /\ Holds(data, EndOf(words, k) + 4, words[k + 1])
<1> DEFINE b == Body(words)
           n == Len(words)
           m == Len(data)
           walk == Walk(WordEnds(data), 4, n)
           e(k) == EndOf(words, k)
<1>1. /\ b \in Seq(Byte) /\ Len(b) \in Nat /\ n \in Nat
      /\ Len(b) = e(n) /\ 4 + 4 * n <= Len(b) /\ Holds(b, 0, U32(n)) /\ e(0) = 4
  BY BodyBytes
<1>2. ASSUME NEW s \in Seq(Byte), NEW pos \in Nat, Holds(b, pos, s), pos + Len(s) <= m
      PROVE  Holds(data, pos, s)
  <2>1. Len(s) \in Nat /\ pos + Len(s) <= Len(b) /\ \A i \in 1 .. Len(s) : b[pos + i] = s[i]
    BY <1>2, LenProperties DEF Holds
  <2>2. ASSUME NEW i \in 1 .. Len(s) PROVE data[pos + i] = s[i]
    <3>1. pos + i \in 1 .. Len(b) /\ pos + i <= m
      BY <1>1, <1>2, <2>1
    <3>2. data[pos + i] = b[pos + i]
      BY <3>1 DEF Agrees
    <3> QED
      BY <2>1, <3>2
  <2> QED
    BY <1>2, <2>2 DEF Holds
<1>3. U32At(data, 0) = n
  <2>1. n \in Words32
    BY <1>1, SmallerFits
  <2> DEFINE u == U32(n)
  <2>2. u \in Seq(Byte) /\ Len(u) = 4 /\ Holds(b, 0, u)
    BY <1>1, U32Bytes
  <2> HIDE DEF n, b, u
  <2>3. 0 + Len(u) <= m
    BY <2>2
  <2>4. Holds(data, 0, u)
    BY <1>2, <2>2, <2>3
  <2> QED
    BY <2>1, <2>4, U32Read DEF u
<1>4. ASSUME NEW k \in 0 .. n - 1
      PROVE  /\ Len(words[k + 1]) \in Words32 /\ words[k + 1] \in Seq(Byte)
             /\ e(k) \in Nat /\ e(k + 1) \in Nat
             /\ e(k + 1) = e(k) + 4 + Len(words[k + 1])
             /\ e(k) + 4 <= m => U32At(data, e(k)) = Len(words[k + 1])
             /\ e(k + 1) <= m => Holds(data, e(k) + 4, words[k + 1])
  <2> DEFINE w == words[k + 1]
             u == U32(Len(w))
  <2>1. /\ w \in Seq(Byte) /\ Len(w) \in Nat /\ e(k) \in Nat
        /\ e(k + 1) = e(k) + 4 + Len(w) /\ e(k + 1) <= Len(b)
        /\ Holds(b, e(k), u) /\ Holds(b, e(k) + 4, w)
    BY BodyHolds
  <2>2. Len(w) \in Words32
    <3> HIDE DEF w, e, b
    <3>1. Len(w) <= Len(b)
      BY <2>1, <1>1
    <3> QED
      BY <3>1, <2>1, SmallerFits DEF b
  <2>3. u \in Seq(Byte) /\ Len(u) = 4
    BY <2>1, U32Bytes
  <2> HIDE DEF e, w, u, b, m
  <2>4. ASSUME e(k) + 4 <= m PROVE U32At(data, e(k)) = Len(w)
    <3>1. Holds(data, e(k), u)
      BY <1>2, <2>1, <2>3, <2>4
    <3> QED
      BY <2>1, <2>2, <3>1, U32Read DEF u
  <2>5. ASSUME e(k + 1) <= m PROVE Holds(data, e(k) + 4, w)
    <3>1. (e(k) + 4) + Len(w) <= m /\ e(k) + 4 \in Nat
      BY <2>1, <2>5
    <3> QED
      BY <1>2, <2>1, <3>1
  <2>6. e(k + 1) \in Nat
    BY <2>1
  <2> QED
    BY <2>1, <2>2, <2>4, <2>5, <2>6 DEF w
<1>5. walk[0] = 4 /\ \A k \in 0 .. n - 1 : walk[k + 1] = WordEnds(data)[walk[k]]
  BY <1>1, WalkSteps
<1> DEFINE at(k) == IF e(k) <= m THEN e(k) ELSE m + 1
           S == {k \in Nat : walk[k] = at(k)}
<1>6. 0 \in S
  BY <1>1, <1>5
<1>7. ASSUME NEW k \in 0 .. n - 1, k \in S PROVE k + 1 \in S
  <2>1. /\ walk[k] = at(k) /\ walk[k + 1] = WordEnds(data)[walk[k]]
        /\ e(k) \in Nat /\ e(k + 1) \in Nat /\ e(k + 1) = e(k) + 4 + Len(words[k + 1])
        /\ Len(words[k + 1]) \in Nat /\ k + 1 \in Nat
        /\ e(k) + 4 <= m => U32At(data, e(k)) = Len(words[k + 1])
    <3>1. walk[k] = at(k)
      BY <1>7
    <3> HIDE DEF walk, e, m, at
    <3>2. /\ e(k) \in Nat /\ e(k + 1) \in Nat /\ e(k + 1) = e(k) + 4 + Len(words[k + 1])
          /\ Len(words[k + 1]) \in Nat
          /\ e(k) + 4 <= m => U32At(data, e(k)) = Len(words[k + 1])
      BY <1>4 DEF Words32
    <3> QED
      BY <1>5, <3>1, <3>2
  <2> DEFINE size == Len(words[k + 1])
  <2> HIDE DEF e, walk, size
  <2>2. at(k) \in Positions(data) /\ m \in Nat
    BY <2>1 DEF Positions, Past
  <2>3. WordEnds(data)[at(k)] =
           IF at(k) + 4 > m THEN m + 1 ELSE Within(data, at(k) + 4 + U32At(data, at(k)))
    <3> HIDE DEF at
    <3> QED
      BY <2>2 DEF WordEnds, Past
  <2> HIDE DEF m
  <2>4. CASE e(k) + 4 <= m
    <3>1. at(k) = e(k) /\ ~(at(k) + 4 > m)
      BY <2>1, <2>2, <2>4
    <3>2. walk[k + 1] = Within(data, e(k) + 4 + size)
      BY <2>1, <2>3, <2>4, <3>1 DEF size
    <3> QED
      BY <2>1, <3>2 DEF Within, Past, m, size
  <2>5. CASE ~(e(k) + 4 <= m)
    <3> DEFINE x == e(k)
               y == e(k + 1)
    <3>1. at(k) + 4 > m /\ y > m
      <4>1. x \in Nat /\ y = x + 4 + size /\ size \in Nat /\ ~(x + 4 <= m) /\ m \in Nat
        BY <2>1, <2>2, <2>5 DEF size
      <4>2. at(k) = IF x <= m THEN x ELSE m + 1
        OBVIOUS
      <4> HIDE DEF x, y, at
      <4>3. y > m
        BY <4>1
      <4>4. at(k) + 4 > m
        BY <4>1, <4>2
      <4> QED
        BY <4>3, <4>4
    <3> QED
      BY <2>1, <2>2, <2>3, <3>1
  <2> QED
    BY <2>4, <2>5
<1>8. \A k \in 0 .. n : k \in S
  <2> HIDE DEF S, n
  <2> QED
    BY <1>1, <1>6, <1>7, Climb
<1>9. \A k \in 0 .. n - 1 : e(k + 1) <= m => U32At(data, e(k)) = Len(words[k + 1])
  <2> SUFFICES ASSUME NEW k \in 0 .. n - 1, e(k + 1) <= m
               PROVE  U32At(data, e(k)) = Len(words[k + 1])
    OBVIOUS
  <2>1. /\ e(k) \in Nat /\ e(k + 1) = e(k) + 4 + Len(words[k + 1])
        /\ Len(words[k + 1]) \in Nat
        /\ e(k) + 4 <= m => U32At(data, e(k)) = Len(words[k + 1])
    BY <1>4 DEF Words32
  <2> HIDE DEF e, m
  <2>2. e(k) + 4 <= m
    BY <2>1 DEF m
  <2> QED
    BY <2>1, <2>2
<1> QED
  BY <1>3, <1>4, <1>8, <1>9

(* A body is read as the words it was made of. *)
LEMMA RequestRead ==
  ASSUME NEW words \in Seq(Seq(Byte)), Len(Body(words)) \in Words32,
         Len(words) <= k_max_args, k_max_args \in Nat
  PROVE  ParseRequest(Body(words)) = [ok |-> TRUE, words |-> words]
<1> DEFINE data == Body(words)
           n == Len(words)
           m == Len(data)
           walk == Walk(WordEnds(data), 4, n)
           e(k) == EndOf(words, k)
           read == Cardinality({k \in 1 .. n : walk[k] <= Len(data)})
           cut  == read < n /\ walk[read] + 4 <= Len(data)
           word(k) == Bytes(data, walk[k - 1] + 4, U32At(data, walk[k - 1]))
<1>1. data \in Seq(Byte) /\ m \in Nat /\ n \in Nat /\ m = e(n) /\ 4 + 4 * n <= m
  BY BodyBytes
<1>2. 4 <= m /\ Agrees(data, words)
  BY <1>1 DEF Agrees
<1>3. /\ U32At(data, 0) = n
      /\ \A k \in 0 .. n : walk[k] = IF e(k) <= m THEN e(k) ELSE m + 1
      /\ \A k \in 0 .. n - 1 : e(k + 1) <= m =>
            /\ U32At(data, e(k)) = Len(words[k + 1])
            /\ Holds(data, e(k) + 4, words[k + 1])
  BY <1>1, <1>2, WordsWalked
<1>4. ASSUME NEW k \in 0 .. n - 1
      PROVE  /\ e(k + 1) <= m /\ e(k) \in Nat /\ e(k) <= e(k + 1)
             /\ words[k + 1] \in Seq(Byte)
  <2>1. /\ words[k + 1] \in Seq(Byte) /\ Len(words[k + 1]) \in Nat /\ e(k) \in Nat
        /\ e(k + 1) = e(k) + 4 + Len(words[k + 1]) /\ e(k + 1) <= m
    BY BodyHolds
  <2> HIDE DEF e, m
  <2>2. e(k) <= e(k + 1)
    BY <2>1
  <2> QED
    BY <2>1, <2>2
<1>5. \A k \in 0 .. n : walk[k] = e(k) /\ walk[k] <= m
  <2> SUFFICES ASSUME NEW k \in 0 .. n PROVE e(k) <= m
    BY <1>3
  <2>1. CASE k = n
    BY <1>1, <2>1
  <2>2. CASE k # n
    <3>1. k \in 0 .. n - 1
      BY <1>1, <2>2
    <3>2. e(k + 1) <= m /\ e(k) \in Nat /\ e(k) <= e(k + 1)
      BY <1>4, <3>1
    <3>3. e(k + 1) \in Nat
      <4>1. e(k + 1) = e(k) + 4 + Len(words[k + 1]) /\ Len(words[k + 1]) \in Nat
        BY <3>1, BodyHolds
      <4> HIDE DEF e
      <4> QED
        BY <3>2, <4>1
    <3> HIDE DEF e, m
    <3> QED
      BY <3>2, <3>3, <1>1
  <2> QED
    BY <2>1, <2>2
<1>6. read = n
  <2>1. {k \in 1 .. n : walk[k] <= Len(data)} = 1 .. n
    BY <1>5
  <2>2. Cardinality(1 .. n) = n
    <3> HIDE DEF n
    <3>1. Cardinality(1 .. n) = IF 1 > n THEN 0 ELSE n - 1 + 1
      BY <1>1, FS_Interval
    <3> QED
      BY <1>1, <3>1
  <2> QED
    BY <2>1, <2>2
<1>7. ASSUME NEW k \in 1 .. n PROVE word(k) = words[k]
  <2>1. k - 1 \in 0 .. n - 1 /\ (k - 1) + 1 = k
    BY <1>1
  <2> DEFINE j == k - 1
  <2> HIDE DEF j
  <2>2. j \in 0 .. n - 1 /\ j + 1 = k /\ k - 1 = j /\ j \in 0 .. n
    BY <2>1, <1>1 DEF j
  <2>3. walk[j] = e(j) /\ U32At(data, e(j)) = Len(words[k]) /\ Holds(data, e(j) + 4, words[k])
        /\ e(j) \in Nat /\ words[k] \in Seq(Byte)
    BY <1>3, <1>4, <1>5, <2>2
  <2> HIDE DEF e, data, walk
  <2>4. Bytes(data, e(j) + 4, Len(words[k])) = words[k]
    BY <1>1, <2>3, HoldsBytes
  <2> QED
    BY <2>2, <2>3, <2>4
<1> HIDE DEF word, walk, read, e
<1>8. [k \in 1 .. n |-> word(k)] = words
  BY <1>7, LenProperties
<1>9. words \o <<>> = words
  BY ConcatEmptySeq
<1>10. ~cut /\ ~(n > k_max_args) /\ ~(Len(data) < 4)
  BY <1>1, <1>2, <1>6
<1>11. WholeBody(walk[n], Len(data))
  BY <1>1, <1>5 DEF WholeBody
<1>12. ParseRequest(data) =
         IF n > k_max_args THEN [ok |-> FALSE, words |-> <<>>]
         ELSE [ok    |-> Len(data) >= 4 /\ WholeBody(walk[n], Len(data)),
               words |-> [k \in 1 .. read |-> word(k)] \o IF cut THEN << <<>> >> ELSE <<>>]
  <2> DEFINE N == IF Len(data) < 4 THEN 0 ELSE U32At(data, 0)
  <2>1. N = n
    BY <1>3, <1>10
  <2> HIDE DEF n
  <2>2. n = N
    BY <2>1
  <2> HIDE DEF data
  <2> QED
    BY <2>2 DEF ParseRequest, walk, read, word
<1> QED
  BY <1>1, <1>2, <1>6, <1>8, <1>9, <1>10, <1>11, <1>12

(* A body cut anywhere, or with more after it, is not a request. *)
LEMMA RequestRefused ==
  ASSUME NEW words \in Seq(Seq(Byte)), Len(Body(words)) \in Words32,
         NEW data, Len(data) \in Nat, Agrees(data, words), Len(data) # Len(Body(words))
  PROVE  ~ParseRequest(data).ok
<1>1. CASE Len(data) < 4
  <2>1. ~(Len(data) >= 4)
    BY <1>1
  <2> QED
    BY <2>1 DEF ParseRequest
<1>2. CASE ~(Len(data) < 4)
  <2> DEFINE n == Len(words)
             walk == Walk(WordEnds(data), 4, n)
             e(k) == EndOf(words, k)
  <2>1. Len(Body(words)) = e(n) /\ e(n) \in Nat /\ n \in Nat /\ n \in 0 .. n
    BY BodyBytes
  <2>2. U32At(data, 0) = n /\ walk[n] = IF e(n) <= Len(data) THEN e(n) ELSE Len(data) + 1
    BY <1>2, <2>1, WordsWalked
  <2>3. ~WholeBody(walk[n], Len(data))
    BY <2>1, <2>2 DEF WholeBody
  <2> HIDE DEF n
  <2>4. ~WholeBody(Walk(WordEnds(data), 4, U32At(data, 0))[U32At(data, 0)], Len(data))
    BY <2>2, <2>3
  <2> QED
    BY <1>2, <2>4 DEF ParseRequest
<1> QED
  BY <1>1, <1>2

-----------------------------------------------------------------------------
(* The three decoders: a value is a scalar, or an array of values a level   *)
(* down.                                                                    *)

(* print_response. *)
LEMMA PrintLevels ==
  ASSUME NEW data, Len(data) \in Nat, 1 <= Len(data)
  PROVE  \E value :
           /\ \A pos \in Positions(data) :
                PrintResponse(data)[pos] =
                  IF Tagged(data, pos, 5, 5) THEN PrintArr(data, value, pos) ELSE Scalar(data, pos)
           /\ 2 <= Len(data) => \A pos \in Positions(data) :
                ~Tagged(data, pos, 5, 5) => value[pos] = Scalar(data, pos)
<1> DEFINE N == Len(data)
           Turn(y, d) == [pos \in Positions(data) |->
                            IF d = 0 THEN NotDecoded(data)
                            ELSE IF Tagged(data, pos, 5, 5) THEN PrintArr(data, y, pos)
                            ELSE Scalar(data, pos)]
           P(f, h) == f = [d \in 0 .. h |-> Turn(f[d - 1], d)]
           S == {h \in Nat : \E f : P(f, h)}
<1>0. \A y, z : Turn(y, 0) = Turn(z, 0)
  OBVIOUS
<1> HIDE DEF Turn
<1>1. 0 \in S
  <2>1. P([d \in 0 .. 0 |-> Turn(0, 0)], 0)
    BY <1>0
  <2> HIDE DEF P
  <2> QED
    BY <2>1
<1>2. ASSUME NEW h \in 0 .. N - 1, h \in S PROVE h + 1 \in S
  <2>1. PICK f : P(f, h)
    BY <1>2
  <2> DEFINE g == [d \in 0 .. h + 1 |-> IF d = h + 1 THEN Turn(f[h], d) ELSE f[d]]
  <2>2. ASSUME NEW d \in 0 .. h + 1
        PROVE  g[d] = Turn(g[d - 1], d)
    <3>1. CASE d = h + 1
      <4>1. d - 1 = h /\ h \in 0 .. h + 1 /\ h # h + 1
        BY <3>1
      <4> QED
        BY <3>1, <4>1
    <3>2. CASE d # h + 1 /\ d # 0
      <4>1. d \in 0 .. h /\ d - 1 \in 0 .. h + 1 /\ d - 1 # h + 1
        BY <3>2
      <4> QED
        BY <2>1, <3>2, <4>1
    <3>3. CASE d = 0
      <4>1. d \in 0 .. h /\ d # h + 1
        BY <3>3
      <4>2. g[d] = f[d] /\ f[d] = Turn(f[d - 1], d)
        BY <2>1, <4>1
      <4>3. Turn(f[d - 1], d) = Turn(g[d - 1], d)
        BY <1>0, <3>3
      <4> QED
        BY <4>2, <4>3
    <3> QED
      BY <3>1, <3>2, <3>3
  <2>3. P(g, h + 1)
    BY <2>2
  <2>4. h + 1 \in Nat
    OBVIOUS
  <2> HIDE DEF P, g
  <2> QED
    BY <2>3, <2>4
<1> HIDE DEF P
<1>3. N \in S
  <2>1. N \in Nat /\ N \in 0 .. N
    OBVIOUS
  <2> HIDE DEF S
  <2>2. \A k \in 0 .. N : k \in S
    BY <1>1, <1>2, <2>1, Climb
  <2> QED
    BY <2>1, <2>2
<1> DEFINE v == CHOOSE f : P(f, N)
<1>4. P(v, N)
  BY <1>3
<1>5. PrintResponse(data) = v[N]
  BY DEF PrintResponse, P, Turn
<1> HIDE DEF v
<1>6. N \in 0 .. N /\ N # 0 /\ N - 1 \in 0 .. N /\ (2 <= N => N - 1 # 0)
  <2>1. N \in Nat /\ 1 <= N
    OBVIOUS
  <2> HIDE DEF N
  <2> QED
    BY <2>1
<1>7. v[N] = Turn(v[N - 1], N) /\ v[N - 1] = Turn(v[N - 1 - 1], N - 1)
  BY <1>4, <1>6 DEF P
<1>8. \A pos \in Positions(data) :
         PrintResponse(data)[pos] =
           IF Tagged(data, pos, 5, 5) THEN PrintArr(data, v[N - 1], pos) ELSE Scalar(data, pos)
  BY <1>5, <1>6, <1>7 DEF Turn
<1>9. 2 <= Len(data) => \A pos \in Positions(data) :
         ~Tagged(data, pos, 5, 5) => v[N - 1][pos] = Scalar(data, pos)
  BY <1>6, <1>7 DEF Turn
<1> HIDE DEF N
<1> QED
  BY <1>8, <1>9

(* getResponseSize. *)
LEMMA EndLevels ==
  ASSUME NEW data, Len(data) \in Nat, 1 <= Len(data)
  PROVE  \E value :
           /\ \A pos \in Positions(data) :
                GetResponseEnds(data)[pos] =
                   IF Tagged(data, pos, 5, 5)
                     THEN Walk(value, pos + 5, U32At(data, pos + 1))[U32At(data, pos + 1)]
                     ELSE Within(data, ScalarEnd(data, pos))
           /\ 2 <= Len(data) => \A pos \in Positions(data) :
                ~Tagged(data, pos, 5, 5) => value[pos] = Within(data, ScalarEnd(data, pos))
<1> DEFINE N == Len(data)
           Turn(y, d) == [pos \in Positions(data) |->
                            IF d = 0 THEN Past(data)
                            ELSE IF Tagged(data, pos, 5, 5)
                                  THEN Walk(y, pos + 5, U32At(data, pos + 1))[U32At(data, pos + 1)]
                            ELSE Within(data, ScalarEnd(data, pos))]
           P(f, h) == f = [d \in 0 .. h |-> Turn(f[d - 1], d)]
           S == {h \in Nat : \E f : P(f, h)}
<1>0. \A y, z : Turn(y, 0) = Turn(z, 0)
  OBVIOUS
<1> HIDE DEF Turn
<1>1. 0 \in S
  <2>1. P([d \in 0 .. 0 |-> Turn(0, 0)], 0)
    BY <1>0
  <2> HIDE DEF P
  <2> QED
    BY <2>1
<1>2. ASSUME NEW h \in 0 .. N - 1, h \in S PROVE h + 1 \in S
  <2>1. PICK f : P(f, h)
    BY <1>2
  <2> DEFINE g == [d \in 0 .. h + 1 |-> IF d = h + 1 THEN Turn(f[h], d) ELSE f[d]]
  <2>2. ASSUME NEW d \in 0 .. h + 1
        PROVE  g[d] = Turn(g[d - 1], d)
    <3>1. CASE d = h + 1
      <4>1. d - 1 = h /\ h \in 0 .. h + 1 /\ h # h + 1
        BY <3>1
      <4> QED
        BY <3>1, <4>1
    <3>2. CASE d # h + 1 /\ d # 0
      <4>1. d \in 0 .. h /\ d - 1 \in 0 .. h + 1 /\ d - 1 # h + 1
        BY <3>2
      <4> QED
        BY <2>1, <3>2, <4>1
    <3>3. CASE d = 0
      <4>1. d \in 0 .. h /\ d # h + 1
        BY <3>3
      <4>2. g[d] = f[d] /\ f[d] = Turn(f[d - 1], d)
        BY <2>1, <4>1
      <4>3. Turn(f[d - 1], d) = Turn(g[d - 1], d)
        BY <1>0, <3>3
      <4> QED
        BY <4>2, <4>3
    <3> QED
      BY <3>1, <3>2, <3>3
  <2>3. P(g, h + 1)
    BY <2>2
  <2>4. h + 1 \in Nat
    OBVIOUS
  <2> HIDE DEF P, g
  <2> QED
    BY <2>3, <2>4
<1> HIDE DEF P
<1>3. N \in S
  <2>1. N \in Nat /\ N \in 0 .. N
    OBVIOUS
  <2> HIDE DEF S
  <2>2. \A k \in 0 .. N : k \in S
    BY <1>1, <1>2, <2>1, Climb
  <2> QED
    BY <2>1, <2>2
<1> DEFINE v == CHOOSE f : P(f, N)
<1>4. P(v, N)
  BY <1>3
<1>5. GetResponseEnds(data) = v[N]
  BY DEF GetResponseEnds, P, Turn
<1> HIDE DEF v
<1>6. N \in 0 .. N /\ N # 0 /\ N - 1 \in 0 .. N /\ (2 <= N => N - 1 # 0)
  <2>1. N \in Nat /\ 1 <= N
    OBVIOUS
  <2> HIDE DEF N
  <2> QED
    BY <2>1
<1>7. v[N] = Turn(v[N - 1], N) /\ v[N - 1] = Turn(v[N - 1 - 1], N - 1)
  BY <1>4, <1>6 DEF P
<1>8. \A pos \in Positions(data) :
         GetResponseEnds(data)[pos] =
            IF Tagged(data, pos, 5, 5)
              THEN Walk(v[N - 1], pos + 5, U32At(data, pos + 1))[U32At(data, pos + 1)]
              ELSE Within(data, ScalarEnd(data, pos))
  BY <1>5, <1>6, <1>7 DEF Turn
<1>9. 2 <= Len(data) => \A pos \in Positions(data) :
         ~Tagged(data, pos, 5, 5) => v[N - 1][pos] = Within(data, ScalarEnd(data, pos))
  BY <1>6, <1>7 DEF Turn
<1> HIDE DEF N
<1> QED
  BY <1>8, <1>9

(* parseResponse. *)
LEMMA ParseLevels ==
  ASSUME NEW data, Len(data) \in Nat, 1 <= Len(data)
  PROVE  \E value :
           /\ \A pos \in Positions(data) :
                ParseResponse(data)[pos] =
                  IF Tagged(data, pos, 5, 5) THEN ParseArr(data, value, pos)
                     ELSE InPage(Scalar(data, pos).val)
           /\ 2 <= Len(data) => \A pos \in Positions(data) :
                ~Tagged(data, pos, 5, 5) => value[pos] = InPage(Scalar(data, pos).val)
<1> DEFINE N == Len(data)
           Turn(y, d) == [pos \in Positions(data) |->
                            IF d = 0 THEN Bad
                            ELSE IF Tagged(data, pos, 5, 5) THEN ParseArr(data, y, pos)
                            ELSE InPage(Scalar(data, pos).val)]
           P(f, h) == f = [d \in 0 .. h |-> Turn(f[d - 1], d)]
           S == {h \in Nat : \E f : P(f, h)}
<1>0. \A y, z : Turn(y, 0) = Turn(z, 0)
  OBVIOUS
<1> HIDE DEF Turn
<1>1. 0 \in S
  <2>1. P([d \in 0 .. 0 |-> Turn(0, 0)], 0)
    BY <1>0
  <2> HIDE DEF P
  <2> QED
    BY <2>1
<1>2. ASSUME NEW h \in 0 .. N - 1, h \in S PROVE h + 1 \in S
  <2>1. PICK f : P(f, h)
    BY <1>2
  <2> DEFINE g == [d \in 0 .. h + 1 |-> IF d = h + 1 THEN Turn(f[h], d) ELSE f[d]]
  <2>2. ASSUME NEW d \in 0 .. h + 1
        PROVE  g[d] = Turn(g[d - 1], d)
    <3>1. CASE d = h + 1
      <4>1. d - 1 = h /\ h \in 0 .. h + 1 /\ h # h + 1
        BY <3>1
      <4> QED
        BY <3>1, <4>1
    <3>2. CASE d # h + 1 /\ d # 0
      <4>1. d \in 0 .. h /\ d - 1 \in 0 .. h + 1 /\ d - 1 # h + 1
        BY <3>2
      <4> QED
        BY <2>1, <3>2, <4>1
    <3>3. CASE d = 0
      <4>1. d \in 0 .. h /\ d # h + 1
        BY <3>3
      <4>2. g[d] = f[d] /\ f[d] = Turn(f[d - 1], d)
        BY <2>1, <4>1
      <4>3. Turn(f[d - 1], d) = Turn(g[d - 1], d)
        BY <1>0, <3>3
      <4> QED
        BY <4>2, <4>3
    <3> QED
      BY <3>1, <3>2, <3>3
  <2>3. P(g, h + 1)
    BY <2>2
  <2>4. h + 1 \in Nat
    OBVIOUS
  <2> HIDE DEF P, g
  <2> QED
    BY <2>3, <2>4
<1> HIDE DEF P
<1>3. N \in S
  <2>1. N \in Nat /\ N \in 0 .. N
    OBVIOUS
  <2> HIDE DEF S
  <2>2. \A k \in 0 .. N : k \in S
    BY <1>1, <1>2, <2>1, Climb
  <2> QED
    BY <2>1, <2>2
<1> DEFINE v == CHOOSE f : P(f, N)
<1>4. P(v, N)
  BY <1>3
<1>5. ParseResponse(data) = v[N]
  BY DEF ParseResponse, P, Turn
<1> HIDE DEF v
<1>6. N \in 0 .. N /\ N # 0 /\ N - 1 \in 0 .. N /\ (2 <= N => N - 1 # 0)
  <2>1. N \in Nat /\ 1 <= N
    OBVIOUS
  <2> HIDE DEF N
  <2> QED
    BY <2>1
<1>7. v[N] = Turn(v[N - 1], N) /\ v[N - 1] = Turn(v[N - 1 - 1], N - 1)
  BY <1>4, <1>6 DEF P
<1>8. \A pos \in Positions(data) :
         ParseResponse(data)[pos] =
           IF Tagged(data, pos, 5, 5) THEN ParseArr(data, v[N - 1], pos)
           ELSE InPage(Scalar(data, pos).val)
  BY <1>5, <1>6, <1>7 DEF Turn
<1>9. 2 <= Len(data) => \A pos \in Positions(data) :
         ~Tagged(data, pos, 5, 5) => v[N - 1][pos] = InPage(Scalar(data, pos).val)
  BY <1>6, <1>7 DEF Turn
<1> HIDE DEF N
<1> QED
  BY <1>8, <1>9

(* The walk over the items of an array goes from item to item. *)
LEMMA ItemsWalked ==
  ASSUME NEW parts \in Seq(Seq(Byte)), NEW next,
         \A k \in 0 .. Len(parts) - 1 : next[5 + Off(parts, k)] = 5 + Off(parts, k + 1)
  PROVE  \A k \in 0 .. Len(parts) : Walk(next, 5, Len(parts))[k] = 5 + Off(parts, k)
<1> DEFINE n == Len(parts)
           w == Walk(next, 5, n)
           S == {k \in Nat : w[k] = 5 + Off(parts, k)}
<1>1. n \in Nat
  BY LenProperties
<1>2. w[0] = 5 /\ \A k \in 0 .. n - 1 : w[k + 1] = next[w[k]]
  BY <1>1, WalkSteps
<1>3. 0 \in S
  BY <1>2, Offsets
<1>4. ASSUME NEW k \in 0 .. n - 1, k \in S PROVE k + 1 \in S
  BY <1>2, <1>4
<1>5. \A k \in 0 .. n : k \in S
  <2> HIDE DEF S, n
  <2> QED
    BY <1>1, <1>3, <1>4, Climb
<1> QED
  BY <1>5

-----------------------------------------------------------------------------
(* Replies. *)

Errors == {"UNKNOWN", "TOO_BIG", "BAD_ARGUMENT", "BAD_TYPE", "NOT_FOUND"}

Scalars == {Nil} \union {Err(e) : e \in Errors} \union {Str(v) : v \in Seq(Byte)}
             \union {Num(n) : n \in Nat} \union {Dbl(s) : s \in DOMAIN DblBytes}

Replies == Scalars \union {Arr(items) : items \in Seq(Scalars)}

(* pos holds a scalar that reads as val and ends at end. *)
ReadAt(data, pos, val, end) ==
  /\ Scalar(data, pos) = Decoded(val, end)
  /\ ScalarEnd(data, pos) = end
  /\ ~Tagged(data, pos, 5, 5)
  /\ pos < end /\ end <= Len(data) /\ end \in Nat

LEMMA OneByte ==
  ASSUME NEW b \in Byte
  PROVE  <<b>> \in Seq(Byte) /\ Len(<<b>>) = 1 /\ <<b>>[1] = b
OBVIOUS

(* A tag before a string of bytes. *)
LEMMA TagHeld ==
  ASSUME NEW b \in Byte, NEW s \in Seq(Byte), NEW data, NEW pos \in Nat, Len(data) \in Nat,
         Holds(data, pos, <<b>> \o s)
  PROVE  /\ pos + 1 + Len(s) <= Len(data) /\ data[pos + 1] = b
         /\ Holds(data, pos + 1, s) /\ Len(s) \in Nat
         /\ <<b>> \o s \in Seq(Byte) /\ Len(<<b>> \o s) = 1 + Len(s)
<1> DEFINE t == <<b>>
<1>1. t \in Seq(Byte) /\ Len(t) = 1 /\ t[1] = b
  BY OneByte
<1> HIDE DEF t
<1>2. t \o s \in Seq(Byte) /\ Len(t \o s) = Len(t) + Len(s) /\ Len(s) \in Nat
  BY <1>1, Concat
<1>3. Holds(data, pos, t \o s)
  BY DEF t
<1>4. Holds(data, pos, t) /\ Holds(data, pos + Len(t), s)
  BY <1>1, <1>3, HoldsParts
<1>5. data[pos + 1] = b
  BY <1>1, <1>4 DEF Holds
<1>6. Holds(data, pos + 1, s)
  BY <1>1, <1>4
<1>7. pos + 1 + Len(s) <= Len(data)
  BY <1>6 DEF Holds
<1> QED
  BY <1>1, <1>2, <1>5, <1>6, <1>7 DEF t

LEMMA NilRead ==
  ASSUME NEW data \in Seq(Byte), NEW pos \in Nat, Holds(data, pos, << 0 >>)
  PROVE  ReadAt(data, pos, [tag |-> "nil"], pos + 1)
<1>1. pos + 1 <= Len(data) /\ data[pos + 1] = 0
  BY DEF Holds
<1> QED
  BY <1>1 DEF ReadAt, Scalar, ScalarEnd, Tagged

LEMMA ErrRead ==
  ASSUME NEW data \in Seq(Byte), NEW pos \in Nat, NEW e \in Errors, Holds(data, pos, OutErr(e))
  PROVE  ReadAt(data, pos, [tag |-> "err", val |-> Code(e)], pos + 10)
<1> DEFINE c == U32(Code(e))
           l == U32(1)
<1>1. Code(e) \in 1 .. 5
  BY DEF Errors, Code
<1>2. Code(e) \in Words32 /\ 1 \in Words32 /\ Code(e) \in Nat /\ 1 \in Byte /\ 63 \in Byte
  BY <1>1 DEF Words32, Byte
<1>3. c \in Seq(Byte) /\ Len(c) = 4 /\ l \in Seq(Byte) /\ Len(l) = 4
  BY <1>2, U32Bytes
<1>4. Text \in Seq(Byte) /\ Len(Text) = 1 /\ Counted(Text) = l \o Text
  BY <1>2, OneByte DEF Text, Counted
<1>5. OutErr(e) = (<<1>> \o c) \o (l \o Text)
  BY <1>4 DEF OutErr
<1> DEFINE o == <<1>>  t == Text
<1>6. o \in Seq(Byte) /\ Len(o) = 1 /\ o[1] = 1 /\ t \in Seq(Byte) /\ Len(t) = 1
  BY <1>2, <1>4, OneByte
<1> HIDE DEF c, l, o, t
<1>7. Holds(data, pos, (o \o c) \o (l \o t)) /\ Len(data) \in Nat
  BY <1>5, LenProperties DEF o, t
<1>8. o \o c \in Seq(Byte) /\ Len(o \o c) = 5 /\ l \o t \in Seq(Byte)
  <2>1. o \o c \in Seq(Byte) /\ Len(o \o c) = Len(o) + Len(c)
    BY <1>3, <1>6, Concat
  <2>2. l \o t \in Seq(Byte)
    BY <1>3, <1>6, Concat
  <2> QED
    BY <1>3, <1>6, <2>1, <2>2
<1>9. Holds(data, pos, o \o c) /\ Holds(data, pos + 5, l \o t)
  BY <1>7, <1>8, HoldsParts
<1>10. Holds(data, pos, o) /\ Holds(data, pos + 1, c)
  BY <1>3, <1>6, <1>7, <1>9, HoldsParts
<1>11. Holds(data, pos + 5, l) /\ Holds(data, (pos + 5) + 4, t)
  <2> DEFINE p == pos + 5
  <2>1. p \in Nat
    OBVIOUS
  <2> HIDE DEF p
  <2>2. Holds(data, p, l \o t)
    BY <1>9 DEF p
  <2>3. Holds(data, p, l) /\ Holds(data, p + Len(l), t)
    BY <1>3, <1>6, <1>7, <2>1, <2>2, HoldsParts
  <2> QED
    BY <1>3, <2>3 DEF p
<1>12. data[pos + 1] = 1 /\ pos + 10 <= Len(data)
  BY <1>6, <1>10, <1>11 DEF Holds
<1>13. U32At(data, pos + 1) = Code(e)
  BY <1>2, <1>7, <1>10, U32Read DEF c
<1>14. U32At(data, pos + 5) = 1
  BY <1>2, <1>7, <1>11, U32Read DEF l
<1> HIDE DEF U32At
<1> QED
  BY <1>12, <1>13, <1>14, <1>7 DEF ReadAt, Scalar, ScalarEnd, Tagged

LEMMA StrRead ==
  ASSUME NEW data \in Seq(Byte), NEW pos \in Nat, NEW v \in Seq(Byte), Len(v) \in Words32,
         Holds(data, pos, << 2 >> \o Counted(v))
  PROVE  ReadAt(data, pos, [tag |-> "str", val |-> v], pos + 5 + Len(v))
<1> DEFINE l == U32(Len(v))
           cv == Counted(v)
<1>1. Len(v) \in Nat /\ Len(data) \in Nat /\ 2 \in Byte
  BY LenProperties DEF Byte
<1>2. l \in Seq(Byte) /\ Len(l) = 4 /\ cv = l \o v
  BY <1>1, U32Bytes DEF Counted
<1>3. cv \in Seq(Byte) /\ Len(cv) = 4 + Len(v)
  BY CountedBytes
<1> HIDE DEF cv
<1>4. pos + 1 + Len(cv) <= Len(data) /\ data[pos + 1] = 2 /\ Holds(data, pos + 1, cv)
  BY <1>1, <1>3, TagHeld DEF cv
<1> HIDE DEF l
<1>5. Holds(data, pos + 1, l) /\ Holds(data, (pos + 1) + 4, v)
  <2> DEFINE p == pos + 1
  <2>1. p \in Nat
    OBVIOUS
  <2> HIDE DEF p
  <2>2. Holds(data, p, l \o v)
    BY <1>2, <1>4 DEF p
  <2>3. Holds(data, p, l) /\ Holds(data, p + Len(l), v)
    BY <1>1, <1>2, <2>1, <2>2, HoldsParts
  <2> QED
    BY <1>2, <2>3 DEF p
<1>6. U32At(data, pos + 1) = Len(v)
  BY <1>1, <1>5, U32Read DEF l
<1>7. (pos + 1) + 4 = pos + 5 /\ pos + 5 \in Nat /\ pos + 5 + Len(v) <= Len(data)
  BY <1>1, <1>3, <1>4
<1>8. Bytes(data, pos + 5, Len(v)) = v
  BY <1>5, <1>7, HoldsBytes
<1> DEFINE n == Len(v)
<1> HIDE DEF n
<1>9. /\ data[pos + 1] = 2 /\ U32At(data, pos + 1) = n /\ pos + 5 + n <= Len(data)
      /\ n \in Nat /\ Bytes(data, pos + 5, n) = v /\ Len(data) \in Nat
  BY <1>1, <1>4, <1>6, <1>7, <1>8 DEF n
<1>10. pos + 5 <= Len(data) /\ pos < pos + 5 + n /\ pos + 5 + n \in Nat
  BY <1>9
<1>11. /\ Tagged(data, pos, 2, 5)
       /\ \A m \in {1, 9} : \A t \in {0, 1, 3, 4} : ~Tagged(data, pos, t, m)
       /\ ~Tagged(data, pos, 5, 5)
  BY <1>9, <1>10 DEF Tagged
<1> HIDE DEF U32At, Tagged
<1>12. Scalar(data, pos) = Decoded([tag |-> "str", val |-> v], pos + 5 + n)
  BY <1>9, <1>11 DEF Scalar
<1>13. ScalarEnd(data, pos) = pos + 5 + n
  BY <1>9, <1>11 DEF ScalarEnd, StrEnd
<1> QED
  BY <1>9, <1>10, <1>11, <1>12, <1>13 DEF ReadAt, n

LEMMA EightRead ==
  ASSUME NEW data \in Seq(Byte), NEW pos \in Nat, NEW tag \in {3, 4}, NEW v \in Seq(Byte),
         Len(v) = 8, Holds(data, pos, <<tag>> \o v)
  PROVE  ReadAt(data, pos, [tag |-> IF tag = 3 THEN "int" ELSE "dbl", val |-> v], pos + 9)
<1>1. Len(data) \in Nat /\ tag \in Byte
  BY LenProperties DEF Byte
<1>2. pos + 1 + 8 <= Len(data) /\ data[pos + 1] = tag /\ Holds(data, pos + 1, v)
  <2>1. pos + 1 + Len(v) <= Len(data)
    BY <1>1, TagHeld
  <2>3. data[pos + 1] = tag
    BY <1>1, TagHeld
  <2>2. Holds(data, pos + 1, v)
    BY <1>1, TagHeld
  <2> QED
    BY <2>1, <2>2, <2>3
<1>3. Bytes(data, pos + 1, 8) = v
  <2>1. pos + 1 \in Nat
    OBVIOUS
  <2>2. Bytes(data, pos + 1, Len(v)) = v
    BY <1>2, <2>1, HoldsBytes
  <2> QED
    BY <2>2
<1> HIDE DEF U32At
<1> QED
  BY <1>1, <1>2, <1>3 DEF ReadAt, Scalar, ScalarEnd, Tagged

LEMMA EightBytes ==
  /\ \A n \in Nat : I64(n) \in Seq(Byte) /\ Len(I64(n)) = 8
  /\ \A s \in DOMAIN DblBytes : DblBytes[s] \in Seq(Byte) /\ Len(DblBytes[s]) = 8
<1>1. ASSUME NEW n \in Nat PROVE I64(n) \in Seq(Byte) /\ Len(I64(n)) = 8
  <2> DEFINE u == U32(n)
             z == <<0, 0, 0, 0>>
  <2>1. u \in Seq(Byte) /\ Len(u) = 4
    BY U32Bytes
  <2>2. z \in Seq(Byte) /\ Len(z) = 4
    <3>1. 0 \in Byte
      BY DEF Byte
    <3> QED
      BY <3>1
  <2> HIDE DEF u, z
  <2>3. u \o z \in Seq(Byte) /\ Len(u \o z) = Len(u) + Len(z)
    BY <2>1, <2>2, Concat
  <2> QED
    BY <2>1, <2>2, <2>3 DEF I64, u, z
<1>2. ASSUME NEW s \in DOMAIN DblBytes PROVE DblBytes[s] \in Seq(Byte) /\ Len(DblBytes[s]) = 8
  <2> DEFINE d == DblBytes[s]
  <2>1. d \in [1 .. 8 -> Byte]
    BY DblAssumption DEF Byte
  <2> HIDE DEF d
  <2> DEFINE n == 8
  <2>2. n \in Nat /\ n = 8
    OBVIOUS
  <2>3. d \in Seq(Byte) /\ DOMAIN d = 1 .. 8
    <3> HIDE DEF n
    <3>1. d \in [1 .. n -> Byte]
      BY <2>1, <2>2
    <3>2. d \in Seq(Byte)
      BY <2>2, <3>1, SeqDef
    <3> QED
      BY <2>1, <3>2
  <2>4. Len(d) = 8
    BY <2>2, <2>3, LenProperties
  <2> QED
    BY <2>3, <2>4 DEF d
<1> QED
  BY <1>1, <1>2

LEMMA ScalarForms ==
  /\ OutScalar(Nil) = << 0 >> /\ SeenScalar(Nil) = [tag |-> "nil"] /\ Nil.tag = "nil"
  /\ \A e : /\ OutScalar(Err(e)) = OutErr(e)
            /\ SeenScalar(Err(e)) = [tag |-> "err", val |-> Code(e)] /\ Err(e).tag = "err"
  /\ \A v : /\ OutScalar(Str(v)) = << 2 >> \o Counted(v)
            /\ SeenScalar(Str(v)) = [tag |-> "str", val |-> v] /\ Str(v).tag = "str"
  /\ \A n : /\ OutScalar(Num(n)) = << 3 >> \o I64(n)
            /\ SeenScalar(Num(n)) = [tag |-> "int", val |-> I64(n)] /\ Num(n).tag = "int"
  /\ \A s : /\ OutScalar(Dbl(s)) = << 4 >> \o DblBytes[s]
            /\ SeenScalar(Dbl(s)) = [tag |-> "dbl", val |-> DblBytes[s]] /\ Dbl(s).tag = "dbl"
<1>1. OutScalar(Nil) = << 0 >> /\ SeenScalar(Nil) = [tag |-> "nil"] /\ Nil.tag = "nil"
  BY DEF OutScalar, SeenScalar, Nil
<1>2. ASSUME NEW e
      PROVE  /\ OutScalar(Err(e)) = OutErr(e)
             /\ SeenScalar(Err(e)) = [tag |-> "err", val |-> Code(e)] /\ Err(e).tag = "err"
  BY DEF OutScalar, SeenScalar, Err
<1>3. ASSUME NEW v
      PROVE  /\ OutScalar(Str(v)) = << 2 >> \o Counted(v)
             /\ SeenScalar(Str(v)) = [tag |-> "str", val |-> v] /\ Str(v).tag = "str"
  BY DEF OutScalar, SeenScalar, Str
<1>4. ASSUME NEW n
      PROVE  /\ OutScalar(Num(n)) = << 3 >> \o I64(n)
             /\ SeenScalar(Num(n)) = [tag |-> "int", val |-> I64(n)] /\ Num(n).tag = "int"
  BY DEF OutScalar, SeenScalar, Num
<1>5. ASSUME NEW s
      PROVE  /\ OutScalar(Dbl(s)) = << 4 >> \o DblBytes[s]
             /\ SeenScalar(Dbl(s)) = [tag |-> "dbl", val |-> DblBytes[s]] /\ Dbl(s).tag = "dbl"
  BY DEF OutScalar, SeenScalar, Dbl
<1> QED
  BY <1>1, <1>2, <1>3, <1>4, <1>5

LEMMA TagBytes ==
  ASSUME NEW b \in Byte, NEW s \in Seq(Byte)
  PROVE  <<b>> \o s \in Seq(Byte) /\ Len(<<b>> \o s) = 1 + Len(s) /\ Len(s) \in Nat
<1> DEFINE t == <<b>>
<1>1. t \in Seq(Byte) /\ Len(t) = 1
  BY OneByte
<1> HIDE DEF t
<1>2. t \o s \in Seq(Byte) /\ Len(t \o s) = Len(t) + Len(s) /\ Len(s) \in Nat
  BY <1>1, Concat
<1> QED
  BY <1>1, <1>2 DEF t

LEMMA ErrBytes ==
  ASSUME NEW e \in Errors
  PROVE  OutErr(e) \in Seq(Byte) /\ Len(OutErr(e)) = 10
<1> DEFINE c == U32(Code(e))
           t == <<1>>
           x == Counted(Text)
<1>1. Code(e) \in Nat /\ 1 \in Byte /\ 63 \in Byte
  BY DEF Errors, Code, Byte
<1>2. c \in Seq(Byte) /\ Len(c) = 4
  BY <1>1, U32Bytes
<1>3. t \in Seq(Byte) /\ Len(t) = 1
  BY <1>1, OneByte
<1>4. x \in Seq(Byte) /\ Len(x) = 5
  <2>1. Text \in Seq(Byte) /\ Len(Text) = 1
    BY <1>1, OneByte DEF Text
  <2> HIDE DEF x
  <2>2. x \in Seq(Byte) /\ Len(x) = 4 + Len(Text)
    BY <2>1, CountedBytes DEF x
  <2> QED
    BY <2>1, <2>2
<1> HIDE DEF c, t, x
<1>5. t \o c \in Seq(Byte) /\ Len(t \o c) = Len(t) + Len(c)
  BY <1>2, <1>3, Concat
<1>6. (t \o c) \o x \in Seq(Byte) /\ Len((t \o c) \o x) = Len(t \o c) + Len(x)
  BY <1>4, <1>5, Concat
<1>7. Len((t \o c) \o x) = 10
  BY <1>2, <1>3, <1>4, <1>5, <1>6
<1> QED
  BY <1>6, <1>7 DEF OutErr, c, t, x

LEMMA ScalarBytes ==
  ASSUME NEW r \in Scalars
  PROVE  /\ OutScalar(r) \in Seq(Byte) /\ Len(OutScalar(r)) \in Nat /\ 1 <= Len(OutScalar(r))
         /\ r.tag # "arr" /\ SeenScalar(r) # Bad
<1> DEFINE Good(q) == /\ OutScalar(q) \in Seq(Byte) /\ Len(OutScalar(q)) \in Nat
                      /\ 1 <= Len(OutScalar(q)) /\ q.tag # "arr" /\ SeenScalar(q) # Bad
<1>0. 0 \in Byte /\ 2 \in Byte /\ 3 \in Byte /\ 4 \in Byte
  BY DEF Byte
<1>1. Good(Nil)
  <2>1. << 0 >> \in Seq(Byte) /\ Len(<< 0 >>) = 1
    BY <1>0, OneByte
  <2>2. OutScalar(Nil) = << 0 >> /\ Nil.tag # "arr"
    BY ScalarForms
  <2>3. SeenScalar(Nil) # Bad
    BY ScalarForms DEF Bad
  <2> QED
    BY <2>1, <2>2, <2>3
<1>2. ASSUME NEW e \in Errors PROVE Good(Err(e))
  <2>1. OutErr(e) \in Seq(Byte) /\ Len(OutErr(e)) = 10
    BY ErrBytes
  <2>2. OutScalar(Err(e)) = OutErr(e) /\ Err(e).tag # "arr"
    BY ScalarForms
  <2>3. SeenScalar(Err(e)) # Bad
    <3>1. SeenScalar(Err(e)).tag = "err"
      BY ScalarForms
    <3> QED
      BY <3>1 DEF Bad
  <2>4. OutScalar(Err(e)) \in Seq(Byte)
    BY <2>1, <2>2
  <2>5. Len(OutScalar(Err(e))) = 10
    BY <2>1, <2>2
  <2> QED
    BY <2>2, <2>3, <2>4, <2>5
<1>3. ASSUME NEW v \in Seq(Byte) PROVE Good(Str(v))
  <2> DEFINE c == Counted(v)
  <2>1. c \in Seq(Byte)
    BY CountedBytes
  <2> HIDE DEF c
  <2>2. << 2 >> \o c \in Seq(Byte) /\ Len(<< 2 >> \o c) = 1 + Len(c) /\ Len(c) \in Nat
    BY <1>0, <2>1, TagBytes
  <2>3. OutScalar(Str(v)) = << 2 >> \o c /\ Str(v).tag # "arr"
    BY ScalarForms DEF c
  <2>4. SeenScalar(Str(v)).tag = "str"
    BY ScalarForms
  <2>5. SeenScalar(Str(v)) # Bad
    BY <2>4 DEF Bad
  <2> QED
    BY <2>2, <2>3, <2>5
<1>4. ASSUME NEW n \in Nat PROVE Good(Num(n))
  <2> DEFINE c == I64(n)
  <2>1. c \in Seq(Byte)
    BY EightBytes
  <2> HIDE DEF c
  <2>2. << 3 >> \o c \in Seq(Byte) /\ Len(<< 3 >> \o c) = 1 + Len(c) /\ Len(c) \in Nat
    BY <1>0, <2>1, TagBytes
  <2>3. OutScalar(Num(n)) = << 3 >> \o c /\ Num(n).tag # "arr"
    BY ScalarForms DEF c
  <2>4. SeenScalar(Num(n)).tag = "int"
    BY ScalarForms
  <2>5. SeenScalar(Num(n)) # Bad
    BY <2>4 DEF Bad
  <2> QED
    BY <2>2, <2>3, <2>5
<1>5. ASSUME NEW s \in DOMAIN DblBytes PROVE Good(Dbl(s))
  <2> DEFINE c == DblBytes[s]
  <2>1. c \in Seq(Byte)
    BY EightBytes
  <2> HIDE DEF c
  <2>2. << 4 >> \o c \in Seq(Byte) /\ Len(<< 4 >> \o c) = 1 + Len(c) /\ Len(c) \in Nat
    BY <1>0, <2>1, TagBytes
  <2>3. OutScalar(Dbl(s)) = << 4 >> \o c /\ Dbl(s).tag # "arr"
    BY ScalarForms DEF c
  <2>4. SeenScalar(Dbl(s)).tag = "dbl"
    BY ScalarForms
  <2>5. SeenScalar(Dbl(s)) # Bad
    BY <2>4 DEF Bad
  <2> QED
    BY <2>2, <2>3, <2>5
<1> HIDE DEF Good
<1>6. Good(r)
  BY <1>1, <1>2, <1>3, <1>4, <1>5 DEF Scalars
<1> QED
  BY <1>6 DEF Good

(* A number below 2^32 has zeros in its upper bytes, which Number keeps. *)
LEMMA NumberKept ==
  ASSUME NEW n \in Nat
  PROVE  ToNumber(I64(n)) = I64(n)
<1> DEFINE low  == U32(n)
           high == <<0, 0, 0, 0>>
<1>1. low \in Seq(Byte) /\ Len(low) = 4
  BY U32Bytes
<1>2. high \in Seq(Nat) /\ Len(high) = 4 /\ high[3] = 0 /\ high[4] = 0
  OBVIOUS
<1>3. low \in Seq(Nat)
  <2>1. Byte \subseteq Nat
    BY DEF Byte
  <2> HIDE DEF low
  <2> QED
    BY <1>1, <2>1, SeqMonotonic
<1> HIDE DEF low, high
<1>4. (low \o high)[7] = 0 /\ (low \o high)[8] = 0
  <2>1. \A i \in 1 .. Len(low) + Len(high) :
           (low \o high)[i] = IF i <= Len(low) THEN low[i] ELSE high[i - Len(low)]
    BY <1>2, <1>3, ConcatProperties
  <2>2. Len(low) + Len(high) = 8
    BY <1>1, <1>2
  <2>3. 7 \in 1 .. 8 /\ 8 \in 1 .. 8 /\ ~(7 <= 4) /\ ~(8 <= 4) /\ 7 - 4 = 3 /\ 8 - 4 = 4
    OBVIOUS
  <2>4. \A i \in 1 .. 8 : (low \o high)[i] = IF i <= 4 THEN low[i] ELSE high[i - 4]
    BY <1>1, <2>1, <2>2
  <2>5. (low \o high)[7] = high[3]
    BY <2>3, <2>4
  <2>6. (low \o high)[8] = high[4]
    BY <2>3, <2>4
  <2> QED
    BY <1>2, <2>5, <2>6
<1>5. I64(n)[7] = 0 /\ I64(n)[8] = 0
  BY <1>4 DEF I64, low, high
<1> HIDE DEF I64
<1> QED
  BY <1>5 DEF ToNumber

(* The page has a scalar as it can show it. *)
LEMMA ScalarInPage ==
  ASSUME NEW r \in Scalars
  PROVE  /\ InPage(SeenScalar(r)) = Shown(SeenScalar(r))
         /\ Shown(SeenScalar(r)) # Bad
<1> DEFINE Good(q) == InPage(SeenScalar(q)) = Shown(SeenScalar(q))
                      /\ Shown(SeenScalar(q)) # Bad
<1>1. Good(Nil)
  <2>1. SeenScalar(Nil) = [tag |-> "nil"]
    BY ScalarForms
  <2> QED
    BY <2>1 DEF InPage, Shown, Bad
<1>2. ASSUME NEW e PROVE Good(Err(e))
  <2>1. SeenScalar(Err(e)) = [tag |-> "err", val |-> Code(e)]
    BY ScalarForms
  <2> QED
    BY <2>1 DEF InPage, Shown, Bad
<1>3. ASSUME NEW v PROVE Good(Str(v))
  <2>1. SeenScalar(Str(v)) = [tag |-> "str", val |-> v]
    BY ScalarForms
  <2> QED
    BY <2>1 DEF InPage, Shown, Bad
<1>4. ASSUME NEW n \in Nat PROVE Good(Num(n))
  <2>1. SeenScalar(Num(n)) = [tag |-> "int", val |-> I64(n)]
    BY ScalarForms
  <2>2. ToNumber(I64(n)) = I64(n)
    BY NumberKept
  <2> QED
    BY <2>1, <2>2 DEF InPage, Shown, Bad
<1>5. ASSUME NEW s PROVE Good(Dbl(s))
  <2>1. SeenScalar(Dbl(s)) = [tag |-> "dbl", val |-> DblBytes[s]]
    BY ScalarForms
  <2> QED
    BY <2>1 DEF InPage, Shown, Bad
<1> HIDE DEF Good
<1>6. Good(r)
  BY <1>1, <1>2, <1>3, <1>4, <1>5 DEF Scalars
<1> QED
  BY <1>6 DEF Good

(* A scalar is read back where it is. *)
LEMMA ScalarRead ==
  ASSUME NEW r \in Scalars, Len(OutScalar(r)) \in Words32,
         NEW data \in Seq(Byte), NEW pos \in Nat, Holds(data, pos, OutScalar(r))
  PROVE  ReadAt(data, pos, SeenScalar(r), pos + Len(OutScalar(r)))
<1>0. 2 \in Byte /\ 3 \in Byte /\ 4 \in Byte
  BY DEF Byte
<1>1. CASE r = Nil
  <2>1. Holds(data, pos, << 0 >>) /\ SeenScalar(r) = [tag |-> "nil"] /\ Len(OutScalar(r)) = 1
    BY <1>1, ScalarForms
  <2>2. ReadAt(data, pos, [tag |-> "nil"], pos + 1)
    BY <2>1, NilRead
  <2> QED
    BY <2>1, <2>2
<1>2. ASSUME NEW e \in Errors, r = Err(e)
      PROVE  ReadAt(data, pos, SeenScalar(r), pos + Len(OutScalar(r)))
  <2>1. Holds(data, pos, OutErr(e)) /\ SeenScalar(r) = [tag |-> "err", val |-> Code(e)]
        /\ OutScalar(r) = OutErr(e)
    BY <1>2, ScalarForms
  <2>2. ReadAt(data, pos, [tag |-> "err", val |-> Code(e)], pos + 10)
    BY <2>1, ErrRead
  <2>3. Len(OutErr(e)) = 10
    BY ErrBytes
  <2> QED
    BY <2>1, <2>2, <2>3
<1>3. ASSUME NEW v \in Seq(Byte), r = Str(v)
      PROVE  ReadAt(data, pos, SeenScalar(r), pos + Len(OutScalar(r)))
  <2> DEFINE c == Counted(v)
  <2>1. OutScalar(r) = << 2 >> \o c /\ SeenScalar(r) = [tag |-> "str", val |-> v]
    BY <1>3, ScalarForms
  <2>2. c \in Seq(Byte) /\ Len(c) = 4 + Len(v) /\ Len(v) \in Nat
    BY CountedBytes, LenProperties
  <2> HIDE DEF c
  <2>3. Len(<< 2 >> \o c) = 1 + Len(c)
    BY <1>0, <2>2, TagBytes
  <2>4. Len(OutScalar(r)) = 5 + Len(v)
    BY <2>1, <2>2, <2>3
  <2>5. Len(v) \in Words32
    BY <2>2, <2>4, SmallerFits
  <2>6. Holds(data, pos, << 2 >> \o Counted(v))
    BY <2>1 DEF c
  <2>7. ReadAt(data, pos, [tag |-> "str", val |-> v], pos + 5 + Len(v))
    BY <2>5, <2>6, StrRead
  <2>8. pos + 5 + Len(v) = pos + (5 + Len(v))
    BY <2>2
  <2> QED
    BY <2>1, <2>4, <2>7, <2>8
<1>4. ASSUME NEW n \in Nat, r = Num(n)
      PROVE  ReadAt(data, pos, SeenScalar(r), pos + Len(OutScalar(r)))
  <2> DEFINE c == I64(n)
  <2>1. OutScalar(r) = << 3 >> \o c /\ SeenScalar(r) = [tag |-> "int", val |-> c]
    BY <1>4, ScalarForms
  <2>2. c \in Seq(Byte) /\ Len(c) = 8
    BY EightBytes
  <2> HIDE DEF c
  <2>3. Len(<< 3 >> \o c) = 1 + Len(c)
    BY <1>0, <2>2, TagBytes
  <2>4. Len(OutScalar(r)) = 9
    BY <2>1, <2>2, <2>3
  <2>5. Holds(data, pos, << 3 >> \o c)
    BY <2>1
  <2>6. ReadAt(data, pos, [tag |-> IF 3 = 3 THEN "int" ELSE "dbl", val |-> c], pos + 9)
    BY <2>2, <2>5, EightRead
  <2> QED
    BY <2>1, <2>4, <2>6
<1>5. ASSUME NEW s \in DOMAIN DblBytes, r = Dbl(s)
      PROVE  ReadAt(data, pos, SeenScalar(r), pos + Len(OutScalar(r)))
  <2> DEFINE c == DblBytes[s]
  <2>1. OutScalar(r) = << 4 >> \o c /\ SeenScalar(r) = [tag |-> "dbl", val |-> c]
    BY <1>5, ScalarForms
  <2>2. c \in Seq(Byte) /\ Len(c) = 8
    BY EightBytes
  <2> HIDE DEF c
  <2>3. Len(<< 4 >> \o c) = 1 + Len(c)
    BY <1>0, <2>2, TagBytes
  <2>4. Len(OutScalar(r)) = 9
    BY <2>1, <2>2, <2>3
  <2>5. Holds(data, pos, << 4 >> \o c)
    BY <2>1
  <2>6. ReadAt(data, pos, [tag |-> IF 4 = 3 THEN "int" ELSE "dbl", val |-> c], pos + 9)
    BY <2>2, <2>5, EightRead
  <2> QED
    BY <2>1, <2>4, <2>6
<1> QED
  BY <1>1, <1>2, <1>3, <1>4, <1>5 DEF Scalars

-----------------------------------------------------------------------------
(* Arrays. *)

OutItems(items) == [i \in DOMAIN items |-> OutScalar(items[i])]

LEMMA OutItemsBytes ==
  ASSUME NEW items \in Seq(Scalars)
  PROVE  /\ OutItems(items) \in Seq(Seq(Byte)) /\ Len(items) \in Nat
         /\ Len(OutItems(items)) = Len(items) /\ DOMAIN items = 1 .. Len(items)
         /\ \A i \in 1 .. Len(items) :
              items[i] \in Scalars /\ OutItems(items)[i] = OutScalar(items[i])
<1>1. items \in [1 .. Len(items) -> Scalars] /\ Len(items) \in Nat
      /\ DOMAIN items = 1 .. Len(items)
  BY LenProperties
<1>2. \A i \in 1 .. Len(items) : items[i] \in Scalars /\ OutScalar(items[i]) \in Seq(Byte)
  BY <1>1, ScalarBytes
<1>3. OutItems(items) = [i \in 1 .. Len(items) |-> OutScalar(items[i])]
  BY <1>1 DEF OutItems
<1> DEFINE n == Len(items)
           f == [i \in 1 .. n |-> OutScalar(items[i])]
<1>4. f \in Seq(Seq(Byte)) /\ Len(f) = n
  <2>1. f \in [1 .. n -> Seq(Byte)] /\ n \in Nat
    BY <1>1, <1>2
  <2> HIDE DEF f, n
  <2> QED
    BY <2>1
<1> QED
  BY <1>1, <1>2, <1>3, <1>4

LEMMA OutArrBytes ==
  ASSUME NEW items \in Seq(Scalars)
  PROVE  /\ OutArr(items) \in Seq(Byte) /\ Len(OutArr(items)) \in Nat
         /\ Len(OutArr(items)) = 5 + Off(OutItems(items), Len(items))
         /\ 5 + Len(items) <= Len(OutArr(items))
         /\ Holds(OutArr(items), 0, << 5 >> \o U32(Len(items)))
         /\ Holds(OutArr(items), 5, Joined(OutItems(items)))
<1> DEFINE parts == OutItems(items)
           n == Len(items)
           u == << 5 >> \o U32(n)
           j == Joined(parts)
           data == OutArr(items)
<1>1. parts \in Seq(Seq(Byte)) /\ Len(parts) = n /\ n \in Nat
  BY OutItemsBytes
<1>2. u \in Seq(Byte) /\ Len(u) = 5
  <2> DEFINE v == U32(n)
  <2>1. v \in Seq(Byte) /\ Len(v) = 4 /\ 5 \in Byte
    BY <1>1, U32Bytes DEF Byte
  <2> HIDE DEF v
  <2>2. << 5 >> \o v \in Seq(Byte) /\ Len(<< 5 >> \o v) = 1 + Len(v)
    BY <2>1, TagBytes
  <2> QED
    BY <2>1, <2>2 DEF v
<1>3. j \in Seq(Byte) /\ Len(j) = Off(parts, n)
  BY <1>1, JoinedHas
<1>4. data = u \o j
  BY DEF OutArr, OutItems
<1>5. n <= Off(parts, n)
  <2>1. \A k \in 1 .. Len(parts) : 1 <= Len(parts[k])
    <3>1. ASSUME NEW k \in 1 .. Len(parts) PROVE 1 <= Len(parts[k])
      <4>1. k \in 1 .. Len(items)
        BY <1>1
      <4>2. parts[k] = OutScalar(items[k]) /\ items[k] \in Scalars
        BY <4>1, OutItemsBytes
      <4> QED
        BY <4>2, ScalarBytes
    <3> QED
      BY <3>1
  <2>2. Len(parts) \in 0 .. Len(parts)
    BY <1>1
  <2> HIDE DEF parts, n
  <2>3. \A k \in 0 .. Len(parts) : 1 * k <= Off(parts, k)
    BY <1>1, <2>1, OffsetsGrow
  <2> QED
    BY <1>1, <2>2, <2>3
<1> HIDE DEF parts, n, u, j, data
<1>6. u \o j \in Seq(Byte) /\ Len(u \o j) = Len(u) + Len(j) /\ Len(j) \in Nat
  BY <1>2, <1>3, Concat
<1>7. data \in Seq(Byte) /\ Len(data) \in Nat /\ Len(data) = 5 + Len(j)
  BY <1>2, <1>4, <1>6
<1>8. Holds(data, 0, u) /\ Holds(data, 0 + Len(u), j)
  BY <1>2, <1>3, <1>4, <1>7, HoldsItself, HoldsParts
<1>9. Holds(data, 5, j)
  BY <1>2, <1>8
<1>10. 5 + n <= Len(data)
  BY <1>1, <1>3, <1>5, <1>6, <1>7
<1>11. Len(data) = 5 + Off(parts, n)
  BY <1>3, <1>7
<1> QED
  BY <1>7, <1>8, <1>9, <1>10, <1>11 DEF parts, n, u, j, data

(* The header of an array, and its items one after the other. *)
LEMMA ArrHeld ==
  ASSUME NEW items \in Seq(Scalars), Len(OutArr(items)) \in Words32
  PROVE  /\ Tagged(OutArr(items), 0, 5, 5)
         /\ U32At(OutArr(items), 1) = Len(items)
         /\ \A k \in 0 .. Len(items) - 1 :
              /\ 5 + Off(OutItems(items), k) \in Nat
              /\ ReadAt(OutArr(items), 5 + Off(OutItems(items), k),
                        SeenScalar(items[k + 1]), 5 + Off(OutItems(items), k + 1))
<1> DEFINE parts == OutItems(items)
           n == Len(items)
           data == OutArr(items)
<1>1. parts \in Seq(Seq(Byte)) /\ Len(parts) = n /\ n \in Nat
  BY OutItemsBytes
<1>2. /\ data \in Seq(Byte) /\ Len(data) \in Nat /\ 5 + n <= Len(data)
      /\ Len(data) = 5 + Off(parts, n)
      /\ Holds(data, 0, << 5 >> \o U32(n)) /\ Holds(data, 5, Joined(parts))
  BY OutArrBytes
<1>3. n \in Words32
  BY <1>1, <1>2, SmallerFits
<1>4. Tagged(data, 0, 5, 5) /\ U32At(data, 1) = n
  <2> DEFINE v == U32(n)
  <2>1. v \in Seq(Byte) /\ Len(v) = 4 /\ 5 \in Byte
    BY <1>1, U32Bytes DEF Byte
  <2> HIDE DEF v, data, n
  <2>2. Holds(data, 0, << 5 >> \o v) /\ Len(data) \in Nat
    BY <1>2 DEF v
  <2>3. data[0 + 1] = 5
    BY <2>1, <2>2, TagHeld
  <2>4. Holds(data, 0 + 1, v)
    BY <2>1, <2>2, TagHeld
  <2>5. Holds(data, 1, U32(n)) /\ data[0 + 1] = 5 /\ 0 + 5 <= Len(data)
    BY <2>3, <2>4, <1>1, <1>2 DEF v
  <2> QED
    BY <2>5, <1>2, <1>3, U32Read DEF Tagged
<1>5. ASSUME NEW k \in 0 .. n - 1
      PROVE  /\ 5 + Off(parts, k) \in Nat
             /\ ReadAt(data, 5 + Off(parts, k), SeenScalar(items[k + 1]), 5 + Off(parts, k + 1))
  <2> DEFINE r == items[k + 1]
             p == 5 + Off(parts, k)
             s == OutScalar(r)
  <2>1. r \in Scalars /\ parts[k + 1] = s
    <3>1. k + 1 \in 1 .. Len(items)
      BY <1>1
    <3> QED
      BY <3>1, OutItemsBytes
  <2>2. /\ Off(parts, k) \in Nat /\ Off(parts, k + 1) = Off(parts, k) + Len(s)
        /\ Len(s) \in Nat /\ Off(parts, k + 1) <= Off(parts, n)
    <3>1. k \in 0 .. Len(parts) - 1
      BY <1>1
    <3>2. /\ Off(parts, k) \in Nat /\ Len(parts[k + 1]) \in Nat
          /\ Off(parts, k + 1) = Off(parts, k) + Len(parts[k + 1])
      BY <1>1, <3>1, Offsets
    <3>3. Off(parts, k + 1) <= Off(parts, Len(parts))
      BY <1>1, <3>1, JoinedHas
    <3> HIDE DEF parts, r, s, n
    <3> QED
      BY <1>1, <2>1, <3>2, <3>3
  <2>3. Holds(data, p, s) /\ p \in Nat
    <3> HIDE DEF parts, data, r, s, n
    <3>1. k \in 0 .. Len(parts) - 1
      BY <1>1
    <3>2. Holds(data, 5 + Off(parts, k), parts[k + 1]) /\ 5 + Off(parts, k) \in Nat
      BY <1>1, <1>2, <3>1, HoldsJoined
    <3> QED
      BY <2>1, <3>2
  <2>4. Len(s) \in Words32
    <3>1. Len(s) <= Len(data)
      <4>1. Off(parts, n) \in Nat
        <5>1. n \in 0 .. Len(parts)
          BY <1>1
        <5> QED
          BY <1>1, <5>1, UptoBytes
      <4> HIDE DEF parts, data, s, n
      <4> QED
        BY <1>2, <2>2, <4>1
    <3> HIDE DEF s
    <3> QED
      BY <2>2, <3>1, SmallerFits
  <2> HIDE DEF data, r, p
  <2>5. ReadAt(data, p, SeenScalar(r), p + Len(s))
    BY <1>2, <2>1, <2>3, <2>4, ScalarRead
  <2> HIDE DEF s, parts
  <2>6. p + Len(s) = 5 + Off(parts, k + 1)
    BY <2>2 DEF p
  <2> QED
    BY <2>3, <2>5, <2>6 DEF p, r
<1> QED
  BY <1>4, <1>5

(* The client prints the items of an array. *)
LEMMA ArrPrinted ==
  ASSUME NEW items \in Seq(Scalars), Len(OutArr(items)) \in Words32
  PROVE  PrintResponse(OutArr(items))[0] =
           Decoded([tag |-> "arr", val |-> [i \in 1 .. Len(items) |-> SeenScalar(items[i])]],
                   Len(OutArr(items)))
<1> DEFINE parts == OutItems(items)
           n == Len(items)
           data == OutArr(items)
           off(k) == Off(parts, k)
<1>1. parts \in Seq(Seq(Byte)) /\ Len(parts) = n /\ n \in Nat
  BY OutItemsBytes
<1>2. Len(data) \in Nat /\ 5 <= Len(data) /\ Len(data) = 5 + off(n)
  BY OutArrBytes, <1>1
<1>3. /\ Tagged(data, 0, 5, 5) /\ U32At(data, 1) = n
      /\ \A k \in 0 .. n - 1 :
           5 + off(k) \in Nat /\ ReadAt(data, 5 + off(k), SeenScalar(items[k + 1]), 5 + off(k + 1))
  BY ArrHeld
<1>4. PICK value :
        /\ \A pos \in Positions(data) :
             PrintResponse(data)[pos] =
               IF Tagged(data, pos, 5, 5) THEN PrintArr(data, value, pos) ELSE Scalar(data, pos)
        /\ 2 <= Len(data) => \A pos \in Positions(data) :
             ~Tagged(data, pos, 5, 5) => value[pos] = Scalar(data, pos)
  <2> HIDE DEF data
  <2> QED
    BY <1>2, PrintLevels
<1>5. PrintResponse(data)[0] = PrintArr(data, value, 0)
  <2>1. 0 \in Positions(data)
    BY <1>2 DEF Positions, Past
  <2> QED
    BY <1>3, <1>4, <2>1
<1> DEFINE next == [p \in Positions(data) |-> value[p].end]
           at == Walk(next, 5, n)
<1>6. ASSUME NEW k \in 0 .. n - 1
      PROVE  /\ value[5 + off(k)].val = SeenScalar(items[k + 1])
             /\ next[5 + off(k)] = 5 + off(k + 1)
  <2> DEFINE p == 5 + off(k)
             q == 5 + off(k + 1)
  <2>1. p \in Nat /\ ReadAt(data, p, SeenScalar(items[k + 1]), q)
    BY <1>3
  <2> HIDE DEF data, off, p, q
  <2>2. p \in Positions(data)
    BY <1>2, <2>1 DEF Positions, Past, ReadAt
  <2>3. value[p] = Decoded(SeenScalar(items[k + 1]), q)
    BY <1>2, <1>4, <2>1, <2>2 DEF ReadAt
  <2> QED
    BY <2>2, <2>3 DEF Decoded, p, q
<1>7. \A k \in 0 .. n : at[k] = 5 + off(k)
  <2> HIDE DEF parts, next
  <2>1. \A k \in 0 .. Len(parts) - 1 : next[5 + Off(parts, k)] = 5 + Off(parts, k + 1)
    BY <1>1, <1>6
  <2>2. \A k \in 0 .. Len(parts) : Walk(next, 5, Len(parts))[k] = 5 + Off(parts, k)
    BY <1>1, <2>1, ItemsWalked
  <2> QED
    BY <1>1, <2>2
<1>8. ASSUME NEW i \in 1 .. n
      PROVE  value[at[i - 1]].val = SeenScalar(items[i]) /\ SeenScalar(items[i]) # Bad
  <2> DEFINE k == i - 1
  <2>1. k \in 0 .. n - 1 /\ k \in 0 .. n /\ k + 1 = i
    BY <1>1
  <2>2. items[i] \in Scalars
    BY OutItemsBytes
  <2> HIDE DEF k
  <2>3. at[k] = 5 + off(k) /\ value[5 + off(k)].val = SeenScalar(items[i])
    BY <1>6, <1>7, <2>1
  <2> HIDE DEF at
  <2> QED
    BY <2>2, <2>3, ScalarBytes DEF k
<1>9. at[n] = Len(data)
  <2>1. n \in 0 .. n
    BY <1>1
  <2> HIDE DEF n, at
  <2> QED
    BY <1>2, <1>7, <2>1
<1>10. PrintArr(data, value, 0) =
         IF \E i \in 1 .. n : value[at[i - 1]].val = Bad THEN NotDecoded(data)
         ELSE Decoded([tag |-> "arr", val |-> [i \in 1 .. n |-> value[at[i - 1]].val]], at[n])
  <2> DEFINE m == U32At(data, 0 + 1)
  <2>1. n = m
    BY <1>3
  <2> HIDE DEF n, m
  <2> SUFFICES PrintArr(data, value, 0) =
         IF \E i \in 1 .. m : value[Walk(next, 0 + 5, m)[i - 1]].val = Bad THEN NotDecoded(data)
         ELSE Decoded([tag |-> "arr", val |-> [i \in 1 .. m |-> value[Walk(next, 0 + 5, m)[i - 1]].val]],
                      Walk(next, 0 + 5, m)[m])
    BY <2>1
  <2> HIDE DEF data
  <2> QED
    BY DEF PrintArr, m
<1> HIDE DEF at, data, n
<1>11. [i \in 1 .. n |-> value[at[i - 1]].val] = [i \in 1 .. n |-> SeenScalar(items[i])]
  BY <1>8
<1>12. ~\E i \in 1 .. n : value[at[i - 1]].val = Bad
  BY <1>8
<1>13. PrintResponse(data)[0] =
         Decoded([tag |-> "arr", val |-> [i \in 1 .. n |-> SeenScalar(items[i])]], Len(data))
  BY <1>5, <1>9, <1>10, <1>11, <1>12
<1> QED
  BY <1>13 DEF data, n

(* So does the bridge, with the sizes of its own. *)
LEMMA ArrParsed ==
  ASSUME NEW items \in Seq(Scalars), Len(OutArr(items)) \in Words32
  PROVE  ParseResponse(OutArr(items))[0] =
           [tag |-> "arr", val |-> [i \in 1 .. Len(items) |-> Shown(SeenScalar(items[i]))]]
<1> DEFINE parts == OutItems(items)
           n == Len(items)
           data == OutArr(items)
           off(k) == Off(parts, k)
<1>1. parts \in Seq(Seq(Byte)) /\ Len(parts) = n /\ n \in Nat
  BY OutItemsBytes
<1>2. Len(data) \in Nat /\ 5 <= Len(data)
  BY OutArrBytes, <1>1
<1>3. /\ Tagged(data, 0, 5, 5) /\ U32At(data, 1) = n
      /\ \A k \in 0 .. n - 1 :
           5 + off(k) \in Nat /\ ReadAt(data, 5 + off(k), SeenScalar(items[k + 1]), 5 + off(k + 1))
  BY ArrHeld
<1>4. PICK value :
        /\ \A pos \in Positions(data) :
             ParseResponse(data)[pos] =
               IF Tagged(data, pos, 5, 5) THEN ParseArr(data, value, pos)
               ELSE InPage(Scalar(data, pos).val)
        /\ 2 <= Len(data) => \A pos \in Positions(data) :
             ~Tagged(data, pos, 5, 5) => value[pos] = InPage(Scalar(data, pos).val)
  <2> HIDE DEF data
  <2> QED
    BY <1>2, ParseLevels
<1>5. PICK ends :
        \A pos \in Positions(data) :
          GetResponseEnds(data)[pos] =
            IF Tagged(data, pos, 5, 5)
              THEN Walk(ends, pos + 5, U32At(data, pos + 1))[U32At(data, pos + 1)]
            ELSE Within(data, ScalarEnd(data, pos))
  <2> HIDE DEF data
  <2>1. \E below :
          /\ \A pos \in Positions(data) :
               GetResponseEnds(data)[pos] =
                 IF Tagged(data, pos, 5, 5)
                   THEN Walk(below, pos + 5, U32At(data, pos + 1))[U32At(data, pos + 1)]
                 ELSE Within(data, ScalarEnd(data, pos))
          /\ 2 <= Len(data) => \A pos \in Positions(data) :
               ~Tagged(data, pos, 5, 5) => below[pos] = Within(data, ScalarEnd(data, pos))
    <3>1. 1 <= Len(data)
      BY <1>2
    <3> QED
      BY <1>2, <3>1, EndLevels
  <2> QED
    BY <2>1
<1>6. ParseResponse(data)[0] = ParseArr(data, value, 0)
  <2>1. 0 \in Positions(data)
    BY <1>2 DEF Positions, Past
  <2> QED
    BY <1>3, <1>4, <2>1
<1> DEFINE next == GetResponseEnds(data)
           at == Walk(next, 5, n)
<1>7. ASSUME NEW k \in 0 .. n - 1
      PROVE  /\ value[5 + off(k)] = Shown(SeenScalar(items[k + 1]))
             /\ next[5 + off(k)] = 5 + off(k + 1)
  <2> DEFINE p == 5 + off(k)
             q == 5 + off(k + 1)
  <2>1. p \in Nat /\ ReadAt(data, p, SeenScalar(items[k + 1]), q)
    BY <1>3
  <2> HIDE DEF data, off, p, q
  <2>2. p \in Positions(data)
    BY <1>2, <2>1 DEF Positions, Past, ReadAt
  <2>3. value[p] = Shown(SeenScalar(items[k + 1]))
    <3>1. value[p] = InPage(SeenScalar(items[k + 1]))
      BY <1>2, <1>4, <2>1, <2>2 DEF ReadAt, Decoded
    <3>2. items[k + 1] \in Scalars
      BY <1>1
    <3> QED
      BY <3>1, <3>2, ScalarInPage
  <2>4. next[p] = Within(data, ScalarEnd(data, p)) /\ ScalarEnd(data, p) = q /\ q <= Len(data)
    BY <1>5, <2>1, <2>2 DEF ReadAt
  <2> HIDE DEF next
  <2>5. next[p] = q
    BY <2>4 DEF Within
  <2> QED
    BY <2>3, <2>5 DEF p, q
<1>8. \A k \in 0 .. n : at[k] = 5 + off(k)
  <2> HIDE DEF parts, next
  <2>1. \A k \in 0 .. Len(parts) - 1 : next[5 + Off(parts, k)] = 5 + Off(parts, k + 1)
    BY <1>1, <1>7
  <2>2. \A k \in 0 .. Len(parts) : Walk(next, 5, Len(parts))[k] = 5 + Off(parts, k)
    BY <1>1, <2>1, ItemsWalked
  <2> QED
    BY <1>1, <2>2
<1>9. ASSUME NEW i \in 1 .. n
      PROVE  /\ value[at[i - 1]] = Shown(SeenScalar(items[i]))
             /\ Shown(SeenScalar(items[i])) # Bad
  <2> DEFINE k == i - 1
  <2>1. k \in 0 .. n - 1 /\ k \in 0 .. n /\ k + 1 = i
    BY <1>1
  <2>2. items[i] \in Scalars
    BY OutItemsBytes
  <2> HIDE DEF k
  <2>3. at[k] = 5 + off(k) /\ value[5 + off(k)] = Shown(SeenScalar(items[i]))
    BY <1>7, <1>8, <2>1
  <2> HIDE DEF at
  <2> QED
    BY <2>2, <2>3, ScalarInPage DEF k
<1>10. ParseArr(data, value, 0) =
         IF \E i \in 1 .. n : value[at[i - 1]] = Bad THEN Bad
         ELSE [tag |-> "arr", val |-> [i \in 1 .. n |-> value[at[i - 1]]]]
  <2> DEFINE m == U32At(data, 0 + 1)
  <2>1. n = m
    BY <1>3
  <2> HIDE DEF n, m
  <2> SUFFICES ParseArr(data, value, 0) =
         IF \E i \in 1 .. m : value[Walk(next, 0 + 5, m)[i - 1]] = Bad THEN Bad
         ELSE [tag |-> "arr", val |-> [i \in 1 .. m |-> value[Walk(next, 0 + 5, m)[i - 1]]]]
    BY <2>1
  <2> HIDE DEF data
  <2> QED
    BY DEF ParseArr, m
<1> HIDE DEF at, data, n
<1>11. [i \in 1 .. n |-> value[at[i - 1]]] = [i \in 1 .. n |-> Shown(SeenScalar(items[i]))]
  BY <1>9
<1>12. ~\E i \in 1 .. n : value[at[i - 1]] = Bad
  BY <1>9
<1>13. ParseResponse(data)[0] =
         [tag |-> "arr", val |-> [i \in 1 .. n |-> Shown(SeenScalar(items[i]))]]
  BY <1>6, <1>10, <1>11, <1>12
<1> QED
  BY <1>13 DEF data, n

-----------------------------------------------------------------------------
(* Every reply. *)

LEMMA ReplyBytes ==
  ASSUME NEW r \in Replies
  PROVE  Out(r) \in Seq(Byte) /\ Len(Out(r)) \in Nat
<1>1. CASE r \in Scalars
  BY <1>1, ScalarBytes DEF Out
<1>2. ASSUME NEW items \in Seq(Scalars), r = Arr(items)
      PROVE  Out(r) \in Seq(Byte) /\ Len(Out(r)) \in Nat
  <2>1. Out(r) = OutArr(items)
    BY <1>2 DEF Out, Arr
  <2> QED
    BY <2>1, OutArrBytes
<1> QED
  BY <1>1, <1>2 DEF Replies

LEMMA SeenTags ==
  ASSUME NEW r \in Scalars
  PROVE  SeenScalar(r).tag # "arr"
BY ScalarForms DEF Scalars

LEMMA ReplyRead ==
  ASSUME NEW r \in Replies, Len(Out(r)) \in Words32
  PROVE  Printed(Out(r)) = Seen(r) /\ ParseResponse(Out(r))[0] = OnPage(Seen(r))
<1>1. CASE r \in Scalars
  <2> DEFINE data == OutScalar(r)
  <2>1. /\ data \in Seq(Byte) /\ Len(data) \in Nat /\ 1 <= Len(data) /\ r.tag # "arr"
    BY <1>1, ScalarBytes
  <2>2. Out(r) = data /\ Seen(r) = SeenScalar(r)
    BY <2>1 DEF Out, Seen
  <2>3. Len(data) \in Words32 /\ Holds(data, 0, data)
    BY <2>1, <2>2, HoldsItself
  <2>4. ReadAt(data, 0, SeenScalar(r), 0 + Len(data))
    BY <1>1, <2>1, <2>3, ScalarRead
  <2> HIDE DEF data
  <2>5. 0 \in Positions(data)
    BY <2>1 DEF Positions, Past
  <2>6. PrintResponse(data)[0] = Scalar(data, 0)
    BY <2>1, <2>4, <2>5, PrintLevels DEF ReadAt
  <2>7. ParseResponse(data)[0] = InPage(Scalar(data, 0).val)
    BY <2>1, <2>4, <2>5, ParseLevels DEF ReadAt
  <2>8. Scalar(data, 0) = Decoded(SeenScalar(r), Len(data))
    BY <2>1, <2>4 DEF ReadAt
  <2>9. Printed(data) = SeenScalar(r)
    BY <2>6, <2>8 DEF Printed, Decoded
  <2>10. ParseResponse(data)[0] = Shown(SeenScalar(r))
    BY <1>1, <2>7, <2>8, ScalarInPage DEF Decoded
  <2>11. OnPage(SeenScalar(r)) = Shown(SeenScalar(r))
    BY <1>1, SeenTags DEF OnPage
  <2> QED
    BY <2>2, <2>9, <2>10, <2>11
<1>2. ASSUME NEW items \in Seq(Scalars), r = Arr(items)
      PROVE  Printed(Out(r)) = Seen(r) /\ ParseResponse(Out(r))[0] = OnPage(Seen(r))
  <2> DEFINE data == OutArr(items)
             seen == [tag |-> "arr", val |-> [i \in 1 .. Len(items) |-> SeenScalar(items[i])]]
  <2>1. Out(r) = data
    BY <1>2 DEF Out, Arr
  <2>2. Seen(r) = seen
    BY <1>2, OutItemsBytes DEF Seen, Arr
  <2>3. Len(data) \in Words32
    BY <2>1
  <2>4. PrintResponse(data)[0] = Decoded(seen, Len(data))
    BY <2>3, ArrPrinted
  <2>5. ParseResponse(data)[0] =
          [tag |-> "arr", val |-> [i \in 1 .. Len(items) |-> Shown(SeenScalar(items[i]))]]
    BY <2>3, ArrParsed
  <2>6. OnPage(seen) =
          [tag |-> "arr", val |-> [i \in 1 .. Len(items) |-> Shown(SeenScalar(items[i]))]]
    BY DEF OnPage
  <2> HIDE DEF data, seen
  <2> QED
    BY <2>1, <2>2, <2>4, <2>5, <2>6 DEF Printed, Decoded
<1> QED
  BY <1>1, <1>2 DEF Replies

LEMMA CappedReply ==
  ASSUME NEW r \in Replies
  PROVE  Capped(r) \in Replies /\ Len(Out(Capped(r))) \in Words32
<1>1. CASE Len(Out(r)) > ServerMax
  <2>1. Capped(r) = Err("TOO_BIG") /\ "TOO_BIG" \in Errors
    BY <1>1 DEF Capped, Err, Errors
  <2>2. Capped(r) \in Replies
    BY <2>1 DEF Replies, Scalars
  <2>3. Out(Err("TOO_BIG")) = OutErr("TOO_BIG")
    BY ScalarForms DEF Out
  <2>4. Len(OutErr("TOO_BIG")) = 10
    BY <2>1, ErrBytes
  <2>5. 10 \in Words32
    BY DEF Words32
  <2> QED
    BY <2>1, <2>2, <2>3, <2>4, <2>5
<1>2. CASE ~(Len(Out(r)) > ServerMax)
  <2>1. Capped(r) = r
    BY <1>2 DEF Capped
  <2>2. ServerMax \in Words32 /\ Len(Out(r)) \in Nat
    BY ReplyBytes, LimitsAssumption DEF Words32
  <2>3. Len(Out(r)) <= ServerMax
    BY <1>2, <2>2 DEF Words32
  <2> QED
    BY <2>1, <2>2, <2>3, SmallerFits
<1> QED
  BY <1>1, <1>2

-----------------------------------------------------------------------------
(* Commands keep the store well typed and answer replies. *)

LEMMA ItemsAre ==
  ASSUME NEW n \in Nat, NEW f, f = [i \in 1 .. n |-> f[i]], \A i \in 1 .. n : f[i] \in Scalars
  PROVE  f \in Seq(Scalars) /\ Arr(f) \in Replies
<1>1. f \in [1 .. n -> Scalars]
  OBVIOUS
<1>2. f \in Seq(Scalars)
  BY <1>1, SeqDef
<1> QED
  BY <1>2 DEF Replies

LEMMA PutOK ==
  ASSUME NEW store, StoreOK(store), NEW k \in Seq(Byte), NEW entry, EntryOK(entry)
  PROVE  StoreOK(Put(store, k, entry))
<1>1. DOMAIN Put(store, k, entry) = DOMAIN store \union {k}
  BY DEF Put
<1>2. IsFiniteSet(DOMAIN store \union {k})
  BY FS_AddElement DEF StoreOK
<1>3. ASSUME NEW x \in DOMAIN store \union {k}
      PROVE  x \in Seq(Byte) /\ EntryOK(Put(store, k, entry)[x])
  <2> HIDE DEF EntryOK
  <2>1. Put(store, k, entry)[x] = IF x = k THEN entry ELSE store[x]
    BY DEF Put
  <2>2. CASE x = k
    BY <2>1, <2>2
  <2>3. CASE x # k
    <3>1. x \in DOMAIN store
      BY <2>3
    <3> QED
      BY <2>1, <2>3, <3>1 DEF StoreOK, Byte
  <2> QED
    BY <2>2, <2>3
<1> QED
  BY <1>1, <1>2, <1>3 DEF StoreOK, Byte

LEMMA LettersFit ==
  ASSUME NEW s \in Seq(Byte)
  PROVE  s \in Name
<1>1. Byte \subseteq Nat
  BY DEF Byte
<1> QED
  BY <1>1, SeqMonotonic DEF Name

LEMMA MembersOK ==
  ASSUME NEW store, StoreOK(store), NEW k, OfType(store, k, "zset")
  PROVE  ScoresOK(Members(store, k)) /\ Scores(Members(store, k))
<1>1. ScoresOK(Members(store, k))
  <2>1. CASE Has(store, k)
    <3>1. store[k].type = "zset" /\ EntryOK(store[k])
      BY <2>1 DEF OfType, StoreOK, Has
    <3> QED
      BY <2>1, <3>1 DEF EntryOK, Members
  <2>2. CASE ~Has(store, k)
    <3>1. Members(store, k) = NoMembers
      BY <2>2 DEF Members
    <3>2. DOMAIN NoMembers = {} /\ IsFiniteSet({})
      BY FS_EmptySet DEF NoMembers
    <3> QED
      BY <3>1, <3>2 DEF ScoresOK
  <2> QED
    BY <2>1, <2>2
<1>2. ASSUME NEW n \in Seq(0 .. 255) PROVE n \in Name
  BY LettersFit DEF Byte
<1> QED
  BY <1>1, <1>2, DblAssumption DEF ScoresOK, Scores

Answers(ran) == StoreOK(ran.db) /\ ran.reply \in Replies

LEMMA PlainReplies ==
  /\ Nil \in Replies
  /\ \A e \in Errors : Err(e) \in Replies
  /\ \A v \in Seq(Byte) : Str(v) \in Replies
  /\ \A n \in Nat : Num(n) \in Replies
  /\ \A s \in DOMAIN DblBytes : Dbl(s) \in Replies
BY DEF Replies, Scalars

LEMMA GetOK ==
  ASSUME NEW store, StoreOK(store), NEW k
  PROVE  Answers(Get(store, k))
<1>1. /\ Get(store, k).db = store
      /\ Get(store, k).reply = IF ~Has(store, k) THEN Nil
                               ELSE IF OfType(store, k, "str") THEN Str(store[k].value)
                               ELSE Err("BAD_TYPE")
  BY DEF Get, Answer
<1>2. ASSUME Has(store, k), OfType(store, k, "str") PROVE store[k].value \in Seq(Byte)
  BY <1>2 DEF OfType, Has, StoreOK, EntryOK, Byte
<1>3. "BAD_TYPE" \in Errors
  BY DEF Errors
<1>4. Get(store, k).reply \in Replies
  <2>1. CASE ~Has(store, k)
    BY <1>1, <2>1, PlainReplies
  <2>2. CASE Has(store, k) /\ OfType(store, k, "str")
    BY <1>1, <1>2, <2>2, PlainReplies
  <2>3. CASE Has(store, k) /\ ~OfType(store, k, "str")
    BY <1>1, <1>3, <2>3, PlainReplies
  <2> QED
    BY <2>1, <2>2, <2>3
<1> QED
  BY <1>1, <1>4 DEF Answers

LEMMA SetOK ==
  ASSUME NEW store, StoreOK(store), NEW k \in Seq(Byte), NEW v \in Seq(Byte)
  PROVE  Answers(Set(store, k, v))
<1>1. EntryOK(StrEntry(v))
  BY DEF EntryOK, StrEntry, Byte
<1>2. "BAD_TYPE" \in Errors
  BY DEF Errors
<1>3. CASE OfType(store, k, "str")
  <2>1. Set(store, k, v) = Answer(Put(store, k, StrEntry(v)), Nil)
    BY <1>3 DEF Set
  <2> QED
    BY <1>1, <2>1, PutOK, PlainReplies DEF Answer, Answers
<1>4. CASE ~OfType(store, k, "str")
  <2>1. Set(store, k, v) = Answer(store, Err("BAD_TYPE"))
    BY <1>4 DEF Set
  <2> QED
    BY <1>2, <2>1, PlainReplies DEF Answer, Answers
<1> QED
  BY <1>3, <1>4

LEMMA DelOK ==
  ASSUME NEW store, StoreOK(store), NEW k
  PROVE  Answers(Del(store, k))
<1> DEFINE left == [x \in DOMAIN store \ {k} |-> store[x]]
<1>1. StoreOK(left)
  <2>1. IsFiniteSet(DOMAIN store \ {k})
    BY FS_RemoveElement DEF StoreOK
  <2> QED
    BY <2>1 DEF StoreOK
<1>2. Del(store, k) = Answer(left, Num(IF Has(store, k) THEN 1 ELSE 0))
  BY DEF Del
<1>3. Num(IF Has(store, k) THEN 1 ELSE 0) \in Replies
  BY PlainReplies
<1> QED
  BY <1>1, <1>2, <1>3 DEF Answer, Answers

LEMMA KeysOK ==
  ASSUME NEW store, StoreOK(store)
  PROVE  Answers(Keys(store))
<1> DEFINE n == Cardinality(DOMAIN store)
           All(seq) == \A k \in DOMAIN store : \E i \in DOMAIN seq : seq[i] = k
           names == CHOOSE seq \in [1 .. n -> DOMAIN store] : All(seq)
           items == [i \in DOMAIN names |-> Str(names[i])]
<1>1. n \in Nat /\ \E seq \in [1 .. n -> DOMAIN store] : All(seq)
  <2>1. n \in Nat /\ ExistsBijection(1 .. n, DOMAIN store)
    BY FS_CardinalityType DEF StoreOK
  <2>2. PICK seq : seq \in Bijection(1 .. n, DOMAIN store)
    BY <2>1 DEF ExistsBijection
  <2>3. seq \in Surjection(1 .. n, DOMAIN store)
    BY <2>2 DEF Bijection
  <2>4. seq \in [1 .. n -> DOMAIN store]
        /\ \A k \in DOMAIN store : \E i \in 1 .. n : seq[i] = k
    BY <2>3 DEF Surjection
  <2> QED
    BY <2>1, <2>4
<1>2. names \in [1 .. n -> DOMAIN store]
  BY <1>1
<1>3. Keys(store) = Answer(store, Arr(items))
  BY DEF Keys
<1> HIDE DEF names, n
<1>4. items = [i \in 1 .. n |-> Str(names[i])]
  BY <1>2
<1>5. ASSUME NEW i \in 1 .. n PROVE Str(names[i]) \in Scalars
  <2>1. names[i] \in Seq(Byte)
    BY <1>2 DEF StoreOK, Byte
  <2> QED
    BY <2>1 DEF Scalars
<1>6. Arr(items) \in Replies
  <2> HIDE DEF items
  <2>1. items = [i \in 1 .. n |-> items[i]] /\ \A i \in 1 .. n : items[i] \in Scalars
    BY <1>4, <1>5
  <2> QED
    BY <1>1, <2>1, ItemsAre
<1> QED
  BY <1>3, <1>6 DEF Answer, Answers

LEMMA ScoredOK ==
  ASSUME NEW mem, ScoresOK(mem), NEW n \in Seq(Byte), NEW s \in DOMAIN DblBytes
  PROVE  ScoresOK(Scored(mem, n, s))
<1>1. DOMAIN Scored(mem, n, s) = DOMAIN mem \union {n}
  BY DEF Scored
<1>2. IsFiniteSet(DOMAIN mem \union {n})
  BY FS_AddElement DEF ScoresOK
<1>3. ASSUME NEW m \in DOMAIN mem \union {n}
      PROVE  m \in Seq(Byte) /\ Scored(mem, n, s)[m] \in DOMAIN DblBytes
  BY DEF Scored, ScoresOK, Byte
<1> QED
  BY <1>1, <1>2, <1>3 DEF ScoresOK, Byte

(* A word read as a double, and as an integer. *)
Figures == DOMAIN DblBytes \union {NaN}
Counts  == Int \union {NaN}

LEMMA DoAddOK ==
  ASSUME NEW store, StoreOK(store), NEW k \in Seq(Byte), NEW s \in Figures, NEW n \in Seq(Byte)
  PROVE  Answers(DoAdd(store, k, s, n))
<1>1. CASE s = NaN \/ ~OfType(store, k, "zset")
  <2>1. DoAdd(store, k, s, n) = Answer(store, Err("BAD_ARGUMENT"))
    BY <1>1 DEF DoAdd
  <2>2. "BAD_ARGUMENT" \in Errors
    BY DEF Errors
  <2> QED
    BY <2>1, <2>2, PlainReplies DEF Answer, Answers
<1>2. CASE ~(s = NaN \/ ~OfType(store, k, "zset"))
  <2> DEFINE mem == Members(store, k)
  <2>1. DoAdd(store, k, s, n) = Answer(Put(store, k, ZSetEntry(Scored(mem, n, s))),
                                       Num(IF n \in DOMAIN mem THEN 0 ELSE 1))
    BY <1>2 DEF DoAdd
  <2>2. s \in DOMAIN DblBytes
    BY <1>2 DEF Figures
  <2>3. ScoresOK(Scored(mem, n, s))
    BY <1>2, <2>2, MembersOK, ScoredOK
  <2>4. EntryOK(ZSetEntry(Scored(mem, n, s)))
    BY <2>3 DEF EntryOK, ZSetEntry
  <2>5. StoreOK(Put(store, k, ZSetEntry(Scored(mem, n, s))))
    BY <2>4, PutOK
  <2>6. Num(IF n \in DOMAIN mem THEN 0 ELSE 1) \in Replies
    BY PlainReplies
  <2> QED
    BY <2>1, <2>5, <2>6 DEF Answer, Answers
<1> QED
  BY <1>1, <1>2

LEMMA DoZRemOK ==
  ASSUME NEW store, StoreOK(store), NEW k \in Seq(Byte), NEW n
  PROVE  Answers(DoZRem(store, k, n))
<1> DEFINE mem == Members(store, k)
           left == [m \in DOMAIN mem \ {n} |-> mem[m]]
<1>0. "BAD_TYPE" \in Errors
  BY DEF Errors
<1>1. CASE ~OfType(store, k, "zset")
  <2>1. DoZRem(store, k, n) = Answer(store, Err("BAD_TYPE"))
    BY <1>1 DEF DoZRem
  <2> QED
    BY <1>0, <2>1, PlainReplies DEF Answer, Answers
<1>2. CASE OfType(store, k, "zset") /\ n \in DOMAIN mem
  <2>1. DoZRem(store, k, n) = Answer(Put(store, k, ZSetEntry(left)), Num(1))
    BY <1>2 DEF DoZRem
  <2>2. ScoresOK(mem)
    BY <1>2, MembersOK
  <2>3. ScoresOK(left)
    <3> HIDE DEF mem
    <3>1. IsFiniteSet(DOMAIN mem \ {n})
      BY <2>2, FS_RemoveElement DEF ScoresOK
    <3> QED
      BY <2>2, <3>1 DEF ScoresOK
  <2>4. EntryOK(ZSetEntry(left))
    BY <2>3 DEF EntryOK, ZSetEntry
  <2>5. StoreOK(Put(store, k, ZSetEntry(left)))
    BY <2>4, PutOK
  <2>6. Num(1) \in Replies
    BY PlainReplies
  <2> QED
    BY <2>1, <2>5, <2>6 DEF Answer, Answers
<1>3. CASE OfType(store, k, "zset") /\ n \notin DOMAIN mem
  <2>1. DoZRem(store, k, n) = Answer(store, Num(0))
    BY <1>3 DEF DoZRem
  <2>2. Num(0) \in Replies
    BY PlainReplies
  <2> QED
    BY <2>1, <2>2 DEF Answer, Answers
<1> QED
  BY <1>1, <1>2, <1>3

LEMMA DoZScoreOK ==
  ASSUME NEW store, StoreOK(store), NEW k, NEW n
  PROVE  Answers(DoZScore(store, k, n))
<1> DEFINE mem == Members(store, k)
<1>1. /\ DoZScore(store, k, n).db = store
      /\ DoZScore(store, k, n).reply =
           IF ~OfType(store, k, "zset") THEN Err("BAD_TYPE")
           ELSE IF n \in DOMAIN mem THEN Dbl(mem[n]) ELSE Nil
  BY DEF DoZScore, Answer
<1>2. "BAD_TYPE" \in Errors
  BY DEF Errors
<1>3. ASSUME OfType(store, k, "zset"), n \in DOMAIN mem PROVE mem[n] \in DOMAIN DblBytes
  BY <1>3, MembersOK DEF ScoresOK
<1> HIDE DEF mem
<1>4. CASE ~OfType(store, k, "zset")
  BY <1>1, <1>2, <1>4, PlainReplies DEF Answers
<1>5. CASE OfType(store, k, "zset") /\ n \in DOMAIN mem
  BY <1>1, <1>3, <1>5, PlainReplies DEF Answers
<1>6. CASE OfType(store, k, "zset") /\ n \notin DOMAIN mem
  BY <1>1, <1>6, PlainReplies DEF Answers
<1> QED
  BY <1>4, <1>5, <1>6

LEMMA DoZRankOK ==
  ASSUME NEW store, StoreOK(store), NEW k, NEW n \in Seq(Byte)
  PROVE  Answers(DoZRank(store, k, n))
<1> DEFINE mem == Members(store, k)
<1>1. /\ DoZRank(store, k, n).db = store
      /\ DoZRank(store, k, n).reply =
           IF ~OfType(store, k, "zset") THEN Err("BAD_TYPE")
           ELSE IF n \in DOMAIN mem THEN Num(Rank(mem, mem[n], n)) ELSE Err("NOT_FOUND")
  BY DEF DoZRank, Answer
<1>2. "BAD_TYPE" \in Errors /\ "NOT_FOUND" \in Errors
  BY DEF Errors
<1>3. ASSUME OfType(store, k, "zset"), n \in DOMAIN mem PROVE Rank(mem, mem[n], n) \in Nat
  <2>1. Scores(mem) /\ n \in Name
    BY <1>3, MembersOK, LettersFit
  <2>2. mem[n] \in Int /\ Cardinality(DOMAIN mem) \in Nat
    BY <1>3, <2>1, FS_CardinalityType DEF Scores
  <2> HIDE DEF mem
  <2>3. Rank(mem, mem[n], n) \in 0 .. Cardinality(DOMAIN mem)
    BY <2>1, <2>2, RankBounded
  <2> QED
    BY <2>2, <2>3
<1> HIDE DEF mem
<1>4. CASE ~OfType(store, k, "zset")
  BY <1>1, <1>2, <1>4, PlainReplies DEF Answers
<1>5. CASE OfType(store, k, "zset") /\ n \in DOMAIN mem
  BY <1>1, <1>3, <1>5, PlainReplies DEF Answers
<1>6. CASE OfType(store, k, "zset") /\ n \notin DOMAIN mem
  BY <1>1, <1>2, <1>6, PlainReplies DEF Answers
<1> QED
  BY <1>4, <1>5, <1>6

LEMMA DoZQueryOK ==
  ASSUME NEW store, StoreOK(store), NEW k, NEW n \in Seq(Byte),
         NEW s \in Figures, NEW offset \in Counts, NEW limit \in Counts
  PROVE  Answers(DoZQuery(store, k, s, n, offset, limit))
<1> DEFINE mem  == Members(store, k)
           page == Query(mem, s, n, offset, (limit + 1) \div 2)
           flat == [i \in 1 .. 2 * Len(page) |->
                      IF i % 2 = 1 THEN Str(page[(i + 1) \div 2])
                                   ELSE Dbl(mem[page[i \div 2]])]
           ran == DoZQuery(store, k, s, n, offset, limit)
<1>1. /\ ran.db = store
      /\ ran.reply = IF NaN \in {s, offset, limit} THEN Err("BAD_ARGUMENT")
                     ELSE IF ~OfType(store, k, "zset") THEN Err("BAD_TYPE")
                     ELSE IF limit <= 0 THEN Arr(<<>>)
                     ELSE Arr(flat)
  BY DEF DoZQuery, Answer
<1>2. "BAD_TYPE" \in Errors /\ "BAD_ARGUMENT" \in Errors
  BY DEF Errors
<1>3. ASSUME NaN \notin {s, offset, limit}, OfType(store, k, "zset"), ~(limit <= 0)
      PROVE  Arr(flat) \in Replies
  <2>1. s \in Int /\ offset \in Int /\ limit \in Int
    BY <1>3, DblAssumption DEF Figures, Counts
  <2>2. (limit + 1) \div 2 \in Nat
    BY <1>3, <2>1
  <2>3. ScoresOK(mem) /\ Scores(mem) /\ n \in Name
    BY <1>3, MembersOK, LettersFit
  <2>4. page \in Seq(DOMAIN mem)
    <3> DEFINE number == (limit + 1) \div 2
    <3>1. number \in Nat
      BY <2>2
    <3> HIDE DEF mem, number
    <3>2. Query(mem, s, n, offset, number) \in Seq(DOMAIN mem)
      BY <2>1, <2>3, <3>1, PageOfMembers
    <3> QED
      BY <3>2 DEF number
  <2> HIDE DEF page, mem
  <2>5. Len(page) \in Nat /\ \A j \in 1 .. Len(page) : page[j] \in DOMAIN mem
    BY <2>4, LenProperties, ElementOfSeq
  <2>6. ASSUME NEW j \in 1 .. Len(page)
        PROVE  Str(page[j]) \in Scalars /\ Dbl(mem[page[j]]) \in Scalars
    <3>1. page[j] \in Seq(Byte) /\ mem[page[j]] \in DOMAIN DblBytes
      BY <2>3, <2>5 DEF ScoresOK, Byte
    <3> QED
      BY <3>1 DEF Scalars
  <2>7. ASSUME NEW i \in 1 .. 2 * Len(page) PROVE flat[i] \in Scalars
    <3>1. CASE i % 2 = 1
      <4>1. (i + 1) \div 2 \in 1 .. Len(page)
        BY <2>5, <3>1
      <4> QED
        BY <2>6, <3>1, <4>1
    <3>2. CASE i % 2 # 1
      <4>1. i \div 2 \in 1 .. Len(page)
        BY <2>5, <3>2
      <4> QED
        BY <2>6, <3>2, <4>1
    <3> QED
      BY <3>1, <3>2
  <2> DEFINE m == 2 * Len(page)
  <2>8. m \in Nat /\ flat = [i \in 1 .. m |-> flat[i]]
    BY <2>5
  <2> HIDE DEF flat
  <2>9. \A i \in 1 .. m : flat[i] \in Scalars
    BY <2>7
  <2> HIDE DEF m
  <2> QED
    BY <2>8, <2>9, ItemsAre
<1>4. Arr(<<>>) \in Replies
  BY EmptySeq DEF Replies
<1> HIDE DEF flat, ran
<1> SUFFICES ran.reply \in Replies
  BY <1>1 DEF Answers, ran
<1>5. CASE NaN \in {s, offset, limit}
  <2>1. ran.reply = Err("BAD_ARGUMENT")
    BY <1>1, <1>5
  <2> QED
    BY <1>2, <2>1, PlainReplies
<1>6. CASE NaN \notin {s, offset, limit} /\ ~OfType(store, k, "zset")
  <2>1. ran.reply = Err("BAD_TYPE")
    BY <1>1, <1>6
  <2> QED
    BY <1>2, <2>1, PlainReplies
<1>7. CASE NaN \notin {s, offset, limit} /\ OfType(store, k, "zset") /\ limit <= 0
  <2>1. ran.reply = Arr(<<>>)
    BY <1>1, <1>7
  <2> QED
    BY <1>4, <2>1
<1>8. CASE NaN \notin {s, offset, limit} /\ OfType(store, k, "zset") /\ ~(limit <= 0)
  <2>1. ran.reply = Arr(flat)
    BY <1>1, <1>8
  <2> QED
    BY <1>3, <1>8, <2>1
<1> QED
  BY <1>5, <1>6, <1>7, <1>8

(* What try_one_request runs. *)
LEMMA RunOK ==
  ASSUME NEW store, StoreOK(store), NEW words \in Seq(Seq(Byte))
  PROVE  Answers(DoRequest(store, Command(words)))
<1> DEFINE cmd == Command(words)
           n == Len(words)
           ran == DoRequest(store, cmd)
<1>1. words \in [1 .. n -> Seq(Byte)] /\ n \in Nat
  BY LenProperties
<1>2. cmd = [i \in 1 .. n |-> IF i = 1 THEN Named(words[1])
                              ELSE IF IsDouble(Named(words[1]), i)
                                THEN Parsed(Double, words[i])
                              ELSE IF IsInteger(Named(words[1]), i)
                                THEN Parsed(Integer, words[i])
                              ELSE words[i]]
  BY <1>1 DEF Command
<1>3. Len(cmd) = n
  BY <1>1, <1>2
<1>4. \A w : Parsed(Double, w) \in Figures /\ Parsed(Integer, w) \in Counts
  BY CliAssumption DEF Parsed, Figures, Counts
<1>5. ASSUME NEW i \in 2 .. n, ~IsDouble(cmd[1], i), ~IsInteger(cmd[1], i)
      PROVE  cmd[i] \in Seq(Byte)
  BY <1>1, <1>2, <1>5
<1>6. ASSUME NEW i \in 2 .. n
      PROVE  /\ IsDouble(cmd[1], i) => cmd[i] \in Figures
             /\ IsInteger(cmd[1], i) => cmd[i] \in Counts
  <2>1. ~(IsDouble(cmd[1], i) /\ IsInteger(cmd[1], i))
    BY DEF IsDouble, IsInteger
  <2> QED
    BY <1>1, <1>2, <1>4, <2>1
<1> SUFFICES Answers(ran)
  OBVIOUS
<1> HIDE DEF cmd, ran, n
<1>7. CASE Is(cmd, "GET", 2)
  <2>1. ran = Get(store, cmd[2])
    BY <1>7 DEF ran, DoRequest, Is
  <2> QED
    BY <2>1, GetOK
<1>8. CASE Is(cmd, "SET", 3)
  <2>1. ran = Set(store, cmd[2], cmd[3])
    BY <1>8 DEF ran, DoRequest, Is
  <2>2. cmd[2] \in Seq(Byte) /\ cmd[3] \in Seq(Byte)
    BY <1>3, <1>5, <1>8 DEF Is, IsDouble, IsInteger
  <2> QED
    BY <2>1, <2>2, SetOK
<1>9. CASE Is(cmd, "DEL", 2)
  <2>1. ran = Del(store, cmd[2])
    BY <1>9 DEF ran, DoRequest, Is
  <2> QED
    BY <2>1, DelOK
<1>10. CASE Is(cmd, "KEYS", 1)
  <2>1. ran = Keys(store)
    BY <1>10 DEF ran, DoRequest, Is
  <2> QED
    BY <2>1, KeysOK
<1>11. CASE Is(cmd, "ZADD", 4)
  <2>1. ran = DoAdd(store, cmd[2], cmd[3], cmd[4])
    BY <1>11 DEF ran, DoRequest, Is
  <2>2. cmd[2] \in Seq(Byte) /\ cmd[4] \in Seq(Byte)
    BY <1>3, <1>5, <1>11 DEF Is, IsDouble, IsInteger
  <2>3. cmd[3] \in Figures
    BY <1>3, <1>6, <1>11 DEF Is, IsDouble
  <2> QED
    BY <2>1, <2>2, <2>3, DoAddOK
<1>12. CASE Is(cmd, "ZSCORE", 3)
  <2>1. ran = DoZScore(store, cmd[2], cmd[3])
    BY <1>12 DEF ran, DoRequest, Is
  <2> QED
    BY <2>1, DoZScoreOK
<1>13. CASE Is(cmd, "ZRANK", 3)
  <2>1. ran = DoZRank(store, cmd[2], cmd[3])
    BY <1>13 DEF ran, DoRequest, Is
  <2>2. cmd[3] \in Seq(Byte)
    BY <1>3, <1>5, <1>13 DEF Is, IsDouble, IsInteger
  <2> QED
    BY <2>1, <2>2, DoZRankOK
<1>14. CASE Is(cmd, "ZQUERY", 6)
  <2>1. ran = DoZQuery(store, cmd[2], cmd[3], cmd[4], cmd[5], cmd[6])
    BY <1>14 DEF ran, DoRequest, Is
  <2>2. cmd[4] \in Seq(Byte)
    BY <1>3, <1>5, <1>14 DEF Is, IsDouble, IsInteger
  <2>3. cmd[3] \in Figures
    BY <1>3, <1>6, <1>14 DEF Is, IsDouble
  <2>4. cmd[5] \in Counts /\ cmd[6] \in Counts
    BY <1>3, <1>6, <1>14 DEF Is, IsInteger
  <2> QED
    BY <2>1, <2>2, <2>3, <2>4, DoZQueryOK
<1>15. CASE Is(cmd, "ZREM", 3)
  <2>1. ran = DoZRem(store, cmd[2], cmd[3])
    BY <1>15 DEF ran, DoRequest, Is
  <2>2. cmd[2] \in Seq(Byte)
    BY <1>3, <1>5, <1>15 DEF Is, IsDouble, IsInteger
  <2> QED
    BY <2>1, <2>2, DoZRemOK
<1>16. CASE /\ ~Is(cmd, "GET", 2) /\ ~Is(cmd, "SET", 3) /\ ~Is(cmd, "DEL", 2)
            /\ ~Is(cmd, "KEYS", 1) /\ ~Is(cmd, "ZADD", 4) /\ ~Is(cmd, "ZSCORE", 3)
            /\ ~Is(cmd, "ZRANK", 3) /\ ~Is(cmd, "ZQUERY", 6) /\ ~Is(cmd, "ZREM", 3)
  <2>1. ran = Answer(store, Err("UNKNOWN"))
    BY <1>16 DEF ran, DoRequest
  <2>2. "UNKNOWN" \in Errors
    BY DEF Errors
  <2> QED
    BY <2>1, <2>2, PlainReplies DEF Answer, Answers
<1> QED
  BY <1>7, <1>8, <1>9, <1>10, <1>11, <1>12, <1>13, <1>14, <1>15, <1>16

-----------------------------------------------------------------------------
(* The stream to the server: requests that were typed, one after another.   *)

Sendable == {words \in Lines \ {<<>>, <<Exit>>} : Fits(words)}

Closed(A) == <<>> \in A /\ \A words \in Sendable, s \in A : Frame(Body(words)) \o s \in A

(* The smallest closed set. *)
Stream == {data \in Seq(Byte) : \A A \in SUBSET Seq(Byte) : Closed(A) => data \in A}

LEMMA FrameBytes ==
  ASSUME NEW body \in Seq(Byte)
  PROVE  /\ Frame(body) \in Seq(Byte) /\ Len(body) \in Nat
         /\ Len(Frame(body)) = 4 + Len(body)
<1> DEFINE u == U32(Len(body))
<1>1. Len(body) \in Nat /\ u \in Seq(Byte) /\ Len(u) = 4
  BY LenProperties, U32Bytes
<1> HIDE DEF u
<1>2. u \o body \in Seq(Byte) /\ Len(u \o body) = Len(u) + Len(body)
  BY <1>1, Concat
<1> QED
  BY <1>1, <1>2 DEF Frame, u

(* A message at the head of a stream, and what is after it. *)
LEMMA FrameRead ==
  ASSUME NEW body \in Seq(Byte), Len(body) \in Words32, NEW s \in Seq(Byte)
  PROVE  /\ Whole(Frame(body) \o s)
         /\ U32At(Frame(body) \o s, 0) = Len(body)
         /\ Bytes(Frame(body) \o s, 4, Len(body)) = body
         /\ From(Frame(body) \o s, 4 + Len(body)) = s
<1> DEFINE u == U32(Len(body))
           f == Frame(body)
           data == f \o s
           n == Len(body)
<1>1. /\ u \in Seq(Byte) /\ Len(u) = 4 /\ n \in Nat
      /\ f \in Seq(Byte) /\ Len(f) = 4 + n /\ f = u \o body
  BY U32Bytes, FrameBytes DEF Frame
<1> HIDE DEF f, u
<1>2. data \in Seq(Byte) /\ Len(data) \in Nat /\ Len(data) >= 4 + n
  BY <1>1, Concat, LenProperties
<1>3. Holds(data, 0, f)
  <2>1. Holds(data, 0, data)
    BY <1>2, HoldsItself
  <2> QED
    BY <1>1, <1>2, <2>1, HoldsParts
<1>4. From(data, Len(f)) = s
  BY <1>1, RestAfter
<1> HIDE DEF data
<1>5. Holds(data, 0, u) /\ Holds(data, 0 + Len(u), body)
  BY <1>1, <1>2, <1>3, HoldsParts
<1>6. Holds(data, 4, body)
  BY <1>1, <1>5
<1>7. U32At(data, 0) = n
  BY <1>2, <1>5, U32Read DEF u
<1>8. Bytes(data, 4, n) = body
  BY <1>2, <1>6, HoldsBytes
<1>9. Whole(data)
  BY <1>1, <1>2, <1>7 DEF Whole
<1> QED
  BY <1>1, <1>4, <1>7, <1>8, <1>9 DEF data, f

LEMMA FrameAlone ==
  ASSUME NEW body \in Seq(Byte), Len(body) \in Words32
  PROVE  /\ Whole(Frame(body)) /\ U32At(Frame(body), 0) = Len(body)
         /\ Bytes(Frame(body), 4, Len(body)) = body
         /\ From(Frame(body), 4 + Len(body)) = <<>>
         /\ From(Frame(body), 4) = body
<1>1. <<>> \in Seq(Byte)
  BY EmptySeq
<1>2. Frame(body) \o <<>> = Frame(body)
  BY FrameBytes, ConcatEmptySeq
<1>3. U32(Len(body)) \in Seq(Byte) /\ Len(U32(Len(body))) = 4
  BY LenProperties, U32Bytes
<1>4. From(Frame(body), 4) = body
  BY <1>3, RestAfter DEF Frame
<1> QED
  BY <1>1, <1>2, <1>4, FrameRead

LEMMA SendableBytes ==
  ASSUME NEW words \in Sendable
  PROVE  /\ words \in Seq(Seq(Byte)) /\ words \in Lines
         /\ Body(words) \in Seq(Byte) /\ Len(Body(words)) \in Words32
         /\ Len(words) <= k_max_args /\ k_max_args \in Nat
         /\ Frame(Body(words)) \in Seq(Byte)
<1>1. words \in Seq(Seq(Byte)) /\ words \in Lines /\ Len(Body(words)) <= ClientMax
  BY CliAssumption DEF Sendable, Fits, Byte
<1> DEFINE m == Len(Body(words))
           n == Len(words)
<1>2. Body(words) \in Seq(Byte) /\ m \in Nat /\ n \in Nat /\ 4 + 4 * n <= m
  BY <1>1, BodyBytes
<1>3. m <= ClientMax
  BY <1>1
<1> HIDE DEF m, n
<1>4. m \in Words32
  <2>1. ServerMax \in Words32 /\ ClientMax \in Nat /\ ServerMax \in Nat /\ ClientMax <= ServerMax
    BY LimitsAssumption DEF Words32
  <2>2. m <= ServerMax
    BY <1>2, <1>3, <2>1
  <2> QED
    BY <1>2, <2>1, <2>2, SmallerFits
<1>5. n <= k_max_args /\ k_max_args \in Nat
  BY <1>2, <1>3, LimitsAssumption
<1> QED
  BY <1>1, <1>2, <1>4, <1>5, FrameBytes DEF m, n

LEMMA StreamEmpty == <<>> \in Stream
BY EmptySeq DEF Stream, Closed

LEMMA StreamGrows ==
  ASSUME NEW words \in Sendable, NEW s \in Stream
  PROVE  Frame(Body(words)) \o s \in Stream
<1>1. Frame(Body(words)) \o s \in Seq(Byte)
  BY SendableBytes, Concat DEF Stream
<1>2. ASSUME NEW A \in SUBSET Seq(Byte), Closed(A) PROVE Frame(Body(words)) \o s \in A
  BY <1>2 DEF Stream, Closed
<1> QED
  BY <1>1, <1>2 DEF Stream

LEMMA StreamHead ==
  ASSUME NEW data \in Stream, data # <<>>
  PROVE  \E words \in Sendable, s \in Stream : data = Frame(Body(words)) \o s
<1> DEFINE A == {d \in Stream : d = <<>> \/ \E words \in Sendable, s \in Stream :
                                                d = Frame(Body(words)) \o s}
<1>1. A \in SUBSET Seq(Byte)
  BY DEF Stream
<1>2. Closed(A)
  <2>1. <<>> \in A
    BY StreamEmpty
  <2>2. ASSUME NEW words \in Sendable, NEW s \in A PROVE Frame(Body(words)) \o s \in A
    BY StreamGrows
  <2> HIDE DEF A
  <2> QED
    BY <2>1, <2>2 DEF Closed
<1>3. data \in A
  <2> HIDE DEF A
  <2> QED
    BY <1>1, <1>2 DEF Stream
<1> QED
  BY <1>3

LEMMA StreamAppends ==
  ASSUME NEW data \in Stream, NEW words \in Sendable
  PROVE  data \o Frame(Body(words)) \in Stream
<1> DEFINE last == Frame(Body(words))
           A == {d \in Seq(Byte) : d \o last \in Stream}
<1>1. last \in Seq(Byte)
  BY SendableBytes
<1>2. Closed(A)
  <2>1. <<>> \in A
    <3>1. last \o <<>> = last /\ <<>> \o last = last /\ <<>> \in Seq(Byte)
      BY <1>1, ConcatEmptySeq, EmptySeq
    <3>2. last \o <<>> \in Stream
      BY StreamEmpty, StreamGrows
    <3> HIDE DEF last
    <3> QED
      BY <3>1, <3>2
  <2>2. ASSUME NEW first \in Sendable, NEW s \in A PROVE Frame(Body(first)) \o s \in A
    <3> DEFINE f == Frame(Body(first))
    <3>1. f \in Seq(Byte) /\ s \in Seq(Byte) /\ s \o last \in Stream
      BY SendableBytes
    <3>2. f \o (s \o last) \in Stream
      BY <3>1, StreamGrows
    <3> HIDE DEF f, last
    <3>3. (f \o s) \o last = f \o (s \o last) /\ f \o s \in Seq(Byte)
      BY <1>1, <3>1, ConcatAssociative, Concat
    <3>4. f \o s \in A
      BY <3>2, <3>3
    <3> QED
      BY <3>4 DEF f
  <2> HIDE DEF A
  <2> QED
    BY <2>1, <2>2 DEF Closed
<1>3. A \in SUBSET Seq(Byte)
  OBVIOUS
<1>4. data \in A
  <2> HIDE DEF A
  <2> QED
    BY <1>2, <1>3 DEF Stream
<1> QED
  BY <1>4

(* The request the server takes from a stream, and what it leaves. *)
LEMMA StreamServed ==
  ASSUME NEW data \in Stream, Whole(data)
  PROVE  \E words \in Sendable, s \in Stream :
           /\ U32At(data, 0) = Len(Body(words))
           /\ Bytes(data, 4, U32At(data, 0)) = Body(words)
           /\ ParseRequest(Bytes(data, 4, U32At(data, 0))) = [ok |-> TRUE, words |-> words]
           /\ From(data, 4 + U32At(data, 0)) = s
<1>1. data # <<>>
  BY EmptySeq DEF Whole
<1>2. \E words \in Sendable, s \in Stream : data = Frame(Body(words)) \o s
  BY <1>1, StreamHead
<1>3. PICK words \in Sendable, s \in Stream : data = Frame(Body(words)) \o s
  BY <1>2
<1>4. /\ words \in Seq(Seq(Byte)) /\ Body(words) \in Seq(Byte) /\ Len(Body(words)) \in Words32
      /\ Len(words) <= k_max_args /\ k_max_args \in Nat /\ s \in Seq(Byte)
  BY SendableBytes DEF Stream
<1> DEFINE body == Body(words)
<1>5. ParseRequest(body) = [ok |-> TRUE, words |-> words]
  BY <1>4, RequestRead
<1> HIDE DEF body
<1>6. body \in Seq(Byte) /\ Len(body) \in Words32 /\ data = Frame(body) \o s
  BY <1>3, <1>4 DEF body
<1>7. /\ U32At(data, 0) = Len(body) /\ Bytes(data, 4, Len(body)) = body
      /\ From(data, 4 + Len(body)) = s
  BY <1>4, <1>6, FrameRead
<1> QED
  BY <1>5, <1>7 DEF body

-----------------------------------------------------------------------------
(* What is read back, of a store and a stream.                              *)

LEMMA AnyReplyReadBack ==
  ASSUME NEW reply \in Replies
  PROVE  ReadBack(reply) /\ ReadBack(Capped(reply))
<1>1. ASSUME NEW r \in Replies PROVE ReadBack(r)
  <2>1. CASE Len(Out(r)) \div 65536 < 65536
    <3>1. Len(Out(r)) \in Words32
      BY <2>1, ReplyBytes DEF Words32
    <3> QED
      BY <3>1, ReplyRead DEF ReadBack
  <2>2. CASE ~(Len(Out(r)) \div 65536 < 65536)
    BY <2>2 DEF ReadBack
  <2> QED
    BY <2>1, <2>2
<1> QED
  BY <1>1, CappedReply

LEMMA AnyRequestReadBack ==
  ASSUME NEW data \in Stream, Whole(data), NEW body, body = Bytes(data, 4, U32At(data, 0))
  PROVE  /\ ParseRequest(body).ok /\ ParseRequest(body).words \in Lines
         /\ Body(ParseRequest(body).words) = body
         /\ \A n \in 0 .. Len(body) - 1 : ~ParseRequest(Bytes(body, 0, n)).ok
         /\ \A b \in {0, 97} : ~ParseRequest(Append(body, b)).ok
<1>1. \E words \in Sendable :
        body = Body(words) /\ ParseRequest(body) = [ok |-> TRUE, words |-> words]
  BY StreamServed
<1>2. PICK words \in Sendable :
        body = Body(words) /\ ParseRequest(body) = [ok |-> TRUE, words |-> words]
  BY <1>1
<1>3. /\ words \in Seq(Seq(Byte)) /\ words \in Lines
      /\ body \in Seq(Byte) /\ Len(Body(words)) \in Words32 /\ Len(body) \in Nat
  BY <1>2, SendableBytes DEF Words32
<1>4. ASSUME NEW n \in 0 .. Len(body) - 1 PROVE ~ParseRequest(Bytes(body, 0, n)).ok
  <2> DEFINE cut == Bytes(body, 0, n)
  <2>1. Len(cut) = n /\ \A i \in 1 .. n : cut[i] = body[i]
    <3>1. n \in Nat /\ 0 + 1 \in Int /\ 0 + n \in Int /\ \A i \in 0 + 1 .. 0 + n : body[i] \in Byte
      BY <1>3, ElementOfSeq
    <3>2. /\ Len(SubSeq(body, 0 + 1, 0 + n)) = IF 0 + 1 <= 0 + n THEN (0 + n) - (0 + 1) + 1 ELSE 0
          /\ \A i \in 1 .. (0 + n) - (0 + 1) + 1 :
               SubSeq(body, 0 + 1, 0 + n)[i] = body[(0 + 1) + i - 1]
      BY <3>1, SubSeqProperties
    <3>3. (0 + n) - (0 + 1) + 1 = n /\ (0 + 1 <= 0 + n <=> 1 <= n)
      BY <3>1
    <3>4. \A i \in 1 .. n : (0 + 1) + i - 1 = i
      OBVIOUS
    <3>5. cut = SubSeq(body, 0 + 1, 0 + n)
      BY DEF Bytes
    <3> HIDE DEF cut
    <3>6. Len(cut) = n
      BY <3>1, <3>2, <3>3, <3>5
    <3>7. \A i \in 1 .. n : cut[i] = body[i]
      BY <3>2, <3>3, <3>4, <3>5
    <3> QED
      BY <3>6, <3>7
  <2> HIDE DEF cut
  <2>2. Agrees(cut, words) /\ Len(cut) # Len(Body(words)) /\ Len(cut) \in Nat
    BY <1>2, <1>3, <2>1 DEF Agrees
  <2>3. ~ParseRequest(cut).ok
    BY <1>3, <2>2, RequestRefused
  <2> QED
    BY <2>3 DEF cut
<1>5. ASSUME NEW b \in {0, 97} PROVE ~ParseRequest(Append(body, b)).ok
  <2> DEFINE more == Append(body, b)
  <2>1. b \in Byte
    BY DEF Byte
  <2>2. Len(more) = Len(body) + 1 /\ \A i \in 1 .. Len(body) : more[i] = body[i]
    BY <1>3, <2>1, AppendProperties
  <2> HIDE DEF more
  <2>3. Agrees(more, words) /\ Len(more) # Len(Body(words)) /\ Len(more) \in Nat
    BY <1>2, <1>3, <2>2 DEF Agrees
  <2>4. ~ParseRequest(more).ok
    BY <1>3, <2>3, RequestRefused
  <2> QED
    BY <2>4 DEF more
<1> QED
  BY <1>2, <1>3, <1>4, <1>5

(* What try_one_request does with a request of a stream. *)
LEMMA RequestServed ==
  ASSUME NEW store, StoreOK(store), NEW words \in Sendable
  PROVE  LET ran == DoRequest(store, Command(words))
         IN /\ StoreOK(ran.db) /\ Capped(ran.reply) \in Replies
            /\ Len(Out(Capped(ran.reply))) \in Words32
            /\ Out(Capped(ran.reply)) \in Seq(Byte)
            /\ EndResponse(ran.reply) = Frame(Out(Capped(ran.reply)))
            /\ EndResponse(ran.reply) \in Seq(Byte)
<1> DEFINE ran == DoRequest(store, Command(words))
<1>1. Answers(ran)
  BY SendableBytes, RunOK
<1> HIDE DEF ran
<1>2. StoreOK(ran.db) /\ ran.reply \in Replies
  BY <1>1 DEF Answers
<1>3. Capped(ran.reply) \in Replies /\ Len(Out(Capped(ran.reply))) \in Words32
  BY <1>2, CappedReply
<1>4. Out(Capped(ran.reply)) \in Seq(Byte)
  BY <1>3, ReplyBytes
<1>5. EndResponse(ran.reply) = Frame(Out(Capped(ran.reply)))
  BY DEF EndResponse
<1>6. EndResponse(ran.reply) \in Seq(Byte)
  BY <1>4, <1>5, FrameBytes
<1> QED
  BY <1>2, <1>3, <1>4, <1>5, <1>6 DEF ran

LEMMA U32AtIsNat ==
  ASSUME NEW data \in Seq(Byte), Len(data) >= 4
  PROVE  U32At(data, 0) \in Nat
<1>1. Len(data) \in Nat
  BY LenProperties
<1>2. data[1] \in Byte /\ data[2] \in Byte /\ data[3] \in Byte /\ data[4] \in Byte
  BY <1>1, ElementOfSeq
<1>3. \A b \in Byte : b \in Nat
  BY DEF Byte
<1> DEFINE p == data[1]
           q == data[2]
           r == data[3]
           t == data[4]
<1>4. p \in Nat /\ q \in Nat /\ r \in Nat /\ t \in Nat
  BY <1>2, <1>3
<1>5. U32At(data, 0) = p + 256 * q + 65536 * r + 16777216 * t
  BY DEF U32At
<1> HIDE DEF p, q, r, t
<1>6. p + 256 * q + 65536 * r + 16777216 * t \in Nat
  BY <1>4
<1> QED
  BY <1>5, <1>6

LEMMA FromBytes ==
  ASSUME NEW data \in Seq(Byte), NEW pos \in Nat
  PROVE  From(data, pos) \in Seq(Byte)
<1>1. Len(data) \in Nat
  BY LenProperties
<1>2. pos + 1 \in Int /\ Len(data) \in Int /\ \A i \in pos + 1 .. Len(data) : data[i] \in Byte
  BY <1>1, ElementOfSeq
<1> QED
  BY <1>2, SubSeqProperties DEF From

(* A body read as a whole. *)
LEMMA WholeBodyRead ==
  ASSUME NEW data \in Seq(Byte)
  PROVE  Bytes(data, 0, Len(data)) = data /\ From(data, Len(data)) = <<>>
<1>1. Bytes(data, 0, Len(data)) = data
  BY HoldsItself, HoldsBytes
<1>2. data \o <<>> = data /\ <<>> \in Seq(Byte)
  BY ConcatEmptySeq, EmptySeq
<1>3. From(data \o <<>>, Len(data)) = <<>>
  BY <1>2, RestAfter
<1> QED
  BY <1>1, <1>2, <1>3

-----------------------------------------------------------------------------
(* The inductive invariant.  TLC cannot evaluate it, for Stream is a set of  *)
(* sequences of any length: its parts are what InStep and NoWaitInVain say   *)
(* with what they leave open, the bytes between a request and its reply.     *)

(* The replies that are sent: their length fits its four bytes. *)
Sent == {reply \in Replies : Len(Out(reply)) \in Words32}

Types ==
  /\ toServer \in [Client -> Stream] /\ toClient \in [Client -> Seq(Byte)]
  /\ pc \in [Client -> {"prompt", "header", "body", "closed", "crashed"}]
  /\ need \in [Client -> Nat] /\ owed \in [Client -> Sent]
  /\ shown = [c \in Client |-> shown[c]]
  /\ unsent \subseteq Client /\ lost \subseteq Client /\ typed \in 0 .. MaxTyped

Room == \A c \in Client : pc[c] = "body" => need[c] <= ClientMax

Settled(c) == toServer[c] = <<>> /\ toClient[c] = <<>> /\ shown[c] = Seen(owed[c])

Asked(c) == (\E words \in Sendable : toServer[c] = Frame(Body(words))) /\ toClient[c] = <<>>

Replied(c) == toServer[c] = <<>> /\ toClient[c] = Frame(Out(owed[c]))

HalfRead(c) == /\ toServer[c] = <<>> /\ toClient[c] = Out(owed[c])
               /\ need[c] = Len(Out(owed[c]))

Stage(c) ==
  /\ pc[c] = "prompt" => Settled(c)
  /\ pc[c] = "header" => Asked(c) \/ Replied(c)
  /\ pc[c] = "body"   => HalfRead(c)

IInv ==
  /\ StoreOK(db) /\ Types /\ Room
  /\ \A c \in Client \ (unsent \union lost) : Stage(c)

LEMMA InitIInv == Init => IInv
<1> SUFFICES ASSUME Init PROVE IInv
  OBVIOUS
<1>1. /\ db \in Stores /\ toServer = [c \in Client |-> <<>>] /\ toClient = [c \in Client |-> <<>>]
      /\ pc = [c \in Client |-> "prompt"] /\ need = [c \in Client |-> 0]
      /\ owed = [c \in Client |-> Nil] /\ shown = [c \in Client |-> Nil]
      /\ unsent = {} /\ lost = {} /\ typed = 0
  BY DEF Init
<1>2. StoreOK(db)
  BY <1>1, CliAssumption
<1>3. Nil \in Sent /\ Seen(Nil) = Nil
  <2>1. Nil \in Replies /\ Nil.tag # "arr" /\ OutScalar(Nil) = << 0 >> /\ SeenScalar(Nil) = Nil
    BY PlainReplies, ScalarForms DEF Nil
  <2>2. Out(Nil) = << 0 >> /\ Seen(Nil) = Nil
    BY <2>1 DEF Out, Seen
  <2>3. Len(<< 0 >>) = 1 /\ 1 \in Words32
    BY DEF Words32
  <2> QED
    BY <2>1, <2>2, <2>3 DEF Sent
<1>4. Types
  <2>1. toServer \in [Client -> Stream] /\ toClient \in [Client -> Seq(Byte)]
    BY <1>1, StreamEmpty, EmptySeq
  <2>2. pc \in [Client -> {"prompt", "header", "body", "closed", "crashed"}]
        /\ need \in [Client -> Nat]
    BY <1>1
  <2>3. owed \in [Client -> Sent] /\ shown = [c \in Client |-> shown[c]]
    BY <1>1, <1>3
  <2>4. unsent \subseteq Client /\ lost \subseteq Client /\ typed \in 0 .. MaxTyped
    BY <1>1, CliAssumption
  <2> QED
    BY <2>1, <2>2, <2>3, <2>4 DEF Types
<1>5. Room
  BY <1>1 DEF Room
<1>6. ASSUME NEW c \in Client PROVE Stage(c)
  BY <1>1, <1>3 DEF Stage, Settled
<1> QED
  BY <1>2, <1>4, <1>5, <1>6 DEF IInv

LEMMA StageKept ==
  ASSUME NEW c, Stage(c),
         toServer'[c] = toServer[c], toClient'[c] = toClient[c], pc'[c] = pc[c],
         need'[c] = need[c], owed'[c] = owed[c], shown'[c] = shown[c]
  PROVE  Stage(c)'
BY DEF Stage, Settled, Asked, Replied, HalfRead

LEMMA ServeKeeps ==
  ASSUME IInv, NEW c \in Client, Serve(c)
  PROVE  IInv'
<1> DEFINE data == toServer[c]
           len == U32At(data, 0)
           run == Run(ParseRequest(Bytes(data, 4, len)).words)
           reply == Capped(run.reply)
<1>1. /\ Whole(data) /\ db' = run.db
      /\ toServer' = [toServer EXCEPT ![c] = From(data, 4 + len)]
      /\ toClient' = [toClient EXCEPT ![c] = toClient[c] \o EndResponse(run.reply)]
      /\ owed' = [owed EXCEPT ![c] = reply]
      /\ pc' = pc /\ need' = need /\ shown' = shown /\ unsent' = unsent /\ lost' = lost
      /\ typed' = typed
  BY DEF Serve
<1>2. data \in Stream /\ Types /\ Room /\ StoreOK(db)
  BY DEF IInv, Types
<1>3. \E words \in Sendable, s \in Stream :
        ParseRequest(Bytes(data, 4, len)) = [ok |-> TRUE, words |-> words]
        /\ From(data, 4 + len) = s
  BY <1>1, <1>2, StreamServed
<1>4. PICK words \in Sendable, s \in Stream :
        ParseRequest(Bytes(data, 4, len)) = [ok |-> TRUE, words |-> words]
        /\ From(data, 4 + len) = s
  BY <1>3
<1>5. run = DoRequest(db, Command(words))
  BY <1>4 DEF Run
<1>6. /\ StoreOK(run.db) /\ reply \in Sent
      /\ EndResponse(run.reply) = Frame(Out(reply)) /\ EndResponse(run.reply) \in Seq(Byte)
  BY <1>2, <1>5, RequestServed DEF Sent
<1> DEFINE answer == EndResponse(run.reply)
<1>7. toClient[c] \in Seq(Byte) /\ toClient[c] \o answer \in Seq(Byte)
  BY <1>2, <1>6, Concat DEF Types
<1>8. /\ toServer' = [toServer EXCEPT ![c] = s]
      /\ toClient' = [toClient EXCEPT ![c] = toClient[c] \o answer]
  BY <1>1, <1>4
<1>9. Types'
  <2> HIDE DEF answer, reply
  <2>1. toServer' \in [Client -> Stream] /\ toClient' \in [Client -> Seq(Byte)]
    BY <1>2, <1>7, <1>8 DEF Types
  <2>2. owed' \in [Client -> Sent]
    BY <1>1, <1>2, <1>6 DEF Types
  <2> QED
    BY <1>1, <1>2, <2>1, <2>2 DEF Types
<1>10. Room'
  BY <1>1, <1>2 DEF Room
<1>11. ASSUME NEW d \in Client \ (unsent \union lost) PROVE Stage(d)'
  <2>1. Stage(d)
    BY DEF IInv
  <2>2. CASE d # c
    <3>1. toServer'[d] = toServer[d] /\ toClient'[d] = toClient[d] /\ owed'[d] = owed[d]
      BY <1>1, <1>2, <2>2 DEF Types
    <3> QED
      BY <1>1, <2>1, <3>1, StageKept
  <2>3. CASE d = c
    <3>1. data # <<>>
      BY <1>1, EmptySeq DEF Whole
    <3>2. pc[c] # "prompt" /\ pc[c] # "body"
      BY <2>1, <2>3, <3>1 DEF Stage, Settled, HalfRead
    <3>3. CASE pc[c] # "header"
      BY <1>1, <2>3, <3>2, <3>3 DEF Stage
    <3>4. CASE pc[c] = "header"
      <4>1. Asked(c)
        BY <2>1, <2>3, <3>1, <3>4 DEF Stage, Replied
      <4>2. PICK w \in Sendable : data = Frame(Body(w))
        BY <4>1 DEF Asked
      <4>3. From(data, 4 + len) = <<>>
        <5>1. Body(w) \in Seq(Byte) /\ Len(Body(w)) \in Words32
          BY SendableBytes
        <5> HIDE DEF data
        <5> QED
          BY <4>2, <5>1, FrameAlone
      <4>4. toServer'[c] = <<>>
        BY <1>1, <1>2, <4>3 DEF Types
      <4>5. toClient'[c] = Frame(Out(reply))
        <5>1. toClient[c] = <<>>
          BY <4>1 DEF Asked
        <5>2. <<>> \o answer = answer
          BY <1>6, ConcatEmptySeq
        <5>3. toClient'[c] = toClient[c] \o answer
          BY <1>2, <1>8 DEF Types
        <5> QED
          BY <1>6, <5>1, <5>2, <5>3
      <4>6. owed'[c] = reply
        BY <1>1, <1>2 DEF Types
      <4>7. Replied(c)'
        BY <4>4, <4>5, <4>6 DEF Replied
      <4> QED
        BY <1>1, <2>3, <3>4, <4>7 DEF Stage
    <3> QED
      BY <3>3, <3>4
  <2> QED
    BY <2>2, <2>3
<1>12. StoreOK(db')
  BY <1>1, <1>6
<1> QED
  BY <1>1, <1>9, <1>10, <1>11, <1>12 DEF IInv

(* A client that leaves its prompt for good says nothing of its streams. *)
LEMMA LeavesKeep ==
  ASSUME IInv, NEW c \in Client, NEW end \in {"crashed", "closed"},
         pc' = [pc EXCEPT ![c] = end],
         UNCHANGED <<db, toServer, toClient, need, owed, shown, unsent, lost, typed>>
  PROVE  IInv'
<1>1. Types /\ Room /\ StoreOK(db)
  BY DEF IInv
<1>2. Types'
  BY <1>1 DEF Types
<1>3. Room'
  BY <1>1 DEF Room, Types
<1>4. ASSUME NEW d \in Client \ (unsent \union lost) PROVE Stage(d)'
  <2>1. Stage(d)
    BY DEF IInv
  <2>2. CASE d # c
    <3>1. pc'[d] = pc[d]
      BY <1>1, <2>2 DEF Types
    <3> QED
      BY <2>1, <3>1, StageKept
  <2>3. CASE d = c
    <3>1. pc'[d] = end
      BY <1>1, <2>3 DEF Types
    <3> QED
      BY <3>1 DEF Stage
  <2> QED
    BY <2>2, <2>3
<1> QED
  BY <1>1, <1>2, <1>3, <1>4 DEF IInv

LEMMA TypeKeeps ==
  ASSUME IInv, NEW c \in Client, Type(c)
  PROVE  IInv'
<1>1. PICK words \in Lines \ {<<>>, <<Exit>>} : SendReq(c, words)
  BY DEF Type
<1>2. /\ pc[c] = "prompt" /\ typed < MaxTyped
      /\ pc' = [pc EXCEPT ![c] = "header"] /\ typed' = typed + 1
      /\ db' = db /\ toClient' = toClient /\ need' = need /\ owed' = owed
      /\ shown' = shown /\ lost' = lost
  BY DEF Type
<1> DEFINE f == Frame(Body(words))
<1>3. /\ toServer' = [toServer EXCEPT ![c] = IF Fits(words) THEN toServer[c] \o f ELSE toServer[c]]
      /\ unsent' = IF Fits(words) THEN unsent ELSE unsent \union {c}
  BY <1>1 DEF SendReq
<1>4. Types /\ Room /\ StoreOK(db) /\ toServer[c] \in Stream
  BY DEF IInv, Types
<1>5. Fits(words) => words \in Sendable
  BY DEF Sendable
<1>6. (IF Fits(words) THEN toServer[c] \o f ELSE toServer[c]) \in Stream
  BY <1>4, <1>5, StreamAppends
<1>7. Types'
  <2>1. toServer' \in [Client -> Stream]
    BY <1>3, <1>4, <1>6 DEF Types
  <2>2. unsent' \subseteq Client
    BY <1>3, <1>4 DEF Types
  <2>3. typed' \in 0 .. MaxTyped
    BY <1>2, <1>4, CliAssumption DEF Types
  <2>4. pc' \in [Client -> {"prompt", "header", "body", "closed", "crashed"}]
    BY <1>2, <1>4 DEF Types
  <2> QED
    BY <1>2, <1>4, <2>1, <2>2, <2>3, <2>4 DEF Types
<1>8. Room'
  BY <1>2, <1>4 DEF Room, Types
<1>9. ASSUME NEW d \in Client \ (unsent' \union lost) PROVE Stage(d)'
  <2>1. Stage(d) /\ d \in Client \ (unsent \union lost)
    BY <1>3 DEF IInv
  <2>2. CASE d # c
    <3>1. pc'[d] = pc[d] /\ toServer'[d] = toServer[d]
      BY <1>2, <1>3, <1>4, <2>2 DEF Types
    <3> QED
      BY <1>2, <2>1, <3>1, StageKept
  <2>3. CASE d = c
    <3>1. Fits(words)
      BY <1>3, <2>3
    <3>2. toServer[c] = <<>> /\ toClient[c] = <<>>
      BY <1>2, <2>1, <2>3 DEF Stage, Settled
    <3>3. toServer'[c] = toServer[c] \o f
      BY <1>3, <1>4, <3>1 DEF Types
    <3>4. f \in Seq(Byte) /\ <<>> \o f = f
      BY <1>5, <3>1, SendableBytes, ConcatEmptySeq
    <3>5. toServer'[c] = f
      BY <3>2, <3>3, <3>4
    <3>6. Asked(c)'
      BY <1>2, <1>5, <3>1, <3>2, <3>5 DEF Asked
    <3>7. pc'[c] = "header"
      BY <1>2, <1>4 DEF Types
    <3> QED
      BY <2>3, <3>6, <3>7 DEF Stage
  <2> QED
    BY <2>2, <2>3
<1> QED
  BY <1>2, <1>4, <1>7, <1>8, <1>9 DEF IInv

LEMMA ReadHeaderKeeps ==
  ASSUME IInv, NEW c \in Client, ReadHeader(c)
  PROVE  IInv'
<1> DEFINE data == toClient[c]
           len == U32At(data, 0)
<1>1. /\ pc[c] = "header" /\ Len(data) >= 4
      /\ toClient' = [toClient EXCEPT ![c] = From(data, 4)]
      /\ need' = [need EXCEPT ![c] = len]
      /\ db' = db /\ toServer' = toServer /\ owed' = owed /\ unsent' = unsent /\ typed' = typed
  BY DEF ReadHeader
<1>2. \/ /\ len > ClientMax
         /\ pc' = [pc EXCEPT ![c] = "prompt"]
         /\ shown' = [shown EXCEPT ![c] = Bad]
         /\ lost' = lost \union {c}
      \/ /\ ~(len > ClientMax)
         /\ pc' = [pc EXCEPT ![c] = "body"]
         /\ shown' = shown /\ lost' = lost
  BY DEF ReadHeader, HeaderTooLong
<1>3. Types /\ Room /\ StoreOK(db) /\ data \in Seq(Byte)
  BY DEF IInv, Types
<1>4. From(data, 4) \in Seq(Byte) /\ len \in Nat
  BY <1>1, <1>3, FromBytes, U32AtIsNat
<1> HIDE DEF len
<1>5. Types'
  <2>1. toClient' \in [Client -> Seq(Byte)]
    BY <1>1, <1>3, <1>4 DEF Types
  <2>2. need' \in [Client -> Nat]
    BY <1>1, <1>3, <1>4 DEF Types
  <2>3. pc' \in [Client -> {"prompt", "header", "body", "closed", "crashed"}]
    BY <1>2, <1>3 DEF Types
  <2>4. shown' = [d \in Client |-> shown'[d]]
    BY <1>2, <1>3 DEF Types
  <2>5. lost' \subseteq Client
    BY <1>2, <1>3 DEF Types
  <2> QED
    BY <1>1, <1>3, <2>1, <2>2, <2>3, <2>4, <2>5 DEF Types
<1>6. Room'
  <2> SUFFICES ASSUME NEW d \in Client, pc'[d] = "body" PROVE need'[d] <= ClientMax
    BY DEF Room
  <2>1. CASE d # c
    BY <1>1, <1>2, <1>3, <2>1 DEF Room, Types
  <2>2. CASE d = c
    <3>1. ~(len > ClientMax)
      BY <1>2, <1>3, <2>2 DEF Types
    <3>2. need'[d] = len
      BY <1>1, <1>3, <2>2 DEF Types
    <3> QED
      BY <1>4, <3>1, <3>2, LimitsAssumption
  <2> QED
    BY <2>1, <2>2
<1>7. ASSUME NEW d \in Client \ (unsent \union lost') PROVE Stage(d)'
  <2>1. Stage(d) /\ d \in Client \ (unsent \union lost)
    BY <1>2 DEF IInv
  <2>2. CASE d # c
    <3>1. pc'[d] = pc[d] /\ toClient'[d] = toClient[d] /\ need'[d] = need[d]
      BY <1>1, <1>2, <1>3, <2>2 DEF Types
    <3>2. shown'[d] = shown[d]
      BY <1>2, <1>3, <2>2 DEF Types
    <3> QED
      BY <1>1, <2>1, <3>1, <3>2, StageKept
  <2>3. CASE d = c
    <3>1. pc'[c] = "body"
      BY <1>2, <1>3, <2>3 DEF Types
    <3>2. Replied(c)
      <4>1. data # <<>>
        BY <1>1, EmptySeq
      <4> QED
        BY <1>1, <2>1, <2>3, <4>1 DEF Stage, Asked
    <3> DEFINE body == Out(owed[c])
    <3>3. body \in Seq(Byte) /\ Len(body) \in Words32 /\ data = Frame(body)
          /\ toServer[c] = <<>>
      <4>1. owed[c] \in Sent
        BY <1>3 DEF Types
      <4> QED
        BY <3>2, <4>1, ReplyBytes DEF Sent, Replied
    <3>4. len = Len(body) /\ From(data, 4) = body
      <4> HIDE DEF body, data
      <4> QED
        BY <3>3, FrameAlone DEF len
    <3>5. toClient'[c] = body /\ need'[c] = Len(body)
      BY <1>1, <1>3, <3>4 DEF Types
    <3>6. HalfRead(c)'
      BY <1>1, <3>3, <3>5 DEF HalfRead
    <3> QED
      BY <2>3, <3>1, <3>6 DEF Stage
  <2> QED
    BY <2>2, <2>3
<1> QED
  BY <1>1, <1>3, <1>5, <1>6, <1>7 DEF IInv

LEMMA ReadBodyKeeps ==
  ASSUME IInv, NEW c \in Client, ReadBody(c)
  PROVE  IInv'
<1> DEFINE data == toClient[c]
           n == need[c]
<1>1. /\ pc[c] = "body" /\ Len(data) >= n
      /\ shown' = [shown EXCEPT ![c] = Printed(Bytes(data, 0, n))]
      /\ toClient' = [toClient EXCEPT ![c] = From(data, n)]
      /\ pc' = [pc EXCEPT ![c] = "prompt"]
      /\ db' = db /\ toServer' = toServer /\ need' = need /\ owed' = owed
      /\ unsent' = unsent /\ lost' = lost /\ typed' = typed
  BY DEF ReadBody
<1>2. Types /\ Room /\ StoreOK(db) /\ data \in Seq(Byte) /\ n \in Nat
  BY DEF IInv, Types
<1>3. From(data, n) \in Seq(Byte)
  BY <1>2, FromBytes
<1>4. Types'
  <2>1. toClient' \in [Client -> Seq(Byte)]
    BY <1>1, <1>2, <1>3 DEF Types
  <2>2. pc' \in [Client -> {"prompt", "header", "body", "closed", "crashed"}]
    BY <1>1, <1>2 DEF Types
  <2>3. shown' = [d \in Client |-> shown'[d]]
    BY <1>1, <1>2 DEF Types
  <2> QED
    BY <1>1, <1>2, <2>1, <2>2, <2>3 DEF Types
<1>5. Room'
  BY <1>1, <1>2 DEF Room, Types
<1>6. ASSUME NEW d \in Client \ (unsent \union lost) PROVE Stage(d)'
  <2>1. Stage(d)
    BY DEF IInv
  <2>2. CASE d # c
    <3>1. pc'[d] = pc[d] /\ toClient'[d] = toClient[d] /\ shown'[d] = shown[d]
      BY <1>1, <1>2, <2>2 DEF Types
    <3> QED
      BY <1>1, <2>1, <3>1, StageKept
  <2>3. CASE d = c
    <3> DEFINE body == Out(owed[c])
    <3>1. toServer[c] = <<>> /\ data = body /\ n = Len(body)
      BY <1>1, <2>1, <2>3 DEF Stage, HalfRead
    <3>2. Printed(body) = Seen(owed[c])
      <4>1. owed[c] \in Sent
        BY <1>2 DEF Types
      <4> QED
        BY <4>1, ReplyRead DEF Sent
    <3>3. Bytes(data, 0, n) = body /\ From(data, n) = <<>>
      <4> HIDE DEF body, data, n
      <4> QED
        BY <1>2, <3>1, WholeBodyRead
    <3>4. shown'[c] = Seen(owed[c]) /\ toClient'[c] = <<>> /\ pc'[c] = "prompt"
      BY <1>1, <1>2, <3>2, <3>3 DEF Types
    <3>5. Settled(c)'
      BY <1>1, <3>1, <3>4 DEF Settled
    <3> QED
      BY <2>3, <3>4, <3>5 DEF Stage
  <2> QED
    BY <2>2, <2>3
<1> QED
  BY <1>1, <1>2, <1>4, <1>5, <1>6 DEF IInv

LEMMA NextKeeps == IInv /\ [Next]_vars => IInv'
<1> SUFFICES ASSUME IInv, [Next]_vars PROVE IInv'
  OBVIOUS
<1>1. CASE UNCHANGED vars
  BY <1>1 DEF vars, IInv, Types, Room, Stage, Settled, Asked, Replied, HalfRead
<1>2. CASE Next
  <2>1. PICK c \in Client : Serve(c) \/ Blank(c) \/ Quit(c) \/ Type(c)
                            \/ ReadHeader(c) \/ ReadBody(c)
    BY <1>2 DEF Next
  <2>2. CASE Serve(c)
    BY <2>2, ServeKeeps
  <2>3. CASE Blank(c)
    BY <2>3, LeavesKeep DEF Blank
  <2>4. CASE Quit(c)
    BY <2>4, LeavesKeep DEF Quit
  <2>5. CASE Type(c)
    BY <2>5, TypeKeeps
  <2>6. CASE ReadHeader(c)
    BY <2>6, ReadHeaderKeeps
  <2>7. CASE ReadBody(c)
    BY <2>7, ReadBodyKeeps
  <2> QED
    BY <2>1, <2>2, <2>3, <2>4, <2>5, <2>6, <2>7
<1> QED
  BY <1>1, <1>2

LEMMA AlwaysIInv == Spec => []IInv
<1> QED
  BY InitIInv, NextKeeps, PTL DEF Spec

-----------------------------------------------------------------------------

(* Streams of bytes, and a client in a body has room for it: read_res only  *)
(* reads a body after it has compared the header to its buffer.             *)
THEOREM TypeCorrect == Spec => []TypeOK
<1>1. ASSUME IInv PROVE TypeOK
  <2>1. Types /\ Room
    BY <1>1 DEF IInv
  <2>2. \A c \in Client : toServer[c] \in Seq(0 .. 255) /\ toClient[c] \in Seq(0 .. 255)
    BY <2>1 DEF Types, Stream, Byte
  <2> QED
    BY <2>1, <2>2 DEF TypeOK, Types, Room
<1> QED
  BY <1>1, AlwaysIInv, PTL

(* At its prompt a client shows the reply to its latest command, and its    *)
(* streams are empty, until it types a command that send_req refuses or     *)
(* gets a reply that read_res does: whatever the commands and the store,    *)
(* and whatever other clients do in between.                                *)
THEOREM RepliesInStep == Spec => []InStep
<1>1. ASSUME IInv PROVE InStep
  BY <1>1 DEF IInv, InStep, Stage, Settled
<1> QED
  BY <1>1, AlwaysIInv, PTL

(* The reply to any command, run on any store that is reached, is read back *)
(* exactly by print_response, and by parseResponse as far as a page can     *)
(* show it: numbers and strings that are UTF-8 exactly, another string      *)
(* replaced and nothing around it disturbed.                                *)
THEOREM RepliesAreRead == Spec => []RepliesReadBack
<1>1. ASSUME IInv PROVE RepliesReadBack
  <2> SUFFICES ASSUME NEW words \in Lines \ {<<>>}, NEW reply, reply = Run(words).reply
               PROVE  ReadBack(reply) /\ ReadBack(Capped(reply))
    BY DEF RepliesReadBack
  <2>1. StoreOK(db) /\ words \in Seq(Seq(Byte))
    BY <1>1, CliAssumption DEF IInv, Byte
  <2>2. Answers(Run(words))
    BY <2>1, RunOK DEF Run
  <2>3. reply \in Replies
    BY <2>2 DEF Answers
  <2> QED
    BY <2>3, AnyReplyReadBack
<1> QED
  BY <1>1, AlwaysIInv, PTL

(* parse_request reads the words that were typed, all of them and nothing   *)
(* else, from whatever stream a client's commands make.                     *)
THEOREM RequestsAreRead == Spec => []RequestsReadBack
<1>1. ASSUME IInv PROVE RequestsReadBack
  <2>1. \A c \in Client : toServer[c] \in Stream
    BY <1>1 DEF IInv, Types
  <2> QED
    BY <2>1, AnyRequestReadBack DEF RequestsReadBack
<1> QED
  BY <1>1, AlwaysIInv, PTL

(* A client in step that waits has a whole request with the server, or the  *)
(* header or body it waits for in its stream.                               *)
THEOREM NobodyWaitsInVain == Spec => []NoWaitInVain
<1>1. ASSUME IInv PROVE NoWaitInVain
  <2> SUFFICES ASSUME NEW c \in Client \ (unsent \union lost)
               PROVE  /\ pc[c] = "header" => Whole(toServer[c]) \/ Len(toClient[c]) >= 4
                      /\ pc[c] = "body"   => Len(toClient[c]) >= need[c]
    BY DEF NoWaitInVain
  <2>1. Stage(c) /\ owed[c] \in Sent /\ need[c] \in Nat
    BY <1>1 DEF IInv, Types
  <2>2. Asked(c) => Whole(toServer[c])
    BY SendableBytes, FrameAlone DEF Asked
  <2>3. Replied(c) => Len(toClient[c]) >= 4
    <3>1. Out(owed[c]) \in Seq(Byte)
      BY <2>1, ReplyBytes DEF Sent
    <3>2. Len(Frame(Out(owed[c]))) = 4 + Len(Out(owed[c])) /\ Len(Out(owed[c])) \in Nat
      BY <3>1, FrameBytes
    <3>3. Len(Frame(Out(owed[c]))) >= 4
      BY <3>2
    <3> QED
      BY <3>3 DEF Replied
  <2>4. HalfRead(c) => Len(toClient[c]) >= need[c]
    <3> SUFFICES ASSUME HalfRead(c) PROVE Len(toClient[c]) >= need[c]
      OBVIOUS
    <3>1. Len(toClient[c]) = need[c]
      BY DEF HalfRead
    <3> QED
      BY <2>1, <3>1
  <2> QED
    BY <2>1, <2>2, <2>3, <2>4 DEF Stage
<1> QED
  BY <1>1, AlwaysIInv, PTL
=============================================================================
