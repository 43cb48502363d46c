--------------------------- MODULE SleepCycleProofs ---------------------------
(* Sleep and resume for every capacity of the channel and any number of       *)
(* signals and configurations: exactly one rescan is on its way while the     *)
(* machine awaits an inventory, no inventory from before a sleep is taken,    *)
(* and coalescing the signals loses nothing.                                  *)
EXTENDS SleepCycle, FiniteSetTheorems, WellFoundedInduction, TLAPS

-----------------------------------------------------------------------------
(* Induction along a sequence, as a fact about sets of positions.             *)

(* A set of positions that holds 0 and with each one the next holds them all. *)
LEMMA EveryPosition ==
  ASSUME NEW N \in Nat, NEW A, 0 \in A, \A n \in 1..N : n - 1 \in A => n \in A
  PROVE  \A n \in 0..N : n \in A
<1> DEFINE R == {ss \in Nat \X Nat : ss[1] < ss[2]}
           B == {n \in 0..N : n \notin A}
<1>1. IsWellFoundedOn(R, Nat)
  BY NatLessThanWellFounded, Zenon DEF OpToRel
<1>2. \A m, n \in Nat : <<m, n>> \in R <=> m < n
  OBVIOUS
<1> HIDE DEF R
<1> SUFFICES ASSUME B # {} PROVE FALSE
  OBVIOUS
<1>3. PICK n \in B : \A m \in B : <<m, n>> \notin R
  <2>1. B \subseteq Nat
    OBVIOUS
  <2> HIDE DEF B
  <2> QED BY <1>1, <2>1, WFMin
<1>4. n \in 1..N /\ n - 1 \in 0..N /\ n - 1 < n
  BY <1>3
<1>5. <<n - 1, n>> \in R
  BY <1>2, <1>4
<1>6. n - 1 \notin B
  BY <1>3, <1>5
<1> QED BY <1>3, <1>4, <1>6

(* Without, one message after the other.                                      *)
Steps(messages, M, kept) ==
  kept = [n \in 0..Len(messages) |->
            IF n = 0 THEN <<>>
            ELSE IF messages[n] \in M THEN kept[n - 1] ELSE Append(kept[n - 1], messages[n])]

LEMMA WithoutSteps ==
  ASSUME NEW S, NEW messages \in Seq(S), NEW M
  PROVE  \E kept : Steps(messages, M, kept) /\ Without(messages, M) = kept[Len(messages)]
<1> DEFINE N == Len(messages)
           After(kept, n) == IF n = 0 THEN <<>>
                             ELSE IF messages[n] \in M THEN kept[n - 1]
                             ELSE Append(kept[n - 1], messages[n])
           Upto(kept, k) == kept = [n \in 0..k |-> After(kept, n)]
           A == {k \in 0..N : \E kept : Upto(kept, k)}
<1>1. 0 \in A
  <2> DEFINE kept == [n \in 0..0 |-> <<>>]
  <2>1. Upto(kept, 0)
    OBVIOUS
  <2> HIDE DEF Upto, kept
  <2> QED BY <2>1
<1>2. ASSUME NEW k \in 1..N, k - 1 \in A PROVE k \in A
  <2>1. PICK f : Upto(f, k - 1)
    BY <1>2
  <2> DEFINE g == [n \in 0..k |-> IF n = k THEN After(f, k) ELSE f[n]]
  <2>2. \A n \in 0..k : After(g, n) = After(f, n)
    OBVIOUS
  <2>3. \A n \in 0..k - 1 : f[n] = After(f, n)
    BY <2>1
  <2>4. \A n \in 0..k : g[n] = After(g, n)
    BY <2>2, <2>3
  <2>5. Upto(g, k)
    BY <2>4
  <2> HIDE DEF Upto, g
  <2> QED BY <2>5
<1>3. N \in A
  <2>1. N \in Nat /\ N \in 0..N
    OBVIOUS
  <2> HIDE DEF A, N
  <2>2. \A n \in 0..N : n \in A
    BY <1>1, <1>2, <2>1, EveryPosition
  <2> QED BY <2>1, <2>2
<1>4. PICK kept : Steps(messages, M, kept)
  BY <1>3 DEF Steps
<1> DEFINE chosen == CHOOSE f : Steps(messages, M, f)
<1>5. Steps(messages, M, chosen)
  BY <1>4
<1>6. Without(messages, M) = chosen[Len(messages)]
  BY DEF Without, Steps
<1> QED BY <1>5, <1>6

-----------------------------------------------------------------------------
(* Where among some messages those of a set H are.                            *)

Cold(messages, H) == \A i \in DOMAIN messages : messages[i] \notin H

(* One message is in H, in one place.                                         *)
Lone(messages, H, m) ==
  \E i \in DOMAIN messages :
    /\ messages[i] = m /\ m \in H
    /\ \A j \in DOMAIN messages : messages[j] \in H => j = i

(* A message behind others.                                                   *)
LEMMA AppendedMessage ==
  ASSUME NEW S, NEW q \in Seq(S), NEW x \in S, NEW H
  PROVE  /\ Append(q, x) \in Seq(S)
         /\ Cold(q, H) /\ x \notin H => Cold(Append(q, x), H)
         /\ Cold(q, H) /\ x \in H => Lone(Append(q, x), H, x)
         /\ \A m : Lone(q, H, m) /\ x \notin H => Lone(Append(q, x), H, m)
<1> DEFINE r == Append(q, x)
<1>1. /\ r \in Seq(S) /\ DOMAIN r = 1..Len(q) + 1 /\ DOMAIN q = 1..Len(q)
      /\ \A i \in 1..Len(q) : r[i] = q[i]
      /\ r[Len(q) + 1] = x /\ Len(q) \in Nat
  OBVIOUS
<1> HIDE DEF r
<1>2. Cold(q, H) /\ x \notin H => Cold(r, H)
  BY <1>1 DEF Cold
<1>3. Cold(q, H) /\ x \in H => Lone(r, H, x)
  BY <1>1 DEF Cold, Lone
<1>4. ASSUME NEW m, Lone(q, H, m), x \notin H PROVE Lone(r, H, m)
  <2>1. PICK i \in DOMAIN q : /\ q[i] = m /\ m \in H
                              /\ \A j \in DOMAIN q : q[j] \in H => j = i
    BY <1>4 DEF Lone
  <2>2. i \in DOMAIN r /\ r[i] = m
    BY <1>1, <2>1
  <2>3. \A j \in DOMAIN r : r[j] \in H => j = i
    BY <1>1, <1>4, <2>1
  <2> QED BY <2>1, <2>2, <2>3 DEF Lone
<1> QED BY <1>1, <1>2, <1>3, <1>4 DEF r

(* What is taken out of some messages leaves the others in their places.      *)
LEMMA WithoutKeeps ==
  ASSUME NEW S, NEW messages \in Seq(S), NEW M, NEW H, H \cap M = {}
  PROVE  LET rest == Without(messages, M)
         IN  /\ rest \in Seq(S)
             /\ \A i \in DOMAIN rest :
                  rest[i] \notin M /\ \E k \in DOMAIN messages : rest[i] = messages[k]
             /\ Cold(messages, H) => Cold(rest, H)
             /\ \A m : Lone(messages, H, m) => Lone(rest, H, m)
<1>1. PICK kept : Steps(messages, M, kept) /\ Without(messages, M) = kept[Len(messages)]
  BY WithoutSteps
<1> DEFINE N == Len(messages)
           Known(q, k) == /\ q \in Seq(S)
                          /\ \A i \in DOMAIN q : q[i] \notin M
                          /\ \A i \in DOMAIN q : \E j \in 1..k : q[i] = messages[j]
           Placed(q, k) == \A i \in 1..k :
                             messages[i] \in H /\ (\A j \in 1..k : messages[j] \in H => j = i)
                               => Lone(q, H, messages[i])
           A == {k \in 0..N : Known(kept[k], k) /\ Placed(kept[k], k)}
<1>2. N \in Nat /\ N \in 0..N /\ DOMAIN messages = 1..N /\ \A n \in 1..N : messages[n] \in S
  OBVIOUS
<1>3. /\ kept[0] = <<>>
      /\ \A n \in 1..N : kept[n] = IF messages[n] \in M THEN kept[n - 1]
                                   ELSE Append(kept[n - 1], messages[n])
  <2> DEFINE After(n) == IF n = 0 THEN <<>>
                         ELSE IF messages[n] \in M THEN kept[n - 1]
                         ELSE Append(kept[n - 1], messages[n])
  <2>1. kept = [n \in 0..N |-> After(n)]
    BY <1>1 DEF Steps
  <2> HIDE DEF After, N
  <2>2. \A n \in 0..N : kept[n] = After(n)
    BY <2>1
  <2>3. 0 \in 0..N /\ \A n \in 1..N : n \in 0..N /\ n # 0
    BY <1>2
  <2> QED BY <2>2, <2>3 DEF After
<1> HIDE DEF N
<1>4. 0 \in A
  <2>1. Known(<<>>, 0) /\ Placed(<<>>, 0)
    OBVIOUS
  <2> HIDE DEF Known, Placed
  <2> QED BY <1>2, <1>3, <2>1
<1>5. ASSUME NEW n \in 1..N, n - 1 \in A PROVE n \in A
  <2> DEFINE q == kept[n - 1]
             x == messages[n]
  <2>1. Known(q, n - 1) /\ Placed(q, n - 1) /\ n \in 0..N /\ x \in S
    <3> HIDE DEF Known, Placed
    <3> QED BY <1>2, <1>5
  <2>2. kept[n] = IF x \in M THEN q ELSE Append(q, x)
    BY <1>3
  <2> HIDE DEF q, x
  <2>3. CASE x \in M
    <3>1. x \notin H
      BY <2>3
    <3>2. Known(q, n)
      BY <2>1
    <3>3. Placed(q, n)
      <4> SUFFICES ASSUME NEW i \in 1..n, messages[i] \in H,
                          \A j \in 1..n : messages[j] \in H => j = i
                   PROVE  Lone(q, H, messages[i])
        OBVIOUS
      <4>1. i \in 1..n - 1
        BY <3>1 DEF x
      <4>2. \A j \in 1..n - 1 : messages[j] \in H => j = i
        OBVIOUS
      <4> QED BY <2>1, <4>1, <4>2
    <3> HIDE DEF Known, Placed
    <3> QED BY <2>1, <2>2, <2>3, <3>2, <3>3
  <2>4. CASE x \notin M
    <3> DEFINE r == Append(q, x)
    <3>1. /\ r \in Seq(S) /\ Len(q) \in Nat /\ DOMAIN r = 1..Len(q) + 1 /\ DOMAIN q = 1..Len(q)
          /\ \A i \in 1..Len(q) : r[i] = q[i]
          /\ r[Len(q) + 1] = x
      BY <2>1
    <3>2. /\ Cold(q, H) /\ x \in H => Lone(r, H, x)
          /\ \A m : Lone(q, H, m) /\ x \notin H => Lone(r, H, m)
      <4>1. q \in Seq(S) /\ x \in S
        BY <2>1
      <4> HIDE DEF Known, Placed
      <4> QED BY <4>1, AppendedMessage
    <3> HIDE DEF r
    <3>3. Known(r, n)
      <4>1. \A i \in DOMAIN r : r[i] \notin M
        BY <2>1, <2>4, <3>1
      <4>2. \A i \in 1..Len(q) : \E j \in 1..n : r[i] = messages[j]
        BY <2>1, <3>1
      <4>3. r[Len(q) + 1] = messages[n] /\ n \in 1..n
        BY <3>1 DEF x
      <4> QED BY <3>1, <4>1, <4>2, <4>3
    <3>4. Placed(r, n)
      <4> SUFFICES ASSUME NEW i \in 1..n, messages[i] \in H,
                          \A j \in 1..n : messages[j] \in H => j = i
                   PROVE  Lone(r, H, messages[i])
        OBVIOUS
      <4>1. CASE i = n
        <5>1. \A j \in 1..n - 1 : messages[j] \notin H
          BY <4>1
        <5>2. Cold(q, H)
          BY <2>1, <5>1 DEF Cold
        <5>3. x \in H /\ messages[i] = x
          BY <4>1 DEF x
        <5> HIDE DEF Known, Placed
        <5> QED BY <3>2, <5>2, <5>3
      <4>2. CASE i # n
        <5>1. i \in 1..n - 1 /\ x \notin H
          BY <4>2 DEF x
        <5>2. Lone(q, H, messages[i])
          BY <2>1, <5>1
        <5> HIDE DEF Known, Placed
        <5> QED BY <3>2, <5>1, <5>2
      <4> QED BY <4>1, <4>2
    <3> HIDE DEF Known, Placed
    <3> QED BY <2>1, <2>2, <2>4, <3>3, <3>4 DEF r
  <2> QED BY <2>3, <2>4
<1>6. N \in A
  <2> HIDE DEF A
  <2>1. \A n \in 0..N : n \in A
    BY <1>2, <1>4, <1>5, EveryPosition
  <2> QED BY <1>2, <2>1
<1> DEFINE rest == kept[N]
<1>7. Known(rest, N) /\ Placed(rest, N)
  BY <1>6
<1> HIDE DEF rest
<1>8. Cold(messages, H) => Cold(rest, H)
  BY <1>2, <1>7 DEF Cold
<1>9. ASSUME NEW m, Lone(messages, H, m) PROVE Lone(rest, H, m)
  BY <1>2, <1>7, <1>9 DEF Lone
<1>10. Without(messages, M) = rest
  BY <1>1 DEF rest, N
<1> QED BY <1>2, <1>7, <1>8, <1>9, <1>10

(* A sequence in two pieces.                                                  *)
Pieces(s, q, r) ==
  /\ Len(s) = Len(q) + Len(r)
  /\ \A i \in 1..Len(q) : s[i] = q[i]
  /\ \A i \in 1..Len(r) : s[Len(q) + i] = r[i]

(* What is in H is in the one or in the other.                                *)
LEMMA TwoPieces ==
  ASSUME NEW S, NEW q \in Seq(S), NEW r \in Seq(S), NEW s \in Seq(S), NEW H, Pieces(s, q, r)
  PROVE  /\ Cold(s, H) <=> Cold(q, H) /\ Cold(r, H)
         /\ \A m : Lone(s, H, m) <=> \/ Lone(q, H, m) /\ Cold(r, H)
                                     \/ Cold(q, H) /\ Lone(r, H, m)
<1> DEFINE k == Len(q)
<1>1. /\ s \in Seq(S) /\ k \in Nat /\ Len(r) \in Nat
      /\ DOMAIN s = 1..k + Len(r) /\ DOMAIN q = 1..k /\ DOMAIN r = 1..Len(r)
      /\ \A i \in 1..k : s[i] = q[i]
      /\ \A i \in 1..Len(r) : s[k + i] = r[i]
  BY DEF Pieces
<1> HIDE DEF k
<1>2. Cold(s, H) <=> Cold(q, H) /\ Cold(r, H)
  <2>1. ASSUME Cold(s, H) PROVE Cold(q, H) /\ Cold(r, H)
    <3>1. Cold(q, H)
      BY <1>1, <2>1 DEF Cold
    <3>2. \A i \in 1..Len(r) : k + i \in DOMAIN s
      BY <1>1
    <3> QED BY <1>1, <2>1, <3>1, <3>2 DEF Cold
  <2>2. ASSUME Cold(q, H), Cold(r, H) PROVE Cold(s, H)
    <3> SUFFICES ASSUME NEW i \in DOMAIN s PROVE s[i] \notin H
      BY DEF Cold
    <3>1. CASE i \in 1..k
      BY <1>1, <2>2, <3>1 DEF Cold
    <3>2. CASE i \notin 1..k
      <4>1. i - k \in 1..Len(r) /\ k + (i - k) = i
        BY <1>1, <3>2
      <4> QED BY <1>1, <2>2, <4>1 DEF Cold
    <3> QED BY <3>1, <3>2
  <2> QED BY <2>1, <2>2
<1>3. ASSUME NEW m, Lone(q, H, m), Cold(r, H) PROVE Lone(s, H, m)
  <2>1. PICK i \in DOMAIN q : /\ q[i] = m /\ m \in H
                              /\ \A j \in DOMAIN q : q[j] \in H => j = i
    BY <1>3 DEF Lone
  <2>2. i \in DOMAIN s /\ s[i] = m
    BY <1>1, <2>1
  <2>3. ASSUME NEW j \in DOMAIN s, s[j] \in H PROVE j = i
    <3>1. j \in 1..k
      <4> SUFFICES ASSUME j \notin 1..k PROVE FALSE
        OBVIOUS
      <4>1. j - k \in 1..Len(r) /\ k + (j - k) = j
        BY <1>1
      <4> QED BY <1>1, <1>3, <2>3, <4>1 DEF Cold
    <3> QED BY <1>1, <2>1, <2>3, <3>1
  <2> QED BY <2>1, <2>2, <2>3 DEF Lone
<1>4. ASSUME NEW m, Cold(q, H), Lone(r, H, m) PROVE Lone(s, H, m)
  <2>1. PICK i \in DOMAIN r : /\ r[i] = m /\ m \in H
                              /\ \A j \in DOMAIN r : r[j] \in H => j = i
    BY <1>4 DEF Lone
  <2>2. k + i \in DOMAIN s /\ s[k + i] = m
    BY <1>1, <2>1
  <2>3. ASSUME NEW j \in DOMAIN s, s[j] \in H PROVE j = k + i
    <3>1. j \notin 1..k
      BY <1>1, <1>4, <2>3 DEF Cold
    <3>2. j - k \in 1..Len(r) /\ k + (j - k) = j
      BY <1>1, <3>1
    <3>3. r[j - k] \in H
      BY <1>1, <2>3, <3>2
    <3> QED BY <1>1, <2>1, <3>2, <3>3
  <2> QED BY <2>1, <2>2, <2>3 DEF Lone
<1>5. ASSUME NEW m, Lone(s, H, m)
      PROVE  \/ Lone(q, H, m) /\ Cold(r, H)
             \/ Cold(q, H) /\ Lone(r, H, m)
  <2>1. PICK i \in DOMAIN s : /\ s[i] = m /\ m \in H
                              /\ \A j \in DOMAIN s : s[j] \in H => j = i
    BY <1>5 DEF Lone
  <2>2. \A j \in 1..Len(r) : k + j \in DOMAIN s
    BY <1>1
  <2>3. CASE i \in 1..k
    <3>1. Lone(q, H, m)
      BY <1>1, <2>1, <2>3 DEF Lone
    <3>2. Cold(r, H)
      BY <1>1, <2>1, <2>2, <2>3 DEF Cold
    <3> QED BY <3>1, <3>2
  <2>4. CASE i \notin 1..k
    <3>1. i - k \in 1..Len(r) /\ k + (i - k) = i
      BY <1>1, <2>4
    <3>2. Cold(q, H)
      BY <1>1, <2>1, <2>4 DEF Cold
    <3>3. r[i - k] = m
      BY <1>1, <2>1, <3>1
    <3>4. ASSUME NEW j \in 1..Len(r), r[j] \in H PROVE j = i - k
      <4>1. k + j \in DOMAIN s /\ s[k + j] = r[j]
        BY <1>1, <2>2
      <4>2. k + j = i
        BY <2>1, <3>4, <4>1
      <4> QED BY <1>1, <4>2
    <3>5. Lone(r, H, m)
      BY <1>1, <2>1, <3>1, <3>3, <3>4 DEF Lone
    <3> QED BY <3>2, <3>5
  <2> QED BY <2>3, <2>4
<1> QED BY <1>2, <1>3, <1>4, <1>5

(* Messages behind one another.                                               *)
LEMMA JoinedMessages ==
  ASSUME NEW S, NEW q \in Seq(S), NEW r \in Seq(S), NEW H
  PROVE  /\ q \o r \in Seq(S)
         /\ Len(q \o r) = Len(q) + Len(r)
         /\ Cold(q \o r, H) <=> Cold(q, H) /\ Cold(r, H)
         /\ \A m : Lone(q \o r, H, m) <=> \/ Lone(q, H, m) /\ Cold(r, H)
                                          \/ Cold(q, H) /\ Lone(r, H, m)
<1> DEFINE s == q \o r
<1>1. s \in Seq(S) /\ Len(s) = Len(q) + Len(r) /\ Pieces(s, q, r)
  BY DEF Pieces
<1> HIDE DEF s
<1> QED BY <1>1, TwoPieces DEF s

(* The messages before a place and those from it on.                          *)
LEMMA SplitMessages ==
  ASSUME NEW S, NEW r \in Seq(S), NEW n \in 0..Len(r), NEW H
  PROVE  LET h == SubSeq(r, 1, n)
             t == SubSeq(r, n + 1, Len(r))
         IN  /\ h \in Seq(S) /\ t \in Seq(S) /\ Len(h) = n
             /\ Cold(r, H) <=> Cold(h, H) /\ Cold(t, H)
             /\ \A m : Lone(r, H, m) <=> \/ Lone(h, H, m) /\ Cold(t, H)
                                         \/ Cold(h, H) /\ Lone(t, H, m)
<1> DEFINE h == SubSeq(r, 1, n)
           t == SubSeq(r, n + 1, Len(r))
<1>1. /\ h \in Seq(S) /\ Len(h) = n /\ \A i \in 1..n : r[i] = h[i]
      /\ t \in Seq(S) /\ Len(t) = Len(r) - n /\ \A i \in 1..Len(r) - n : r[n + i] = t[i]
  OBVIOUS
<1>2. Len(r) = n + (Len(r) - n)
  OBVIOUS
<1> HIDE DEF h, t
<1>3. Pieces(r, h, t)
  BY <1>1, <1>2 DEF Pieces
<1>4. /\ Cold(r, H) <=> Cold(h, H) /\ Cold(t, H)
      /\ \A m : Lone(r, H, m) <=> \/ Lone(h, H, m) /\ Cold(t, H)
                                  \/ Cold(h, H) /\ Lone(t, H, m)
  BY <1>1, <1>3, TwoPieces
<1> QED BY <1>1, <1>4 DEF h, t

(* The first message is taken.                                                *)
LEMMA TakenMessage ==
  ASSUME NEW S, NEW q \in Seq(S), q # <<>>, NEW H
  PROVE  /\ Head(q) \in S /\ Tail(q) \in Seq(S)
         /\ Cold(q, H) => Head(q) \notin H /\ Cold(Tail(q), H)
         /\ \A m : Lone(q, H, m) =>
              \/ Head(q) = m /\ m \in H /\ Cold(Tail(q), H)
              \/ Head(q) \notin H /\ Lone(Tail(q), H, m)
<1> DEFINE x == Head(q)
           r == Tail(q)
<1>1. x \in S /\ r \in Seq(S) /\ <<x>> \in Seq(S) /\ <<x>> \o r = q
  OBVIOUS
<1>2. Cold(<<x>>, H) <=> x \notin H
  <2>1. DOMAIN <<x>> = {1} /\ <<x>>[1] = x
    OBVIOUS
  <2> HIDE DEF x
  <2> QED BY <2>1 DEF Cold
<1>3. \A m : Lone(<<x>>, H, m) => x = m /\ m \in H
  <2>1. DOMAIN <<x>> = {1} /\ <<x>>[1] = x
    OBVIOUS
  <2> HIDE DEF x
  <2> QED BY <2>1 DEF Lone
<1> HIDE DEF x, r
<1>4. /\ Cold(q, H) <=> Cold(<<x>>, H) /\ Cold(r, H)
      /\ \A m : Lone(q, H, m) <=> \/ Lone(<<x>>, H, m) /\ Cold(r, H)
                                  \/ Cold(<<x>>, H) /\ Lone(r, H, m)
  BY <1>1, JoinedMessages
<1> QED BY <1>1, <1>2, <1>3, <1>4 DEF x, r

-----------------------------------------------------------------------------
(* The inductive invariant.                                                   *)

(* The rescans that are not stale in a lifecycle, and the messages that can   *)
(* exist in it.                                                               *)
Fresh(generation) == {m \in Rescan : m.lifecycle = generation}

Written(generation) == {m \in Message : m \in Rescan => m.lifecycle <= generation}

LoopOK(l) ==
  /\ {"lifecycle", "awaiting", "next_id", "config", "inventory", "lifecycle_generation",
      "run", "requested", "owner_messages", "channel"} \subseteq DOMAIN l
  /\ l.lifecycle \in {"Running", "Suspended"}
  /\ l.awaiting \in Nat /\ l.next_id \in Nat \ {0}
  /\ l.config \in Nat /\ l.inventory \in Nat /\ l.lifecycle_generation \in Nat
  /\ l.owner_messages \in Seq(Written(l.lifecycle_generation))
  /\ l.channel \in Seq(Written(l.lifecycle_generation))
  /\ Len(l.channel) <= OWNER_CHANNEL_CAPACITY

(* What the worker has been sent or will be.                                  *)
Queued(l) == l.channel \o l.owner_messages

Waits(l) == l.lifecycle = "Running" /\ l.awaiting # 0

(* Among the messages queued, in work and done no rescan is fresh; or one is, *)
(* in one place, and answers id.                                              *)
Nowhere(queued, work, done, generation) ==
  /\ Cold(queued, Fresh(generation))
  /\ work \cap Fresh(generation) = {}
  /\ Cold(done, Fresh(generation))

OnItsWay(queued, work, done, generation, id) ==
  \E m \in Fresh(generation) :
    /\ m.id = id
    /\ \/ /\ Lone(queued, Fresh(generation), m)
          /\ work \cap Fresh(generation) = {}
          /\ Cold(done, Fresh(generation))
       \/ /\ Cold(queued, Fresh(generation))
          /\ work \cap Fresh(generation) = {m}
          /\ Cold(done, Fresh(generation))
       \/ /\ Cold(queued, Fresh(generation))
          /\ work \cap Fresh(generation) = {}
          /\ Lone(done, Fresh(generation), m)

(* A rescan that is requested but not yet queued is the one awaited.          *)
Tracked(l, work, done) ==
  /\ l.requested # {} => Waits(l) /\ l.requested = {l.awaiting}
  /\ IF Waits(l) /\ l.requested = {}
     THEN OnItsWay(Queued(l), work, done, l.lifecycle_generation, l.awaiting)
     ELSE Nowhere(Queued(l), work, done, l.lifecycle_generation)

Sound(l, work, done) ==
  /\ LoopOK(l)
  /\ work \in SUBSET Written(l.lifecycle_generation)
  /\ done \in Seq(Written(l.lifecycle_generation))
  /\ Tracked(l, work, done)

(* One message at a time, and none but rescans and runs.                      *)
WorkerOK(w) ==
  /\ {"phase", "work"} \subseteq DOMAIN w
  /\ w.phase \in {"Idle", "Lane", "Work", "Reported"}
  /\ w.phase \in {"Idle", "Reported"} => w.work = {}
  /\ w.phase \in {"Lane", "Work"} => \E m \in Rescan \cup {Run} : w.work = {m}

(* A resume is pending only if nothing of it has been read.                   *)
SignalsOK(s) ==
  /\ {"latest", "dirty", "resume_pending"} \subseteq DOMAIN s
  /\ s.latest \in Signals \cup {"None"}
  /\ s.dirty \in BOOLEAN /\ s.resume_pending \in BOOLEAN
  /\ s.resume_pending => s.dirty
  /\ s.dirty => s.latest # "None"

(* Two states of the loop that differ in what it has queued, or runs.         *)
Alike(k, l) ==
  /\ k.lifecycle = l.lifecycle /\ k.awaiting = l.awaiting /\ k.next_id = l.next_id
  /\ k.config = l.config /\ k.inventory = l.inventory
  /\ k.lifecycle_generation = l.lifecycle_generation /\ k.requested = l.requested

-----------------------------------------------------------------------------
(* Messages and queues.                                                       *)

(* A rescan is no run and no invalidation.                                    *)
LEMMA Kinds ==
  /\ Run \notin Rescan /\ Run \in Message /\ Rescan \subseteq Message
  /\ \A j : [kind |-> "Invalidate", job |-> j] \notin Rescan
  /\ \A g : Run \in Written(g) /\ Run \notin Fresh(g)
  /\ \A m \in Rescan : m.kind = "Rescan"
  /\ \A m \in Message : m.kind = "Rescan" => m \in Rescan
<1>1. Run \notin Rescan /\ Run \in Message /\ Rescan \subseteq Message
  BY DEF Run, Rescan, Message
<1>2. \A j : [kind |-> "Invalidate", job |-> j] \notin Rescan
  BY DEF Rescan
<1>3. \A g : Run \in Written(g) /\ Run \notin Fresh(g)
  BY <1>1 DEF Written, Fresh
<1>4. \A m \in Rescan : m.kind = "Rescan"
  BY DEF Rescan
<1>5. \A m \in Message : m.kind = "Rescan" => m \in Rescan
  BY DEF Message, Run
<1> QED BY <1>1, <1>2, <1>3, <1>4, <1>5

(* What was written before a sleep is not fresh after it.                     *)
LEMMA StaleAfterSleep ==
  ASSUME NEW g \in Nat
  PROVE  /\ Written(g) \subseteq Written(g + 1)
         /\ Written(g) \cap Fresh(g + 1) = {}
         /\ Seq(Written(g)) \subseteq Seq(Written(g + 1))
         /\ \A q \in Seq(Written(g)) : Cold(q, Fresh(g + 1))
<1>1. \A m \in Rescan : m.lifecycle \in Nat
  BY DEF Rescan
<1>2. Written(g) \subseteq Written(g + 1)
  BY <1>1 DEF Written
<1>3. Written(g) \cap Fresh(g + 1) = {}
  BY <1>1 DEF Written, Fresh
<1>4. \A q \in Seq(Written(g)) : \A i \in DOMAIN q : q[i] \in Written(g)
  OBVIOUS
<1>5. \A S, T : S \subseteq T => Seq(S) \subseteq Seq(T)
  OBVIOUS
<1> QED BY <1>2, <1>3, <1>4, <1>5 DEF Cold

(* The loop is as sound with another queue that holds the same fresh rescans. *)
LEMMA SoundWithQueue ==
  ASSUME NEW l, NEW work, NEW done, Sound(l, work, done),
         NEW k, LoopOK(k), Alike(k, l),
         Cold(Queued(l), Fresh(l.lifecycle_generation))
           => Cold(Queued(k), Fresh(l.lifecycle_generation)),
         \A m : Lone(Queued(l), Fresh(l.lifecycle_generation), m)
           => Lone(Queued(k), Fresh(l.lifecycle_generation), m)
  PROVE  Sound(k, work, done)
<1>1. Waits(k) <=> Waits(l)
  BY DEF Alike, Waits
<1>2. ASSUME Nowhere(Queued(l), work, done, l.lifecycle_generation)
      PROVE  Nowhere(Queued(k), work, done, k.lifecycle_generation)
  BY <1>2 DEF Nowhere, Alike
<1>3. ASSUME OnItsWay(Queued(l), work, done, l.lifecycle_generation, l.awaiting)
      PROVE  OnItsWay(Queued(k), work, done, k.lifecycle_generation, k.awaiting)
  BY <1>3 DEF OnItsWay, Alike
<1>4. Tracked(k, work, done)
  BY <1>1, <1>2, <1>3 DEF Sound, Tracked, Alike
<1> QED BY <1>4 DEF Sound, Alike

(* So it is when only what waits for room in the channel differs.             *)
LEMMA SoundWithPending ==
  ASSUME NEW l, NEW work, NEW done, Sound(l, work, done),
         NEW k, LoopOK(k), Alike(k, l), k.channel = l.channel,
         Cold(l.owner_messages, Fresh(l.lifecycle_generation))
           => Cold(k.owner_messages, Fresh(l.lifecycle_generation)),
         \A m : Lone(l.owner_messages, Fresh(l.lifecycle_generation), m)
           => Lone(k.owner_messages, Fresh(l.lifecycle_generation), m)
  PROVE  Sound(k, work, done)
<1> DEFINE S == Written(l.lifecycle_generation)
           H == Fresh(l.lifecycle_generation)
<1>1. /\ l.channel \in Seq(S) /\ l.owner_messages \in Seq(S) /\ k.owner_messages \in Seq(S)
  BY DEF Sound, LoopOK, Alike
<1> HIDE DEF S
<1>2. /\ Cold(Queued(l), H) <=> Cold(l.channel, H) /\ Cold(l.owner_messages, H)
      /\ \A m : Lone(Queued(l), H, m) <=> \/ Lone(l.channel, H, m) /\ Cold(l.owner_messages, H)
                                          \/ Cold(l.channel, H) /\ Lone(l.owner_messages, H, m)
  BY <1>1, JoinedMessages DEF Queued
<1>3. /\ Cold(Queued(k), H) <=> Cold(l.channel, H) /\ Cold(k.owner_messages, H)
      /\ \A m : Lone(Queued(k), H, m) <=> \/ Lone(l.channel, H, m) /\ Cold(k.owner_messages, H)
                                          \/ Cold(l.channel, H) /\ Lone(k.owner_messages, H, m)
  BY <1>1, JoinedMessages DEF Queued
<1> QED BY <1>2, <1>3, SoundWithQueue

(* A fresh rescan that is queued when there is none is the one.               *)
LEMMA SoundWithRescan ==
  ASSUME NEW l, LoopOK(l), NEW work, NEW done,
         work \in SUBSET Written(l.lifecycle_generation),
         done \in Seq(Written(l.lifecycle_generation)),
         Nowhere(Queued(l), work, done, l.lifecycle_generation), Waits(l),
         NEW k, LoopOK(k), NEW q \in Seq(Written(l.lifecycle_generation)),
         Cold(q, Fresh(l.lifecycle_generation)),
         k.channel = l.channel, k.owner_messages = Append(q, RescanFor(l, l.awaiting)),
         k.lifecycle = l.lifecycle, k.awaiting = l.awaiting,
         k.lifecycle_generation = l.lifecycle_generation, k.requested = {}
  PROVE  Sound(k, work, done)
<1> DEFINE S == Written(l.lifecycle_generation)
           H == Fresh(l.lifecycle_generation)
           x == RescanFor(l, l.awaiting)
<1>1. x \in H /\ x \in S /\ x.id = l.awaiting
  <2>1. /\ x \in Rescan /\ x.lifecycle = l.lifecycle_generation /\ x.id = l.awaiting
    BY DEF RescanFor, Rescan, LoopOK, Waits
  <2> HIDE DEF x
  <2>2. x \in Message
    BY <2>1, Kinds
  <2> QED BY <2>1, <2>2 DEF Written, Fresh, LoopOK
<1> HIDE DEF x
<1>2. l.channel \in Seq(S) /\ l.owner_messages \in Seq(S) /\ Append(q, x) \in Seq(S)
      /\ Lone(Append(q, x), H, x)
  <2>1. q \in Seq(S) /\ x \in S
    BY <1>1
  <2>2. Append(q, x) \in Seq(S) /\ Lone(Append(q, x), H, x)
    BY <1>1, <2>1, AppendedMessage
  <2> QED BY <2>2 DEF LoopOK
<1>3. Cold(l.channel, H)
  <2> HIDE DEF S
  <2> QED BY <1>2, JoinedMessages DEF Nowhere, Queued
<1>4. Lone(Queued(k), H, x)
  <2>1. Queued(k) = l.channel \o Append(q, x)
    BY DEF Queued, x
  <2> DEFINE r == Append(q, x)
  <2>2. l.channel \in Seq(S) /\ r \in Seq(S) /\ Lone(r, H, x)
    BY <1>2
  <2> HIDE DEF S, H, r
  <2>3. Lone(l.channel \o r, H, x)
    BY <1>3, <2>2, JoinedMessages
  <2> QED BY <2>1, <2>3 DEF r
<1>5. OnItsWay(Queued(k), work, done, k.lifecycle_generation, k.awaiting)
  BY <1>1, <1>4 DEF OnItsWay, Nowhere
<1>6. Waits(k)
  BY DEF Waits
<1> QED BY <1>5, <1>6 DEF Sound, Tracked

-----------------------------------------------------------------------------
(* The operators of an iteration.                                             *)

(* Pending messages move into the channel.                                    *)
LEMMA FlushSound ==
  ASSUME CapacityAssumption, NEW l, NEW work, NEW done, Sound(l, work, done)
  PROVE  Sound(Flush(l), work, done) /\ Alike(Flush(l), l) /\ Flush(l).run = l.run
<1> DEFINE S == Written(l.lifecycle_generation)
           n == Lesser(OWNER_CHANNEL_CAPACITY - Len(l.channel), Len(l.owner_messages))
           k == Flush(l)
<1>1. LoopOK(l)
  BY DEF Sound
<1>2. /\ l.channel \in Seq(S) /\ l.owner_messages \in Seq(S) /\ OWNER_CHANNEL_CAPACITY \in Nat
      /\ Len(l.channel) \in Nat /\ Len(l.owner_messages) \in Nat
      /\ Len(l.channel) <= OWNER_CHANNEL_CAPACITY
  BY <1>1 DEF LoopOK, CapacityAssumption
<1>3. n \in 0..Len(l.owner_messages) /\ Len(l.channel) + n <= OWNER_CHANNEL_CAPACITY
  <2> DEFINE c == Len(l.channel)
             o == Len(l.owner_messages)
  <2> SUFFICES n \in 0..o /\ c + n <= OWNER_CHANNEL_CAPACITY
    OBVIOUS
  <2>1. c \in Nat /\ o \in Nat /\ c <= OWNER_CHANNEL_CAPACITY
        /\ n = IF OWNER_CHANNEL_CAPACITY - c <= o THEN OWNER_CHANNEL_CAPACITY - c ELSE o
    BY <1>2 DEF Lesser
  <2> HIDE DEF c, o, n
  <2> QED BY <1>2, <2>1
<1>4. k = [l EXCEPT !.channel = l.channel \o SubSeq(l.owner_messages, 1, n),
                    !.owner_messages = SubSeq(l.owner_messages, n + 1, Len(l.owner_messages))]
  BY DEF Flush
<1> HIDE DEF n, S
<1> DEFINE c == l.channel
           o == l.owner_messages
           h == SubSeq(o, 1, n)
           t == SubSeq(o, n + 1, Len(o))
           H == Fresh(l.lifecycle_generation)
<1>5. c \in Seq(S) /\ o \in Seq(S) /\ n \in 0..Len(o)
  BY <1>2, <1>3
<1>6. /\ k.channel = c \o h /\ k.owner_messages = t /\ DOMAIN k = DOMAIN l
      /\ Alike(k, l) /\ k.run = l.run
  <2> HIDE DEF k
  <2> QED BY <1>1, <1>4 DEF LoopOK, Alike
<1> HIDE DEF c, o, k, H
<1>7. /\ h \in Seq(S) /\ t \in Seq(S) /\ Len(h) = n
      /\ Cold(o, H) <=> Cold(h, H) /\ Cold(t, H)
      /\ \A m : Lone(o, H, m) <=> \/ Lone(h, H, m) /\ Cold(t, H)
                                  \/ Cold(h, H) /\ Lone(t, H, m)
  BY <1>5, SplitMessages
<1> HIDE DEF h, t
<1> DEFINE p == c \o h
<1>8. /\ p \in Seq(S) /\ Len(p) = Len(c) + n
      /\ Cold(p, H) <=> Cold(c, H) /\ Cold(h, H)
      /\ \A m : Lone(p, H, m) <=> \/ Lone(c, H, m) /\ Cold(h, H)
                                  \/ Cold(c, H) /\ Lone(h, H, m)
  BY <1>5, <1>7, JoinedMessages
<1> HIDE DEF p
<1>9. LoopOK(k)
  <2>1. Len(p) <= OWNER_CHANNEL_CAPACITY
    BY <1>3, <1>8 DEF c
  <2>2. k.channel = p /\ k.owner_messages = t
    BY <1>6 DEF p
  <2> QED BY <1>1, <1>6, <1>7, <1>8, <2>1, <2>2 DEF LoopOK, Alike, S
<1>10. /\ Cold(Queued(k), H) <=> Cold(p, H) /\ Cold(t, H)
       /\ \A m : Lone(Queued(k), H, m) <=> \/ Lone(p, H, m) /\ Cold(t, H)
                                           \/ Cold(p, H) /\ Lone(t, H, m)
  <2>1. Queued(k) = p \o t
    BY <1>6 DEF Queued, p
  <2> QED BY <1>7, <1>8, <2>1, JoinedMessages
<1>11. /\ Cold(Queued(l), H) <=> Cold(c, H) /\ Cold(o, H)
       /\ \A m : Lone(Queued(l), H, m) <=> \/ Lone(c, H, m) /\ Cold(o, H)
                                           \/ Cold(c, H) /\ Lone(o, H, m)
  <2>1. Queued(l) = c \o o
    BY DEF Queued, c, o
  <2> QED BY <1>5, <2>1, JoinedMessages
<1>12. Sound(k, work, done)
  <2>1. Cold(Queued(l), H) => Cold(Queued(k), H)
    BY <1>7, <1>8, <1>10, <1>11
  <2>2. \A m : Lone(Queued(l), H, m) => Lone(Queued(k), H, m)
    BY <1>7, <1>8, <1>10, <1>11
  <2> QED BY <1>6, <1>9, <2>1, <2>2, SoundWithQueue DEF H
<1> QED BY <1>6, <1>12 DEF k

(* Runs among the pending messages are no rescans.                            *)
LEMMA PendingRuns ==
  ASSUME NEW g, NEW q \in Seq(Written(g))
  PROVE  LET r == Without(q, {Run})
         IN  /\ r \in Seq(Written(g)) /\ Append(r, Run) \in Seq(Written(g))
             /\ Cold(q, Fresh(g)) => Cold(r, Fresh(g)) /\ Cold(Append(r, Run), Fresh(g))
             /\ \A m : Lone(q, Fresh(g), m)
                         => Lone(r, Fresh(g), m) /\ Lone(Append(r, Run), Fresh(g), m)
<1> DEFINE r == Without(q, {Run})
           S == Written(g)
           H == Fresh(g)
<1>1. H \cap {Run} = {} /\ Run \in S /\ Run \notin H
  BY Kinds
<1> HIDE DEF S, H
<1>2. /\ r \in Seq(S)
      /\ Cold(q, H) => Cold(r, H)
      /\ \A m : Lone(q, H, m) => Lone(r, H, m)
  <2>1. q \in Seq(S)
    BY DEF S
  <2> QED BY <1>1, <2>1, WithoutKeeps
<1> HIDE DEF r
<1>3. /\ Append(r, Run) \in Seq(S)
      /\ Cold(r, H) => Cold(Append(r, Run), H)
      /\ \A m : Lone(r, H, m) => Lone(Append(r, Run), H, m)
  BY <1>1, <1>2, AppendedMessage
<1> QED BY <1>2, <1>3 DEF r, S, H

(* A run is cancelled, or a new one starts: no rescan is concerned.           *)
LEMMA RunsSound ==
  ASSUME NEW l, NEW work, NEW done, Sound(l, work, done), NEW start
  PROVE  /\ Sound(CancelRun(l), work, done) /\ Alike(CancelRun(l), l)
         /\ Sound(Started(l, start), work, done) /\ Alike(Started(l, start), l)
<1> DEFINE q == l.owner_messages
           r == Without(q, {Run})
           g == l.lifecycle_generation
<1>1. LoopOK(l) /\ q \in Seq(Written(g))
  BY DEF Sound, LoopOK
<1>2. /\ r \in Seq(Written(g)) /\ Append(r, Run) \in Seq(Written(g))
      /\ Cold(q, Fresh(g)) => Cold(r, Fresh(g)) /\ Cold(Append(r, Run), Fresh(g))
      /\ \A m : Lone(q, Fresh(g), m)
                  => Lone(r, Fresh(g), m) /\ Lone(Append(r, Run), Fresh(g), m)
  BY <1>1, PendingRuns
<1>3. Alike(l, l)
  BY DEF Alike
<1>4. Sound(CancelRun(l), work, done) /\ Alike(CancelRun(l), l)
  <2> DEFINE none == [l EXCEPT !.run = "None", !.owner_messages = r]
             gone == [l EXCEPT !.run = "Cancelled"]
  <2>1. CancelRun(l) \in {l, none, gone}
    BY DEF CancelRun
  <2> HIDE DEF r
  <2>2. Sound(none, work, done) /\ Alike(none, l)
    <3>1. /\ none.owner_messages = r /\ none.channel = l.channel /\ DOMAIN none = DOMAIN l
          /\ Alike(none, l)
      BY <1>1 DEF LoopOK, Alike
    <3> HIDE DEF none
    <3>2. LoopOK(none)
      BY <1>1, <1>2, <3>1 DEF LoopOK, Alike
    <3> QED BY <1>2, <3>1, <3>2, SoundWithPending
  <2>3. Sound(gone, work, done) /\ Alike(gone, l)
    <3>1. /\ gone.owner_messages = q /\ gone.channel = l.channel /\ DOMAIN gone = DOMAIN l
          /\ Alike(gone, l)
      BY <1>1 DEF LoopOK, Alike
    <3> HIDE DEF gone
    <3>2. LoopOK(gone)
      BY <1>1, <3>1 DEF LoopOK, Alike
    <3> QED BY <3>1, <3>2, SoundWithPending
  <2> HIDE DEF none, gone
  <2> QED BY <1>3, <2>1, <2>2, <2>3
<1>5. Sound(Started(l, start), work, done) /\ Alike(Started(l, start), l)
  <2> DEFINE live == [l EXCEPT !.run = "Live", !.owner_messages = Append(r, Run)]
  <2>1. Queue([l EXCEPT !.run = "Live"], Run) = live
    <3>1. Superseded(Run) = {Run}
      BY DEF Superseded, Run
    <3> QED BY <1>1, <3>1 DEF Queue, LoopOK
  <2>2. Started(l, start) \in {l, live}
    BY <2>1 DEF Started
  <2> HIDE DEF r
  <2>3. /\ live.owner_messages = Append(r, Run) /\ live.channel = l.channel
        /\ DOMAIN live = DOMAIN l /\ Alike(live, l)
    BY <1>1 DEF LoopOK, Alike
  <2> HIDE DEF live
  <2>4. LoopOK(live)
    BY <1>1, <1>2, <2>3 DEF LoopOK, Alike
  <2>5. Sound(live, work, done)
    BY <1>2, <2>3, <2>4, SoundWithPending
  <2> QED BY <1>3, <2>2, <2>3, <2>5
<1> QED BY <1>4, <1>5

(* A suspend leaves no fresh rescan, and none requested.                      *)
LEMMA SuspendSound ==
  ASSUME NEW l, NEW work, NEW done, Sound(l, work, done)
  PROVE  LET k == PrepareForSleep(l, "Sleep")
         IN  /\ Sound(k, work, done) /\ k.lifecycle = "Suspended" /\ k.requested = {}
             /\ k.next_id = l.next_id /\ k.inventory = l.inventory
<1> DEFINE g == l.lifecycle_generation
           q == l.owner_messages
           r == Without(q, {Run})
           k == PrepareForSleep(l, "Sleep")
<1>1. LoopOK(l) /\ g \in Nat /\ q \in Seq(Written(g)) /\ l.channel \in Seq(Written(g))
  BY DEF Sound, LoopOK
<1>2. r \in Seq(Written(g))
  BY <1>1, PendingRuns
<1> HIDE DEF r
<1>3. /\ DOMAIN k = DOMAIN l /\ k.lifecycle = "Suspended" /\ k.requested = {}
      /\ k.lifecycle_generation = g + 1 /\ k.channel = l.channel
      /\ k.owner_messages \in {q, r}
      /\ k.awaiting = l.awaiting /\ k.next_id = l.next_id
      /\ k.config = l.config /\ k.inventory = l.inventory
  <2> DEFINE a == [l EXCEPT !.lifecycle_generation = @ + 1, !.requested = {}]
             none == [a EXCEPT !.run = "None", !.owner_messages = r]
             gone == [a EXCEPT !.run = "Cancelled"]
  <2>1. /\ DOMAIN a = DOMAIN l /\ a.requested = {}
        /\ a.lifecycle_generation = g + 1 /\ a.channel = l.channel
        /\ a.owner_messages = q
        /\ a.awaiting = l.awaiting /\ a.next_id = l.next_id
        /\ a.config = l.config /\ a.inventory = l.inventory
    BY <1>1 DEF LoopOK
  <2>2. k = [CancelRun(a) EXCEPT !.lifecycle = "Suspended"]
    BY DEF PrepareForSleep, Suspended
  <2> HIDE DEF a, k
  <2>3. CancelRun(a) \in {a, none, gone}
    BY <2>1 DEF CancelRun, r
  <2>4. \A b \in {a, none, gone} :
          /\ DOMAIN b = DOMAIN l /\ b.requested = {}
          /\ b.lifecycle_generation = g + 1 /\ b.channel = l.channel
          /\ b.owner_messages \in {q, r}
          /\ b.awaiting = l.awaiting /\ b.next_id = l.next_id
          /\ b.config = l.config /\ b.inventory = l.inventory
    BY <1>1, <2>1 DEF LoopOK
  <2> DEFINE b == CancelRun(a)
  <2>5. /\ DOMAIN b = DOMAIN l /\ b.requested = {}
        /\ b.lifecycle_generation = g + 1 /\ b.channel = l.channel
        /\ b.owner_messages \in {q, r}
        /\ b.awaiting = l.awaiting /\ b.next_id = l.next_id
        /\ b.config = l.config /\ b.inventory = l.inventory
    BY <2>3, <2>4
  <2> HIDE DEF b
  <2> QED BY <1>1, <2>2, <2>5 DEF LoopOK, b
<1> HIDE DEF k
<1>4. k.owner_messages \in Seq(Written(g))
  BY <1>1, <1>2, <1>3
<1>5. LoopOK(k)
  <2>1. Seq(Written(g)) \subseteq Seq(Written(g + 1))
    BY <1>1, StaleAfterSleep
  <2> QED BY <1>1, <1>3, <1>4, <2>1 DEF LoopOK
<1>6. Nowhere(Queued(k), work, done, g + 1)
  <2> DEFINE c == l.channel
             o == k.owner_messages
  <2>1. c \o o \in Seq(Written(g))
    <3>1. c \in Seq(Written(g)) /\ o \in Seq(Written(g))
      BY <1>1, <1>4
    <3> HIDE DEF c, o
    <3> QED BY <3>1
  <2>2. Queued(k) \in Seq(Written(g))
    BY <1>3, <2>1 DEF Queued
  <2>3. work \in SUBSET Written(g) /\ done \in Seq(Written(g))
    BY DEF Sound
  <2> QED BY <1>1, <2>2, <2>3, StaleAfterSleep DEF Nowhere
<1>7. work \in SUBSET Written(g + 1) /\ done \in Seq(Written(g + 1))
  BY <1>1, StaleAfterSleep DEF Sound
<1>8. Sound(k, work, done)
  BY <1>3, <1>5, <1>6, <1>7 DEF Sound, Tracked, Waits
<1> QED BY <1>3, <1>8 DEF k

(* A resume requests a rescan and awaits it.                                  *)
LEMMA ResumeSound ==
  ASSUME NEW l, NEW work, NEW done, Sound(l, work, done)
  PROVE  LET k == PrepareForSleep(l, "Wake")
         IN  /\ Sound(k, work, done) /\ k.lifecycle = "Running" /\ k.inventory = l.inventory
             /\ IF l.lifecycle = "Suspended"
                THEN k.next_id = l.next_id + 1 /\ k.requested # {}
                ELSE k = l
<1> DEFINE k == PrepareForSleep(l, "Wake")
<1>1. LoopOK(l) /\ l.lifecycle \in {"Running", "Suspended"}
  BY DEF Sound, LoopOK
<1>2. k = Resumed(l)
  BY DEF PrepareForSleep
<1> HIDE DEF k
<1>3. CASE l.lifecycle # "Suspended"
  <2>1. k = l
    BY <1>2, <1>3 DEF Resumed
  <2> QED BY <1>1, <1>3, <2>1 DEF k
<1>4. CASE l.lifecycle = "Suspended"
  <2>1. l.requested = {} /\ ~Waits(l)
    BY <1>4 DEF Sound, Tracked, Waits
  <2>2. /\ DOMAIN k = DOMAIN l /\ k.lifecycle = "Running"
        /\ k.awaiting = l.next_id /\ k.next_id = l.next_id + 1
        /\ k.requested = {l.next_id}
        /\ k.lifecycle_generation = l.lifecycle_generation /\ k.channel = l.channel
        /\ k.owner_messages = l.owner_messages
        /\ k.config = l.config /\ k.inventory = l.inventory
    BY <1>1, <1>2, <1>4, <2>1 DEF Resumed, LoopOK
  <2>3. LoopOK(k)
    BY <1>1, <2>2 DEF LoopOK
  <2>4. Nowhere(Queued(k), work, done, k.lifecycle_generation)
    BY <2>1, <2>2 DEF Sound, Tracked, Queued
  <2>5. Waits(k) /\ k.requested = {k.awaiting} /\ k.requested # {}
    BY <1>1, <2>2 DEF Waits, LoopOK
  <2>6. Sound(k, work, done)
    BY <2>2, <2>3, <2>4, <2>5 DEF Sound, Tracked
  <2> QED BY <1>4, <2>2, <2>5, <2>6 DEF k
<1> QED BY <1>3, <1>4

(* A rescan is queued in place of the ones that wait for room.                *)
LEMMA QueuedRescan ==
  ASSUME NEW l, LoopOK(l), NEW work, NEW done,
         work \in SUBSET Written(l.lifecycle_generation),
         done \in Seq(Written(l.lifecycle_generation)),
         Nowhere(Queued(l), work, done, l.lifecycle_generation), Waits(l),
         NEW k, DOMAIN k = DOMAIN l,
         k.owner_messages = Queue(l, RescanFor(l, l.awaiting)).owner_messages,
         k.channel = l.channel, k.requested = {},
         k.lifecycle = l.lifecycle, k.awaiting = l.awaiting, k.next_id = l.next_id,
         k.lifecycle_generation = l.lifecycle_generation,
         k.config = l.config, k.inventory = l.inventory
  PROVE  Sound(k, work, done)
<1> DEFINE g == l.lifecycle_generation
           x == RescanFor(l, l.awaiting)
           o == l.owner_messages
           q == Without(o, Rescan)
<1>1. o \in Seq(Written(g)) /\ {} \cap Rescan = {}
  BY DEF LoopOK
<1>2. q \in Seq(Written(g)) /\ \A i \in DOMAIN q : q[i] \notin Rescan
  <2> HIDE DEF o
  <2> QED BY <1>1, WithoutKeeps
<1>3. x \in Rescan /\ x.lifecycle = g
  BY DEF RescanFor, Rescan, LoopOK, Waits
<1>4. k.owner_messages = Append(q, x)
  <2> HIDE DEF x
  <2>1. Superseded(x) = Rescan
    BY <1>3, Kinds DEF Superseded
  <2> QED BY <2>1 DEF Queue, LoopOK, x
<1>5. x \in Written(g)
  <2> HIDE DEF x
  <2> QED BY <1>3, Kinds DEF Written, LoopOK
<1>6. Append(q, x) \in Seq(Written(g)) /\ Cold(q, Fresh(g))
  <2> HIDE DEF q, x
  <2> QED BY <1>2, <1>5 DEF Cold, Fresh
<1> HIDE DEF q
<1>7. LoopOK(k)
  BY <1>4, <1>6 DEF LoopOK
<1> QED BY <1>2, <1>4, <1>6, <1>7, SoundWithRescan

(* The requested rescan is queued.                                            *)
LEMMA RequestSound ==
  ASSUME NEW l, NEW work, NEW done, Sound(l, work, done)
  PROVE  LET k == QueueRequested(l)
         IN  /\ Sound(k, work, done) /\ k.requested = {}
             /\ k.lifecycle = l.lifecycle /\ k.next_id = l.next_id
             /\ k.inventory = l.inventory
<1> DEFINE k == QueueRequested(l)
           x == RescanFor(l, l.awaiting)
<1>1. LoopOK(l)
  BY DEF Sound
<1>2. CASE l.requested = {}
  BY <1>2 DEF QueueRequested
<1>3. CASE l.requested # {}
  <2>1. Waits(l) /\ l.requested = {l.awaiting}
        /\ Nowhere(Queued(l), work, done, l.lifecycle_generation)
    BY <1>3 DEF Sound, Tracked
  <2>2. (CHOOSE id \in l.requested : TRUE) = l.awaiting
    BY <2>1
  <2>3. k = [Queue(l, x) EXCEPT !.requested = {}]
    BY <1>3, <2>2 DEF QueueRequested
  <2> HIDE DEF k, x
  <2>4. /\ DOMAIN k = DOMAIN l /\ k.owner_messages = Queue(l, x).owner_messages
        /\ k.channel = l.channel /\ k.requested = {}
        /\ k.lifecycle = l.lifecycle /\ k.awaiting = l.awaiting /\ k.next_id = l.next_id
        /\ k.lifecycle_generation = l.lifecycle_generation
        /\ k.config = l.config /\ k.inventory = l.inventory
    BY <1>1, <2>3 DEF Queue, LoopOK
  <2>5. Sound(k, work, done)
    <3>1. /\ work \in SUBSET Written(l.lifecycle_generation)
          /\ done \in Seq(Written(l.lifecycle_generation))
      BY DEF Sound
    <3> QED BY <1>1, <2>1, <2>4, <3>1, QueuedRescan DEF x
  <2> QED BY <2>4, <2>5 DEF k
<1> QED BY <1>2, <1>3

(* An inventory is taken only if it is the one awaited; one that is obsolete  *)
(* is asked for again, and one from before a sleep ignored.                   *)
LEMMA RescanSound ==
  ASSUME NEW l, NEW work, NEW done, Sound(l, work, done), l.requested = {},
         done # <<>>, Head(done) \in Rescan
  PROVE  LET c == Head(done)
             k == HandleRescan(l, c)
         IN  /\ Sound(k, work, Tail(done)) /\ k.requested = {}
             /\ k.lifecycle = l.lifecycle /\ k.next_id = l.next_id
             /\ k.inventory # l.inventory => l.awaiting # 0 /\ c.id = l.awaiting
<1> DEFINE g == l.lifecycle_generation
           H == Fresh(g)
           S == Written(g)
           c == Head(done)
           k == HandleRescan(l, c)
<1>1. LoopOK(l) /\ work \in SUBSET S /\ done \in Seq(S)
  BY DEF Sound
<1> HIDE DEF S
<1>2. /\ c \in S /\ Tail(done) \in Seq(S)
      /\ Cold(done, H) => c \notin H /\ Cold(Tail(done), H)
      /\ \A m : Lone(done, H, m) =>
           \/ c = m /\ m \in H /\ Cold(Tail(done), H)
           \/ c \notin H /\ Lone(Tail(done), H, m)
  BY <1>1, TakenMessage
<1>3. c \in H <=> c.lifecycle = g
  BY DEF Fresh
<1> HIDE DEF c
<1>4. CASE c.lifecycle # g
  <2>1. k = l /\ c \notin H
    BY <1>3, <1>4 DEF HandleRescan
  <2>2. Tracked(l, work, Tail(done))
    <3>1. ASSUME Waits(l) PROVE OnItsWay(Queued(l), work, Tail(done), g, l.awaiting)
      <4>1. OnItsWay(Queued(l), work, done, g, l.awaiting)
        BY <3>1 DEF Sound, Tracked
      <4>2. PICK m \in H :
              /\ m.id = l.awaiting
              /\ \/ /\ Lone(Queued(l), H, m) /\ work \cap H = {} /\ Cold(done, H)
                 \/ /\ Cold(Queued(l), H) /\ work \cap H = {m} /\ Cold(done, H)
                 \/ /\ Cold(Queued(l), H) /\ work \cap H = {} /\ Lone(done, H, m)
        BY <4>1 DEF OnItsWay
      <4>3. \/ /\ Lone(Queued(l), H, m) /\ work \cap H = {} /\ Cold(Tail(done), H)
            \/ /\ Cold(Queued(l), H) /\ work \cap H = {m} /\ Cold(Tail(done), H)
            \/ /\ Cold(Queued(l), H) /\ work \cap H = {} /\ Lone(Tail(done), H, m)
        BY <1>2, <2>1, <4>2
      <4> QED BY <4>2, <4>3 DEF OnItsWay
    <3>2. ASSUME ~Waits(l) PROVE Nowhere(Queued(l), work, Tail(done), g)
      BY <1>2, <3>2 DEF Sound, Tracked, Nowhere
    <3> QED BY <3>1, <3>2 DEF Tracked
  <2>3. Sound(l, work, Tail(done))
    BY <1>1, <1>2, <2>2 DEF Sound, S
  <2> HIDE DEF k
  <2> QED BY <2>1, <2>3 DEF c, k
<1>5. CASE c.lifecycle = g
  <2>1. c \in H
    BY <1>3, <1>5
  <2>2. /\ Waits(l) /\ c.id = l.awaiting
        /\ Nowhere(Queued(l), work, Tail(done), g)
    <3>1. ~Cold(done, H)
      BY <1>2, <2>1
    <3>2. Waits(l) /\ OnItsWay(Queued(l), work, done, g, l.awaiting)
      BY <3>1 DEF Sound, Tracked, Nowhere
    <3>3. PICK m \in H :
            /\ m.id = l.awaiting
            /\ Cold(Queued(l), H) /\ work \cap H = {} /\ Lone(done, H, m)
      BY <3>1, <3>2 DEF OnItsWay
    <3>4. c = m /\ Cold(Tail(done), H)
      BY <1>2, <2>1, <3>3
    <3> QED BY <3>2, <3>3, <3>4 DEF Nowhere
  <2>3. l.awaiting # 0
    BY <2>2 DEF Waits
  <2> DEFINE taken == [l EXCEPT !.inventory = @ + 1,
                                !.awaiting = IF c.id = @ THEN 0 ELSE @]
             again == Queue(l, RescanFor(l, l.awaiting))
  <2>4. k \in {taken, again}
    BY <1>5, <2>2 DEF HandleRescan
  <2>5. /\ Sound(taken, work, Tail(done)) /\ taken.requested = {}
        /\ taken.lifecycle = l.lifecycle /\ taken.next_id = l.next_id
    <3>1. /\ DOMAIN taken = DOMAIN l /\ taken.owner_messages = l.owner_messages
          /\ taken.channel = l.channel /\ taken.requested = {}
          /\ taken.lifecycle = l.lifecycle /\ taken.awaiting = 0 /\ taken.next_id = l.next_id
          /\ taken.lifecycle_generation = l.lifecycle_generation
          /\ taken.config = l.config /\ taken.inventory = l.inventory + 1
      BY <1>1, <2>2 DEF LoopOK
    <3> HIDE DEF taken
    <3>2. LoopOK(taken) /\ ~Waits(taken)
      BY <1>1, <3>1 DEF LoopOK, Waits
    <3>3. Nowhere(Queued(taken), work, Tail(done), g)
      BY <2>2, <3>1 DEF Queued
    <3> QED BY <1>1, <1>2, <3>1, <3>2, <3>3 DEF Sound, Tracked, S
  <2>6. /\ Sound(again, work, Tail(done)) /\ again.requested = {}
        /\ again.lifecycle = l.lifecycle /\ again.next_id = l.next_id
    <3>1. /\ DOMAIN again = DOMAIN l
          /\ again.channel = l.channel /\ again.requested = {}
          /\ again.lifecycle = l.lifecycle /\ again.awaiting = l.awaiting
          /\ again.next_id = l.next_id
          /\ again.lifecycle_generation = l.lifecycle_generation
          /\ again.config = l.config /\ again.inventory = l.inventory
      BY <1>1 DEF Queue, LoopOK
    <3>2. again.owner_messages = Queue(l, RescanFor(l, l.awaiting)).owner_messages
      OBVIOUS
    <3> HIDE DEF again
    <3> QED BY <1>1, <1>2, <2>2, <3>1, <3>2, QueuedRescan DEF S
  <2> HIDE DEF k, taken, again
  <2> QED BY <2>2, <2>3, <2>4, <2>5, <2>6 DEF k, c
<1> QED BY <1>4, <1>5

(* The report of a run frees its owner.                                       *)
LEMMA ReportSound ==
  ASSUME NEW l, NEW work, NEW done, Sound(l, work, done), l.requested = {},
         done # <<>>, Head(done) \notin Rescan
  PROVE  LET k == [l EXCEPT !.run = "None"]
         IN  /\ Sound(k, work, Tail(done)) /\ k.requested = {}
             /\ k.lifecycle = l.lifecycle /\ k.next_id = l.next_id
             /\ k.inventory = l.inventory
<1> DEFINE g == l.lifecycle_generation
           H == Fresh(g)
           S == Written(g)
           k == [l EXCEPT !.run = "None"]
<1>1. LoopOK(l) /\ work \in SUBSET S /\ done \in Seq(S)
  BY DEF Sound
<1>2. Head(done) \notin H
  BY DEF Fresh
<1> HIDE DEF S
<1>3. /\ Tail(done) \in Seq(S)
      /\ Cold(done, H) => Cold(Tail(done), H)
      /\ \A m : Lone(done, H, m) => Lone(Tail(done), H, m)
  BY <1>1, <1>2, TakenMessage
<1>4. /\ DOMAIN k = DOMAIN l /\ Alike(k, l)
      /\ k.owner_messages = l.owner_messages /\ k.channel = l.channel
  BY <1>1 DEF LoopOK, Alike
<1> HIDE DEF k
<1>5. LoopOK(k) /\ Queued(k) = Queued(l) /\ (Waits(k) <=> Waits(l))
  BY <1>1, <1>4 DEF LoopOK, Alike, Queued, Waits
<1>6. /\ Waits(l) => OnItsWay(Queued(l), work, done, g, l.awaiting)
      /\ ~Waits(l) => Nowhere(Queued(l), work, done, g)
  BY DEF Sound, Tracked
<1>7. /\ Waits(l) => OnItsWay(Queued(l), work, Tail(done), g, l.awaiting)
      /\ ~Waits(l) => Nowhere(Queued(l), work, Tail(done), g)
  BY <1>3, <1>6 DEF OnItsWay, Nowhere
<1>8. Tracked(k, work, Tail(done))
  BY <1>4, <1>5, <1>7 DEF Tracked, Alike
<1>9. Sound(k, work, Tail(done))
  BY <1>1, <1>3, <1>4, <1>5, <1>8 DEF Sound, Alike, S
<1> QED BY <1>4, <1>9 DEF Alike, k

(* What the loop makes of a completion.                                       *)
LEMMA CompletionSound ==
  ASSUME NEW l, NEW work, NEW done, Sound(l, work, done), l.requested = {}, done # <<>>
  PROVE  LET c == Head(done)
             k == HandleCompletion(l, c)
         IN  /\ Sound(k, work, Tail(done)) /\ k.requested = {}
             /\ k.lifecycle = l.lifecycle /\ k.next_id = l.next_id
             /\ k.inventory # l.inventory => l.awaiting # 0 /\ c.id = l.awaiting
<1>1. Head(done) \in Message
  <2>1. done \in Seq(Written(l.lifecycle_generation))
    BY DEF Sound
  <2>2. Head(done) \in Written(l.lifecycle_generation)
    BY <2>1
  <2> QED BY <2>2 DEF Written
<1>2. Head(done).kind = "Rescan" <=> Head(done) \in Rescan
  BY <1>1, Kinds
<1>3. CASE Head(done) \in Rescan
  BY <1>2, <1>3, RescanSound DEF HandleCompletion
<1>4. CASE Head(done) \notin Rescan
  BY <1>2, <1>4, ReportSound DEF HandleCompletion
<1> QED BY <1>3, <1>4

-----------------------------------------------------------------------------
(* Invalidations.                                                             *)

(* The invalidations of some jobs, in some order.                             *)
LEMMA Invalidations ==
  ASSUME NEW jobs, IsFiniteSet(jobs)
  PROVE  LET obsolete == {[kind |-> "Invalidate", job |-> j] : j \in jobs}
         IN  SetToSeq(obsolete) \in Seq(obsolete)
<1> DEFINE Of(j) == [kind |-> "Invalidate", job |-> j]
           T == {Of(j) : j \in jobs}
           f == [j \in jobs |-> Of(j)]
<1>1. IsFiniteSet(T)
  <2>1. f \in Surjection(jobs, T)
    <3>1. f \in [jobs -> T] /\ \A t \in T : \E j \in jobs : f[j] = t
      OBVIOUS
    <3> HIDE DEF f, T
    <3> QED BY <3>1 DEF Surjection
  <2> HIDE DEF f, T
  <2> QED BY <2>1, FS_Surjection
<1> HIDE DEF T
<1> DEFINE n == Cardinality(T)
<1>2. n \in Nat /\ ExistsBijection(1..n, T)
  BY <1>1, FS_CardinalityType
<1> HIDE DEF n
<1>3. \E s \in [1..n -> T] : IsInjective(s)
  BY <1>2 DEF ExistsBijection, Bijection, Injection
<1>4. SetToSeq(T) \in [1..n -> T]
  BY <1>3 DEF SetToSeq, n
<1>5. SetToSeq(T) \in Seq(T)
  <2> DEFINE s == SetToSeq(T)
  <2>1. s \in [1..n -> T]
    BY <1>4
  <2> HIDE DEF s
  <2>2. s \in Seq(T)
    BY <1>2, <2>1
  <2> QED BY <2>2 DEF s
<1> QED BY <1>5 DEF T

(* Dropping jobs concerns no rescan.                                          *)
LEMMA InvalidateSound ==
  ASSUME NEW l, NEW work, NEW done, Sound(l, work, done),
         NEW jobs \in SUBSET DiscoveryJob, IsFiniteSet(DiscoveryJob)
  PROVE  Sound(Invalidated(l, jobs), work, done) /\ Alike(Invalidated(l, jobs), l)
<1> DEFINE g == l.lifecycle_generation
           H == Fresh(g)
           S == Written(g)
           q == l.owner_messages
           T == {[kind |-> "Invalidate", job |-> j] : j \in jobs}
           r == Without(q, T)
           s == SetToSeq(T)
           o == r \o s
           k == Invalidated(l, jobs)
<1>1. LoopOK(l) /\ q \in Seq(S)
  BY DEF Sound, LoopOK
<1>2. H \cap T = {} /\ T \subseteq S
  <2>1. T \cap Rescan = {}
    BY Kinds
  <2>2. T \subseteq Message
    BY DEF Message
  <2> HIDE DEF T
  <2> QED BY <2>1, <2>2 DEF Written, Fresh
<1>3. s \in Seq(T)
  <2>1. IsFiniteSet(jobs)
    BY FS_Subset
  <2> QED BY <2>1, Invalidations
<1>4. k = [l EXCEPT !.owner_messages = o]
  BY DEF Invalidated
<1> HIDE DEF T, S, H, k, s
<1>5. s \in Seq(S) /\ Cold(s, H)
  <2>1. \A i \in DOMAIN s : s[i] \in T
    BY <1>3
  <2>2. s \in Seq(S)
    BY <1>2, <1>3
  <2> QED BY <1>2, <2>1, <2>2 DEF Cold
<1>6. /\ r \in Seq(S)
      /\ Cold(q, H) => Cold(r, H)
      /\ \A m : Lone(q, H, m) => Lone(r, H, m)
  <2> HIDE DEF q
  <2> QED BY <1>1, <1>2, WithoutKeeps
<1> HIDE DEF r
<1>7. /\ o \in Seq(S)
      /\ Cold(q, H) => Cold(o, H)
      /\ \A m : Lone(q, H, m) => Lone(o, H, m)
  BY <1>5, <1>6, JoinedMessages
<1> HIDE DEF o
<1>8. /\ DOMAIN k = DOMAIN l /\ Alike(k, l) /\ k.channel = l.channel
      /\ k.owner_messages = o
  BY <1>1, <1>4 DEF LoopOK, Alike
<1>9. LoopOK(k)
  BY <1>1, <1>7, <1>8 DEF LoopOK, Alike, S
<1>10. Sound(k, work, done)
  BY <1>7, <1>8, <1>9, SoundWithPending DEF H
<1> QED BY <1>8, <1>10 DEF k

(* A new configuration, and maybe other hardware, concern no rescan: the one  *)
(* on its way is asked for again when it is done.                             *)
LEMMA ReloadSound ==
  ASSUME NEW l, NEW work, NEW done, Sound(l, work, done), NEW changed \in BOOLEAN
  PROVE  LET k == [l EXCEPT !.config = @ + 1, !.inventory = IF changed THEN @ + 1 ELSE @]
         IN  /\ Sound(k, work, done) /\ k.requested = l.requested
             /\ k.lifecycle = l.lifecycle /\ k.next_id = l.next_id
<1> DEFINE k == [l EXCEPT !.config = @ + 1, !.inventory = IF changed THEN @ + 1 ELSE @]
<1>1. LoopOK(l)
  BY DEF Sound
<1>2. /\ DOMAIN k = DOMAIN l /\ k.config = l.config + 1
      /\ k.inventory \in {l.inventory, l.inventory + 1}
      /\ k.lifecycle = l.lifecycle /\ k.next_id = l.next_id /\ k.awaiting = l.awaiting
      /\ k.lifecycle_generation = l.lifecycle_generation /\ k.requested = l.requested
      /\ k.owner_messages = l.owner_messages /\ k.channel = l.channel
  BY <1>1 DEF LoopOK
<1> HIDE DEF k
<1>3. LoopOK(k)
  BY <1>1, <1>2 DEF LoopOK
<1>4. Queued(k) = Queued(l) /\ (Waits(k) <=> Waits(l))
  BY <1>2 DEF Queued, Waits
<1>5. Sound(k, work, done)
  BY <1>2, <1>3, <1>4 DEF Sound, Tracked
<1> QED BY <1>2, <1>5 DEF k

-----------------------------------------------------------------------------
(* Events, one after the other.                                               *)

(* Handled, one event after the other.                                        *)
Afters(l, events, after) ==
  after = [n \in 0..Len(events) |->
             IF n = 0 THEN l ELSE PrepareForSleep(after[n - 1], events[n])]

LEMMA HandledSteps ==
  ASSUME NEW l, NEW events \in Seq(Signals)
  PROVE  \E after : Afters(l, events, after) /\ Handled(l, events) = after[Len(events)]
<1> DEFINE N == Len(events)
           After(f, n) == IF n = 0 THEN l ELSE PrepareForSleep(f[n - 1], events[n])
           Upto(f, k) == f = [n \in 0..k |-> After(f, n)]
           A == {k \in 0..N : \E f : Upto(f, k)}
<1>1. 0 \in A
  <2> DEFINE f == [n \in 0..0 |-> l]
  <2>1. Upto(f, 0)
    OBVIOUS
  <2> HIDE DEF Upto, f
  <2> QED BY <2>1
<1>2. ASSUME NEW k \in 1..N, k - 1 \in A PROVE k \in A
  <2>1. PICK f : Upto(f, k - 1)
    BY <1>2
  <2> DEFINE g == [n \in 0..k |-> IF n = k THEN After(f, k) ELSE f[n]]
  <2>2. \A n \in 0..k : After(g, n) = After(f, n)
    OBVIOUS
  <2>3. \A n \in 0..k - 1 : f[n] = After(f, n)
    BY <2>1
  <2>4. \A n \in 0..k : g[n] = After(g, n)
    BY <2>2, <2>3
  <2>5. Upto(g, k)
    BY <2>4
  <2> HIDE DEF Upto, g
  <2> QED BY <2>5
<1>3. N \in A
  <2>1. N \in Nat /\ N \in 0..N
    OBVIOUS
  <2> HIDE DEF A, N
  <2>2. \A n \in 0..N : n \in A
    BY <1>1, <1>2, <2>1, EveryPosition
  <2> QED BY <2>1, <2>2
<1>4. PICK after : Afters(l, events, after)
  BY <1>3 DEF Afters
<1> DEFINE chosen == CHOOSE f : Afters(l, events, f)
<1>5. Afters(l, events, chosen)
  BY <1>4
<1>6. Handled(l, events) = chosen[Len(events)]
  BY DEF Handled, Afters
<1> QED BY <1>5, <1>6

(* Nothing, and one more event.                                               *)
LEMMA HandledNone ==
  ASSUME NEW l
  PROVE  Handled(l, <<>>) = l
<1>1. <<>> \in Seq(Signals) /\ Len(<<>>) = 0
  OBVIOUS
<1>2. PICK after : Afters(l, <<>>, after) /\ Handled(l, <<>>) = after[Len(<<>>)]
  BY <1>1, HandledSteps
<1> QED BY <1>1, <1>2 DEF Afters

LEMMA HandledMore ==
  ASSUME NEW l, NEW events \in Seq(Signals), NEW signal \in Signals
  PROVE  Handled(l, Append(events, signal)) = PrepareForSleep(Handled(l, events), signal)
<1> DEFINE N == Len(events)
           more == Append(events, signal)
<1>1. /\ more \in Seq(Signals) /\ N \in Nat /\ Len(more) = N + 1
      /\ more[N + 1] = signal /\ \A n \in 1..N : more[n] = events[n]
  OBVIOUS
<1>2. PICK a : Afters(l, events, a) /\ Handled(l, events) = a[N]
  BY HandledSteps
<1> HIDE DEF more
<1>3. PICK b : Afters(l, more, b) /\ Handled(l, more) = b[Len(more)]
  BY <1>1, HandledSteps
<1> HIDE DEF N
<1>4. /\ a[0] = l /\ \A n \in 1..N : a[n] = PrepareForSleep(a[n - 1], events[n])
  BY <1>1, <1>2 DEF Afters, N
<1>5. /\ b[0] = l /\ \A n \in 1..N + 1 : b[n] = PrepareForSleep(b[n - 1], more[n])
  BY <1>1, <1>3 DEF Afters
<1> DEFINE A == {n \in 0..N : a[n] = b[n]}
<1>6. 0 \in A /\ \A n \in 1..N : n - 1 \in A => n \in A
  BY <1>1, <1>4, <1>5
<1>7. a[N] = b[N]
  <2> HIDE DEF A
  <2>1. \A n \in 0..N : n \in A
    BY <1>1, <1>6, EveryPosition
  <2> QED BY <1>1, <2>1 DEF A
<1> QED BY <1>1, <1>2, <1>3, <1>5, <1>7 DEF more

(* The loop is as sound after any events.                                     *)
LEMMA HandledSound ==
  ASSUME NEW l, NEW work, NEW done, Sound(l, work, done), NEW events \in Seq(Signals)
  PROVE  /\ Sound(Handled(l, events), work, done)
         /\ Handled(l, events).inventory = l.inventory
<1> DEFINE N == Len(events)
<1>1. PICK a : Afters(l, events, a) /\ Handled(l, events) = a[N]
  BY HandledSteps
<1>2. N \in Nat /\ \A n \in 1..N : events[n] \in Signals
  OBVIOUS
<1>3. a[0] = l /\ \A n \in 1..N : a[n] = PrepareForSleep(a[n - 1], events[n])
  BY <1>1, <1>2 DEF Afters
<1> HIDE DEF N
<1> DEFINE A == {n \in 0..N : Sound(a[n], work, done) /\ a[n].inventory = l.inventory}
<1>4. 0 \in A
  BY <1>2, <1>3
<1>5. ASSUME NEW n \in 1..N, n - 1 \in A PROVE n \in A
  <2> DEFINE k == a[n - 1]
  <2>1. Sound(k, work, done) /\ k.inventory = l.inventory
    BY <1>5
  <2>2. a[n] = PrepareForSleep(k, events[n]) /\ events[n] \in {"Sleep", "Wake"} /\ n \in 0..N
    BY <1>2, <1>3 DEF Signals
  <2> HIDE DEF k
  <2>3. \A signal \in {"Sleep", "Wake"} :
          /\ Sound(PrepareForSleep(k, signal), work, done)
          /\ PrepareForSleep(k, signal).inventory = k.inventory
    BY <2>1, SuspendSound, ResumeSound
  <2> QED BY <2>1, <2>2, <2>3
<1>6. N \in A
  <2> HIDE DEF A
  <2>1. \A n \in 0..N : n \in A
    BY <1>2, <1>4, <1>5, EveryPosition
  <2> QED BY <1>2, <2>1
<1> QED BY <1>1, <1>6 DEF N

-----------------------------------------------------------------------------
(* The steps of the loop and of the worker.                                   *)

(* The events of a drain are signals.                                         *)
LEMMA EventsAreSignals ==
  ASSUME NEW s, SignalsOK(s)
  PROVE  Events(s) \in Seq(Signals)
<1>1. /\ <<>> \in Seq(Signals)
      /\ <<"Sleep", "Wake", "Sleep">> \in Seq(Signals)
      /\ <<"Sleep", "Wake">> \in Seq(Signals)
  BY DEF Signals
<1>2. s.dirty => <<s.latest>> \in Seq(Signals)
  BY DEF SignalsOK
<1> QED BY <1>1, <1>2 DEF Events

(* An iteration: only the events it reads change the lifecycle.               *)
LEMMA IterateSound ==
  ASSUME CapacityAssumption, SignalsOK(signals), NEW start \in BOOLEAN,
         NEW l, NEW work, NEW done, Sound(l, work, done), Iterate(l, start)
  PROVE  /\ Sound(loop', work, done) /\ loop'.requested = {}
         /\ loop'.inventory = l.inventory
         /\ \E k : /\ Sound(k, work, done) /\ Alike(k, l)
                   /\ loop'.lifecycle = Handled(k, Events(signals)).lifecycle
<1> DEFINE begun == Flush(l)
           told == Handled(begun, Events(signals))
           queued == QueueRequested(told)
           asked == Flush(queued)
           begins == Started(asked, start)
<1>1. loop' = Flush(begins)
  BY DEF Iterate
<1>2. Sound(begun, work, done) /\ Alike(begun, l)
  BY FlushSound
<1> HIDE DEF begun
<1>3. Sound(told, work, done) /\ told.inventory = begun.inventory
  BY <1>2, EventsAreSignals, HandledSound
<1> HIDE DEF told
<1>4. /\ Sound(queued, work, done) /\ queued.requested = {}
      /\ queued.lifecycle = told.lifecycle /\ queued.inventory = told.inventory
  BY <1>3, RequestSound
<1> HIDE DEF queued
<1>5. Sound(asked, work, done) /\ Alike(asked, queued)
  BY <1>4, FlushSound
<1> HIDE DEF asked
<1>6. Sound(begins, work, done) /\ Alike(begins, asked)
  BY <1>5, RunsSound
<1> HIDE DEF begins
<1>7. Sound(loop', work, done) /\ Alike(loop', begins)
  BY <1>1, <1>6, FlushSound
<1>8. /\ loop'.requested = {} /\ loop'.inventory = l.inventory
      /\ loop'.lifecycle = told.lifecycle
  BY <1>2, <1>3, <1>4, <1>5, <1>6, <1>7 DEF Alike
<1> QED BY <1>2, <1>7, <1>8 DEF told

(* A run that is done is no rescan.                                           *)
LEMMA ReportedRun ==
  ASSUME NEW l, NEW work, NEW done, Sound(l, work, done)
  PROVE  Sound(l, work, Append(done, Run))
<1> DEFINE g == l.lifecycle_generation
           H == Fresh(g)
           S == Written(g)
           r == Append(done, Run)
<1>1. done \in Seq(S) /\ Run \in S /\ Run \notin H
  BY Kinds DEF Sound
<1> HIDE DEF S, H
<1>2. /\ r \in Seq(S)
      /\ Cold(done, H) => Cold(r, H)
      /\ \A m : Lone(done, H, m) => Lone(r, H, m)
  BY <1>1, AppendedMessage
<1> HIDE DEF r
<1>3. /\ Nowhere(Queued(l), work, done, g) => Nowhere(Queued(l), work, r, g)
      /\ OnItsWay(Queued(l), work, done, g, l.awaiting)
           => OnItsWay(Queued(l), work, r, g, l.awaiting)
  BY <1>2 DEF Nowhere, OnItsWay, H
<1> QED BY <1>2, <1>3 DEF Sound, Tracked, S, r

(* The worker takes a message, or drops it if it is no fresh rescan.          *)
LEMMA ReceiveSound ==
  ASSUME NEW l, NEW done, Sound(l, {}, done), l.channel # <<>>
  PROVE  LET m == Head(l.channel)
             k == [l EXCEPT !.channel = Tail(@)]
         IN  /\ m \in Written(l.lifecycle_generation)
             /\ Alike(k, l)
             /\ m \notin Fresh(l.lifecycle_generation) => Sound(k, {}, done)
             /\ Sound(k, {m}, done)
<1> DEFINE g == l.lifecycle_generation
           H == Fresh(g)
           S == Written(g)
           c == l.channel
           o == l.owner_messages
           m == Head(c)
           r == Tail(c)
           k == [l EXCEPT !.channel = Tail(@)]
<1>1. LoopOK(l) /\ c \in Seq(S) /\ o \in Seq(S)
  BY DEF Sound, LoopOK
<1>2. Len(r) <= OWNER_CHANNEL_CAPACITY
  <2>1. Len(c) \in Nat /\ Len(r) = Len(c) - 1 /\ Len(c) <= OWNER_CHANNEL_CAPACITY
    BY <1>1 DEF LoopOK
  <2> HIDE DEF c, r
  <2>2. CapacityAssumption => OWNER_CHANNEL_CAPACITY \in Nat
    BY DEF CapacityAssumption
  <2> QED BY <2>1, <2>2, CapacityAssumption
<1>3. /\ DOMAIN k = DOMAIN l /\ Alike(k, l)
      /\ k.channel = r /\ k.owner_messages = o
  BY <1>1 DEF LoopOK, Alike
<1>4. Queued(l) = c \o o /\ Queued(k) = r \o o
  BY <1>3 DEF Queued
<1> HIDE DEF S, H, k
<1>5. /\ m \in S /\ r \in Seq(S)
      /\ Cold(c, H) => m \notin H /\ Cold(r, H)
      /\ \A x : Lone(c, H, x) =>
           \/ m = x /\ x \in H /\ Cold(r, H)
           \/ m \notin H /\ Lone(r, H, x)
  <2> HIDE DEF c
  <2>1. c # <<>>
    BY DEF c
  <2> QED BY <1>1, <2>1, TakenMessage
<1> HIDE DEF r, c, o, m
<1>6. /\ Cold(c \o o, H) <=> Cold(c, H) /\ Cold(o, H)
      /\ \A x : Lone(c \o o, H, x) <=> \/ Lone(c, H, x) /\ Cold(o, H)
                                       \/ Cold(c, H) /\ Lone(o, H, x)
  BY <1>1, JoinedMessages
<1>7. /\ Cold(r \o o, H) <=> Cold(r, H) /\ Cold(o, H)
      /\ \A x : Lone(r \o o, H, x) <=> \/ Lone(r, H, x) /\ Cold(o, H)
                                       \/ Cold(r, H) /\ Lone(o, H, x)
  BY <1>1, <1>5, JoinedMessages
<1>8. LoopOK(k) /\ (Waits(k) <=> Waits(l))
  BY <1>1, <1>2, <1>3, <1>5 DEF LoopOK, Alike, Waits, S, o
<1>9. done \in Seq(S) /\ {m} \in SUBSET S
  BY <1>5 DEF Sound, S
<1> DEFINE K == Queued(k)
           L == Queued(l)
<1>10. /\ Cold(L, H) => m \notin H /\ Cold(K, H)
       /\ \A x : Lone(L, H, x) =>
            \/ m = x /\ x \in H /\ Cold(K, H)
            \/ m \notin H /\ Lone(K, H, x)
  BY <1>4, <1>5, <1>6, <1>7
<1> HIDE DEF K, L
<1>11. ASSUME Nowhere(L, {}, done, g)
       PROVE  Nowhere(K, {}, done, g) /\ Nowhere(K, {m}, done, g)
  BY <1>10, <1>11 DEF Nowhere, H
<1>12. ASSUME OnItsWay(L, {}, done, g, l.awaiting)
       PROVE  /\ m \notin H => OnItsWay(K, {}, done, g, l.awaiting)
              /\ OnItsWay(K, {m}, done, g, l.awaiting)
  <2>1. PICK x \in H :
          /\ x.id = l.awaiting
          /\ \/ Lone(L, H, x) /\ Cold(done, H)
             \/ Cold(L, H) /\ Lone(done, H, x)
    BY <1>12 DEF OnItsWay, H
  <2>2. CASE Lone(L, H, x) /\ Cold(done, H)
    <3>1. \/ m = x /\ Cold(K, H)
          \/ m \notin H /\ Lone(K, H, x)
      BY <1>10, <2>2
    <3>2. \/ m \in H /\ {m} \cap H = {x} /\ Cold(K, H)
          \/ m \notin H /\ {m} \cap H = {} /\ Lone(K, H, x)
      BY <2>1, <3>1
    <3> QED BY <2>1, <2>2, <3>2 DEF OnItsWay, H
  <2>3. CASE Cold(L, H) /\ Lone(done, H, x)
    <3>1. {m} \cap H = {} /\ Cold(K, H)
      BY <1>10, <2>3
    <3> QED BY <2>1, <2>3, <3>1 DEF OnItsWay, H
  <2> QED BY <2>1, <2>2, <2>3
<1>13. /\ m \notin H => Tracked(k, {}, done)
       /\ Tracked(k, {m}, done)
  <2>1. Tracked(l, {}, done)
    BY DEF Sound
  <2> QED BY <1>3, <1>8, <1>11, <1>12, <2>1 DEF Tracked, Alike, K, L
<1>14. /\ m \notin H => Sound(k, {}, done)
       /\ Sound(k, {m}, done)
  BY <1>3, <1>8, <1>9, <1>13 DEF Sound, Alike, S
<1> QED BY <1>3, <1>5, <1>14 DEF k, m, c, S, H

(* The worker is done with a message, or gives it up if it is no fresh rescan. *)
LEMMA FinishSound ==
  ASSUME NEW l, NEW m, NEW done, Sound(l, {m}, done)
  PROVE  /\ m \notin Fresh(l.lifecycle_generation) => Sound(l, {}, done)
         /\ Sound(l, {}, Append(done, m))
<1> DEFINE g == l.lifecycle_generation
           H == Fresh(g)
           S == Written(g)
           r == Append(done, m)
           L == Queued(l)
<1>1. done \in Seq(S) /\ m \in S
  BY DEF Sound
<1> HIDE DEF S, H
<1>2. /\ r \in Seq(S)
      /\ Cold(done, H) /\ m \notin H => Cold(r, H)
      /\ Cold(done, H) /\ m \in H => Lone(r, H, m)
      /\ \A x : Lone(done, H, x) /\ m \notin H => Lone(r, H, x)
  BY <1>1, AppendedMessage
<1> HIDE DEF r, L
<1>3. ASSUME Nowhere(L, {m}, done, g)
      PROVE  Nowhere(L, {}, done, g) /\ Nowhere(L, {}, r, g)
  <2>1. m \notin H
    BY <1>3 DEF Nowhere, H
  <2> QED BY <1>2, <1>3, <2>1 DEF Nowhere, H
<1>4. ASSUME OnItsWay(L, {m}, done, g, l.awaiting)
      PROVE  /\ m \notin H => OnItsWay(L, {}, done, g, l.awaiting)
             /\ OnItsWay(L, {}, r, g, l.awaiting)
  <2>1. PICK x \in H :
          /\ x.id = l.awaiting
          /\ \/ Lone(L, H, x) /\ {m} \cap H = {} /\ Cold(done, H)
             \/ Cold(L, H) /\ {m} \cap H = {x} /\ Cold(done, H)
             \/ Cold(L, H) /\ {m} \cap H = {} /\ Lone(done, H, x)
    BY <1>4 DEF OnItsWay, H
  <2>2. \/ m \notin H /\ Lone(L, H, x) /\ Cold(done, H)
        \/ m \in H /\ m = x /\ Cold(L, H) /\ Cold(done, H)
        \/ m \notin H /\ Cold(L, H) /\ Lone(done, H, x)
    BY <2>1
  <2>3. \/ m \notin H /\ Lone(L, H, x) /\ Cold(done, H) /\ Cold(r, H)
        \/ m \in H /\ Cold(L, H) /\ Lone(r, H, x)
        \/ m \notin H /\ Cold(L, H) /\ Lone(done, H, x) /\ Lone(r, H, x)
    BY <1>2, <2>2
  <2>4. {} \cap H = {}
    OBVIOUS
  <2> QED BY <2>1, <2>3, <2>4 DEF OnItsWay, H
<1>5. /\ m \notin H => Tracked(l, {}, done)
      /\ Tracked(l, {}, r)
  <2>1. Tracked(l, {m}, done)
    BY DEF Sound
  <2> QED BY <1>3, <1>4, <2>1 DEF Tracked, L
<1> QED BY <1>1, <1>2, <1>5 DEF Sound, S, H, r

-----------------------------------------------------------------------------
(* What was signalled.                                                        *)

(* What the signals since the loop last looked would make of it, one by one.  *)
Reflects(s, l, end) ==
  /\ end.lifecycle = "Suspended" <=> s.latest = "Sleep"
  /\ end.next_id >= l.next_id
  /\ end.next_id # l.next_id <=> s.resume_pending
  /\ end.requested # {} <=> s.resume_pending /\ s.latest = "Wake"
  /\ ~s.dirty => end.lifecycle = l.lifecycle
  /\ s.latest = "Wake" /\ ~s.resume_pending => l.lifecycle = "Running"

Heard == said \in Seq(Signals) /\ Reflects(signals, loop, Handled(loop, said))

CycleInv ==
  /\ SignalsOK(signals) /\ WorkerOK(worker)
  /\ Sound(loop, worker.work, completions) /\ loop.requested = {}
  /\ Heard

(* One more signal, and what it would make of the loop.                       *)
LEMMA OneMoreSignal ==
  ASSUME NEW s, SignalsOK(s), NEW signal \in Signals,
         NEW l, l.next_id \in Nat, l.lifecycle \in {"Running", "Suspended"},
         NEW end, NEW work, NEW done, Sound(end, work, done), Reflects(s, l, end)
  PROVE  LET t == Push(s, signal)
         IN  SignalsOK(t) /\ Reflects(t, l, PrepareForSleep(end, signal))
<1> DEFINE t == Push(s, signal)
           k == PrepareForSleep(end, signal)
<1>1. /\ end.lifecycle \in {"Running", "Suspended"} /\ end.next_id \in Nat
  BY DEF Sound, LoopOK
<1>2. /\ s.latest \in {"Sleep", "Wake", "None"} /\ s.dirty \in BOOLEAN
      /\ s.resume_pending \in BOOLEAN /\ signal \in {"Sleep", "Wake"}
      /\ s.resume_pending => s.dirty
      /\ s.dirty => s.latest # "None"
  BY DEF SignalsOK, Signals
<1>3. t = IF s.latest = signal THEN s
          ELSE [s EXCEPT !.resume_pending = @ \/ (s.latest = "Sleep" /\ signal = "Wake"),
                         !.latest = signal, !.dirty = TRUE]
  BY DEF Push
<1> HIDE DEF t
<1>4. s.latest # signal =>
        /\ DOMAIN t = DOMAIN s /\ t.latest = signal /\ t.dirty = TRUE
        /\ t.resume_pending = (s.resume_pending \/ (s.latest = "Sleep" /\ signal = "Wake"))
  <2> DEFINE pending == s.resume_pending \/ (s.latest = "Sleep" /\ signal = "Wake")
  <2>1. s.latest # signal =>
          t = [s EXCEPT !.resume_pending = pending, !.latest = signal, !.dirty = TRUE]
    BY <1>3
  <2> HIDE DEF pending
  <2>2. s.latest # signal =>
        /\ DOMAIN t = DOMAIN s /\ t.latest = signal /\ t.dirty = TRUE
        /\ t.resume_pending = pending
    BY <2>1 DEF SignalsOK
  <2> QED BY <2>2 DEF pending
<1>5. SignalsOK(t)
  <2>1. CASE s.latest = signal
    BY <1>3, <2>1
  <2>2. CASE s.latest # signal
    <3>1. /\ t.dirty = TRUE /\ t.latest \in Signals /\ t.latest # "None"
          /\ DOMAIN t = DOMAIN s
      BY <1>2, <1>4, <2>2 DEF Signals
    <3>2. t.resume_pending \in BOOLEAN
      BY <1>2, <1>4, <2>2
    <3> QED BY <3>1, <3>2 DEF SignalsOK
  <2> QED BY <2>1, <2>2
<1>6. /\ signal = "Sleep" =>
           k.lifecycle = "Suspended" /\ k.requested = {} /\ k.next_id = end.next_id
      /\ signal = "Wake" =>
           /\ k.lifecycle = "Running"
           /\ IF end.lifecycle = "Suspended"
              THEN k.next_id = end.next_id + 1 /\ k.requested # {}
              ELSE k = end
  BY SuspendSound, ResumeSound
<1> HIDE DEF k
<1>7. Reflects(t, l, k)
  <2>1. CASE s.latest = signal
    <3>1. t = s
      BY <1>3, <2>1
    <3>2. CASE signal = "Sleep"
      BY <1>1, <1>2, <1>6, <2>1, <3>1, <3>2 DEF Reflects
    <3>3. CASE signal = "Wake"
      <4>1. k = end
        BY <1>1, <1>6, <2>1, <3>3 DEF Reflects
      <4> QED BY <3>1, <4>1
    <3> QED BY <1>2, <3>2, <3>3
  <2>2. CASE s.latest # signal /\ signal = "Sleep"
    <3>1. /\ t.latest = "Sleep" /\ t.dirty = TRUE
          /\ (t.resume_pending <=> s.resume_pending)
      BY <1>2, <1>4, <2>2
    <3> QED BY <1>1, <1>6, <2>2, <3>1 DEF Reflects
  <2>3. CASE s.latest = "Sleep" /\ signal = "Wake"
    <3>1. t.latest = "Wake" /\ t.dirty = TRUE /\ t.resume_pending
      BY <1>4, <2>3
    <3>2. /\ k.lifecycle = "Running" /\ k.next_id = end.next_id + 1 /\ k.requested # {}
      BY <1>6, <2>3 DEF Reflects
    <3>3. k.next_id > l.next_id
      BY <1>1, <3>2 DEF Reflects
    <3> QED BY <1>1, <3>1, <3>2, <3>3 DEF Reflects
  <2>4. CASE s.latest = "None" /\ signal = "Wake"
    <3>1. t.latest = "Wake" /\ t.dirty = TRUE /\ ~t.resume_pending /\ ~s.resume_pending
      BY <1>2, <1>4, <2>4
    <3>2. end.lifecycle = "Running" /\ l.lifecycle = "Running" /\ k = end
      BY <1>1, <1>2, <1>6, <2>4 DEF Reflects
    <3> QED BY <2>4, <3>1, <3>2 DEF Reflects
  <2> QED BY <1>2, <2>1, <2>2, <2>3, <2>4
<1> QED BY <1>5, <1>7 DEF t, k

(* Loops that agree on their lifecycle, and on what they request.             *)
Agree(k, l) ==
  /\ k.lifecycle = l.lifecycle /\ k.next_id = l.next_id
  /\ k.requested = {} <=> l.requested = {}

(* They agree after the same events.                                          *)
LEMMA HandledAgree ==
  ASSUME NEW k, NEW l, NEW work, NEW done, Sound(k, work, done),
         NEW before, NEW past, Sound(l, before, past),
         Agree(k, l), NEW events \in Seq(Signals)
  PROVE  Agree(Handled(k, events), Handled(l, events))
<1> DEFINE N == Len(events)
<1>1. PICK a : Afters(k, events, a) /\ Handled(k, events) = a[N]
  BY HandledSteps
<1>2. PICK b : Afters(l, events, b) /\ Handled(l, events) = b[N]
  BY HandledSteps
<1>3. N \in Nat /\ \A n \in 1..N : events[n] \in Signals
  OBVIOUS
<1>4. /\ a[0] = k /\ \A n \in 1..N : a[n] = PrepareForSleep(a[n - 1], events[n])
      /\ b[0] = l /\ \A n \in 1..N : b[n] = PrepareForSleep(b[n - 1], events[n])
  <2>1. a[0] = k /\ \A n \in 1..N : a[n] = PrepareForSleep(a[n - 1], events[n])
    BY <1>1, <1>3 DEF Afters
  <2>2. b[0] = l /\ \A n \in 1..N : b[n] = PrepareForSleep(b[n - 1], events[n])
    BY <1>2, <1>3 DEF Afters
  <2> QED BY <2>1, <2>2
<1> HIDE DEF N
<1> DEFINE A == {n \in 0..N : /\ Sound(a[n], work, done) /\ Sound(b[n], before, past)
                              /\ Agree(a[n], b[n])}
<1>5. 0 \in A
  BY <1>3, <1>4
<1>6. ASSUME NEW n \in 1..N, n - 1 \in A PROVE n \in A
  <2> DEFINE c == a[n - 1]
             d == b[n - 1]
             x == events[n]
  <2>1. Sound(c, work, done) /\ Sound(d, before, past) /\ Agree(c, d)
    BY <1>6
  <2>2. /\ a[n] = PrepareForSleep(c, x) /\ b[n] = PrepareForSleep(d, x)
        /\ x \in {"Sleep", "Wake"} /\ n \in 0..N
    BY <1>3, <1>4 DEF Signals
  <2> HIDE DEF c, d, x
  <2> DEFINE u == PrepareForSleep(c, x)
             v == PrepareForSleep(d, x)
  <2>3. Sound(u, work, done) /\ Sound(v, before, past) /\ Agree(u, v)
    <3>1. CASE x = "Sleep"
      BY <2>1, <3>1, SuspendSound DEF Agree
    <3>2. CASE x = "Wake"
      <4>1. /\ Sound(u, work, done) /\ u.lifecycle = "Running"
            /\ IF c.lifecycle = "Suspended" THEN u.next_id = c.next_id + 1 /\ u.requested # {}
               ELSE u = c
        BY <2>1, <3>2, ResumeSound
      <4>2. /\ Sound(v, before, past) /\ v.lifecycle = "Running"
            /\ IF d.lifecycle = "Suspended" THEN v.next_id = d.next_id + 1 /\ v.requested # {}
               ELSE v = d
        BY <2>1, <3>2, ResumeSound
      <4> HIDE DEF u, v
      <4> QED BY <2>1, <4>1, <4>2 DEF Agree
    <3> QED BY <2>2, <3>1, <3>2
  <2> QED BY <2>2, <2>3
<1>7. N \in A
  <2> HIDE DEF A
  <2>1. \A n \in 0..N : n \in A
    BY <1>3, <1>5, <1>6, EveryPosition
  <2> QED BY <1>3, <2>1
<1> QED BY <1>1, <1>2, <1>7 DEF N

(* What the events of a drain make of a loop that reads them.                 *)
LEMMA EventsOutcome ==
  ASSUME NEW s, SignalsOK(s), NEW l, NEW work, NEW done, Sound(l, work, done),
         l.requested = {}, ~s.dirty => (l.lifecycle = "Suspended" <=> s.latest = "Sleep"),
         s.latest = "Wake" /\ ~s.resume_pending => l.lifecycle = "Running"
  PROVE  LET end == Handled(l, Events(s))
         IN  /\ end.lifecycle = "Suspended" <=> s.latest = "Sleep"
             /\ end.lifecycle \in {"Running", "Suspended"}
             /\ end.next_id # l.next_id <=> s.resume_pending
             /\ end.requested # {} <=> s.resume_pending /\ s.latest = "Wake"
<1> DEFINE end == Handled(l, Events(s))
           None == <<>>
           One == <<"Sleep">>
           Two == <<"Sleep", "Wake">>
           Woken == <<"Wake">>
           Three == <<"Sleep", "Wake", "Sleep">>
<1>1. /\ None \in Seq(Signals) /\ One \in Seq(Signals) /\ Two \in Seq(Signals)
      /\ "Sleep" \in Signals /\ "Wake" \in Signals
      /\ One = Append(None, "Sleep") /\ Woken = Append(None, "Wake")
      /\ Two = Append(One, "Wake") /\ Three = Append(Two, "Sleep")
  BY DEF Signals
<1>2. /\ s.latest \in {"Sleep", "Wake", "None"} /\ s.dirty \in BOOLEAN
      /\ s.resume_pending \in BOOLEAN
      /\ s.resume_pending => s.dirty
      /\ s.dirty => s.latest # "None"
      /\ l.lifecycle \in {"Running", "Suspended"} /\ l.next_id \in Nat
  BY DEF SignalsOK, Signals, Sound, LoopOK
<1>3. /\ ~s.dirty => Events(s) = None
      /\ s.dirty /\ s.resume_pending /\ s.latest = "Sleep" => Events(s) = Three
      /\ s.dirty /\ s.resume_pending /\ s.latest = "Wake" => Events(s) = Two
      /\ s.dirty /\ ~s.resume_pending /\ s.latest = "Sleep" => Events(s) = One
      /\ s.dirty /\ ~s.resume_pending /\ s.latest = "Wake" => Events(s) = Woken
  BY DEF Events
<1> HIDE DEF None, One, Two, Three, Woken
<1>4. Handled(l, None) = l
  BY HandledNone DEF None
<1>5. /\ Handled(l, One) = PrepareForSleep(l, "Sleep")
      /\ Handled(l, Woken) = PrepareForSleep(l, "Wake")
      /\ Handled(l, Two) = PrepareForSleep(Handled(l, One), "Wake")
      /\ Handled(l, Three) = PrepareForSleep(Handled(l, Two), "Sleep")
  <2>1. \A e \in Seq(Signals), x \in Signals :
          Handled(l, Append(e, x)) = PrepareForSleep(Handled(l, e), x)
    BY HandledMore
  <2>2. /\ Handled(l, One) = PrepareForSleep(l, "Sleep")
        /\ Handled(l, Woken) = PrepareForSleep(l, "Wake")
    BY <1>1, <1>4, <2>1
  <2>3. Handled(l, Two) = PrepareForSleep(Handled(l, One), "Wake")
    BY <1>1, <2>1
  <2>4. Handled(l, Three) = PrepareForSleep(Handled(l, Two), "Sleep")
    BY <1>1, <2>1
  <2> QED BY <2>2, <2>3, <2>4
<1> DEFINE a == Handled(l, One)
           b == Handled(l, Two)
           c == Handled(l, Three)
           d == Handled(l, Woken)
<1>6. Sound(a, work, done) /\ a.lifecycle = "Suspended" /\ a.requested = {}
      /\ a.next_id = l.next_id
  BY <1>5, SuspendSound
<1>7. d.lifecycle = "Running" /\ (l.lifecycle # "Suspended" => d = l)
  BY <1>5, ResumeSound
<1> HIDE DEF a, d
<1>8. Sound(b, work, done) /\ b.lifecycle = "Running" /\ b.requested # {}
      /\ b.next_id = l.next_id + 1
  BY <1>5, <1>6, ResumeSound DEF a
<1> HIDE DEF b
<1>9. c.lifecycle = "Suspended" /\ c.requested = {} /\ c.next_id = l.next_id + 1
  BY <1>5, <1>8, SuspendSound DEF b
<1> HIDE DEF c
<1>10. l.next_id + 1 # l.next_id
  BY <1>2
<1> DEFINE Right(e) == /\ e.lifecycle = "Suspended" <=> s.latest = "Sleep"
                       /\ e.lifecycle \in {"Running", "Suspended"}
                       /\ e.next_id # l.next_id <=> s.resume_pending
                       /\ e.requested # {} <=> s.resume_pending /\ s.latest = "Wake"
<1>11. CASE ~s.dirty
  <2>1. Right(l)
    BY <1>2, <1>11
  <2> QED BY <1>3, <1>4, <1>11, <2>1
<1>12. CASE s.dirty /\ s.resume_pending /\ s.latest = "Sleep"
  <2>1. Right(c)
    BY <1>9, <1>10, <1>12
  <2> QED BY <1>3, <1>12, <2>1 DEF c
<1>13. CASE s.dirty /\ s.resume_pending /\ s.latest = "Wake"
  <2>1. Right(b)
    BY <1>8, <1>10, <1>13
  <2> QED BY <1>3, <1>13, <2>1 DEF b
<1>14. CASE s.dirty /\ ~s.resume_pending /\ s.latest = "Sleep"
  <2>1. Right(a)
    BY <1>6, <1>14
  <2> QED BY <1>3, <1>14, <2>1 DEF a
<1>15. CASE s.dirty /\ ~s.resume_pending /\ s.latest = "Wake"
  <2>1. Right(d)
    BY <1>7, <1>15
  <2> QED BY <1>3, <1>15, <2>1 DEF d
<1> QED BY <1>2, <1>11, <1>12, <1>13, <1>14, <1>15

-----------------------------------------------------------------------------
(* The invariant.                                                             *)

(* It holds at first.                                                         *)
LEMMA CycleInit ==
  ASSUME Init, CapacityAssumption
  PROVE  CycleInv
<1>1. SignalsOK(signals)
  BY DEF Init, SignalsOK
<1>2. WorkerOK(worker) /\ worker.work = {}
  BY DEF Init, WorkerOK, Idle
<1>3. /\ loop.lifecycle = "Running" /\ loop.awaiting = 0 /\ loop.next_id = 1
      /\ loop.config = 1 /\ loop.inventory = 1 /\ loop.lifecycle_generation = 0
      /\ loop.requested = {} /\ loop.owner_messages = <<>> /\ loop.channel = <<>>
      /\ completions = <<>> /\ said = <<>>
  BY DEF Init
<1>4. {"lifecycle", "awaiting", "next_id", "config", "inventory", "lifecycle_generation",
       "run", "requested", "owner_messages", "channel"} \subseteq DOMAIN loop
  BY DEF Init
<1>5. /\ \A S : <<>> \in Seq(S)
      /\ Len(<<>>) = 0 /\ <<>> \o <<>> = <<>>
      /\ 0 <= OWNER_CHANNEL_CAPACITY
  BY DEF CapacityAssumption
<1>6. LoopOK(loop)
  BY <1>3, <1>4, <1>5 DEF LoopOK
<1>7. Sound(loop, worker.work, completions)
  <2>1. \A H : Cold(<<>>, H)
    BY DEF Cold
  <2>2. Nowhere(Queued(loop), {}, <<>>, 0)
    BY <1>3, <1>5, <2>1 DEF Nowhere, Queued
  <2>3. ~Waits(loop)
    BY <1>3 DEF Waits
  <2> QED BY <1>2, <1>3, <1>5, <1>6, <2>2, <2>3 DEF Sound, Tracked
<1>8. Heard
  <2>1. Handled(loop, said) = loop
    BY <1>3, HandledNone
  <2>2. signals.latest = "None" /\ ~signals.dirty /\ ~signals.resume_pending
    BY DEF Init
  <2>3. Reflects(signals, loop, loop)
    BY <1>3, <2>2 DEF Reflects
  <2> QED BY <1>3, <1>5, <2>1, <2>3 DEF Heard
<1> QED BY <1>1, <1>2, <1>3, <1>7, <1>8 DEF CycleInv

(* An iteration keeps it.                                                     *)
LEMMA IterateInv ==
  ASSUME CapacityAssumption, CycleInv, NEW start \in BOOLEAN,
         NEW l, Iterate(l, start), Sound(l, worker'.work, completions'),
         l.requested = {}, l.lifecycle = loop.lifecycle, WorkerOK(worker')
  PROVE  CycleInv' /\ loop'.inventory = l.inventory
<1>1. SignalsOK(signals) /\ Reflects(signals, loop, Handled(loop, said))
  BY DEF CycleInv, Heard
<1>2. /\ Sound(loop', worker'.work, completions') /\ loop'.requested = {}
      /\ loop'.inventory = l.inventory
  BY <1>1, IterateSound
<1>3. PICK k : /\ Sound(k, worker'.work, completions') /\ Alike(k, l)
               /\ loop'.lifecycle = Handled(k, Events(signals)).lifecycle
  BY <1>1, IterateSound
<1>4. loop'.lifecycle \in {"Running", "Suspended"}
      /\ (loop'.lifecycle = "Suspended" <=> signals.latest = "Sleep")
  <2>1. k.requested = {} /\ k.lifecycle = loop.lifecycle
    BY <1>3 DEF Alike
  <2>2. /\ ~signals.dirty => (k.lifecycle = "Suspended" <=> signals.latest = "Sleep")
        /\ signals.latest = "Wake" /\ ~signals.resume_pending => k.lifecycle = "Running"
    BY <1>1, <2>1 DEF Reflects
  <2> QED BY <1>1, <1>3, <2>1, <2>2, EventsOutcome
<1>5. /\ signals'.latest = signals.latest /\ ~signals'.dirty /\ ~signals'.resume_pending
      /\ SignalsOK(signals')
  <2>1. signals' = [signals EXCEPT !.dirty = FALSE,
                                   !.resume_pending = @ /\ ~signals.dirty]
    BY DEF Iterate, Drained
  <2> DEFINE pending == signals.resume_pending /\ ~signals.dirty
  <2>2. ~pending /\ pending \in BOOLEAN
    BY <1>1 DEF SignalsOK
  <2>3. signals' = [signals EXCEPT !.dirty = FALSE, !.resume_pending = pending]
    BY <2>1
  <2> HIDE DEF pending
  <2> QED BY <1>1, <2>2, <2>3 DEF SignalsOK
<1>6. Heard'
  <2>1. said' = <<>> /\ said' \in Seq(Signals)
    BY DEF Iterate
  <2>2. Handled(loop', said') = loop'
    BY <2>1, HandledNone
  <2>3. loop'.next_id \in Nat
    BY <1>2 DEF Sound, LoopOK
  <2>4. Reflects(signals', loop', loop')
    BY <1>2, <1>4, <1>5, <2>3 DEF Reflects
  <2> QED BY <2>1, <2>2, <2>4 DEF Heard
<1> QED BY <1>2, <1>5, <1>6 DEF CycleInv

(* What does not reach the loop leaves what was heard.                        *)
LEMMA HeardAgain ==
  ASSUME CycleInv, UNCHANGED <<signals, said>>,
         Agree(loop', loop), loop'.lifecycle_generation = loop.lifecycle_generation,
         Sound(loop', worker'.work, completions')
  PROVE  Heard'
<1> DEFINE a == Handled(loop', said)
           b == Handled(loop, said)
<1>1. /\ said \in Seq(Signals) /\ Reflects(signals, loop, b)
      /\ Sound(loop, worker.work, completions)
  BY DEF CycleInv, Heard
<1>2. Agree(a, b)
  BY <1>1, HandledAgree
<1> HIDE DEF a, b
<1>3. Reflects(signals, loop', a)
  BY <1>1, <1>2 DEF Reflects, Agree
<1> QED BY <1>1, <1>3 DEF Heard, a

(* A signal keeps it.                                                         *)
LEMMA SignalStep ==
  ASSUME CycleInv, Signal
  PROVE  CycleInv'
<1>1. PICK signal \in Signals :
        /\ signals' = Push(signals, signal) /\ said' = Append(said, signal)
        /\ UNCHANGED <<loop, worker, completions>>
  BY DEF Signal
<1> DEFINE end == Handled(loop, said)
<1>2. /\ SignalsOK(signals) /\ said \in Seq(Signals) /\ Reflects(signals, loop, end)
      /\ Sound(loop, worker.work, completions)
  BY DEF CycleInv, Heard
<1>3. Sound(end, worker.work, completions)
  BY <1>2, HandledSound
<1>4. Handled(loop, said') = PrepareForSleep(end, signal) /\ said' \in Seq(Signals)
  BY <1>1, <1>2, HandledMore
<1> HIDE DEF end
<1>5. loop.next_id \in Nat /\ loop.lifecycle \in {"Running", "Suspended"}
  BY <1>2 DEF Sound, LoopOK
<1>6. SignalsOK(signals') /\ Reflects(signals', loop, PrepareForSleep(end, signal))
  BY <1>1, <1>2, <1>3, <1>5, OneMoreSignal
<1>7. Heard'
  BY <1>1, <1>4, <1>6 DEF Heard
<1> QED BY <1>1, <1>6, <1>7 DEF CycleInv

(* A completion keeps it, and an inventory is taken only if it is awaited.    *)
LEMMA CompletionStep ==
  ASSUME CapacityAssumption, CycleInv, WakeForCompletion
  PROVE  /\ CycleInv'
         /\ loop'.inventory # loop.inventory
              => loop.awaiting # 0 /\ Head(completions).id = loop.awaiting
<1> DEFINE c == Head(completions)
           begun == Flush(loop)
           k == HandleCompletion(begun, c)
<1>1. PICK start \in BOOLEAN :
        /\ completions # <<>> /\ Iterate(k, start)
        /\ completions' = Tail(completions)
        /\ worker' = IF worker.phase = "Reported" THEN Idle ELSE worker
  BY DEF WakeForCompletion
<1>2. /\ WorkerOK(worker) /\ Sound(loop, worker.work, completions) /\ loop.requested = {}
  BY DEF CycleInv
<1>3. WorkerOK(worker') /\ worker'.work = worker.work
  BY <1>1, <1>2 DEF WorkerOK, Idle
<1>4. Sound(begun, worker.work, completions) /\ Alike(begun, loop)
  BY <1>2, FlushSound
<1> HIDE DEF begun
<1>5. begun.requested = {} /\ begun.lifecycle = loop.lifecycle
      /\ begun.inventory = loop.inventory /\ begun.awaiting = loop.awaiting
  BY <1>2, <1>4 DEF Alike
<1>6. /\ Sound(k, worker.work, Tail(completions)) /\ k.requested = {}
      /\ k.lifecycle = begun.lifecycle
      /\ k.inventory # begun.inventory => begun.awaiting # 0 /\ c.id = begun.awaiting
  BY <1>1, <1>4, <1>5, CompletionSound
<1> HIDE DEF k, c
<1>7. CycleInv' /\ loop'.inventory = k.inventory
  BY <1>1, <1>3, <1>5, <1>6, IterateInv
<1> QED BY <1>5, <1>6, <1>7 DEF c

(* So does every other wake.                                                  *)
LEMMA OtherWakes ==
  ASSUME CapacityAssumption, CycleInv, WakeForDeadline \/ WakeOtherwise
  PROVE  CycleInv'
<1>1. PICK start \in BOOLEAN : Iterate(loop, start) /\ UNCHANGED <<worker, completions>>
  BY DEF WakeForDeadline, WakeOtherwise
<1>2. /\ Sound(loop, worker'.work, completions') /\ loop.requested = {} /\ WorkerOK(worker')
  BY <1>1 DEF CycleInv
<1> QED BY <1>1, <1>2, IterateInv

LEMMA FilesStep ==
  ASSUME CapacityAssumption, CycleInv, WakeForFiles
  PROVE  CycleInv'
<1>1. PICK dropped \in SUBSET DiscoveryJob, hardware_changed \in BOOLEAN, start \in BOOLEAN :
        /\ Iterate(Invalidated([CancelRun(loop) EXCEPT
                                  !.config = @ + 1,
                                  !.inventory = IF hardware_changed THEN @ + 1 ELSE @],
                               dropped), start)
        /\ UNCHANGED <<worker, completions>>
  BY DEF WakeForFiles
<1> DEFINE a == CancelRun(loop)
           b == [a EXCEPT !.config = @ + 1,
                          !.inventory = IF hardware_changed THEN @ + 1 ELSE @]
           c == Invalidated(b, dropped)
<1>2. /\ Sound(loop, worker'.work, completions') /\ loop.requested = {} /\ WorkerOK(worker')
  BY <1>1 DEF CycleInv
<1>3. Sound(a, worker'.work, completions') /\ Alike(a, loop)
  BY <1>2, RunsSound
<1> HIDE DEF a
<1>4. /\ Sound(b, worker'.work, completions') /\ b.requested = a.requested
      /\ b.lifecycle = a.lifecycle
  BY <1>3, ReloadSound
<1> HIDE DEF b
<1>5. Sound(c, worker'.work, completions') /\ Alike(c, b)
  BY <1>4, InvalidateSound DEF CapacityAssumption
<1>6. Iterate(c, start)
  BY <1>1 DEF b, a
<1> HIDE DEF c
<1>7. c.requested = {} /\ c.lifecycle = loop.lifecycle
  BY <1>2, <1>3, <1>4, <1>5 DEF Alike
<1> QED BY <1>2, <1>5, <1>6, <1>7, IterateInv

(* A message is stale if it is no fresh rescan and no live run.               *)
LEMMA StaleMessages ==
  ASSUME NEW m, m \in Written(loop.lifecycle_generation)
  PROVE  /\ m.kind = "Rescan" => (Stale(m) <=> m \notin Fresh(loop.lifecycle_generation))
         /\ m.kind # "Rescan" => m \notin Fresh(loop.lifecycle_generation)
         /\ m.kind # "Invalidate" => m \in Rescan \cup {Run}
         /\ m.kind = "Run" => m = Run
<1>1. m \in Message
  BY DEF Written
<1>2. m.kind = "Rescan" <=> m \in Rescan
  BY <1>1, Kinds
<1>3. m \in Rescan => (m \in Fresh(loop.lifecycle_generation)
                         <=> m.lifecycle = loop.lifecycle_generation)
  BY DEF Fresh
<1>4. m \in Fresh(loop.lifecycle_generation) => m \in Rescan
  BY DEF Fresh
<1>5. m \in Rescan \/ m = Run \/ m.kind = "Invalidate"
  BY <1>1 DEF Message
<1>6. Run.kind = "Run"
  BY DEF Run
<1> QED BY <1>2, <1>3, <1>4, <1>5, <1>6 DEF Stale

(* The worker receives a message.                                             *)
LEMMA ReceiveStep ==
  ASSUME CycleInv, Receive
  PROVE  CycleInv'
<1> DEFINE m == Head(loop.channel)
           g == loop.lifecycle_generation
           k == [loop EXCEPT !.channel = Tail(@)]
<1>1. /\ worker = Idle /\ loop.channel # <<>> /\ loop' = k /\ UNCHANGED <<signals, said>>
      /\ IF m.kind = "Invalidate" THEN UNCHANGED <<worker, completions>>
         ELSE IF Stale(m) THEN GiveUp(m)
         ELSE worker' = [phase |-> "Lane", work |-> {m}] /\ UNCHANGED completions
  BY DEF Receive
<1>2. worker.work = {} /\ Idle.work = {} /\ WorkerOK(Idle)
  BY <1>1 DEF Idle, WorkerOK
<1>3. /\ Sound(loop, {}, completions) /\ loop.requested = {} /\ SignalsOK(signals)
  BY <1>2 DEF CycleInv
<1>4. /\ m \in Written(g) /\ Alike(k, loop)
      /\ m \notin Fresh(g) => Sound(k, {}, completions)
      /\ Sound(k, {m}, completions)
  BY <1>1, <1>3, ReceiveSound
<1> HIDE DEF m, k
<1>5. /\ m.kind = "Rescan" => (Stale(m) <=> m \notin Fresh(g))
      /\ m.kind # "Rescan" => m \notin Fresh(g)
      /\ m.kind # "Invalidate" => m \in Rescan \cup {Run}
      /\ m.kind = "Run" => m = Run
  BY <1>4, StaleMessages
<1>6. Sound(k, worker'.work, completions') /\ WorkerOK(worker')
  <2>1. CASE m.kind = "Invalidate"
    BY <1>1, <1>2, <1>4, <1>5, <2>1
  <2>2. CASE m.kind # "Invalidate" /\ Stale(m)
    <3>1. /\ worker' = Idle
          /\ completions' = IF m.kind = "Run" THEN Append(completions, m) ELSE completions
      BY <1>1, <2>2 DEF GiveUp
    <3>2. Sound(k, {}, completions)
      BY <1>4, <1>5, <2>2
    <3>3. Sound(k, {}, Append(completions, Run))
      BY <3>2, ReportedRun
    <3> QED BY <1>2, <1>5, <3>1, <3>2, <3>3
  <2>3. CASE m.kind # "Invalidate" /\ ~Stale(m)
    <3>1. worker' = [phase |-> "Lane", work |-> {m}] /\ completions' = completions
      BY <1>1, <2>3
    <3>2. WorkerOK(worker') /\ worker'.work = {m}
      BY <1>5, <2>3, <3>1 DEF WorkerOK
    <3> QED BY <1>4, <3>1, <3>2
  <2> QED BY <2>1, <2>2, <2>3
<1>7. Heard'
  BY <1>1, <1>4, <1>6, HeardAgain DEF Alike, Agree
<1> QED BY <1>1, <1>3, <1>4, <1>6, <1>7 DEF CycleInv, Alike

(* The worker enters the blocking lane, or finishes.                          *)
LEMMA WorkStep ==
  ASSUME CycleInv, EnterLane \/ Finish
  PROVE  CycleInv'
<1> DEFINE g == loop.lifecycle_generation
<1>1. UNCHANGED <<signals, said, loop>>
  BY DEF EnterLane, Finish
<1>2. /\ WorkerOK(worker) /\ Sound(loop, worker.work, completions)
      /\ loop.requested = {} /\ SignalsOK(signals)
  BY DEF CycleInv
<1>3. worker.phase \in {"Lane", "Work"}
  BY DEF EnterLane, Finish
<1>4. PICK m \in Rescan \cup {Run} : worker.work = {m}
  BY <1>2, <1>3 DEF WorkerOK
<1>5. m \in Written(g)
  BY <1>2, <1>4 DEF Sound
<1>6. /\ m.kind = "Rescan" => (Stale(m) <=> m \notin Fresh(g))
      /\ m.kind # "Rescan" => m \notin Fresh(g)
      /\ m.kind = "Run" => m = Run
  BY <1>5, StaleMessages
<1>7. /\ m \notin Fresh(g) => Sound(loop, {}, completions)
      /\ Sound(loop, {}, Append(completions, m))
      /\ Sound(loop, {m}, completions)
  BY <1>2, <1>4, FinishSound
<1>8. Idle.work = {} /\ WorkerOK(Idle)
  BY DEF Idle, WorkerOK
<1>9. Sound(loop, worker'.work, completions') /\ WorkerOK(worker')
  <2>1. CASE EnterLane
    <3>1. IF Stale(m) THEN GiveUp(m)
          ELSE worker' = [worker EXCEPT !.phase = "Work"] /\ UNCHANGED completions
      BY <1>4, <2>1 DEF EnterLane
    <3>2. CASE Stale(m)
      <4>1. /\ worker' = Idle
            /\ completions' = IF m.kind = "Run" THEN Append(completions, m) ELSE completions
        BY <3>1, <3>2 DEF GiveUp
      <4>2. m.kind # "Run" => Sound(loop, {}, completions)
        BY <1>6, <1>7, <3>2
      <4> QED BY <1>7, <1>8, <4>1, <4>2
    <3>3. CASE ~Stale(m)
      <4>1. worker' = [worker EXCEPT !.phase = "Work"] /\ completions' = completions
        BY <3>1, <3>3
      <4>2. /\ DOMAIN worker' = DOMAIN worker /\ worker'.phase = "Work" /\ worker'.work = {m}
        BY <1>2, <1>4, <4>1 DEF WorkerOK
      <4>3. WorkerOK(worker')
        BY <1>2, <4>2 DEF WorkerOK
      <4> QED BY <1>7, <4>1, <4>2, <4>3
    <3> QED BY <3>2, <3>3
  <2>2. CASE Finish
    <3>1. /\ completions' = Append(completions, m)
          /\ worker' = IF m.kind = "Run" THEN [phase |-> "Reported", work |-> {}] ELSE Idle
      BY <1>4, <2>2 DEF Finish
    <3>2. worker'.work = {} /\ WorkerOK(worker')
      BY <1>8, <3>1 DEF WorkerOK
    <3> QED BY <1>7, <3>1, <3>2
  <2> QED BY <2>1, <2>2
<1>10. Heard'
  BY <1>1, <1>9, HeardAgain DEF Agree
<1> QED BY <1>1, <1>2, <1>9, <1>10 DEF CycleInv

(* Every step keeps it.                                                       *)
LEMMA CycleStep ==
  ASSUME CapacityAssumption, CycleInv, [Next]_vars
  PROVE  CycleInv'
<1>1. CASE UNCHANGED vars
  BY <1>1 DEF vars, CycleInv, Heard
<1>2. CASE Next
  BY <1>2, SignalStep, CompletionStep, OtherWakes, FilesStep, ReceiveStep, WorkStep DEF Next
<1> QED BY <1>1, <1>2

(* The invariant of sleep and resume.                                         *)
LEMMA CycleInvariant == Spec => []CycleInv
<1>1. Init => CycleInv
  BY CycleInit, CapacityAssumption
<1>2. CycleInv /\ [Next]_vars => CycleInv'
  BY CycleStep, CapacityAssumption
<1> QED BY <1>1, <1>2, PTL DEF Spec

-----------------------------------------------------------------------------
(* The theorems.                                                              *)

(* The rescans that will not be given up are the fresh ones.                  *)
LEMMA OutstandingAreFresh ==
  ASSUME CycleInv
  PROVE  \A m : m \in Outstanding <=>
                  /\ m \in Fresh(loop.lifecycle_generation)
                  /\ \/ \E i \in DOMAIN loop.owner_messages : loop.owner_messages[i] = m
                     \/ \E i \in DOMAIN loop.channel : loop.channel[i] = m
                     \/ m \in worker.work
                     \/ \E i \in DOMAIN completions : completions[i] = m
<1> DEFINE g == loop.lifecycle_generation
           H == Fresh(g)
           S == Written(g)
           All == Range(loop.owner_messages) \cup Range(loop.channel) \cup worker.work
                    \cup Range(completions)
<1>1. /\ loop.owner_messages \in Seq(S) /\ loop.channel \in Seq(S)
      /\ worker.work \in SUBSET S /\ completions \in Seq(S)
  BY DEF CycleInv, Sound, LoopOK
<1>2. \A q : Range(q) = {q[i] : i \in DOMAIN q}
  BY DEF Range
<1>3. \A q \in Seq(S) : \A i \in DOMAIN q : q[i] \in S
  OBVIOUS
<1>4. All \subseteq S
  <2> HIDE DEF S
  <2> QED BY <1>1, <1>2, <1>3
<1>5. Outstanding = {m \in All : m.kind = "Rescan" /\ ~Stale(m)}
  BY DEF Outstanding
<1>6. \A m \in S : m.kind = "Rescan" /\ ~Stale(m) <=> m \in H
  BY StaleMessages
<1>7. \A m : m \in All <=> \/ \E i \in DOMAIN loop.owner_messages : loop.owner_messages[i] = m
                           \/ \E i \in DOMAIN loop.channel : loop.channel[i] = m
                           \/ m \in worker.work
                           \/ \E i \in DOMAIN completions : completions[i] = m
  BY <1>2
<1> HIDE DEF All, S, H
<1>8. \A m : m \in Outstanding <=> m \in All /\ m \in H
  BY <1>4, <1>5, <1>6
<1> QED BY <1>7, <1>8 DEF H

(* There is one while an inventory is awaited, and none otherwise.            *)
LEMMA OneOutstanding ==
  ASSUME CycleInv
  PROVE  RescanOutstanding
<1> DEFINE g == loop.lifecycle_generation
           H == Fresh(g)
           S == Written(g)
           o == loop.owner_messages
           c == loop.channel
           w == worker.work
           d == completions
           Q == Queued(loop)
<1>1. /\ o \in Seq(S) /\ c \in Seq(S) /\ w \in SUBSET S /\ d \in Seq(S)
  BY DEF CycleInv, Sound, LoopOK
<1>2. \A m : m \in Outstanding <=> m \in H /\ \/ \E i \in DOMAIN o : o[i] = m
                                              \/ \E i \in DOMAIN c : c[i] = m
                                              \/ m \in w
                                              \/ \E i \in DOMAIN d : d[i] = m
  BY OutstandingAreFresh
<1>3. Q = c \o o
  BY DEF Queued
<1>4. /\ Waits(loop) => OnItsWay(Q, w, d, g, loop.awaiting)
      /\ ~Waits(loop) => Nowhere(Q, w, d, g)
  BY DEF CycleInv, Sound, Tracked
<1> HIDE DEF o, c, w, d, S, H, Q
<1>5. /\ Cold(Q, H) <=> Cold(c, H) /\ Cold(o, H)
      /\ \A m : Lone(Q, H, m) <=> \/ Lone(c, H, m) /\ Cold(o, H)
                                  \/ Cold(c, H) /\ Lone(o, H, m)
  BY <1>1, <1>3, JoinedMessages
<1>6. CASE ~Waits(loop)
  <2>1. Cold(c, H) /\ Cold(o, H) /\ w \cap H = {} /\ Cold(d, H)
    BY <1>4, <1>5, <1>6 DEF Nowhere, H
  <2>2. Outstanding = {}
    BY <1>2, <2>1 DEF Cold
  <2> QED BY <1>6, <2>2 DEF RescanOutstanding, Waits
<1>7. CASE Waits(loop)
  <2>1. PICK x \in H :
          /\ x.id = loop.awaiting
          /\ \/ Lone(Q, H, x) /\ w \cap H = {} /\ Cold(d, H)
             \/ Cold(Q, H) /\ w \cap H = {x} /\ Cold(d, H)
             \/ Cold(Q, H) /\ w \cap H = {} /\ Lone(d, H, x)
    BY <1>4, <1>7 DEF OnItsWay, H
  <2>2. \A q : Lone(q, H, x) =>
          (\E i \in DOMAIN q : q[i] = x) /\ \A i \in DOMAIN q : q[i] \in H => q[i] = x
    BY DEF Lone
  <2>3. \/ Lone(c, H, x) /\ Cold(o, H) /\ w \cap H = {} /\ Cold(d, H)
        \/ Cold(c, H) /\ Lone(o, H, x) /\ w \cap H = {} /\ Cold(d, H)
        \/ Cold(c, H) /\ Cold(o, H) /\ w \cap H = {x} /\ Cold(d, H)
        \/ Cold(c, H) /\ Cold(o, H) /\ w \cap H = {} /\ Lone(d, H, x)
    BY <1>5, <2>1
  <2>4. \A m : m \in Outstanding <=> m = x
    <3>1. CASE Lone(c, H, x) /\ Cold(o, H) /\ w \cap H = {} /\ Cold(d, H)
      BY <1>2, <2>1, <2>2, <3>1 DEF Cold
    <3>2. CASE Cold(c, H) /\ Lone(o, H, x) /\ w \cap H = {} /\ Cold(d, H)
      BY <1>2, <2>1, <2>2, <3>2 DEF Cold
    <3>3. CASE Cold(c, H) /\ Cold(o, H) /\ w \cap H = {x} /\ Cold(d, H)
      BY <1>2, <2>1, <3>3 DEF Cold
    <3>4. CASE Cold(c, H) /\ Cold(o, H) /\ w \cap H = {} /\ Lone(d, H, x)
      BY <1>2, <2>1, <2>2, <3>4 DEF Cold
    <3> QED BY <2>3, <3>1, <3>2, <3>3, <3>4
  <2>5. Outstanding = {x}
    BY <2>4
  <2>6. Cardinality(Outstanding) = 1
    BY <2>5, FS_Singleton
  <2> QED BY <1>7, <2>1, <2>5, <2>6 DEF RescanOutstanding, Waits
<1> QED BY <1>6, <1>7

(* The machine never waits for an inventory nobody collects, nor for two: for *)
(* any capacity of the channel and any number of sleeps and reloads exactly   *)
(* one fresh rescan, with the awaited id, is on its way after a resume.       *)
THEOREM RescansAreCollected == Spec => []RescanOutstanding
<1>1. CycleInv => RescanOutstanding
  BY OneOutstanding
<1> QED BY <1>1, CycleInvariant, PTL

(* An inventory begun before a sleep is never committed after it.             *)
THEOREM StaleInventoriesAreIgnored == Spec => StaleInventoryIgnored
<1> DEFINE Awaited == completions # <<>> /\ completions' = Tail(completions)
                        /\ loop'.inventory # loop.inventory
                      => loop.awaiting # 0 /\ Head(completions).id = loop.awaiting
<1>1. ASSUME CycleInv, [Next]_vars PROVE [Awaited]_vars
  <2>1. completions # <<>> => Tail(completions) # completions
    <3>1. completions \in Seq(Written(loop.lifecycle_generation))
      BY <1>1 DEF CycleInv, Sound
    <3> DEFINE d == completions
               S == Written(loop.lifecycle_generation)
    <3>2. d \in Seq(S)
      BY <3>1
    <3> HIDE DEF S, d
    <3>3. d # <<>> => Len(Tail(d)) = Len(d) - 1 /\ Len(d) \in Nat
      BY <3>2
    <3>4. d # <<>> => Len(Tail(d)) # Len(d)
      BY <3>3
    <3>5. d # <<>> => Tail(d) # d
      BY <3>4
    <3> QED BY <3>5 DEF d
  <2>2. CASE WakeForCompletion
    BY <1>1, <2>2, CompletionStep, CapacityAssumption
  <2>3. CASE UNCHANGED completions
    BY <2>1, <2>3
  <2>4. CASE loop'.inventory = loop.inventory
    BY <2>4
  <2>5. Receive => loop'.inventory = loop.inventory
    <3> SUFFICES ASSUME Receive PROVE loop'.inventory = loop.inventory
      OBVIOUS
    <3>1. loop' = [loop EXCEPT !.channel = Tail(@)]
      BY DEF Receive
    <3>2. LoopOK(loop)
      BY <1>1 DEF CycleInv, Sound
    <3> QED BY <3>1, <3>2 DEF LoopOK
  <2>6. Next => \/ WakeForCompletion
                \/ UNCHANGED completions
                \/ loop'.inventory = loop.inventory
    BY <2>5 DEF Next, Signal, WakeForDeadline, WakeForFiles, WakeOtherwise, EnterLane, Finish
  <2> QED BY <1>1, <2>2, <2>3, <2>4, <2>6 DEF vars
<1>2. CycleInv /\ [Next]_vars => [Awaited]_vars
  BY <1>1
<1> QED BY <1>2, CycleInvariant, PTL DEF Spec, StaleInventoryIgnored

(* Coalescing loses nothing: the events of a drain have the effect every      *)
(* single signal, in its order, would have had.                               *)
THEOREM CoalescingIsExact == Spec => []CoalescingIsFaithful
<1>1. CycleInv => CoalescingIsFaithful
  <2> SUFFICES ASSUME CycleInv PROVE CoalescingIsFaithful
    OBVIOUS
  <2> DEFINE one == Handled(loop, Events(signals))
             all == Handled(loop, said)
  <2>1. /\ SignalsOK(signals) /\ Sound(loop, worker.work, completions)
        /\ loop.requested = {} /\ said \in Seq(Signals) /\ Reflects(signals, loop, all)
    BY DEF CycleInv, Heard
  <2>2. /\ ~signals.dirty => (loop.lifecycle = "Suspended" <=> signals.latest = "Sleep")
        /\ signals.latest = "Wake" /\ ~signals.resume_pending => loop.lifecycle = "Running"
    BY <2>1 DEF Reflects
  <2>3. /\ one.lifecycle = "Suspended" <=> signals.latest = "Sleep"
        /\ one.lifecycle \in {"Running", "Suspended"}
        /\ one.next_id # loop.next_id <=> signals.resume_pending
        /\ one.requested # {} <=> signals.resume_pending /\ signals.latest = "Wake"
    BY <2>1, <2>2, EventsOutcome
  <2>4. all.lifecycle \in {"Running", "Suspended"}
    <3>1. Sound(all, worker.work, completions)
      BY <2>1, HandledSound
    <3> QED BY <3>1 DEF Sound, LoopOK
  <2>5. Outcome(Events(signals)) = <<one.lifecycle, one.next_id # loop.next_id,
                                     one.requested # {}>>
        /\ Outcome(said) = <<all.lifecycle, all.next_id # loop.next_id, all.requested # {}>>
    BY DEF Outcome
  <2> HIDE DEF one, all
  <2>6. one.lifecycle = all.lifecycle
    BY <2>1, <2>3, <2>4 DEF Reflects
  <2>7. (one.next_id # loop.next_id) = (all.next_id # loop.next_id)
    BY <2>1, <2>3 DEF Reflects
  <2>8. (one.requested # {}) = (all.requested # {})
    BY <2>1, <2>3 DEF Reflects
  <2> QED BY <2>5, <2>6, <2>7, <2>8 DEF CoalescingIsFaithful
<1> QED BY <1>1, CycleInvariant, PTL

=============================================================================
