--------------------------- MODULE NeoBridgeProofs ---------------------------
(***************************************************************************)
(* Theorems about noob-neod and the Iris bridge, for queues, backlogs,     *)
(* files and sets of images of any size and any number of restarts: types, *)
(* the finality of an acknowledged stop, scan codes in order, the truth of *)
(* FILE_STATUS, and downloads that are whole.                              *)
(*                                                                         *)
(* The proofs go by parts of the state: the backlog and the one connection *)
(* of the bridge (BacklogInv, ConnInv), the file job (JobInv), the scan    *)
(* codes (OrderInv), the display (DisplayInv), the transfer (TransferInv,  *)
(* StoredInv).                                                             *)
(***************************************************************************)
EXTENDS NeoBridge, TLAPS, WellFoundedInduction

(***************************************************************************)
(* Sets of naturals have a least element, the form of induction used here. *)
(***************************************************************************)
LEMMA Least ==
  ASSUME NEW T \in SUBSET Nat, T # {}
  PROVE  \E x \in T : \A y \in T : x <= y
<1> DEFINE R == {ss \in Nat \X Nat : ss[1] < ss[2]}
<1>1. IsWellFoundedOn(R, Nat)
  BY NatLessThanWellFounded, Zenon DEF OpToRel
<1>2. \E x \in T : \A y \in T : ~(<<y, x>> \in R)
  <2> HIDE DEF R
  <2> QED
    BY <1>1, WFMin, ZenonT(60)
<1>3. \A x, y \in Nat : y < x => <<y, x>> \in R
  OBVIOUS
<1>4. PICK x \in T : \A y \in T : ~(<<y, x>> \in R)
  BY <1>2
<1> HIDE DEF R
<1>5. \A y \in T : ~(y < x)
  BY <1>3, <1>4, ZenonT(60)
<1> QED
  BY <1>5

(***************************************************************************)
(* Scan codes                                                              *)
(***************************************************************************)
ScanType == [child : {"none", "running", "exited"}, pipe : Seq(Nat), queue : Seq(Nat)]

\* The queue after i lines of the pipe: the last codes of the way, no more
\* than fit.
Kept(s, i) == IF Len(s.queue) + i < QueueSize THEN Len(s.queue) + i ELSE QueueSize
Way(s, k) == IF k <= Len(s.queue) THEN s.queue[k] ELSE s.pipe[k - Len(s.queue)]
Shifted(s, i) == [k \in 1..Kept(s, i) |-> Way(s, Len(s.queue) + i - Kept(s, i) + k)]

Taken(s, n) == IF Len(s.pipe) < n THEN Len(s.pipe) ELSE n

LEMMA TakenType ==
  ASSUME NEW s \in ScanType, NEW n \in Nat
  PROVE  Taken(s, n) \in 0..Len(s.pipe)
BY SMTT(60) DEF ScanType, Taken

LEMMA ShiftedStart ==
  ASSUME NEW s \in ScanType, Len(s.queue) <= QueueSize
  PROVE  Shifted(s, 0) = s.queue
<1>1. s.queue \in Seq(Nat) /\ Len(s.queue) \in Nat
  BY SMTT(60) DEF ScanType
<1>2. Kept(s, 0) = Len(s.queue)
  BY <1>1, NeoBounds, SMTT(60) DEF Kept
<1>3. \A k \in 1..Len(s.queue) : Way(s, Len(s.queue) + 0 - Len(s.queue) + k) = s.queue[k]
  BY <1>1, SMTT(60) DEF Way
<1>4. Shifted(s, 0) = [k \in 1..Len(s.queue) |-> s.queue[k]]
  BY <1>2, <1>3, SMTT(60) DEF Shifted
<1> QED
  BY <1>1, <1>4, SMTT(60)

LEMMA ShiftedStep ==
  ASSUME NEW s \in ScanType, Len(s.queue) <= QueueSize, NEW i \in 1..Len(s.pipe)
  PROVE  queue_scancode(Shifted(s, i - 1), s.pipe[i]) = Shifted(s, i)
<1> DEFINE L == Len(s.queue)
           m == Kept(s, i - 1)
           q == Shifted(s, i - 1)
<1>1. s.queue \in Seq(Nat) /\ s.pipe \in Seq(Nat) /\ L \in Nat /\ i \in Nat /\ QueueSize \in Nat \ {0}
  BY NeoBounds, SMTT(60) DEF ScanType
<1>2. m \in Nat /\ m <= QueueSize /\ m <= L + i - 1 /\ (m < QueueSize => m = L + i - 1)
  BY <1>1, SMTT(60) DEF Kept
<1>3. \A k \in 1..(L + i) : Way(s, k) \in Nat
  <2> SUFFICES ASSUME NEW k \in 1..(L + i) PROVE Way(s, k) \in Nat
    BY ZenonT(60)
  <2>1. CASE k <= L
    BY <1>1, <2>1, SMTT(60) DEF Way
  <2>2. CASE ~(k <= L)
    BY <1>1, <2>2, SMTT(60) DEF Way
  <2> QED
    BY <2>1, <2>2
<1>4. Way(s, L + i) = s.pipe[i]
  BY <1>1, SMTT(60) DEF Way
<1> DEFINE W(k) == Way(s, k)
<1>5. q = [k \in 1..m |-> W(L + i - 1 - m + k)]
  BY <1>1, <1>2, SMTT(60) DEF Shifted
<1>3a. \A k \in 1..(L + i) : W(k) \in Nat
  BY <1>3
<1>4a. W(L + i) = s.pipe[i]
  BY <1>4
<1> HIDE DEF L, m, q, W
<1>6. q \in Seq(Nat) /\ Len(q) = m
  <2>1. \A k \in 1..m : L + i - 1 - m + k \in 1..(L + i)
    BY <1>1, <1>2, SMTT(60)
  <2>2. q \in [1..m -> Nat]
    BY <1>5, <2>1, <1>3a, SMTT(60)
  <2> QED
    BY <1>2, <2>2, SMTT(60)
<1>7. CASE m = QueueSize
  <2>1. Kept(s, i) = m
    BY <1>1, <1>2, <1>7, SMTT(60) DEF Kept, L
  <2>2. Shifted(s, i) = [k \in 1..m |-> W(L + i - m + k)]
    BY <1>1, <2>1, SMTT(60) DEF Shifted, L, W
  <2>0. q # <<>> /\ m >= 1
    BY <1>1, <1>2, <1>6, <1>7, SMTT(60)
  <2>3. /\ Tail(q) \in Seq(Nat) /\ Len(Tail(q)) = m - 1
        /\ \A k \in 1..(m - 1) : Tail(q)[k] = q[k + 1]
    BY <1>2, <1>6, <2>0, SMTT(60)
  <2>4. \A k \in 1..(m - 1) : Tail(q)[k] = W(L + i - m + k)
    <3> SUFFICES ASSUME NEW k \in 1..(m - 1) PROVE Tail(q)[k] = W(L + i - m + k)
      BY ZenonT(60)
    <3>1. Tail(q)[k] = q[k + 1] /\ k + 1 \in 1..m
      BY <1>1, <1>2, <2>3, SMTT(60)
    <3>2. q[k + 1] = W(L + i - 1 - m + (k + 1))
      BY <1>5, <3>1, SMTT(60)
    <3>3. L + i - 1 - m + (k + 1) = L + i - m + k
      BY <1>1, <1>2, SMTT(60)
    <3> QED
      BY <3>1, <3>2, <3>3, ZenonT(60)
  <2>5. Append(Tail(q), s.pipe[i]) = [k \in 1..m |-> IF k = m THEN s.pipe[i] ELSE Tail(q)[k]]
    BY <1>1, <1>2, <1>7, <2>3, SMTT(60)
  <2>6. \A k \in 1..m : (IF k = m THEN s.pipe[i] ELSE Tail(q)[k]) = W(L + i - m + k)
    <3> SUFFICES ASSUME NEW k \in 1..m
                 PROVE  (IF k = m THEN s.pipe[i] ELSE Tail(q)[k]) = W(L + i - m + k)
      BY ZenonT(60)
    <3>1. CASE k = m
      <4>1. L + i - m + k = L + i
        BY <1>1, <1>2, <3>1, SMTT(60)
      <4> QED
        BY <3>1, <4>1, <1>4a, ZenonT(60)
    <3>2. CASE k # m
      <4>1. k \in 1..(m - 1)
        BY <1>2, <3>2, SMTT(60)
      <4> QED
        BY <2>4, <3>2, <4>1, ZenonT(60)
    <3> QED
      BY <3>1, <3>2, ZenonT(60)
  <2>7. queue_scancode(q, s.pipe[i]) = Append(Tail(q), s.pipe[i])
    BY <1>6, <1>7, ZenonT(60) DEF queue_scancode
  <2> QED
    BY <2>2, <2>5, <2>6, <2>7, ZenonT(60) DEF q
<1>8. CASE m # QueueSize
  <2>0. m = L + i - 1
    BY <1>1, <1>2, <1>8, SMTT(60)
  <2>1. Kept(s, i) = m + 1
    BY <1>1, <1>2, <1>8, <2>0, SMTT(60) DEF Kept, L
  <2>2. Shifted(s, i) = [k \in 1..(m + 1) |-> W(L + i - (m + 1) + k)]
    BY <1>1, <2>1, SMTT(60) DEF Shifted, L, W
  <2>3. Append(q, s.pipe[i]) = [k \in 1..(m + 1) |-> IF k = m + 1 THEN s.pipe[i] ELSE q[k]]
    BY <1>1, <1>2, <1>6, SMTT(60)
  <2>4. \A k \in 1..(m + 1) : (IF k = m + 1 THEN s.pipe[i] ELSE q[k]) = W(L + i - (m + 1) + k)
    <3> TAKE k \in 1..(m + 1)
    <3>1. CASE k = m + 1
      <4>1. L + i - (m + 1) + k = L + i
        BY <1>1, <1>2, <3>1, SMTT(60)
      <4> QED
        BY <3>1, <4>1, <1>4a, ZenonT(60)
    <3>2. CASE k # m + 1
      <4>1. k \in 1..m
        BY <1>2, <3>2, SMTT(60)
      <4>2. q[k] = W(L + i - 1 - m + k)
        BY <1>5, <4>1, SMTT(60)
      <4>3. L + i - 1 - m + k = L + i - (m + 1) + k
        BY <1>1, <1>2, SMTT(60)
      <4> QED
        BY <3>2, <4>2, <4>3, ZenonT(60)
    <3> QED
      BY <3>1, <3>2
  <2>5. queue_scancode(q, s.pipe[i]) = Append(q, s.pipe[i])
    BY <1>6, <1>8, ZenonT(60) DEF queue_scancode
  <2> QED
    BY <2>2, <2>3, <2>4, <2>5, ZenonT(60) DEF q
<1> QED
  BY <1>7, <1>8
\* What collect_scancodes does, without the loop.
Collected(s, n) == [s EXCEPT !.queue = Shifted(s, Taken(s, n)),
                             !.pipe = SubSeq(s.pipe, Taken(s, n) + 1, Len(s.pipe))]

LEMMA CollectIs ==
  ASSUME NEW s \in ScanType, NEW n \in Nat, Len(s.queue) <= QueueSize
  PROVE  collect_scancodes(s, n) = Collected(s, n)
<1> DEFINE take == Taken(s, n)
           Loop(f) == [i \in 0..take |-> IF i = 0 THEN s.queue
                                         ELSE queue_scancode(f[i - 1], s.pipe[i])]
           q == CHOOSE f : f = Loop(f)
           g == [i \in 0..take |-> Shifted(s, i)]
<1>1. take \in Nat /\ take <= Len(s.pipe)
  BY TakenType, SMTT(60) DEF ScanType
<1>2. \A i \in 1..take : queue_scancode(Shifted(s, i - 1), s.pipe[i]) = Shifted(s, i)
  <2>1. \A i \in 1..take : i \in 1..Len(s.pipe)
    BY <1>1, SMTT(60) DEF ScanType
  <2> HIDE DEF take
  <2> QED
    BY <2>1, ShiftedStep
<1>3. collect_scancodes(s, n) = [s EXCEPT !.queue = q[take],
                                          !.pipe = SubSeq(s.pipe, take + 1, Len(s.pipe))]
  BY ZenonT(60) DEF collect_scancodes, Taken
<1> HIDE DEF take
<1>4. g = Loop(g)
  <2>1. \A i \in 0..take : g[i] = IF i = 0 THEN s.queue
                                  ELSE queue_scancode(g[i - 1], s.pipe[i])
    <3> TAKE i \in 0..take
    <3>1. CASE i = 0
      BY <3>1, ShiftedStart, ZenonT(60)
    <3>2. CASE i # 0
      <4>1. i \in 1..take /\ i - 1 \in 0..take
        BY <1>1, <3>2, SMTT(60)
      <4>2. g[i - 1] = Shifted(s, i - 1)
        BY <4>1, ZenonT(60)
      <4> QED
        BY <1>2, <3>2, <4>1, <4>2, ZenonT(60)
    <3> QED
      BY <3>1, <3>2
  <2> HIDE DEF g
  <2>2. g = [i \in 0..take |-> g[i]]
    BY ZenonT(60) DEF g
  <2> QED
    BY <2>1, <2>2, ZenonT(60)
<1>5. q = Loop(q)
  <2> HIDE DEF g, Loop
  <2> QED
    BY <1>4, ZenonT(60)
<1> HIDE DEF q, g
<1>6. \A i \in 0..take : q[i] = Shifted(s, i)
  <2> DEFINE T == {i \in 0..take : q[i] # Shifted(s, i)}
  <2>1. ASSUME T # {} PROVE FALSE
    <3>1. PICK x \in T : \A y \in T : x <= y
      <4>1. T \in SUBSET Nat
        BY SMTT(60)
      <4> HIDE DEF T
      <4> QED
        BY <2>1, <4>1, Least
    <3>2. x \in 0..take /\ q[x] # Shifted(s, x)
      BY <3>1
    <3>3. x # 0
      BY <1>1, <1>5, <3>2, ShiftedStart, ZenonT(60)
    <3>4. x - 1 \in 0..take /\ ~(x <= x - 1) /\ x \in 1..take
      BY <1>1, <3>2, <3>3, SMTT(60)
    <3>5. q[x - 1] = Shifted(s, x - 1)
      BY <3>1, <3>4, ZenonT(60)
    <3>6. q[x] = queue_scancode(q[x - 1], s.pipe[x])
      BY <1>5, <3>2, <3>3, ZenonT(60)
    <3> QED
      BY <1>2, <3>2, <3>4, <3>5, <3>6, ZenonT(60)
  <2> QED
    BY <2>1
<1>7. q[take] = Shifted(s, take)
  BY <1>1, <1>6, SMTT(60)
<1> QED
  BY <1>3, <1>7, ZenonT(60) DEF Collected, take

\* Codes on their way: in order, none twice, newer than lo and printed already.
Increasing(q) == \A i, j \in DOMAIN q : i < j => q[i] < q[j]
Within(q, lo, hi) == \A i \in DOMAIN q : lo < q[i] /\ q[i] <= hi

Ordered(s, lo, hi) ==
  /\ Len(s.queue) <= QueueSize
  /\ Increasing(s.queue) /\ Increasing(s.pipe)
  /\ \A i \in DOMAIN s.queue, j \in DOMAIN s.pipe : s.queue[i] < s.pipe[j]
  /\ Within(s.queue, lo, hi) /\ Within(s.pipe, lo, hi)

LEMMA CollectOrdered ==
  ASSUME NEW s \in ScanType, NEW n \in Nat, NEW lo \in Nat, NEW hi \in Nat, Ordered(s, lo, hi)
  PROVE  /\ collect_scancodes(s, n) \in ScanType
         /\ collect_scancodes(s, n).child = s.child
         /\ Ordered(collect_scancodes(s, n), lo, hi)
<1> DEFINE t == Taken(s, n)
           L == Len(s.queue)
           P == Len(s.pipe)
           m == Kept(s, t)
           W(k) == Way(s, k)
           q == Shifted(s, t)
           p == SubSeq(s.pipe, t + 1, P)
           c == Collected(s, n)
<1>1. c = collect_scancodes(s, n)
  BY CollectIs, ZenonT(60) DEF Ordered
<1>2. s.queue \in Seq(Nat) /\ s.pipe \in Seq(Nat) /\ L \in Nat /\ P \in Nat
      /\ s.child \in {"none", "running", "exited"}
  BY SMTT(60) DEF ScanType
<1>3. t \in Nat /\ t <= P
  <2>1. t \in 0..P
    BY TakenType, ZenonT(60)
  <2> HIDE DEF t, P
  <2> QED
    BY <1>2, <2>1, SMTT(60)
<1>4. m \in Nat /\ m <= QueueSize /\ m <= L + t
  BY <1>2, <1>3, NeoBounds, SMTT(60) DEF Kept, Ordered
<1>5. c.queue = q /\ c.pipe = p /\ c.child = s.child /\ c = [s EXCEPT !.queue = q, !.pipe = p]
  <2>1. c = [s EXCEPT !.queue = q, !.pipe = p]
    BY ZenonT(60) DEF Collected
  <2> HIDE DEF q, p, c
  <2> QED
    BY <2>1, ZenonT(60) DEF ScanType
<1>6. q = [k \in 1..m |-> W(L + t - m + k)]
  BY ZenonT(60) DEF Shifted
<1>7. /\ \A k \in 1..(L + P) : W(k) \in Nat /\ lo < W(k) /\ W(k) <= hi
      /\ \A j, k \in 1..(L + P) : j < k => W(j) < W(k)
  <2>1. \A k \in 1..(L + P) : \/ k \in DOMAIN s.queue /\ W(k) = s.queue[k]
                              \/ k > L /\ k - L \in DOMAIN s.pipe /\ W(k) = s.pipe[k - L]
    <3> SUFFICES ASSUME NEW k \in 1..(L + P)
                 PROVE  \/ k \in DOMAIN s.queue /\ W(k) = s.queue[k]
                        \/ k > L /\ k - L \in DOMAIN s.pipe /\ W(k) = s.pipe[k - L]
      BY ZenonT(60)
    <3>1. CASE k <= L
      <4>1. k \in DOMAIN s.queue
        BY <1>2, <3>1, SMTT(60)
      <4> QED
        BY <3>1, <4>1, ZenonT(60) DEF Way
    <3>2. CASE ~(k <= L)
      <4>2. DOMAIN s.pipe = 1..P
        BY <1>2, SMTT(60)
      <4>3. k > L /\ k - L \in 1..P
        <5> HIDE DEF L, P
        <5> QED
          BY <1>2, <3>2, SMTT(60)
      <4>1. k > L /\ k - L \in DOMAIN s.pipe
        BY <4>2, <4>3, ZenonT(60)
      <4> QED
        BY <3>2, <4>1, ZenonT(60) DEF Way
    <3> QED
      BY <3>1, <3>2
  <2>2. \A k \in 1..(L + P) : W(k) \in Nat /\ lo < W(k) /\ W(k) <= hi
    <3>1. /\ \A k \in DOMAIN s.queue : s.queue[k] \in Nat
          /\ \A k \in DOMAIN s.pipe : s.pipe[k] \in Nat
      BY <1>2, SMTT(60)
    <3> HIDE DEF W
    <3> QED
      BY <2>1, <3>1, ZenonT(60) DEF Ordered, Within
  <2>3. ASSUME NEW j \in 1..(L + P), NEW k \in 1..(L + P), j < k PROVE W(j) < W(k)
    <3>1. j \in DOMAIN s.queue => j <= L
      BY <1>2, SMTT(60)
    <3>2. k \in DOMAIN s.queue => k <= L
      BY <1>2, SMTT(60)
    <3> HIDE DEF W, L, P
    <3>3. CASE j \in DOMAIN s.queue /\ W(j) = s.queue[j]
      BY <2>1, <2>3, <3>3, ZenonT(60) DEF Ordered, Increasing
    <3>4. CASE j > L /\ j - L \in DOMAIN s.pipe /\ W(j) = s.pipe[j - L]
      <4>1. k > L /\ k - L \in DOMAIN s.pipe /\ W(k) = s.pipe[k - L]
        BY <1>2, <2>1, <2>3, <3>2, <3>4, SMTT(60)
      <4>2. j - L < k - L
        BY <1>2, <2>3, SMTT(60)
      <4> QED
        BY <3>4, <4>1, <4>2, ZenonT(60) DEF Ordered, Increasing
    <3> QED
      BY <2>1, <3>3, <3>4
  <2> QED
    BY <2>2, <2>3, ZenonT(60)
<1>8. \A k \in 1..P : s.pipe[k] = W(L + k)
  BY <1>2, SMTT(60) DEF Way
<1> HIDE DEF t, L, P, m, W, q, p, c
<1>9. /\ q \in Seq(Nat) /\ Len(q) = m /\ DOMAIN q = 1..m
      /\ \A k \in 1..m : L + t - m + k \in 1..(L + t)
  <2>1. \A k \in 1..m : L + t - m + k \in 1..(L + t) /\ L + t - m + k \in 1..(L + P)
    BY <1>2, <1>3, <1>4, SMTT(60)
  <2>2. q \in [1..m -> Nat]
    BY <1>6, <1>7, <2>1, ZenonT(60)
  <2> QED
    BY <1>4, <2>1, <2>2, SMTT(60)
<1>10. /\ p \in Seq(Nat) /\ Len(p) = P - t /\ DOMAIN p = 1..(P - t)
       /\ \A k \in 1..(P - t) : p[k] = s.pipe[t + k]
  <2>1. p = [k \in 1..(P - t) |-> s.pipe[t + k]]
    BY <1>2, <1>3, SMTT(60) DEF p, P
  <2>2. \A k \in 1..(P - t) : s.pipe[t + k] \in Nat
    BY <1>2, <1>3, SMTT(60) DEF P
  <2> QED
    BY <1>2, <1>3, <2>1, <2>2, SMTT(60)
<1>11. \A k \in 1..(P - t) : p[k] = W(L + t + k) /\ L + t + k \in 1..(L + P)
  <2> TAKE k \in 1..(P - t)
  <2>1. t + k \in 1..P /\ L + (t + k) = L + t + k /\ L + t + k \in 1..(L + P)
    BY <1>2, <1>3, SMTT(60)
  <2> QED
    BY <1>8, <1>10, <2>1, SMTT(60)
<1>12. \A k \in 1..m : q[k] = W(L + t - m + k) /\ L + t - m + k \in 1..(L + P)
  BY <1>2, <1>3, <1>6, <1>9, SMTT(60)
<1>13. Increasing(q) /\ Within(q, lo, hi)
  <2>1. \A i, j \in 1..m : i < j => L + t - m + i < L + t - m + j
    BY <1>2, <1>3, <1>4, SMTT(60)
  <2>2. Increasing(q)
    BY <1>7, <1>9, <1>12, <2>1, ZenonT(60) DEF Increasing
  <2> QED
    BY <1>7, <1>9, <1>12, <2>2, ZenonT(60) DEF Within
<1>14. Increasing(p) /\ Within(p, lo, hi)
  <2>1. \A i, j \in 1..(P - t) : i < j => L + t + i < L + t + j
    BY <1>2, <1>3, SMTT(60)
  <2>2. Increasing(p)
    BY <1>7, <1>10, <1>11, <2>1, ZenonT(60) DEF Increasing
  <2> QED
    BY <1>7, <1>10, <1>11, <2>2, ZenonT(60) DEF Within
<1>15. \A i \in DOMAIN q, j \in DOMAIN p : q[i] < p[j]
  <2>1. \A i \in 1..m, j \in 1..(P - t) : L + t - m + i < L + t + j
    BY <1>2, <1>3, <1>4, SMTT(60)
  <2> QED
    BY <1>7, <1>9, <1>10, <1>11, <1>12, <2>1, ZenonT(60)
<1>16. Ordered(c, lo, hi)
  <2>1. Len(q) <= QueueSize
    BY <1>4, <1>9, ZenonT(60)
  <2> QED
    BY <1>5, <1>13, <1>14, <1>15, <2>1, ZenonT(60) DEF Ordered
<1>17. c \in ScanType
  BY <1>2, <1>5, <1>9, <1>10, ZenonT(60) DEF ScanType
<1> QED
  BY <1>1, <1>5, <1>16, <1>17, ZenonT(60)

LEMMA DrainOrdered ==
  ASSUME NEW s \in ScanType, NEW lo \in Nat, NEW hi \in Nat, Ordered(s, lo, hi)
  PROVE  drain_scan(s) \in ScanType /\ Ordered(drain_scan(s), lo, hi)
<1> DEFINE d == IF s.child = "none" THEN s ELSE collect_scancodes(s, DrainLines)
<1>1. d \in ScanType /\ Ordered(d, lo, hi)
  BY CollectOrdered, NeoBounds, ZenonT(60)
<1>2. drain_scan(s) = IF d.child = "exited" THEN [d EXCEPT !.child = "none", !.pipe = <<>>] ELSE d
  BY ZenonT(60) DEF drain_scan
<1> HIDE DEF d
<1>3. CASE d.child = "exited"
  <2> DEFINE e == [d EXCEPT !.child = "none", !.pipe = <<>>]
  <2>1. e \in ScanType /\ e.queue = d.queue /\ e.pipe = <<>>
    <3>1. <<>> \in Seq(Nat) /\ "none" \in {"none", "running", "exited"}
      BY SMTT(60)
    <3> QED
      BY <1>1, <3>1, ZenonT(60) DEF ScanType
  <2> HIDE DEF e
  <2>2. Ordered(e, lo, hi)
    BY <1>1, <2>1, SMTT(60) DEF Ordered, Increasing, Within
  <2> QED
    BY <1>2, <1>3, <2>1, <2>2, ZenonT(60) DEF e
<1>4. CASE d.child # "exited"
  BY <1>1, <1>2, <1>4, ZenonT(60)
<1> QED
  BY <1>3, <1>4

\* The oldest code leaves the queue: everything behind it is newer.
LEMMA ReadOrdered ==
  ASSUME NEW s \in ScanType, NEW lo \in Nat, NEW hi \in Nat, Ordered(s, lo, hi), s.queue # <<>>
  PROVE  /\ Head(s.queue) \in Nat /\ lo < Head(s.queue) /\ Head(s.queue) <= hi
         /\ [s EXCEPT !.queue = Tail(s.queue)] \in ScanType
         /\ Ordered([s EXCEPT !.queue = Tail(s.queue)], Head(s.queue), hi)
<1> DEFINE q == s.queue
           r == Tail(s.queue)
           e == [s EXCEPT !.queue = Tail(s.queue)]
<1>1. q \in Seq(Nat) /\ s.pipe \in Seq(Nat) /\ q # <<>> /\ Len(q) \in Nat /\ Len(q) >= 1
  BY SMTT(60) DEF ScanType
<1>2. e.queue = r /\ e.pipe = s.pipe /\ e \in ScanType
  <2>1. r \in Seq(Nat)
    BY <1>1
  <2> HIDE DEF r
  <2>2. e = [s EXCEPT !.queue = r]
    BY DEF r
  <2> HIDE DEF e
  <2>3. e.queue = r /\ e.pipe = s.pipe /\ e.child = s.child
    BY <2>2, ZenonT(60) DEF ScanType
  <2> QED
    BY <2>1, <2>2, <2>3, ZenonT(60) DEF ScanType
<1>3. /\ r \in Seq(Nat) /\ Len(r) = Len(q) - 1
      /\ \A k \in 1..(Len(q) - 1) : r[k] = q[k + 1]
  BY <1>1, SMTT(60)
<1>4. Head(q) = q[1] /\ 1 \in DOMAIN q /\ q[1] \in Nat
  BY <1>1, SMTT(60)
<1>5. DOMAIN r = 1..(Len(q) - 1) /\ DOMAIN q = 1..Len(q)
  BY <1>1, <1>3, SMTT(60)
<1> HIDE DEF e, q, r
<1>6. \A k \in DOMAIN r : k + 1 \in DOMAIN q /\ 1 < k + 1 /\ r[k] = q[k + 1]
  BY <1>1, <1>3, <1>5, SMTT(60)
<1>7. lo < q[1] /\ q[1] <= hi
  BY <1>4, ZenonT(60) DEF Ordered, Within, q
<1>8. Increasing(r) /\ Within(r, q[1], hi)
  <2>1. Increasing(q) /\ Within(q, lo, hi)
    BY ZenonT(60) DEF Ordered, q
  <2>2. \A i, j \in DOMAIN r : i < j => i + 1 < j + 1
    BY <1>1, <1>5, SMTT(60)
  <2>3. Increasing(r)
    BY <1>6, <2>1, <2>2, ZenonT(60) DEF Increasing
  <2> QED
    BY <1>4, <1>6, <2>1, <2>3, ZenonT(60) DEF Increasing, Within
<1>9. /\ \A i \in DOMAIN r, j \in DOMAIN s.pipe : r[i] < s.pipe[j]
      /\ Increasing(s.pipe) /\ Within(s.pipe, q[1], hi)
  BY <1>4, <1>6, ZenonT(60) DEF Ordered, Within, q
<1>10. Len(r) <= QueueSize
  BY <1>1, <1>3, NeoBounds, SMTT(60) DEF Ordered, q
<1>11. Ordered(e, Head(q), hi)
  BY <1>2, <1>4, <1>8, <1>9, <1>10, ZenonT(60) DEF Ordered
<1> QED
  BY <1>2, <1>4, <1>7, <1>11, ZenonT(60) DEF e, q
(***************************************************************************)
(* The inductive invariant                                                 *)
(***************************************************************************)
Ops == {"IR_STATUS", "IR_SCAN_START", "IR_SCAN_STOP", "IR_SCAN_READ", "FILE_STATUS",
        "FILE_DOWNLOAD", "VM_READ", "DISPLAY_START", "DISPLAY_STOP", "DISPLAY_STATUS",
        "OLED_TEXT", "LED_SET", "LED_STATUS"}
Args == Nat \cup Images \cup {"none", "0", "1"}
Entry == [op : Ops, arg : Args, from : {"bridge", "local", "gone"}]

\* The argument a request carries is one its command can use.
ArgOK(r) ==
  /\ r.op = "DISPLAY_START" => r.arg \in Images
  /\ r.op = "OLED_TEXT" => r.arg = "none"
  /\ r.op = "LED_SET" => r.arg \in {"0", "1"}
  /\ r.op = "VM_READ" => r.arg \in Nat

Bridged(i) == backlog[i].from = "bridge"

BacklogInv ==
  /\ backlog \in Seq(Entry)
  /\ Len(backlog) <= Backlog
  /\ \A i \in DOMAIN backlog : ArgOK(backlog[i])

AnswerType == [status : {"none", "OK", "ERR"}, code : Nat,
               chunk : [size : Nat, ver : Nat, got : {0, 1}, eof : BOOLEAN]]

\* The bridge has at most one connection: its request waits, or its answer
\* does, and neither outlives the call that made it.
ConnInv ==
  /\ answer \in AnswerType
  /\ pc \in {"idle", "display", "call", "vm", "vm_next"}
  /\ pc \in {"idle", "vm_next"} => answer = NoAnswer /\ \A i \in DOMAIN backlog : ~Bridged(i)
  /\ answer # NoAnswer => \A i \in DOMAIN backlog : ~Bridged(i)
  /\ \A i, j \in DOMAIN backlog : Bridged(i) /\ Bridged(j) => i = j

\* One job at most, known by its pid until its end is recorded.
JobInv ==
  /\ job \in [pid : Nat, exit : {"-1"} \cup Exits]
  /\ lastJob \in 0..MaxJobs
  /\ DOMAIN children = {job.pid} \ {0}
  /\ job.pid # 0 => /\ job.pid = lastJob /\ job.exit = "-1"
                    /\ children[job.pid] \in Exits \cup {Running}
                    /\ lastExit = IF children[job.pid] = Running THEN "-1"
                                  ELSE children[job.pid]
  /\ job.pid = 0 => job.exit = lastExit

\* The codes on their way are newer than the one the bridge holds or returned.
Newest == IF answer.code # 0 THEN answer.code ELSE lastRead

OrderInv ==
  /\ scan \in ScanType /\ emitted \in Nat /\ lastRead \in Nat
  /\ lastRead <= emitted
  /\ answer.code # 0 => lastRead < answer.code /\ answer.code <= emitted
  /\ Ordered(scan, Newest, emitted)

Shown == display.worker = "running" /\ display.thread
Starts == \E i \in DOMAIN backlog : backlog[i].op = "DISPLAY_START"

\* A stop that is sent is the last request in the backlog: whoever answers it
\* has served every start before it.
DisplayInv ==
  /\ display \in [worker : {"none", "running", "exited"}, thread : BOOLEAN,
                  image : Images \cup {"none"}]
  /\ family \in {"display", "scan", "file", "vm", "led"}
  /\ wanted \in BOOLEAN /\ owned \in BOOLEAN /\ stopPending \in BOOLEAN
  /\ early \in BOOLEAN /\ vmRunning \in BOOLEAN /\ acked \in BOOLEAN
  /\ ~(wanted /\ stopPending) /\ (owned => wanted)
  /\ wanted => image \in Images
  /\ acked => ~wanted /\ ~Shown /\ ~Starts
  /\ pc = "display" => family = "display"
  /\ pc = "display" /\ stopPending =>
       /\ \A i \in DOMAIN backlog : Bridged(i) => i = Len(backlog) /\ backlog[i].op = "DISPLAY_STOP"
       /\ answer # NoAnswer => ~Shown /\ ~Starts

Part == [ver : Nat, size : Nat]

\* What has been read so far is of one size and, while the file is steady, of
\* one content; the chunk on its way continues it.
TransferInv ==
  /\ vmFile \in [size : Nat, ver : Nat] /\ steady \in BOOLEAN
  /\ transfer \in [offset : Nat, expected : Nat, parts : Seq(Part)]
  /\ Len(transfer.parts) = transfer.offset
  /\ transfer.expected = 0 => transfer.offset = 0
  /\ \A i \in DOMAIN transfer.parts :
       /\ transfer.parts[i].size = transfer.expected
       /\ steady => transfer.parts[i].ver = vmFile.ver
  /\ pc = "vm" =>
       /\ \A i \in DOMAIN backlog :
            Bridged(i) => backlog[i].op = "VM_READ" /\ backlog[i].arg = transfer.offset
       /\ answer.status = "OK" =>
            /\ answer.chunk.size > 0
            /\ answer.chunk.eof <=> transfer.offset + answer.chunk.got = answer.chunk.size
            /\ steady => answer.chunk.ver = vmFile.ver

StoredInv ==
  /\ stored \in [size : Nat, parts : Seq(Part), steady : BOOLEAN, file : Nat]
  /\ StoredIsWhole

LedInv == led \in {"unclaimed", "0", "1"} /\ listening \in BOOLEAN
(***************************************************************************)
(* How the backlog moves                                                   *)
(***************************************************************************)
LEMMA SentMoves ==
  ASSUME BacklogInv, NEW r \in Entry, sent(r)
  PROVE  /\ backlog' \in Seq(Entry) /\ Len(backlog') = Len(backlog) + 1
         /\ Len(backlog') <= Backlog
         /\ \A i \in DOMAIN backlog' :
              \/ i \in DOMAIN backlog /\ backlog'[i] = backlog[i]
              \/ i = Len(backlog') /\ i \notin DOMAIN backlog /\ backlog'[i] = r
         /\ answer' = answer
<1> DEFINE E == Entry
<1>1. backlog \in Seq(E) /\ r \in E /\ backlog' = Append(backlog, r) /\ Len(backlog) < Backlog
  BY ZenonT(60) DEF BacklogInv, sent
<1> HIDE DEF E
<1>2. /\ backlog' \in Seq(E) /\ Len(backlog') = Len(backlog) + 1 /\ Len(backlog) \in Nat
      /\ DOMAIN backlog' = 1..(Len(backlog) + 1) /\ DOMAIN backlog = 1..Len(backlog)
      /\ backlog'[Len(backlog) + 1] = r
      /\ \A i \in 1..Len(backlog) : backlog'[i] = backlog[i]
  BY <1>1, SMTT(60)
<1>3. Len(backlog') <= Backlog
  BY <1>1, <1>2, NeoBounds, SMTT(60)
<1>4. \A i \in DOMAIN backlog' : i \in 1..Len(backlog) \/ (i = Len(backlog) + 1 /\ i \notin DOMAIN backlog)
  BY <1>2, SMTT(60)
<1> QED
  BY <1>2, <1>3, <1>4, ZenonT(60) DEF E, sent

LEMMA ServedMoves ==
  ASSUME BacklogInv, accepted
  PROVE  /\ backlog' \in Seq(Entry) /\ Len(backlog') = Len(backlog) - 1
         /\ Len(backlog') \in Nat /\ Len(backlog') <= Backlog
         /\ \A i \in DOMAIN backlog' : i + 1 \in DOMAIN backlog /\ backlog'[i] = backlog[i + 1]
         /\ 1 \in DOMAIN backlog /\ request = backlog[1] /\ request \in Entry
         /\ \A i \in DOMAIN backlog' : i \in Nat /\ i # 0
<1> DEFINE E == Entry
<1>1. backlog \in Seq(E) /\ backlog # <<>> /\ backlog' = Tail(backlog) /\ Len(backlog) <= Backlog
  BY ZenonT(60) DEF BacklogInv, accepted
<1> HIDE DEF E
<1>2. Len(backlog) \in Nat /\ Len(backlog) >= 1 /\ DOMAIN backlog = 1..Len(backlog)
  BY <1>1, SMTT(60)
<1>3. /\ backlog' \in Seq(E) /\ Len(backlog') = Len(backlog) - 1
      /\ DOMAIN backlog' = 1..(Len(backlog) - 1)
      /\ \A i \in 1..(Len(backlog) - 1) : backlog'[i] = backlog[i + 1]
  BY <1>1, <1>2, SMTT(60)
<1>4. \A i \in 1..(Len(backlog) - 1) : i + 1 \in DOMAIN backlog /\ i \in Nat /\ i # 0
  BY <1>2, SMTT(60)
<1>5. 1 \in DOMAIN backlog /\ Head(backlog) = backlog[1] /\ Head(backlog) \in E
  BY <1>1, <1>2, SMTT(60)
<1>6. Len(backlog') <= Backlog /\ Len(backlog') \in Nat
  BY <1>1, <1>2, <1>3, NeoBounds, SMTT(60)
<1> QED
  BY <1>3, <1>4, <1>5, <1>6, ZenonT(60) DEF E, request

\* Every connection of the bridge is closed on its side.
HungUp == backlog' = [i \in DOMAIN backlog |->
                        IF backlog[i].from = "bridge" THEN [backlog[i] EXCEPT !.from = "gone"]
                        ELSE backlog[i]]

LEMMA HungUpMoves ==
  ASSUME BacklogInv, HungUp
  PROVE  /\ backlog' \in Seq(Entry) /\ Len(backlog') = Len(backlog)
         /\ DOMAIN backlog' = DOMAIN backlog
         /\ \A i \in DOMAIN backlog : /\ backlog'[i].op = backlog[i].op
                                      /\ backlog'[i].arg = backlog[i].arg
                                      /\ backlog'[i].from # "bridge"
<1> DEFINE E == Entry
           G(i) == IF backlog[i].from = "bridge" THEN [backlog[i] EXCEPT !.from = "gone"]
                   ELSE backlog[i]
<1>1. \A e \in Entry : /\ [e EXCEPT !.from = "gone"] \in Entry
                       /\ [e EXCEPT !.from = "gone"].op = e.op
                       /\ [e EXCEPT !.from = "gone"].arg = e.arg
                       /\ [e EXCEPT !.from = "gone"].from # "bridge"
  <2> SUFFICES ASSUME NEW e \in Entry
               PROVE  /\ [e EXCEPT !.from = "gone"] \in Entry
                      /\ [e EXCEPT !.from = "gone"].op = e.op
                      /\ [e EXCEPT !.from = "gone"].arg = e.arg
                      /\ [e EXCEPT !.from = "gone"].from # "bridge"
    BY ZenonT(60)
  <2>1. "gone" \in {"bridge", "local", "gone"} /\ "gone" # "bridge"
    BY SMTT(60)
  <2> QED
    BY <2>1, ZenonT(60) DEF Entry
<1>2. backlog \in Seq(E)
  BY ZenonT(60) DEF BacklogInv
<1>3. backlog' = [i \in DOMAIN backlog |-> G(i)]
  BY DEF HungUp
<1>4. \A i \in DOMAIN backlog : backlog[i] \in Entry
  <2> HIDE DEF E
  <2>1. \A i \in DOMAIN backlog : backlog[i] \in E
    BY <1>2, SMTT(60)
  <2> QED
    BY <2>1 DEF E
<1>5. \A i \in DOMAIN backlog : /\ G(i) \in E /\ G(i).op = backlog[i].op
                                /\ G(i).arg = backlog[i].arg /\ G(i).from # "bridge"
  BY <1>1, <1>4, ZenonT(60)
<1> HIDE DEF E, G
<1>6. backlog' \in Seq(E) /\ Len(backlog') = Len(backlog) /\ DOMAIN backlog' = DOMAIN backlog
  BY <1>2, <1>3, <1>5, SMTT(60)
<1>7. \A i \in DOMAIN backlog : backlog'[i] = G(i)
  BY <1>3, ZenonT(60)
<1> QED
  BY <1>5, <1>6, <1>7, ZenonT(60) DEF E

(***************************************************************************)
(* The file job                                                            *)
(***************************************************************************)
LEMMA ReapedJob ==
  ASSUME JobInv, UNCHANGED <<lastJob, lastExit>>,
         job' = reap_file(job, children).job, children' = reap_file(job, children).kids
  PROVE  JobInv'
<1>1. CASE job.pid # 0 /\ children[job.pid] # Running
  <2>1. job' = [pid |-> 0, exit |-> children[job.pid]]
    BY <1>1, ZenonT(60) DEF reap_file
  <2>2. children' = [p \in DOMAIN children \ {job.pid} |-> children[p]]
    BY <1>1, ZenonT(60) DEF reap_file
  <2>3. job'.pid = 0 /\ job'.exit = lastExit' /\ DOMAIN children' = {} /\ lastExit \in Exits
    BY <1>1, <2>1, <2>2, SMTT(60) DEF JobInv
  <2>4. job' \in [pid : Nat, exit : {"-1"} \cup Exits]
    BY <1>1, <2>1, <2>3, SMTT(60) DEF JobInv
  <2> QED
    BY <2>3, <2>4, SMTT(60) DEF JobInv
<1>2. CASE ~(job.pid # 0 /\ children[job.pid] # Running)
  <2>1. job' = job /\ children' = children
    BY <1>2, ZenonT(60) DEF reap_file
  <2> QED
    BY <2>1, ZenonT(60) DEF JobInv
<1> QED
  BY <1>1, <1>2

\* Only a served request, a turn of the loop, the end of a job and a restart
\* of the service concern the jobs.
jobVars == <<job, children, lastJob, lastExit>>

LEMMA StartedJob ==
  ASSUME JobInv, file_command
  PROVE  JobInv'
<1> DEFINE r == reap_file(job, children)
<1>1. CASE /\ job' = r.job /\ children' = r.kids /\ UNCHANGED <<lastJob, lastExit>>
  BY <1>1, ReapedJob
<1>2. CASE /\ r.job.pid = 0 /\ lastJob < MaxJobs
           /\ job' = [pid |-> lastJob + 1, exit |-> "-1"]
           /\ children' = [p \in DOMAIN r.kids \cup {lastJob + 1} |->
                             IF p = lastJob + 1 THEN Running ELSE r.kids[p]]
           /\ lastJob' = lastJob + 1 /\ lastExit' = "-1"
  <2>1. DOMAIN r.kids = {}
    <3>1. CASE job.pid # 0 /\ children[job.pid] # Running
      <4>1. r.kids = [p \in DOMAIN children \ {job.pid} |-> children[p]]
        BY <3>1, ZenonT(60) DEF reap_file
      <4> QED
        BY <4>1, SMTT(60) DEF JobInv
    <3>2. CASE ~(job.pid # 0 /\ children[job.pid] # Running)
      <4>1. r.kids = children /\ r.job = job
        BY <3>2, ZenonT(60) DEF reap_file
      <4> QED
        BY <1>2, <4>1, ZenonT(60) DEF JobInv
    <3> QED
      BY <3>1, <3>2
  <2> HIDE DEF r
  <2>2. lastJob + 1 \in 0..MaxJobs /\ lastJob + 1 # 0 /\ lastJob + 1 \in Nat
    BY <1>2, NeoBounds, SMTT(60) DEF JobInv
  <2> DEFINE n == lastJob + 1
  <2>3. /\ job' = [pid |-> n, exit |-> "-1"] /\ lastJob' = n /\ lastExit' = "-1"
        /\ DOMAIN children' = {n} /\ children'[n] = Running
    BY <1>2, <2>1, ZenonT(60)
  <2>4. n \in 0..MaxJobs /\ n # 0 /\ n \in Nat
    BY <2>2
  <2> HIDE DEF n
  <2>5. job'.pid = n /\ job'.exit = "-1"
    BY <2>3, ZenonT(60)
  <2>6. job' \in [pid : Nat, exit : {"-1"} \cup Exits]
    BY <2>3, <2>4, ZenonT(60)
  <2>7. DOMAIN children' = {n} \ {0}
    BY <2>3, <2>4, ZenonT(60)
  <2> QED
    BY <2>3, <2>4, <2>5, <2>6, <2>7, ZenonT(60) DEF JobInv
<1> QED
  BY <1>1, <1>2, ZenonT(60) DEF file_command

LEMMA ExitedJob ==
  ASSUME JobInv, NEW p \in DOMAIN children, NEW e \in Exits, jobExits(p, e)
  PROVE  JobInv'
<1>1. job.pid # 0 /\ p = job.pid /\ p = lastJob /\ job.exit = "-1"
  BY ZenonT(60) DEF JobInv
<1>2. /\ job' = job /\ lastJob' = lastJob /\ lastExit' = e
      /\ DOMAIN children' = DOMAIN children /\ children'[p] = e
  BY <1>1, ZenonT(60) DEF jobExits
<1>3. e # Running
  BY SMTT(60) DEF Exits, Running
<1> QED
  BY <1>1, <1>2, <1>3, ZenonT(60) DEF JobInv

LEMMA StepJob ==
  ASSUME JobInv, [Next]_vars
  PROVE  JobInv'
<1>1. CASE UNCHANGED jobVars
  BY <1>1, ZenonT(60) DEF JobInv, jobVars
<1>2. CASE poll \/ hw_command \/ hw_display_call \/ hw_led_call
  BY <1>2, ReapedJob, ZenonT(60) DEF poll, hw_command, hw_display_call, hw_led_call
<1>3. CASE restart
  <2>1. job' = NoJob /\ children' = NoChildren /\ lastJob' = 0 /\ lastExit' = "-1"
    BY <1>3, ZenonT(60) DEF restart
  <2>2. job'.pid = 0 /\ job'.exit = "-1" /\ DOMAIN children' = {} /\ 0 \in 0..MaxJobs
    BY <2>1, NeoBounds, SMTT(60) DEF NoJob, NoChildren
  <2>3. job' \in [pid : Nat, exit : {"-1"} \cup Exits]
    BY <2>1, SMTT(60) DEF NoJob
  <2> QED
    BY <2>1, <2>2, <2>3, SMTT(60) DEF JobInv
<1>4. CASE daemonStep
  <2>1. CASE bind \/ scannerPrints \/ scannerExits \/ workerExits
    BY <1>1, <2>1, ZenonT(60) DEF bind, scannerPrints, scannerExits, workerExits, jobVars
  <2> QED
    BY <1>2, <1>3, <1>4, <2>1, StartedJob, ExitedJob, ZenonT(60) DEF daemonStep
<1>5. CASE \/ \E i \in Images : displayStart(i)
           \/ displayStop \/ tick \/ tickDone \/ callDone \/ retryDue \/ vmToggles
           \/ \E c \in Calls[family] : call(c) \/ localCall(c)
  BY <1>1, <1>5, ZenonT(60) DEF displayStart, displayStop, tick, tickDone, callDone, retryDue,
     vmToggles, call, localCall, sent, received, abandoned, daemonVars, jobVars
<1>6. CASE vmFileChanges \/ vmDownload \/ vmChunk \/ vmNext \/ vmAbandoned \/ espReboot
  BY <1>1, <1>6, ZenonT(60) DEF vmFileChanges, vmFileReplaced, vmDownload, vmChunk, vmNext,
     vmAbandoned, espReboot, sent, received, abandoned, daemonVars, jobVars
<1> QED
  BY <1>1, <1>4, <1>5, <1>6, ZenonT(60) DEF Next, vars, daemonVars, jobVars
(***************************************************************************)
(* Replies                                                                 *)
(***************************************************************************)
Answered(reply) == reply \in AnswerType /\ reply.status \in {"OK", "ERR"}

LEMMA FixedReplies ==
  /\ Answered(OK) /\ OK.code = 0 /\ Answered(ERR) /\ ERR.code = 0
  /\ NoAnswer \in AnswerType /\ NoAnswer.status = "none" /\ NoAnswer.code = 0
BY SMTT(60) DEF Answered, AnswerType, OK, ERR, NoAnswer, Reply, NoChunk

LEMMA AnsweredIsAnswer ==
  ASSUME NEW reply, Answered(reply)
  PROVE  reply # NoAnswer
BY FixedReplies, SMTT(60) DEF Answered

LEMMA VmReply ==
  ASSUME TransferInv, NEW a \in Nat
  PROVE  LET r == VM_READ(a)
         IN /\ Answered(r) /\ r.code = 0
            /\ r.status = "OK" => /\ r.chunk.size > 0
                                  /\ r.chunk.eof <=> a + r.chunk.got = r.chunk.size
                                  /\ r.chunk.ver = vmFile.ver
<1> DEFINE r == VM_READ(a)
           got == IF a < vmFile.size THEN 1 ELSE 0
           c == [size |-> vmFile.size, ver |-> vmFile.ver, got |-> got,
                 eof |-> a + got = vmFile.size]
<1>1. vmFile.size \in Nat /\ vmFile.ver \in Nat
  BY SMTT(60) DEF TransferInv
<1>2. CASE vmFile.size < 1 \/ vmFile.size > MaxChunks \/ a > vmFile.size
  <2>1. r = ERR
    BY <1>2, ZenonT(60) DEF VM_READ
  <2>2. ERR.status # "OK"
    BY SMTT(60) DEF ERR, Reply
  <2> QED
    BY <2>1, <2>2, FixedReplies, ZenonT(60)
<1>3. CASE ~(vmFile.size < 1 \/ vmFile.size > MaxChunks \/ a > vmFile.size)
  <2>1. r = Reply("OK", 0, c)
    BY <1>3, ZenonT(60) DEF VM_READ
  <2>2. vmFile.size > 0
    BY <1>1, <1>3, SMTT(60)
  <2>3. got \in {0, 1}
    BY ZenonT(60)
  <2> HIDE DEF got, r
  <2>4. (a + got = vmFile.size) \in BOOLEAN
    BY ZenonT(60)
  <2>5. c \in [size : Nat, ver : Nat, got : {0, 1}, eof : BOOLEAN]
    BY <1>1, <2>3, <2>4, ZenonT(60)
  <2>6. c.size = vmFile.size /\ c.ver = vmFile.ver /\ c.got = got
        /\ (c.eof <=> a + got = vmFile.size)
    BY ZenonT(60)
  <2> HIDE DEF c
  <2>7. r.chunk = c /\ r.status = "OK" /\ r.code = 0
    BY <2>1, ZenonT(60) DEF Reply
  <2>8. Answered(r)
    <3>1. "OK" \in {"none", "OK", "ERR"} /\ "OK" \in {"OK", "ERR"} /\ 0 \in Nat
      BY SMTT(60)
    <3> QED
      BY <2>1, <2>5, <3>1, ZenonT(60) DEF Reply, Answered, AnswerType
  <2> QED
    BY <2>2, <2>6, <2>7, <2>8, ZenonT(60) DEF r
<1> QED
  BY <1>2, <1>3

\* A reply fits the codes on their way: it carries none, or the oldest.
Fits(reply) ==
  \/ reply.code = 0 /\ Ordered(scan', Newest, emitted)
  \/ /\ reply.code # 0 /\ Newest < reply.code /\ reply.code <= emitted
     /\ Ordered(scan', reply.code, emitted)

LEMMA NewestType ==
  ASSUME OrderInv, answer \in AnswerType
  PROVE  Newest \in Nat /\ lastRead <= Newest /\ Newest <= emitted
BY SMTT(60) DEF OrderInv, Newest, AnswerType

LEMMA DrainedTwice ==
  ASSUME OrderInv, answer \in AnswerType
  PROVE  /\ drain_scan(drain_scan(scan)) \in ScanType
         /\ Ordered(drain_scan(drain_scan(scan)), Newest, emitted)
<1>1. Newest \in Nat /\ emitted \in Nat
  BY NewestType DEF OrderInv
<1>2. drain_scan(scan) \in ScanType /\ Ordered(drain_scan(scan), Newest, emitted)
  BY <1>1, DrainOrdered, ZenonT(60) DEF OrderInv
<1> QED
  BY <1>1, <1>2, DrainOrdered, ZenonT(60)

LEMMA ScanReply ==
  ASSUME OrderInv, answer \in AnswerType, hw_command
  PROVE  scan' \in ScanType /\ \E reply : Answered(reply) /\ respond(reply) /\ Fits(reply)
<1> DEFINE s == drain_scan(drain_scan(scan))
<1>1. s \in ScanType /\ Ordered(s, Newest, emitted)
  BY DrainedTwice
<1>2. Newest \in Nat /\ emitted \in Nat
  BY NewestType DEF OrderInv
<1>3. PICK res : /\ scan' = res.state /\ respond(res.reply)
                 /\ \E ready, done \in BOOLEAN :
                      res = CASE request.op = "IR_STATUS" -> IR_STATUS(s, ready)
                              [] request.op = "IR_SCAN_START" -> IR_SCAN_START(s, ready, done)
                              [] request.op = "IR_SCAN_READ" -> IR_SCAN_READ(s, done)
                              [] OTHER -> [state |-> stop_scan, reply |-> OK]
  BY ZenonT(60) DEF hw_command
<1> HIDE DEF s
<1>4. PICK ready \in BOOLEAN, done \in BOOLEAN :
        \/ res = IR_STATUS(s, ready) \/ res = IR_SCAN_START(s, ready, done)
        \/ res = IR_SCAN_READ(s, done) \/ res = [state |-> stop_scan, reply |-> OK]
  BY <1>3, ZenonT(60)
<1> SUFFICES ASSUME TRUE
             PROVE  res.state \in ScanType /\ Answered(res.reply)
                    /\ (\/ res.reply.code = 0 /\ Ordered(res.state, Newest, emitted)
                        \/ /\ res.reply.code # 0 /\ Newest < res.reply.code
                           /\ res.reply.code <= emitted
                           /\ Ordered(res.state, res.reply.code, emitted))
  BY <1>3, ZenonT(60) DEF Fits
<1>5. CASE res = IR_STATUS(s, ready)
  <2>1. res.state = s /\ res.reply \in {OK, ERR}
    BY <1>5, ZenonT(60) DEF IR_STATUS
  <2> QED
    BY <1>1, <2>1, FixedReplies, ZenonT(60)
<1>6. CASE res = IR_SCAN_START(s, ready, done)
  <2> DEFINE e == [s EXCEPT !.child = "running"]
  <2>1. e \in ScanType /\ e.queue = s.queue /\ e.pipe = s.pipe
    <3>1. "running" \in {"none", "running", "exited"}
      BY SMTT(60)
    <3> QED
      BY <1>1, <3>1, ZenonT(60) DEF ScanType
  <2>2. Ordered(e, Newest, emitted)
    <3> HIDE DEF e
    <3> QED
      BY <1>1, <2>1, ZenonT(60) DEF Ordered
  <2>3. res.state \in {s, e} /\ res.reply \in {OK, ERR}
    BY <1>6, ZenonT(60) DEF IR_SCAN_START
  <2> QED
    BY <1>1, <2>1, <2>2, <2>3, FixedReplies, ZenonT(60)
<1>7. CASE res = IR_SCAN_READ(s, done)
  <2> DEFINE c == collect_scancodes(s, 1)
             e == [c EXCEPT !.queue = Tail(c.queue)]
             h == Head(c.queue)
  <2>1. c \in ScanType /\ Ordered(c, Newest, emitted)
    <3>1. 1 \in Nat
      OBVIOUS
    <3> QED
      BY <1>1, <1>2, <3>1, CollectOrdered, ZenonT(60)
  <2>2. CASE res.state = s /\ res.reply = ERR
    BY <1>1, <2>2, FixedReplies, ZenonT(60)
  <2>3. CASE res.state = c /\ res.reply = OK
    BY <2>1, <2>3, FixedReplies, ZenonT(60)
  <2>4. CASE c.queue # <<>> /\ res.state = e /\ res.reply = Reply("OK", h, NoChunk)
    <3>1. h \in Nat /\ Newest < h /\ h <= emitted /\ e \in ScanType /\ Ordered(e, h, emitted)
      <4> HIDE DEF c
      <4> QED
        BY <1>2, <2>1, <2>4, ReadOrdered, ZenonT(60)
    <3> HIDE DEF c, e, h
    <3>2. h # 0
      BY <1>2, <3>1, SMTT(60)
    <3>3. res.reply.code = h
      BY <2>4, SMTT(60) DEF Reply
    <3>4. Answered(res.reply)
      BY <2>4, <3>1, SMTT(60) DEF Answered, AnswerType, Reply, NoChunk
    <3> QED
      BY <2>4, <3>1, <3>2, <3>3, <3>4, ZenonT(60)
  <2> QED
    BY <1>7, <2>2, <2>3, <2>4, ZenonT(60) DEF IR_SCAN_READ
<1>8. CASE res = [state |-> stop_scan, reply |-> OK]
  <2>1. res.state = NoScan /\ res.reply = OK
    BY <1>8, ZenonT(60) DEF stop_scan
  <2>2. NoScan \in ScanType /\ NoScan.queue = <<>> /\ NoScan.pipe = <<>>
    BY SMTT(60) DEF NoScan, ScanType
  <2>3. Ordered(NoScan, Newest, emitted)
    BY <2>2, NeoBounds, SMTT(60) DEF Ordered, Increasing, Within
  <2> QED
    BY <2>1, <2>2, <2>3, FixedReplies, ZenonT(60)
<1> QED
  BY <1>4, <1>5, <1>6, <1>7, <1>8

Serve == hw_command \/ file_command \/ hw_display_call \/ hw_led_call

\* Every served request is answered, and its reply fits.
LEMMA ServeReply ==
  ASSUME BacklogInv, OrderInv, TransferInv, answer \in AnswerType, Serve
  PROVE  /\ accepted /\ emitted' = emitted /\ scan' \in ScanType
         /\ \E reply : Answered(reply) /\ respond(reply) /\ Fits(reply)
<1>1. CASE hw_command
  BY <1>1, ScanReply, ZenonT(60) DEF hw_command
<1>2. ASSUME scan' = drain_scan(drain_scan(scan)), accepted, emitted' = emitted,
             NEW reply, Answered(reply), reply.code = 0, respond(reply)
      PROVE  /\ accepted /\ emitted' = emitted /\ scan' \in ScanType
             /\ \E x : Answered(x) /\ respond(x) /\ Fits(x)
  BY <1>2, DrainedTwice, ZenonT(60) DEF Fits
<1>3. CASE file_command
  <2>1. accepted /\ emitted' = emitted /\ scan' = drain_scan(drain_scan(scan))
    BY <1>3, ZenonT(60) DEF file_command
  <2>2. \/ respond(OK) \/ respond(ERR)
        \/ request.op = "VM_READ" /\ respond(VM_READ(request.arg))
    BY <1>3, ZenonT(60) DEF file_command
  <2>3. CASE request.op = "VM_READ" /\ respond(VM_READ(request.arg))
    <3>1. request.arg \in Nat
      BY <2>1, <2>3, ServedMoves, ZenonT(60) DEF BacklogInv, ArgOK
    <3>2. Answered(VM_READ(request.arg)) /\ VM_READ(request.arg).code = 0
      BY <3>1, VmReply, ZenonT(60)
    <3> QED
      BY <1>2, <2>1, <2>3, <3>2
  <2> QED
    BY <1>2, <2>1, <2>2, <2>3, FixedReplies
<1>4. CASE hw_display_call
  <2>1. accepted /\ emitted' = emitted /\ scan' = drain_scan(drain_scan(scan))
    BY <1>4, ZenonT(60) DEF hw_display_call
  <2>2. PICK forked \in BOOLEAN :
          LET res == CASE request.op = "DISPLAY_STATUS" -> [state |-> reap(display), reply |-> OK]
                       [] request.op = "DISPLAY_STOP" ->
                            [state |-> stop(reap(display)), reply |-> OK]
                       [] OTHER -> launch(reap(display), request.op, request.arg, forked)
          IN respond(res.reply)
    BY <1>4, ZenonT(60) DEF hw_display_call
  <2>3. CASE request.op = "DISPLAY_STATUS" \/ request.op = "DISPLAY_STOP"
    <3>1. respond([state |-> reap(display), reply |-> OK].reply)
            \/ respond([state |-> stop(reap(display)), reply |-> OK].reply)
      BY <2>2, <2>3, ZenonT(60)
    <3>2. respond(OK)
      BY <3>1
    <3> QED
      BY <1>2, <2>1, <3>2, FixedReplies
  <2>4. CASE ~(request.op = "DISPLAY_STATUS" \/ request.op = "DISPLAY_STOP")
    <3> DEFINE l == launch(reap(display), request.op, request.arg, forked)
    <3>1. respond(l.reply)
      BY <2>2, <2>4, ZenonT(60)
    <3>2. l.reply = OK \/ l.reply = ERR
      BY SMTT(60) DEF launch
    <3> QED
      BY <1>2, <2>1, <3>1, <3>2, FixedReplies
  <2> QED
    BY <2>3, <2>4
<1>5. CASE hw_led_call
  <2>1. accepted /\ emitted' = emitted /\ scan' = drain_scan(drain_scan(scan))
    BY <1>5, ZenonT(60) DEF hw_led_call
  <2>2. respond(OK) \/ respond(ERR)
    BY <1>5, ZenonT(60) DEF hw_led_call
  <2> QED
    BY <1>2, <2>1, <2>2, FixedReplies
<1> QED
  BY <1>1, <1>3, <1>4, <1>5 DEF Serve
(***************************************************************************)
(* Codes in order                                                          *)
(***************************************************************************)
LEMMA OrderedBelow ==
  ASSUME NEW s \in ScanType, NEW lo \in Nat, NEW low \in Nat, NEW hi \in Nat,
         low <= lo, Ordered(s, lo, hi)
  PROVE  Ordered(s, low, hi)
<1>1. s.queue \in Seq(Nat) /\ s.pipe \in Seq(Nat)
  BY SMTT(60) DEF ScanType
<1>2. Within(s.queue, low, hi)
  BY <1>1, SMTT(60) DEF Ordered, Within
<1>3. Within(s.pipe, low, hi)
  BY <1>1, SMTT(60) DEF Ordered, Within
<1> QED
  BY <1>2, <1>3, ZenonT(60) DEF Ordered

LEMMA ServeOrder ==
  ASSUME BacklogInv, OrderInv, TransferInv, answer \in AnswerType, Serve, lastRead' = lastRead
  PROVE  OrderInv'
<1>1. accepted /\ emitted' = emitted /\ scan' \in ScanType
  BY ServeReply
<1>2. PICK reply : Answered(reply) /\ respond(reply) /\ Fits(reply)
  BY ServeReply
<1>3. /\ Newest \in Nat /\ lastRead <= Newest /\ Newest <= emitted
      /\ lastRead \in Nat /\ emitted \in Nat /\ reply.code \in Nat
  BY <1>2, NewestType, SMTT(60) DEF OrderInv, Answered, AnswerType
<1>4. CASE request.from = "bridge"
  <2>1. answer' = reply
    BY <1>2, <1>4, ZenonT(60) DEF respond
  <2>2. CASE reply.code = 0
    <3>1. Newest' = lastRead
      BY <2>1, <2>2, ZenonT(60) DEF Newest
    <3>2. Ordered(scan', lastRead, emitted)
      BY <1>1, <1>2, <1>3, <2>2, OrderedBelow, ZenonT(60) DEF Fits
    <3> QED
      BY <1>1, <1>3, <2>1, <2>2, <3>1, <3>2, ZenonT(60) DEF OrderInv
  <2>3. CASE reply.code # 0
    <3>1. Newest' = reply.code
      BY <2>1, <2>3, ZenonT(60) DEF Newest
    <3>2. /\ Newest < reply.code /\ reply.code <= emitted
          /\ Ordered(scan', reply.code, emitted)
      BY <1>2, <2>3, ZenonT(60) DEF Fits
    <3>3. lastRead < reply.code /\ lastRead <= emitted
      BY <1>3, <3>2, SMTT(60)
    <3> QED
      BY <1>1, <1>3, <2>1, <2>3, <3>1, <3>2, <3>3, ZenonT(60) DEF OrderInv
  <2> QED
    BY <2>2, <2>3
<1>5. CASE request.from # "bridge"
  <2>1. answer' = answer
    BY <1>2, <1>5, ZenonT(60) DEF respond
  <2>2. Newest' = Newest
    BY <2>1, ZenonT(60) DEF Newest
  <2>3. Ordered(scan', Newest, emitted)
    <3>1. CASE reply.code = 0
      BY <1>2, <3>1, ZenonT(60) DEF Fits
    <3>2. CASE reply.code # 0
      <4>1. Newest <= reply.code /\ Ordered(scan', reply.code, emitted)
        BY <1>2, <1>3, <3>2, SMTT(60) DEF Fits
      <4> QED
        BY <1>1, <1>3, <4>1, OrderedBelow
    <3> QED
      BY <3>1, <3>2
  <2> QED
    BY <1>1, <1>3, <2>1, <2>2, <2>3, ZenonT(60) DEF OrderInv
<1> QED
  BY <1>4, <1>5

\* An answer is taken, or given up: what it held counts as read or is lost.
LEMMA TakenOrder ==
  ASSUME OrderInv, answer \in AnswerType, answer' = NoAnswer, UNCHANGED <<scan, emitted>>,
         lastRead' = lastRead \/ (answer.code # 0 /\ lastRead' = answer.code)
  PROVE  OrderInv'
<1>1. Newest \in Nat /\ lastRead <= Newest /\ Newest <= emitted /\ emitted \in Nat /\ lastRead \in Nat
  BY NewestType, ZenonT(60) DEF OrderInv
<1>2. answer'.code = 0
  BY FixedReplies, ZenonT(60)
<1>3. Newest' = lastRead'
  BY <1>2, ZenonT(60) DEF Newest
<1>4. lastRead' \in Nat /\ lastRead' <= Newest
  <2>1. CASE lastRead' = lastRead
    BY <1>1, <2>1, ZenonT(60)
  <2>2. CASE answer.code # 0 /\ lastRead' = answer.code
    <3>1. lastRead' = Newest
      BY <2>2, ZenonT(60) DEF Newest
    <3> QED
      BY <1>1, <3>1, SMTT(60)
  <2> QED
    BY <2>1, <2>2
<1>5. Ordered(scan, lastRead', emitted)
  BY <1>1, <1>4, OrderedBelow, ZenonT(60) DEF OrderInv
<1>6. lastRead' <= emitted
  BY <1>1, <1>4, SMTT(60)
<1> QED
  BY <1>2, <1>3, <1>4, <1>5, <1>6, ZenonT(60) DEF OrderInv

LEMMA PrintOrder ==
  ASSUME OrderInv, answer \in AnswerType, scannerPrints, lastRead' = lastRead
  PROVE  OrderInv'
<1> DEFINE p == Append(scan.pipe, emitted + 1)
           hi == emitted + 1
<1>1. Newest \in Nat /\ lastRead <= Newest /\ Newest <= emitted /\ emitted \in Nat /\ lastRead \in Nat
  BY NewestType, ZenonT(60) DEF OrderInv
<1>2. scan \in ScanType /\ scan.queue \in Seq(Nat) /\ scan.pipe \in Seq(Nat)
  BY SMTT(60) DEF OrderInv, ScanType
<1>3. answer' = answer /\ emitted' = hi /\ scan' = [scan EXCEPT !.pipe = p]
  BY ZenonT(60) DEF scannerPrints
<1>4. p \in Seq(Nat)
  BY <1>1, <1>2, SMTT(60)
<1>5. Increasing(p) /\ Within(p, Newest, hi)
  <2>1. Within(scan.pipe, Newest, emitted) /\ Increasing(scan.pipe)
    BY ZenonT(60) DEF OrderInv, Ordered
  <2>2. Len(p) = Len(scan.pipe) + 1 /\ p[Len(p)] = emitted + 1
        /\ DOMAIN p = 1..(Len(scan.pipe) + 1) /\ DOMAIN scan.pipe = 1..Len(scan.pipe)
        /\ Len(scan.pipe) \in Nat
        /\ \A i \in DOMAIN scan.pipe : p[i] = scan.pipe[i] /\ scan.pipe[i] \in Nat
    BY <1>1, <1>2, SMTT(60)
  <2> HIDE DEF p
  <2>3. Increasing(p)
    <3> SUFFICES ASSUME NEW i \in DOMAIN p, NEW j \in DOMAIN p, i < j PROVE p[i] < p[j]
      BY ZenonT(60) DEF Increasing
    <3>1. i \in DOMAIN scan.pipe
      BY <2>2, SMTT(60)
    <3>2. CASE j \in DOMAIN scan.pipe
      BY <2>1, <2>2, <3>1, <3>2, ZenonT(60) DEF Increasing
    <3>3. CASE j \notin DOMAIN scan.pipe
      <4>1. j = Len(p)
        BY <2>2, <3>3, SMTT(60)
      <4>2. scan.pipe[i] <= emitted
        BY <2>1, <3>1, ZenonT(60) DEF Within
      <4> QED
        BY <1>1, <2>2, <3>1, <4>1, <4>2, SMTT(60)
    <3> QED
      BY <3>2, <3>3
  <2>4. Within(p, Newest, hi)
    BY <1>1, <2>1, <2>2, SMTT(60) DEF Within
  <2> QED
    BY <2>3, <2>4
<1>6. \A i \in DOMAIN scan.queue, j \in DOMAIN p : scan.queue[i] < p[j]
  <2>1. /\ Within(scan.queue, Newest, emitted)
        /\ \A i \in DOMAIN scan.queue, j \in DOMAIN scan.pipe : scan.queue[i] < scan.pipe[j]
    BY ZenonT(60) DEF OrderInv, Ordered
  <2> QED
    BY <1>1, <1>2, <2>1, SMTT(60) DEF Within
<1>7. Within(scan.queue, Newest, hi)
  <2>1. Within(scan.queue, Newest, emitted)
    BY ZenonT(60) DEF OrderInv, Ordered
  <2> QED
    BY <1>1, <1>2, <2>1, SMTT(60) DEF Within
<1> HIDE DEF p
<1>8. scan' \in ScanType /\ scan'.queue = scan.queue /\ scan'.pipe = p
  BY <1>2, <1>3, <1>4, ZenonT(60) DEF ScanType
<1>9. Ordered(scan', Newest, hi)
  BY <1>5, <1>6, <1>7, <1>8, ZenonT(60) DEF OrderInv, Ordered
<1>10. Newest' = Newest
  BY <1>3, ZenonT(60) DEF Newest
<1>11. hi \in Nat /\ lastRead <= hi /\ (answer.code # 0 => answer.code <= hi)
  BY <1>1, SMTT(60) DEF OrderInv, AnswerType
<1> HIDE DEF hi
<1> QED
  BY <1>1, <1>3, <1>8, <1>9, <1>10, <1>11, ZenonT(60) DEF OrderInv

LEMMA StepOrder ==
  ASSUME BacklogInv, OrderInv, TransferInv, answer \in AnswerType, [Next]_vars
  PROVE  OrderInv'
<1>1. CASE UNCHANGED <<scan, emitted, answer, lastRead>>
  BY <1>1, ZenonT(60) DEF OrderInv, Newest
<1>2. CASE daemonStep
  <2>0. lastRead' = lastRead
    BY <1>2, ZenonT(60) DEF daemonStep, bridgeVars
  <2>1. CASE Serve
    BY <2>0, <2>1, ServeOrder
  <2>2. CASE poll
    <3>1. scan' = drain_scan(scan) /\ UNCHANGED <<emitted, answer>>
      BY <2>2, ZenonT(60) DEF poll
    <3>2. drain_scan(scan) \in ScanType /\ Ordered(drain_scan(scan), Newest, emitted)
      BY NewestType, DrainOrdered, ZenonT(60) DEF OrderInv
    <3> QED
      BY <2>0, <3>1, <3>2, ZenonT(60) DEF OrderInv, Newest
  <2>3. CASE scannerPrints
    BY <2>0, <2>3, PrintOrder
  <2>4. CASE scannerExits
    <3>1. scan' = [scan EXCEPT !.child = "exited"] /\ UNCHANGED <<emitted, answer>>
      BY <2>4, ZenonT(60) DEF scannerExits
    <3>2. "exited" \in {"none", "running", "exited"}
      BY SMTT(60)
    <3>3. scan' \in ScanType /\ scan'.queue = scan.queue /\ scan'.pipe = scan.pipe
      BY <3>1, <3>2, ZenonT(60) DEF OrderInv, ScanType
    <3> QED
      BY <2>0, <3>1, <3>3, ZenonT(60) DEF OrderInv, Newest, Ordered
  <2>5. CASE restart
    <3>1. scan' = NoScan /\ UNCHANGED <<emitted, answer>>
      BY <2>5, ZenonT(60) DEF restart
    <3>2. NoScan \in ScanType /\ NoScan.queue = <<>> /\ NoScan.pipe = <<>>
      BY SMTT(60) DEF NoScan, ScanType
    <3>3. Ordered(NoScan, Newest, emitted)
      BY <3>2, NeoBounds, SMTT(60) DEF Ordered, Increasing, Within
    <3> QED
      BY <2>0, <3>1, <3>2, <3>3, ZenonT(60) DEF OrderInv, Newest
  <2>6. CASE \/ bind \/ workerExits
             \/ \E p \in DOMAIN children, e \in Exits : jobExits(p, e)
    BY <1>1, <2>0, <2>6, ZenonT(60) DEF bind, workerExits, jobExits
  <2> QED
    BY <1>2, <2>1, <2>2, <2>3, <2>4, <2>5, <2>6, ZenonT(60) DEF daemonStep, Serve
<1>3. CASE tickDone \/ callDone
  <2>1. CASE received
    BY <1>3, <2>1, TakenOrder, ZenonT(60) DEF tickDone, callDone, received
  <2>2. CASE ~received
    BY <1>1, <1>3, <2>2, ZenonT(60) DEF tickDone, callDone, abandoned
  <2> QED
    BY <2>1, <2>2
<1>4. CASE vmChunk \/ espReboot
  BY <1>4, TakenOrder, ZenonT(60) DEF vmChunk, espReboot, received
<1>5. CASE \/ \E i \in Images : displayStart(i)
           \/ displayStop \/ tick \/ retryDue \/ vmToggles
           \/ \E c \in Calls[family] : call(c) \/ localCall(c)
  BY <1>1, <1>5, ZenonT(60) DEF displayStart, displayStop, tick, retryDue, vmToggles, call,
     localCall, sent, daemonVars, bridgeVars, ghostVars
<1>6. CASE vmFileChanges \/ vmDownload \/ vmNext \/ vmAbandoned
  BY <1>1, <1>6, ZenonT(60) DEF vmFileChanges, vmFileReplaced, vmDownload, vmNext, vmAbandoned,
     sent, abandoned, daemonVars, ghostVars
<1>7. CASE UNCHANGED vars
  BY <1>1, <1>7, ZenonT(60) DEF vars, daemonVars, bridgeVars
<1> QED
  BY <1>2, <1>3, <1>4, <1>5, <1>6, <1>7, ZenonT(60) DEF Next
(***************************************************************************)
(* One connection of the bridge                                            *)
(***************************************************************************)
LEMMA CallEntry ==
  ASSUME DisplayInv, NEW c \in Calls[family], NEW who \in {"bridge", "local"}
  PROVE  LET r == [op |-> c[1], arg |-> c[2], from |-> who]
         IN r \in Entry /\ ArgOK(r) /\ r.op # "DISPLAY_START" /\ r.from = who
<1>1. /\ c[1] \in Ops \ {"DISPLAY_START", "VM_READ"} /\ c[2] \in {"none", "0", "1"}
      /\ c[1] = "OLED_TEXT" => c[2] = "none"
      /\ c[1] = "LED_SET" => c[2] \in {"0", "1"}
  <2>1. CASE family = "scan"
    BY <2>1, SMTT(60) DEF Calls, Ops
  <2>2. CASE family = "file"
    BY <2>2, SMTT(60) DEF Calls, Ops
  <2>3. CASE family = "led"
    BY <2>3, SMTT(60) DEF Calls, Ops
  <2>4. CASE family = "display"
    BY <2>4, SMTT(60) DEF Calls, Ops
  <2>5. CASE family = "vm"
    BY <2>5, SMTT(60) DEF Calls, Ops
  <2> QED
    BY <2>1, <2>2, <2>3, <2>4, <2>5, ZenonT(60) DEF DisplayInv
<1> DEFINE r == [op |-> c[1], arg |-> c[2], from |-> who]
<1>2. r.op = c[1] /\ r.arg = c[2] /\ r.from = who
  BY ZenonT(60)
<1>3. r \in Entry
  <2>1. c[1] \in Ops /\ c[2] \in Args /\ who \in {"bridge", "local", "gone"}
    BY <1>1, ZenonT(60) DEF Args
  <2> QED
    BY <2>1, ZenonT(60) DEF Entry
<1>4. ArgOK(r)
  <2> HIDE DEF r
  <2> QED
    BY <1>1, <1>2, ZenonT(60) DEF ArgOK
<1> HIDE DEF r
<1>5. r.op # "DISPLAY_START"
  BY <1>1, <1>2, ZenonT(60)
<1> QED
  BY <1>2, <1>3, <1>4, <1>5, ZenonT(60) DEF r

LEMMA SentBacklog ==
  ASSUME BacklogInv, NEW r \in Entry, ArgOK(r), sent(r)
  PROVE  BacklogInv'
<1>1. \A i \in DOMAIN backlog' : ArgOK(backlog'[i])
  BY SentMoves, ZenonT(60) DEF BacklogInv
<1> QED
  BY <1>1, SentMoves, ZenonT(60) DEF BacklogInv

\* The idle bridge opens a connection.
LEMMA SentConn ==
  ASSUME BacklogInv, ConnInv, pc \in {"idle", "vm_next"}, NEW r \in Entry, sent(r),
         pc' \in {"display", "call", "vm"}
  PROVE  ConnInv'
<1>1. /\ answer = NoAnswer /\ answer' = answer
      /\ \A i \in DOMAIN backlog : ~Bridged(i)
  BY SentMoves, ZenonT(60) DEF ConnInv
<1>2. \A i \in DOMAIN backlog' : Bridged(i)' => i = Len(backlog')
  BY <1>1, SentMoves, ZenonT(60) DEF Bridged
<1>3. \A i, j \in DOMAIN backlog' : Bridged(i)' /\ Bridged(j)' => i = j
  BY <1>2, ZenonT(60)
<1>4. pc' \notin {"idle", "vm_next"} /\ pc' \in {"idle", "display", "call", "vm", "vm_next"}
  BY SMTT(60)
<1> QED
  BY <1>1, <1>3, <1>4, ZenonT(60) DEF ConnInv

\* Somebody else does.
LEMMA LocalConn ==
  ASSUME BacklogInv, ConnInv, NEW r \in Entry, r.from # "bridge", sent(r), pc' = pc
  PROVE  ConnInv'
<1>1. answer' = answer
  BY SentMoves
<1>2. \A i \in DOMAIN backlog' : Bridged(i)' => i \in DOMAIN backlog /\ Bridged(i)
  BY SentMoves, ZenonT(60) DEF Bridged
<1> QED
  BY <1>1, <1>2, ZenonT(60) DEF ConnInv

LEMMA ServedConn ==
  ASSUME BacklogInv, ConnInv, accepted, NEW reply, Answered(reply), respond(reply), pc' = pc
  PROVE  BacklogInv' /\ ConnInv'
<1>1. BacklogInv'
  BY ServedMoves, ZenonT(60) DEF BacklogInv
<1>2. \A i \in DOMAIN backlog' : Bridged(i)' => i + 1 \in DOMAIN backlog /\ Bridged(i + 1)
  BY ServedMoves, ZenonT(60) DEF Bridged
<1>3. \A i, j \in DOMAIN backlog' : i + 1 = j + 1 => i = j
  <2>1. \A i \in DOMAIN backlog' : i \in Nat
    BY ServedMoves
  <2> QED
    BY <2>1, SMTT(60)
<1>4. \A i, j \in DOMAIN backlog' : Bridged(i)' /\ Bridged(j)' => i = j
  BY <1>2, <1>3, ZenonT(60) DEF ConnInv
<1>5. CASE request.from = "bridge"
  <2>1. answer' = reply /\ reply # NoAnswer /\ reply \in AnswerType
    BY <1>5, AnsweredIsAnswer, ZenonT(60) DEF respond, Answered
  <2>2. 1 \in DOMAIN backlog /\ Bridged(1)
    BY <1>5, ServedMoves, ZenonT(60) DEF Bridged
  <2>3. \A i \in DOMAIN backlog' : ~Bridged(i)'
    <3>1. \A i \in DOMAIN backlog' : i + 1 # 1
      <4>1. \A i \in DOMAIN backlog' : i \in Nat /\ i # 0
        BY ServedMoves
      <4> QED
        BY <4>1, SMTT(60)
    <3> QED
      BY <1>2, <2>2, <3>1, ZenonT(60) DEF ConnInv
  <2>4. pc \notin {"idle", "vm_next"}
    BY <2>2, ZenonT(60) DEF ConnInv
  <2> QED
    BY <1>1, <1>4, <2>1, <2>3, <2>4, ZenonT(60) DEF ConnInv
<1>6. CASE request.from # "bridge"
  <2>1. answer' = answer
    BY <1>6, ZenonT(60) DEF respond
  <2> QED
    BY <1>1, <1>2, <1>4, <2>1, ZenonT(60) DEF ConnInv
<1> QED
  BY <1>5, <1>6

LEMMA HungUpConn ==
  ASSUME BacklogInv, HungUp, answer' = NoAnswer, pc' \in {"idle", "vm_next"}
  PROVE  BacklogInv' /\ ConnInv'
<1>1. BacklogInv'
  BY HungUpMoves, ZenonT(60) DEF BacklogInv, ArgOK
<1>2. \A i \in DOMAIN backlog' : ~Bridged(i)'
  BY HungUpMoves, ZenonT(60) DEF Bridged
<1>3. pc' \in {"idle", "display", "call", "vm", "vm_next"} /\ answer' \in AnswerType
  BY FixedReplies, ZenonT(60)
<1> QED
  BY <1>1, <1>2, <1>3, ZenonT(60) DEF ConnInv

LEMMA ReceivedConn ==
  ASSUME BacklogInv, ConnInv, received, pc' \in {"idle", "vm_next"}
  PROVE  BacklogInv' /\ ConnInv'
<1>1. answer # NoAnswer /\ answer' = NoAnswer /\ backlog' = backlog
  BY ZenonT(60) DEF received
<1>2. pc' \in {"idle", "display", "call", "vm", "vm_next"} /\ answer' \in AnswerType
  BY <1>1, FixedReplies, ZenonT(60)
<1>3. \A i \in DOMAIN backlog' : ~Bridged(i)'
  BY <1>1, ZenonT(60) DEF ConnInv, Bridged
<1> QED
  BY <1>1, <1>2, <1>3, ZenonT(60) DEF BacklogInv, ConnInv

\* The request a tick sends.
LEMMA WishEntry ==
  ASSUME DisplayInv
  PROVE  /\ Request("DISPLAY_STOP", "none") \in Entry /\ ArgOK(Request("DISPLAY_STOP", "none"))
         /\ wanted => /\ Request("DISPLAY_START", image) \in Entry
                      /\ ArgOK(Request("DISPLAY_START", image))
<1>1. /\ "DISPLAY_STOP" \in Ops /\ "DISPLAY_START" \in Ops /\ "none" \in Args
      /\ "bridge" \in {"bridge", "local", "gone"} /\ (wanted => image \in Args)
  BY ZenonT(60) DEF Ops, Args, DisplayInv
<1>2. /\ Request("DISPLAY_STOP", "none") \in Entry
      /\ wanted => Request("DISPLAY_START", image) \in Entry
  BY <1>1, ZenonT(60) DEF Request, Entry
<1>3. ArgOK(Request("DISPLAY_STOP", "none"))
  BY SMTT(60) DEF Request, ArgOK
<1>4. wanted => ArgOK(Request("DISPLAY_START", image))
  BY SMTT(60) DEF Request, ArgOK, DisplayInv
<1> QED
  BY <1>2, <1>3, <1>4, ZenonT(60)

\* What a tick may do: nothing on the wire, or send the wish it has.
LEMMA TickMoves ==
  ASSUME DisplayInv, tick
  PROVE  /\ pc = "idle" /\ family = "display"
         /\ (wanted' => wanted) /\ (owned' => wanted') /\ (wanted' => image' = image)
         /\ wanted' \in BOOLEAN /\ owned' \in BOOLEAN /\ stopPending' \in BOOLEAN /\ early' \in BOOLEAN
         /\ ~(wanted' /\ stopPending')
         /\ \/ UNCHANGED <<daemonVars, pc>>
            \/ /\ pc' = "display"
               /\ \/ wanted' /\ ~stopPending' /\ sent(Request("DISPLAY_START", image))
                  \/ ~wanted' /\ stopPending' /\ sent(Request("DISPLAY_STOP", "none"))
         /\ UNCHANGED <<vmRunning, transfer, ghostVars>>
<1> DEFINE ended == owned /\ ~vmRunning
<1>1. /\ wanted' = (wanted /\ ~ended) /\ owned' = (owned /\ ~ended)
      /\ stopPending' = (stopPending \/ ended)
      /\ image' = IF wanted' THEN image ELSE "none"
      /\ pc = "idle" /\ family = "display"
      /\ UNCHANGED <<vmRunning, transfer, ghostVars>>
  BY ZenonT(60) DEF tick, wish
<1>2. \/ UNCHANGED <<daemonVars, pc>> /\ (early' \in BOOLEAN \/ early' = early)
      \/ UNCHANGED <<daemonVars, pc>> /\ early' = TRUE
      \/ /\ early' = TRUE /\ (wanted' \/ stopPending') /\ pc' = "display"
         /\ sent(Request(IF wanted' THEN "DISPLAY_START" ELSE "DISPLAY_STOP", image'))
  <2>1. /\ wish.wanted = wanted' /\ wish.stopPending = stopPending'
        /\ wish.early = IF ended THEN BOOLEAN ELSE {early}
    BY ZenonT(60) DEF tick, wish
  <2> QED
    BY <2>1, ZenonT(60) DEF tick
<1>3. early' \in BOOLEAN
  BY <1>2, ZenonT(60) DEF DisplayInv
<1>4. /\ wanted' \in BOOLEAN /\ owned' \in BOOLEAN /\ stopPending' \in BOOLEAN
      /\ (wanted' => wanted) /\ (owned' => wanted') /\ ~(wanted' /\ stopPending')
      /\ (wanted' => image' = image) /\ (~wanted' => image' = "none")
  BY <1>1, ZenonT(60) DEF DisplayInv
<1>5. CASE /\ (wanted' \/ stopPending') /\ pc' = "display"
           /\ sent(Request(IF wanted' THEN "DISPLAY_START" ELSE "DISPLAY_STOP", image'))
  BY <1>1, <1>3, <1>4, <1>5, ZenonT(60)
<1>6. CASE UNCHANGED <<daemonVars, pc>>
  BY <1>1, <1>3, <1>4, <1>6, ZenonT(60)
<1> QED
  BY <1>2, <1>5, <1>6

LEMMA VmEntry ==
  ASSUME NEW n \in Nat
  PROVE  /\ Request("VM_READ", n) \in Entry /\ ArgOK(Request("VM_READ", n))
         /\ Request("VM_READ", n).op = "VM_READ" /\ Request("VM_READ", n).arg = n
<1>1. "VM_READ" \in Ops /\ n \in Args /\ "bridge" \in {"bridge", "local", "gone"}
  BY ZenonT(60) DEF Ops, Args
<1>2. Request("VM_READ", n) \in Entry
  BY <1>1, ZenonT(60) DEF Request, Entry
<1>3. Request("VM_READ", n).op = "VM_READ" /\ Request("VM_READ", n).arg = n
  BY ZenonT(60) DEF Request
<1>4. ArgOK(Request("VM_READ", n))
  <2> DEFINE r == Request("VM_READ", n)
  <2>1. r.op = "VM_READ" /\ r.arg = n
    BY <1>3
  <2> HIDE DEF r
  <2>2. ArgOK(r)
    BY <2>1, SMTT(60) DEF ArgOK
  <2> QED
    BY <2>2 DEF r
<1> QED
  BY <1>2, <1>3, <1>4

LEMMA StepConn ==
  ASSUME BacklogInv, ConnInv, OrderInv, TransferInv, DisplayInv, [Next]_vars
  PROVE  BacklogInv' /\ ConnInv'
<1>0. answer \in AnswerType
  BY DEF ConnInv
<1>1. CASE UNCHANGED <<backlog, answer, pc>>
  BY <1>1, ZenonT(60) DEF BacklogInv, ConnInv, Bridged
<1>2. CASE daemonStep
  <2>0. pc' = pc
    BY <1>2, ZenonT(60) DEF daemonStep, bridgeVars
  <2>1. CASE Serve
    <3>1. accepted
      BY <1>0, <2>1, ServeReply
    <3>2. PICK reply : Answered(reply) /\ respond(reply) /\ Fits(reply)
      BY <1>0, <2>1, ServeReply
    <3> QED
      BY <2>0, <3>1, <3>2, ServedConn
  <2>2. CASE restart
    <3>1. backlog' = <<>> /\ answer' = answer
      BY <2>2, ZenonT(60) DEF restart
    <3>2. DOMAIN backlog' = {} /\ Len(backlog') <= Backlog
      BY <3>1, NeoBounds, SMTT(60)
    <3>3. backlog' \in Seq(Entry)
      BY <3>1, SMTT(60)
    <3> QED
      BY <2>0, <3>1, <3>2, <3>3, ZenonT(60) DEF BacklogInv, ConnInv
  <2>3. CASE \/ bind \/ poll \/ scannerPrints \/ scannerExits \/ workerExits
             \/ \E p \in DOMAIN children, e \in Exits : jobExits(p, e)
    BY <1>1, <2>0, <2>3, ZenonT(60) DEF bind, poll, scannerPrints, scannerExits, workerExits,
       jobExits
  <2> QED
    BY <1>2, <2>1, <2>2, <2>3, ZenonT(60) DEF daemonStep, Serve
<1>3. CASE tick
  <2>1. CASE UNCHANGED <<daemonVars, pc>>
    BY <1>1, <2>1, ZenonT(60) DEF daemonVars
  <2>2. CASE pc' = "display" /\ wanted' /\ sent(Request("DISPLAY_START", image))
    <3>1. wanted /\ pc \in {"idle", "vm_next"} /\ pc' \in {"display", "call", "vm"}
      BY <1>3, <2>2, TickMoves, ZenonT(60)
    <3> QED
      BY <2>2, <3>1, WishEntry, SentBacklog, SentConn
  <2>3. CASE pc' = "display" /\ sent(Request("DISPLAY_STOP", "none"))
    <3>1. pc \in {"idle", "vm_next"} /\ pc' \in {"display", "call", "vm"}
      BY <1>3, <2>3, TickMoves, ZenonT(60)
    <3> QED
      BY <2>3, <3>1, WishEntry, SentBacklog, SentConn
  <2> QED
    BY <1>3, <2>1, <2>2, <2>3, TickMoves, ZenonT(60)
<1>4. CASE tickDone \/ callDone
  <2>1. pc' \in {"idle", "vm_next"}
    BY <1>4, ZenonT(60) DEF tickDone, callDone
  <2>2. CASE received
    BY <2>1, <2>2, ReceivedConn
  <2>3. CASE abandoned
    BY <2>1, <2>3, HungUpConn, ZenonT(60) DEF abandoned, HungUp
  <2> QED
    BY <1>4, <2>2, <2>3, ZenonT(60) DEF tickDone, callDone
<1>5. ASSUME NEW c \in Calls[family], call(c) PROVE BacklogInv' /\ ConnInv'
  <2> DEFINE r == Request(c[1], c[2])
  <2>1. r \in Entry /\ ArgOK(r)
    <3>1. "bridge" \in {"bridge", "local"}
      OBVIOUS
    <3> QED
      BY <3>1, CallEntry, ZenonT(60) DEF Request
  <2>2. sent(r) /\ pc \in {"idle", "vm_next"} /\ pc' \in {"display", "call", "vm"}
    BY <1>5, ZenonT(60) DEF call
  <2> HIDE DEF r
  <2> QED
    BY <2>1, <2>2, SentBacklog, SentConn
<1>6. ASSUME NEW c \in Calls[family], localCall(c) PROVE BacklogInv' /\ ConnInv'
  <2> DEFINE r == [op |-> c[1], arg |-> c[2], from |-> "local"]
  <2>1. r \in Entry /\ ArgOK(r) /\ r.from = "local"
    <3>1. "local" \in {"bridge", "local"}
      OBVIOUS
    <3> QED
      BY <3>1, CallEntry, ZenonT(60)
  <2>2. sent(r) /\ pc' = pc
    BY <1>6, ZenonT(60) DEF localCall, bridgeVars
  <2> HIDE DEF r
  <2>3. r.from # "bridge"
    BY <2>1, SMTT(60)
  <2> QED
    BY <2>1, <2>2, <2>3, SentBacklog, LocalConn
<1>7. CASE vmDownload \/ vmNext
  <2>1. PICK n \in Nat : \/ /\ sent(Request("VM_READ", n)) /\ pc \in {"idle", "vm_next"}
                            /\ pc' \in {"display", "call", "vm"}
                         \/ UNCHANGED daemonVars /\ pc = "vm_next" /\ pc' = "idle"
    <3>1. 0 \in Nat /\ transfer.offset \in Nat
      BY SMTT(60) DEF TransferInv
    <3> QED
      BY <1>7, <3>1, ZenonT(60) DEF vmDownload, vmNext
  <2>2. CASE /\ sent(Request("VM_READ", n)) /\ pc \in {"idle", "vm_next"}
             /\ pc' \in {"display", "call", "vm"}
    BY <2>2, VmEntry, SentBacklog, SentConn
  <2>3. CASE UNCHANGED daemonVars /\ pc = "vm_next" /\ pc' = "idle"
    <3>1. UNCHANGED <<backlog, answer>>
      BY <2>3, ZenonT(60) DEF daemonVars
    <3> QED
      BY <2>3, <3>1, ZenonT(60) DEF BacklogInv, ConnInv, Bridged
  <2> QED
    BY <2>1, <2>2, <2>3
<1>8. CASE vmChunk
  <2>1. received /\ pc' \in {"idle", "vm_next"}
    BY <1>8, ZenonT(60) DEF vmChunk
  <2> QED
    BY <2>1, ReceivedConn
<1>9. CASE vmAbandoned \/ espReboot
  <2>1. HungUp /\ answer' = NoAnswer /\ pc' \in {"idle", "vm_next"}
    BY <1>9, ZenonT(60) DEF vmAbandoned, espReboot, abandoned, HungUp
  <2> QED
    BY <2>1, HungUpConn
<1>10. CASE \/ \E i \in Images : displayStart(i)
            \/ displayStop \/ retryDue \/ vmToggles \/ vmFileChanges
  BY <1>1, <1>10, ZenonT(60) DEF displayStart, displayStop, retryDue, vmToggles, vmFileChanges,
     vmFileReplaced, daemonVars
<1>11. CASE UNCHANGED vars
  BY <1>1, <1>11, ZenonT(60) DEF vars, daemonVars, bridgeVars
<1> QED
  BY <1>2, <1>3, <1>4, <1>5, <1>6, <1>7, <1>8, <1>9, <1>10, <1>11, ZenonT(60) DEF Next

(***************************************************************************)
(* The display                                                             *)
(***************************************************************************)
DisplayType == [worker : {"none", "running", "exited"}, thread : BOOLEAN,
                image : Images \cup {"none"}]

\* A served display request: only DISPLAY_START makes a thread.
LEMMA DisplayServed ==
  ASSUME BacklogInv, display \in DisplayType, hw_display_call
  PROVE  /\ display' \in DisplayType
         /\ request.op = "DISPLAY_STOP" => ~Shown'
         /\ Shown' => Shown \/ request.op = "DISPLAY_START"
<1> DEFINE d == reap(display)
           op == request.op
           arg == request.arg
<1>1. NoDisplay \in DisplayType /\ NoDisplay.worker = "none"
  BY SMTT(60) DEF NoDisplay, DisplayType
<1>2. d = NoDisplay \/ d = display
  BY ZenonT(60) DEF reap
<1>3. accepted /\ op \in {"DISPLAY_START", "DISPLAY_STOP", "DISPLAY_STATUS", "OLED_TEXT"}
  BY ZenonT(60) DEF hw_display_call
<1>4. /\ op = "DISPLAY_START" => arg \in Images
      /\ op = "OLED_TEXT" => arg = "none"
  BY <1>3, ServedMoves, ZenonT(60) DEF BacklogInv, ArgOK
<1>5. PICK forked \in BOOLEAN :
        LET res == CASE op = "DISPLAY_STATUS" -> [state |-> d, reply |-> OK]
                     [] op = "DISPLAY_STOP" -> [state |-> stop(d), reply |-> OK]
                     [] OTHER -> launch(d, op, arg, forked)
        IN display' = res.state
  BY ZenonT(60) DEF hw_display_call
<1> HIDE DEF d, op, arg
<1>6. CASE op = "DISPLAY_STATUS"
  <2>1. display' = d
    <3>1. display' = [state |-> d, reply |-> OK].state
      BY <1>5, <1>6, ZenonT(60)
    <3> QED
      BY <3>1
  <2>2. op # "DISPLAY_STOP"
    BY <1>6, SMTT(60)
  <2> QED
    BY <1>1, <1>2, <2>1, <2>2, SMTT(60) DEF Shown, op
<1>7. CASE op = "DISPLAY_STOP"
  <2>1. display' = NoDisplay
    <3>1. op # "DISPLAY_STATUS"
      BY <1>7, SMTT(60)
    <3>2. display' = [state |-> stop(d), reply |-> OK].state
      BY <1>5, <1>7, <3>1, ZenonT(60)
    <3> QED
      BY <3>2 DEF stop
  <2> QED
    BY <1>1, <2>1, SMTT(60) DEF Shown
<1>8. CASE op \in {"DISPLAY_START", "OLED_TEXT"}
  <2> DEFINE start == op = "DISPLAY_START"
             n == [worker |-> "running", thread |-> start, image |-> arg]
  <2>1. op # "DISPLAY_STOP" /\ op # "DISPLAY_STATUS"
    BY <1>8, SMTT(60)
  <2>2. display' = launch(d, op, arg, forked).state
    BY <1>5, <2>1, ZenonT(60)
  <2>3. display' = d \/ display' = NoDisplay \/ display' = n
    BY <2>2, SMTT(60) DEF launch, stop
  <2>4. n \in DisplayType /\ (n.thread <=> start)
    <3>1. "running" \in {"none", "running", "exited"} /\ start \in BOOLEAN
      BY ZenonT(60)
    <3>2. arg \in Images \cup {"none"}
      BY <1>4, <1>8, ZenonT(60)
    <3> QED
      BY <3>1, <3>2, ZenonT(60) DEF DisplayType
  <2> HIDE DEF n
  <2>5. CASE display' = n
    BY <2>1, <2>4, <2>5, ZenonT(60) DEF Shown, op
  <2>6. CASE display' = d \/ display' = NoDisplay
    <3>1. NoDisplay.worker # "running"
      BY <1>1, SMTT(60)
    <3> QED
      BY <1>1, <1>2, <2>1, <2>6, <3>1, ZenonT(60) DEF Shown, op
  <2> QED
    BY <2>3, <2>5, <2>6
<1> QED
  BY <1>3, <1>6, <1>7, <1>8, ZenonT(60)

LEMMA NoNewStart ==
  /\ \A r \in Entry : BacklogInv /\ sent(r) /\ r.op # "DISPLAY_START" /\ Starts' => Starts
  /\ BacklogInv /\ accepted => (Starts' => Starts) /\ (request.op = "DISPLAY_START" => Starts)
  /\ BacklogInv /\ HungUp /\ Starts' => Starts
<1>1. ASSUME NEW r \in Entry, BacklogInv, sent(r), r.op # "DISPLAY_START", Starts' PROVE Starts
  BY <1>1, SentMoves, ZenonT(60) DEF Starts
<1>2. ASSUME BacklogInv, accepted
      PROVE  (Starts' => Starts) /\ (request.op = "DISPLAY_START" => Starts)
  BY <1>2, ServedMoves, ZenonT(60) DEF Starts
<1>3. ASSUME BacklogInv, HungUp, Starts' PROVE Starts
  BY <1>3, HungUpMoves, ZenonT(60) DEF Starts
<1> QED
  BY <1>1, <1>2, <1>3

\* Steps that leave the wish alone and are not of a tick's request.
LEMMA DisplayKept ==
  ASSUME DisplayInv, display' \in DisplayType, Shown' => Shown, Starts' => Starts,
         pc' # "display",
         UNCHANGED <<wanted, owned, stopPending, image, early, vmRunning, acked, family>>
  PROVE  DisplayInv'
<1>1. acked' => ~wanted' /\ ~Shown' /\ ~Starts'
  BY ZenonT(60) DEF DisplayInv
<1> QED
  BY <1>1, ZenonT(60) DEF DisplayInv, DisplayType

\* A served request, while the display's own may be among those waiting.
LEMMA DisplayServe ==
  ASSUME BacklogInv, ConnInv, OrderInv, TransferInv, DisplayInv, Serve, UNCHANGED bridgeVars
  PROVE  DisplayInv'
<1>0. UNCHANGED <<wanted, owned, stopPending, image, early, vmRunning, acked, family, pc>>
  BY ZenonT(60) DEF bridgeVars
<1>1. accepted
  BY ServeReply DEF ConnInv
<1>2. PICK reply : Answered(reply) /\ respond(reply)
  BY ServeReply, ZenonT(60) DEF ConnInv
<1>3. display \in DisplayType
  BY ZenonT(60) DEF DisplayInv, DisplayType
<1>4. /\ display' \in DisplayType
      /\ request.op = "DISPLAY_STOP" => ~Shown'
      /\ Shown' => Shown \/ request.op = "DISPLAY_START"
  <2>1. CASE hw_display_call
    BY <1>3, <2>1, DisplayServed
  <2>2. CASE hw_command
    <3>1. display' = display /\ request.op # "DISPLAY_STOP"
      BY <2>2, SMTT(60) DEF hw_command
    <3> QED
      BY <1>3, <3>1, ZenonT(60) DEF Shown
  <2>3. CASE file_command
    <3>1. display' = display /\ request.op \in {"FILE_STATUS", "VM_READ", "FILE_DOWNLOAD"}
      BY <2>3, ZenonT(60) DEF file_command
    <3>2. request.op # "DISPLAY_STOP"
      BY <3>1, SMTT(60)
    <3> QED
      BY <1>3, <3>1, <3>2, ZenonT(60) DEF Shown
  <2>4. CASE hw_led_call
    <3>1. display' = display /\ request.op \in {"LED_STATUS", "LED_SET"}
      BY <2>4, ZenonT(60) DEF hw_led_call
    <3>2. request.op # "DISPLAY_STOP"
      BY <3>1, SMTT(60)
    <3> QED
      BY <1>3, <3>1, <3>2, ZenonT(60) DEF Shown
  <2> QED
    BY <2>1, <2>2, <2>3, <2>4 DEF Serve
<1>5. (Starts' => Starts) /\ (request.op = "DISPLAY_START" => Starts)
  BY <1>1, NoNewStart
<1>6. ASSUME ~Shown, ~Starts PROVE ~Shown' /\ ~Starts'
  BY <1>4, <1>5, <1>6, ZenonT(60)
<1>7. acked' => ~wanted' /\ ~Shown' /\ ~Starts'
  BY <1>0, <1>6, ZenonT(60) DEF DisplayInv
<1>8. ASSUME pc = "display", stopPending
      PROVE  /\ \A i \in DOMAIN backlog' :
                  Bridged(i)' => i = Len(backlog') /\ backlog'[i].op = "DISPLAY_STOP"
             /\ answer' # NoAnswer => ~Shown' /\ ~Starts'
  <2>1. \A i \in DOMAIN backlog : Bridged(i) => i = Len(backlog) /\ backlog[i].op = "DISPLAY_STOP"
    BY <1>8, ZenonT(60) DEF DisplayInv
  <2>2. \A i \in DOMAIN backlog' : i + 1 = Len(backlog) => i = Len(backlog')
    <3>1. Len(backlog') \in Nat /\ Len(backlog') = Len(backlog) - 1 /\ Len(backlog) \in Nat
      BY <1>1, ServedMoves, SMTT(60) DEF BacklogInv
    <3>2. \A i \in DOMAIN backlog' : i \in Nat
      BY <1>1, ServedMoves
    <3> QED
      BY <3>1, <3>2, SMTT(60)
  <2>3. \A i \in DOMAIN backlog' :
          Bridged(i)' => i = Len(backlog') /\ backlog'[i].op = "DISPLAY_STOP"
    BY <1>1, <2>1, <2>2, ServedMoves, ZenonT(60) DEF Bridged
  <2>4. ASSUME answer' # NoAnswer PROVE ~Shown' /\ ~Starts'
    <3>1. CASE answer # NoAnswer
      BY <1>6, <1>8, <3>1, ZenonT(60) DEF DisplayInv
    <3>2. CASE answer = NoAnswer
      <4>1. request.from = "bridge"
        BY <1>2, <2>4, <3>2, ZenonT(60) DEF respond
      <4>2. 1 \in DOMAIN backlog /\ Bridged(1) /\ request = backlog[1]
        BY <1>1, <4>1, ServedMoves, ZenonT(60) DEF Bridged
      <4>3. Len(backlog) = 1 /\ request.op = "DISPLAY_STOP"
        BY <2>1, <4>2, ZenonT(60)
      <4>4. DOMAIN backlog' = {}
        <5>1. Len(backlog') = 0
          BY <1>1, <4>3, ServedMoves, SMTT(60)
        <5>2. backlog' \in Seq(Entry)
          BY <1>1, ServedMoves
        <5> QED
          BY <5>1, <5>2, SMTT(60)
      <4> QED
        BY <1>4, <4>3, <4>4, ZenonT(60) DEF Starts
    <3> QED
      BY <3>1, <3>2
  <2> QED
    BY <2>3, <2>4
<1>9. pc' = "display" /\ stopPending' =>
        /\ \A i \in DOMAIN backlog' :
             Bridged(i)' => i = Len(backlog') /\ backlog'[i].op = "DISPLAY_STOP"
        /\ answer' # NoAnswer => ~Shown' /\ ~Starts'
  BY <1>0, <1>8, ZenonT(60)
<1> QED
  BY <1>0, <1>4, <1>7, <1>9, ZenonT(60) DEF DisplayInv, DisplayType

LEMMA DisplayTick ==
  ASSUME BacklogInv, ConnInv, DisplayInv, tick
  PROVE  DisplayInv'
<1>0. /\ pc = "idle" /\ family = "display"
      /\ UNCHANGED <<vmRunning, acked, family>>
      /\ (wanted' => wanted) /\ (owned' => wanted') /\ (wanted' => image' = image)
      /\ wanted' \in BOOLEAN /\ owned' \in BOOLEAN /\ stopPending' \in BOOLEAN /\ early' \in BOOLEAN
      /\ ~(wanted' /\ stopPending')
  BY TickMoves, ZenonT(60) DEF ghostVars
<1>1. /\ family' \in {"display", "scan", "file", "vm", "led"}
      /\ vmRunning' \in BOOLEAN /\ acked' \in BOOLEAN /\ (wanted' => image' \in Images)
  BY <1>0, ZenonT(60) DEF DisplayInv
<1>2. CASE UNCHANGED <<daemonVars, pc>>
  <2>1. UNCHANGED <<display, backlog, answer>> /\ pc' # "display"
    BY <1>0, <1>2, SMTT(60) DEF daemonVars
  <2>2. acked' => ~wanted' /\ ~Shown' /\ ~Starts'
    BY <1>0, <2>1, ZenonT(60) DEF DisplayInv, Shown, Starts
  <2> QED
    BY <1>0, <1>1, <2>1, <2>2, ZenonT(60) DEF DisplayInv
<1>3. CASE pc' = "display" /\ wanted' /\ ~stopPending' /\ sent(Request("DISPLAY_START", image))
  <2>1. display' = display /\ ~acked'
    BY <1>0, <1>3, ZenonT(60) DEF sent, DisplayInv
  <2> QED
    BY <1>0, <1>1, <1>3, <2>1, ZenonT(60) DEF DisplayInv
<1>4. CASE pc' = "display" /\ ~wanted' /\ stopPending' /\ sent(Request("DISPLAY_STOP", "none"))
  <2> DEFINE r == Request("DISPLAY_STOP", "none")
  <2>1. r \in Entry /\ r.op = "DISPLAY_STOP"
    BY WishEntry, ZenonT(60) DEF Request
  <2>2. display' = display /\ sent(r)
    BY <1>4, ZenonT(60) DEF sent
  <2> HIDE DEF r
  <2>3. r.op # "DISPLAY_START"
    BY <2>1, SMTT(60)
  <2>4. Starts' => Starts
    BY <2>1, <2>2, <2>3, NoNewStart
  <2>5. acked' => ~wanted' /\ ~Shown' /\ ~Starts'
    BY <1>0, <2>2, <2>4, ZenonT(60) DEF DisplayInv, Shown
  <2>6. answer' = NoAnswer
    BY <1>0, <2>1, <2>2, SentMoves, ZenonT(60) DEF ConnInv
  <2>7. \A i \in DOMAIN backlog' :
          Bridged(i)' => i = Len(backlog') /\ backlog'[i].op = "DISPLAY_STOP"
    <3>1. \A i \in DOMAIN backlog : ~Bridged(i)
      BY <1>0, ZenonT(60) DEF ConnInv
    <3> QED
      BY <2>1, <2>2, <3>1, SentMoves, ZenonT(60) DEF Bridged
  <2> QED
    BY <1>0, <1>1, <2>2, <2>5, <2>6, <2>7, ZenonT(60) DEF DisplayInv
<1> QED
  BY <1>2, <1>3, <1>4, TickMoves, ZenonT(60)

LEMMA DisplayTickDone ==
  ASSUME BacklogInv, ConnInv, DisplayInv, tickDone
  PROVE  DisplayInv'
<1>1. /\ pc = "display" /\ pc' # "display"
      /\ UNCHANGED <<wanted, owned, image, early, vmRunning, family, display>>
  BY SMTT(60) DEF tickDone, received, abandoned
<1>2. CASE received
  <2>1. /\ stopPending' = (stopPending /\ answer.status # "OK")
        /\ acked' = (acked \/ (stopPending /\ answer.status = "OK"))
    BY <1>2, ZenonT(60) DEF tickDone, received, abandoned
  <2>2. answer # NoAnswer /\ backlog' = backlog
    BY <1>2, ZenonT(60) DEF received
  <2>3. acked' => ~wanted' /\ ~Shown' /\ ~Starts'
    BY <1>1, <2>1, <2>2, ZenonT(60) DEF DisplayInv, Shown, Starts
  <2>4. stopPending' \in BOOLEAN /\ acked' \in BOOLEAN /\ (stopPending' => stopPending)
    BY <2>1, ZenonT(60)
  <2> QED
    BY <1>1, <2>3, <2>4, ZenonT(60) DEF DisplayInv
<1>3. CASE abandoned /\ UNCHANGED <<stopPending, acked>>
  <2>1. Starts' => Starts
    BY <1>3, NoNewStart, ZenonT(60) DEF abandoned, HungUp
  <2> QED
    BY <1>1, <1>3, <2>1, DisplayKept, ZenonT(60) DEF DisplayInv, DisplayType, Shown
<1> QED
  BY <1>2, <1>3, ZenonT(60) DEF tickDone

LEMMA StepDisplay ==
  ASSUME BacklogInv, ConnInv, OrderInv, TransferInv, DisplayInv, [Next]_vars
  PROVE  DisplayInv'
<1>0. display \in DisplayType
  BY ZenonT(60) DEF DisplayInv, DisplayType
<1>1. CASE /\ UNCHANGED <<display, backlog, answer, pc, wanted, owned, stopPending, image, acked, family>>
           /\ early' \in BOOLEAN /\ vmRunning' \in BOOLEAN
  BY <1>1, ZenonT(60) DEF DisplayInv, Shown, Starts, Bridged
<1>2. CASE daemonStep
  <2>0. UNCHANGED <<wanted, owned, stopPending, image, early, vmRunning, acked, family, pc>>
    BY <1>2, ZenonT(60) DEF daemonStep, bridgeVars
  <2>1. CASE Serve
    BY <1>2, <2>1, DisplayServe DEF daemonStep
  <2>2. CASE restart
    <3>1. display' = NoDisplay /\ backlog' = <<>>
      BY <2>2, ZenonT(60) DEF restart
    <3>2. display' \in DisplayType /\ ~Shown'
      BY <3>1, SMTT(60) DEF NoDisplay, DisplayType, Shown
    <3>3. DOMAIN backlog' = {}
      BY <3>1, SMTT(60)
    <3>4. ~Starts'
      BY <3>3, ZenonT(60) DEF Starts
    <3> QED
      BY <2>0, <3>2, <3>3, <3>4, ZenonT(60) DEF DisplayInv, DisplayType
  <2>3. CASE workerExits
    <3>1. display' = [display EXCEPT !.worker = "exited"] /\ UNCHANGED <<backlog, answer>>
      BY <2>3, ZenonT(60) DEF workerExits
    <3>2. "exited" \in {"none", "running", "exited"} /\ "exited" # "running"
      BY SMTT(60)
    <3>3. display' \in DisplayType /\ display'.worker = "exited"
      BY <1>0, <3>1, <3>2, ZenonT(60) DEF DisplayType
    <3>4. ~Shown'
      BY <3>2, <3>3, ZenonT(60) DEF Shown
    <3>5. Starts' <=> Starts
      BY <3>1, ZenonT(60) DEF Starts
    <3> QED
      BY <2>0, <3>1, <3>3, <3>4, <3>5, ZenonT(60) DEF DisplayInv, DisplayType, Bridged
  <2>4. CASE \/ bind \/ poll \/ scannerPrints \/ scannerExits
             \/ \E p \in DOMAIN children, e \in Exits : jobExits(p, e)
    <3>1. UNCHANGED <<display, backlog, answer>>
      BY <2>4, ZenonT(60) DEF bind, poll, scannerPrints, scannerExits, jobExits
    <3>2. early' \in BOOLEAN /\ vmRunning' \in BOOLEAN
      BY <2>0, ZenonT(60) DEF DisplayInv
    <3> QED
      BY <1>1, <2>0, <3>1, <3>2
  <2> QED
    BY <1>2, <2>1, <2>2, <2>3, <2>4, ZenonT(60) DEF daemonStep, Serve
<1>3. ASSUME NEW i \in Images, displayStart(i) PROVE DisplayInv'
  <2>1. /\ pc' = "idle" /\ image' = i /\ wanted' = TRUE /\ stopPending' = FALSE
        /\ owned' = vmRunning /\ early' \in BOOLEAN /\ acked' = FALSE
        /\ UNCHANGED <<display, backlog, answer, vmRunning, family>>
    BY <1>3, ZenonT(60) DEF displayStart, daemonVars
  <2>2. pc' # "display"
    BY <2>1, SMTT(60)
  <2> QED
    BY <2>1, <2>2, ZenonT(60) DEF DisplayInv
<1>4. CASE displayStop
  <2>1. /\ pc' = "idle" /\ wanted' = FALSE /\ stopPending' = TRUE
        /\ owned' = FALSE /\ early' \in BOOLEAN
        /\ UNCHANGED <<display, backlog, answer, vmRunning, family, acked>>
    BY <1>4, ZenonT(60) DEF displayStop, daemonVars
  <2>2. pc' # "display"
    BY <2>1, SMTT(60)
  <2>3. acked' => ~wanted' /\ ~Shown' /\ ~Starts'
    BY <2>1, ZenonT(60) DEF DisplayInv, Shown, Starts
  <2> QED
    BY <2>1, <2>2, <2>3, ZenonT(60) DEF DisplayInv
<1>5. ASSUME NEW c \in Calls[family], call(c) PROVE DisplayInv'
  <2> DEFINE r == Request(c[1], c[2])
  <2>1. r \in Entry /\ r.op # "DISPLAY_START"
    <3>1. "bridge" \in {"bridge", "local"}
      OBVIOUS
    <3> QED
      BY <3>1, CallEntry, ZenonT(60) DEF Request
  <2>2. sent(r) /\ pc' = "call" /\ UNCHANGED <<displayVars, acked, family>>
    BY <1>5, ZenonT(60) DEF call
  <2> HIDE DEF r
  <2>3. pc' # "display" /\ display' = display
    BY <2>2, SMTT(60) DEF sent
  <2>4. Starts' => Starts
    BY <2>1, <2>2, NoNewStart
  <2> QED
    BY <1>0, <2>2, <2>3, <2>4, DisplayKept, ZenonT(60) DEF displayVars, Shown
<1>6. ASSUME NEW c \in Calls[family], localCall(c) PROVE DisplayInv'
  <2> DEFINE r == [op |-> c[1], arg |-> c[2], from |-> "local"]
  <2>1. r \in Entry /\ r.op # "DISPLAY_START"
    <3>1. "local" \in {"bridge", "local"}
      OBVIOUS
    <3> QED
      BY <3>1, CallEntry, ZenonT(60)
  <2>2. sent(r) /\ UNCHANGED bridgeVars /\ family \in {"scan", "file"}
    BY <1>6, ZenonT(60) DEF localCall
  <2> HIDE DEF r
  <2>3. pc # "display"
    BY <2>2, SMTT(60) DEF DisplayInv
  <2>4. Starts' => Starts
    BY <2>1, <2>2, NoNewStart
  <2>5. display' = display
    BY <2>2, ZenonT(60) DEF sent
  <2>6. UNCHANGED <<wanted, owned, stopPending, image, early, vmRunning, acked, family, pc>>
    BY <2>2, ZenonT(60) DEF bridgeVars
  <2> QED
    BY <1>0, <2>3, <2>4, <2>5, <2>6, DisplayKept, ZenonT(60) DEF Shown
<1>7. CASE callDone \/ vmChunk \/ vmAbandoned
  <2>1. UNCHANGED <<displayVars, acked, family>> /\ pc' \in {"idle", "vm_next"}
    BY <1>7, ZenonT(60) DEF callDone, vmChunk, vmAbandoned, ghostVars
  <2>2. received \/ abandoned
    BY <1>7, ZenonT(60) DEF callDone, vmChunk, vmAbandoned
  <2>3. display' = display
    BY <2>2, ZenonT(60) DEF received, abandoned
  <2>4. Starts' => Starts
    <3>1. CASE received
      BY <3>1, ZenonT(60) DEF received, Starts
    <3>2. CASE abandoned
      BY <3>2, NoNewStart, ZenonT(60) DEF abandoned, HungUp
    <3> QED
      BY <2>2, <3>1, <3>2
  <2>5. pc' # "display"
    BY <2>1, SMTT(60)
  <2> QED
    BY <1>0, <2>1, <2>3, <2>4, <2>5, DisplayKept, ZenonT(60) DEF displayVars, Shown
<1>8. CASE vmDownload \/ vmNext
  <2>1. UNCHANGED <<displayVars, acked, family>> /\ pc' \in {"idle", "vm"}
    BY <1>8, ZenonT(60) DEF vmDownload, vmNext, ghostVars
  <2>2. PICK n \in Nat : sent(Request("VM_READ", n)) \/ UNCHANGED daemonVars
    <3>1. 0 \in Nat /\ transfer.offset \in Nat
      BY SMTT(60) DEF TransferInv
    <3> QED
      BY <1>8, <3>1, ZenonT(60) DEF vmDownload, vmNext
  <2>3. display' = display
    BY <2>2, ZenonT(60) DEF sent, daemonVars
  <2>4. Starts' => Starts
    <3>1. CASE sent(Request("VM_READ", n))
      <4>1. Request("VM_READ", n) \in Entry /\ Request("VM_READ", n).op = "VM_READ"
        BY VmEntry
      <4>2. Request("VM_READ", n).op # "DISPLAY_START"
        BY <4>1, SMTT(60)
      <4> QED
        BY <3>1, <4>1, <4>2, NoNewStart
    <3>2. CASE UNCHANGED daemonVars
      BY <3>2, ZenonT(60) DEF daemonVars, Starts
    <3> QED
      BY <2>2, <3>1, <3>2
  <2>5. pc' # "display"
    BY <2>1, SMTT(60)
  <2> QED
    BY <1>0, <2>1, <2>3, <2>4, <2>5, DisplayKept, ZenonT(60) DEF displayVars, Shown
<1>9. CASE espReboot
  <2>1. /\ HungUp /\ pc' = "idle" /\ wanted' = FALSE /\ owned' = FALSE /\ stopPending' = FALSE
        /\ early' = FALSE /\ vmRunning' = FALSE /\ UNCHANGED <<display, acked, family>>
    BY <1>9, ZenonT(60) DEF espReboot, HungUp
  <2>2. Starts' => Starts
    BY <2>1, NoNewStart
  <2>3. pc' # "display"
    BY <2>1, SMTT(60)
  <2>4. acked' => ~wanted' /\ ~Shown' /\ ~Starts'
    BY <2>1, <2>2, ZenonT(60) DEF DisplayInv, Shown
  <2> QED
    BY <2>1, <2>3, <2>4, ZenonT(60) DEF DisplayInv
<1>10. CASE retryDue \/ vmToggles \/ vmFileChanges \/ UNCHANGED vars
  <2>1. UNCHANGED <<display, backlog, answer, pc, wanted, owned, stopPending, image, acked, family>>
    BY <1>10, ZenonT(60) DEF retryDue, vmToggles, vmFileChanges, vmFileReplaced, daemonVars,
       ghostVars, displayVars, vars, bridgeVars
  <2>2. \/ early' = FALSE /\ vmRunning' = vmRunning
        \/ early' = early /\ vmRunning' = ~vmRunning
        \/ UNCHANGED <<early, vmRunning>>
    BY <1>10, ZenonT(60) DEF retryDue, vmToggles, vmFileChanges, displayVars, vars, bridgeVars
  <2>3. early' \in BOOLEAN /\ vmRunning' \in BOOLEAN
    BY <2>2, ZenonT(60) DEF DisplayInv
  <2> QED
    BY <1>1, <2>1, <2>3
<1> QED
  BY <1>2, <1>3, <1>4, <1>5, <1>6, <1>7, <1>8, <1>9, <1>10, DisplayTick, DisplayTickDone,
     ZenonT(60) DEF Next
(***************************************************************************)
(* The VM transfer                                                         *)
(***************************************************************************)
LEMMA TransferReset ==
  ASSUME vmFile' \in [size : Nat, ver : Nat], steady' \in BOOLEAN, transfer' = NoTransfer,
         pc' # "vm"
  PROVE  TransferInv'
<1>1. /\ transfer' \in [offset : Nat, expected : Nat, parts : Seq(Part)]
      /\ Len(transfer'.parts) = transfer'.offset /\ transfer'.offset = 0
      /\ DOMAIN transfer'.parts = {}
  <2> DEFINE P == Part
  <2> HIDE DEF P
  <2>1. /\ transfer' \in [offset : Nat, expected : Nat, parts : Seq(P)]
        /\ Len(transfer'.parts) = transfer'.offset /\ transfer'.offset = 0
        /\ DOMAIN transfer'.parts = {}
    BY SMTT(60) DEF NoTransfer
  <2> QED
    BY <2>1 DEF P
<1> QED
  BY <1>1, ZenonT(60) DEF TransferInv

\* The request on its way and the answer at hand may change; what was read stays.
LEMMA TransferKept ==
  ASSUME TransferInv, UNCHANGED <<vmFile, steady, transfer>>,
         pc' = "vm" =>
           /\ \A i \in DOMAIN backlog' :
                Bridged(i)' => backlog'[i].op = "VM_READ" /\ backlog'[i].arg = transfer.offset
           /\ answer'.status = "OK" =>
                /\ answer'.chunk.size > 0
                /\ answer'.chunk.eof <=> transfer.offset + answer'.chunk.got = answer'.chunk.size
                /\ steady => answer'.chunk.ver = vmFile.ver
  PROVE  TransferInv'
BY ZenonT(60) DEF TransferInv

LEMMA ServeTransfer ==
  ASSUME BacklogInv, ConnInv, OrderInv, TransferInv, Serve, UNCHANGED bridgeVars
  PROVE  TransferInv'
<1>1. UNCHANGED <<vmFile, steady, transfer, pc>>
  BY ZenonT(60) DEF Serve, hw_command, file_command, hw_display_call, hw_led_call, bridgeVars
<1>2. accepted
  BY ServeReply DEF ConnInv
<1>3. PICK reply : Answered(reply) /\ respond(reply)
  BY ServeReply, ZenonT(60) DEF ConnInv
<1>4. ASSUME pc = "vm"
      PROVE  \A i \in DOMAIN backlog' :
               Bridged(i)' => backlog'[i].op = "VM_READ" /\ backlog'[i].arg = transfer.offset
  <2>1. \A i \in DOMAIN backlog :
          Bridged(i) => backlog[i].op = "VM_READ" /\ backlog[i].arg = transfer.offset
    BY <1>4, ZenonT(60) DEF TransferInv
  <2>2. \A i \in DOMAIN backlog' : i + 1 \in DOMAIN backlog /\ backlog'[i] = backlog[i + 1]
    BY <1>2, ServedMoves
  <2> QED
    BY <2>1, <2>2, ZenonT(60) DEF Bridged
<1>5. ASSUME pc = "vm", answer'.status = "OK"
      PROVE  /\ answer'.chunk.size > 0
             /\ answer'.chunk.eof <=> transfer.offset + answer'.chunk.got = answer'.chunk.size
             /\ steady => answer'.chunk.ver = vmFile.ver
  <2>1. CASE request.from = "bridge"
    <3>1. request.op = "VM_READ" /\ request.arg = transfer.offset
      BY <1>2, <1>5, <2>1, ServedMoves, ZenonT(60) DEF TransferInv, Bridged
    <3>2. transfer.offset \in Nat
      BY SMTT(60) DEF TransferInv
    <3>3. file_command
      BY <3>1, SMTT(60) DEF Serve, hw_command, hw_display_call, hw_led_call
    <3>4. respond(VM_READ(request.arg))
      <4>1. request.op # "FILE_STATUS" /\ request.op # "FILE_DOWNLOAD"
        BY <3>1, SMTT(60)
      <4> QED
        BY <3>3, <4>1, ZenonT(60) DEF file_command
    <3>5. answer' = VM_READ(transfer.offset)
      BY <2>1, <3>1, <3>4, ZenonT(60) DEF respond
    <3> QED
      BY <1>5, <3>2, <3>5, VmReply, ZenonT(60)
  <2>2. CASE request.from # "bridge"
    <3>1. answer' = answer
      BY <1>3, <2>2, ZenonT(60) DEF respond
    <3> QED
      BY <1>5, <3>1, ZenonT(60) DEF TransferInv
  <2> QED
    BY <2>1, <2>2
<1> QED
  BY <1>1, <1>4, <1>5, TransferKept, ZenonT(60)

LEMMA SeqOf ==
  ASSUME NEW P, NEW n \in Nat, NEW f \in [1..n -> P]
  PROVE  f \in Seq(P) /\ Len(f) = n /\ DOMAIN f = 1..n
<1>1. DOMAIN f = 1..n /\ f = [i \in 1..n |-> f[i]] /\ \A i \in 1..n : f[i] \in P
  OBVIOUS
<1>2. Len(f) = n
  BY <1>1, SMTT(60)
<1> QED
  BY <1>1, <1>2, SMTT(60)

\* A chunk that passes the checks continues what was read, at its size.
LEMMA ChunkContinues ==
  ASSUME ConnInv, TransferInv, pc = "vm", answer.status = "OK", vmChunkOk(answer.chunk),
         NEW parts,
         parts = [i \in 1..(transfer.offset + answer.chunk.got) |->
                    IF i <= transfer.offset THEN transfer.parts[i]
                    ELSE [ver |-> answer.chunk.ver, size |-> answer.chunk.size]]
  PROVE  /\ parts \in Seq(Part) /\ Len(parts) = transfer.offset + answer.chunk.got
         /\ transfer.offset + answer.chunk.got \in Nat
         /\ answer.chunk.size \in Nat /\ answer.chunk.size # 0
         /\ answer.chunk.eof <=> Len(parts) = answer.chunk.size
         /\ \A i \in DOMAIN parts : /\ parts[i].size = answer.chunk.size
                                    /\ steady => parts[i].ver = vmFile.ver
<1> DEFINE off == transfer.offset
           c == answer.chunk
           part == [ver |-> c.ver, size |-> c.size]
           P == Part
<1>1. /\ off \in Nat /\ transfer.expected \in Nat /\ Len(transfer.parts) = off
      /\ c.size \in Nat /\ c.ver \in Nat /\ c.got \in {0, 1} /\ c.size > 0
  BY SMTT(60) DEF ConnInv, AnswerType, TransferInv
<1>2. /\ c.eof <=> off + c.got = c.size
      /\ steady => c.ver = vmFile.ver
      /\ transfer.expected = 0 => off = 0
      /\ transfer.expected # 0 => transfer.expected = c.size
      /\ transfer.parts \in Seq(P)
      /\ \A i \in DOMAIN transfer.parts : /\ transfer.parts[i].size = transfer.expected
                                          /\ steady => transfer.parts[i].ver = vmFile.ver
  BY ZenonT(60) DEF TransferInv, vmChunkOk
<1>3. part \in P /\ part.size = c.size /\ part.ver = c.ver
  BY <1>1, SMTT(60) DEF Part
<1>4. off + c.got \in Nat /\ c.size # 0
  BY <1>1, SMTT(60)
<1> DEFINE n == off + c.got
<1>5. parts = [i \in 1..n |-> IF i <= off THEN transfer.parts[i] ELSE part]
  OBVIOUS
<1>6. n \in Nat
  BY <1>4, SMTT(60)
<1> HIDE DEF part, P, n
<1>7. DOMAIN transfer.parts = 1..off /\ \A i \in 1..off : transfer.parts[i] \in P
  BY <1>1, <1>2, SMTT(60)
<1>8. \A i \in 1..n : (i <= off /\ i \in 1..off) \/ ~(i <= off)
  BY <1>1, <1>6, SMTT(60)
<1>9. \A i \in 1..n : parts[i] \in P
  BY <1>3, <1>5, <1>7, <1>8, ZenonT(60)
<1>10. parts \in Seq(P) /\ Len(parts) = n /\ DOMAIN parts = 1..n
  <2>1. parts = [i \in 1..n |-> parts[i]] /\ DOMAIN parts = 1..n
    BY <1>5, ZenonT(60)
  <2>2. parts \in [1..n -> P]
    BY <1>9, <2>1, ZenonT(60)
  <2> QED
    BY <1>6, <2>2, SeqOf, ZenonT(60)
<1>11. ASSUME NEW i \in DOMAIN parts
       PROVE  parts[i].size = c.size /\ (steady => parts[i].ver = vmFile.ver)
  <2>1. CASE i <= off
    <3>1. i \in 1..off /\ parts[i] = transfer.parts[i]
      BY <1>5, <1>8, <1>10, <2>1, ZenonT(60)
    <3>2. off # 0
      BY <1>1, <3>1, SMTT(60)
    <3> QED
      BY <1>2, <1>7, <3>1, <3>2, ZenonT(60)
  <2>2. CASE ~(i <= off)
    BY <1>2, <1>3, <1>5, <1>10, <2>2, ZenonT(60)
  <2> QED
    BY <2>1, <2>2
<1>12. c.eof <=> Len(parts) = c.size
  BY <1>2, <1>10, ZenonT(60) DEF n
<1> QED
  BY <1>1, <1>4, <1>10, <1>11, <1>12, ZenonT(60) DEF P, n

LEMMA ChunkTransfer ==
  ASSUME ConnInv, TransferInv, StoredInv, vmChunk
  PROVE  TransferInv' /\ StoredInv'
<1> DEFINE c == answer.chunk
           parts == [i \in 1..(transfer.offset + answer.chunk.got) |->
                       IF i <= transfer.offset THEN transfer.parts[i]
                       ELSE [ver |-> answer.chunk.ver, size |-> answer.chunk.size]]
<1>1. pc = "vm" /\ UNCHANGED <<vmFile, steady>>
  BY ZenonT(60) DEF vmChunk, received
<1>2. vmFile' \in [size : Nat, ver : Nat] /\ steady' \in BOOLEAN
      /\ vmFile.ver \in Nat /\ steady \in BOOLEAN
  BY <1>1, SMTT(60) DEF TransferInv
<1>3. CASE pc' = "idle" /\ transfer' = NoTransfer /\ UNCHANGED stored
  <2>1. pc' # "vm"
    BY <1>3, SMTT(60)
  <2>2. StoredInv'
    BY <1>3, ZenonT(60) DEF StoredInv, StoredIsWhole
  <2> QED
    BY <1>2, <1>3, <2>1, <2>2, TransferReset
<1>4. CASE answer.status = "OK" /\ vmChunkOk(c)
  <2>1. \E q : q = parts
    BY ZenonT(60)
  <2>2. /\ parts \in Seq(Part) /\ Len(parts) = transfer.offset + c.got
        /\ transfer.offset + c.got \in Nat
        /\ c.size \in Nat /\ c.size # 0
        /\ c.eof <=> Len(parts) = c.size
        /\ \A i \in DOMAIN parts : /\ parts[i].size = c.size
                                   /\ steady => parts[i].ver = vmFile.ver
    BY <1>1, <1>4, ChunkContinues
  <2>3. \/ /\ c.eof /\ pc' = "idle" /\ transfer' = NoTransfer
           /\ stored' = [size |-> c.size, parts |-> parts, steady |-> steady, file |-> vmFile.ver]
        \/ /\ pc' = "vm_next" /\ UNCHANGED stored
           /\ transfer' = [offset |-> transfer.offset + c.got, expected |-> c.size, parts |-> parts]
    BY <1>4, ZenonT(60) DEF vmChunk
  <2> HIDE DEF parts, c
  <2>4. pc' # "vm"
    BY <2>3, SMTT(60)
  <2>5. CASE /\ c.eof /\ pc' = "idle" /\ transfer' = NoTransfer
             /\ stored' = [size |-> c.size, parts |-> parts, steady |-> steady, file |-> vmFile.ver]
    <3>1. /\ stored' \in [size : Nat, parts : Seq(Part), steady : BOOLEAN, file : Nat]
          /\ stored'.size = c.size /\ stored'.parts = parts /\ stored'.steady = steady
          /\ stored'.file = vmFile.ver
      BY <1>2, <2>2, <2>5, ZenonT(60)
    <3>2. StoredInv'
      BY <2>2, <2>5, <3>1, ZenonT(60) DEF StoredInv, StoredIsWhole
    <3> QED
      BY <1>2, <2>4, <2>5, <3>2, TransferReset
  <2>6. CASE /\ pc' = "vm_next" /\ UNCHANGED stored
             /\ transfer' = [offset |-> transfer.offset + c.got, expected |-> c.size, parts |-> parts]
    <3>1. /\ transfer' \in [offset : Nat, expected : Nat, parts : Seq(Part)]
          /\ transfer'.offset = transfer.offset + c.got /\ transfer'.expected = c.size
          /\ transfer'.parts = parts
      BY <2>2, <2>6, ZenonT(60)
    <3>2. TransferInv'
      BY <1>1, <1>2, <2>2, <2>4, <3>1, ZenonT(60) DEF TransferInv
    <3>3. StoredInv'
      BY <2>6, ZenonT(60) DEF StoredInv, StoredIsWhole
    <3> QED
      BY <3>2, <3>3
  <2> QED
    BY <2>3, <2>5, <2>6
<1> QED
  BY <1>3, <1>4, ZenonT(60) DEF vmChunk
\* The next chunk is asked for on a connection of its own.
LEMMA AskedTransfer ==
  ASSUME BacklogInv, ConnInv, TransferInv, pc \in {"idle", "vm_next"}, NEW n \in Nat,
         sent(Request("VM_READ", n))
  PROVE  /\ \A i \in DOMAIN backlog' :
              Bridged(i)' => backlog'[i].op = "VM_READ" /\ backlog'[i].arg = n
         /\ answer'.status # "OK"
<1> DEFINE r == Request("VM_READ", n)
<1>1. r \in Entry /\ r.op = "VM_READ" /\ r.arg = n
  BY VmEntry
<1> HIDE DEF r
<1>2. answer = NoAnswer /\ \A i \in DOMAIN backlog : ~Bridged(i)
  BY ZenonT(60) DEF ConnInv
<1>3. \A i \in DOMAIN backlog' :
        Bridged(i)' => backlog'[i].op = "VM_READ" /\ backlog'[i].arg = n
  BY <1>1, <1>2, SentMoves, ZenonT(60) DEF r, Bridged
<1>4. answer' = NoAnswer
  BY <1>1, <1>2, SentMoves, ZenonT(60) DEF r
<1>5. answer'.status # "OK"
  BY <1>4, FixedReplies, SMTT(60)
<1> QED
  BY <1>3, <1>5

LEMMA StepTransfer ==
  ASSUME BacklogInv, ConnInv, OrderInv, DisplayInv, TransferInv, StoredInv, [Next]_vars
  PROVE  TransferInv' /\ StoredInv'
<1>0. vmFile \in [size : Nat, ver : Nat] /\ steady \in BOOLEAN
  BY ZenonT(60) DEF TransferInv
<1>a. stored' = stored => StoredInv'
  BY ZenonT(60) DEF StoredInv, StoredIsWhole
<1>1. CASE UNCHANGED <<vmFile, steady, stored, transfer, pc, backlog, answer>>
  BY <1>1, <1>a, ZenonT(60) DEF TransferInv, Bridged
<1>2. CASE UNCHANGED <<vmFile, steady, stored, transfer>> /\ pc' # "vm"
  BY <1>2, <1>a, TransferKept
<1>3. CASE daemonStep
  <2>0. UNCHANGED <<steady, stored, transfer, pc>>
    BY <1>3, ZenonT(60) DEF daemonStep, bridgeVars
  <2>1. CASE Serve
    BY <1>3, <1>a, <2>0, <2>1, ServeTransfer DEF daemonStep
  <2>2. CASE restart
    <3>1. backlog' = <<>> /\ UNCHANGED <<vmFile, answer>>
      BY <2>2, ZenonT(60) DEF restart
    <3>2. DOMAIN backlog' = {}
      BY <3>1, SMTT(60)
    <3>3. TransferInv'
      BY <2>0, <3>1, <3>2, ZenonT(60) DEF TransferInv
    <3> QED
      BY <1>a, <2>0, <3>3
  <2>3. CASE \/ bind \/ poll \/ scannerPrints \/ scannerExits \/ workerExits
             \/ \E p \in DOMAIN children, e \in Exits : jobExits(p, e)
    <3>1. UNCHANGED <<vmFile, backlog, answer>>
      BY <2>3, ZenonT(60) DEF bind, poll, scannerPrints, scannerExits, workerExits, jobExits
    <3> QED
      BY <1>1, <2>0, <3>1
  <2> QED
    BY <1>3, <2>1, <2>2, <2>3, ZenonT(60) DEF daemonStep, Serve
<1>4. CASE vmFileChanges
  <2>1. PICK n \in 0..MaxChunks + 1 : vmFileReplaced(n)
    BY <1>4, ZenonT(60) DEF vmFileChanges
  <2>2. /\ vmFile' = [size |-> n, ver |-> vmFile.ver + 1]
        /\ steady' = FALSE /\ UNCHANGED <<backlog, answer, pc, transfer, stored>>
    BY <1>4, <2>1, ZenonT(60) DEF vmFileChanges, vmFileReplaced
  <2>3. vmFile' \in [size : Nat, ver : Nat]
    <3>1. n \in Nat /\ vmFile.ver + 1 \in Nat
      BY <1>0, NeoBounds, SMTT(60)
    <3> QED
      BY <2>2, <3>1, ZenonT(60)
  <2>4. TransferInv'
    BY <2>2, <2>3, ZenonT(60) DEF TransferInv, Bridged
  <2> QED
    BY <1>a, <2>2, <2>4
<1>5. CASE \/ \E i \in Images : displayStart(i)
           \/ displayStop \/ tickDone \/ callDone
           \/ \E c \in Calls[family] : call(c)
  <2>1. UNCHANGED <<vmFile, steady, stored, transfer>> /\ pc' \in {"idle", "call"}
    BY <1>5, ZenonT(60) DEF displayStart, displayStop, tickDone, callDone, call, daemonVars,
       sent, received, abandoned
  <2>2. pc' # "vm"
    BY <2>1, SMTT(60)
  <2> QED
    BY <1>2, <2>1, <2>2
<1>6. CASE tick
  <2>1. pc = "idle" /\ (pc' = pc \/ pc' = "display")
    BY <1>6, TickMoves, ZenonT(60)
  <2>2. UNCHANGED <<vmFile, steady, stored, transfer>>
    <3>1. UNCHANGED <<steady, stored, transfer>>
      BY <1>6, ZenonT(60) DEF tick, ghostVars
    <3>2. vmFile' = vmFile
      BY <1>6, TickMoves, ZenonT(60) DEF daemonVars, sent
    <3> QED
      BY <3>1, <3>2
  <2>3. pc' # "vm"
    BY <2>1, SMTT(60)
  <2> QED
    BY <1>2, <2>2, <2>3
<1>7. ASSUME NEW c \in Calls[family], localCall(c) PROVE TransferInv' /\ StoredInv'
  <2> DEFINE r == [op |-> c[1], arg |-> c[2], from |-> "local"]
  <2>1. r \in Entry /\ r.from # "bridge"
    <3>1. "local" \in {"bridge", "local"} /\ "local" # "bridge"
      BY SMTT(60)
    <3> QED
      BY <3>1, CallEntry, ZenonT(60)
  <2>2. sent(r) /\ UNCHANGED <<vmFile, steady, stored, transfer, pc>>
    BY <1>7, ZenonT(60) DEF localCall, bridgeVars, sent
  <2> HIDE DEF r
  <2>3. answer' = answer
        /\ \A i \in DOMAIN backlog' :
             Bridged(i)' => i \in DOMAIN backlog /\ Bridged(i) /\ backlog'[i] = backlog[i]
    BY <2>1, <2>2, SentMoves, ZenonT(60) DEF Bridged
  <2>4. TransferInv'
    BY <2>2, <2>3, ZenonT(60) DEF TransferInv
  <2> QED
    BY <1>a, <2>2, <2>4
<1>8. CASE vmDownload
  <2>1. /\ sent(Request("VM_READ", 0)) /\ pc = "idle" /\ transfer' = NoTransfer
        /\ steady' = TRUE /\ UNCHANGED <<vmFile, stored>>
    BY <1>8, ZenonT(60) DEF vmDownload, sent
  <2>2. /\ \A i \in DOMAIN backlog' :
             Bridged(i)' => backlog'[i].op = "VM_READ" /\ backlog'[i].arg = 0
        /\ answer'.status # "OK"
    <3>1. 0 \in Nat
      OBVIOUS
    <3> QED
      BY <2>1, <3>1, AskedTransfer, ZenonT(60)
  <2>3. /\ transfer' \in [offset : Nat, expected : Nat, parts : Seq(Part)]
        /\ Len(transfer'.parts) = transfer'.offset /\ transfer'.offset = 0
        /\ DOMAIN transfer'.parts = {}
    <3> DEFINE P == Part
    <3> HIDE DEF P
    <3>1. /\ transfer' \in [offset : Nat, expected : Nat, parts : Seq(P)]
          /\ Len(transfer'.parts) = transfer'.offset /\ transfer'.offset = 0
          /\ DOMAIN transfer'.parts = {}
      BY <2>1, SMTT(60) DEF NoTransfer
    <3> QED
      BY <3>1 DEF P
  <2>4. TransferInv'
    BY <1>0, <2>1, <2>2, <2>3, ZenonT(60) DEF TransferInv
  <2> QED
    BY <1>a, <2>1, <2>4
<1>9. CASE vmChunk
  BY <1>9, ChunkTransfer
<1>10. CASE vmNext
  <2>1. pc = "vm_next" /\ UNCHANGED <<vmFile, steady, stored>>
    BY <1>10, ZenonT(60) DEF vmNext, sent, ghostVars, daemonVars
  <2>2. CASE sent(Request("VM_READ", transfer.offset)) /\ UNCHANGED transfer
    <3>1. transfer.offset \in Nat
      BY SMTT(60) DEF TransferInv
    <3>2. /\ \A i \in DOMAIN backlog' :
               Bridged(i)' => backlog'[i].op = "VM_READ" /\ backlog'[i].arg = transfer.offset
          /\ answer'.status # "OK"
      BY <2>1, <2>2, <3>1, AskedTransfer, ZenonT(60)
    <3> QED
      BY <1>a, <2>1, <2>2, <3>2, TransferKept, ZenonT(60)
  <2>3. CASE pc' = "idle" /\ transfer' = NoTransfer
    <3>1. pc' # "vm"
      BY <2>3, SMTT(60)
    <3> QED
      BY <1>0, <1>a, <2>1, <2>3, <3>1, TransferReset, ZenonT(60)
  <2> QED
    BY <1>10, <2>2, <2>3, ZenonT(60) DEF vmNext
<1>11. CASE vmAbandoned \/ espReboot
  <2>1. /\ pc' = "idle" /\ transfer' = NoTransfer /\ UNCHANGED <<vmFile, steady, stored>>
    BY <1>11, ZenonT(60) DEF vmAbandoned, espReboot, abandoned, ghostVars
  <2>2. pc' # "vm"
    BY <2>1, SMTT(60)
  <2> QED
    BY <1>0, <1>a, <2>1, <2>2, TransferReset, ZenonT(60)
<1>12. CASE retryDue \/ vmToggles \/ UNCHANGED vars
  <2>1. UNCHANGED <<vmFile, steady, stored, transfer, pc, backlog, answer>>
    BY <1>12, ZenonT(60) DEF retryDue, vmToggles, daemonVars, ghostVars, vars, bridgeVars
  <2> QED
    BY <1>1, <2>1
<1> QED
  BY <1>3, <1>4, <1>5, <1>6, <1>7, <1>8, <1>9, <1>10, <1>11, <1>12, ZenonT(60) DEF Next
(***************************************************************************)
(* The LED and the listening socket                                        *)
(***************************************************************************)
LEMMA StepLed ==
  ASSUME BacklogInv, LedInv, [Next]_vars
  PROVE  LedInv'
<1>1. CASE UNCHANGED <<led, listening>>
  BY <1>1, ZenonT(60) DEF LedInv
<1>2. CASE daemonStep
  <2>1. CASE hw_led_call
    <3>1. accepted /\ listening' = listening
      BY <2>1, ZenonT(60) DEF hw_led_call
    <3>2. \/ led' = led
          \/ request.op = "LED_SET" /\ led' = request.arg
          \/ led' \in {led, IF led = "unclaimed" THEN "0" ELSE led}
      BY <2>1, ZenonT(60) DEF hw_led_call
    <3>3. request.op = "LED_SET" => request.arg \in {"0", "1"}
      BY <3>1, ServedMoves, ZenonT(60) DEF BacklogInv, ArgOK
    <3> QED
      BY <3>1, <3>2, <3>3, SMTT(60) DEF LedInv
  <2>2. CASE bind \/ restart
    <3>1. listening' \in BOOLEAN /\ (led' = led \/ led' \in {"unclaimed", "0"})
      BY <2>2, ZenonT(60) DEF bind, restart
    <3> QED
      BY <3>1, SMTT(60) DEF LedInv
  <2>3. CASE \/ poll \/ scannerPrints \/ scannerExits \/ workerExits
             \/ hw_command \/ file_command \/ hw_display_call
             \/ \E p \in DOMAIN children, e \in Exits : jobExits(p, e)
    <3>1. UNCHANGED <<led, listening>>
      BY <2>3, ZenonT(60) DEF poll, scannerPrints, scannerExits, workerExits, jobExits,
         hw_command, file_command, hw_display_call
    <3> QED
      BY <1>1, <3>1
  <2> QED
    BY <1>2, <2>1, <2>2, <2>3, ZenonT(60) DEF daemonStep
<1>3. CASE vmFileChanges \/ espReboot \/ UNCHANGED vars
  <2>1. UNCHANGED <<led, listening>>
    BY <1>3, ZenonT(60) DEF vmFileChanges, vmFileReplaced, espReboot, vars, daemonVars
  <2> QED
    BY <1>1, <2>1
<1>4. CASE \/ \E i \in Images : displayStart(i)
           \/ displayStop \/ tickDone \/ callDone
           \/ \E c \in Calls[family] : call(c) \/ localCall(c)
           \/ vmDownload \/ vmChunk \/ vmNext \/ vmAbandoned \/ retryDue \/ vmToggles
  <2>1. UNCHANGED <<led, listening>>
    BY <1>4, ZenonT(60) DEF displayStart, displayStop, tickDone, callDone, call, localCall,
       vmDownload, vmChunk, vmNext, vmAbandoned, retryDue, vmToggles, daemonVars, sent,
       received, abandoned
  <2> QED
    BY <1>1, <2>1
<1>5. CASE tick
  <2>1. UNCHANGED daemonVars \/ \E r : sent(r)
    BY <1>5, ZenonT(60) DEF tick
  <2>2. UNCHANGED <<led, listening>>
    BY <2>1, ZenonT(60) DEF daemonVars, sent
  <2> QED
    BY <1>1, <2>2
<1> QED
  BY <1>2, <1>3, <1>4, <1>5, ZenonT(60) DEF Next
(***************************************************************************)
(* The invariant holds throughout                                          *)
(***************************************************************************)
IInv == /\ BacklogInv /\ ConnInv /\ JobInv /\ OrderInv
        /\ DisplayInv /\ TransferInv /\ StoredInv /\ LedInv

LEMMA InitInv == Init => IInv
<1> SUFFICES ASSUME Init PROVE IInv
  OBVIOUS
<1>1. backlog = <<>> /\ answer = NoAnswer /\ pc = "idle"
  BY ZenonT(60) DEF Init, daemonInit
<1>2. DOMAIN backlog = {} /\ Len(backlog) = 0
  BY <1>1, SMTT(60)
<1>3. BacklogInv
  <2> DEFINE E == Entry
  <2> HIDE DEF E
  <2>1. backlog \in Seq(E) /\ Len(backlog) <= Backlog
    BY <1>1, <1>2, NeoBounds, SMTT(60)
  <2> QED
    BY <1>2, <2>1, ZenonT(60) DEF BacklogInv, E
<1>4. ConnInv
  <2>1. pc \in {"idle", "display", "call", "vm", "vm_next"}
    BY <1>1, ZenonT(60)
  <2> QED
    BY <1>1, <1>2, <2>1, FixedReplies, ZenonT(60) DEF ConnInv
<1>5. JobInv
  <2>1. job = NoJob /\ children = NoChildren /\ lastJob = 0 /\ lastExit = "-1"
    BY ZenonT(60) DEF Init, daemonInit
  <2>2. job.pid = 0 /\ job.exit = "-1" /\ job \in [pid : Nat, exit : {"-1"} \cup Exits]
    BY <2>1, SMTT(60) DEF NoJob, Exits
  <2>3. DOMAIN children = {}
    BY <2>1, ZenonT(60) DEF NoChildren
  <2>4. lastJob \in 0..MaxJobs
    BY <2>1, NeoBounds, SMTT(60)
  <2> QED
    BY <2>1, <2>2, <2>3, <2>4, ZenonT(60) DEF JobInv
<1>6. OrderInv
  <2>1. scan = NoScan /\ emitted = 0 /\ lastRead = 0 /\ answer.code = 0
    BY <1>1, FixedReplies, ZenonT(60) DEF Init, daemonInit
  <2>2. NoScan \in ScanType /\ NoScan.queue = <<>> /\ NoScan.pipe = <<>>
    BY SMTT(60) DEF NoScan, ScanType
  <2>3. Ordered(NoScan, Newest, emitted)
    BY <2>2, NeoBounds, SMTT(60) DEF Ordered, Increasing, Within
  <2>4. emitted \in Nat /\ lastRead \in Nat /\ lastRead <= emitted
    BY <2>1, SMTT(60)
  <2> QED
    BY <2>1, <2>2, <2>3, <2>4, ZenonT(60) DEF OrderInv
<1>7. DisplayInv
  <2>1. /\ display = NoDisplay /\ family \in Families
        /\ wanted = FALSE /\ owned = FALSE /\ stopPending = FALSE /\ early = FALSE
        /\ vmRunning = FALSE /\ acked = FALSE
    BY ZenonT(60) DEF Init, daemonInit
  <2>2. display \in DisplayType
    BY <2>1, SMTT(60) DEF NoDisplay, DisplayType
  <2>3. family \in {"display", "scan", "file", "vm", "led"}
    BY <2>1, FamiliesAssumption
  <2>4. pc # "display"
    BY <1>1, SMTT(60)
  <2> QED
    BY <2>1, <2>2, <2>3, <2>4, ZenonT(60) DEF DisplayInv, DisplayType
<1>8. TransferInv
  <2>1. steady = TRUE /\ transfer = NoTransfer /\ vmFile \in [size : 0..MaxChunks + 1, ver : {0}]
    BY ZenonT(60) DEF Init, daemonInit
  <2>2. vmFile \in [size : Nat, ver : Nat]
    BY <2>1, NeoBounds, SMTT(60)
  <2>3. /\ transfer \in [offset : Nat, expected : Nat, parts : Seq(Part)]
        /\ Len(transfer.parts) = transfer.offset /\ transfer.offset = 0
        /\ DOMAIN transfer.parts = {}
    <3> DEFINE P == Part
    <3> HIDE DEF P
    <3>1. /\ transfer \in [offset : Nat, expected : Nat, parts : Seq(P)]
          /\ Len(transfer.parts) = transfer.offset /\ transfer.offset = 0
          /\ DOMAIN transfer.parts = {}
      BY <2>1, SMTT(60) DEF NoTransfer
    <3> QED
      BY <3>1 DEF P
  <2>4. pc # "vm"
    BY <1>1, SMTT(60)
  <2> QED
    BY <2>1, <2>2, <2>3, <2>4, ZenonT(60) DEF TransferInv
<1>9. StoredInv
  <2>1. stored = NoStored
    BY ZenonT(60) DEF Init
  <2> DEFINE P == Part
  <2> HIDE DEF P
  <2>2. /\ stored \in [size : Nat, parts : Seq(P), steady : BOOLEAN, file : Nat]
        /\ Len(stored.parts) = stored.size /\ DOMAIN stored.parts = {}
    BY <2>1, SMTT(60) DEF NoStored
  <2> QED
    BY <2>2, ZenonT(60) DEF P, StoredInv, StoredIsWhole
<1>10. LedInv
  <2>1. listening = FALSE /\ led \in {"unclaimed", "0"}
    BY ZenonT(60) DEF Init, daemonInit
  <2> QED
    BY <2>1, ZenonT(60) DEF LedInv
<1> QED
  BY <1>3, <1>4, <1>5, <1>6, <1>7, <1>8, <1>9, <1>10, SMTT(60) DEF IInv

LEMMA StepInv == IInv /\ [Next]_vars => IInv'
<1> SUFFICES ASSUME IInv, [Next]_vars PROVE IInv'
  OBVIOUS
<1>0. /\ BacklogInv /\ ConnInv /\ JobInv /\ OrderInv
      /\ DisplayInv /\ TransferInv /\ StoredInv /\ LedInv /\ answer \in AnswerType
  BY DEF IInv, ConnInv
<1>1. BacklogInv' /\ ConnInv'
  BY <1>0, StepConn
<1>2. JobInv'
  BY <1>0, StepJob
<1>3. OrderInv'
  BY <1>0, StepOrder
<1>4. DisplayInv'
  BY <1>0, StepDisplay
<1>5. TransferInv' /\ StoredInv'
  BY <1>0, StepTransfer
<1>6. LedInv'
  BY <1>0, StepLed
<1> QED
  BY <1>1, <1>2, <1>3, <1>4, <1>5, <1>6 DEF IInv
(***************************************************************************)
(* Theorems                                                                *)
(***************************************************************************)
\* The inductive invariant behind the results below: noob-neod and the bridge
\* share at most one connection, an answer and its request never both wait, the
\* one job is known by its pid, codes stay in order, and a transfer is of one
\* size throughout.
THEOREM NeoInvariant == Spec => []IInv
<1> QED
  BY InitInv, StepInv, PTL DEF Spec

\* Type correctness: the scan-code queue and the listen backlog stay within
\* their limits, a job's pid is one that was started, and the bridge never
\* wishes to show and to stop at once.
THEOREM TypeCorrect == Spec => []TypeOK
<1>1. IInv => TypeOK
  <2> SUFFICES ASSUME IInv PROVE TypeOK
    OBVIOUS
  <2>0. /\ BacklogInv /\ ConnInv /\ JobInv /\ OrderInv
        /\ DisplayInv /\ TransferInv /\ StoredInv /\ LedInv
    BY DEF IInv
  <2>1. Len(backlog) <= Backlog /\ \A i \in DOMAIN backlog : backlog[i].from \in {"bridge", "local", "gone"}
    <3> DEFINE E == Entry
    <3>1. backlog \in Seq(E) /\ Len(backlog) <= Backlog
      BY <2>0 DEF BacklogInv
    <3>2. \A i \in DOMAIN backlog : backlog[i] \in E
      <4> HIDE DEF E
      <4> QED
        BY <3>1, SMTT(60)
    <3> QED
      BY <3>1, <3>2, ZenonT(60) DEF Entry
  <2>2. answer.status \in {"none", "OK", "ERR"} /\ pc \in {"idle", "display", "call", "vm", "vm_next"}
    BY <2>0, ZenonT(60) DEF ConnInv, AnswerType
  <2>3. scan.child \in {"none", "running", "exited"} /\ Len(scan.queue) <= QueueSize
    BY <2>0, ZenonT(60) DEF OrderInv, ScanType, Ordered
  <2>4. job.pid \in 0..MaxJobs /\ job.exit \in {"-1"} \cup Exits
    <3>1. job.exit \in {"-1"} \cup Exits /\ (job.pid = 0 \/ job.pid = lastJob) /\ lastJob \in 0..MaxJobs
      BY <2>0, ZenonT(60) DEF JobInv
    <3>2. 0 \in 0..MaxJobs
      BY NeoBounds, SMTT(60)
    <3> QED
      BY <3>1, <3>2, ZenonT(60)
  <2>5. display.worker \in {"none", "running", "exited"} /\ display.image \in Images \cup {"none"}
    BY <2>0, ZenonT(60) DEF DisplayInv
  <2>6. early \in BOOLEAN /\ ~(wanted /\ stopPending) /\ (owned => wanted)
    BY <2>0, ZenonT(60) DEF DisplayInv
  <2>7. led \in {"unclaimed", "0", "1"} /\ listening \in BOOLEAN
    BY <2>0 DEF LedInv
  <2> QED
    BY <2>1, <2>2, <2>3, <2>4, <2>5, <2>6, <2>7 DEF TypeOK
<1> QED
  BY <1>1, NeoInvariant, PTL

\* An acknowledged DISPLAY_STOP is final, for every backlog, every set of images
\* and any number of lost answers and restarts: no display thread runs, and no
\* DISPLAY_START the bridge gave up on is still waiting to be served.
THEOREM StopStaysFinal == Spec => []StopIsFinal
<1>1. IInv => StopIsFinal
  BY ZenonT(60) DEF IInv, DisplayInv, StopIsFinal, Shown, Starts
<1> QED
  BY <1>1, NeoInvariant, PTL

LEMMA WayOrdered ==
  ASSUME NEW s \in ScanType, NEW lo \in Nat, NEW hi \in Nat, Ordered(s, lo, hi)
  PROVE  LET way == s.queue \o s.pipe
         IN /\ \A i, j \in DOMAIN way : i < j => way[i] < way[j]
            /\ \A i \in DOMAIN way : lo < way[i]
<1> DEFINE q == s.queue
           p == s.pipe
           way == q \o p
<1>1. q \in Seq(Nat) /\ p \in Seq(Nat)
  BY SMTT(60) DEF ScanType
<1>2. /\ Increasing(q) /\ Within(q, lo, hi) /\ Increasing(p) /\ Within(p, lo, hi)
      /\ \A i \in DOMAIN q, j \in DOMAIN p : q[i] < p[j]
  BY ZenonT(60) DEF Ordered
<1> HIDE DEF q, p
<1>3. /\ DOMAIN q = 1..Len(q) /\ DOMAIN p = 1..Len(p) /\ Len(q) \in Nat /\ Len(p) \in Nat
      /\ DOMAIN way = 1..(Len(q) + Len(p))
      /\ \A i \in 1..Len(q) : way[i] = q[i] /\ q[i] \in Nat
      /\ \A i \in (Len(q) + 1)..(Len(q) + Len(p)) :
           way[i] = p[i - Len(q)] /\ i - Len(q) \in 1..Len(p)
      /\ \A i \in 1..Len(p) : p[i] \in Nat
  BY <1>1, SMTT(60)
<1> HIDE DEF way
<1> DEFINE n == Len(q)
<1>a. \A i \in DOMAIN way :
         \/ i \in DOMAIN q /\ way[i] = q[i]
         \/ i - n \in DOMAIN p /\ way[i] = p[i - n] /\ i > n
  <2> SUFFICES ASSUME NEW i \in 1..(Len(q) + Len(p))
               PROVE  \/ i \in 1..Len(q)
                      \/ i \in (Len(q) + 1)..(Len(q) + Len(p)) /\ i > n
    BY <1>3, ZenonT(60)
  <2> QED
    BY <1>3, SMTT(60)
<1>4. ASSUME NEW i \in DOMAIN way PROVE lo < way[i]
  BY <1>2, <1>a, ZenonT(60) DEF Within
<1>5. ASSUME NEW i \in DOMAIN way, NEW j \in DOMAIN way, i < j PROVE way[i] < way[j]
  <2>0. i \in Nat /\ j \in Nat /\ n \in Nat
    BY <1>3, SMTT(60)
  <2>1. CASE i \in DOMAIN q /\ j \in DOMAIN q /\ way[i] = q[i] /\ way[j] = q[j]
    BY <1>2, <1>5, <2>1, ZenonT(60) DEF Increasing
  <2>2. CASE i \in DOMAIN q /\ j - n \in DOMAIN p /\ way[i] = q[i] /\ way[j] = p[j - n]
    BY <1>2, <2>2, ZenonT(60)
  <2>3. CASE /\ i - n \in DOMAIN p /\ j - n \in DOMAIN p
             /\ way[i] = p[i - n] /\ way[j] = p[j - n]
    <3>1. i - n < j - n
      BY <1>5, <2>0, SMTT(60)
    <3> QED
      BY <1>2, <2>3, <3>1, ZenonT(60) DEF Increasing
  <2>4. ~(i > n /\ j \in DOMAIN q)
    BY <1>3, <1>5, <2>0, SMTT(60)
  <2> QED
    BY <1>a, <2>1, <2>2, <2>3, <2>4, ZenonT(60)
<1> QED
  BY <1>4, <1>5, ZenonT(60) DEF way, q, p

\* Scan codes reach Iris in the order printed, none twice: for every queue size,
\* every number of lines a drain can take and any backlog, over a queue that
\* drops its oldest entries, scanner restarts, a second reader and lost replies.
THEOREM CodesInOrder == Spec => []ReadsInOrder
<1>1. IInv => ReadsInOrder
  <2> SUFFICES ASSUME IInv PROVE ReadsInOrder
    OBVIOUS
  <2> DEFINE way == scan.queue \o scan.pipe
  <2>1. OrderInv /\ answer \in AnswerType
    BY DEF IInv, ConnInv
  <2>2. /\ scan \in ScanType /\ lastRead \in Nat /\ emitted \in Nat /\ Newest \in Nat
        /\ lastRead <= Newest /\ Ordered(scan, Newest, emitted)
        /\ answer.code # 0 => lastRead < answer.code
    BY <2>1, NewestType, ZenonT(60) DEF OrderInv
  <2>3. Ordered(scan, lastRead, emitted)
    BY <2>2, OrderedBelow
  <2>4. /\ \A i, j \in DOMAIN way : i < j => way[i] < way[j]
        /\ \A i \in DOMAIN way : lastRead < way[i]
    BY <2>2, <2>3, WayOrdered, ZenonT(60)
  <2>5. \A i \in DOMAIN way : Newest < way[i]
    BY <2>2, WayOrdered, ZenonT(60)
  <2> HIDE DEF way
  <2>6. answer.code # 0 => lastRead < answer.code /\ \A i \in DOMAIN way : answer.code < way[i]
    BY <2>2, <2>5, ZenonT(60) DEF Newest
  <2> QED
    BY <2>4, <2>6, ZenonT(60) DEF way, ReadsInOrder
<1> QED
  BY <1>1, NeoInvariant, PTL

\* FILE_STATUS tells the truth about the job started last, however many jobs
\* were started, refused or lost with a restart.
THEOREM JobIsTracked == Spec => []JobTracked
<1>1. IInv => JobTracked
  BY ZenonT(60) DEF IInv, JobInv, JobTracked
<1> QED
  BY <1>1, NeoInvariant, PTL

\* vmDownload stores only a whole file, for every largest size, whenever and
\* however often the file is replaced on Neo during the transfer.
THEOREM DownloadsAreWhole == Spec => []StoredIsWhole
<1>1. IInv => StoredIsWhole
  BY DEF IInv, StoredInv
<1> QED
  BY <1>1, NeoInvariant, PTL
=============================================================================
