----------------------- MODULE QueueControllerProofs -----------------------
(***************************************************************************)
(* Proofs about QueueController: its size is exact, its messages stay in   *)
(* their order, and an emergency removes what it should and no more.       *)
(***************************************************************************)
EXTENDS QueueController, ThinningProofs, TLAPS

----------------------------------------------------------------------------
(* Bytes of a queue *)

Lens(q) == [i \in 1 .. Len(q) |-> q[i].len]

LEMMA LensType ==
  ASSUME NEW q \in Seq(Message)
  PROVE  /\ Lens(q) \in Seq(Nat) /\ Len(Lens(q)) = Len(q) /\ Len(q) \in Nat
         /\ \A i \in 1 .. Len(q) : Lens(q)[i] = q[i].len /\ q[i].len \in Nat /\ q[i] \in Message
         /\ Bytes(q) = Total(Lens(q))
<1>1. \A i \in 1 .. Len(q) : q[i] \in Message
  OBVIOUS
<1>2. \A i \in 1 .. Len(q) : q[i].len \in Nat
  BY <1>1 DEF Message
<1>3. Lens(q) \in [1 .. Len(q) -> Nat]
  BY <1>2 DEF Lens
<1>4. Bytes(q) = Total(Lens(q))
  BY DEF Bytes, Lens
<1>5. Lens(q) \in Seq(Nat) /\ Len(Lens(q)) = Len(q) /\ Len(q) \in Nat
  BY <1>3
<1>6. \A i \in 1 .. Len(q) : Lens(q)[i] = q[i].len
  BY DEF Lens
<1> QED BY <1>1, <1>2, <1>4, <1>5, <1>6

LEMMA BytesType ==
  ASSUME NEW q \in Seq(Message)
  PROVE  Bytes(q) \in Nat
<1> QED BY LensType, TotalType

LEMMA BytesEmpty == Bytes(<<>>) = 0
<1>1. Lens(<<>>) = <<>>
  BY DEF Lens
<1>2. Bytes(<<>>) = Total(Lens(<<>>))
  BY DEF Bytes, Lens
<1> QED BY <1>1, <1>2, TotalEmpty

LEMMA BytesAppend ==
  ASSUME NEW q \in Seq(Message), NEW m \in Message
  PROVE  Bytes(Append(q, m)) = Bytes(q) + m.len
<1> DEFINE r == Append(q, m)
<1>1. r \in Seq(Message) /\ Len(r) = Len(q) + 1 /\ r[Len(q) + 1] = m
      /\ \A i \in 1 .. Len(q) : r[i] = q[i]
  OBVIOUS
<1> HIDE DEF r
<1>2. m.len \in Nat
  BY DEF Message
<1>3. /\ Lens(r) \in Seq(Nat) /\ Lens(q) \in Seq(Nat)
      /\ Len(Lens(r)) = Len(Lens(q)) + 1 /\ Lens(r)[Len(Lens(r))] = m.len
  <2>1. Len(q) + 1 \in 1 .. Len(r)
    BY <1>1
  <2> QED BY <2>1, <1>1, LensType, SMTT(30)
<1>4. \A i \in 1 .. Len(Lens(q)) : Lens(r)[i] = Lens(q)[i]
  <2>1. \A i \in 1 .. Len(q) : i \in 1 .. Len(r)
    BY <1>1
  <2> QED BY <2>1, <1>1, LensType
<1>5. Bytes(r) = Total(Lens(r)) /\ Bytes(q) = Total(Lens(q))
  BY <1>1, LensType
<1> QED BY <1>3, <1>4, <1>5, TotalLonger DEF r

LEMMA TailOfMessages ==
  ASSUME NEW q \in Seq(Message), q # <<>>
  PROVE  /\ Tail(q) \in Seq(Message) /\ Len(q) = Len(Tail(q)) + 1 /\ Len(Tail(q)) \in Nat
         /\ Head(q) = q[1] /\ q[1] \in Message
         /\ \A i \in 1 .. Len(Tail(q)) : Tail(q)[i] = q[i + 1]
<1> QED OBVIOUS

LEMMA BytesTail ==
  ASSUME NEW q \in Seq(Message), q # <<>>
  PROVE  Bytes(q) = Head(q).len + Bytes(Tail(q))
<1> DEFINE r == Tail(q)
<1>1. /\ r \in Seq(Message) /\ Len(q) = Len(r) + 1 /\ Len(r) \in Nat
      /\ Head(q) = q[1] /\ q[1] \in Message
      /\ \A i \in 1 .. Len(r) : r[i] = q[i + 1]
  BY TailOfMessages
<1> HIDE DEF r
<1>2. /\ Lens(r) \in Seq(Nat) /\ Lens(q) \in Seq(Nat)
      /\ Len(Lens(q)) = Len(Lens(r)) + 1 /\ Lens(q)[1] = Head(q).len
  <2>1. 1 \in 1 .. Len(q)
    BY <1>1
  <2>2. Lens(q)[1] = q[1].len
    BY <2>1, LensType
  <2>3. Lens(q)[1] = Head(q).len
    BY <2>2, <1>1
  <2>4. /\ Lens(r) \in Seq(Nat) /\ Len(Lens(r)) = Len(r)
        /\ Lens(q) \in Seq(Nat) /\ Len(Lens(q)) = Len(q)
    BY <1>1, LensType
  <2> QED BY <2>3, <2>4, <1>1
<1>3. \A i \in 1 .. Len(Lens(r)) : Lens(r)[i] = Lens(q)[i + 1]
  <2>1. ASSUME NEW i \in 1 .. Len(r)
        PROVE  Lens(r)[i] = Lens(q)[i + 1]
    <3>1. i + 1 \in 1 .. Len(q)
      BY <1>1
    <3>2. Lens(r)[i] = r[i].len /\ Lens(q)[i + 1] = q[i + 1].len
      BY <3>1, <1>1, LensType
    <3> QED BY <3>2, <1>1
  <2>2. Len(Lens(r)) = Len(r)
    BY <1>1, LensType
  <2> QED BY <2>1, <2>2
<1>4. Bytes(q) = Total(Lens(q)) /\ Bytes(r) = Total(Lens(r))
  BY <1>1, LensType
<1> QED BY <1>2, <1>3, <1>4, TotalShorter DEF r

LEMMA BytesTurned ==
  ASSUME NEW q \in Seq(Message)
  PROVE  /\ Reverse(q) \in Seq(Message) /\ Len(Reverse(q)) = Len(q)
         /\ \A i \in 1 .. Len(q) : Reverse(q)[i] = q[Len(q) - i + 1]
         /\ Bytes(Reverse(q)) = Bytes(q)
<1> DEFINE r == Reverse(q)
<1>1. r = [i \in 1 .. Len(q) |-> q[(Len(q) - i) + 1]]
  BY DEF Reverse
<1> HIDE DEF r
<1>2. Len(q) \in Nat /\ \A i \in 1 .. Len(q) : (Len(q) - i) + 1 \in 1 .. Len(q)
  OBVIOUS
<1>3. r \in [1 .. Len(q) -> Message]
  BY <1>1, <1>2
<1>4. r \in Seq(Message) /\ Len(r) = Len(q)
  BY <1>2, <1>3
<1>5. \A i \in 1 .. Len(q) : r[i] = q[Len(q) - i + 1]
  BY <1>1
<1>6. Total(Lens(r)) = Total(Lens(q))
  <2>1. Lens(r) \in Seq(Nat) /\ Lens(q) \in Seq(Nat) /\ Len(Lens(r)) = Len(Lens(q))
        /\ Len(Lens(q)) = Len(q)
    BY <1>4, LensType
  <2>2. ASSUME NEW i \in 1 .. Len(Lens(q))
        PROVE  Lens(r)[i] = Lens(q)[Len(Lens(q)) - i + 1]
    <3>1. i \in 1 .. Len(q) /\ (Len(q) - i) + 1 \in 1 .. Len(q)
      BY <1>2, <2>1
    <3>2. Lens(r)[i] = r[i].len
      BY <3>1, <1>4, LensType
    <3>3. Lens(q)[(Len(q) - i) + 1] = q[(Len(q) - i) + 1].len
      BY <3>1, LensType
    <3> QED BY <3>1, <3>2, <3>3, <1>5, <2>1
  <2> HIDE DEF r
  <2> QED BY <2>1, <2>2, TotalTurned
<1>7. Bytes(r) = Bytes(q)
  BY <1>4, <1>6, LensType
<1> QED BY <1>4, <1>5, <1>7 DEF r

----------------------------------------------------------------------------
(* Walks *)

WalkState == [size : Int, kept : Seq(Message), threw : BOOLEAN]
Start(size) == [size |-> size, kept |-> <<>>, threw |-> FALSE]

\* What a visit does with a message: keep, throw away, or end.
VisitKeeps(a, w, m, v) ==
  /\ v.size = w.size /\ v.kept = Append(w.kept, m) /\ v.threw = w.threw
  /\ w.threw \/ w.size < a.max \/ ~Removable(a, m)
VisitRemoves(a, w, m, v) ==
  /\ ~w.threw /\ ~v.threw /\ w.size >= a.max /\ Removable(a, m)
  /\ v.size = w.size - m.len /\ v.kept = w.kept

LEMMA VisitCases ==
  ASSUME NEW a \in Algo, NEW w \in WalkState, NEW m \in Message
  PROVE  LET v == Visit(a, w, m)
         IN /\ v \in WalkState
            /\ \/ VisitKeeps(a, w, m, v)
               \/ v.threw /\ v.kept = w.kept
               \/ VisitRemoves(a, w, m, v)
<1> DEFINE v == Visit(a, w, m)
<1>1. w.size \in Int /\ w.kept \in Seq(Message) /\ w.threw \in BOOLEAN
  BY DEF WalkState
<1>2. m.len \in Int /\ a.max \in Int
  BY DEF Message, Algo
<1>3. Append(w.kept, m) \in Seq(Message)
  BY <1>1
<1>4. CASE w.threw \/ w.size < a.max
  <2>1. v = [w EXCEPT !.kept = Append(@, m)]
    BY <1>4 DEF Visit
  <2>2. v = [size |-> w.size, kept |-> Append(w.kept, m), threw |-> w.threw]
    BY <2>1 DEF WalkState
  <2>3. v \in WalkState
    BY <2>2, <1>1, <1>3 DEF WalkState
  <2>4. VisitKeeps(a, w, m, v)
    BY <2>2, <1>4 DEF VisitKeeps
  <2> QED BY <2>3, <2>4
<1>5. CASE ~(w.threw \/ w.size < a.max)
  <2>1. w.size >= a.max /\ ~w.threw
    BY <1>1, <1>2, <1>5
  <2>2. CASE a.below # 0 /\ m.prio = Malformed
    <3>1. v = [w EXCEPT !.threw = TRUE]
      BY <1>5, <2>2 DEF Visit
    <3>2. v = [size |-> w.size, kept |-> w.kept, threw |-> TRUE]
      BY <3>1 DEF WalkState
    <3>3. v \in WalkState
      BY <3>2, <1>1 DEF WalkState
    <3> QED BY <3>2, <3>3
  <2>3. CASE ~(a.below # 0 /\ m.prio = Malformed) /\ Removable(a, m)
    <3>1. v = [w EXCEPT !.size = @ - m.len]
      BY <1>5, <2>3 DEF Visit
    <3>2. v = [size |-> w.size - m.len, kept |-> w.kept, threw |-> w.threw]
      BY <3>1 DEF WalkState
    <3>3. v \in WalkState
      BY <3>2, <1>1, <1>2 DEF WalkState
    <3>4. VisitRemoves(a, w, m, v)
      BY <3>2, <2>1, <2>3 DEF VisitRemoves
    <3> QED BY <3>3, <3>4
  <2>4. CASE ~(a.below # 0 /\ m.prio = Malformed) /\ ~Removable(a, m)
    <3>1. v = [w EXCEPT !.kept = Append(@, m)]
      BY <1>5, <2>4 DEF Visit
    <3>2. v = [size |-> w.size, kept |-> Append(w.kept, m), threw |-> w.threw]
      BY <3>1 DEF WalkState
    <3>3. v \in WalkState
      BY <3>2, <1>1, <1>3 DEF WalkState
    <3>4. VisitKeeps(a, w, m, v)
      BY <3>2, <2>4 DEF VisitKeeps
    <3> QED BY <3>3, <3>4
  <2> QED BY <2>2, <2>3, <2>4
<1> QED BY <1>4, <1>5

\* The walk is the recursion it says it is.
IsWalk(w, a, q, size) ==
  /\ w \in [0 .. Len(q) -> WalkState]
  /\ w[0] = Start(size)
  /\ \A n \in 1 .. Len(q) : w[n] = Visit(a, w[n - 1], q[n])

LEMMA WalkExists ==
  ASSUME NEW a \in Algo, NEW q \in Seq(Message), NEW size \in Int
  PROVE  \E w : IsWalk(w, a, q, size) /\ Walk(a, q, size) = w[Len(q)]
<1> DEFINE Is(w) == w = [n \in 0 .. Len(q) |->
                          IF n = 0 THEN [size |-> size, kept |-> <<>>, threw |-> FALSE]
                          ELSE Visit(a, w[n - 1], q[n])]
           walk == CHOOSE w : Is(w)
           step == [n \in 1 .. Len(q) |-> [x \in WalkState |-> Visit(a, x, q[n])]]
<1>1. Len(q) \in Nat /\ \A n \in 1 .. Len(q) : q[n] \in Message
  OBVIOUS
<1>2. Start(size) \in WalkState
  BY DEF Start, WalkState
<1>3. \A x \in WalkState, n \in 1 .. Len(q) :
        step[n][x] = Visit(a, x, q[n]) /\ Visit(a, x, q[n]) \in WalkState
  BY <1>1, VisitCases
<1>4. step \in [1 .. Len(q) -> [WalkState -> WalkState]]
  BY <1>1, <1>3
<1> HIDE DEF step
<1>5. \E w : Iterates(w, Len(q), WalkState, Start(size), step)
  BY <1>1, <1>2, <1>4, Recursion
<1>6. PICK w \in [0 .. Len(q) -> WalkState] :
        w[0] = Start(size) /\ \A n \in 1 .. Len(q) : w[n] = step[n][w[n - 1]]
  BY <1>5 DEF Iterates
<1>7. ASSUME NEW n \in 0 .. Len(q)
      PROVE  w[n] = IF n = 0 THEN [size |-> size, kept |-> <<>>, threw |-> FALSE]
                    ELSE Visit(a, w[n - 1], q[n])
  <2>1. CASE n = 0
    BY <2>1, <1>6 DEF Start
  <2>2. CASE n \in 1 .. Len(q)
    <3>1. n - 1 \in 0 .. Len(q) /\ n # 0
      BY <2>2, <1>1
    <3>2. w[n - 1] \in WalkState
      BY <3>1, <1>6
    <3> QED BY <3>1, <3>2, <2>2, <1>6, <1>3
  <2> QED BY <2>1, <2>2
<1>8. Is(w)
  BY <1>7
<1>9. Is(walk)
  BY <1>8
<1>10. Walk(a, q, size) = walk[Len(q)]
  BY DEF Walk
<1> HIDE DEF walk
<1>11. walk[0] = Start(size)
  BY <1>9, <1>1 DEF Start
<1>12. ASSUME NEW n \in 1 .. Len(q)
       PROVE  walk[n] = Visit(a, walk[n - 1], q[n])
  <2>1. n \in 0 .. Len(q) /\ n # 0
    BY <1>1
  <2> QED BY <2>1, <1>9
<1>13. \A n \in 0 .. Len(q) : n \in {k \in 0 .. Len(q) : walk[k] \in WalkState}
  <2> DEFINE T == {k \in 0 .. Len(q) : walk[k] \in WalkState}
             N == Len(q)
  <2>1. 0 \in T
    BY <1>1, <1>2, <1>11
  <2>2. ASSUME NEW n \in 1 .. N, n - 1 \in T
        PROVE  n \in T
    <3>1. walk[n - 1] \in WalkState
      BY <2>2
    <3>2. Visit(a, walk[n - 1], q[n]) \in WalkState
      BY <3>1, <1>3
    <3> QED BY <3>2, <1>12
  <2>3. N \in Nat
    BY <1>1
  <2>4. \A n \in 0 .. N : n \in T
    <3> HIDE DEF T, N
    <3> QED BY <2>1, <2>2, <2>3, Induction
  <2> QED BY <2>4
<1>14. walk \in [0 .. Len(q) -> WalkState]
  BY <1>9, <1>13
<1> QED BY <1>10, <1>11, <1>12, <1>14 DEF IsWalk

----------------------------------------------------------------------------
(* What a walk does *)

\* p says which of the first n messages of q are kept, and i is one that is not.
Chosen(p, kept, n, q) ==
  p \in Picks(Len(kept), n) /\ \A i \in 1 .. Len(kept) : kept[i] = q[p[i]]
LeftOut(p, kept, i) == \A j \in 1 .. Len(kept) : p[j] # i

\* Nothing has been removed, or the last message that was had to go.
Needed(a, p, kept, n, q, size) ==
  \/ size = Bytes(q) /\ \A i \in 1 .. n : ~LeftOut(p, kept, i)
  \/ \E i \in 1 .. n : LeftOut(p, kept, i) /\ size + q[i].len >= a.max

\* Only what the algorithm may remove has been removed.
Rightly(a, p, kept, n, q) ==
  \A i \in 1 .. n : LeftOut(p, kept, i) => Removable(a, q[i])

\* The walk has gone through the first n messages, whose bytes are f[n].
WalkInv(a, q, f, n, w) ==
  /\ \E p : /\ Chosen(p, w.kept, n, q)
            /\ ~w.threw => /\ Needed(a, p, w.kept, n, q, w.size)
                           /\ Rightly(a, p, w.kept, n, q)
  /\ ~w.threw => w.size + f[n] = f[Len(q)] + Bytes(w.kept)
  /\ ~w.threw /\ w.size >= a.max => \A i \in 1 .. Len(w.kept) : ~Removable(a, w.kept[i])

LEMMA PicksGrow ==
  ASSUME NEW k \in Nat, NEW n \in Nat \ {0}, NEW p \in Picks(k, n - 1)
  PROVE  /\ p \in Picks(k, n)
         /\ \A j \in 1 .. k : p[j] \in 1 .. n - 1 /\ p[j] # n
         /\ [j \in 1 .. k + 1 |-> IF j = k + 1 THEN n ELSE p[j]] \in Picks(k + 1, n)
<1>1. p \in [1 .. k -> 1 .. n - 1] /\ \A i, j \in 1 .. k : i < j => p[i] < p[j]
  BY DEF Picks
<1>2. \A j \in 1 .. k : p[j] \in 1 .. n - 1 /\ p[j] \in 1 .. n /\ p[j] < n /\ p[j] # n
  BY <1>1
<1>3. p \in [1 .. k -> 1 .. n]
  BY <1>1, <1>2
<1> DEFINE r == [j \in 1 .. k + 1 |-> IF j = k + 1 THEN n ELSE p[j]]
<1>4. r \in [1 .. k + 1 -> 1 .. n]
  <2>1. ASSUME NEW j \in 1 .. k + 1
        PROVE  (IF j = k + 1 THEN n ELSE p[j]) \in 1 .. n
    BY <1>2
  <2> QED BY <2>1
<1>5. ASSUME NEW i \in 1 .. k + 1, NEW j \in 1 .. k + 1, i < j
      PROVE  r[i] < r[j]
  <2>1. i \in 1 .. k /\ r[i] = p[i]
    BY <1>5
  <2>2. CASE j = k + 1
    BY <2>1, <2>2, <1>2
  <2>3. CASE j \in 1 .. k
    <3>1. r[j] = p[j]
      BY <2>3
    <3> QED BY <3>1, <2>1, <2>3, <1>1, <1>5
  <2> QED BY <2>2, <2>3
<1> QED BY <1>1, <1>2, <1>3, <1>4, <1>5 DEF Picks

LEMMA AppendedMessages ==
  ASSUME NEW q \in Seq(Message), NEW m \in Message
  PROVE  /\ Append(q, m) \in Seq(Message) /\ Len(Append(q, m)) = Len(q) + 1
         /\ Len(q) \in Nat
         /\ Append(q, m)[Len(q) + 1] = m
         /\ \A i \in 1 .. Len(q) : Append(q, m)[i] = q[i]
<1> QED OBVIOUS

\* A visit keeps what holds of the walk.
LEMMA VisitKeepsInv ==
  ASSUME NEW a \in Algo, NEW q \in Seq(Message), NEW f, IsSums(f, Lens(q)),
         NEW n \in 1 .. Len(q), NEW w \in WalkState, WalkInv(a, q, f, n - 1, w)
  PROVE  WalkInv(a, q, f, n, Visit(a, w, q[n]))
<1> DEFINE m == q[n]
           k == Len(w.kept)
           N == Len(q)
<1>1. m \in Message /\ m.len \in Nat /\ N \in Nat /\ n - 1 \in Nat /\ n \in Nat \ {0}
  BY LensType
<1>2. f[n] = f[n - 1] + m.len /\ f[n] \in Nat /\ f[n - 1] \in Nat /\ f[N] \in Nat
  <2>1. Lens(q) \in Seq(Nat) /\ Len(Lens(q)) = N /\ Lens(q)[n] = m.len /\ N \in 0 .. N
    BY LensType
  <2>2. n \in 1 .. Len(Lens(q))
    BY <2>1
  <2>3. f[n] = f[n - 1] + Lens(q)[n] /\ f[n] \in Nat /\ f[n - 1] \in Nat
    BY <2>1, <2>2, SumsStep
  <2>4. f[N] \in Nat
    BY <2>1, SumsType
  <2> QED BY <2>1, <2>3, <2>4
<1>3. w.size \in Int /\ w.kept \in Seq(Message) /\ w.threw \in BOOLEAN /\ k \in Nat
  BY DEF WalkState
<1>4. a.max \in Nat
  BY DEF Algo
<1>5. PICK p : /\ Chosen(p, w.kept, n - 1, q)
               /\ ~w.threw => /\ Needed(a, p, w.kept, n - 1, q, w.size)
                              /\ Rightly(a, p, w.kept, n - 1, q)
  BY DEF WalkInv
<1>6. p \in Picks(k, n - 1) /\ \A i \in 1 .. k : w.kept[i] = q[p[i]]
  BY <1>5 DEF Chosen
<1>7. /\ p \in Picks(k, n)
      /\ \A j \in 1 .. k : p[j] \in 1 .. n - 1 /\ p[j] # n
      /\ [j \in 1 .. k + 1 |-> IF j = k + 1 THEN n ELSE p[j]] \in Picks(k + 1, n)
  BY <1>1, <1>3, <1>6, PicksGrow
<1>8. Chosen(p, w.kept, n, q)
  BY <1>6, <1>7 DEF Chosen
<1> DEFINE v == Visit(a, w, m)
<1>9. /\ v \in WalkState
      /\ VisitKeeps(a, w, m, v) \/ (v.threw /\ v.kept = w.kept) \/ VisitRemoves(a, w, m, v)
  BY <1>1, VisitCases
<1> HIDE DEF m, v
<1>10. CASE VisitKeeps(a, w, m, v)
  <2> DEFINE r == [j \in 1 .. k + 1 |-> IF j = k + 1 THEN n ELSE p[j]]
  <2>1. v.size = w.size /\ v.kept = Append(w.kept, m) /\ v.threw = w.threw
    BY <1>10 DEF VisitKeeps
  <2>2. /\ v.kept \in Seq(Message) /\ Len(v.kept) = k + 1 /\ v.kept[k + 1] = m
        /\ \A i \in 1 .. k : v.kept[i] = w.kept[i]
    BY <2>1, <1>1, <1>3, AppendedMessages
  <2>3. r[k + 1] = n /\ \A j \in 1 .. k : r[j] = p[j]
    BY <1>3
  <2>4. r \in Picks(k + 1, n)
    BY <1>7
  <2> HIDE DEF r
  <2>5. Chosen(r, v.kept, n, q)
    <3>1. ASSUME NEW i \in 1 .. k + 1
          PROVE  v.kept[i] = q[r[i]]
      <4>1. CASE i = k + 1
        BY <4>1, <2>2, <2>3 DEF m
      <4>2. CASE i \in 1 .. k
        BY <4>2, <2>2, <2>3, <1>6
      <4> QED BY <4>1, <4>2, <1>3
    <3> QED BY <3>1, <2>2, <2>4 DEF Chosen
  <2>6. ASSUME ~v.threw
        PROVE  Needed(a, r, v.kept, n, q, v.size)
    <3>1. Needed(a, p, w.kept, n - 1, q, w.size)
      BY <2>1, <2>6, <1>5
    <3>2. ASSUME w.size = Bytes(q), \A i \in 1 .. n - 1 : ~LeftOut(p, w.kept, i)
          PROVE  Needed(a, r, v.kept, n, q, v.size)
      <4>1. ASSUME NEW i \in 1 .. n
            PROVE  ~LeftOut(r, v.kept, i)
        <5>1. CASE i = n
          <6>1. k + 1 \in 1 .. Len(v.kept) /\ r[k + 1] = i
            BY <5>1, <2>2, <2>3, <1>3
          <6> QED BY <6>1 DEF LeftOut
        <5>2. CASE i \in 1 .. n - 1
          <6>1. PICK j \in 1 .. k : p[j] = i
            BY <5>2, <3>2 DEF LeftOut
          <6>2. j \in 1 .. Len(v.kept) /\ r[j] = i
            BY <6>1, <2>2, <2>3, <1>3
          <6> QED BY <6>2 DEF LeftOut
        <5> QED BY <5>1, <5>2, <1>1
      <4> QED BY <4>1, <3>2, <2>1 DEF Needed
    <3>3. ASSUME NEW i \in 1 .. n - 1, LeftOut(p, w.kept, i), w.size + q[i].len >= a.max
          PROVE  Needed(a, r, v.kept, n, q, v.size)
      <4>1. i # n /\ i \in 1 .. n
        BY <1>1
      <4>2. LeftOut(r, v.kept, i)
        <5>1. ASSUME NEW j \in 1 .. k + 1
              PROVE  r[j] # i
          <6>1. CASE j = k + 1
            BY <6>1, <4>1, <2>3
          <6>2. CASE j \in 1 .. k
            BY <6>2, <2>3, <3>3 DEF LeftOut
          <6> QED BY <6>1, <6>2, <1>3, SMTT(30)
        <5> QED BY <5>1, <2>2 DEF LeftOut
      <4> QED BY <4>1, <4>2, <3>3, <2>1 DEF Needed
    <3> QED BY <3>1, <3>2, <3>3 DEF Needed
  <2>10. ASSUME ~v.threw
         PROVE  Rightly(a, r, v.kept, n, q)
    <3>1. ASSUME NEW i \in 1 .. n, LeftOut(r, v.kept, i)
          PROVE  Removable(a, q[i])
      <4>1. i # n
        <5>1. k + 1 \in 1 .. Len(v.kept)
          BY <2>2, <1>3
        <5> QED BY <5>1, <3>1, <2>3 DEF LeftOut
      <4>2. LeftOut(p, w.kept, i)
        <5>1. ASSUME NEW j \in 1 .. k
              PROVE  p[j] # i
          <6>1. j \in 1 .. Len(v.kept) /\ r[j] = p[j]
            BY <2>2, <2>3, <1>3, SMTT(30)
          <6> QED BY <6>1, <3>1 DEF LeftOut
        <5> QED BY <5>1 DEF LeftOut
      <4>3. i \in 1 .. n - 1
        BY <4>1, <1>1
      <4> QED BY <4>2, <4>3, <2>1, <2>10, <1>5 DEF Rightly
    <3> QED BY <3>1 DEF Rightly
  <2>7. ASSUME ~v.threw
        PROVE  v.size + f[n] = f[N] + Bytes(v.kept)
    <3>1. w.size + f[n - 1] = f[N] + Bytes(w.kept)
      BY <2>1, <2>7 DEF WalkInv
    <3>2. Bytes(v.kept) = Bytes(w.kept) + m.len /\ Bytes(w.kept) \in Nat
      BY <2>1, <1>1, <1>3, BytesAppend, BytesType DEF m
    <3>3. f[n] = f[n - 1] + m.len /\ m.len \in Nat
      BY <1>1, <1>2 DEF m
    <3> HIDE DEF N
    <3>4. w.size + (f[n - 1] + m.len) = f[N] + (Bytes(w.kept) + m.len)
      <4> DEFINE x == w.size
                 y == f[n - 1]
                 z == Bytes(w.kept)
                 l == m.len
                 g == f[N]
      <4>1. x \in Int /\ y \in Nat /\ z \in Nat /\ l \in Nat /\ g \in Nat /\ x + y = g + z
        BY <3>1, <3>2, <3>3, <1>2, <1>3
      <4> HIDE DEF x, y, z, l, g
      <4>2. x + (y + l) = g + (z + l)
        BY <4>1
      <4> QED BY <4>2 DEF x, y, z, l, g
    <3>5. w.size + f[n] = f[N] + Bytes(v.kept)
      BY <3>2, <3>3, <3>4
    <3> QED BY <3>5, <2>1
  <2>8. ASSUME ~v.threw, v.size >= a.max, NEW i \in 1 .. Len(v.kept)
        PROVE  ~Removable(a, v.kept[i])
    <3>1. \A j \in 1 .. k : ~Removable(a, w.kept[j])
      BY <2>1, <2>8 DEF WalkInv
    <3>2. ~Removable(a, m)
      BY <2>1, <2>8, <1>3, <1>4, <1>10 DEF VisitKeeps
    <3>3. CASE i = k + 1
      BY <3>2, <3>3, <2>2
    <3>4. CASE i \in 1 .. k
      BY <3>1, <3>4, <2>2
    <3> QED BY <3>3, <3>4, <2>2, <1>3
  <2>9. WalkInv(a, q, f, n, v)
    BY <2>5, <2>6, <2>7, <2>8, <2>10 DEF WalkInv
  <2> QED BY <2>9 DEF v, m
<1>11. CASE v.threw /\ v.kept = w.kept
  <2>1. WalkInv(a, q, f, n, v)
    BY <1>8, <1>11 DEF WalkInv
  <2> QED BY <2>1 DEF v, m
<1>12. CASE VisitRemoves(a, w, m, v)
  <2>1. ~w.threw /\ ~v.threw /\ w.size >= a.max /\ v.size = w.size - m.len /\ v.kept = w.kept
    BY <1>12 DEF VisitRemoves
  <2>2. m.len \in Nat /\ f[n] = f[n - 1] + m.len
    BY <1>1, <1>2 DEF m
  <2>3. LeftOut(p, v.kept, n) /\ v.size + q[n].len >= a.max
    <3>1. LeftOut(p, v.kept, n)
      BY <1>7, <2>1 DEF LeftOut
    <3>2. v.size + m.len >= a.max
      BY <2>1, <2>2, <1>3, <1>4
    <3> QED BY <3>1, <3>2 DEF m
  <2>4. Needed(a, p, v.kept, n, q, v.size)
    BY <2>3, <1>1 DEF Needed
  <2>5. v.size + f[n] = f[N] + Bytes(v.kept)
    <3>1. w.size + f[n - 1] = f[N] + Bytes(w.kept) /\ Bytes(w.kept) \in Nat
      BY <2>1, <1>3, BytesType DEF WalkInv
    <3> HIDE DEF N
    <3> QED BY <3>1, <2>1, <2>2, <1>2, <1>3, SMTT(30)
  <2>6. v.size >= a.max => \A i \in 1 .. Len(v.kept) : ~Removable(a, v.kept[i])
    BY <2>1 DEF WalkInv
  <2>8. Rightly(a, p, v.kept, n, q)
    <3>1. ASSUME NEW i \in 1 .. n, LeftOut(p, v.kept, i)
          PROVE  Removable(a, q[i])
      <4>1. CASE i = n
        BY <4>1, <1>12 DEF VisitRemoves, m
      <4>2. CASE i \in 1 .. n - 1
        BY <4>2, <3>1, <2>1, <1>5 DEF Rightly
      <4> QED BY <4>1, <4>2, <1>1
    <3> QED BY <3>1 DEF Rightly
  <2>7. WalkInv(a, q, f, n, v)
    BY <2>1, <2>4, <2>5, <2>6, <2>8, <1>8 DEF WalkInv
  <2> QED BY <2>7 DEF v, m
<1> QED BY <1>9, <1>10, <1>11, <1>12

----------------------------------------------------------------------------
(* What an algorithm does *)

\* An algorithm leaves a part of the queue in its order.  Unless it threw, it
\* counts what it leaves, spares nothing it may remove while it is not below
\* its limit, and removes nothing without need.
Processed(a, q, r) ==
  /\ r.queue \in Seq(Message) /\ r.threw \in BOOLEAN
  /\ \E p : /\ Chosen(p, r.queue, Len(q), q)
            /\ ~r.threw => /\ Needed(a, p, r.queue, Len(q), q, r.size)
                           /\ Rightly(a, p, r.queue, Len(q), q)
  /\ ~r.threw => r.size = Bytes(r.queue)
  /\ ~r.threw /\ r.size >= a.max =>
       \A i \in 1 .. Len(r.queue) : ~Removable(a, r.queue[i])

LEMMA WalkProcesses ==
  ASSUME NEW a \in Algo, NEW q \in Seq(Message)
  PROVE  LET w == Walk(a, q, Bytes(q))
         IN Processed(a, q, [queue |-> w.kept, size |-> AtLeastZero(w.size), threw |-> w.threw])
<1> DEFINE N == Len(q)
<1>1. PICK w : IsWalk(w, a, q, Bytes(q)) /\ Walk(a, q, Bytes(q)) = w[N]
  BY BytesType, WalkExists
<1>2. PICK f : IsSums(f, Lens(q)) /\ Total(Lens(q)) = f[Len(Lens(q))]
  BY LensType, SumsExist
<1>3. N \in Nat /\ Bytes(q) = f[N] /\ f[0] = 0 /\ f[N] \in Nat
  BY <1>2, LensType, SumsType, BytesType
<1>4. w[0] = Start(Bytes(q)) /\ w \in [0 .. N -> WalkState]
  BY <1>1 DEF IsWalk
<1> DEFINE T == {n \in 0 .. N : WalkInv(a, q, f, n, w[n])}
<1>5. WalkInv(a, q, f, 0, w[0])
  <2>1. w[0].size = f[N] /\ w[0].kept = <<>>
    BY <1>3, <1>4 DEF Start
  <2>2. Chosen(<<>>, w[0].kept, 0, q) /\ Rightly(a, <<>>, w[0].kept, 0, q)
    BY <2>1 DEF Chosen, Rightly, Picks
  <2>4. Needed(a, <<>>, w[0].kept, 0, q, w[0].size)
    BY <2>1, <1>3 DEF Needed
  <2>3. w[0].size + f[0] = f[N] + Bytes(w[0].kept)
    BY <2>1, <1>3, BytesEmpty
  <2> QED BY <2>1, <2>2, <2>3, <2>4 DEF WalkInv
<1>6. ASSUME NEW n \in 1 .. N, n - 1 \in T
      PROVE  n \in T
  <2>1. w[n - 1] \in WalkState
    <3>1. n - 1 \in 0 .. N
      BY <1>3
    <3> QED BY <3>1, <1>4
  <2>2. WalkInv(a, q, f, n - 1, w[n - 1])
    BY <1>6
  <2>3. WalkInv(a, q, f, n, Visit(a, w[n - 1], q[n]))
    BY <2>1, <2>2, <1>2, VisitKeepsInv
  <2>4. w[n] = Visit(a, w[n - 1], q[n])
    BY <1>1 DEF IsWalk
  <2>5. n \in 0 .. N
    BY <1>3
  <2> QED BY <2>3, <2>4, <2>5
<1>7. \A n \in 0 .. N : n \in T
  <2>1. 0 \in T
    BY <1>3, <1>5
  <2> HIDE DEF T, N
  <2> QED BY <2>1, <1>3, <1>6, Induction
<1>8. WalkInv(a, q, f, N, w[N]) /\ w[N] \in WalkState
  BY <1>3, <1>4, <1>7
<1> DEFINE v == Walk(a, q, Bytes(q))
           r == [queue |-> v.kept, size |-> AtLeastZero(v.size), threw |-> v.threw]
<1>9. WalkInv(a, q, f, N, v) /\ v \in WalkState
  BY <1>1, <1>8
<1>10. r.queue = v.kept /\ r.size = AtLeastZero(v.size) /\ r.threw = v.threw
  OBVIOUS
<1>11. v.kept \in Seq(Message) /\ v.size \in Int /\ v.threw \in BOOLEAN
  BY <1>9 DEF WalkState
<1> HIDE DEF v, r
<1>12. ASSUME ~v.threw
       PROVE  v.size = Bytes(v.kept) /\ r.size = v.size
  <2>1. v.size + f[N] = f[N] + Bytes(v.kept)
    BY <1>9, <1>12 DEF WalkInv
  <2>2. Bytes(v.kept) \in Nat
    BY <1>11, BytesType
  <2>3. v.size = Bytes(v.kept)
    <3> HIDE DEF N
    <3> QED BY <2>1, <2>2, <1>3, <1>11
  <2> QED BY <2>2, <2>3, <1>10 DEF AtLeastZero
<1>13. PICK p : /\ Chosen(p, v.kept, N, q)
                /\ ~v.threw => /\ Needed(a, p, v.kept, N, q, v.size)
                               /\ Rightly(a, p, v.kept, N, q)
  BY <1>9 DEF WalkInv
<1>14. ~v.threw /\ v.size >= a.max => \A i \in 1 .. Len(v.kept) : ~Removable(a, v.kept[i])
  BY <1>9 DEF WalkInv
<1>15. Processed(a, q, r)
  <2>1. r.queue \in Seq(Message) /\ r.threw \in BOOLEAN
    BY <1>10, <1>11
  <2>2. /\ Chosen(p, r.queue, Len(q), q)
        /\ ~r.threw => /\ Needed(a, p, r.queue, Len(q), q, r.size)
                       /\ Rightly(a, p, r.queue, Len(q), q)
    BY <1>10, <1>12, <1>13
  <2>3. ~r.threw => r.size = Bytes(r.queue)
    BY <1>10, <1>12
  <2>4. ~r.threw /\ r.size >= a.max =>
          \A i \in 1 .. Len(r.queue) : ~Removable(a, r.queue[i])
    BY <1>10, <1>12, <1>14
  <2> QED BY <2>1, <2>2, <2>3, <2>4 DEF Processed
<1> QED BY <1>15 DEF v, r

\* Whatever holds of a walk through the queue turned round holds of the queue.
LEMMA TurnedProcessed ==
  ASSUME NEW a \in Algo, NEW q \in Seq(Message), NEW r, Processed(a, Reverse(q), r)
  PROVE  Processed(a, q, [queue |-> Reverse(r.queue), size |-> r.size, threw |-> r.threw])
<1> DEFINE N == Len(q)
           k == Len(r.queue)
           t == Reverse(q)
           u == Reverse(r.queue)
<1>1. r.queue \in Seq(Message) /\ r.threw \in BOOLEAN
  BY DEF Processed
<1>2. /\ t \in Seq(Message) /\ Len(t) = N /\ N \in Nat
      /\ \A i \in 1 .. N : t[i] = q[N - i + 1]
  BY BytesTurned
<1>3. /\ u \in Seq(Message) /\ Len(u) = k /\ k \in Nat /\ Bytes(u) = Bytes(r.queue)
      /\ \A i \in 1 .. k : u[i] = r.queue[k - i + 1]
  BY <1>1, BytesTurned
<1>4. PICK p : /\ Chosen(p, r.queue, Len(t), t)
               /\ ~r.threw => /\ Needed(a, p, r.queue, Len(t), t, r.size)
                              /\ Rightly(a, p, r.queue, Len(t), t)
  BY DEF Processed
<1>5. /\ p \in [1 .. k -> 1 .. N] /\ \A i, j \in 1 .. k : i < j => p[i] < p[j]
      /\ \A i \in 1 .. k : r.queue[i] = t[p[i]]
  BY <1>2, <1>4 DEF Chosen, Picks
<1> DEFINE s == [i \in 1 .. k |-> N - p[k - i + 1] + 1]
<1> HIDE DEF t, u, N, k
<1>6. ASSUME NEW i \in 1 .. k
      PROVE  k - i + 1 \in 1 .. k /\ p[k - i + 1] \in 1 .. N /\ s[i] \in 1 .. N
             /\ s[i] = N - p[k - i + 1] + 1
  <2>1. k - i + 1 \in 1 .. k
    BY <1>3
  <2>2. p[k - i + 1] \in 1 .. N
    BY <2>1, <1>5
  <2>3. s[i] = N - p[k - i + 1] + 1
    OBVIOUS
  <2> QED BY <2>1, <2>2, <2>3, <1>2
<1>7. s \in Picks(k, N)
  <2>1. s \in [1 .. k -> 1 .. N]
    BY <1>6
  <2>2. ASSUME NEW i \in 1 .. k, NEW j \in 1 .. k, i < j
        PROVE  s[i] < s[j]
    <3>1. p[k - j + 1] < p[k - i + 1]
      <4>1. k - j + 1 < k - i + 1
        BY <2>2, <1>3
      <4> QED BY <4>1, <1>5, <1>6
    <3> DEFINE x == p[k - i + 1]
               y == p[k - j + 1]
    <3>2. x \in 1 .. N /\ y \in 1 .. N /\ y < x /\ s[i] = N - x + 1 /\ s[j] = N - y + 1
      BY <3>1, <1>6
    <3> HIDE DEF x, y, s
    <3> QED BY <3>2, <1>2
  <2> HIDE DEF s
  <2> QED BY <2>1, <2>2 DEF Picks
<1>8. ASSUME NEW i \in 1 .. k
      PROVE  u[i] = q[s[i]]
  <2>1. u[i] = t[p[k - i + 1]]
    BY <1>3, <1>5, <1>6
  <2>2. t[p[k - i + 1]] = q[N - p[k - i + 1] + 1]
    BY <1>2, <1>6
  <2> QED BY <2>1, <2>2, <1>6
<1> HIDE DEF s
<1>9. Chosen(s, u, N, q)
  BY <1>3, <1>7, <1>8 DEF Chosen
\* What is left out of the one is left out of the other.
<1>16. ASSUME NEW i \in 1 .. N
       PROVE  /\ N - i + 1 \in 1 .. N /\ N - (N - i + 1) + 1 = i
              /\ LeftOut(s, u, N - i + 1) <=> LeftOut(p, r.queue, i)
  <2> DEFINE m == N - i + 1
  <2>1. m \in 1 .. N /\ N - m + 1 = i
    BY <1>2
  <2>2. ASSUME NEW j \in 1 .. k
        PROVE  s[j] = m <=> p[k - j + 1] = i
    <3> DEFINE x == p[k - j + 1]
               y == s[j]
    <3>1. x \in 1 .. N /\ y = N - x + 1
      BY <1>6
    <3>2. y = m <=> x = i
      <4> HIDE DEF x, y
      <4>1. y = N - i + 1 => x = i
        BY <3>1, <1>2
      <4>2. x = i => y = N - i + 1
        BY <3>1, <1>2
      <4> QED BY <4>1, <4>2
    <3> QED BY <3>2
  <2>3. ASSUME NEW j \in 1 .. k
        PROVE  k - j + 1 \in 1 .. k /\ k - (k - j + 1) + 1 = j
    BY <1>3
  <2> HIDE DEF m
  <2>4. ASSUME LeftOut(s, u, m), NEW j \in 1 .. k
        PROVE  p[j] # i
    <3>1. s[k - j + 1] # m
      BY <2>3, <2>4, <1>3 DEF LeftOut
    <3> QED BY <3>1, <2>2, <2>3
  <2>5. ASSUME LeftOut(p, r.queue, i), NEW j \in 1 .. k
        PROVE  s[j] # m
    <3>1. p[k - j + 1] # i
      BY <2>3, <2>5 DEF LeftOut, k
    <3> QED BY <3>1, <2>2
  <2>6. LeftOut(s, u, m) => LeftOut(p, r.queue, i)
    BY <2>4 DEF LeftOut, k
  <2>7. LeftOut(p, r.queue, i) => LeftOut(s, u, m)
    BY <2>5, <1>3 DEF LeftOut
  <2> QED BY <2>1, <2>6, <2>7 DEF m
<1>17. ASSUME NEW i \in 1 .. N
       PROVE  \E m \in 1 .. N : N - m + 1 = i /\ N - i + 1 = m
  <2>1. N - i + 1 \in 1 .. N /\ N - (N - i + 1) + 1 = i
    BY <1>16
  <2> QED BY <2>1
<1>10. ASSUME ~r.threw
       PROVE  Needed(a, s, u, N, q, r.size)
  <2>1. Needed(a, p, r.queue, N, t, r.size)
    BY <1>2, <1>4, <1>10
  <2>2. ASSUME r.size = Bytes(t), \A i \in 1 .. N : ~LeftOut(p, r.queue, i)
        PROVE  Needed(a, s, u, N, q, r.size)
    <3>1. \A i \in 1 .. N : ~LeftOut(s, u, i)
      BY <2>2, <1>16, <1>17
    <3>2. r.size = Bytes(q)
      BY <2>2, BytesTurned DEF t
    <3> QED BY <3>1, <3>2 DEF Needed
  <2>3. ASSUME NEW i \in 1 .. N, LeftOut(p, r.queue, i), r.size + t[i].len >= a.max
        PROVE  Needed(a, s, u, N, q, r.size)
    <3> DEFINE m == N - i + 1
    <3>1. m \in 1 .. N /\ LeftOut(s, u, m)
      BY <2>3, <1>16
    <3>2. r.size + q[m].len >= a.max
      BY <2>3, <1>2
    <3> HIDE DEF m
    <3> QED BY <3>1, <3>2 DEF Needed
  <2> QED BY <2>1, <2>2, <2>3 DEF Needed
<1>18. ASSUME ~r.threw
       PROVE  Rightly(a, s, u, N, q)
  <2>1. Rightly(a, p, r.queue, N, t)
    BY <1>2, <1>4, <1>18
  <2>2. ASSUME NEW m \in 1 .. N, LeftOut(s, u, m)
        PROVE  Removable(a, q[m])
    <3>1. PICK i \in 1 .. N : N - i + 1 = m
      BY <1>17
    <3>2. LeftOut(p, r.queue, i)
      BY <3>1, <2>2, <1>16
    <3>3. Removable(a, t[i])
      BY <3>2, <2>1 DEF Rightly
    <3> QED BY <3>1, <3>3, <1>2
  <2> QED BY <2>2 DEF Rightly
<1>11. ASSUME ~r.threw, r.size >= a.max, NEW i \in 1 .. k
       PROVE  ~Removable(a, u[i])
  <2>1. \A j \in 1 .. k : ~Removable(a, r.queue[j])
    BY <1>11 DEF Processed, k
  <2> QED BY <2>1, <1>3, <1>6
<1>12. ~r.threw => r.size = Bytes(u)
  BY <1>3 DEF Processed
<1> DEFINE z == [queue |-> u, size |-> r.size, threw |-> r.threw]
<1>13. z.queue = u /\ z.size = r.size /\ z.threw = r.threw
  OBVIOUS
<1> HIDE DEF z
<1>14. Processed(a, q, z)
  <2>1. z.queue \in Seq(Message) /\ z.threw \in BOOLEAN
    BY <1>1, <1>3, <1>13
  <2>2. /\ Chosen(s, z.queue, Len(q), q)
        /\ ~z.threw => /\ Needed(a, s, z.queue, Len(q), q, z.size)
                       /\ Rightly(a, s, z.queue, Len(q), q)
    BY <1>9, <1>10, <1>13, <1>18 DEF N
  <2>3. ~z.threw => z.size = Bytes(z.queue)
    BY <1>12, <1>13
  <2>4. ~z.threw /\ z.size >= a.max =>
          \A i \in 1 .. Len(z.queue) : ~Removable(a, z.queue[i])
    BY <1>3, <1>11, <1>13
  <2> QED BY <2>1, <2>2, <2>3, <2>4 DEF Processed
<1> QED BY <1>14 DEF z, u

LEMMA ProcessProcesses ==
  ASSUME NEW a \in Algo, NEW q \in Seq(Message)
  PROVE  Processed(a, q, Process(a, q, Bytes(q)))
<1> DEFINE w == Walk(a, Turned(a, q), Bytes(q))
           r == [queue |-> w.kept, size |-> AtLeastZero(w.size), threw |-> w.threw]
<1>1. CASE a.order = "oldest"
  <2>1. Turned(a, q) = q /\ Turned(a, w.kept) = w.kept
    BY <1>1 DEF Turned
  <2>2. Processed(a, q, r)
    BY <2>1, WalkProcesses
  <2> QED BY <2>1, <2>2 DEF Process
<1>2. CASE a.order # "oldest"
  <2>1. Turned(a, q) = Reverse(q) /\ Turned(a, w.kept) = Reverse(w.kept)
    BY <1>2 DEF Turned
  <2>2. Reverse(q) \in Seq(Message) /\ Bytes(Reverse(q)) = Bytes(q)
    BY BytesTurned
  <2>3. Processed(a, Reverse(q), r)
    BY <2>1, <2>2, WalkProcesses
  <2>4. Processed(a, q, [queue |-> Reverse(r.queue), size |-> r.size, threw |-> r.threw])
    <3> HIDE DEF r
    <3> QED BY <2>3, TurnedProcessed
  <2>5. Process(a, q, Bytes(q)) = [queue |-> Reverse(r.queue), size |-> r.size, threw |-> r.threw]
    BY <2>1 DEF Process
  <2> QED BY <2>4, <2>5
<1> QED BY <1>1, <1>2

----------------------------------------------------------------------------
(* What is gone *)

\* Numbered in the order of arrival, so no message is there twice.
Ordered(q) == \A i, j \in 1 .. Len(q) : i < j => q[i].num < q[j].num

\* A part of a queue is ordered as the queue is, and what is left out of it is
\* what is not in it.
LEMMA ChosenFacts ==
  ASSUME NEW q \in Seq(Message), Ordered(q), NEW kept \in Seq(Message), NEW p,
         Chosen(p, kept, Len(q), q)
  PROVE  /\ Ordered(kept) /\ ToSet(kept) \subseteq ToSet(q)
         /\ \A i \in 1 .. Len(q) : LeftOut(p, kept, i) <=> q[i] \notin ToSet(kept)
<1> DEFINE k == Len(kept)
           N == Len(q)
<1>1. /\ p \in [1 .. k -> 1 .. N] /\ \A i, j \in 1 .. k : i < j => p[i] < p[j]
      /\ \A i \in 1 .. k : kept[i] = q[p[i]] /\ p[i] \in 1 .. N
  BY DEF Chosen, Picks
<1>2. ToSet(kept) = {kept[i] : i \in 1 .. k} /\ ToSet(q) = {q[i] : i \in 1 .. N}
  BY DEF ToSet
<1>3. k \in Nat /\ N \in Nat /\ \A i \in 1 .. N : q[i] \in Message /\ q[i].num \in Nat
  <2>1. \A m \in Message : m.num \in Nat
    BY DEF Message
  <2>2. k \in Nat /\ N \in Nat /\ \A i \in 1 .. N : q[i] \in Message
    OBVIOUS
  <2> QED BY <2>1, <2>2
<1>4. Ordered(kept)
  <2>1. ASSUME NEW i \in 1 .. k, NEW j \in 1 .. k, i < j
        PROVE  kept[i].num < kept[j].num
    <3>1. p[i] < p[j] /\ p[i] \in 1 .. N /\ p[j] \in 1 .. N
      BY <2>1, <1>1
    <3>2. q[p[i]].num < q[p[j]].num
      BY <3>1 DEF Ordered
    <3> QED BY <3>2, <1>1
  <2> QED BY <2>1 DEF Ordered
<1>5. ToSet(kept) \subseteq ToSet(q)
  BY <1>1, <1>2
<1>6. ASSUME NEW i \in 1 .. N, LeftOut(p, kept, i)
      PROVE  q[i] \notin ToSet(kept)
  <2>1. SUFFICES ASSUME NEW j \in 1 .. k, q[i] = kept[j]
                 PROVE  FALSE
    BY <1>2
  <2>2. p[j] \in 1 .. N /\ p[j] # i /\ q[i].num = q[p[j]].num
    BY <2>1, <1>1, <1>6 DEF LeftOut
  <2> DEFINE x == p[j]
  <2>3. x \in 1 .. N /\ x # i /\ q[i].num = q[x].num
    BY <2>2
  <2> HIDE DEF x
  <2>4. CASE i < x
    BY <2>3, <2>4, <1>3 DEF Ordered
  <2>5. CASE x < i
    BY <2>3, <2>5, <1>3 DEF Ordered
  <2> QED BY <2>3, <2>4, <2>5, <1>3
<1>7. ASSUME NEW i \in 1 .. N, ~LeftOut(p, kept, i)
      PROVE  q[i] \in ToSet(kept)
  <2>1. PICK j \in 1 .. k : p[j] = i
    BY <1>7 DEF LeftOut
  <2> QED BY <2>1, <1>1, <1>2
<1> QED BY <1>4, <1>5, <1>6, <1>7

\* What an algorithm does to the set of the messages.
Cleaned(a, q, r) ==
  /\ r.queue \in Seq(Message) /\ Ordered(r.queue) /\ r.size = Bytes(r.queue)
  /\ ToSet(r.queue) \subseteq ToSet(q)
  /\ \/ r.size = Bytes(q) /\ ToSet(q) \subseteq ToSet(r.queue)
     \/ \E m \in ToSet(q) \ ToSet(r.queue) : r.size + m.len >= a.max
  /\ \A m \in ToSet(q) \ ToSet(r.queue) : Removable(a, m)
  /\ r.size >= a.max => \A m \in ToSet(r.queue) : ~Removable(a, m)

LEMMA ProcessedCleans ==
  ASSUME NEW a \in Algo, NEW q \in Seq(Message), Ordered(q), NEW r, Processed(a, q, r), ~r.threw
  PROVE  Cleaned(a, q, r)
<1>1. r.queue \in Seq(Message) /\ r.size = Bytes(r.queue)
  BY DEF Processed
<1>2. PICK p : /\ Chosen(p, r.queue, Len(q), q)
               /\ Needed(a, p, r.queue, Len(q), q, r.size)
               /\ Rightly(a, p, r.queue, Len(q), q)
  BY DEF Processed
<1>3. /\ Ordered(r.queue) /\ ToSet(r.queue) \subseteq ToSet(q)
      /\ \A i \in 1 .. Len(q) : LeftOut(p, r.queue, i) <=> q[i] \notin ToSet(r.queue)
  BY <1>1, <1>2, ChosenFacts
<1>4. ToSet(q) = {q[i] : i \in 1 .. Len(q)}
      /\ ToSet(r.queue) = {r.queue[i] : i \in 1 .. Len(r.queue)}
  BY <1>1 DEF ToSet
<1>5. \/ r.size = Bytes(q) /\ ToSet(q) \subseteq ToSet(r.queue)
      \/ \E m \in ToSet(q) \ ToSet(r.queue) : r.size + m.len >= a.max
  <2>1. CASE r.size = Bytes(q) /\ \A i \in 1 .. Len(q) : ~LeftOut(p, r.queue, i)
    BY <2>1, <1>3, <1>4
  <2>2. CASE \E i \in 1 .. Len(q) : LeftOut(p, r.queue, i) /\ r.size + q[i].len >= a.max
    <3>1. PICK i \in 1 .. Len(q) : LeftOut(p, r.queue, i) /\ r.size + q[i].len >= a.max
      BY <2>2
    <3>2. q[i] \in ToSet(q) \ ToSet(r.queue)
      BY <3>1, <1>3, <1>4
    <3> QED BY <3>1, <3>2
  <2> QED BY <2>1, <2>2, <1>2 DEF Needed
<1>6. \A m \in ToSet(q) \ ToSet(r.queue) : Removable(a, m)
  BY <1>2, <1>3, <1>4 DEF Rightly
<1>7. r.size >= a.max => \A m \in ToSet(r.queue) : ~Removable(a, m)
  BY <1>4 DEF Processed
<1> QED BY <1>1, <1>3, <1>5, <1>6, <1>7 DEF Cleaned

\* One part of a part is a part.
LEMMA Composed ==
  ASSUME NEW q \in Seq(Message), NEW first \in Seq(Message), NEW kept \in Seq(Message),
         NEW p, Chosen(p, first, Len(q), q), NEW s, Chosen(s, kept, Len(first), first)
  PROVE  \E c : Chosen(c, kept, Len(q), q)
<1> DEFINE k == Len(kept)
           n == Len(first)
           N == Len(q)
           c == [i \in 1 .. k |-> p[s[i]]]
<1>1. /\ p \in [1 .. n -> 1 .. N] /\ \A i, j \in 1 .. n : i < j => p[i] < p[j]
      /\ \A i \in 1 .. n : first[i] = q[p[i]]
  BY DEF Chosen, Picks
<1>2. /\ s \in [1 .. k -> 1 .. n] /\ \A i, j \in 1 .. k : i < j => s[i] < s[j]
      /\ \A i \in 1 .. k : kept[i] = first[s[i]]
  BY DEF Chosen, Picks
<1> HIDE DEF k, n, N
<1>3. c \in [1 .. k -> 1 .. N]
  BY <1>1, <1>2
<1>4. ASSUME NEW i \in 1 .. k, NEW j \in 1 .. k, i < j
      PROVE  c[i] < c[j]
  <2>1. s[i] < s[j] /\ s[i] \in 1 .. n /\ s[j] \in 1 .. n
    BY <1>2, <1>4
  <2> QED BY <2>1, <1>1
<1>5. \A i \in 1 .. k : kept[i] = q[c[i]]
  BY <1>1, <1>2
<1> HIDE DEF c
<1>6. c \in Picks(k, N)
  BY <1>3, <1>4 DEF Picks
<1>7. Chosen(c, kept, N, q)
  BY <1>5, <1>6 DEF Chosen, k
<1> QED BY <1>7 DEF N

\* A part of a queue is what the modules that hold one take it to be.
LEMMA ChosenThinned ==
  ASSUME NEW q \in Seq(Message), NEW kept \in Seq(Message), NEW p,
         Chosen(p, kept, Len(q), q)
  PROVE  kept \in Thinned(q)
<1> DEFINE k == Len(kept)
           N == Len(q)
<1>1. /\ p \in [1 .. k -> 1 .. N] /\ \A i, j \in 1 .. k : i < j => p[i] < p[j]
      /\ \A i \in 1 .. k : kept[i] = q[p[i]]
      /\ p \in Picks(k, N)
  BY DEF Chosen, Picks
<1>2. k \in Nat /\ N \in Nat
  OBVIOUS
<1>3. kept = [i \in 1 .. k |-> q[p[i]]]
  <2>1. [i \in 1 .. k |-> q[p[i]]] \in Seq(Message)
    BY <1>1, <1>2
  <2>2. Len([i \in 1 .. k |-> q[p[i]]]) = k
    BY <1>2
  <2>3. \A i \in 1 .. k : kept[i] = [j \in 1 .. k |-> q[p[j]]][i]
    BY <1>1
  <2> QED BY <2>1, <2>2, <2>3, SameSequence
<1> DEFINE T == {i \in 0 .. k : i = 0 \/ p[i] >= i}
<1>4. ASSUME NEW i \in 1 .. k, i - 1 \in T
      PROVE  i \in T
  <2>1. p[i] \in Nat /\ p[i] >= 1 /\ i \in 0 .. k
    BY <1>1, <1>2
  <2>2. CASE i = 1
    BY <2>1, <2>2
  <2>3. CASE i # 1
    <3>1. i - 1 \in 1 .. k /\ p[i - 1] >= i - 1 /\ p[i - 1] < p[i] /\ p[i - 1] \in Nat
      BY <2>3, <1>1, <1>2, <1>4, SMTT(30)
    <3> DEFINE x == p[i - 1]
               y == p[i]
    <3>2. x >= i - 1 /\ x < y /\ x \in Nat /\ y \in Nat
      BY <3>1, <2>1
    <3> HIDE DEF x, y
    <3>3. y >= i
      BY <3>2
    <3> QED BY <3>3, <2>1 DEF y
  <2> QED BY <2>2, <2>3
<1>5. \A i \in 0 .. k : i \in T
  <2>1. 0 \in T
    BY <1>2
  <2> HIDE DEF T, k
  <2> QED BY <2>1, <1>2, <1>4, Induction
<1>6. k <= N
  <2>1. CASE k = 0
    BY <2>1, <1>2
  <2>2. CASE k # 0
    <3>1. k \in 1 .. k
      BY <2>2, <1>2
    <3>2. p[k] >= k /\ p[k] \in 1 .. N
      BY <3>1, <1>1, <1>2, <1>5, <2>2
    <3> QED BY <3>2, <1>2
  <2> QED BY <2>1, <2>2
<1>7. k \in 0 .. N
  BY <1>2, <1>6
<1> QED BY <1>1, <1>3, <1>7, SMTT(30) DEF Thinned

----------------------------------------------------------------------------
(* A push *)

\* The numbers are drawn from the count of the pushes.
NumbersDrawn == \A i \in 1 .. Len(mq) : mq[i].num <= pushed

\* A running timer has not measured more than the queue has been above its limit.
TimerTrue == timer # Unset /\ mq_size > max_size => over >= timer

QueueInv == TypeOK /\ SizeIsExact /\ ArrivalOrder /\ NumbersDrawn /\ TimerTrue

New(k) == [len |-> k.len, prio |-> k.prio, num |-> pushed + 1]

\* The push stores its message behind what r has left of the queue.
Stores(m, r) ==
  /\ mq' = Append(r.queue, m) /\ mq_size' = r.size + m.len
  /\ pushed' = pushed + 1 /\ UNCHANGED <<alive, config>>

\* No emergency, one that the algorithm ends, one that the fallback ends.
Quiet(r) ==
  /\ ~IsEmergency(mq_size, timer) /\ r.queue = mq /\ r.size = mq_size
  /\ timer' = Since(mq_size, timer)
First(r) ==
  LET t == Since(mq_size, timer)
  IN /\ IsEmergency(mq_size, timer) /\ algo \in Algo /\ Processed(algo, mq, r) /\ ~r.threw
     /\ ~IsEmergency(r.size, t) /\ timer' = Since(r.size, t)
Second(first, r) ==
  LET t == Since(mq_size, timer)
  IN /\ IsEmergency(mq_size, timer) /\ algo \in Algo /\ Processed(algo, mq, first) /\ ~first.threw
     /\ IsEmergency(first.size, t) /\ fallback \in Algo
     /\ Processed(fallback, first.queue, r) /\ ~r.threw /\ timer' = t

LEMMA NewMessage ==
  ASSUME TypeOK, NEW k \in Kinds
  PROVE  New(k) \in Message /\ New(k).num = pushed + 1
<1>1. k \in [len : Nat, prio : Priorities \cup {Malformed}]
  BY QueueAssumption
<1>2. pushed + 1 \in Nat
  BY QueueAssumption DEF TypeOK
<1> QED BY <1>1, <1>2 DEF New, Message

\* What a push may do.
LEMMA PushCases ==
  ASSUME TypeOK, SizeIsExact, NEW k \in Kinds, Push(k)
  PROVE  \/ Crash
         \/ \E r : Stores(New(k), r) /\ Quiet(r)
         \/ \E r : Stores(New(k), r) /\ First(r)
         \/ \E first, r : Stores(New(k), r) /\ Second(first, r)
<1> DEFINE m == New(k)
           t == Since(mq_size, timer)
           first == Process(algo, mq, mq_size)
<1>1. PushMessage(m)
  BY DEF Push, New
<1> HIDE DEF m
<1>2. mq \in Seq(Message) /\ mq_size = Bytes(mq)
  BY DEF TypeOK, SizeIsExact
<1>3. CASE ~IsEmergency(mq_size, timer) /\ Store(m, mq, mq_size, t)
  <2> DEFINE r == [queue |-> mq, size |-> mq_size]
  <2>1. Stores(m, r) /\ Quiet(r)
    BY <1>3 DEF Stores, Quiet, Store
  <2> QED BY <2>1 DEF m
<1>4. CASE IsEmergency(mq_size, timer) /\ algo # NoAlgo /\ ~first.threw /\ Relieve(m, first, t)
  <2>1. algo \in Algo
    BY <1>4 DEF TypeOK
  <2>2. Processed(algo, mq, first)
    BY <2>1, <1>2, ProcessProcesses
  <2>3. first.queue \in Seq(Message) /\ first.size = Bytes(first.queue)
    BY <2>2, <1>4 DEF Processed
  <2> DEFINE second == Process(fallback, first.queue, first.size)
  <2> HIDE DEF first, t
  <2>4. CASE ~IsEmergency(first.size, t) /\ Store(m, first.queue, first.size, Since(first.size, t))
    <3>1. Stores(m, first)
      BY <2>4 DEF Stores, Store
    <3>2. First(first)
      BY <2>1, <2>2, <2>4, <1>4 DEF First, Store, t
    <3> QED BY <3>1, <3>2 DEF m
  <2>5. CASE /\ IsEmergency(first.size, t) /\ fallback # NoAlgo /\ ~second.threw
             /\ Store(m, second.queue, second.size, t)
    <3>1. fallback \in Algo
      BY <2>5 DEF TypeOK
    <3>2. Processed(fallback, first.queue, second)
      BY <3>1, <2>3, ProcessProcesses
    <3> HIDE DEF second
    <3>3. Stores(m, second)
      BY <2>5 DEF Stores, Store
    <3>4. Second(first, second)
      BY <2>1, <2>2, <2>5, <3>1, <3>2, <1>4 DEF Second, Store, t
    <3> QED BY <3>3, <3>4 DEF m
  <2>6. CASE Crash
    BY <2>6
  <2> QED BY <2>4, <2>5, <2>6, <1>4 DEF Relieve
<1>5. CASE Crash
  BY <1>5
<1> QED BY <1>1, <1>3, <1>4, <1>5 DEF PushMessage

\* What the queue, its count and its timer are when a message is stored.
Outcome(r) ==
  /\ r.queue \in Seq(Message) /\ r.size = Bytes(r.queue)
  /\ \E p : Chosen(p, r.queue, Len(mq), mq)
  /\ timer' \in {Unset, 0, timer}
  /\ timer' # Unset /\ timer' = timer => mq_size > max_size
  /\ r.queue # mq => IsEmergency(mq_size, timer)

LEMMA SinceCases ==
  ASSUME NEW size, NEW t
  PROVE  /\ Since(size, t) \in {Unset, 0, t}
         /\ size <= max_size => Since(size, t) = Unset
<1> QED BY DEF Since

LEMMA PushOutcome ==
  ASSUME QueueInv, NEW r, \/ Quiet(r) \/ First(r) \/ \E first : Second(first, r)
  PROVE  Outcome(r)
<1>1. mq \in Seq(Message) /\ mq_size = Bytes(mq) /\ mq_size \in Nat /\ max_size \in Nat
  BY DEF QueueInv, TypeOK, SizeIsExact
<1> DEFINE t == Since(mq_size, timer)
<1>2. t \in {Unset, 0, timer} /\ (mq_size <= max_size => t = Unset)
  BY SinceCases
<1>3. ASSUME NEW size, timer' = Since(size, t) \/ timer' = t
      PROVE  /\ timer' \in {Unset, 0, timer}
             /\ timer' # Unset /\ mq_size <= max_size => timer' = 0
  <2>1. timer' \in {Unset, 0, t}
    BY <1>3, SinceCases
  <2> HIDE DEF t
  <2> QED BY <2>1, <1>2
<1>4. CASE Quiet(r)
  <2>1. timer' = t /\ r.queue = mq /\ r.size = mq_size
    BY <1>4 DEF Quiet
  <2>2. timer' # Unset => mq_size > max_size
    BY <2>1, <1>1, <1>2
  <2>3. \E p : Chosen(p, mq, Len(mq), mq)
    BY <1>1, AllKept DEF Chosen
  <2> QED BY <2>1, <2>2, <2>3, <1>1, <1>2 DEF Outcome
<1>5. CASE First(r)
  <2>1. IsEmergency(mq_size, timer) /\ Processed(algo, mq, r) /\ ~r.threw /\ timer' = Since(r.size, t)
    BY <1>5 DEF First
  <2>2. mq_size > max_size
    BY <2>1 DEF IsEmergency
  <2>3. r.queue \in Seq(Message) /\ r.size = Bytes(r.queue) /\ \E p : Chosen(p, r.queue, Len(mq), mq)
    BY <2>1 DEF Processed
  <2> QED BY <2>1, <2>2, <2>3, <1>3 DEF Outcome
<1>6. ASSUME NEW first, Second(first, r)
      PROVE  Outcome(r)
  <2>1. IsEmergency(mq_size, timer) /\ Processed(algo, mq, first) /\ ~first.threw
        /\ Processed(fallback, first.queue, r) /\ ~r.threw /\ timer' = t
    BY <1>6 DEF Second
  <2>2. mq_size > max_size
    BY <2>1 DEF IsEmergency
  <2>3. first.queue \in Seq(Message) /\ \E p : Chosen(p, first.queue, Len(mq), mq)
    BY <2>1 DEF Processed
  <2>4. /\ r.queue \in Seq(Message) /\ r.size = Bytes(r.queue)
        /\ \E p : Chosen(p, r.queue, Len(first.queue), first.queue)
    BY <2>1 DEF Processed
  <2>5. \E p : Chosen(p, r.queue, Len(mq), mq)
    BY <2>3, <2>4, <1>1, Composed
  <2> QED BY <2>1, <2>2, <2>4, <2>5, <1>3 DEF Outcome
<1> QED BY <1>4, <1>5, <1>6

\* What the history says after a step that takes no time.
LEMMA WatchFacts ==
  ASSUME NEW passed \in Nat, over \in 0 .. MaxWait, mq_size' \in Int, max_size' \in Nat,
         Watch(passed)
  PROVE  /\ over' \in 0 .. MaxWait
         /\ mq_size' > max_size' => over' >= over
         /\ mq_size' > max_size' /\ passed = 1 => over' = MaxWait \/ over' = over + 1
<1> USE QueueAssumption
<1>1. CASE mq_size' > max_size'
  <2>1. over' = Min2(over + passed, MaxWait)
    BY <1>1 DEF Watch
  <2> QED BY <2>1 DEF Min2
<1>2. CASE ~(mq_size' > max_size')
  BY <1>2 DEF Watch
<1> QED BY <1>1, <1>2

LEMMA StoreStep ==
  ASSUME QueueInv, NEW k \in Kinds, Push(k), NEW r, Stores(New(k), r), Outcome(r)
  PROVE  QueueInv'
<1> DEFINE m == New(k)
           n == Len(r.queue)
<1>1. m \in Message /\ m.num = pushed + 1 /\ m.len \in Nat
  <2>1. m \in Message /\ m.num = pushed + 1
    BY NewMessage DEF QueueInv
  <2> HIDE DEF m
  <2> QED BY <2>1 DEF Message
<1> HIDE DEF m
<1>2. /\ mq' = Append(r.queue, m) /\ mq_size' = r.size + m.len /\ pushed' = pushed + 1
      /\ UNCHANGED <<alive, config>>
  BY DEF Stores, m
<1>3. r.queue \in Seq(Message) /\ r.size = Bytes(r.queue) /\ n \in Nat
  BY DEF Outcome
<1>4. /\ mq' \in Seq(Message) /\ Len(mq') = n + 1 /\ mq'[n + 1] = m
      /\ \A i \in 1 .. n : mq'[i] = r.queue[i]
  BY <1>1, <1>2, <1>3, AppendedMessages
<1>5. Bytes(mq') = Bytes(r.queue) + m.len /\ Bytes(r.queue) \in Nat
  BY <1>1, <1>2, <1>3, BytesAppend, BytesType
<1>6. mq_size' \in Nat /\ mq_size' = Bytes(mq')
  BY <1>1, <1>2, <1>3, <1>5
<1>7. /\ mq \in Seq(Message) /\ mq_size \in Nat /\ max_size \in Nat /\ over \in 0 .. MaxWait
      /\ timer \in 0 .. MaxWait \cup {Unset} /\ pushed \in 0 .. MaxPushes
  BY DEF QueueInv, TypeOK
<1>8. pushed' \in 0 .. MaxPushes /\ pushed' \in Nat
  BY <1>2, <1>7, QueueAssumption DEF Push
<1>9. Watch(0)
  BY DEF Push
<1>10. over' \in 0 .. MaxWait /\ (mq_size' > max_size' => over' >= over)
  <2>1. max_size' \in Nat /\ mq_size' \in Int
    BY <1>2, <1>6, <1>7 DEF config
  <2> QED BY <2>1, <1>7, <1>9, WatchFacts
<1>11. TypeOK'
  <2>1. timer' \in 0 .. MaxWait \cup {Unset}
    BY <1>7, QueueAssumption DEF Outcome
  <2> QED BY <2>1, <1>2, <1>4, <1>6, <1>8, <1>10 DEF QueueInv, TypeOK, config
<1>12. PICK p : Chosen(p, r.queue, Len(mq), mq)
  BY DEF Outcome
<1>13. Ordered(r.queue) /\ ToSet(r.queue) \subseteq ToSet(mq)
  <2>1. Ordered(mq)
    BY DEF QueueInv, ArrivalOrder, Ordered
  <2> QED BY <2>1, <1>3, <1>7, <1>12, ChosenFacts
<1>14. ASSUME NEW i \in 1 .. n
       PROVE  mq'[i].num <= pushed /\ mq'[i].num \in Nat
  <2>1. r.queue[i] \in ToSet(mq)
    <3>1. r.queue[i] \in ToSet(r.queue)
      BY <1>3 DEF ToSet
    <3> QED BY <3>1, <1>13
  <2>2. PICK j \in 1 .. Len(mq) : r.queue[i] = mq[j]
    BY <2>1, <1>7 DEF ToSet
  <2>3. mq[j].num <= pushed /\ mq[j] \in Message
    BY <1>7 DEF QueueInv, NumbersDrawn
  <2> QED BY <2>2, <2>3, <1>4 DEF Message
<1>15. (\A i \in 1 .. Len(mq) : mq[i].num <= pushed)'
  <2>1. ASSUME NEW i \in 1 .. n + 1
        PROVE  mq'[i].num <= pushed + 1
    <3>1. CASE i = n + 1
      BY <3>1, <1>1, <1>4, <1>7
    <3>2. CASE i \in 1 .. n
      BY <3>2, <1>14, <1>7
    <3> QED BY <3>1, <3>2, <1>3
  <2> QED BY <2>1, <1>2, <1>4
<1>16. (\A i, j \in 1 .. Len(mq) : i < j => mq[i].num < mq[j].num)'
  <2>1. ASSUME NEW i \in 1 .. n + 1, NEW j \in 1 .. n + 1, i < j
        PROVE  mq'[i].num < mq'[j].num
    <3>1. i \in 1 .. n
      BY <2>1, <1>3
    <3>2. CASE j = n + 1
      BY <3>1, <3>2, <1>1, <1>4, <1>7, <1>14
    <3>3. CASE j \in 1 .. n
      BY <3>1, <3>3, <2>1, <1>4, <1>13 DEF Ordered
    <3> QED BY <3>2, <3>3, <1>3
  <2> QED BY <2>1, <1>4
<1>17. TimerTrue'
  <2>1. SUFFICES ASSUME timer' # Unset, mq_size' > max_size'
                 PROVE  over' >= timer'
    BY DEF TimerTrue
  <2>2. CASE timer' = 0
    BY <2>2, <1>10
  <2>3. CASE timer' = timer
    <3>1. mq_size > max_size /\ timer # Unset
      BY <2>1, <2>3 DEF Outcome
    <3>2. over >= timer /\ over' >= over
      BY <3>1, <2>1, <1>10 DEF QueueInv, TimerTrue
    <3> QED BY <3>1, <3>2, <2>3, <1>7, <1>10
  <2> QED BY <2>1, <2>2, <2>3 DEF Outcome
<1> QED BY <1>6, <1>11, <1>15, <1>16, <1>17
       DEF QueueInv, SizeIsExact, ArrivalOrder, NumbersDrawn

\* A step that leaves the queue and its count alone.
LEMMA SameQueueStep ==
  ASSUME QueueInv, UNCHANGED <<mq, mq_size, pushed>>, TypeOK', TimerTrue'
  PROVE  QueueInv'
<1>1. SizeIsExact' /\ ArrivalOrder' /\ NumbersDrawn'
  BY DEF QueueInv, SizeIsExact, ArrivalOrder, NumbersDrawn
<1> QED BY <1>1 DEF QueueInv

LEMMA PushStep ==
  ASSUME QueueInv, NEW k \in Kinds, Push(k)
  PROVE  QueueInv'
<1>1. CASE Crash
  <2>1. UNCHANGED <<mq, mq_size, timer, pushed, config>> /\ alive' = FALSE
    BY <1>1 DEF Crash
  <2>2. over' \in 0 .. MaxWait /\ (mq_size' > max_size' => over' >= over)
    BY <2>1, WatchFacts DEF QueueInv, TypeOK, Push, config
  <2>3. TypeOK'
    BY <2>1, <2>2 DEF QueueInv, TypeOK, config
  <2>4. TimerTrue'
    BY <2>1, <2>2 DEF QueueInv, TypeOK, TimerTrue, config
  <2> QED BY <2>1, <2>3, <2>4, SameQueueStep
<1>2. ASSUME NEW r, Stores(New(k), r), Quiet(r) \/ First(r) \/ \E first : Second(first, r)
      PROVE  QueueInv'
  <2>1. Outcome(r)
    BY <1>2, PushOutcome
  <2> QED BY <2>1, <1>2, StoreStep
<1>3. TypeOK /\ SizeIsExact
  BY DEF QueueInv
<1> QED BY <1>1, <1>2, <1>3, PushCases

LEMMA PopStep ==
  ASSUME QueueInv, Pop
  PROVE  QueueInv'
<1> DEFINE n == Len(mq')
<1>1. /\ mq' = Tail(mq) /\ mq # <<>> /\ mq_size' = mq_size - Head(mq).len
      /\ UNCHANGED <<timer, alive, pushed, config>> /\ Watch(0)
  BY DEF Pop
<1>2. /\ mq \in Seq(Message) /\ mq_size \in Nat /\ max_size \in Nat /\ over \in 0 .. MaxWait
      /\ mq_size = Bytes(mq) /\ max_size' = max_size
      /\ timer \in 0 .. MaxWait \cup {Unset}
  BY <1>1 DEF QueueInv, TypeOK, SizeIsExact, config
<1>3. /\ mq' \in Seq(Message) /\ Len(mq) = n + 1 /\ n \in Nat
      /\ \A i \in 1 .. n : mq'[i] = mq[i + 1]
      /\ Head(mq) \in Message
  BY <1>1, <1>2, TailOfMessages
<1>4. Bytes(mq) = Head(mq).len + Bytes(mq') /\ Bytes(mq') \in Nat /\ Head(mq).len \in Nat
  <2>1. \A m \in Message : m.len \in Nat
    BY DEF Message
  <2> QED BY <2>1, <1>1, <1>2, <1>3, BytesTail, BytesType
<1>5. mq_size' = Bytes(mq') /\ mq_size' \in Nat /\ mq_size' <= mq_size
  BY <1>1, <1>2, <1>4
<1>6. over' \in 0 .. MaxWait /\ (mq_size' > max_size' => over' >= over)
  BY <1>1, <1>2, <1>5, WatchFacts
<1>7. TypeOK'
  BY <1>1, <1>3, <1>5, <1>6 DEF QueueInv, TypeOK, config
<1>8. TimerTrue'
  BY <1>1, <1>2, <1>5, <1>6 DEF QueueInv, TimerTrue
<1>9. (\A i \in 1 .. Len(mq) : mq[i].num <= pushed)'
  BY <1>1, <1>3 DEF QueueInv, NumbersDrawn
<1>10. (\A i, j \in 1 .. Len(mq) : i < j => mq[i].num < mq[j].num)'
  BY <1>3 DEF QueueInv, ArrivalOrder
<1> QED BY <1>5, <1>7, <1>8, <1>9, <1>10
       DEF QueueInv, SizeIsExact, ArrivalOrder, NumbersDrawn

LEMMA MakeAlgoType ==
  ASSUME NEW name, NEW prio \in Priorities, NEW max \in Nat
  PROVE  MakeAlgo(name, prio, max) \in Algo \cup {NoAlgo}
<1>1. 0 \in Priorities
  BY DEF Priorities
<1>2. \A order \in {"oldest", "newest"}, below \in Priorities :
        [order |-> order, below |-> below, max |-> max] \in Algo
  BY DEF Algo
<1> QED BY <1>1, <1>2 DEF MakeAlgo

\* A change of the configuration, which cannot make the timer say too much.
LEMMA ChangeStep ==
  ASSUME QueueInv, Changing, UNCHANGED <<mq, mq_size, timer, alive, pushed>>, WatchChange,
         max_size' \in Nat, trigger' \in Nat,
         algo' \in Algo \cup {NoAlgo}, fallback' \in Algo \cup {NoAlgo}
  PROVE  QueueInv'
<1>1. over' \in 0 .. MaxWait /\ (mq_size' > max_size' /\ timer' # Unset => over' = MaxWait)
  BY QueueAssumption DEF WatchChange
<1>2. changes' \in 0 .. MaxChanges
  BY QueueAssumption DEF Changing, QueueInv, TypeOK
<1>3. TypeOK'
  BY <1>1, <1>2 DEF QueueInv, TypeOK
<1>4. TimerTrue'
  BY <1>1, QueueAssumption DEF QueueInv, TypeOK, TimerTrue
<1> QED BY <1>3, <1>4, SameQueueStep

LEMMA ConfigStep ==
  ASSUME QueueInv, NEW c \in Configs, ApplyConfig(c) \/ ChangeParams(c)
  PROVE  QueueInv'
<1>1. c \in Config
  BY QueueAssumption
<1>2. /\ c.max_queue_size \in Nat \cup {NotGiven} /\ c.emergency_timeout \in Nat \cup {NotGiven}
      /\ c.emergency_prio \in Priorities
  BY <1>1 DEF Config
<1>3. /\ max_size \in Nat /\ trigger \in Nat
      /\ algo \in Algo \cup {NoAlgo} /\ fallback \in Algo \cup {NoAlgo}
  BY DEF QueueInv, TypeOK
<1>4. CASE ApplyConfig(c)
  <2>1. max_size' \in Nat /\ trigger' \in Nat
    BY <1>2, <1>3, <1>4 DEF ApplyConfig, Given
  <2>2. \A name : MakeAlgo(name, c.emergency_prio, max_size') \in Algo \cup {NoAlgo}
    BY <1>2, <2>1, MakeAlgoType
  <2>3. algo' \in Algo \cup {NoAlgo} /\ fallback' \in Algo \cup {NoAlgo}
    BY <2>2, <1>3, <1>4 DEF ApplyConfig
  <2> QED BY <2>1, <2>3, <1>4, ChangeStep DEF ApplyConfig
<1>5. CASE ChangeParams(c)
  <2>1. max_size' \in Nat /\ trigger' \in Nat
    BY <1>2, <1>5 DEF ChangeParams
  <2> QED BY <2>1, <1>3, <1>5, ChangeStep DEF ChangeParams
<1> QED BY <1>4, <1>5

LEMMA AlgoStep ==
  ASSUME QueueInv, NEW name \in AlgoNames, NEW order \in {"oldest", "newest"},
         ChangeAlgo(name, Warning, order)
  PROVE  QueueInv'
<1>1. max_size \in Nat /\ trigger \in Nat
  BY DEF QueueInv, TypeOK
<1>2. Warning \in Priorities /\ 0 \in Priorities
  BY DEF Warning, Priorities
<1>3. algo' \in Algo \cup {NoAlgo}
  BY <1>1, <1>2, MakeAlgoType DEF ChangeAlgo
<1>4. fallback' \in Algo \cup {NoAlgo}
  BY <1>1, <1>2 DEF ChangeAlgo, Algo
<1> QED BY <1>1, <1>3, <1>4, ChangeStep DEF ChangeAlgo

LEMMA TickStep ==
  ASSUME QueueInv, Tick
  PROVE  QueueInv'
<1>1. /\ UNCHANGED <<mq, mq_size, alive, pushed, config>> /\ Watch(1)
      /\ timer' = IF timer = Unset THEN Unset ELSE Min2(timer + 1, MaxWait)
  BY DEF Tick
<1>2. /\ mq_size' \in Nat /\ max_size' \in Nat /\ over \in 0 .. MaxWait
      /\ timer \in 0 .. MaxWait \cup {Unset}
  BY <1>1 DEF QueueInv, TypeOK, config
<1>3. /\ over' \in 0 .. MaxWait
      /\ mq_size' > max_size' => over' = MaxWait \/ over' = over + 1
  BY <1>1, <1>2, WatchFacts
<1>4. timer' \in 0 .. MaxWait \cup {Unset}
  BY <1>1, <1>2, QueueAssumption DEF Min2, Unset
<1>5. TypeOK'
  BY <1>1, <1>3, <1>4 DEF QueueInv, TypeOK, config
<1>6. TimerTrue'
  <2>1. SUFFICES ASSUME timer' # Unset, mq_size' > max_size'
                 PROVE  over' >= timer'
    BY DEF TimerTrue
  <2>2. timer # Unset /\ timer' = Min2(timer + 1, MaxWait) /\ timer \in 0 .. MaxWait
    BY <2>1, <1>1, <1>2
  <2>3. over >= timer
    BY <2>1, <2>2, <1>1 DEF QueueInv, TimerTrue, config
  <2> QED BY <2>1, <2>2, <2>3, <1>2, <1>3, QueueAssumption DEF Min2
<1> QED BY <1>1, <1>5, <1>6, SameQueueStep

LEMMA QueueStep ==
  ASSUME QueueInv, [Next]_vars
  PROVE  QueueInv'
<1>1. CASE UNCHANGED vars
  BY <1>1 DEF vars, config, QueueInv, TypeOK, SizeIsExact, ArrivalOrder, NumbersDrawn, TimerTrue
<1> QED BY <1>1, PushStep, PopStep, ConfigStep, AlgoStep, TickStep DEF Next

LEMMA QueueInit ==
  ASSUME Init
  PROVE  QueueInv
<1>1. /\ SizeLimit \in Nat /\ TimeTrigger \in Nat /\ MaxPushes \in Nat /\ MaxChanges \in Nat
      /\ MaxWait \in Nat
  BY QueueAssumption
<1>2. \A below \in Priorities : [order |-> "oldest", below |-> below, max |-> SizeLimit] \in Algo
  BY <1>1 DEF Algo
<1>3. algo \in Algo /\ fallback \in Algo
  BY <1>2 DEF Init, Warning, Priorities
<1>4. alive \in BOOLEAN
  BY DEF Init
<1>5. TypeOK
  BY <1>1, <1>3, <1>4 DEF Init, TypeOK
<1>6. SizeIsExact
  BY BytesEmpty DEF Init, SizeIsExact
<1>7. ArrivalOrder /\ NumbersDrawn
  BY DEF Init, ArrivalOrder, NumbersDrawn
<1>8. TimerTrue
  BY DEF Init, TimerTrue
<1> QED BY <1>5, <1>6, <1>7, <1>8 DEF QueueInv

\* What every state is, and every step keeps.
LEMMA QueueAlways == Spec => []QueueInv
<1> QED BY QueueInit, QueueStep, PTL DEF Spec

\* Every variable keeps its type: the size never becomes negative, whatever
\* the algorithms subtract.
THEOREM QueueTypeCorrect == Spec => []TypeOK
<1>1. QueueInv => TypeOK
  BY DEF QueueInv
<1> QED BY <1>1, QueueAlways, PTL

\* mq_size_ is the number of bytes in the queue, whatever messages are pushed
\* and whichever algorithms walk through them.
THEOREM SizeAlwaysExact == Spec => []SizeIsExact
<1>1. QueueInv => SizeIsExact
  BY DEF QueueInv
<1> QED BY <1>1, QueueAlways, PTL

\* The messages in the queue stay in the order of their arrival, each at most
\* once, also when an algorithm has turned the queue round and back.
THEOREM ArrivalOrderKept == Spec => []ArrivalOrder
<1>1. QueueInv => ArrivalOrder
  BY DEF QueueInv
<1> QED BY <1>1, QueueAlways, PTL

----------------------------------------------------------------------------
(* What an emergency may do *)

\* Behind what was left of the queue stands the new message.
LEMMA StoredFacts ==
  ASSUME QueueInv, NEW k \in Kinds, NEW r, Stores(New(k), r), Outcome(r)
  PROVE  /\ Kept = r.queue
         /\ ToSet(mq') = ToSet(r.queue) \cup {New(k)}
         /\ Removed = ToSet(mq) \ ToSet(r.queue)
<1> DEFINE m == New(k)
           n == Len(r.queue)
<1>1. m \in Message /\ m.num = pushed + 1
  BY NewMessage DEF QueueInv
<1> HIDE DEF m
<1>2. mq' = Append(r.queue, m) /\ r.queue \in Seq(Message) /\ n \in Nat
  BY DEF Stores, Outcome, m
<1>3. /\ mq' \in Seq(Message) /\ Len(mq') = n + 1 /\ mq'[n + 1] = m
      /\ \A i \in 1 .. n : mq'[i] = r.queue[i]
  BY <1>1, <1>2, AppendedMessages
<1>4. Kept = r.queue
  <2>1. Kept = SubSeq(mq', 1, n)
    BY <1>3 DEF Kept, Front
  <2>2. SubSeq(mq', 1, n) \in Seq(Message) /\ Len(SubSeq(mq', 1, n)) = n
        /\ \A i \in 1 .. n : SubSeq(mq', 1, n)[i] = mq'[i]
    BY <1>2, <1>3
  <2>3. Kept \in Seq(Message) /\ Len(Kept) = n /\ \A i \in 1 .. Len(Kept) : Kept[i] = r.queue[i]
    BY <2>1, <2>2, <1>3
  <2> QED BY <2>3, <1>2, SameSequence
<1>5. /\ ToSet(mq') = {mq'[i] : i \in 1 .. n + 1}
      /\ ToSet(r.queue) = {r.queue[i] : i \in 1 .. n}
      /\ ToSet(mq) = {mq[i] : i \in 1 .. Len(mq)}
  <2>1. \A q \in Seq(Message) : ToSet(q) = {q[i] : i \in 1 .. Len(q)}
    BY DEF ToSet
  <2>2. ToSet(mq) = {mq[i] : i \in 1 .. Len(mq)}
    BY <2>1 DEF QueueInv, TypeOK
  <2> QED BY <2>1, <2>2, <1>2, <1>3
<1>6. ToSet(mq') = ToSet(r.queue) \cup {m}
  <2>1. ASSUME NEW x \in ToSet(mq')
        PROVE  x \in ToSet(r.queue) \cup {m}
    <3>1. PICK i \in 1 .. n + 1 : x = mq'[i]
      BY <1>5
    <3>2. CASE i = n + 1
      BY <3>1, <3>2, <1>3
    <3>3. CASE i \in 1 .. n
      BY <3>1, <3>3, <1>3, <1>5
    <3> QED BY <3>2, <3>3, <1>2
  <2>2. m \in ToSet(mq')
    <3>1. n + 1 \in 1 .. n + 1
      BY <1>2
    <3> QED BY <3>1, <1>3, <1>5
  <2>3. ASSUME NEW x \in ToSet(r.queue)
        PROVE  x \in ToSet(mq')
    <3>1. PICK i \in 1 .. n : x = r.queue[i]
      BY <1>5
    <3>2. i \in 1 .. n + 1 /\ mq'[i] = x
      BY <3>1, <1>2, <1>3
    <3> QED BY <3>2, <1>5
  <2> QED BY <2>1, <2>2, <2>3
<1>7. m \notin ToSet(mq)
  <2>1. SUFFICES ASSUME NEW i \in 1 .. Len(mq), m = mq[i]
                 PROVE  FALSE
    BY <1>5
  <2>2. m.num <= pushed /\ pushed \in Nat
    BY <2>1, QueueAssumption DEF QueueInv, NumbersDrawn, TypeOK
  <2> QED BY <2>2, <1>1
<1>8. Removed = ToSet(mq) \ ToSet(r.queue)
  BY <1>6, <1>7 DEF Removed
<1> QED BY <1>4, <1>6, <1>8 DEF m

\* Only a push adds to the count of the pushes, and it may have removed nothing,
\* or what the algorithm removed, or what both did.
FirstLeft(r) ==
  /\ IsEmergency(mq_size, timer) /\ algo \in Algo /\ Cleaned(algo, mq, r)
  /\ ~IsEmergency(r.size, Since(mq_size, timer))
  /\ timer' = Since(r.size, Since(mq_size, timer))
SecondLeft(first, r) ==
  /\ IsEmergency(mq_size, timer) /\ algo \in Algo /\ Cleaned(algo, mq, first)
  /\ IsEmergency(first.size, Since(mq_size, timer))
  /\ fallback \in Algo /\ Cleaned(fallback, first.queue, r)

LEMMA EmergencyCases ==
  ASSUME QueueInv, [Next]_vars, pushed' > pushed
  PROVE  \E r : /\ Outcome(r) /\ Kept = r.queue /\ Removed = ToSet(mq) \ ToSet(Kept)
                /\ \/ Quiet(r) \/ FirstLeft(r) \/ \E first : SecondLeft(first, r)
<1>1. pushed \in Nat
  BY QueueAssumption DEF QueueInv, TypeOK
<1>2. pushed' # pushed
  BY <1>1
<1>3. PICK k \in Kinds : Push(k)
  BY <1>2 DEF Next, vars, Pop, ApplyConfig, ChangeParams, ChangeAlgo, Tick
<1>4. ~Crash
  BY <1>2 DEF Crash
<1>5. mq \in Seq(Message) /\ Ordered(mq) /\ TypeOK /\ SizeIsExact
  BY DEF QueueInv, TypeOK, ArrivalOrder, Ordered
<1>6. ASSUME NEW r, Stores(New(k), r), Quiet(r) \/ First(r) \/ \E first : Second(first, r)
      PROVE  Outcome(r) /\ Kept = r.queue /\ Removed = ToSet(mq) \ ToSet(Kept)
  <2>1. Outcome(r)
    BY <1>6, PushOutcome
  <2> QED BY <2>1, <1>6, StoredFacts
<1>7. ASSUME NEW r, First(r)
      PROVE  FirstLeft(r)
  BY <1>5, <1>7, ProcessedCleans DEF First, FirstLeft
<1>8. ASSUME NEW first, NEW r, Second(first, r)
      PROVE  SecondLeft(first, r)
  <2>1. Cleaned(algo, mq, first)
    BY <1>5, <1>8, ProcessedCleans DEF Second
  <2>2. first.queue \in Seq(Message) /\ Ordered(first.queue)
    BY <2>1 DEF Cleaned
  <2>3. Cleaned(fallback, first.queue, r)
    BY <2>2, <1>8, ProcessedCleans DEF Second
  <2> QED BY <2>1, <2>3, <1>8 DEF Second, SecondLeft
<1> QED BY <1>3, <1>4, <1>5, <1>6, <1>7, <1>8, PushCases

LEMMA AlgoMax ==
  ASSUME QueueInv
  PROVE  /\ mq_size \in Nat /\ max_size \in Nat /\ trigger \in Nat /\ mq_size = Bytes(mq)
         /\ mq \in Seq(Message) /\ timer \in 0 .. MaxWait \cup {Unset} /\ over \in 0 .. MaxWait
         /\ algo \in Algo => algo.max \in Nat
         /\ fallback \in Algo => fallback.max \in Nat
<1> QED BY DEF QueueInv, TypeOK, SizeIsExact, Algo

LEMMA QuietRemoves ==
  ASSUME QueueInv, NEW r, Quiet(r), Kept = r.queue, Removed = ToSet(mq) \ ToSet(Kept)
  PROVE  Removed = {}
<1> QED BY DEF Quiet

LEMMA LimitKeptStep ==
  ASSUME QueueInv, [Next]_vars, LimitsFresh, fallback.below = 0,
         pushed' > pushed, timer' >= trigger
  PROVE  Bytes(Kept) <= max_size
<1>1. PICK r : /\ Outcome(r) /\ Kept = r.queue
               /\ \/ Quiet(r) \/ FirstLeft(r) \/ \E first : SecondLeft(first, r)
  BY EmergencyCases
<1>2. r.size = Bytes(Kept) /\ r.size \in Nat /\ Kept \in Seq(Message)
  BY <1>1, BytesType DEF Outcome
<1>3. ASSUME NEW size \in Nat, NEW t, timer' = Since(size, t), ~IsEmergency(size, t)
      PROVE  size <= max_size
  <2>1. ~(size > max_size)
    BY <1>3 DEF IsEmergency
  <2> QED BY <2>1, AlgoMax
<1>4. CASE Quiet(r)
  BY <1>2, <1>3, <1>4, AlgoMax DEF Quiet
<1>5. CASE FirstLeft(r)
  BY <1>2, <1>3, <1>5 DEF FirstLeft
<1>6. ASSUME NEW first, SecondLeft(first, r)
      PROVE  Bytes(Kept) <= max_size
  <2>1. SUFFICES ASSUME r.size > max_size
                 PROVE  FALSE
    BY <1>2, AlgoMax
  <2>2. r.size >= fallback.max /\ fallback.max = max_size
    BY <2>1, <1>2, <1>6, AlgoMax DEF LimitsFresh, SecondLeft
  <2>3. \A m \in ToSet(r.queue) : ~Removable(fallback, m)
    BY <2>2, <1>6 DEF SecondLeft, Cleaned
  <2>4. ToSet(r.queue) = {}
    BY <2>3 DEF Removable
  <2>5. r.queue = <<>>
    <3>1. \A i \in 1 .. Len(r.queue) : r.queue[i] \in ToSet(r.queue)
      BY <1>1, <1>2 DEF ToSet
    <3> QED BY <3>1, <2>4, <1>1, <1>2
  <2>6. r.size = 0
    BY <2>5, <1>1, <1>2, BytesEmpty
  <2> QED BY <2>1, <2>6, AlgoMax
<1> QED BY <1>1, <1>4, <1>5, <1>6

\* After a push that found the timeout over, what is left of the queue fits
\* into the limit, if the algorithms know the limit and the fallback spares
\* nothing.
THEOREM LimitAlwaysKept == Spec => LimitKept
<1>1. QueueInv /\ [Next]_vars =>
        [LimitsFresh /\ fallback.below = 0 /\ pushed' > pushed /\ timer' >= trigger
           => Bytes(Kept) <= max_size]_vars
  BY LimitKeptStep
<1> QED BY <1>1, QueueAlways, PTL DEF Spec, LimitKept

LEMMA PriorityStep ==
  ASSUME QueueInv, [Next]_vars, LimitsFresh, Emergency,
         NEW m \in Removed, ~Removable(algo, m), NEW x \in ToSet(Kept)
  PROVE  ~Removable(algo, x)
<1>1. PICK r : /\ Outcome(r) /\ Kept = r.queue /\ Removed = ToSet(mq) \ ToSet(Kept)
               /\ \/ Quiet(r) \/ FirstLeft(r) \/ \E first : SecondLeft(first, r)
  BY EmergencyCases DEF Emergency
<1>2. ~Quiet(r)
  BY <1>1, QuietRemoves
<1>3. ~FirstLeft(r)
  BY <1>1 DEF FirstLeft, Cleaned
<1>4. PICK first : SecondLeft(first, r)
  BY <1>1, <1>2, <1>3
<1>5. first.size > max_size /\ algo.max = max_size /\ max_size \in Nat
  BY <1>4, AlgoMax DEF SecondLeft, IsEmergency, LimitsFresh
<1>6. first.size = Bytes(first.queue) /\ first.size \in Nat
  BY <1>4, BytesType DEF SecondLeft, Cleaned
<1>7. \A y \in ToSet(first.queue) : ~Removable(algo, y)
  BY <1>4, <1>5, <1>6 DEF SecondLeft, Cleaned
<1> QED BY <1>1, <1>4, <1>7 DEF SecondLeft, Cleaned

\* The algorithm throws nothing away that it should spare; the fallback, which
\* may, comes only when nothing else is left.
THEOREM PriorityAlwaysProtected == Spec => PriorityProtected
<1>1. QueueInv /\ [Next]_vars =>
        [LimitsFresh /\ Emergency /\ (\E m \in Removed : ~Removable(algo, m))
           => \A m \in ToSet(Kept) : ~Removable(algo, m)]_vars
  BY PriorityStep
<1> QED BY <1>1, QueueAlways, PTL DEF Spec, PriorityProtected

LEMMA StopsStep ==
  ASSUME QueueInv, [Next]_vars, LimitsFresh, Emergency
  PROVE  \E m \in Removed : Bytes(Kept) + m.len >= max_size
<1>1. PICK r : /\ Outcome(r) /\ Kept = r.queue /\ Removed = ToSet(mq) \ ToSet(Kept)
               /\ \/ Quiet(r) \/ FirstLeft(r) \/ \E first : SecondLeft(first, r)
  BY EmergencyCases DEF Emergency
<1>2. ~Quiet(r) /\ Removed # {}
  BY <1>1, QuietRemoves DEF Emergency
<1>3. r.size = Bytes(Kept) /\ r.size \in Nat
  BY <1>1, BytesType DEF Outcome
<1>4. CASE FirstLeft(r)
  BY <1>1, <1>2, <1>3, <1>4 DEF FirstLeft, Cleaned, LimitsFresh
<1>5. ASSUME NEW first, SecondLeft(first, r)
      PROVE  \E m \in Removed : Bytes(Kept) + m.len >= max_size
  <2>1. first.size > max_size /\ fallback.max = max_size /\ max_size \in Nat
    BY <1>5, AlgoMax DEF SecondLeft, IsEmergency, LimitsFresh
  <2>2. ToSet(r.queue) \subseteq ToSet(first.queue) /\ ToSet(first.queue) \subseteq ToSet(mq)
        /\ first.size = Bytes(first.queue)
    BY <1>5 DEF SecondLeft, Cleaned
  <2>3. CASE r.size = Bytes(first.queue)
    <3>1. PICK m \in Removed : TRUE
      BY <1>2
    <3>2. m.len \in Nat
      <4>1. m \in ToSet(mq) /\ mq \in Seq(Message)
        BY <3>1, <1>1, AlgoMax
      <4>2. m \in Message
        BY <4>1 DEF ToSet
      <4> QED BY <4>2 DEF Message
    <3> QED BY <3>1, <3>2, <2>1, <2>2, <2>3, <1>3
  <2>4. CASE \E m \in ToSet(first.queue) \ ToSet(r.queue) : r.size + m.len >= fallback.max
    BY <2>1, <2>2, <2>4, <1>1, <1>3
  <2> QED BY <2>3, <2>4, <1>5 DEF SecondLeft, Cleaned
<1> QED BY <1>1, <1>2, <1>4, <1>5

\* Nothing is thrown away without need: with one of the removed messages back,
\* the queue would still be at its limit.
THEOREM AlwaysStopsAtLimit == Spec => StopsAtLimit
<1>1. QueueInv /\ [Next]_vars =>
        [LimitsFresh /\ Emergency
           => \E m \in Removed : Bytes(Kept) + m.len >= max_size]_vars
  BY StopsStep
<1> QED BY <1>1, QueueAlways, PTL DEF Spec, StopsAtLimit

LEMMA HastyStep ==
  ASSUME QueueInv, [Next]_vars, Emergency
  PROVE  over >= trigger
<1>1. PICK r : /\ Outcome(r) /\ Kept = r.queue /\ Removed = ToSet(mq) \ ToSet(Kept)
               /\ \/ Quiet(r) \/ FirstLeft(r) \/ \E first : SecondLeft(first, r)
  BY EmergencyCases DEF Emergency
<1>2. ~Quiet(r)
  BY <1>1, QuietRemoves DEF Emergency
<1>3. mq_size > max_size /\ Since(mq_size, timer) >= trigger
  BY <1>1, <1>2 DEF FirstLeft, SecondLeft, IsEmergency
<1>4. CASE timer = Unset
  <2>1. Since(mq_size, timer) = 0
    BY <1>3, <1>4, AlgoMax DEF Since
  <2> QED BY <2>1, <1>3, AlgoMax
<1>5. CASE timer # Unset
  <2>1. Since(mq_size, timer) = timer /\ over >= timer
    BY <1>3, <1>5, AlgoMax DEF Since, QueueInv, TimerTrue
  <2> QED BY <2>1, <1>3, <1>5, AlgoMax
<1> QED BY <1>4, <1>5

\* Nothing is thrown away before the queue has been above its limit for the
\* whole timeout, however it shrank and grew before.
THEOREM NeverHasty == Spec => NoHastyRemoval
<1>1. QueueInv /\ [Next]_vars => [Emergency => over >= trigger]_vars
  BY HastyStep
<1> QED BY <1>1, QueueAlways, PTL DEF Spec, NoHastyRemoval

\* What the modules with a queue of this kind rely on: a push leaves a part of
\* the queue in its order, and the whole queue unless it was above its limit.
OnlyThinned ==
  [][pushed' > pushed =>
       Kept \in Thinned(mq) /\ (Kept # mq => mq_size > max_size)]_vars

LEMMA ThinnedStep ==
  ASSUME QueueInv, [Next]_vars, pushed' > pushed
  PROVE  Kept \in Thinned(mq) /\ (Kept # mq => mq_size > max_size)
<1>1. PICK r : Outcome(r) /\ Kept = r.queue
  BY EmergencyCases
<1>2. Kept \in Thinned(mq)
  BY <1>1, AlgoMax, ChosenThinned DEF Outcome
<1>3. Kept # mq => mq_size > max_size
  BY <1>1 DEF Outcome, IsEmergency
<1> QED BY <1>2, <1>3

\* The queue of the library, of fplogd and of fpcollect, where only the order
\* of the messages matters, is this queue with the lengths left out.
THEOREM PushOnlyThins == Spec => OnlyThinned
<1>1. QueueInv /\ [Next]_vars =>
        [pushed' > pushed =>
           Kept \in Thinned(mq) /\ (Kept # mq => mq_size > max_size)]_vars
  BY ThinnedStep
<1> QED BY <1>1, QueueAlways, PTL DEF Spec, OnlyThinned
=============================================================================
