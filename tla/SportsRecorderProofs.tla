------------------------ MODULE SportsRecorderProofs ------------------------
(***************************************************************************)
(* What the recorder promises, for every catalog, number of workers and      *)
(* size of the queue: a resolved token is never recorded again, every token *)
(* the catalog admits has a worker, the queue's account is right, and what  *)
(* is committed replays to honest books and is all that was accepted.       *)
(***************************************************************************)
EXTENDS SportsRecorder, FiniteSetTheorems, WellFoundedInduction, TLAPS

------------------------------------------------------------------------------
(* Sums of bytes and replays, item by item *)

(* A set of numbers has a smallest one.                                    *)
LEMMA Smallest ==
  ASSUME NEW S \in SUBSET Nat, S # {}
  PROVE  \E x \in S : \A y \in S : x <= y
<1> DEFINE R == StrictSubsetOrdering(Nat)
           T == {0..x : x \in S}
<1>1. \A x, y \in Nat : y < x => <<0..y, 0..x>> \in R
  <2> TAKE x, y \in Nat
  <2> HAVE y < x
  <2>1. 0..y \in SUBSET Nat /\ 0..x \in SUBSET Nat /\ 0..y \subseteq 0..x
    OBVIOUS
  <2>2. x \in 0..x /\ x \notin 0..y
    OBVIOUS
  <2>3. 0..y # 0..x
    BY <2>2
  <2> QED BY <2>1, <2>3 DEF StrictSubsetOrdering
<1>2. T \subseteq FiniteSubsetsOf(Nat) /\ T # {}
  <2>1. \A x \in S : 0..x \in FiniteSubsetsOf(Nat)
    <3> TAKE x \in S
    <3>1. IsFiniteSet(0..x)
      BY FS_Interval
    <3>2. 0..x \in SUBSET Nat
      OBVIOUS
    <3> QED BY <3>1, <3>2 DEF FiniteSubsetsOf
  <2> QED BY <2>1
<1>3. \E t \in T : \A u \in T : ~(<<u, t>> \in R)
  <2> HIDE DEF R, T
  <2>1. IsWellFoundedOn(R, FiniteSubsetsOf(Nat))
    BY FS_StrictSubsetOrderingWellFounded DEF R
  <2> QED BY <1>2, <2>1, WFMin
<1> HIDE DEF R
<1>4. PICK x \in S : \A y \in S : ~(<<0..y, 0..x>> \in R)
  <2>1. \A x \in S : 0..x \in T
    OBVIOUS
  <2>2. PICK t \in T : \A u \in T : ~(<<u, t>> \in R)
    BY <1>3
  <2>3. PICK x \in S : t = 0..x
    BY <2>2
  <2> QED BY <2>1, <2>2, <2>3
<1>5. \A y \in S : x <= y
  <2> TAKE y \in S
  <2>1. x \in Nat /\ y \in Nat /\ ~(y < x)
    BY <1>1, <1>4
  <2> QED BY <2>1
<1> QED BY <1>5

LEMMA SizeType ==
  ASSUME NEW item \in Items PROVE Size(item) \in Nat /\ Size(item) >= 1
<1>1. item.tokens \in SUBSET Tokens
  BY DEF Items
<1>2. IsFiniteSet(item.tokens)
  BY <1>1, ShardAssumption, FS_Subset
<1> QED BY <1>2, FS_CardinalityType DEF Size

(* Sums over the items exist: a first n without one would be the successor *)
(* of an n with one.                                                       *)
LEMMA SumsExist ==
  ASSUME NEW items \in Seq(Items)
  PROVE  \E f \in [0..Len(items) -> Nat] :
           f[0] = 0 /\ \A i \in 1..Len(items) : f[i] = f[i - 1] + Size(items[i])
<1> DEFINE L == Len(items)
           Good(n) == \E f \in [0..n -> Nat] : f[0] = 0 /\ \A i \in 1..n : f[i] = f[i - 1] + Size(items[i])
           Bad == {n \in 0..L : ~Good(n)}
<1>1. Good(0)
  <2> DEFINE f == [i \in 0..0 |-> 0]
  <2>1. f \in [0..0 -> Nat] /\ f[0] = 0 /\ \A i \in 1..0 : f[i] = f[i - 1] + Size(items[i])
    OBVIOUS
  <2> HIDE DEF f
  <2> QED BY <2>1
<1>2. ASSUME NEW n \in 0..L, n # L, Good(n) PROVE Good(n + 1)
  <2>1. PICK f \in [0..n -> Nat] : f[0] = 0 /\ \A i \in 1..n : f[i] = f[i - 1] + Size(items[i])
    BY <1>2
  <2> DEFINE g == [i \in 0..(n + 1) |-> IF i = n + 1 THEN f[n] + Size(items[n + 1]) ELSE f[i]]
  <2>2. items[n + 1] \in Items
    BY <1>2
  <2>3. g \in [0..(n + 1) -> Nat]
    BY <2>1, <2>2, SizeType
  <2>4. g[0] = 0
    BY <2>1
  <2>5. ASSUME NEW i \in 1..(n + 1) PROVE g[i] = g[i - 1] + Size(items[i])
    BY <2>1, <2>5
  <2> HIDE DEF g
  <2> QED BY <2>3, <2>4, <2>5
<1>3. Bad = {}
  <2>1. SUFFICES ASSUME Bad # {} PROVE FALSE
    OBVIOUS
  <2>2. Bad \in SUBSET Nat
    OBVIOUS
  <2> HIDE DEF Good
  <2>3. PICK n \in Bad : \A m \in Bad : n <= m
    <3> HIDE DEF Bad
    <3> QED BY <2>1, <2>2, Smallest
  <2>4. n # 0 /\ n - 1 \in 0..L /\ n - 1 \notin Bad
    BY <1>1, <2>3
  <2>5. Good(n - 1)
    BY <2>4
  <2>6. Good(n - 1 + 1)
    BY <1>2, <2>4, <2>5
  <2> QED BY <2>3, <2>6
<1>4. Good(L)
  <2>1. L \in 0..L
    OBVIOUS
  <2> HIDE DEF Good
  <2> QED BY <1>3, <2>1
<1> QED BY <1>4

LEMMA SumsDefined ==
  ASSUME NEW items \in Seq(Items)
  PROVE  /\ Sums(items) \in [0..Len(items) -> Nat]
         /\ Sums(items)[0] = 0
         /\ \A i \in 1..Len(items) : Sums(items)[i] = Sums(items)[i - 1] + Size(items[i])
<1> DEFINE P(h) == h = [n \in 0..Len(items) |-> IF n = 0 THEN 0 ELSE h[n - 1] + Size(items[n])]
           s == Sums(items)
<1>1. s = CHOOSE h : P(h)
  BY DEF Sums
<1>2. \E h : P(h)
  <2>1. PICK f \in [0..Len(items) -> Nat] :
          f[0] = 0 /\ \A i \in 1..Len(items) : f[i] = f[i - 1] + Size(items[i])
    BY SumsExist
  <2>2. P(f)
    <3>1. ASSUME NEW i \in 0..Len(items)
          PROVE  f[i] = IF i = 0 THEN 0 ELSE f[i - 1] + Size(items[i])
      BY <2>1
    <3> QED BY <3>1
  <2> QED BY <2>2
<1>3. P(s)
  <2> HIDE DEF P, s
  <2> QED BY <1>1, <1>2
<1> HIDE DEF s
<1>4. s[0] = 0 /\ \A i \in 1..Len(items) : s[i] = s[i - 1] + Size(items[i])
  BY <1>3
<1>5. s \in [0..Len(items) -> Nat]
  <2> DEFINE Bad == {n \in 0..Len(items) : s[n] \notin Nat}
  <2>1. ASSUME Bad # {} PROVE FALSE
    <3>1. PICK n \in Bad : \A m \in Bad : n <= m
      <4>1. Bad \in SUBSET Nat
        OBVIOUS
      <4> HIDE DEF Bad
      <4> QED BY <2>1, <4>1, Smallest
    <3>2. n # 0 /\ n - 1 \in 0..Len(items) /\ n - 1 \notin Bad
      BY <1>4, <3>1
    <3>3. s[n - 1] \in Nat /\ items[n] \in Items
      BY <3>1, <3>2
    <3> QED BY <1>4, <3>1, <3>2, <3>3, SizeType
  <2>2. s = [n \in 0..Len(items) |-> s[n]]
    BY <1>3
  <2> QED BY <2>1, <2>2
<1> QED BY <1>4, <1>5 DEF s

(* Sums of sequences that agree up to n agree up to n.                     *)
LEMMA SumsAgree ==
  ASSUME NEW items \in Seq(Items), NEW f, NEW n \in 0..Len(items), f[0] = 0,
         \A i \in 1..n : f[i] = f[i - 1] + Size(items[i])
  PROVE  \A i \in 0..n : f[i] = Sums(items)[i]
<1> DEFINE Bad == {i \in 0..n : f[i] # Sums(items)[i]}
<1>1. ASSUME Bad # {} PROVE FALSE
  <2>1. PICK i \in Bad : \A j \in Bad : i <= j
    <3>1. Bad \in SUBSET Nat
      OBVIOUS
    <3> HIDE DEF Bad
    <3> QED BY <1>1, <3>1, Smallest
  <2>2. i # 0 /\ i \in 1..n /\ i - 1 \in 0..n /\ i - 1 \notin Bad
    BY <2>1, SumsDefined
  <2>3. f[i - 1] = Sums(items)[i - 1]
    BY <2>2
  <2>4. Sums(items)[i] = Sums(items)[i - 1] + Size(items[i])
    BY <2>2, SumsDefined
  <2> QED BY <2>1, <2>2, <2>3, <2>4
<1> QED BY <1>1

(* What a record adds to the queue's account.                              *)
LEMMA BytesAppend ==
  ASSUME NEW items \in Seq(Items), NEW item \in Items
  PROVE  Bytes(Append(items, item)) = Bytes(items) + Size(item)
<1> DEFINE more == Append(items, item)
           L == Len(items)
<1>1. more \in Seq(Items) /\ Len(more) = L + 1 /\ more[L + 1] = item
      /\ \A i \in 1..L : more[i] = items[i]
  OBVIOUS
<1> HIDE DEF more
<1>2. ASSUME NEW i \in 1..L PROVE Sums(more)[i] = Sums(more)[i - 1] + Size(items[i])
  <2>1. i \in 1..Len(more) /\ more[i] = items[i]
    BY <1>1
  <2> QED BY <1>1, <2>1, SumsDefined
<1>3. Sums(more)[0] = 0
  BY <1>1, SumsDefined
<1>4. Sums(more)[L] = Sums(items)[L]
  BY <1>2, <1>3, SumsAgree
<1>5. Sums(more)[L + 1] = Sums(more)[L] + Size(item)
  <2>1. L + 1 \in 1..Len(more) /\ L + 1 - 1 = L
    BY <1>1
  <2> QED BY <1>1, <2>1, SumsDefined
<1> QED BY <1>1, <1>4, <1>5 DEF Bytes, more

(* What a batch takes off it.                                              *)
LEMMA BytesSplit ==
  ASSUME NEW items \in Seq(Items), NEW n \in 0..Len(items)
  PROVE  Bytes(items) = Bytes(SubSeq(items, 1, n)) + Bytes(SubSeq(items, n + 1, Len(items)))
<1> DEFINE L == Len(items)
           front == SubSeq(items, 1, n)
           rest  == SubSeq(items, n + 1, L)
<1>1. front \in Seq(Items) /\ Len(front) = n /\ \A i \in 1..n : front[i] = items[i]
  OBVIOUS
<1>2. rest \in Seq(Items) /\ Len(rest) = L - n /\ \A i \in 1..(L - n) : rest[i] = items[n + i]
  OBVIOUS
<1> HIDE DEF front, rest
<1>3. Sums(items)[n] = Bytes(front)
  <2>1. \A i \in 1..n : Sums(front)[i] = Sums(front)[i - 1] + Size(items[i])
    BY <1>1, SumsDefined
  <2>2. Sums(front)[0] = 0
    BY <1>1, SumsDefined
  <2>3. Sums(front)[n] = Sums(items)[n]
    BY <2>1, <2>2, SumsAgree
  <2> QED BY <1>1, <2>3 DEF Bytes
<1>8. \A k \in 0..L : Sums(items)[k] \in Nat
  BY SumsDefined
<1> DEFINE f == [i \in 0..(L - n) |-> Sums(items)[n + i] - Sums(items)[n]]
<1>4. f[0] = 0
  BY SumsDefined
<1>5. ASSUME NEW i \in 1..(L - n) PROVE f[i] = f[i - 1] + Size(rest[i])
  <2>1. n + i \in 1..L /\ n + i - 1 \in 0..L /\ n + (i - 1) = n + i - 1 /\ n \in 0..L
    OBVIOUS
  <2>2. Sums(items)[n + i] = Sums(items)[n + i - 1] + Size(items[n + i])
    BY <2>1, SumsDefined
  <2>3. Sums(items)[n + i] \in Nat /\ Sums(items)[n + i - 1] \in Nat /\ Sums(items)[n] \in Nat
    BY <1>8, <2>1
  <2>4. items[n + i] \in Items
    BY <2>1
  <2>5. Size(items[n + i]) \in Nat
    BY <2>4, SizeType
  <2> QED BY <1>2, <2>1, <2>2, <2>3, <2>5
<1> HIDE DEF f
<1>6. f[L - n] = Sums(rest)[L - n]
  <2>1. L - n \in 0..Len(rest)
    BY <1>2
  <2>2. \A i \in 0..(L - n) : f[i] = Sums(rest)[i]
    BY <1>2, <1>4, <1>5, <2>1, SumsAgree
  <2> QED BY <2>2
<1>7. f[L - n] = Sums(items)[L] - Sums(items)[n]
  BY DEF f
<1>9. Sums(items)[L] \in Nat /\ Sums(items)[n] \in Nat
  BY <1>8
<1> QED BY <1>2, <1>3, <1>6, <1>7, <1>9 DEF Bytes, front, rest

LEMMA ReplayType ==
  ASSUME NEW replay \in Replays, NEW item \in Items
  PROVE  Replay(replay, item) \in Replays
<1> DEFINE books == CASE item.kind = "book" -> replay.books \cup item.tokens
                      [] item.kind \in ResetKinds \cup {"market_resolved"} -> replay.books \ item.tokens
                      [] OTHER -> replay.books
           healed == IF item.kind = "book" THEN item.tokens ELSE {}
           missed == IF item.seq = replay.next THEN item.missed ELSE Tokens
<1>1. replay.books \in SUBSET Tokens /\ item.tokens \in SUBSET Tokens /\ item.seq \in Nat
  BY DEF Replays, Items
<1>2. books \in SUBSET Tokens
  BY <1>1
<1>3. item.seq + 1 \in Nat /\ (item.kind = "closing") \in BOOLEAN
  BY <1>1
<1>4. Replay(replay, item) = [next |-> item.seq + 1, books |-> books,
                              behind |-> ((replay.behind \cup missed) \ healed) \cap books,
                              closed |-> item.kind = "closing"]
  BY DEF Replay
<1>5. ((replay.behind \cup missed) \ healed) \cap books \in SUBSET Tokens
  BY <1>2
<1> HIDE DEF books, healed, missed
<1> QED BY <1>2, <1>3, <1>4, <1>5 DEF Replays

(* The replays of one more record.                                         *)
Step(replays, item) == [replays EXCEPT ![item.stream] = Replay(@, item)]

LEMMA StepType ==
  ASSUME NEW replays \in [Streams -> Replays], NEW item \in Items
  PROVE  /\ Step(replays, item) \in [Streams -> Replays]
         /\ Step(replays, item)[item.stream] = Replay(replays[item.stream], item)
         /\ \A s \in Streams : s # item.stream => Step(replays, item)[s] = replays[s]
<1>1. item.stream \in Streams
  BY DEF Items
<1>2. Replay(replays[item.stream], item) \in Replays
  BY <1>1, ReplayType
<1> QED BY <1>1, <1>2 DEF Step

(* A trace: the replays while items are appended one by one.               *)
IsTrace(tr, replays, items) ==
  /\ tr \in [0..Len(items) -> [Streams -> Replays]]
  /\ tr[0] = replays
  /\ \A i \in 1..Len(items) : tr[i] = Step(tr[i - 1], items[i])

LEMMA TracesExist ==
  ASSUME NEW items \in Seq(Items), NEW replays \in [Streams -> Replays]
  PROVE  \E tr : IsTrace(tr, replays, items)
<1> DEFINE L == Len(items)
           R == [Streams -> Replays]
           Good(n) == \E f \in [0..n -> R] : f[0] = replays /\ \A i \in 1..n : f[i] = Step(f[i - 1], items[i])
           Bad == {n \in 0..L : ~Good(n)}
<1>1. Good(0)
  <2> DEFINE f == [i \in 0..0 |-> replays]
  <2>1. f \in [0..0 -> R] /\ f[0] = replays /\ \A i \in 1..0 : f[i] = Step(f[i - 1], items[i])
    OBVIOUS
  <2> HIDE DEF f
  <2> QED BY <2>1
<1>2. ASSUME NEW n \in 0..L, n # L, Good(n) PROVE Good(n + 1)
  <2>1. PICK f \in [0..n -> R] : f[0] = replays /\ \A i \in 1..n : f[i] = Step(f[i - 1], items[i])
    BY <1>2
  <2> DEFINE g == [i \in 0..(n + 1) |-> IF i = n + 1 THEN Step(f[n], items[n + 1]) ELSE f[i]]
  <2>2. items[n + 1] \in Items
    BY <1>2
  <2>3. Step(f[n], items[n + 1]) \in R
    BY <2>1, <2>2, StepType
  <2>4. g \in [0..(n + 1) -> R]
    BY <2>1, <2>3
  <2>5. g[0] = replays
    BY <2>1
  <2>6. ASSUME NEW i \in 1..(n + 1) PROVE g[i] = Step(g[i - 1], items[i])
    BY <2>1, <2>6
  <2> HIDE DEF g
  <2> QED BY <2>4, <2>5, <2>6
<1>3. Bad = {}
  <2>1. SUFFICES ASSUME Bad # {} PROVE FALSE
    OBVIOUS
  <2>2. Bad \in SUBSET Nat
    OBVIOUS
  <2> HIDE DEF Good
  <2>3. PICK n \in Bad : \A m \in Bad : n <= m
    <3> HIDE DEF Bad
    <3> QED BY <2>1, <2>2, Smallest
  <2>4. n # 0 /\ n - 1 \in 0..L /\ n - 1 \notin Bad
    BY <1>1, <2>3
  <2>5. Good(n - 1)
    BY <2>4
  <2>6. Good(n - 1 + 1)
    BY <1>2, <2>4, <2>5
  <2> QED BY <2>3, <2>6
<1>4. Good(L)
  <2>1. L \in 0..L
    OBVIOUS
  <2> HIDE DEF Good
  <2> QED BY <1>3, <2>1
<1> QED BY <1>4 DEF IsTrace

(* The model's replays are a trace, and the only one.                      *)
LEMMA ReplayedIsTrace ==
  ASSUME NEW items \in Seq(Items), NEW replays \in [Streams -> Replays]
  PROVE  IsTrace(Replayed(replays, items), replays, items)
<1> DEFINE P(h) == h = [n \in 0..Len(items) |->
                          IF n = 0 THEN replays ELSE Step(h[n - 1], items[n])]
           s == Replayed(replays, items)
           R == [Streams -> Replays]
<1>1. s = CHOOSE h : P(h)
  BY DEF Replayed, Step
<1>2. \E h : P(h)
  <2>1. PICK f : IsTrace(f, replays, items)
    BY TracesExist
  <2>2. P(f)
    <3>1. ASSUME NEW i \in 0..Len(items)
          PROVE  f[i] = IF i = 0 THEN replays ELSE Step(f[i - 1], items[i])
      BY <2>1 DEF IsTrace
    <3> QED BY <2>1, <3>1 DEF IsTrace
  <2> QED BY <2>2
<1>3. P(s)
  <2> HIDE DEF P, s
  <2> QED BY <1>1, <1>2
<1> HIDE DEF s
<1>4. s[0] = replays /\ \A i \in 1..Len(items) : s[i] = Step(s[i - 1], items[i])
  BY <1>3
<1>5. s \in [0..Len(items) -> R]
  <2> DEFINE Bad == {n \in 0..Len(items) : s[n] \notin R}
  <2>1. ASSUME Bad # {} PROVE FALSE
    <3>1. PICK n \in Bad : \A m \in Bad : n <= m
      <4>1. Bad \in SUBSET Nat
        OBVIOUS
      <4> HIDE DEF Bad
      <4> QED BY <2>1, <4>1, Smallest
    <3>2. n # 0 /\ n - 1 \in 0..Len(items) /\ n - 1 \notin Bad
      BY <1>4, <3>1
    <3>3. s[n - 1] \in R /\ items[n] \in Items
      BY <3>1, <3>2
    <3>4. Step(s[n - 1], items[n]) \in R
      BY <3>3, StepType
    <3> QED BY <1>4, <3>1, <3>2, <3>4
  <2>2. s = [n \in 0..Len(items) |-> s[n]]
    BY <1>3
  <2> QED BY <2>1, <2>2
<1> QED BY <1>4, <1>5 DEF s, IsTrace

LEMMA TracesAgree ==
  ASSUME NEW items \in Seq(Items), NEW n \in 0..Len(items), NEW replays, NEW f, NEW tr,
         IsTrace(f, replays, SubSeq(items, 1, n)), IsTrace(tr, replays, items)
  PROVE  \A i \in 0..n : f[i] = tr[i]
<1> DEFINE Bad == {i \in 0..n : f[i] # tr[i]}
<1>1. ASSUME Bad # {} PROVE FALSE
  <2>1. PICK i \in Bad : \A j \in Bad : i <= j
    <3>1. Bad \in SUBSET Nat
      OBVIOUS
    <3> HIDE DEF Bad
    <3> QED BY <1>1, <3>1, Smallest
  <2>2. i # 0 /\ i \in 1..n /\ i - 1 \in 0..n /\ i - 1 \notin Bad
    BY <2>1 DEF IsTrace
  <2>3. f[i - 1] = tr[i - 1]
    BY <2>2
  <2>4. i \in 1..Len(items) /\ Len(SubSeq(items, 1, n)) = n /\ SubSeq(items, 1, n)[i] = items[i]
    BY <2>2
  <2>5. f[i] = Step(f[i - 1], items[i]) /\ tr[i] = Step(tr[i - 1], items[i])
    BY <2>2, <2>4 DEF IsTrace
  <2> QED BY <2>1, <2>3, <2>5
<1> QED BY <1>1

(* Whatever is appended, the first n items of a sequence lead where its    *)
(* trace is at n.                                                          *)
LEMMA ReplayedFront ==
  ASSUME NEW items \in Seq(Items), NEW n \in 0..Len(items), NEW tr, NEW replays \in [Streams -> Replays],
         IsTrace(tr, replays, items)
  PROVE  \A k \in 0..n : Replayed(replays, SubSeq(items, 1, n))[k] = tr[k]
<1>1. SubSeq(items, 1, n) \in Seq(Items)
  OBVIOUS
<1>2. IsTrace(Replayed(replays, SubSeq(items, 1, n)), replays, SubSeq(items, 1, n))
  BY <1>1, ReplayedIsTrace
<1> QED BY <1>2, TracesAgree

(* What is left of a trace when a batch has been taken.                    *)
LEMMA TraceRest ==
  ASSUME NEW items \in Seq(Items), NEW n \in 0..Len(items), NEW tr, NEW replays,
         IsTrace(tr, replays, items)
  PROVE  IsTrace([i \in 0..(Len(items) - n) |-> tr[n + i]], tr[n], SubSeq(items, n + 1, Len(items)))
<1> DEFINE rest == SubSeq(items, n + 1, Len(items))
           f == [i \in 0..(Len(items) - n) |-> tr[n + i]]
<1>1. Len(rest) = Len(items) - n /\ \A i \in 1..(Len(items) - n) : rest[i] = items[n + i]
  OBVIOUS
<1>2. tr \in [0..Len(items) -> [Streams -> Replays]]
  BY DEF IsTrace
<1>3. f \in [0..(Len(items) - n) -> [Streams -> Replays]] /\ f[0] = tr[n]
  BY <1>2
<1>4. ASSUME NEW i \in 1..(Len(items) - n) PROVE f[i] = Step(f[i - 1], rest[i])
  <2>1. n + i \in 1..Len(items) /\ n + (i - 1) = n + i - 1
    OBVIOUS
  <2>2. tr[n + i] = Step(tr[n + i - 1], items[n + i])
    BY <2>1 DEF IsTrace
  <2>3. f[i] = tr[n + i] /\ f[i - 1] = tr[n + i - 1]
    BY <2>1
  <2> QED BY <1>1, <2>2, <2>3
<1> HIDE DEF f, rest
<1>5. IsTrace(f, tr[n], rest)
  BY <1>1, <1>3, <1>4 DEF IsTrace
<1> QED BY <1>5 DEF f, rest

(* A trace with one more record.                                           *)
LEMMA TraceAppend ==
  ASSUME NEW items \in Seq(Items), NEW item \in Items, NEW tr, NEW replays,
         IsTrace(tr, replays, items)
  PROVE  IsTrace([i \in 0..(Len(items) + 1) |-> IF i \in 0..Len(items) THEN tr[i]
                                                ELSE Step(tr[Len(items)], item)],
                 replays, Append(items, item))
<1> DEFINE L == Len(items)
           more == Append(items, item)
           f == [i \in 0..(L + 1) |-> IF i \in 0..L THEN tr[i] ELSE Step(tr[L], item)]
<1>1. Len(more) = L + 1 /\ more[L + 1] = item /\ \A i \in 1..L : more[i] = items[i]
  OBVIOUS
<1>2. tr \in [0..L -> [Streams -> Replays]] /\ tr[0] = replays
  BY DEF IsTrace
<1>3. Step(tr[L], item) \in [Streams -> Replays]
  BY <1>2, StepType
<1>4. f \in [0..(L + 1) -> [Streams -> Replays]] /\ f[0] = replays
  BY <1>2, <1>3
<1>5. ASSUME NEW i \in 1..(L + 1) PROVE f[i] = Step(f[i - 1], more[i])
  <2>1. CASE i = L + 1
    BY <1>1, <2>1
  <2>2. CASE i # L + 1
    <3>1. i \in 1..L /\ i - 1 \in 0..L
      BY <2>2
    <3>2. tr[i] = Step(tr[i - 1], items[i])
      BY <3>1 DEF IsTrace
    <3> QED BY <1>1, <3>1, <3>2
  <2> QED BY <2>1, <2>2
<1> HIDE DEF f, more
<1>6. IsTrace(f, replays, more)
  BY <1>1, <1>4, <1>5 DEF IsTrace
<1> QED BY <1>6 DEF f, more

------------------------------------------------------------------------------
(* Types, and the workers that follow the tokens *)

(* What a worker may hold back from the queue: a record of its stream, of   *)
(* which whatever is missed is about tokens without a book.                *)
Due(w, worker, item) ==
  /\ item \in Items
  /\ item.stream = <<w, worker.attempt>> /\ item.seq = worker.seq /\ item.missed = worker.missed
  /\ \/ item.kind \in {"session_start", "closing"} /\ item.tokens = worker.subscribed
     \/ item.kind = "subscription" /\ item.tokens = {} /\ item.missed = {}
     \/ item.kind = "subscription_removed" /\ item.tokens \subseteq worker.subscribed /\ item.missed = {}
     \/ item.kind \in MessageKinds /\ item.tokens \subseteq worker.subscribed /\ item.missed = {}
     \/ item.kind \in MessageKinds /\ item.tokens = {} /\ item.missed \subseteq worker.retired
     \/ item.kind = "lost" /\ item.tokens = worker.subscribed

(* A worker has unsubscribed what it retired, connects no more often than   *)
(* the bound, and misses nothing between two messages.                     *)
WorkerShape(w, worker) ==
  /\ worker.subscribed \subseteq worker.tokens /\ worker.tokens \cap worker.retired = {}
  /\ worker.pc \notin {"unborn", "asleep", "done"} => worker.attempt < MaxAttempts
  /\ worker.pc \in {"unborn", "asleep"} => worker.seq = 0
  /\ worker.pc \in {"unborn", "asleep", "connecting", "open", "gathering"} => worker.missed = {}
  /\ worker.pc = "unborn" => worker = Unborn
  /\ IF worker.pc = "blocked" THEN Due(w, worker, worker.item) ELSE worker.item = NoItem

Shape == \A w \in Workers : WorkerShape(w, workers[w])

(* Workers are launched in the order of their numbers.                     *)
Births == \E b \in 0..MaxWorkers : \A w \in Workers : workers[w].pc = "unborn" <=> w > b

(* The tokens a worker is not about to give up.                            *)
Held(worker) ==
  IF worker.pc = "blocked" /\ worker.item.kind = "subscription_removed"
  THEN worker.tokens \ worker.item.tokens
  ELSE worker.tokens

Followed == Running => \A t \in active : \E w \in Live : t \in Held(workers[w])

InvT == TypeOK /\ Shape /\ Births /\ Followed

LEMMA Bounds ==
  /\ MaxWorkers \in Nat /\ MaxWorkers > 0 /\ MaxAttempts \in Nat /\ MaxAttempts > 0
  /\ QueueMessages \in Nat /\ BatchSize \in Nat /\ BatchSize > 0 /\ MaxEvents \in Nat
  /\ ShardSize \in Nat /\ ShardSize > 0 /\ IsFiniteSet(Tokens)
  BY BoundsAssumption, ShardAssumption

LEMMA NoItemIsNone == NoItem \notin Items /\ NoItem.kind = "none" /\ NoItem.tokens = {}
  BY DEF NoItem, Items, Kinds, MessageKinds, ResetKinds

LEMMA EndedShape ==
  ASSUME NEW w PROVE Ended \in WorkerStates /\ WorkerShape(w, Ended) /\ Ended.pc = "done"
<1>1. Ended = [pc |-> "done", tokens |-> {}, subscribed |-> {}, retired |-> {}, attempt |-> 0, seq |-> 0,
               item |-> NoItem, missed |-> {}]
  BY DEF Ended, Unborn
<1>2. 0 \in 0..MaxAttempts
  BY Bounds
<1>3. Ended \in WorkerStates
  BY <1>1, <1>2 DEF WorkerStates
<1> QED BY <1>1, <1>3 DEF WorkerShape

LEMMA UnbornShape ==
  ASSUME NEW w PROVE Unborn \in WorkerStates /\ WorkerShape(w, Unborn) /\ Unborn.pc = "unborn"
<1>1. 0 \in 0..MaxAttempts
  BY Bounds
<1>2. Unborn \in WorkerStates
  BY <1>1 DEF Unborn, WorkerStates
<1> QED BY <1>2 DEF WorkerShape, Unborn

Newborn(g) == [Unborn EXCEPT !.pc = "asleep", !.tokens = g]

LEMMA NewbornShape ==
  ASSUME NEW w, NEW g \in SUBSET Tokens
  PROVE  /\ Newborn(g) \in WorkerStates /\ WorkerShape(w, Newborn(g))
         /\ Newborn(g).pc = "asleep" /\ Newborn(g).tokens = g /\ Newborn(g).attempt = 0
<1> DEFINE worker == Newborn(g)
<1>1. Unborn \in WorkerStates
  BY UnbornShape
<1>2. /\ Unborn.subscribed = {} /\ Unborn.retired = {} /\ Unborn.seq = 0 /\ Unborn.item = NoItem
      /\ Unborn.missed = {} /\ Unborn.attempt = 0
  BY DEF Unborn
<1>3. worker \in WorkerStates /\ worker.pc = "asleep" /\ worker.tokens = g
  BY <1>1 DEF WorkerStates, Newborn
<1>4. /\ worker.subscribed = {} /\ worker.retired = {} /\ worker.seq = 0 /\ worker.item = NoItem
      /\ worker.missed = {} /\ worker.attempt = 0
  BY <1>1, <1>2 DEF WorkerStates, Newborn
<1> HIDE DEF worker
<1>5. WorkerShape(w, worker)
  BY <1>3, <1>4 DEF WorkerShape
<1> QED BY <1>3, <1>4, <1>5 DEF worker

(* Of a record still to be put on the queue, the tokens it gives up.       *)
GivenUp(item) == IF item.kind = "subscription_removed" THEN item.tokens ELSE {}

(* A worker that has a record to put on the queue.                         *)
Bearer(w, worker) ==
  /\ worker \in WorkerStates /\ worker.attempt < MaxAttempts
  /\ worker.subscribed \subseteq worker.tokens /\ worker.tokens \cap worker.retired = {}

(* A step in which a worker, with what it has just received, offers a record. *)
Offers(w, worker, item) ==
  /\ workers[w].pc \notin {"unborn", "blocked", "done"}
  /\ Bearer(w, worker) /\ Due(w, worker, item)
  /\ worker.tokens = workers[w].tokens /\ worker.attempt = workers[w].attempt
  /\ worker.seq = workers[w].seq
  /\ workers[w].pc # "asleep" => worker.subscribed = workers[w].subscribed
  /\ GivenUp(item) \cap active = {}
  /\ Offer(w, worker, item) /\ UNCHANGED <<main, evidence>> /\ events' \in 0..MaxEvents

(* A step in which a worker finds that none of its tokens is active.       *)
Leaves(w) ==
  /\ workers[w].pc = "asleep" /\ workers[w].tokens \cap active = {}
  /\ workers' = [workers EXCEPT ![w] = Ended]
  /\ UNCHANGED <<control, channel, main, evidence, accepted>> /\ events' \in 0..MaxEvents

LEMMA AfterPutShape ==
  ASSUME NEW w \in Workers, NEW worker, NEW item, Bearer(w, worker), Due(w, worker, item)
  PROVE  /\ AfterPut(worker, item) \in WorkerStates
         /\ WorkerShape(w, AfterPut(worker, item))
         /\ AfterPut(worker, item).pc \notin {"blocked", "unborn"}
<1> DEFINE next == [worker EXCEPT !.seq = @ + 1, !.item = NoItem, !.missed = {}]
           after == AfterPut(worker, item)
<1>1. /\ worker \in WorkerStates /\ worker.attempt \in Nat /\ worker.attempt < MaxAttempts
      /\ worker.subscribed \subseteq worker.tokens /\ worker.tokens \cap worker.retired = {}
  BY Bounds DEF Bearer, WorkerStates
<1>2. item \in Items /\ item.kind \in Kinds /\ item.tokens \in SUBSET Tokens
  BY DEF Due, Items
<1>3. next \in WorkerStates /\ next.seq \in Nat /\ next.item = NoItem /\ next.missed = {}
      /\ next.attempt = worker.attempt /\ next.subscribed = worker.subscribed
      /\ next.tokens = worker.tokens /\ next.retired = worker.retired
  <2>1. worker.seq + 1 \in Nat /\ NoItem \in Items \cup {NoItem} /\ {} \in SUBSET Tokens
    BY <1>1 DEF WorkerStates
  <2>2. next \in WorkerStates
    BY <1>1, <2>1 DEF WorkerStates
  <2> QED BY <1>1, <2>1, <2>2 DEF WorkerStates
<1> HIDE DEF next
<1>4. CASE item.kind = "session_start"
  <2>1. after = [next EXCEPT !.pc = "connecting"]
    BY <1>4 DEF AfterPut, next, MessageKinds
  <2> HIDE DEF after
  <2>2. after \in WorkerStates /\ after.pc = "connecting"
    BY <1>3, <2>1 DEF WorkerStates
  <2>3. WorkerShape(w, after)
    BY <1>1, <1>3, <2>1 DEF WorkerShape, WorkerStates
  <2> QED BY <2>2, <2>3 DEF after
<1>5. CASE item.kind \in MessageKinds \cup {"subscription"}
  <2>1. after = [next EXCEPT !.pc = "open"]
    BY <1>5 DEF AfterPut, next, MessageKinds
  <2> HIDE DEF after
  <2>2. after \in WorkerStates /\ after.pc = "open"
    BY <1>3, <2>1 DEF WorkerStates
  <2>3. WorkerShape(w, after)
    BY <1>1, <1>3, <2>1 DEF WorkerShape, WorkerStates
  <2> QED BY <2>2, <2>3 DEF after
<1>6. CASE item.kind = "subscription_removed"
  <2>1. after = [next EXCEPT !.pc = "open", !.subscribed = @ \ item.tokens, !.tokens = @ \ item.tokens,
                             !.retired = @ \cup item.tokens]
    BY <1>6 DEF AfterPut, next, MessageKinds
  <2> HIDE DEF after
  <2>2. after \in WorkerStates /\ after.pc = "open"
    BY <1>2, <1>3, <2>1 DEF WorkerStates
  <2>3. WorkerShape(w, after)
    BY <1>1, <1>3, <2>1 DEF WorkerShape, WorkerStates
  <2> QED BY <2>2, <2>3 DEF after
<1>7. CASE item.kind = "lost"
  <2>1. after = [next EXCEPT !.pc = "closing"]
    BY <1>7 DEF AfterPut, next, MessageKinds
  <2> HIDE DEF after
  <2>2. after \in WorkerStates /\ after.pc = "closing"
    BY <1>3, <2>1 DEF WorkerStates
  <2>3. WorkerShape(w, after)
    BY <1>1, <1>3, <2>1 DEF WorkerShape, WorkerStates
  <2> QED BY <2>2, <2>3 DEF after
<1>8. CASE item.kind = "closing"
  <2>1. after = IF ~Running \/ worker.tokens \cap active = {} THEN Ended
                ELSE [next EXCEPT !.pc = "asleep", !.attempt = @ + 1, !.seq = 0, !.subscribed = {}]
    BY <1>8 DEF AfterPut, next, MessageKinds
  <2> HIDE DEF after
  <2>2. CASE after = Ended
    BY <2>2, EndedShape DEF after
  <2>3. CASE after # Ended
    <3>1. after = [next EXCEPT !.pc = "asleep", !.attempt = @ + 1, !.seq = 0, !.subscribed = {}]
      BY <2>1, <2>3
    <3>2. next.attempt + 1 \in 0..MaxAttempts
      BY <1>1, <1>3, Bounds
    <3>3. after \in WorkerStates /\ after.pc = "asleep"
      BY <1>3, <3>1, <3>2 DEF WorkerStates
    <3>4. WorkerShape(w, after)
      BY <1>1, <1>3, <3>1 DEF WorkerShape, WorkerStates
    <3> QED BY <3>3, <3>4 DEF after
  <2> QED BY <2>2, <2>3
<1> QED BY <1>2, <1>4, <1>5, <1>6, <1>7, <1>8 DEF Kinds, ResetKinds

(* A worker goes on with every token that is active and that it does not    *)
(* give up by its record.                                                  *)
LEMMA AfterPutHolds ==
  ASSUME NEW w \in Workers, NEW worker, NEW item, Bearer(w, worker), Due(w, worker, item), Running,
         NEW t \in active, t \in worker.tokens \ GivenUp(item)
  PROVE  AfterPut(worker, item).pc # "done" /\ t \in AfterPut(worker, item).tokens
<1>1. worker \in WorkerStates /\ item.kind \in Kinds
  BY DEF Bearer, Due, Items
<1>2. worker.tokens \cap active # {}
  OBVIOUS
<1> QED BY <1>1, <1>2 DEF AfterPut, WorkerStates, Kinds, ResetKinds, MessageKinds, GivenUp

(* What a record on the queue changes.                                     *)
LEMMA EnqueueKeepsChannel ==
  ASSUME TypeOK, NEW w \in Workers, NEW worker, NEW item, item \in Items, Fits(item),
         Enqueue(w, worker, item)
  PROVE  /\ queue' \in Seq(Items) /\ Len(queue') <= QueueMessages
         /\ pressure' = Bytes(queue') /\ pressure' <= QueueBytes
         /\ accepted' \in [Streams -> Nat]
         /\ active' \subseteq active /\ active' \subseteq Tokens /\ resolved' \subseteq Tokens
         /\ workers' = [workers EXCEPT ![w] = AfterPut(worker, item)]
<1>1. queue \in Seq(Items) /\ pressure = Bytes(queue) /\ accepted \in [Streams -> Nat]
      /\ active \subseteq Tokens /\ resolved \subseteq Tokens
  BY DEF TypeOK
<1>2. item.stream \in Streams /\ item.tokens \in SUBSET Tokens
  BY DEF Items
<1>3. Size(item) \in Nat
  BY SizeType
<1>4. queue' = Append(queue, item) /\ pressure' = pressure + Size(item)
  BY DEF Enqueue
<1>5. queue' \in Seq(Items) /\ Len(queue') = Len(queue) + 1
  BY <1>1, <1>4
<1>6. Len(queue) < QueueMessages /\ pressure + Size(item) <= QueueBytes
  BY DEF Fits
<1>7. Len(queue') <= QueueMessages /\ pressure' <= QueueBytes
  BY <1>1, <1>4, <1>5, <1>6, Bounds
<1>8. pressure' = Bytes(queue')
  BY <1>1, <1>4, BytesAppend
<1>9. accepted' \in [Streams -> Nat]
  BY <1>1, <1>2 DEF Enqueue
<1>10. active' \subseteq active /\ active' \subseteq Tokens /\ resolved' \subseteq Tokens
  BY <1>1, <1>2 DEF Enqueue
<1> QED BY <1>5, <1>7, <1>8, <1>9, <1>10 DEF Enqueue

(* A step of one worker that keeps hold of every token which stays active. *)
LEMMA MoveKeepsShape ==
  ASSUME TypeOK, Shape, Births, Followed, NEW w \in Workers, NEW new,
         workers' = [workers EXCEPT ![w] = new],
         new \in WorkerStates, WorkerShape(w, new), new.pc # "unborn", workers[w].pc # "unborn",
         active' \subseteq active, phase' = phase,
         Running => \A t \in active' : t \in Held(workers[w]) => new.pc # "done" /\ t \in Held(new)
  PROVE  workers' \in [Workers -> WorkerStates] /\ Shape' /\ Births' /\ Followed'
<1>1. workers \in [Workers -> WorkerStates]
  BY DEF TypeOK
<1>2. workers' \in [Workers -> WorkerStates] /\ workers'[w] = new
      /\ \A v \in Workers : v # w => workers'[v] = workers[v]
  BY <1>1
<1>3. Shape'
  <2>1. ASSUME NEW v \in Workers PROVE WorkerShape(v, workers'[v])
    BY <1>2 DEF Shape
  <2> QED BY <2>1 DEF Shape
<1>4. Births'
  BY <1>2 DEF Births
<1>5. Followed'
  <2> SUFFICES ASSUME Running, NEW t \in active' PROVE \E v \in Live' : t \in Held(workers'[v])
    BY DEF Followed, Running
  <2>1. PICK v \in Live : t \in Held(workers[v])
    BY DEF Followed
  <2>2. v \in Workers /\ workers[v].pc \notin {"unborn", "done"}
    BY <2>1 DEF Live
  <2>3. workers'[v].pc \notin {"unborn", "done"} /\ t \in Held(workers'[v])
    BY <1>2, <2>1, <2>2
  <2> QED BY <2>2, <2>3 DEF Live
<1> QED BY <1>2, <1>3, <1>4, <1>5

Waits ==
  /\ admission \in Seq(Workers) /\ IsInjective(admission)
  /\ \A w \in Workers : workers[w].pc = "blocked" <=> \E i \in DOMAIN admission : admission[i] = w

LEMMA WaitsJoin ==
  ASSUME Waits, NEW w \in Workers, workers[w].pc # "blocked", admission' = Append(admission, w),
         \A v \in Workers : workers'[v].pc = "blocked" <=> v = w \/ workers[v].pc = "blocked"
  PROVE  Waits'
<1> DEFINE L == Len(admission)
<1>1. admission \in Seq(Workers) /\ IsInjective(admission)
  BY DEF Waits
<1>2. admission' \in Seq(Workers) /\ Len(admission') = L + 1 /\ admission'[L + 1] = w
      /\ (\A i \in 1..L : admission'[i] = admission[i]) /\ DOMAIN admission' = 1..(L + 1)
      /\ DOMAIN admission = 1..L
  BY <1>1
<1>3. \A i \in 1..L : admission[i] # w
  BY <1>2 DEF Waits
<1>4. IsInjective(admission')
  BY <1>1, <1>2, <1>3 DEF IsInjective
<1>5. ASSUME NEW v \in Workers
      PROVE  workers'[v].pc = "blocked" <=> \E i \in DOMAIN admission' : admission'[i] = v
  <2>1. (\E i \in DOMAIN admission' : admission'[i] = v) <=> v = w \/ \E i \in DOMAIN admission : admission[i] = v
    BY <1>1, <1>2
  <2> QED BY <2>1 DEF Waits
<1> QED BY <1>2, <1>4, <1>5 DEF Waits

LEMMA WaitsLeave ==
  ASSUME Waits, admission # << >>, admission' = Tail(admission),
         \A v \in Workers : workers'[v].pc = "blocked" <=> v # Head(admission) /\ workers[v].pc = "blocked"
  PROVE  Waits'
<1> DEFINE L == Len(admission)
<1>1. admission \in Seq(Workers) /\ IsInjective(admission) /\ DOMAIN admission = 1..L /\ L \in Nat \ {0}
      /\ Head(admission) = admission[1]
  BY DEF Waits
<1>2. admission' \in Seq(Workers) /\ Len(admission') = L - 1 /\ DOMAIN admission' = 1..(L - 1)
      /\ \A i \in 1..(L - 1) : admission'[i] = admission[i + 1]
  BY <1>1
<1>3. ASSUME NEW i \in 1..(L - 1), NEW j \in 1..(L - 1), admission'[i] = admission'[j] PROVE i = j
  <2>1. i + 1 \in DOMAIN admission /\ j + 1 \in DOMAIN admission /\ admission[i + 1] = admission[j + 1]
    BY <1>1, <1>2, <1>3
  <2>2. i + 1 = j + 1
    BY <1>1, <2>1 DEF IsInjective
  <2> QED BY <2>2
<1>4. IsInjective(admission')
  BY <1>2, <1>3 DEF IsInjective
<1>5. ASSUME NEW v \in Workers
      PROVE  workers'[v].pc = "blocked" <=> \E i \in DOMAIN admission' : admission'[i] = v
  <2>1. ASSUME NEW i \in DOMAIN admission' PROVE admission'[i] = admission[i + 1] /\ i + 1 \in DOMAIN admission
        /\ admission[i + 1] # admission[1]
    BY <1>1, <1>2, <2>1 DEF IsInjective
  <2>2. ASSUME NEW i \in DOMAIN admission, admission[i] # admission[1]
        PROVE  i - 1 \in DOMAIN admission' /\ admission'[i - 1] = admission[i]
    BY <1>1, <1>2, <2>2
  <2>3. (\E i \in DOMAIN admission' : admission'[i] = v)
        <=> v # admission[1] /\ \E i \in DOMAIN admission : admission[i] = v
    <3>1. ASSUME NEW i \in DOMAIN admission', admission'[i] = v
          PROVE  v # admission[1] /\ \E j \in DOMAIN admission : admission[j] = v
      BY <2>1, <3>1
    <3>2. ASSUME NEW i \in DOMAIN admission, admission[i] = v, v # admission[1]
          PROVE  \E j \in DOMAIN admission' : admission'[j] = v
      BY <2>2, <3>2
    <3> QED BY <3>1, <3>2
  <2> QED BY <1>1, <2>3 DEF Waits
<1> QED BY <1>2, <1>4, <1>5 DEF Waits

LEMMA TypeIsWaits == TypeOK => Waits
  BY DEF TypeOK, Waits

(* A worker that offers a record, at once or behind the others, keeps its   *)
(* shape and the tokens it does not give up.                               *)
LEMMA OfferKeepsType ==
  ASSUME InvT, NEW w \in Workers, NEW worker, NEW item, Offers(w, worker, item)
  PROVE  InvT'
<1>7. /\ workers[w].pc \notin {"unborn", "blocked"}
      /\ Bearer(w, worker) /\ Due(w, worker, item) /\ worker.tokens = workers[w].tokens
      /\ GivenUp(item) \cap active = {}
      /\ Offer(w, worker, item) /\ UNCHANGED <<main, evidence>> /\ events' \in 0..MaxEvents
  BY DEF Offers
<1>1. TypeOK /\ Shape /\ Births /\ Followed /\ Waits
  BY TypeIsWaits DEF InvT
<1>2. item \in Items
  BY <1>7 DEF Due
<1>3. phase' = phase /\ outcome' = outcome /\ appended' = appended /\ committed' = committed
  BY <1>7 DEF main, evidence
<1>4. Held(workers[w]) = workers[w].tokens
  BY <1>7 DEF Held
<1>5. CASE admission = << >> /\ Fits(item)
  <2>1. Enqueue(w, worker, item) /\ admission' = admission
    BY <1>5, <1>7 DEF Offer
  <2> DEFINE new == AfterPut(worker, item)
  <2>2. new \in WorkerStates /\ WorkerShape(w, new) /\ new.pc \notin {"blocked", "unborn"}
    BY <1>7, AfterPutShape
  <2>3. /\ queue' \in Seq(Items) /\ Len(queue') <= QueueMessages
        /\ pressure' = Bytes(queue') /\ pressure' <= QueueBytes
        /\ accepted' \in [Streams -> Nat]
        /\ active' \subseteq active /\ active' \subseteq Tokens /\ resolved' \subseteq Tokens
        /\ workers' = [workers EXCEPT ![w] = new]
    BY <1>1, <1>2, <1>5, <2>1, EnqueueKeepsChannel
  <2>4. Running => \A t \in active' : t \in Held(workers[w]) => new.pc # "done" /\ t \in Held(new)
    <3> SUFFICES ASSUME Running, NEW t \in active', t \in Held(workers[w])
                 PROVE  new.pc # "done" /\ t \in Held(new)
      OBVIOUS
    <3>1. t \in active /\ t \in worker.tokens \ GivenUp(item)
      BY <1>4, <1>7, <2>3
    <3>2. new.pc # "done" /\ t \in new.tokens
      BY <1>7, <3>1, AfterPutHolds
    <3> QED BY <2>2, <3>2 DEF Held
  <2> HIDE DEF new
  <2>5. workers' \in [Workers -> WorkerStates] /\ Shape' /\ Births' /\ Followed'
    BY <1>1, <1>3, <1>7, <2>2, <2>3, <2>4, MoveKeepsShape
  <2>6. workers'[w] = new /\ \A v \in Workers : v # w => workers'[v] = workers[v]
    BY <1>1, <2>3 DEF TypeOK
  <2>7. Waits'
    BY <1>1, <1>7, <2>1, <2>2, <2>6 DEF Waits
  <2>8. TypeOK'
    BY <1>1, <1>3, <1>7, <2>3, <2>5, <2>7 DEF TypeOK, Waits
  <2> QED BY <2>5, <2>8 DEF InvT
<1>6. CASE ~(admission = << >> /\ Fits(item))
  <2> DEFINE new == [worker EXCEPT !.pc = "blocked", !.item = item]
  <2>1. /\ admission' = Append(admission, w) /\ workers' = [workers EXCEPT ![w] = new]
        /\ active' = active /\ resolved' = resolved /\ queue' = queue /\ pressure' = pressure
        /\ accepted' = accepted
    BY <1>6, <1>7 DEF Offer, control
  <2>2. worker \in WorkerStates
    BY <1>7 DEF Bearer
  <2>3. new \in WorkerStates /\ new.pc = "blocked" /\ new.item = item
    BY <1>2, <2>2 DEF WorkerStates
  <2>4. /\ new.tokens = worker.tokens /\ new.subscribed = worker.subscribed /\ new.retired = worker.retired
        /\ new.attempt = worker.attempt /\ new.seq = worker.seq /\ new.missed = worker.missed
    BY <2>2 DEF WorkerStates
  <2> HIDE DEF new
  <2>5. Due(w, new, item)
    BY <1>7, <2>4 DEF Due
  <2>6. WorkerShape(w, new)
    BY <1>7, <2>3, <2>4, <2>5 DEF WorkerShape, Bearer
  <2>7. Running => \A t \in active' : t \in Held(workers[w]) => new.pc # "done" /\ t \in Held(new)
    BY <1>4, <1>7, <2>1, <2>3, <2>4 DEF Held, GivenUp
  <2>8. workers' \in [Workers -> WorkerStates] /\ Shape' /\ Births' /\ Followed'
    BY <1>1, <1>3, <1>7, <2>1, <2>3, <2>6, <2>7, MoveKeepsShape
  <2>9. workers'[w] = new /\ \A v \in Workers : v # w => workers'[v] = workers[v]
    BY <1>1, <2>1 DEF TypeOK
  <2>10. Waits'
    <3>1. \A v \in Workers : workers'[v].pc = "blocked" <=> v = w \/ workers[v].pc = "blocked"
      BY <2>3, <2>9
    <3> QED BY <1>1, <1>7, <2>1, <3>1, WaitsJoin
  <2>11. TypeOK'
    BY <1>1, <1>3, <1>7, <2>1, <2>8, <2>10 DEF TypeOK, Waits
  <2> QED BY <2>8, <2>11 DEF InvT
<1> QED BY <1>5, <1>6

LEMMA BlockedWorker ==
  ASSUME InvT, NEW w \in Workers, workers[w].pc = "blocked"
  PROVE  /\ Bearer(w, workers[w]) /\ Due(w, workers[w], workers[w].item) /\ workers[w].item \in Items
         /\ Held(workers[w]) = workers[w].tokens \ GivenUp(workers[w].item)
<1>1. WorkerShape(w, workers[w]) /\ workers[w] \in WorkerStates
  BY DEF InvT, TypeOK, Shape
<1> QED BY <1>1 DEF WorkerShape, Bearer, Due, Held, GivenUp

LEMMA AdmitKeepsType ==
  ASSUME InvT, Admit
  PROVE  InvT'
<1>1. TypeOK /\ Shape /\ Births /\ Followed /\ Waits
  BY TypeIsWaits DEF InvT
<1> DEFINE w == Head(admission)
           item == workers[w].item
           new == AfterPut(workers[w], item)
<1>2. admission # << >> /\ Fits(item) /\ Enqueue(w, workers[w], item) /\ admission' = Tail(admission)
      /\ phase' = phase /\ outcome' = outcome /\ appended' = appended /\ committed' = committed
      /\ events' = events
  BY DEF Admit, main, evidence
<1>3. w \in Workers /\ workers[w].pc = "blocked"
  <2>1. admission \in Seq(Workers) /\ w = admission[1] /\ 1 \in DOMAIN admission /\ admission[1] \in Workers
    BY <1>1, <1>2 DEF Waits
  <2> QED BY <1>1, <2>1 DEF Waits
<1>4. /\ Bearer(w, workers[w]) /\ Due(w, workers[w], item) /\ item \in Items
      /\ Held(workers[w]) = workers[w].tokens \ GivenUp(item)
  BY <1>3, BlockedWorker
<1> HIDE DEF item
<1>5. new \in WorkerStates /\ WorkerShape(w, new) /\ new.pc \notin {"blocked", "unborn"}
  BY <1>3, <1>4, AfterPutShape
<1>6. /\ queue' \in Seq(Items) /\ Len(queue') <= QueueMessages
      /\ pressure' = Bytes(queue') /\ pressure' <= QueueBytes
      /\ accepted' \in [Streams -> Nat]
      /\ active' \subseteq active /\ active' \subseteq Tokens /\ resolved' \subseteq Tokens
      /\ workers' = [workers EXCEPT ![w] = new]
  BY <1>1, <1>2, <1>3, <1>4, EnqueueKeepsChannel
<1>7. Running => \A t \in active' : t \in Held(workers[w]) => new.pc # "done" /\ t \in Held(new)
  <2> SUFFICES ASSUME Running, NEW t \in active', t \in Held(workers[w])
               PROVE  new.pc # "done" /\ t \in Held(new)
    OBVIOUS
  <2>1. t \in active /\ t \in workers[w].tokens \ GivenUp(item)
    BY <1>4, <1>6
  <2>2. new.pc # "done" /\ t \in new.tokens
    BY <1>3, <1>4, <2>1, AfterPutHolds
  <2> QED BY <1>5, <2>2 DEF Held
<1> HIDE DEF new, w
<1>8. workers' \in [Workers -> WorkerStates] /\ Shape' /\ Births' /\ Followed'
  BY <1>1, <1>2, <1>3, <1>5, <1>6, <1>7, MoveKeepsShape
<1>9. workers'[w] = new /\ \A v \in Workers : v # w => workers'[v] = workers[v]
  BY <1>1, <1>3, <1>6 DEF TypeOK
<1>10. Waits'
  <2>1. \A v \in Workers : workers'[v].pc = "blocked" <=> v # w /\ workers[v].pc = "blocked"
    BY <1>5, <1>9
  <2> QED BY <1>1, <1>2, <2>1, WaitsLeave DEF w
<1>11. TypeOK'
  BY <1>1, <1>2, <1>6, <1>8, <1>10 DEF TypeOK, Waits
<1> QED BY <1>8, <1>11 DEF InvT

LEMMA RecordType ==
  ASSUME NEW w \in Workers, NEW worker, Bearer(w, worker), NEW kind \in Kinds, NEW tokens \in SUBSET Tokens
  PROVE  /\ Record(worker, w, kind, tokens) \in Items
         /\ Record(worker, w, kind, tokens).stream = <<w, worker.attempt>>
         /\ Record(worker, w, kind, tokens).seq = worker.seq
         /\ Record(worker, w, kind, tokens).kind = kind
         /\ Record(worker, w, kind, tokens).tokens = tokens
         /\ Record(worker, w, kind, tokens).missed = worker.missed
<1>1. worker.attempt \in 0..MaxAttempts - 1 /\ worker.seq \in Nat /\ worker.missed \in SUBSET Tokens
  BY Bounds DEF Bearer, WorkerStates
<1>2. <<w, worker.attempt>> \in Streams
  BY <1>1 DEF Streams
<1> QED BY <1>1, <1>2 DEF Record, Items

(* The worker as it is between two records.                                *)
LEMMA WorkerFacts ==
  ASSUME InvT, NEW w \in Workers
  PROVE  /\ workers \in [Workers -> WorkerStates] /\ workers[w] \in WorkerStates
         /\ WorkerShape(w, workers[w])
         /\ active \in SUBSET Tokens
         /\ workers[w].subscribed \in SUBSET Tokens /\ workers[w].tokens \in SUBSET Tokens
         /\ workers[w].retired \in SUBSET Tokens
         /\ workers[w].pc \in {"connecting", "open", "gathering", "closing"} => Bearer(w, workers[w])
<1>1. workers \in [Workers -> WorkerStates] /\ workers[w] \in WorkerStates /\ WorkerShape(w, workers[w])
      /\ active \in SUBSET Tokens
  BY DEF InvT, TypeOK, Shape
<1> QED BY <1>1 DEF WorkerStates, Bearer, WorkerShape

LEMMA ConnectIs ==
  ASSUME InvT, NEW w \in Workers, Connect(w)
  PROVE  Leaves(w) \/ \E worker, item : Offers(w, worker, item)
<1> DEFINE subscribed == workers[w].tokens \cap active
           worker == [workers[w] EXCEPT !.subscribed = subscribed]
           item == Record(worker, w, "session_start", subscribed)
<1>1. /\ workers \in [Workers -> WorkerStates] /\ workers[w] \in WorkerStates
      /\ WorkerShape(w, workers[w]) /\ subscribed \in SUBSET Tokens
  BY WorkerFacts
<1>2. workers[w].pc = "asleep" /\ workers[w].attempt < MaxAttempts /\ UNCHANGED <<main, evidence>>
  BY DEF Connect
<1>3. events' \in 0..MaxEvents
  <2>1. events \in 0..MaxEvents
    BY DEF InvT, TypeOK
  <2> QED BY <2>1, Bounds DEF Connect
<1>4. CASE subscribed = {}
  <2>1. workers' = [workers EXCEPT ![w] = Ended]
        /\ UNCHANGED <<control, channel, main, evidence, accepted>>
    BY <1>4 DEF Connect
  <2> QED BY <1>2, <1>3, <1>4, <2>1 DEF Leaves
<1>5. CASE subscribed # {}
  <2>1. Offer(w, worker, item)
    BY <1>5 DEF Connect
  <2>2. /\ worker \in WorkerStates /\ worker.subscribed = subscribed /\ worker.tokens = workers[w].tokens
        /\ worker.retired = workers[w].retired /\ worker.attempt = workers[w].attempt
        /\ worker.missed = workers[w].missed /\ worker.seq = workers[w].seq
    BY <1>1 DEF WorkerStates
  <2>3. Bearer(w, worker)
    BY <1>1, <1>2, <2>2 DEF Bearer, WorkerShape
  <2> HIDE DEF worker
  <2>7. "session_start" \in Kinds
    BY DEF Kinds, ResetKinds
  <2>4. /\ item \in Items /\ item.stream = <<w, worker.attempt>> /\ item.seq = worker.seq
        /\ item.kind = "session_start" /\ item.tokens = subscribed /\ item.missed = worker.missed
    BY <1>1, <2>3, <2>7, RecordType
  <2> HIDE DEF item
  <2>5. Due(w, worker, item)
    BY <2>2, <2>4 DEF Due
  <2>6. GivenUp(item) = {}
    BY <2>4 DEF GivenUp
  <2> HIDE DEF subscribed
  <2>8. Offers(w, worker, item)
    BY <1>2, <1>3, <2>1, <2>2, <2>3, <2>5, <2>6 DEF Offers
  <2> QED BY <2>8
<1> QED BY <1>4, <1>5

LEMMA EmitIs ==
  ASSUME InvT, NEW w \in Workers, workers[w].pc \in {"connecting", "open", "gathering", "closing"},
         NEW kind, NEW tokens \in SUBSET Tokens, Emit(w, kind, tokens),
         UNCHANGED <<events, main, evidence>>,
         \/ kind = "closing" /\ tokens = workers[w].subscribed
         \/ kind = "subscription" /\ tokens = {} /\ workers[w].pc # "closing"
         \/ /\ kind = "subscription_removed" /\ tokens \subseteq workers[w].subscribed
            /\ tokens \cap active = {} /\ workers[w].pc # "closing"
  PROVE  \E worker, item : Offers(w, worker, item)
<1> DEFINE item == Record(workers[w], w, kind, tokens)
<1>1. Bearer(w, workers[w]) /\ WorkerShape(w, workers[w])
  BY WorkerFacts
<1>2. kind \in Kinds
  BY DEF Kinds, ResetKinds
<1>3. /\ item \in Items /\ item.stream = <<w, workers[w].attempt>> /\ item.seq = workers[w].seq
      /\ item.kind = kind /\ item.tokens = tokens /\ item.missed = workers[w].missed
  BY <1>1, <1>2, RecordType
<1>4. workers[w].pc # "closing" => workers[w].missed = {}
  BY <1>1 DEF WorkerShape
<1> HIDE DEF item
<1>5. Due(w, workers[w], item)
  BY <1>3, <1>4 DEF Due
<1>6. GivenUp(item) \cap active = {}
  BY <1>3 DEF GivenUp
<1>7. events' \in 0..MaxEvents
  BY DEF InvT, TypeOK
<1>8. Offer(w, workers[w], item) /\ UNCHANGED <<main, evidence>>
  BY DEF Emit, item
<1>9. Offers(w, workers[w], item)
  BY <1>1, <1>5, <1>6, <1>7, <1>8 DEF Offers
<1> QED BY <1>9

LEMMA DisconnectKeepsType ==
  ASSUME InvT, NEW w \in Workers, Disconnect(w)
  PROVE  InvT'
<1>1. /\ workers \in [Workers -> WorkerStates] /\ workers[w] \in WorkerStates
      /\ WorkerShape(w, workers[w])
  BY WorkerFacts
<1>2. PICK pc \in {"closing", "gathering"} :
        /\ workers[w].pc = IF pc = "closing" THEN "connecting" ELSE "open"
        /\ workers' = [workers EXCEPT ![w].pc = pc]
  BY DEF Disconnect
<1>3. active' = active /\ resolved' = resolved /\ events' = events
      /\ queue' = queue /\ pressure' = pressure /\ admission' = admission /\ accepted' = accepted
      /\ phase' = phase /\ outcome' = outcome /\ appended' = appended /\ committed' = committed
  BY DEF Disconnect, control, channel, main, evidence
<1> DEFINE new == [workers[w] EXCEPT !.pc = pc]
<1>4. workers' = [workers EXCEPT ![w] = new]
  BY <1>2
<1>5. new \in WorkerStates /\ new.pc = pc
  BY <1>1, <1>2 DEF WorkerStates
<1>6. /\ new.tokens = workers[w].tokens /\ new.subscribed = workers[w].subscribed
      /\ new.retired = workers[w].retired /\ new.attempt = workers[w].attempt
      /\ new.missed = workers[w].missed /\ new.item = workers[w].item
  BY <1>1 DEF WorkerStates
<1> HIDE DEF new
<1>7. WorkerShape(w, new)
  BY <1>1, <1>2, <1>5, <1>6 DEF WorkerShape
<1>8. \A t \in active' : t \in Held(workers[w]) => new.pc # "done" /\ t \in Held(new)
  BY <1>2, <1>5, <1>6 DEF Held
<1>9. TypeOK /\ Shape /\ Births /\ Followed /\ Waits
  BY TypeIsWaits DEF InvT
<1>10. workers[w].pc # "unborn" /\ new.pc # "unborn" /\ workers[w].pc # "blocked" /\ new.pc # "blocked"
  BY <1>2, <1>5
<1>11. workers' \in [Workers -> WorkerStates] /\ Shape' /\ Births' /\ Followed'
  BY <1>3, <1>4, <1>5, <1>7, <1>8, <1>9, <1>10, MoveKeepsShape
<1>12. workers'[w] = new /\ \A v \in Workers : v # w => workers'[v] = workers[v]
  BY <1>1, <1>4
<1>13. Waits'
  BY <1>3, <1>9, <1>10, <1>12 DEF Waits
<1>14. TypeOK'
  BY <1>3, <1>9, <1>11, <1>13 DEF TypeOK, Waits
<1> QED BY <1>11, <1>14 DEF InvT

LEMMA ReceiveIs ==
  ASSUME InvT, NEW w \in Workers, Receive(w)
  PROVE  \E worker, item : Offers(w, worker, item)
<1>1. PICK kind \in MessageKinds, t \in workers[w].subscribed \cup workers[w].retired :
        LET late   == t \in workers[w].retired
            worker == [workers[w] EXCEPT !.missed = IF late THEN {t} ELSE {}]
        IN  Offer(w, worker, Record(worker, w, kind, IF late THEN {} ELSE {t}))
  BY DEF Receive
<1> DEFINE late   == t \in workers[w].retired
           worker == [workers[w] EXCEPT !.missed = IF late THEN {t} ELSE {}]
           tokens == IF late THEN {} ELSE {t}
           item   == Record(worker, w, kind, tokens)
<1>2. Offer(w, worker, item)
  BY <1>1
<1>3. /\ workers[w] \in WorkerStates /\ WorkerShape(w, workers[w])
      /\ workers[w].subscribed \in SUBSET Tokens /\ workers[w].retired \in SUBSET Tokens
      /\ workers[w].pc = "open" /\ Bearer(w, workers[w])
  BY WorkerFacts DEF Receive, CanReceive
<1>4. events' \in 0..MaxEvents /\ UNCHANGED <<main, evidence>>
  <2>1. events \in 0..MaxEvents
    BY DEF InvT, TypeOK
  <2> QED BY <2>1, Bounds DEF Receive
<1>5. {t} \in SUBSET Tokens /\ tokens \in SUBSET Tokens
  BY <1>3
<1>6. /\ worker \in WorkerStates /\ worker.tokens = workers[w].tokens
      /\ worker.subscribed = workers[w].subscribed /\ worker.retired = workers[w].retired
      /\ worker.attempt = workers[w].attempt /\ worker.seq = workers[w].seq
      /\ worker.missed = IF late THEN {t} ELSE {}
  BY <1>3, <1>5 DEF WorkerStates
<1> HIDE DEF worker
<1>7. Bearer(w, worker)
  BY <1>3, <1>6 DEF Bearer
<1>8. kind \in Kinds
  BY DEF Kinds
<1>9. /\ item \in Items /\ item.stream = <<w, worker.attempt>> /\ item.seq = worker.seq
      /\ item.kind = kind /\ item.tokens = tokens /\ item.missed = worker.missed
  BY <1>5, <1>7, <1>8, RecordType
<1> HIDE DEF item
<1>10. Due(w, worker, item)
  BY <1>3, <1>6, <1>9 DEF Due
<1>11. GivenUp(item) = {}
  BY <1>9 DEF GivenUp, MessageKinds
<1> HIDE DEF late, tokens
<1>12. Offers(w, worker, item)
  BY <1>2, <1>3, <1>4, <1>6, <1>7, <1>10, <1>11 DEF Offers
<1> QED BY <1>12

LEMMA ReceiveInvalidIs ==
  ASSUME InvT, NEW w \in Workers, ReceiveInvalid(w)
  PROVE  \E worker, item : Offers(w, worker, item)
<1> DEFINE worker == [workers[w] EXCEPT !.missed = workers[w].subscribed]
           item   == Record(worker, w, "lost", workers[w].subscribed)
<1>1. Offer(w, worker, item) /\ UNCHANGED <<main, evidence>>
  BY DEF ReceiveInvalid, ResetAfterLoss
<1>2. /\ workers[w] \in WorkerStates /\ WorkerShape(w, workers[w])
      /\ workers[w].subscribed \in SUBSET Tokens
      /\ workers[w].pc = "open" /\ Bearer(w, workers[w])
  BY WorkerFacts DEF ReceiveInvalid, CanReceive
<1>3. events' \in 0..MaxEvents
  BY DEF InvT, TypeOK, ReceiveInvalid
<1>4. /\ worker \in WorkerStates /\ worker.tokens = workers[w].tokens
      /\ worker.subscribed = workers[w].subscribed /\ worker.retired = workers[w].retired
      /\ worker.attempt = workers[w].attempt /\ worker.seq = workers[w].seq
      /\ worker.missed = workers[w].subscribed
  BY <1>2 DEF WorkerStates
<1> HIDE DEF worker
<1>5. Bearer(w, worker)
  BY <1>2, <1>4 DEF Bearer
<1>6. "lost" \in Kinds
  BY DEF Kinds, ResetKinds
<1>7. /\ item \in Items /\ item.stream = <<w, worker.attempt>> /\ item.seq = worker.seq
      /\ item.kind = "lost" /\ item.tokens = workers[w].subscribed /\ item.missed = worker.missed
  BY <1>2, <1>5, <1>6, RecordType
<1> HIDE DEF item
<1>8. Due(w, worker, item)
  BY <1>4, <1>7 DEF Due
<1>9. GivenUp(item) = {}
  BY <1>7 DEF GivenUp
<1>10. Offers(w, worker, item)
  BY <1>1, <1>2, <1>3, <1>4, <1>5, <1>8, <1>9 DEF Offers
<1> QED BY <1>10

(* Whatever a worker does, it offers a record, finds its connection broken  *)
(* or ends.                                                                *)
LEMMA WorkerIs ==
  ASSUME InvT, NEW w \in Workers, Worker(w)
  PROVE  Disconnect(w) \/ Leaves(w) \/ \E worker, item : Offers(w, worker, item)
<1>1. CASE Connect(w)
  BY <1>1, ConnectIs
<1>2. CASE Subscribe(w)
  <2>1. workers[w].pc = "connecting" /\ Emit(w, "subscription", {}) /\ UNCHANGED <<events, main, evidence>>
    BY <1>2 DEF Subscribe
  <2> QED BY <2>1, EmitIs
<1>3. CASE Unsubscribe(w)
  <2>1. workers[w].pc = "open" /\ Emit(w, "subscription_removed", Removed(w))
        /\ UNCHANGED <<events, main, evidence>>
    BY <1>3 DEF Unsubscribe
  <2>2. Removed(w) \in SUBSET Tokens /\ Removed(w) \subseteq workers[w].subscribed
        /\ Removed(w) \cap active = {}
    BY WorkerFacts DEF Removed
  <2> QED BY <2>1, <2>2, EmitIs
<1>4. CASE Receive(w)
  BY <1>4, ReceiveIs
<1>5. CASE ReceiveInvalid(w)
  BY <1>5, ReceiveInvalidIs
<1>6. CASE Close(w)
  <2>1. workers[w].pc \in {"gathering", "closing"} /\ Emit(w, "closing", workers[w].subscribed)
        /\ UNCHANGED <<events, main, evidence>>
    BY <1>6 DEF Close
  <2>2. workers[w].subscribed \in SUBSET Tokens
    BY WorkerFacts
  <2> QED BY <2>1, <2>2, EmitIs
<1> QED BY <1>1, <1>2, <1>3, <1>4, <1>5, <1>6 DEF Worker

LEMMA LeavingKeepsType ==
  ASSUME InvT, NEW w \in Workers, Leaves(w)
  PROVE  InvT'
<1>1. workers' = [workers EXCEPT ![w] = Ended] /\ active' = active /\ resolved' = resolved
      /\ queue' = queue /\ pressure' = pressure /\ admission' = admission /\ accepted' = accepted
      /\ phase' = phase /\ outcome' = outcome /\ appended' = appended /\ committed' = committed
      /\ workers[w].pc = "asleep" /\ workers[w].tokens \cap active = {} /\ events' \in 0..MaxEvents
  BY DEF Leaves, control, channel, main, evidence
<1>2. Ended \in WorkerStates /\ WorkerShape(w, Ended) /\ Ended.pc = "done"
  BY EndedShape
<1>3. \A t \in active' : t \notin Held(workers[w])
  BY <1>1 DEF Held
<1>4. TypeOK /\ Shape /\ Births /\ Followed /\ Waits
  BY TypeIsWaits DEF InvT
<1>5. workers' \in [Workers -> WorkerStates] /\ Shape' /\ Births' /\ Followed'
  BY <1>1, <1>2, <1>3, <1>4, MoveKeepsShape
<1>6. workers'[w] = Ended /\ \A v \in Workers : v # w => workers'[v] = workers[v]
  BY <1>1, <1>4 DEF TypeOK
<1>7. Waits'
  BY <1>1, <1>2, <1>4, <1>6 DEF Waits
<1>8. TypeOK'
  BY <1>1, <1>4, <1>5, <1>7 DEF TypeOK, Waits
<1> QED BY <1>5, <1>8 DEF InvT

LEMMA WorkerKeepsType ==
  ASSUME InvT, NEW w \in Workers, Worker(w)
  PROVE  InvT'
  BY WorkerIs, DisconnectKeepsType, LeavingKeepsType, OfferKeepsType

(* The first n elements of a finite set, for some order.                   *)
LEMMA SubsetOfSize ==
  ASSUME NEW S, IsFiniteSet(S), NEW n \in Nat, n <= Cardinality(S)
  PROVE  \E T \in SUBSET S : Cardinality(T) = n
<1> DEFINE c == Cardinality(S)
           Good(k) == \E T \in SUBSET S : Cardinality(T) = c - k
           Bad == {k \in 0..c : ~Good(k)}
<1>1. c \in Nat
  BY FS_CardinalityType
<1>2. Good(0)
  <2>1. S \in SUBSET S /\ Cardinality(S) = c - 0
    BY <1>1
  <2> QED BY <2>1
<1>3. ASSUME NEW k \in 0..c, k # c, Good(k) PROVE Good(k + 1)
  <2>1. PICK T \in SUBSET S : Cardinality(T) = c - k
    BY <1>3
  <2>2. IsFiniteSet(T)
    BY FS_Subset
  <2>3. Cardinality(T) # 0
    BY <1>1, <1>3, <2>1
  <2>4. PICK x \in T : TRUE
    BY <2>2, <2>3, FS_EmptySet
  <2>5. Cardinality(T \ {x}) = Cardinality(T) - 1 /\ T \ {x} \in SUBSET S
    BY <2>2, <2>4, FS_RemoveElement
  <2>6. Cardinality(T \ {x}) = c - (k + 1)
    BY <1>1, <2>1, <2>5
  <2> HIDE DEF c
  <2> QED BY <2>5, <2>6
<1> HIDE DEF Good
<1>4. Bad = {}
  <2>1. SUFFICES ASSUME Bad # {} PROVE FALSE
    OBVIOUS
  <2>2. Bad \in SUBSET Nat
    BY <1>1
  <2>3. PICK k \in Bad : \A m \in Bad : k <= m
    <3> HIDE DEF Bad
    <3> QED BY <2>1, <2>2, Smallest
  <2>4. k # 0 /\ k - 1 \in 0..c /\ k - 1 \notin Bad /\ k - 1 # c
    BY <1>1, <1>2, <2>3
  <2>5. Good(k - 1)
    BY <2>4
  <2>6. Good(k - 1 + 1)
    BY <1>3, <2>4, <2>5
  <2>7. k - 1 + 1 = k
    BY <1>1, <2>3
  <2> QED BY <2>3, <2>6, <2>7
<1>5. c - n \in 0..c /\ c - (c - n) = n
  BY <1>1
<1>6. Good(c - n)
  BY <1>4, <1>5
<1> QED BY <1>5, <1>6 DEF Good

(* Groups(S) are what shards() may return.                                 *)
IsSharding(P, S) ==
  /\ UNION P = S /\ {} \notin P
  /\ \A g \in P : Cardinality(g) <= ShardSize
  /\ \A g, h \in P : g # h => g \cap h = {}
  /\ Cardinality(P) = (Cardinality(S) + ShardSize - 1) \div ShardSize

LEMMA RoundsUp ==
  ASSUME NEW k \in Nat, k > 0, NEW n \in Nat
  PROVE  /\ (n + k - 1) \div k \in Nat
         /\ n > k => (n + k - 1) \div k = (n - k + k - 1) \div k + 1
         /\ n > 0 /\ n <= k => (n + k - 1) \div k = 1
         /\ n = 0 => (n + k - 1) \div k = 0
         /\ \A m \in Nat : n <= m * k => (n + k - 1) \div k <= m
  OBVIOUS

LEMMA ShardingExists ==
  ASSUME NEW S \in SUBSET Tokens
  PROVE  \E P \in SUBSET (SUBSET S) : IsSharding(P, S)
<1> DEFINE k == ShardSize
           Good(n) == \A U \in SUBSET Tokens : Cardinality(U) = n => \E P \in SUBSET (SUBSET U) : IsSharding(P, U)
           Bad == {n \in Nat : ~Good(n)}
<1>1. k \in Nat /\ k > 0
  BY Bounds
<1>2. \A U \in SUBSET Tokens : IsFiniteSet(U) /\ Cardinality(U) \in Nat
  BY Bounds, FS_Subset, FS_CardinalityType
<1>3. ASSUME NEW n \in Nat, \A m \in Nat : m < n => Good(m) PROVE Good(n)
  <2> SUFFICES ASSUME NEW U \in SUBSET Tokens, Cardinality(U) = n
               PROVE  \E P \in SUBSET (SUBSET U) : IsSharding(P, U)
    OBVIOUS
  <2>1. IsFiniteSet(U)
    BY <1>2
  <2>2. CASE n = 0
    <3>1. U = {}
      BY <2>1, <2>2, FS_EmptySet
    <3>2. Cardinality({}) = (n + k - 1) \div k
      BY <1>1, <2>2, RoundsUp, FS_EmptySet
    <3>3. IsSharding({}, U)
      BY <3>1, <3>2 DEF IsSharding
    <3> QED BY <3>3
  <2>3. CASE n > 0 /\ n <= k
    <3>1. U # {}
      BY <2>3, FS_EmptySet
    <3>2. Cardinality({U}) = (n + k - 1) \div k
      BY <1>1, <2>3, RoundsUp, FS_Singleton
    <3>3. IsSharding({U}, U)
      BY <2>3, <3>1, <3>2 DEF IsSharding
    <3> QED BY <3>3
  <2>4. CASE n > k
    <3>1. PICK T \in SUBSET U : Cardinality(T) = k
      BY <1>1, <2>1, <2>4, SubsetOfSize
    <3>2. IsFiniteSet(T) /\ U \cap T = T
      BY <2>1, FS_Subset
    <3>3. Cardinality(U \ T) = n - k
      BY <2>1, <3>1, <3>2, FS_Difference
    <3>4. U \ T \in SUBSET Tokens /\ n - k \in Nat /\ n - k < n
      BY <1>1, <2>4
    <3>5. PICK P \in SUBSET (SUBSET (U \ T)) : IsSharding(P, U \ T)
      BY <1>3, <3>3, <3>4
    <3> DEFINE Q == P \cup {T}
    <3>6. T # {}
      BY <1>1, <3>1, FS_EmptySet
    <3>7. T \notin P
      BY <3>6
    <3>8. IsFiniteSet(P)
      <4>1. IsFiniteSet(SUBSET (U \ T))
        BY <1>2, <3>4, FS_SUBSET
      <4> QED BY <4>1, FS_Subset
    <3>9. Cardinality(Q) = Cardinality(P) + 1
      BY <3>7, <3>8, FS_AddElement
    <3>10. Cardinality(P) = (n - k + k - 1) \div k
      BY <3>3, <3>5 DEF IsSharding
    <3>11. Cardinality(Q) = (n + k - 1) \div k
      BY <1>1, <2>4, <3>9, <3>10, RoundsUp
    <3>12. UNION Q = U /\ {} \notin Q /\ Q \in SUBSET (SUBSET U)
      BY <3>5, <3>6 DEF IsSharding
    <3>13. \A g \in Q : Cardinality(g) <= k
      BY <1>1, <3>1, <3>5 DEF IsSharding
    <3>14. \A g, h \in Q : g # h => g \cap h = {}
      BY <3>5 DEF IsSharding
    <3> HIDE DEF Q
    <3>15. IsSharding(Q, U)
      BY <3>11, <3>12, <3>13, <3>14 DEF IsSharding
    <3> QED BY <3>12, <3>15
  <2> QED BY <1>1, <2>2, <2>3, <2>4
<1> HIDE DEF Good
<1>4. Bad = {}
  <2>1. SUFFICES ASSUME Bad # {} PROVE FALSE
    OBVIOUS
  <2>2. PICK n \in Bad : \A m \in Bad : n <= m
    <3>1. Bad \in SUBSET Nat
      OBVIOUS
    <3> HIDE DEF Bad
    <3> QED BY <2>1, <3>1, Smallest
  <2>3. \A m \in Nat : m < n => Good(m)
    BY <2>2
  <2> QED BY <1>3, <2>2, <2>3
<1>5. Good(Cardinality(S))
  BY <1>2, <1>4
<1> QED BY <1>2, <1>5 DEF Good

LEMMA ShardingIs ==
  ASSUME NEW S \in SUBSET Tokens
  PROVE  /\ IsSharding(Sharding(S), S) /\ Sharding(S) \in SUBSET (SUBSET S)
         /\ IsFiniteSet(Sharding(S)) /\ Cardinality(Sharding(S)) \in Nat
<1> DEFINE Q(P) == IsSharding(P, S)
<1>1. Sharding(S) = CHOOSE P \in SUBSET (SUBSET S) : Q(P)
  BY DEF Sharding, IsSharding
<1>2. \E P \in SUBSET (SUBSET S) : Q(P)
  BY ShardingExists
<1> HIDE DEF Q
<1>3. Q(Sharding(S)) /\ Sharding(S) \in SUBSET (SUBSET S)
  BY <1>1, <1>2
<1>4. IsFiniteSet(SUBSET S)
  BY Bounds, FS_Subset, FS_SUBSET
<1>5. IsFiniteSet(Sharding(S))
  BY <1>3, <1>4, FS_Subset
<1> QED BY <1>3, <1>5, FS_CardinalityType DEF Q

(* The elements of a finite set, one after another.                        *)
LEMMA SetToSeqIs ==
  ASSUME NEW S, IsFiniteSet(S)
  PROVE  /\ SetToSeq(S) \in [1..Cardinality(S) -> S]
         /\ \A x \in S : \E i \in 1..Cardinality(S) : SetToSeq(S)[i] = x
<1> DEFINE c == Cardinality(S)
           Q(f) == IsInjective(f)
<1>1. SetToSeq(S) = CHOOSE f \in [1..c -> S] : Q(f)
  BY DEF SetToSeq
<1>2. \E f \in [1..c -> S] : Q(f)
  <2>1. PICK f : f \in Bijection(1..c, S)
    BY FS_CardinalityType DEF ExistsBijection
  <2> QED BY <2>1 DEF Bijection, Injection, IsInjective
<1> HIDE DEF Q
<1>3. SetToSeq(S) \in [1..c -> S] /\ Q(SetToSeq(S))
  BY <1>1, <1>2
<1>4. SetToSeq(S) \in Injection(1..c, S)
  BY <1>3 DEF Q, Injection, IsInjective
<1>5. Cardinality(1..c) = c
  BY FS_CardinalityType, FS_Interval
<1>6. SetToSeq(S) \in Surjection(1..c, S)
  BY <1>4, <1>5, FS_Injection
<1> QED BY <1>3, <1>6 DEF Surjection

(* Those born so far are the first.                                        *)
Suffix(old, b) == \A w \in Workers : old[w].pc = "unborn" <=> w > b

LEMMA BornAre ==
  ASSUME NEW old, NEW b \in 0..MaxWorkers, Suffix(old, b)
  PROVE  /\ Cardinality({w \in Workers : old[w].pc # "unborn"}) = b
         /\ Cardinality({w \in Workers : old[w].pc = "unborn"}) = MaxWorkers - b
<1>1. {w \in Workers : old[w].pc # "unborn"} = 1..b
  BY Bounds DEF Suffix, Workers
<1>2. {w \in Workers : old[w].pc = "unborn"} = (b + 1)..MaxWorkers
  BY Bounds DEF Suffix, Workers
<1>3. b \in Int /\ MaxWorkers \in Int /\ b + 1 \in Int /\ 0 <= b /\ b <= MaxWorkers
  BY Bounds
<1>4. Cardinality(1..b) = b
  BY <1>3, FS_Interval
<1>5. Cardinality((b + 1)..MaxWorkers) = MaxWorkers - b
  <2>1. Cardinality((b + 1)..MaxWorkers) = IF b + 1 > MaxWorkers THEN 0 ELSE MaxWorkers - (b + 1) + 1
    BY <1>3, FS_Interval
  <2> QED BY <1>3, <2>1
<1> QED BY <1>1, <1>2, <1>4, <1>5

(* launch() leaves those born alone, numbers the new ones on, and gives     *)
(* every new token to one of them.                                         *)
LEMMA LaunchedIs ==
  ASSUME NEW old \in [Workers -> WorkerStates], \A w \in Workers : WorkerShape(w, old[w]),
         NEW b \in 0..MaxWorkers, Suffix(old, b),
         NEW new \in SUBSET Tokens, Cardinality(Sharding(new)) <= MaxWorkers - b
  PROVE  /\ Launched(old, new) \in [Workers -> WorkerStates]
         /\ \A w \in Workers : WorkerShape(w, Launched(old, new)[w])
         /\ \A w \in Workers : old[w].pc # "unborn" => Launched(old, new)[w] = old[w]
         /\ \A w \in Workers : old[w].pc = "unborn" => Launched(old, new)[w].pc \in {"unborn", "asleep"}
         /\ \E d \in 0..MaxWorkers : Suffix(Launched(old, new), d)
         /\ \A t \in new : \E w \in Workers :
              Launched(old, new)[w].pc = "asleep" /\ t \in Launched(old, new)[w].tokens
         /\ \A w \in Workers : Launched(old, new)[w].pc = "asleep" /\ old[w].pc = "unborn" =>
              Launched(old, new)[w].attempt = 0
<1> DEFINE c == Cardinality(Sharding(new))
           groups == SetToSeq(Sharding(new))
           after == Launched(old, new)
<1>1. IsSharding(Sharding(new), new) /\ Sharding(new) \in SUBSET (SUBSET new) /\ c \in Nat
      /\ IsFiniteSet(Sharding(new))
  BY ShardingIs
<1>2. /\ groups \in [1..c -> Sharding(new)] /\ DOMAIN groups = 1..c
      /\ \A g \in Sharding(new) : \E i \in 1..c : groups[i] = g
  BY <1>1, SetToSeqIs
<1>3. Cardinality({w \in Workers : old[w].pc # "unborn"}) = b
  BY BornAre
<1> HIDE DEF groups, c
<1>4. after = [w \in Workers |-> IF w - b \in 1..c THEN Newborn(groups[w - b]) ELSE old[w]]
  BY <1>2, <1>3 DEF Launched, Newborn, groups
<1> HIDE DEF after
<1>5. ASSUME NEW w \in Workers, w - b \in 1..c
      PROVE  /\ after[w] \in WorkerStates /\ WorkerShape(w, after[w]) /\ after[w].pc = "asleep"
             /\ after[w].tokens = groups[w - b] /\ after[w].attempt = 0
  <2>1. groups[w - b] \in SUBSET Tokens
    BY <1>1, <1>2, <1>5
  <2>2. after[w] = Newborn(groups[w - b])
    BY <1>4, <1>5
  <2> QED BY <2>1, <2>2, NewbornShape
<1>6. \A w \in Workers : ~(w - b \in 1..c) => after[w] = old[w]
  BY <1>4
<1>7. \A w \in Workers : w \in Nat /\ w >= 1 /\ w <= MaxWorkers
  BY Bounds DEF Workers
<1>8. \A w \in Workers : old[w].pc # "unborn" => after[w] = old[w]
  BY <1>1, <1>6, <1>7 DEF Suffix
<1>9. after \in [Workers -> WorkerStates]
  BY <1>4, <1>5, <1>6
<1>10. \A w \in Workers : WorkerShape(w, after[w])
  BY <1>5, <1>6
<1>11. \A w \in Workers : old[w].pc = "unborn" => after[w].pc \in {"unborn", "asleep"}
  BY <1>5, <1>6
<1>12. Suffix(after, b + c) /\ b + c \in 0..MaxWorkers
  <2>1. b + c \in 0..MaxWorkers
    BY <1>1, Bounds DEF c
  <2>2. ASSUME NEW w \in Workers PROVE after[w].pc = "unborn" <=> w > b + c
    BY <1>1, <1>5, <1>6, <1>7, <2>2 DEF Suffix
  <2> QED BY <2>1, <2>2 DEF Suffix
<1>13. ASSUME NEW t \in new PROVE \E w \in Workers : after[w].pc = "asleep" /\ t \in after[w].tokens
  <2>1. PICK g \in Sharding(new) : t \in g
    BY <1>1 DEF IsSharding
  <2>2. PICK i \in 1..c : groups[i] = g
    BY <1>2, <2>1
  <2>3. b + i \in Workers /\ (b + i) - b = i
    BY <1>1, <1>12, Bounds DEF Workers
  <2> QED BY <1>5, <2>1, <2>2, <2>3
<1>14. \A w \in Workers : after[w].pc = "asleep" /\ old[w].pc = "unborn" => after[w].attempt = 0
  BY <1>5, <1>6
<1> QED BY <1>8, <1>9, <1>10, <1>11, <1>12, <1>13, <1>14 DEF after

LEMMA ApplyCatalogKeepsType ==
  ASSUME InvT, ApplyCatalog
  PROVE  InvT'
<1>1. PICK catalog \in Catalogs :
        /\ Cardinality(Sharding(NewTokens(Admitted(catalog))))
             <= Cardinality({w \in Workers : workers[w].pc = "unborn"})
        /\ active' = Admitted(catalog)
        /\ workers' = Launched(workers, NewTokens(Admitted(catalog)))
  BY DEF ApplyCatalog
<1> DEFINE latest == Admitted(catalog)
           new    == NewTokens(latest)
<1>2. /\ resolved' = resolved /\ queue' = queue /\ pressure' = pressure /\ admission' = admission
      /\ accepted' = accepted /\ phase' = phase /\ outcome' = outcome
      /\ appended' = appended /\ committed' = committed
  BY DEF ApplyCatalog, channel, main, evidence
<1>3. TypeOK /\ Shape /\ Births /\ Followed /\ Waits
  BY TypeIsWaits DEF InvT
<1>4. latest \in SUBSET Tokens /\ new \in SUBSET Tokens /\ latest \subseteq active \cup new
  BY ShardAssumption DEF Admitted, NewTokens
<1>5. PICK b \in 0..MaxWorkers : Suffix(workers, b)
  BY <1>3 DEF Births, Suffix
<1>6. Cardinality(Sharding(new)) <= MaxWorkers - b
  BY <1>1, <1>5, BornAre
<1>7. workers \in [Workers -> WorkerStates] /\ \A w \in Workers : WorkerShape(w, workers[w])
  BY <1>3 DEF TypeOK, Shape
<1> HIDE DEF latest, new
<1>8. workers' = Launched(workers, new)
  BY <1>1 DEF latest, new
<1>9. /\ workers' \in [Workers -> WorkerStates]
      /\ \A w \in Workers : WorkerShape(w, workers'[w])
      /\ \A w \in Workers : workers[w].pc # "unborn" => workers'[w] = workers[w]
      /\ \A w \in Workers : workers[w].pc = "unborn" => workers'[w].pc \in {"unborn", "asleep"}
      /\ \E d \in 0..MaxWorkers : Suffix(workers', d)
      /\ \A t \in new : \E w \in Workers : workers'[w].pc = "asleep" /\ t \in workers'[w].tokens
  BY <1>4, <1>5, <1>6, <1>7, <1>8, LaunchedIs
<1>10. Shape' /\ Births'
  BY <1>9 DEF Shape, Births, Suffix
<1>11. Followed'
  <2> SUFFICES ASSUME Running, NEW t \in active' PROVE \E w \in Live' : t \in Held(workers'[w])
    BY <1>2 DEF Followed, Running
  <2>1. CASE t \in new
    <3>1. PICK w \in Workers : workers'[w].pc = "asleep" /\ t \in workers'[w].tokens
      BY <1>9, <2>1
    <3> QED BY <3>1 DEF Live, Held
  <2>2. CASE t \in active
    <3>1. PICK w \in Live : t \in Held(workers[w])
      BY <1>3, <2>2 DEF Followed
    <3> QED BY <1>9, <3>1 DEF Live
  <2> QED BY <1>1, <1>4, <2>1, <2>2 DEF latest
<1>12. events' \in 0..MaxEvents
  <2>1. events \in 0..MaxEvents
    BY <1>3 DEF TypeOK
  <2> QED BY <2>1, Bounds DEF ApplyCatalog
<1>13. Waits'
  <2>1. \A w \in Workers : workers'[w].pc = "blocked" <=> workers[w].pc = "blocked"
    BY <1>9
  <2> QED BY <1>2, <1>3, <2>1 DEF Waits
<1>14. TypeOK'
  BY <1>1, <1>2, <1>3, <1>4, <1>9, <1>12, <1>13 DEF TypeOK, Waits, latest
<1> QED BY <1>10, <1>11, <1>14 DEF InvT

(* The items a batch takes.                                                *)
LEMMA BatchIs ==
  ASSUME TypeOK, TakeBatch
  PROVE  /\ Len(Batch) \in 1..Len(queue) /\ Batch = SubSeq(queue, 1, Len(Batch)) /\ Batch \in Seq(Items)
         /\ queue' = SubSeq(queue, Len(Batch) + 1, Len(queue))
         /\ queue' \in Seq(Items) /\ Len(queue') = Len(queue) - Len(Batch)
         /\ Len(queue') <= QueueMessages /\ pressure' = Bytes(queue') /\ pressure' <= QueueBytes
<1> DEFINE n == IF Len(queue) < BatchSize THEN Len(queue) ELSE BatchSize
<1>1. queue \in Seq(Items) /\ Len(queue) <= QueueMessages /\ pressure = Bytes(queue)
      /\ pressure <= QueueBytes /\ queue # << >>
  BY DEF TypeOK, TakeBatch
<1>2. n \in 1..Len(queue)
  BY <1>1, Bounds
<1>3. Batch = SubSeq(queue, 1, n) /\ Batch \in Seq(Items) /\ Len(Batch) = n
  BY <1>1, <1>2 DEF Batch
<1> HIDE DEF n
<1>4. queue' = SubSeq(queue, n + 1, Len(queue)) /\ pressure' = pressure - Bytes(Batch)
  BY <1>3 DEF TakeBatch
<1>5. queue' \in Seq(Items) /\ Len(queue') = Len(queue) - n
  BY <1>1, <1>2, <1>4
<1>6. Bytes(queue) \in Nat /\ Bytes(Batch) \in Nat /\ Bytes(queue') \in Nat
  <2>1. ASSUME NEW items \in Seq(Items) PROVE Bytes(items) \in Nat
    BY SumsDefined DEF Bytes
  <2> QED BY <1>1, <1>3, <1>5, <2>1
<1>7. Bytes(queue) = Bytes(Batch) + Bytes(queue')
  <2>1. n \in 0..Len(queue)
    BY <1>2
  <2> QED BY <1>1, <1>3, <1>4, <2>1, BytesSplit
<1>8. Len(queue) - n <= QueueMessages
  BY <1>1, <1>2, Bounds
<1>9. pressure' = Bytes(queue') /\ pressure' <= QueueBytes
  BY <1>1, <1>4, <1>6, <1>7, QueueAssumption
<1> QED BY <1>2, <1>3, <1>4, <1>5, <1>8, <1>9

LEMMA ReplaysType ==
  ASSUME TypeOK, TakeBatch
  PROVE  /\ \A n \in 0..Len(Batch) : Replayed(appended, Batch)[n] \in [Streams -> Replays]
         /\ \A n \in 0..Len(Batch) : Committable(n) \subseteq [Streams -> Replays]
<1>1. Batch \in Seq(Items) /\ appended \in [Streams -> Replays] /\ committed \in [Streams -> Replays]
  BY BatchIs DEF TypeOK
<1>2. Replayed(appended, Batch) \in [0..Len(Batch) -> [Streams -> Replays]]
  BY <1>1, ReplayedIsTrace DEF IsTrace
<1>3. ASSUME NEW n \in 0..Len(Batch), NEW c \in Committable(n) PROVE c \in [Streams -> Replays]
  <2>1. c = committed \/ \E first \in 1..n : c = Replayed(appended, Batch)[first - 1]
    BY <1>3 DEF Committable
  <2>2. \A first \in 1..n : first - 1 \in 0..Len(Batch)
    OBVIOUS
  <2> QED BY <1>1, <1>2, <2>1, <2>2
<1> QED BY <1>2, <1>3

LEMMA RestKeepsShape ==
  ASSUME InvT, workers' = workers, active' = active, admission' = admission, Running' => Running
  PROVE  Shape' /\ Births' /\ Followed' /\ Waits'
<1>1. Shape /\ Births /\ Followed /\ Waits
  BY TypeIsWaits DEF InvT
<1>2. Shape'
  BY <1>1 DEF Shape
<1>3. Births'
  BY <1>1 DEF Births
<1>4. Waits'
  BY <1>1 DEF Waits
<1>5. Followed'
  BY <1>1 DEF Followed, Live
<1> QED BY <1>2, <1>3, <1>4, <1>5

LEMMA EndedKeepsShape ==
  ASSUME workers' = [w \in Workers |-> Ended], admission' = << >>, ~Running'
  PROVE  workers' \in [Workers -> WorkerStates] /\ Shape' /\ Births' /\ Followed' /\ Waits'
<1>1. \A w \in Workers : workers'[w] = Ended /\ workers'[w].pc = "done"
      /\ WorkerShape(w, workers'[w]) /\ workers'[w] \in WorkerStates
  BY EndedShape
<1>2. Births'
  <2>1. MaxWorkers \in 0..MaxWorkers /\ \A w \in Workers : ~(w > MaxWorkers)
    BY Bounds DEF Workers
  <2> QED BY <1>1, <2>1 DEF Births
<1>3. << >> \in Seq(Workers) /\ DOMAIN << >> = {} /\ IsInjective(<< >>)
  BY DEF IsInjective
<1>4. Waits'
  BY <1>1, <1>3 DEF Waits
<1> QED BY <1>1, <1>2, <1>4 DEF Shape, Followed

LEMMA CancelledShape ==
  ASSUME NEW w \in Workers, NEW worker \in WorkerStates, WorkerShape(w, worker)
  PROVE  /\ Cancelled(worker) \in WorkerStates /\ WorkerShape(w, Cancelled(worker))
         /\ Cancelled(worker).pc \in {"unborn", "done", "closing"}
         /\ Cancelled(worker).pc = "unborn" <=> worker.pc = "unborn"
<1> DEFINE new == Cancelled(worker)
<1>1. CASE worker.pc \in {"unborn", "done"}
  BY <1>1 DEF Cancelled
<1>2. CASE worker.pc \in {"asleep", "gathering"} \/ (worker.pc = "blocked" /\ worker.item.kind = "closing")
  BY <1>2, EndedShape DEF Cancelled
<1>3. CASE ~(worker.pc \in {"unborn", "done", "asleep", "gathering"})
           /\ ~(worker.pc = "blocked" /\ worker.item.kind = "closing")
  <2>1. new = [worker EXCEPT !.pc = "closing", !.item = NoItem, !.missed = @ \cup worker.item.tokens]
    BY <1>3 DEF Cancelled
  <2>2. worker.item.tokens \in SUBSET Tokens
    BY NoItemIsNone DEF WorkerStates, Items
  <2> HIDE DEF new
  <2>3. new \in WorkerStates /\ new.pc = "closing" /\ new.item = NoItem
    BY <2>1, <2>2 DEF WorkerStates
  <2>4. /\ new.tokens = worker.tokens /\ new.subscribed = worker.subscribed
        /\ new.retired = worker.retired /\ new.attempt = worker.attempt
    BY <2>1 DEF WorkerStates
  <2>5. WorkerShape(w, new)
    BY <1>3, <2>3, <2>4 DEF WorkerShape
  <2> QED BY <1>3, <2>3, <2>5 DEF new
<1> QED BY <1>1, <1>2, <1>3

LEMMA StopKeepsShape ==
  ASSUME InvT, Stop
  PROVE  workers' \in [Workers -> WorkerStates] /\ Shape' /\ Births' /\ Followed' /\ Waits'
<1>1. workers' = [w \in Workers |-> Cancelled(workers[w])] /\ admission' = << >> /\ ~Running'
  BY DEF Stop, Running
<1>2. workers \in [Workers -> WorkerStates] /\ Shape /\ Births
  BY DEF InvT, TypeOK
<1>3. \A w \in Workers : /\ workers'[w] \in WorkerStates /\ WorkerShape(w, workers'[w])
                         /\ workers'[w].pc \in {"unborn", "done", "closing"}
                         /\ workers'[w].pc = "unborn" <=> workers[w].pc = "unborn"
  BY <1>1, <1>2, CancelledShape DEF Shape
<1>4. << >> \in Seq(Workers) /\ DOMAIN << >> = {} /\ IsInjective(<< >>)
  BY DEF IsInjective
<1>5. Waits'
  BY <1>1, <1>3, <1>4 DEF Waits
<1>6. Births'
  BY <1>2, <1>3 DEF Births
<1>7. workers' \in [Workers -> WorkerStates]
  BY <1>1, <1>3
<1> QED BY <1>1, <1>3, <1>5, <1>6, <1>7 DEF Shape, Followed

LEMMA MainKeepsType ==
  ASSUME InvT, Main
  PROVE  InvT'
<1>1. TypeOK /\ Shape /\ Births /\ Followed /\ Waits
  BY TypeIsWaits DEF InvT
<1>2. CASE Consume
  <2>1. /\ active' = active /\ resolved' = resolved /\ events' = events /\ workers' = workers
        /\ admission' = admission /\ phase' = phase /\ outcome' = outcome /\ accepted' = accepted
        /\ TakeBatch
    BY <1>2 DEF Consume, control, main
  <2>2. appended' \in [Streams -> Replays] /\ committed' \in [Streams -> Replays]
    <3>1. Len(Batch) \in 0..Len(Batch)
      BY <1>1, <2>1, BatchIs
    <3> QED BY <1>1, <1>2, <2>1, <3>1, ReplaysType DEF Consume
  <2>3. Shape' /\ Births' /\ Followed' /\ Waits'
    BY <2>1, RestKeepsShape DEF Running
  <2>4. TypeOK'
    BY <1>1, <2>1, <2>2, <2>3, BatchIs DEF TypeOK, Waits
  <2> QED BY <2>3, <2>4 DEF InvT
<1>3. CASE Rotate
  <2>1. /\ active' = active /\ resolved' = resolved /\ events' = events /\ workers' = workers
        /\ admission' = admission /\ queue' = queue /\ pressure' = pressure
        /\ phase' = phase /\ outcome' = outcome /\ accepted' = accepted
        /\ appended' = appended /\ committed' = appended
    BY <1>3 DEF Rotate, control, main, channel
  <2>2. Shape' /\ Births' /\ Followed' /\ Waits'
    BY <2>1, RestKeepsShape DEF Running
  <2>3. TypeOK'
    BY <1>1, <2>1, <2>2 DEF TypeOK, Waits
  <2> QED BY <2>2, <2>3 DEF InvT
<1>4. CASE AppendFails
  <2>1. /\ active' = active /\ resolved' = resolved /\ events' = events /\ accepted' = accepted
        /\ outcome' = "budget_stop" /\ TakeBatch /\ phase' \in {"stopping", "ended"}
    BY <1>4 DEF AppendFails, control
  <2>2. appended' \in [Streams -> Replays] /\ committed' \in [Streams -> Replays]
    <3>1. PICK n \in 0..Len(Batch) : /\ appended' = Replayed(appended, Batch)[n]
                                     /\ committed' \in Committable(n)
      BY <1>4 DEF AppendFails
    <3> QED BY <1>1, <2>1, <3>1, ReplaysType
  <2>3. workers' \in [Workers -> WorkerStates] /\ Shape' /\ Births' /\ Followed' /\ Waits'
    <3>1. CASE phase = "record"
      <4>1. workers' = workers /\ admission' = admission /\ Running
        BY <1>4, <3>1 DEF AppendFails, Running
      <4> QED BY <1>1, <2>1, <4>1, RestKeepsShape DEF TypeOK
    <3>2. CASE phase # "record"
      <4>1. workers' = [w \in Workers |-> Ended] /\ admission' = << >> /\ ~Running'
        BY <1>4, <3>2 DEF AppendFails, Running
      <4> QED BY <4>1, EndedKeepsShape
    <3> QED BY <3>1, <3>2
  <2>4. TypeOK'
    BY <1>1, <2>1, <2>2, <2>3, BatchIs DEF TypeOK, Waits
  <2> QED BY <2>3, <2>4 DEF InvT
<1>5. CASE Stop
  <2>1. /\ active' = active /\ resolved' = resolved /\ events' = events /\ accepted' = accepted
        /\ queue' = queue /\ pressure' = pressure /\ appended' = appended /\ committed' = committed
        /\ phase' = "drain" /\ outcome' \in {outcome, "duration_complete", "budget_stop"}
    BY <1>5 DEF Stop, control, evidence
  <2>2. workers' \in [Workers -> WorkerStates] /\ Shape' /\ Births' /\ Followed' /\ Waits'
    BY <1>5, StopKeepsShape
  <2>3. TypeOK'
    BY <1>1, <2>1, <2>2 DEF TypeOK, Waits
  <2> QED BY <2>2, <2>3 DEF InvT
<1>6. CASE Finish
  <2>1. /\ active' = active /\ resolved' = resolved /\ events' = events /\ workers' = workers
        /\ admission' = admission /\ queue' = queue /\ pressure' = pressure
        /\ phase' = "ended" /\ accepted' = accepted
        /\ appended' = appended /\ committed' \in {appended, committed}
        /\ outcome' \in {outcome, "budget_stop"}
    BY <1>6 DEF Finish, control, channel, evidence
  <2>2. Shape' /\ Births' /\ Followed' /\ Waits'
    BY <2>1, RestKeepsShape DEF Running
  <2>3. TypeOK'
    BY <1>1, <2>1, <2>2 DEF TypeOK, Waits
  <2> QED BY <2>2, <2>3 DEF InvT
<1> QED BY <1>2, <1>3, <1>4, <1>5, <1>6 DEF Main

LEMMA NoReplayType == NoReplay \in Replays /\ NoReplay.next = 0 /\ NoReplay.books = {} /\ NoReplay.behind = {}
  BY DEF NoReplay, Replays

(* The session starts with a worker for every shard.                       *)
LEMMA InitWorkers ==
  ASSUME Init
  PROVE  /\ workers \in [Workers -> WorkerStates] /\ Shape /\ Births /\ Followed
         /\ \A w \in Workers : workers[w].pc \in {"unborn", "asleep"} /\ workers[w].attempt = 0
<1> DEFINE old == [w \in Workers |-> Unborn]
<1>1. workers = Launched(old, Tokens) /\ active = Tokens
  BY DEF Init
<1>2. old \in [Workers -> WorkerStates] /\ \A w \in Workers : WorkerShape(w, old[w]) /\ old[w].pc = "unborn"
  BY UnbornShape
<1> HIDE DEF old
<1>3. Suffix(old, 0) /\ 0 \in 0..MaxWorkers
  BY <1>2, Bounds DEF Suffix, Workers
<1>4. Cardinality(Sharding(Tokens)) <= MaxWorkers - 0
  <2>1. Cardinality(Tokens) \in Nat /\ Cardinality(Tokens) <= MaxWorkers * ShardSize
    BY Bounds, FS_CardinalityType, BoundsAssumption
  <2>2. Cardinality(Sharding(Tokens)) = (Cardinality(Tokens) + ShardSize - 1) \div ShardSize
    BY ShardingIs DEF IsSharding
  <2>3. (Cardinality(Tokens) + ShardSize - 1) \div ShardSize <= MaxWorkers
    BY <2>1, Bounds, RoundsUp
  <2> QED BY <2>2, <2>3, Bounds
<1>5. Tokens \in SUBSET Tokens
  OBVIOUS
<1>6. /\ workers \in [Workers -> WorkerStates]
      /\ \A w \in Workers : WorkerShape(w, workers[w])
      /\ \A w \in Workers : workers[w].pc \in {"unborn", "asleep"}
      /\ \E d \in 0..MaxWorkers : Suffix(workers, d)
      /\ \A t \in Tokens : \E w \in Workers : workers[w].pc = "asleep" /\ t \in workers[w].tokens
      /\ \A w \in Workers : workers[w].pc = "asleep" => workers[w].attempt = 0
  BY <1>1, <1>2, <1>3, <1>4, <1>5, LaunchedIs
<1>7. \A w \in Workers : workers[w].attempt = 0
  BY <1>6 DEF WorkerShape, Unborn
<1> QED BY <1>1, <1>6, <1>7 DEF Shape, Births, Suffix, Followed, Live, Held

LEMMA InitType == Init => InvT
<1> SUFFICES ASSUME Init PROVE InvT
  OBVIOUS
<1>1. /\ workers \in [Workers -> WorkerStates] /\ Shape /\ Births /\ Followed
      /\ \A w \in Workers : workers[w].pc \in {"unborn", "asleep"}
  BY InitWorkers
<1>2. /\ active = Tokens /\ resolved = {} /\ events = 0 /\ admission = << >> /\ queue = << >> /\ pressure = 0
      /\ phase = "record" /\ outcome = "none"
      /\ appended = [s \in Streams |-> NoReplay] /\ committed = appended
      /\ accepted = [s \in Streams |-> 0]
  BY DEF Init
<1>3. << >> \in Seq(Workers) /\ << >> \in Seq(Items) /\ DOMAIN << >> = {} /\ IsInjective(<< >>) /\ Len(<< >>) = 0
  BY DEF IsInjective
<1>4. Bytes(<< >>) = 0
  BY <1>3, SumsDefined DEF Bytes
<1>5. appended \in [Streams -> Replays] /\ accepted \in [Streams -> Nat]
  BY <1>2, NoReplayType
<1>6. TypeOK
  BY <1>1, <1>2, <1>3, <1>4, <1>5, Bounds, QueueAssumption DEF TypeOK
<1> QED BY <1>1, <1>6 DEF InvT

LEMMA NextKeepsType == InvT /\ [Next]_vars => InvT'
<1> SUFFICES ASSUME InvT, [Next]_vars PROVE InvT'
  OBVIOUS
<1>1. CASE \E w \in Workers : Worker(w)
  BY <1>1, WorkerKeepsType
<1>2. CASE Admit
  BY <1>2, AdmitKeepsType
<1>3. CASE ApplyCatalog
  BY <1>3, ApplyCatalogKeepsType
<1>4. CASE Main
  BY <1>4, MainKeepsType
<1>5. CASE UNCHANGED vars
  <2>1. /\ active' = active /\ resolved' = resolved /\ events' = events /\ workers' = workers
        /\ admission' = admission /\ queue' = queue /\ pressure' = pressure
        /\ phase' = phase /\ outcome' = outcome /\ accepted' = accepted
        /\ appended' = appended /\ committed' = committed
    BY <1>5 DEF vars, control, channel, main, evidence
  <2>2. Shape' /\ Births' /\ Followed' /\ Waits'
    BY <2>1, RestKeepsShape DEF Running
  <2>3. TypeOK'
    BY <2>1, <2>2 DEF InvT, TypeOK, Waits
  <2> QED BY <2>2, <2>3 DEF InvT
<1> QED BY <1>1, <1>2, <1>3, <1>4, <1>5 DEF Next

(* The session's state has its type, the queue's account is the sum of what *)
(* is queued and within its limits, and while it runs every token that the *)
(* catalog admits is in the hands of a live worker.                        *)
THEOREM EveryTokenIsFollowed == Spec => []TokensAreFollowed
<1>1. InvT => TokensAreFollowed
  <2>1. Followed => NoTokenForgotten
    BY DEF Followed, NoTokenForgotten, Held
  <2> QED BY <2>1 DEF InvT, TokensAreFollowed
<1> QED BY <1>1, InitType, NextKeepsType, PTL DEF Spec

------------------------------------------------------------------------------
(* What is committed is whole *)

IsHonest(replays) == \A s \in Streams : replays[s].behind = {}

(* Once all its records are appended, a worker's replay is where the worker *)
(* is: no book without its subscription, and nothing of the connections to *)
(* come.                                                                   *)
Agrees(w, worker, replays) ==
  /\ worker.pc # "done" =>
       \A a \in 0..MaxAttempts - 1 : a > worker.attempt => replays[<<w, a>>] = NoReplay
  /\ worker.pc \in {"unborn", "asleep"} /\ worker.attempt < MaxAttempts =>
       replays[<<w, worker.attempt>>] = NoReplay
  /\ worker.pc \notin {"unborn", "asleep", "done"} =>
       /\ replays[<<w, worker.attempt>>].next = worker.seq
       /\ replays[<<w, worker.attempt>>].books \subseteq worker.subscribed

(* The trace of what is appended and then queued is honest all along and    *)
(* ends where the workers are.                                             *)
KeptBy(tr, replays, items, puts, ws) ==
  /\ IsTrace(tr, replays, items)
  /\ \A i \in 0..Len(items) : IsHonest(tr[i])
  /\ \A s \in Streams : tr[Len(items)][s].next = puts[s]
  /\ \A w \in Workers : Agrees(w, ws[w], tr[Len(items)])

Whole ==
  /\ phase = "record" => outcome = "none"
  /\ outcome # "budget_stop" =>
       /\ \E tr : KeptBy(tr, appended, queue, accepted, workers)
       /\ IsHonest(committed)
       /\ phase = "ended" => queue = << >> /\ Live = {} /\ committed = appended

(* A record that is due resets the book of every token of which something   *)
(* is missing, and leaves the books within the subscription.               *)
LEMMA ReplayDue ==
  ASSUME NEW w \in Workers, NEW worker, NEW item, Bearer(w, worker), Due(w, worker, item),
         NEW r \in Replays, r.behind = {}, r.next = worker.seq, r.books \subseteq worker.subscribed
  PROVE  /\ Replay(r, item).behind = {} /\ Replay(r, item).next = worker.seq + 1
         /\ item.kind = "subscription_removed" =>
              Replay(r, item).books \subseteq worker.subscribed \ item.tokens
         /\ Replay(r, item).books \subseteq worker.subscribed
<1>1. item.missed = worker.missed /\ item.seq = worker.seq
  BY DEF Due
<1>2. worker.subscribed \cap worker.retired = {}
  BY DEF Bearer
<1> DEFINE books == CASE item.kind = "book" -> r.books \cup item.tokens
                      [] item.kind \in ResetKinds \cup {"market_resolved"} -> r.books \ item.tokens
                      [] OTHER -> r.books
           healed == IF item.kind = "book" THEN item.tokens ELSE {}
           missed == IF item.seq = r.next THEN item.missed ELSE Tokens
<1>3. Replay(r, item) = [next |-> item.seq + 1, books |-> books,
                         behind |-> ((r.behind \cup missed) \ healed) \cap books,
                         closed |-> item.kind = "closing"]
  BY DEF Replay
<1>4. missed = item.missed
  BY <1>1
<1> HIDE DEF missed
<1>5. CASE item.kind \in {"session_start", "closing", "lost"} /\ item.tokens = worker.subscribed
  <2>1. books = {}
    BY <1>5 DEF ResetKinds
  <2> HIDE DEF books, healed
  <2> QED BY <1>1, <1>3, <1>5, <2>1
<1>6. CASE item.kind = "subscription" /\ item.missed = {}
  <2>1. books = r.books
    BY <1>6 DEF ResetKinds
  <2> HIDE DEF books, healed
  <2> QED BY <1>1, <1>3, <1>4, <1>6, <2>1
<1>7. CASE item.kind = "subscription_removed" /\ item.missed = {}
  <2>1. books = r.books \ item.tokens
    BY <1>7 DEF ResetKinds
  <2> HIDE DEF books, healed
  <2> QED BY <1>1, <1>3, <1>4, <1>7, <2>1
<1>8. CASE item.kind \in MessageKinds /\ item.tokens \subseteq worker.subscribed /\ item.missed = {}
  <2>1. books \subseteq worker.subscribed
    BY <1>8
  <2> HIDE DEF books, healed
  <2> QED BY <1>1, <1>3, <1>4, <1>8, <2>1 DEF MessageKinds
<1>9. CASE item.kind \in MessageKinds /\ item.tokens = {} /\ item.missed \subseteq worker.retired
  <2>1. books = r.books
    BY <1>9
  <2>2. missed \cap books = {}
    BY <1>2, <1>4, <1>9, <2>1
  <2> HIDE DEF books, healed
  <2> QED BY <1>1, <1>3, <1>9, <2>1, <2>2 DEF MessageKinds
<1> QED BY <1>5, <1>6, <1>7, <1>8, <1>9 DEF Due

(* The worker that puts the record goes on as the replay does.             *)
LEMMA AfterPutAgrees ==
  ASSUME NEW w \in Workers, NEW worker, NEW item, Bearer(w, worker), Due(w, worker, item),
         NEW replays \in [Streams -> Replays], NEW next \in [Streams -> Replays],
         \A a \in 0..MaxAttempts - 1 : a > worker.attempt => next[<<w, a>>] = NoReplay,
         next[<<w, worker.attempt>>].next = worker.seq + 1,
         item.kind = "subscription_removed" =>
           next[<<w, worker.attempt>>].books \subseteq worker.subscribed \ item.tokens,
         next[<<w, worker.attempt>>].books \subseteq worker.subscribed
  PROVE  Agrees(w, AfterPut(worker, item), next)
<1> DEFINE after == AfterPut(worker, item)
           nw == [worker EXCEPT !.seq = @ + 1, !.item = NoItem, !.missed = {}]
<1>1. worker \in WorkerStates /\ worker.attempt \in Nat /\ worker.attempt < MaxAttempts
  BY Bounds DEF Bearer, WorkerStates
<1>2. nw.seq = worker.seq + 1 /\ nw.attempt = worker.attempt /\ nw.subscribed = worker.subscribed
  BY <1>1 DEF WorkerStates
<1>3. item.kind \in Kinds
  BY DEF Due, Items
<1>4. nw \in WorkerStates
  <2>1. worker.seq + 1 \in Nat /\ NoItem \in Items \cup {NoItem} /\ {} \in SUBSET Tokens
    BY <1>1 DEF WorkerStates
  <2> QED BY <1>1, <2>1 DEF WorkerStates
<1> HIDE DEF nw
<1>5. CASE item.kind = "closing"
  <2>1. after = IF ~Running \/ worker.tokens \cap active = {} THEN Ended
                ELSE [nw EXCEPT !.pc = "asleep", !.attempt = @ + 1, !.seq = 0, !.subscribed = {}]
    BY <1>5 DEF AfterPut, nw, MessageKinds
  <2> HIDE DEF after
  <2>2. CASE after = Ended
    <3>1. after.pc = "done"
      BY <2>2, EndedShape
    <3> QED BY <3>1 DEF Agrees, after
  <2>3. CASE after # Ended
    <3>1. after.pc = "asleep" /\ after.attempt = worker.attempt + 1
      BY <1>2, <1>4, <2>1, <2>3 DEF WorkerStates
    <3>2. Agrees(w, after, next)
      BY <1>1, <3>1, Bounds DEF Agrees
    <3> QED BY <3>2 DEF after
  <2> QED BY <2>2, <2>3
<1>6. CASE item.kind = "subscription_removed"
  <2>1. after = [nw EXCEPT !.pc = "open", !.subscribed = @ \ item.tokens, !.tokens = @ \ item.tokens,
                           !.retired = @ \cup item.tokens]
    BY <1>6 DEF AfterPut, nw, MessageKinds
  <2>2. after.pc = "open" /\ after.attempt = worker.attempt /\ after.seq = worker.seq + 1
        /\ after.subscribed = worker.subscribed \ item.tokens
    BY <1>2, <1>4, <2>1 DEF WorkerStates
  <2> HIDE DEF after
  <2>3. Agrees(w, after, next)
    BY <1>6, <2>2 DEF Agrees
  <2> QED BY <2>3 DEF after
<1>7. CASE item.kind \notin {"closing", "subscription_removed"}
  <2>1. PICK pc \in {"connecting", "open", "closing"} : after = [nw EXCEPT !.pc = pc]
    BY <1>3, <1>7 DEF AfterPut, nw, MessageKinds, Kinds, ResetKinds
  <2>2. after.pc = pc /\ after.attempt = worker.attempt /\ after.seq = worker.seq + 1
        /\ after.subscribed = worker.subscribed
    BY <1>2, <1>4, <2>1 DEF WorkerStates
  <2> HIDE DEF after
  <2>3. Agrees(w, after, next)
    BY <2>2 DEF Agrees
  <2> QED BY <2>3 DEF after
<1> QED BY <1>5, <1>6, <1>7

(* A record on the queue.                                                  *)
LEMMA EnqueueKeepsWhole ==
  ASSUME TypeOK, Shape, NEW tr, KeptBy(tr, appended, queue, accepted, workers),
         NEW w \in Workers, NEW worker, NEW item, Bearer(w, worker), Due(w, worker, item),
         \A a \in 0..MaxAttempts - 1 : a > worker.attempt => tr[Len(queue)][<<w, a>>] = NoReplay,
         tr[Len(queue)][<<w, worker.attempt>>].next = worker.seq,
         tr[Len(queue)][<<w, worker.attempt>>].books \subseteq worker.subscribed,
         Enqueue(w, worker, item), appended' = appended
  PROVE  \E to : KeptBy(to, appended', queue', accepted', workers')
<1> DEFINE L == Len(queue)
           to == [i \in 0..(L + 1) |-> IF i \in 0..L THEN tr[i] ELSE Step(tr[L], item)]
           s == <<w, worker.attempt>>
<1>1. queue \in Seq(Items) /\ L \in Nat /\ accepted \in [Streams -> Nat] /\ workers \in [Workers -> WorkerStates]
  BY DEF TypeOK
<1>2. item \in Items /\ item.stream = s /\ item.seq = worker.seq /\ s \in Streams
  BY DEF Due, Items
<1>3. /\ IsTrace(tr, appended, queue) /\ tr \in [0..L -> [Streams -> Replays]]
      /\ \A i \in 0..L : IsHonest(tr[i])
      /\ \A x \in Streams : tr[L][x].next = accepted[x]
      /\ \A v \in Workers : Agrees(v, workers[v], tr[L])
  BY DEF KeptBy, IsTrace
<1>4. queue' = Append(queue, item) /\ Len(queue') = L + 1
  BY <1>1 DEF Enqueue
<1>5. IsTrace(to, appended', queue')
  BY <1>1, <1>2, <1>3, <1>4, TraceAppend
<1>6. L \in 0..L /\ tr[L] \in [Streams -> Replays]
  BY <1>1, <1>3
<1>7. /\ Step(tr[L], item) \in [Streams -> Replays]
      /\ Step(tr[L], item)[s] = Replay(tr[L][s], item)
      /\ \A x \in Streams : x # s => Step(tr[L], item)[x] = tr[L][x]
  BY <1>2, <1>6, StepType
<1>8. /\ Replay(tr[L][s], item).behind = {} /\ Replay(tr[L][s], item).next = worker.seq + 1
      /\ item.kind = "subscription_removed" =>
           Replay(tr[L][s], item).books \subseteq worker.subscribed \ item.tokens
      /\ Replay(tr[L][s], item).books \subseteq worker.subscribed
  <2>1. tr[L][s] \in Replays /\ tr[L][s].behind = {}
    BY <1>2, <1>3, <1>6 DEF IsHonest
  <2> HIDE DEF L, s
  <2> QED BY <2>1, ReplayDue DEF L, s
<1> DEFINE last == Step(tr[L], item)
<1>9. to[L + 1] = last /\ \A i \in 0..L : to[i] = tr[i]
  BY <1>1
<1> HIDE DEF last, to
<1>10. IsHonest(last)
  <2>1. IsHonest(tr[L])
    BY <1>3, <1>6
  <2> QED BY <1>7, <1>8, <2>1 DEF IsHonest, last
<1>11. \A i \in 0..(L + 1) : IsHonest(to[i])
  <2>1. \A i \in 0..(L + 1) : i = L + 1 \/ i \in 0..L
    BY <1>1
  <2> QED BY <1>3, <1>9, <1>10, <2>1
<1>12. ASSUME NEW x \in Streams PROVE last[x].next = accepted'[x]
  <2>1. accepted' = [accepted EXCEPT ![s] = @ + 1]
    BY <1>2 DEF Enqueue
  <2>2. CASE x = s
    <3>1. last[x].next = worker.seq + 1
      BY <1>7, <1>8, <2>2 DEF last
    <3>2. accepted[s] = worker.seq
      BY <1>2, <1>3
    <3> HIDE DEF s
    <3> QED BY <1>1, <1>2, <2>1, <2>2, <3>1, <3>2
  <2>3. CASE x # s
    <3>1. last[x] = tr[L][x]
      BY <1>7, <2>3 DEF last
    <3> HIDE DEF s
    <3> QED BY <1>1, <1>3, <2>1, <2>3, <3>1
  <2> QED BY <2>2, <2>3
<1>13. ASSUME NEW v \in Workers PROVE Agrees(v, workers'[v], last)
  <2>1. workers' = [workers EXCEPT ![w] = AfterPut(worker, item)]
    BY DEF Enqueue
  <2>2. CASE v = w
    <3>1. \A a \in 0..MaxAttempts - 1 : a > worker.attempt => last[<<w, a>>] = NoReplay
      <4> SUFFICES ASSUME NEW a \in 0..MaxAttempts - 1, a > worker.attempt PROVE last[<<w, a>>] = NoReplay
        OBVIOUS
      <4>1. <<w, a>> \in Streams /\ <<w, a>> # s
        BY DEF Streams
      <4> HIDE DEF s
      <4> QED BY <1>7, <4>1 DEF last
    <3>2. last[s].next = worker.seq + 1 /\ last[s].books \subseteq worker.subscribed
          /\ (item.kind = "subscription_removed" => last[s].books \subseteq worker.subscribed \ item.tokens)
      BY <1>7, <1>8 DEF last
    <3>3. last \in [Streams -> Replays]
      BY <1>7 DEF last
    <3>4. Agrees(w, AfterPut(worker, item), last)
      BY <3>1, <3>2, <3>3, AfterPutAgrees
    <3> QED BY <1>1, <2>1, <2>2, <3>4
  <2>3. CASE v # w
    <3>1. \A a \in 0..MaxAttempts - 1 : last[<<v, a>>] = tr[L][<<v, a>>]
      <4> SUFFICES ASSUME NEW a \in 0..MaxAttempts - 1 PROVE last[<<v, a>>] = tr[L][<<v, a>>]
        OBVIOUS
      <4>1. <<v, a>> \in Streams /\ <<v, a>> # s
        BY <2>3 DEF Streams
      <4> HIDE DEF s
      <4> QED BY <1>7, <4>1 DEF last
    <3>2. workers'[v] = workers[v] /\ workers[v].attempt \in 0..MaxAttempts
      BY <1>1, <2>1, <2>3 DEF WorkerStates
    <3>3. Agrees(v, workers[v], tr[L])
      BY <1>3
    <3>4. workers[v].pc \notin {"unborn", "asleep", "done"} => workers[v].attempt < MaxAttempts
      BY DEF Shape, WorkerShape
    <3> QED BY <3>1, <3>2, <3>3, <3>4, Bounds DEF Agrees
  <2> QED BY <2>2, <2>3
<1>14. KeptBy(to, appended', queue', accepted', workers')
  BY <1>4, <1>5, <1>9, <1>11, <1>12, <1>13 DEF KeptBy
<1> QED BY <1>14

(* A live worker shows that the session has not ended.                     *)
LEMMA NotEnded ==
  ASSUME Whole, outcome # "budget_stop", NEW w \in Workers, workers[w].pc \notin {"unborn", "done"}
  PROVE  phase # "ended"
  BY DEF Whole, Live

(* A step that puts nothing on the queue and takes nothing off it.         *)
LEMMA MoveKeepsWhole ==
  ASSUME Whole, outcome' # "budget_stop", outcome # "budget_stop",
         queue' = queue, appended' = appended, accepted' = accepted,
         ASSUME NEW tr, NEW w \in Workers, Agrees(w, workers[w], tr[Len(queue)])
         PROVE  Agrees(w, workers'[w], tr[Len(queue)])
  PROVE  \E tr : KeptBy(tr, appended', queue', accepted', workers')
<1>1. PICK tr : KeptBy(tr, appended, queue, accepted, workers)
  BY DEF Whole
<1>2. \A w \in Workers : Agrees(w, workers'[w], tr[Len(queue)])
  BY <1>1 DEF KeptBy
<1>3. KeptBy(tr, appended', queue', accepted', workers')
  BY <1>1, <1>2 DEF KeptBy
<1> QED BY <1>3

LEMMA OfferKeepsWhole ==
  ASSUME InvT, Whole, NEW w \in Workers, NEW worker, NEW item, Offers(w, worker, item)
  PROVE  Whole'
<1>1. /\ workers[w].pc \notin {"unborn", "blocked", "done"}
      /\ Bearer(w, worker) /\ Due(w, worker, item)
      /\ worker.attempt = workers[w].attempt /\ worker.seq = workers[w].seq
      /\ workers[w].pc # "asleep" => worker.subscribed = workers[w].subscribed
      /\ Offer(w, worker, item)
  BY DEF Offers
<1>2. phase' = phase /\ outcome' = outcome /\ appended' = appended /\ committed' = committed
  BY DEF Offers, main, evidence
<1>3. phase = "record" => outcome = "none"
  BY DEF Whole
<1>4. ASSUME outcome # "budget_stop" PROVE \E tr : KeptBy(tr, appended', queue', accepted', workers')
  <2>1. TypeOK /\ Shape /\ workers \in [Workers -> WorkerStates] /\ worker \in WorkerStates
    BY <1>1 DEF InvT, TypeOK, Bearer
  <2>2. worker.attempt \in 0..MaxAttempts - 1
    BY <1>1, Bounds DEF Bearer, WorkerStates
  <2>3. workers[w].pc = "asleep" => worker.seq = 0
    BY <1>1, <2>1 DEF Shape, WorkerShape
  <2>4. ASSUME NEW replays, Agrees(w, workers[w], replays)
        PROVE  /\ \A a \in 0..MaxAttempts - 1 : a > worker.attempt => replays[<<w, a>>] = NoReplay
               /\ replays[<<w, worker.attempt>>].next = worker.seq
               /\ replays[<<w, worker.attempt>>].books \subseteq worker.subscribed
    <3>1. CASE workers[w].pc = "asleep"
      <4>1. worker.attempt < MaxAttempts
        BY <2>2, Bounds
      <4>2. replays[<<w, worker.attempt>>] = NoReplay
        BY <1>1, <2>4, <3>1, <4>1 DEF Agrees
      <4>3. \A a \in 0..MaxAttempts - 1 : a > worker.attempt => replays[<<w, a>>] = NoReplay
        BY <1>1, <2>4, <3>1 DEF Agrees
      <4> QED BY <2>3, <3>1, <4>2, <4>3, NoReplayType
    <3>2. CASE workers[w].pc # "asleep"
      BY <1>1, <2>4, <3>2 DEF Agrees
    <3> QED BY <3>1, <3>2
  <2>5. CASE admission = << >> /\ Fits(item)
    <3>1. PICK tr : KeptBy(tr, appended, queue, accepted, workers)
      BY <1>4 DEF Whole
    <3>2. Agrees(w, workers[w], tr[Len(queue)])
      BY <3>1 DEF KeptBy
    <3>3. Enqueue(w, worker, item)
      BY <1>1, <2>5 DEF Offer
    <3> QED BY <1>1, <1>2, <2>1, <2>4, <3>1, <3>2, <3>3, EnqueueKeepsWhole
  <2>6. CASE ~(admission = << >> /\ Fits(item))
    <3> DEFINE new == [worker EXCEPT !.pc = "blocked", !.item = item]
    <3>1. /\ workers' = [workers EXCEPT ![w] = new] /\ queue' = queue /\ accepted' = accepted
      BY <1>1, <2>6 DEF Offer, control
    <3>2. /\ new.pc = "blocked" /\ new.subscribed = worker.subscribed
          /\ new.attempt = worker.attempt /\ new.seq = worker.seq
      BY <2>1 DEF WorkerStates
    <3> HIDE DEF new
    <3>3. workers'[w] = new /\ \A v \in Workers : v # w => workers'[v] = workers[v]
      BY <2>1, <3>1
    <3>4. ASSUME NEW tr, NEW v \in Workers, Agrees(v, workers[v], tr[Len(queue)])
          PROVE  Agrees(v, workers'[v], tr[Len(queue)])
      <4>1. CASE v = w
        <5>1. Agrees(w, new, tr[Len(queue)])
          BY <2>4, <3>2, <3>4, <4>1 DEF Agrees
        <5> QED BY <3>3, <4>1, <5>1
      <4>2. CASE v # w
        BY <3>3, <3>4, <4>2
      <4> QED BY <4>1, <4>2
    <3> QED BY <1>2, <1>4, <3>1, <3>4, MoveKeepsWhole
  <2> QED BY <2>5, <2>6
<1>5. outcome # "budget_stop" => phase # "ended"
  BY <1>1, NotEnded
<1>6. outcome # "budget_stop" => IsHonest(committed)
  BY DEF Whole
<1> QED BY <1>2, <1>3, <1>4, <1>5, <1>6 DEF Whole

LEMMA AdmitKeepsWhole ==
  ASSUME InvT, Whole, Admit
  PROVE  Whole'
<1> DEFINE w == Head(admission)
           item == workers[w].item
<1>1. Enqueue(w, workers[w], item)
      /\ phase' = phase /\ outcome' = outcome /\ appended' = appended /\ committed' = committed
  BY DEF Admit, main, evidence
<1>2. TypeOK /\ Shape /\ Waits
  BY TypeIsWaits DEF InvT
<1>3. w \in Workers /\ workers[w].pc = "blocked"
  <2>1. admission # << >>
    BY DEF Admit
  <2>2. admission \in Seq(Workers) /\ w = admission[1] /\ 1 \in DOMAIN admission /\ admission[1] \in Workers
    BY <1>2, <2>1 DEF Waits
  <2> QED BY <1>2, <2>2 DEF Waits
<1>4. Bearer(w, workers[w]) /\ Due(w, workers[w], item)
  BY <1>3, BlockedWorker
<1> HIDE DEF w, item
<1>5. ASSUME outcome # "budget_stop" PROVE \E tr : KeptBy(tr, appended', queue', accepted', workers')
  <2>1. PICK tr : KeptBy(tr, appended, queue, accepted, workers)
    BY <1>5 DEF Whole
  <2>2. Agrees(w, workers[w], tr[Len(queue)])
    BY <1>3, <2>1 DEF KeptBy
  <2>3. /\ \A a \in 0..MaxAttempts - 1 : a > workers[w].attempt => tr[Len(queue)][<<w, a>>] = NoReplay
        /\ tr[Len(queue)][<<w, workers[w].attempt>>].next = workers[w].seq
        /\ tr[Len(queue)][<<w, workers[w].attempt>>].books \subseteq workers[w].subscribed
    BY <1>3, <2>2 DEF Agrees
  <2> QED BY <1>1, <1>2, <1>3, <1>4, <2>1, <2>3, EnqueueKeepsWhole
<1>6. outcome # "budget_stop" => phase # "ended"
  BY <1>3, NotEnded
<1> QED BY <1>1, <1>5, <1>6 DEF Whole

(* One worker moves on without a record.                                   *)
LEMMA LoneKeepsWhole ==
  ASSUME InvT, Whole, NEW w \in Workers, workers[w].pc \notin {"unborn", "done"}, NEW new,
         workers' = [workers EXCEPT ![w] = new],
         queue' = queue, appended' = appended, accepted' = accepted, committed' = committed,
         phase' = phase, outcome' = outcome,
         ASSUME NEW replays, Agrees(w, workers[w], replays) PROVE Agrees(w, new, replays)
  PROVE  Whole'
<1>1. workers \in [Workers -> WorkerStates]
  BY DEF InvT, TypeOK
<1>2. workers'[w] = new /\ \A v \in Workers : v # w => workers'[v] = workers[v]
  BY <1>1
<1>3. ASSUME NEW tr, NEW v \in Workers, Agrees(v, workers[v], tr[Len(queue)])
      PROVE  Agrees(v, workers'[v], tr[Len(queue)])
  <2>1. CASE v = w
    BY <1>2, <1>3, <2>1
  <2>2. CASE v # w
    BY <1>2, <1>3, <2>2
  <2> QED BY <2>1, <2>2
<1>4. outcome # "budget_stop" => \E tr : KeptBy(tr, appended', queue', accepted', workers')
  BY <1>3, MoveKeepsWhole
<1>5. outcome # "budget_stop" => phase # "ended"
  BY NotEnded
<1> QED BY <1>4, <1>5 DEF Whole

LEMMA WorkerKeepsWhole ==
  ASSUME InvT, Whole, NEW w \in Workers, Worker(w)
  PROVE  Whole'
<1>1. CASE Disconnect(w)
  <2>1. PICK pc \in {"closing", "gathering"} :
          /\ workers[w].pc = IF pc = "closing" THEN "connecting" ELSE "open"
          /\ workers' = [workers EXCEPT ![w].pc = pc]
    BY <1>1 DEF Disconnect
  <2>2. queue' = queue /\ accepted' = accepted /\ phase' = phase /\ outcome' = outcome
        /\ appended' = appended /\ committed' = committed
    BY <1>1 DEF Disconnect, control, channel, main, evidence
  <2> DEFINE new == [workers[w] EXCEPT !.pc = pc]
  <2>3. workers' = [workers EXCEPT ![w] = new]
    BY <2>1
  <2>4. workers[w] \in WorkerStates
    BY WorkerFacts
  <2>5. new.pc = pc /\ new.attempt = workers[w].attempt /\ new.seq = workers[w].seq
        /\ new.subscribed = workers[w].subscribed
    BY <2>4 DEF WorkerStates
  <2> HIDE DEF new
  <2>6. ASSUME NEW replays, Agrees(w, workers[w], replays) PROVE Agrees(w, new, replays)
    BY <2>1, <2>5, <2>6 DEF Agrees
  <2>7. workers[w].pc \notin {"unborn", "done"}
    BY <2>1
  <2> QED BY <2>2, <2>3, <2>6, <2>7, LoneKeepsWhole
<1>2. CASE Leaves(w)
  <2>1. workers' = [workers EXCEPT ![w] = Ended] /\ workers[w].pc = "asleep"
        /\ queue' = queue /\ accepted' = accepted /\ phase' = phase /\ outcome' = outcome
        /\ appended' = appended /\ committed' = committed
    BY <1>2 DEF Leaves, control, channel, main, evidence
  <2>2. ASSUME NEW replays PROVE Agrees(w, Ended, replays)
    BY EndedShape DEF Agrees
  <2> QED BY <2>1, <2>2, LoneKeepsWhole
<1>3. CASE \E worker, item : Offers(w, worker, item)
  BY <1>3, OfferKeepsWhole
<1> QED BY <1>1, <1>2, <1>3, WorkerIs

LEMMA ApplyCatalogKeepsWhole ==
  ASSUME InvT, Whole, ApplyCatalog
  PROVE  Whole'
<1>1. PICK catalog \in Catalogs :
        /\ Cardinality(Sharding(NewTokens(Admitted(catalog))))
             <= Cardinality({w \in Workers : workers[w].pc = "unborn"})
        /\ workers' = Launched(workers, NewTokens(Admitted(catalog)))
  BY DEF ApplyCatalog
<1> DEFINE new == NewTokens(Admitted(catalog))
<1>2. /\ queue' = queue /\ accepted' = accepted /\ phase' = phase /\ outcome' = outcome
      /\ appended' = appended /\ committed' = committed /\ phase # "ended"
  BY DEF ApplyCatalog, channel, main, evidence, Running
<1>3. new \in SUBSET Tokens
  BY ShardAssumption DEF Admitted, NewTokens
<1>4. PICK b \in 0..MaxWorkers : Suffix(workers, b)
  BY DEF InvT, Births, Suffix
<1>5. Cardinality(Sharding(new)) <= MaxWorkers - b
  BY <1>1, <1>4, BornAre
<1>6. workers \in [Workers -> WorkerStates] /\ \A w \in Workers : WorkerShape(w, workers[w])
  BY DEF InvT, TypeOK, Shape
<1> HIDE DEF new
<1>7. workers' = Launched(workers, new)
  BY <1>1 DEF new
<1>8. /\ \A w \in Workers : workers[w].pc # "unborn" => workers'[w] = workers[w]
      /\ \A w \in Workers : workers[w].pc = "unborn" => workers'[w].pc \in {"unborn", "asleep"}
      /\ \A w \in Workers : workers'[w].pc = "asleep" /\ workers[w].pc = "unborn" => workers'[w].attempt = 0
      /\ \A w \in Workers : WorkerShape(w, workers'[w])
  BY <1>3, <1>4, <1>5, <1>6, <1>7, LaunchedIs
<1>9. ASSUME NEW tr, NEW w \in Workers, Agrees(w, workers[w], tr[Len(queue)])
      PROVE  Agrees(w, workers'[w], tr[Len(queue)])
  <2>1. CASE workers[w].pc = "unborn"
    <3>1. workers[w] = Unborn /\ workers[w].attempt = 0
      BY <1>6, <2>1 DEF WorkerShape, Unborn
    <3>2. workers'[w].pc \in {"unborn", "asleep"} /\ workers'[w].attempt = 0
      BY <1>8, <2>1 DEF WorkerShape, Unborn
    <3> QED BY <1>9, <2>1, <3>1, <3>2 DEF Agrees
  <2>2. CASE workers[w].pc # "unborn"
    BY <1>8, <1>9, <2>2
  <2> QED BY <2>1, <2>2
<1>10. outcome # "budget_stop" => \E tr : KeptBy(tr, appended', queue', accepted', workers')
  BY <1>2, <1>9, MoveKeepsWhole
<1> QED BY <1>2, <1>10 DEF Whole

(* The batch is appended as far as the trace goes.                         *)
LEMMA ConsumeKeepsWhole ==
  ASSUME InvT, Whole, Consume
  PROVE  Whole'
<1>1. /\ workers' = workers /\ accepted' = accepted /\ phase' = phase /\ outcome' = outcome /\ TakeBatch
      /\ phase # "ended"
      /\ appended' = Replayed(appended, Batch)[Len(Batch)] /\ committed' \in Committable(Len(Batch))
  BY DEF Consume, TakeBatch, main
<1>2. /\ Len(Batch) \in 1..Len(queue) /\ Batch = SubSeq(queue, 1, Len(Batch))
      /\ queue' = SubSeq(queue, Len(Batch) + 1, Len(queue)) /\ Len(queue') = Len(queue) - Len(Batch)
      /\ queue \in Seq(Items) /\ appended \in [Streams -> Replays]
  BY <1>1, BatchIs DEF InvT, TypeOK
<1> SUFFICES ASSUME outcome # "budget_stop"
             PROVE  /\ \E tr : KeptBy(tr, appended', queue', accepted', workers')
                    /\ IsHonest(committed')
  BY <1>1 DEF Whole
<1>3. PICK tr : KeptBy(tr, appended, queue, accepted, workers)
  BY DEF Whole
<1> DEFINE n == Len(Batch)
           L == Len(queue)
           rest == [i \in 0..(L - n) |-> tr[n + i]]
<1>4. IsTrace(tr, appended, queue) /\ \A i \in 0..L : IsHonest(tr[i])
  BY <1>3 DEF KeptBy
<1>5. \A k \in 0..n : Replayed(appended, Batch)[k] = tr[k]
  <2>1. n \in 0..L
    BY <1>2
  <2>2. \A k \in 0..n : Replayed(appended, SubSeq(queue, 1, n))[k] = tr[k]
    BY <1>2, <1>4, <2>1, ReplayedFront
  <2> QED BY <1>2, <2>2
<1>6. IsTrace(rest, tr[n], queue')
  <2>1. n \in 0..L
    BY <1>2
  <2> QED BY <1>2, <1>4, <2>1, TraceRest
<1>7. appended' = tr[n]
  BY <1>1, <1>2, <1>5
<1>8. \A i \in 0..(L - n) : rest[i] = tr[n + i] /\ n + i \in 0..L
  BY <1>2
<1>9. rest[L - n] = tr[L]
  <2>1. L - n \in 0..(L - n) /\ n + (L - n) = L
    BY <1>2
  <2> QED BY <1>8, <2>1
<1> HIDE DEF rest
<1>10. KeptBy(rest, appended', queue', accepted', workers')
  BY <1>1, <1>2, <1>3, <1>4, <1>6, <1>7, <1>8, <1>9 DEF KeptBy
<1>11. IsHonest(committed')
  <2>1. committed' = committed \/ \E first \in 1..n : committed' = Replayed(appended, Batch)[first - 1]
    BY <1>1 DEF Committable
  <2>2. ASSUME NEW first \in 1..n, committed' = Replayed(appended, Batch)[first - 1]
        PROVE  IsHonest(committed')
    <3>1. first - 1 \in 0..n /\ first - 1 \in 0..L
      BY <1>2
    <3> QED BY <1>4, <1>5, <2>2, <3>1
  <2> QED BY <2>1, <2>2 DEF Whole
<1> QED BY <1>10, <1>11

LEMMA CancelledAgrees ==
  ASSUME NEW w \in Workers, NEW worker \in WorkerStates, NEW replays, Agrees(w, worker, replays)
  PROVE  Agrees(w, Cancelled(worker), replays)
<1> DEFINE new == Cancelled(worker)
<1>1. CASE worker.pc \in {"unborn", "done"}
  BY <1>1 DEF Cancelled
<1>2. CASE worker.pc \in {"asleep", "gathering"} \/ (worker.pc = "blocked" /\ worker.item.kind = "closing")
  <2>1. new = Ended
    BY <1>2 DEF Cancelled
  <2> QED BY <2>1, EndedShape DEF Agrees
<1>3. CASE ~(worker.pc \in {"unborn", "done", "asleep", "gathering"})
           /\ ~(worker.pc = "blocked" /\ worker.item.kind = "closing")
  <2>1. new = [worker EXCEPT !.pc = "closing", !.item = NoItem, !.missed = @ \cup worker.item.tokens]
    BY <1>3 DEF Cancelled
  <2> HIDE DEF new
  <2>2. /\ new.pc = "closing" /\ new.subscribed = worker.subscribed
        /\ new.seq = worker.seq /\ new.attempt = worker.attempt
    BY <2>1 DEF WorkerStates
  <2>3. Agrees(w, new, replays)
    BY <1>3, <2>2 DEF Agrees
  <2> QED BY <2>3 DEF new
<1> QED BY <1>1, <1>2, <1>3

LEMMA MainKeepsWhole ==
  ASSUME InvT, Whole, Main
  PROVE  Whole'
<1>1. CASE Consume
  BY <1>1, ConsumeKeepsWhole
<1>2. CASE Rotate
  <2>1. /\ workers' = workers /\ queue' = queue /\ phase' = phase /\ outcome' = outcome
        /\ accepted' = accepted /\ appended' = appended /\ committed' = appended /\ phase = "record"
    BY <1>2 DEF Rotate, control, main, channel
  <2>2. outcome # "budget_stop" => \E tr : KeptBy(tr, appended', queue', accepted', workers')
    BY <2>1 DEF Whole
  <2>3. outcome # "budget_stop" => IsHonest(appended)
    <3> SUFFICES ASSUME outcome # "budget_stop" PROVE IsHonest(appended)
      OBVIOUS
    <3>1. PICK tr : KeptBy(tr, appended, queue, accepted, workers)
      BY DEF Whole
    <3>2. 0 \in 0..Len(queue)
      BY DEF InvT, TypeOK
    <3> QED BY <3>1, <3>2 DEF KeptBy, IsTrace
  <2> QED BY <2>1, <2>2, <2>3 DEF Whole
<1>3. CASE AppendFails
  <2>1. outcome' = "budget_stop" /\ phase' \in {"stopping", "ended"}
    BY <1>3 DEF AppendFails
  <2> QED BY <2>1 DEF Whole
<1>4. CASE Stop
  <2>1. /\ accepted' = accepted /\ queue' = queue /\ appended' = appended /\ committed' = committed
        /\ phase' = "drain" /\ workers' = [w \in Workers |-> Cancelled(workers[w])]
        /\ phase = "record" \/ (phase = "stopping" /\ outcome' = outcome)
    BY <1>4 DEF Stop, control, evidence
  <2>2. outcome' # "budget_stop" => outcome # "budget_stop"
    BY <2>1 DEF Whole
  <2>3. workers \in [Workers -> WorkerStates]
    BY DEF InvT, TypeOK
  <2>4. ASSUME NEW tr, NEW w \in Workers, Agrees(w, workers[w], tr[Len(queue)])
        PROVE  Agrees(w, workers'[w], tr[Len(queue)])
    <3>1. workers'[w] = Cancelled(workers[w]) /\ workers[w] \in WorkerStates
      BY <2>1, <2>3
    <3> QED BY <2>4, <3>1, CancelledAgrees
  <2>5. outcome' # "budget_stop" => \E tr : KeptBy(tr, appended', queue', accepted', workers')
    BY <2>1, <2>2, <2>4, MoveKeepsWhole
  <2>6. outcome' # "budget_stop" => IsHonest(committed')
    BY <2>1, <2>2 DEF Whole
  <2> QED BY <2>1, <2>5, <2>6 DEF Whole
<1>5. CASE Finish
  <2>1. /\ workers' = workers /\ queue' = queue /\ phase' = "ended" /\ accepted' = accepted
        /\ appended' = appended /\ Drained
        /\ outcome' = "budget_stop" \/ (committed' = appended /\ outcome' = outcome)
    BY <1>5 DEF Finish, channel, evidence
  <2> SUFFICES ASSUME outcome' # "budget_stop" PROVE Whole'
    BY <2>1 DEF Whole
  <2>2. committed' = appended /\ outcome' = outcome /\ outcome # "budget_stop"
    BY <2>1
  <2>3. PICK tr : KeptBy(tr, appended, queue, accepted, workers)
    BY <2>2 DEF Whole
  <2>4. 0 \in 0..Len(queue)
    BY DEF InvT, TypeOK
  <2>5. IsHonest(appended)
    BY <2>3, <2>4 DEF KeptBy, IsTrace
  <2>6. queue = << >> /\ Live' = {}
    BY <2>1 DEF Drained, QueueEmpty, Live
  <2>7. KeptBy(tr, appended', queue', accepted', workers')
    BY <2>1, <2>3
  <2> QED BY <2>1, <2>2, <2>5, <2>6, <2>7 DEF Whole
<1> QED BY <1>1, <1>2, <1>3, <1>4, <1>5 DEF Main

LEMMA InitWhole == Init => Whole
<1> SUFFICES ASSUME Init PROVE Whole
  OBVIOUS
<1>1. /\ workers \in [Workers -> WorkerStates]
      /\ \A w \in Workers : workers[w].pc \in {"unborn", "asleep"} /\ workers[w].attempt = 0
  BY InitWorkers
<1>2. /\ queue = << >> /\ phase = "record" /\ outcome = "none"
      /\ appended = [s \in Streams |-> NoReplay] /\ committed = appended
      /\ accepted = [s \in Streams |-> 0]
  BY DEF Init
<1>3. queue \in Seq(Items) /\ Len(queue) = 0 /\ appended \in [Streams -> Replays]
  BY <1>2, NoReplayType
<1>4. PICK tr : IsTrace(tr, appended, queue)
  BY <1>3, TracesExist
<1>5. tr[0] = appended
  BY <1>4 DEF IsTrace
<1>6. IsHonest(appended)
  BY <1>2, NoReplayType DEF IsHonest
<1>7. ASSUME NEW w \in Workers PROVE Agrees(w, workers[w], appended)
  <2>1. \A a \in 0..MaxAttempts - 1 : appended[<<w, a>>] = NoReplay
    BY <1>2 DEF Streams
  <2>2. 0 \in 0..MaxAttempts - 1
    BY Bounds
  <2> QED BY <1>1, <2>1, <2>2 DEF Agrees
<1>8. \A s \in Streams : appended[s].next = accepted[s]
  BY <1>2, NoReplayType
<1>9. KeptBy(tr, appended, queue, accepted, workers)
  BY <1>3, <1>4, <1>5, <1>6, <1>7, <1>8 DEF KeptBy
<1> QED BY <1>2, <1>6, <1>9 DEF Whole

LEMMA NextKeepsWhole == InvT /\ Whole /\ [Next]_vars => Whole'
<1> SUFFICES ASSUME InvT, Whole, [Next]_vars PROVE Whole'
  OBVIOUS
<1>1. CASE \E w \in Workers : Worker(w)
  BY <1>1, WorkerKeepsWhole
<1>2. CASE Admit
  BY <1>2, AdmitKeepsWhole
<1>3. CASE ApplyCatalog
  BY <1>3, ApplyCatalogKeepsWhole
<1>4. CASE Main
  BY <1>4, MainKeepsWhole
<1>5. CASE UNCHANGED vars
  <2>1. /\ workers' = workers /\ queue' = queue /\ phase' = phase /\ outcome' = outcome
        /\ accepted' = accepted /\ appended' = appended /\ committed' = committed
    BY <1>5 DEF vars, control, channel, main, evidence
  <2> QED BY <2>1 DEF Whole, Live
<1> QED BY <1>1, <1>2, <1>3, <1>4, <1>5 DEF Next

(* However records queue, batches are cut, workers reconnect and messages   *)
(* are lost, and wherever the session stops: unless its byte budget stopped *)
(* it, what is committed replays to books that lack nothing, and a session  *)
(* that completes has committed every record it accepted.                   *)
THEOREM CommitsAreWhole == Spec => []CommittedIsWhole
<1>1. Init => InvT /\ Whole
  BY InitType, InitWhole
<1>2. InvT /\ Whole /\ [Next]_vars => (InvT /\ Whole)'
  BY NextKeepsType, NextKeepsWhole
<1>3. InvT /\ Whole => CommittedIsWhole
  <2> SUFFICES ASSUME InvT, Whole PROVE CommittedIsWhole
    OBVIOUS
  <2>1. ReplayIsHonestWithinBudget
    BY DEF Whole, IsHonest, ReplayIsHonestWithinBudget, ReplayIsHonest
  <2>2. AcceptedIsCommitted
    <3> SUFFICES ASSUME phase = "ended", outcome = "duration_complete", NEW s \in Streams
                 PROVE  committed[s].next = accepted[s]
      BY DEF AcceptedIsCommitted
    <3>1. queue = << >> /\ committed = appended
      BY DEF Whole
    <3>2. PICK tr : KeptBy(tr, appended, queue, accepted, workers)
      BY DEF Whole
    <3>3. Len(queue) = 0
      BY <3>1
    <3> QED BY <3>1, <3>2, <3>3 DEF KeptBy, IsTrace
  <2> QED BY <2>1, <2>2 DEF CommittedIsWhole
<1> QED BY <1>1, <1>2, <1>3, PTL DEF Spec

------------------------------------------------------------------------------
(* A token that has resolved is never recorded again *)

(* Whatever record goes on the queue, a resolution moves its tokens from   *)
(* one set to the other.                                                   *)
LEMMA EnqueueKeepsApart ==
  ASSUME ResolvedStaysOut, NEW w, NEW worker, NEW item, Enqueue(w, worker, item)
  PROVE  ResolvedStaysOut'
  BY DEF Enqueue, ResolvedStaysOut

(* A worker that has to wait for room leaves both sets alone.              *)
LEMMA OfferKeepsApart ==
  ASSUME ResolvedStaysOut, NEW w, NEW worker, NEW item, Offer(w, worker, item)
  PROVE  ResolvedStaysOut'
<1>1. CASE admission = << >> /\ Fits(item)
  BY <1>1, EnqueueKeepsApart DEF Offer
<1>2. CASE ~(admission = << >> /\ Fits(item))
  BY <1>2 DEF Offer, ResolvedStaysOut, control
<1> QED BY <1>1, <1>2

LEMMA WorkerKeepsApart ==
  ASSUME ResolvedStaysOut, NEW w \in Workers, Worker(w)
  PROVE  ResolvedStaysOut'
<1>1. CASE Connect(w)
  <2> DEFINE subscribed == workers[w].tokens \cap active
             worker == [workers[w] EXCEPT !.subscribed = subscribed]
  <2>1. CASE subscribed = {}
    BY <1>1, <2>1 DEF Connect, ResolvedStaysOut, control
  <2>2. CASE subscribed # {}
    <3>1. Offer(w, worker, Record(worker, w, "session_start", subscribed))
      BY <1>1, <2>2 DEF Connect
    <3> QED BY <3>1, OfferKeepsApart
  <2> QED BY <2>1, <2>2
<1>2. CASE Subscribe(w) \/ Unsubscribe(w) \/ Close(w)
  BY <1>2, OfferKeepsApart DEF Subscribe, Unsubscribe, Close, Emit
<1>3. CASE Disconnect(w)
  BY <1>3 DEF Disconnect, ResolvedStaysOut, control
<1>4. CASE Receive(w)
  BY <1>4, OfferKeepsApart DEF Receive
<1>5. CASE ReceiveInvalid(w)
  BY <1>5, OfferKeepsApart DEF ReceiveInvalid
<1> QED BY <1>1, <1>2, <1>3, <1>4, <1>5 DEF Worker

(* The refresher takes the tokens that have resolved out of the catalog it *)
(* has read, however old that is.                                          *)
LEMMA ApplyCatalogKeepsApart ==
  ASSUME ApplyCatalog PROVE ResolvedStaysOut'
  BY DEF ApplyCatalog, Admitted, ResolvedStaysOut

LEMMA MainKeepsApart ==
  ASSUME ResolvedStaysOut, Main PROVE ResolvedStaysOut'
  BY DEF Main, Consume, Rotate, AppendFails, Stop, Finish, ResolvedStaysOut, control

LEMMA StepKeepsApart ==
  ASSUME ResolvedStaysOut, [Next]_vars PROVE ResolvedStaysOut'
<1>1. CASE \E w \in Workers : Worker(w)
  BY <1>1, WorkerKeepsApart
<1>2. CASE Admit
  BY <1>2, EnqueueKeepsApart DEF Admit
<1>3. CASE ApplyCatalog
  BY <1>3, ApplyCatalogKeepsApart
<1>4. CASE Main
  BY <1>4, MainKeepsApart
<1>5. CASE UNCHANGED vars
  BY <1>5 DEF vars, control, ResolvedStaysOut
<1> QED BY <1>1, <1>2, <1>3, <1>4, <1>5 DEF Next

(* No refresh, however stale, and no reconnection brings back a token whose *)
(* market has resolved.                                                    *)
THEOREM ResolvedIsFinal == Spec => []ResolvedStaysOut
<1>1. Init => ResolvedStaysOut
  BY DEF Init, ResolvedStaysOut
<1>2. ResolvedStaysOut /\ [Next]_vars => ResolvedStaysOut'
  BY StepKeepsApart
<1> QED BY <1>1, <1>2, PTL DEF Spec
=============================================================================
