-------------------------- MODULE InferenceProofs --------------------------
(***************************************************************************)
(* One request gives the answers of the official functions, for every set  *)
(* of questions, every state, all budgets of the oracles, every table of   *)
(* temperatures and all outputs of the model.                              *)
(*                                                                         *)
(* The operators of Inference loop over sequences, so the proof is mostly  *)
(* about them.  Its parts:                                                 *)
(*   induction over Nat in the form of a set of numbers, and from it that  *)
(*   a recursive function exists and is the only one with its equations;   *)
(*   what Concat, Total, Below, Best and Widest compute;                   *)
(*   where the markers are in the sequence of one question (Layout), and   *)
(*   that Row and OfficialRow build the same one or both lose a marker;    *)
(*   what Collate leaves of the rows, which outputs pass the checks, and   *)
(*   which of them answer() reads;                                         *)
(*   InferenceInv, which says what a request has at each of its stages.    *)
(* Type hypotheses are mostly put behind an operator (TextsOf, Asked,      *)
(* IsPlain, Layout): a proof step opens only those it is about.            *)
(***************************************************************************)
EXTENDS Inference, FiniteSetTheorems, WellFoundedInduction, TLAPS

\* A set that has 0 and with each number the next one has all numbers: the order of
\* the naturals is well founded.
LEMMA NatSetInduction ==
  ASSUME NEW T, 0 \in T, \A n \in Nat : n \in T => n + 1 \in T
  PROVE  \A n \in Nat : n \in T
<1> DEFINE Before == OpToRel(<, Nat)
<1>1. IsWellFoundedOn(Before, Nat)
  BY NatLessThanWellFounded
<1>2. \A x, y \in Nat : x < y => <<x, y>> \in Before
  BY DEF OpToRel
<1> HIDE DEF Before
<1>3. SUFFICES ASSUME Nat \ T # {} PROVE FALSE
  OBVIOUS
<1>4. PICK x \in Nat \ T : \A y \in Nat \ T : ~(<<y, x>> \in Before)
  <2>1. Nat \ T \subseteq Nat
    OBVIOUS
  <2>2. QED
    BY <1>1, <1>3, <2>1, WFMin
<1>5. x # 0 /\ x - 1 \in Nat /\ x - 1 < x
  BY <1>4
<1>6. x - 1 \in T
  BY <1>2, <1>4, <1>5
<1>7. QED
  BY <1>4, <1>5, <1>6

\* A loop of N steps from base has a function that tells its value after each step.
LEMMA Recursion ==
  ASSUME NEW S, NEW base \in S, NEW N \in Nat, NEW step \in [1..N -> [S -> S]]
  PROVE  \E f \in [0..N -> S] : f[0] = base /\ \A n \in 1..N : f[n] = step[n][f[n - 1]]
<1> DEFINE Upto == {n \in Nat : n <= N => \E f \in [0..n -> S] :
                                  f[0] = base /\ \A m \in 1..n : f[m] = step[m][f[m - 1]]}
<1>1. 0 \in Upto
  <2>1. [n \in 0..0 |-> base] \in [0..0 -> S]
    OBVIOUS
  <2>2. [n \in 0..0 |-> base][0] = base /\ \A m \in 1..0 : FALSE
    OBVIOUS
  <2>3. QED
    BY <2>1, <2>2
<1>2. ASSUME NEW n \in Nat, n \in Upto PROVE n + 1 \in Upto
  <2>1. SUFFICES ASSUME n + 1 <= N
                 PROVE  \E f \in [0..(n + 1) -> S] :
                          f[0] = base /\ \A m \in 1..(n + 1) : f[m] = step[m][f[m - 1]]
    OBVIOUS
  <2>2. PICK f \in [0..n -> S] : f[0] = base /\ \A m \in 1..n : f[m] = step[m][f[m - 1]]
    BY <1>2, <2>1
  <2>3. step[n + 1][f[n]] \in S
    BY <2>1, <2>2
  <2> DEFINE g == [m \in 0..(n + 1) |-> IF m <= n THEN f[m] ELSE step[n + 1][f[n]]]
  <2>4. g \in [0..(n + 1) -> S]
    BY <2>2, <2>3
  <2>5. g[0] = base
    BY <2>2
  <2>6. ASSUME NEW m \in 1..(n + 1) PROVE g[m] = step[m][g[m - 1]]
    <3>1. CASE m <= n
      BY <3>1, <2>2
    <3>2. CASE m = n + 1
      BY <3>2, <2>2
    <3>3. QED
      BY <3>1, <3>2
  <2>7. QED
    BY <2>4, <2>5, <2>6
<1>3. N \in Upto
  <2> HIDE DEF Upto
  <2>1. QED
    BY <1>1, <1>2, NatSetInduction
<1>4. QED
  BY <1>3

\* The same values up to N.
Agree(f, g, N) == \A n \in 0..N : f[n] = g[n]
\* The same first value, and after the same value the same next one.
Follow(f, g, N) == f[0] = g[0] /\ \A n \in 1..N : f[n - 1] = g[n - 1] => f[n] = g[n]

\* Two functions that begin alike and step alike agree.
LEMMA SameRecursion ==
  ASSUME NEW N \in Nat, NEW f, NEW g, Follow(f, g, N)
  PROVE  Agree(f, g, N)
<1> DEFINE Same == {n \in Nat : n <= N => f[n] = g[n]}
<1>1. 0 \in Same
  BY DEF Follow
<1>2. ASSUME NEW n \in Nat, n \in Same PROVE n + 1 \in Same
  <2>1. SUFFICES ASSUME n + 1 <= N PROVE f[n + 1] = g[n + 1]
    OBVIOUS
  <2>2. n + 1 \in 1..N /\ (n + 1) - 1 = n /\ f[n] = g[n]
    BY <1>2, <2>1
  <2>3. QED
    BY <2>2 DEF Follow
<1>3. \A n \in Nat : n \in Same
  <2> HIDE DEF Same
  <2>1. QED
    BY <1>1, <1>2, NatSetInduction
<1>4. QED
  BY <1>3 DEF Agree

----------------------------------------------------------------------------
\* Texts of one kind, one per option of a question.
TextsOf(S) == Seq(Seq(S))

\* Concat appends one text after the other (the loop of row over the options).
LEMMA ConcatRecursion ==
  ASSUME NEW S, NEW seqs \in TextsOf(S)
  PROVE  \E f \in [0..Len(seqs) -> Seq(S)] :
           /\ f[0] = <<>>
           /\ \A n \in 1..Len(seqs) : f[n] = f[n - 1] \o seqs[n]
           /\ Concat(seqs) = f[Len(seqs)]
<1>1. PICK V : V = Seq(S)
  OBVIOUS
<1>2. PICK N : N = Len(seqs)
  OBVIOUS
<1>3. PICK nil : nil = <<>>
  OBVIOUS
<1>4. PICK step : step = [n \in 1..N |-> [s \in V |-> s \o seqs[n]]]
  OBVIOUS
<1>5. N \in Nat /\ nil \in V
  BY <1>1, <1>2, <1>3 DEF TextsOf
<1>6. step \in [1..N -> [V -> V]]
  BY <1>1, <1>2, <1>4 DEF TextsOf
<1>7. PICK f \in [0..N -> V] : f[0] = nil /\ \A n \in 1..N : f[n] = step[n][f[n - 1]]
  BY <1>5, <1>6, Recursion
<1>8. ASSUME NEW n \in 1..N PROVE f[n] = f[n - 1] \o seqs[n]
  <2>1. n - 1 \in 0..N
    BY <1>5
  <2>2. f[n - 1] \in V
    BY <2>1
  <2>3. step[n][f[n - 1]] = f[n - 1] \o seqs[n]
    BY <2>2, <1>4
  <2>4. QED
    BY <2>3, <1>7
<1> DEFINE upTo[n \in 0..N] == IF n = 0 THEN <<>> ELSE upTo[n - 1] \o seqs[n]
<1>9. upTo = [n \in 0..N |-> IF n = 0 THEN <<>> ELSE upTo[n - 1] \o seqs[n]]
  <2> DEFINE g == [n \in 0..N |-> IF n = 0 THEN nil ELSE f[n - 1] \o seqs[n]]
  <2>1. ASSUME NEW n \in 0..N PROVE f[n] = g[n]
    <3>1. CASE n = 0
      BY <3>1, <1>7
    <3>2. CASE n \in 1..N
      BY <3>2, <1>8, <1>5
    <3>3. QED
      BY <3>1, <3>2, <1>5
  <2>2. f = g
    BY <2>1
  <2>3. f = [n \in 0..N |-> IF n = 0 THEN <<>> ELSE f[n - 1] \o seqs[n]]
    BY <2>2, <1>3
  <2>4. QED
    BY <2>3
<1> HIDE DEF upTo
<1>10. PICK h : h = upTo
  OBVIOUS
<1>11. h = [n \in 0..N |-> IF n = 0 THEN nil ELSE h[n - 1] \o seqs[n]]
  BY <1>9, <1>10, <1>3
<1>12. h[0] = f[0]
  BY <1>11, <1>7, <1>5
<1>13. ASSUME NEW n \in 1..N, h[n - 1] = f[n - 1] PROVE h[n] = f[n]
  <2>1. n \in 0..N /\ n # 0
    BY <1>5
  <2>2. h[n] = h[n - 1] \o seqs[n]
    BY <2>1, <1>11
  <2>3. QED
    BY <2>2, <1>8, <1>13
<1>14. \A n \in 0..N : h[n] = f[n]
  <2>1. Follow(h, f, N)
    BY <1>12, <1>13 DEF Follow
  <2>2. Agree(h, f, N)
    BY <2>1, <1>5, SameRecursion
  <2>3. QED
    BY <2>2 DEF Agree
<1>15. Concat(seqs) = upTo[N]
  BY <1>2 DEF Concat, upTo
<1>16. Concat(seqs) = f[Len(seqs)]
  BY <1>10, <1>14, <1>15, <1>2, <1>5
<1>17. QED
  BY <1>16, <1>8, <1>7, <1>1, <1>2, <1>3
\* Total adds up the lengths (sum_lengths).
LEMMA TotalRecursion ==
  ASSUME NEW S, NEW seqs \in TextsOf(S)
  PROVE  \E f \in [0..Len(seqs) -> Nat] :
           /\ f[0] = 0
           /\ \A n \in 1..Len(seqs) : f[n] = f[n - 1] + Len(seqs[n])
           /\ Total(seqs) = f[Len(seqs)]
<1>1. PICK V : V = Nat
  OBVIOUS
<1>2. PICK N : N = Len(seqs)
  OBVIOUS
<1>3. PICK nil : nil = 0
  OBVIOUS
<1>4. PICK step : step = [n \in 1..N |-> [s \in V |-> s + Len(seqs[n])]]
  OBVIOUS
<1>5. N \in Nat /\ nil \in V
  BY <1>1, <1>2, <1>3 DEF TextsOf
<1>6. step \in [1..N -> [V -> V]]
  BY <1>1, <1>2, <1>4 DEF TextsOf
<1>7. PICK f \in [0..N -> V] : f[0] = nil /\ \A n \in 1..N : f[n] = step[n][f[n - 1]]
  BY <1>5, <1>6, Recursion
<1>8. ASSUME NEW n \in 1..N PROVE f[n] = f[n - 1] + Len(seqs[n])
  <2>1. n - 1 \in 0..N
    BY <1>5
  <2>2. f[n - 1] \in V
    BY <2>1
  <2>3. step[n][f[n - 1]] = f[n - 1] + Len(seqs[n])
    BY <2>2, <1>4
  <2>4. QED
    BY <2>3, <1>7
<1> DEFINE upTo[n \in 0..N] == IF n = 0 THEN 0 ELSE upTo[n - 1] + Len(seqs[n])
<1>9. upTo = [n \in 0..N |-> IF n = 0 THEN 0 ELSE upTo[n - 1] + Len(seqs[n])]
  <2> DEFINE g == [n \in 0..N |-> IF n = 0 THEN nil ELSE f[n - 1] + Len(seqs[n])]
  <2>1. ASSUME NEW n \in 0..N PROVE f[n] = g[n]
    <3>1. CASE n = 0
      BY <3>1, <1>7
    <3>2. CASE n \in 1..N
      BY <3>2, <1>8, <1>5
    <3>3. QED
      BY <3>1, <3>2, <1>5
  <2>2. f = g
    BY <2>1
  <2>3. f = [n \in 0..N |-> IF n = 0 THEN 0 ELSE f[n - 1] + Len(seqs[n])]
    BY <2>2, <1>3
  <2>4. QED
    BY <2>3
<1> HIDE DEF upTo
<1>10. PICK h : h = upTo
  OBVIOUS
<1>11. h = [n \in 0..N |-> IF n = 0 THEN nil ELSE h[n - 1] + Len(seqs[n])]
  BY <1>9, <1>10, <1>3
<1>12. h[0] = f[0]
  BY <1>11, <1>7, <1>5
<1>13. ASSUME NEW n \in 1..N, h[n - 1] = f[n - 1] PROVE h[n] = f[n]
  <2>1. n \in 0..N /\ n # 0
    BY <1>5
  <2>2. h[n] = h[n - 1] + Len(seqs[n])
    BY <2>1, <1>11
  <2>3. QED
    BY <2>2, <1>8, <1>13
<1>14. \A n \in 0..N : h[n] = f[n]
  <2>1. Follow(h, f, N)
    BY <1>12, <1>13 DEF Follow
  <2>2. Agree(h, f, N)
    BY <2>1, <1>5, SameRecursion
  <2>3. QED
    BY <2>2 DEF Agree
<1>15. Total(seqs) = upTo[N]
  BY <1>2 DEF Total, upTo
<1>16. Total(seqs) = f[Len(seqs)]
  BY <1>10, <1>14, <1>15, <1>2, <1>5
<1>17. QED
  BY <1>16, <1>8, <1>7, <1>1, <1>2, <1>3

\* Below goes through the marks once and appends those that are in the row.
LEMMA BelowRecursion ==
  ASSUME NEW marks, Len(marks) \in Nat, \A n \in 1..Len(marks) : marks[n] \in Nat, NEW max
  PROVE  \E f \in [0..Len(marks) -> Seq(Nat)] :
           /\ f[0] = <<>>
           /\ \A n \in 1..Len(marks) :
                f[n] = (IF marks[n] < max THEN Append(f[n - 1], marks[n]) ELSE f[n - 1])
           /\ Below(marks, max) = f[Len(marks)]
<1>1. PICK V : V = Seq(Nat)
  OBVIOUS
<1>2. PICK N : N = Len(marks)
  OBVIOUS
<1>3. PICK nil : nil = <<>>
  OBVIOUS
<1>4. PICK step : step =
        [n \in 1..N |-> [s \in V |-> IF marks[n] < max THEN Append(s, marks[n]) ELSE s]]
  OBVIOUS
<1>5. N \in Nat /\ nil \in V
  BY <1>1, <1>2, <1>3 
<1>6. step \in [1..N -> [V -> V]]
  BY <1>1, <1>2, <1>4 
<1>7. PICK f \in [0..N -> V] : f[0] = nil /\ \A n \in 1..N : f[n] = step[n][f[n - 1]]
  BY <1>5, <1>6, Recursion
<1>8. ASSUME NEW n \in 1..N
      PROVE  f[n] = (IF marks[n] < max THEN Append(f[n - 1], marks[n]) ELSE f[n - 1])
  <2>1. n - 1 \in 0..N
    BY <1>5
  <2>2. f[n - 1] \in V
    BY <2>1
  <2>3. step[n][f[n - 1]] = IF marks[n] < max THEN Append(f[n - 1], marks[n]) ELSE f[n - 1]
    BY <2>2, <1>4
  <2>4. QED
    BY <2>3, <1>7
<1> DEFINE kept[n \in 0..N] ==
      IF n = 0 THEN <<>> ELSE IF marks[n] < max THEN Append(kept[n - 1], marks[n]) ELSE kept[n - 1]
<1>9. kept = [n \in 0..N |->
                IF n = 0 THEN <<>>
                ELSE IF marks[n] < max THEN Append(kept[n - 1], marks[n]) ELSE kept[n - 1]]
  <2> DEFINE g == [n \in 0..N |->
                     IF n = 0 THEN nil
                     ELSE IF marks[n] < max THEN Append(f[n - 1], marks[n]) ELSE f[n - 1]]
  <2>1. ASSUME NEW n \in 0..N PROVE f[n] = g[n]
    <3>1. CASE n = 0
      BY <3>1, <1>7
    <3>2. CASE n \in 1..N
      <4>1. n # 0
        BY <3>2
      <4>2. g[n] = (IF marks[n] < max THEN Append(f[n - 1], marks[n]) ELSE f[n - 1])
        BY <4>1
      <4>3. QED
        BY <3>2, <4>2, <1>8
    <3>3. QED
      BY <3>1, <3>2, <1>5
  <2>2. f = g
    BY <2>1
  <2>3. f = [n \in 0..N |->
               IF n = 0 THEN <<>>
               ELSE IF marks[n] < max THEN Append(f[n - 1], marks[n]) ELSE f[n - 1]]
    BY <2>2, <1>3
  <2>4. QED
    BY <2>3
<1> HIDE DEF kept
<1>10. PICK h : h = kept
  OBVIOUS
<1>11. h = [n \in 0..N |->
              IF n = 0 THEN nil
              ELSE IF marks[n] < max THEN Append(h[n - 1], marks[n]) ELSE h[n - 1]]
  BY <1>9, <1>10, <1>3
<1>12. h[0] = f[0]
  BY <1>11, <1>7, <1>5
<1>13. ASSUME NEW n \in 1..N, h[n - 1] = f[n - 1] PROVE h[n] = f[n]
  <2>1. n \in 0..N /\ n # 0
    BY <1>5
  <2>2. h[n] = IF marks[n] < max THEN Append(h[n - 1], marks[n]) ELSE h[n - 1]
    BY <2>1, <1>11
  <2>3. QED
    BY <2>2, <1>8, <1>13
<1>14. \A n \in 0..N : h[n] = f[n]
  <2>1. Follow(h, f, N)
    BY <1>12, <1>13 DEF Follow
  <2>2. Agree(h, f, N)
    BY <2>1, <1>5, SameRecursion
  <2>3. QED
    BY <2>2 DEF Agree
<1>15. Below(marks, max) = kept[N]
  BY <1>2 DEF Below, kept
<1>16. Below(marks, max) = f[Len(marks)]
  BY <1>10, <1>14, <1>15, <1>2, <1>5
<1>17. QED
  BY <1>16, <1>8, <1>7, <1>1, <1>2, <1>3



\* Best goes through the probabilities once and remembers the best so far (answer).
LEMMA BestRecursion ==
  ASSUME NEW p, Len(p) \in Nat, Len(p) # 0
  PROVE  \E f \in [1..Len(p) -> 1..Len(p)] :
           /\ f[1] = 1
           /\ \A n \in 2..Len(p) : f[n] = (IF p[n] > p[f[n - 1]] THEN n ELSE f[n - 1])
           /\ Best(p) = f[Len(p)]
<1>1. PICK N : N = Len(p)
  OBVIOUS
<1>2. PICK M : M = N - 1
  OBVIOUS
<1>3. PICK V : V = 1..N
  OBVIOUS
<1>4. PICK step : step = [n \in 1..M |-> [s \in V |-> IF p[n + 1] > p[s] THEN n + 1 ELSE s]]
  OBVIOUS
<1>5. N \in Nat /\ N >= 1 /\ M \in Nat /\ N = M + 1 /\ 1 \in V
  BY <1>1, <1>2, <1>3
<1>6. step \in [1..M -> [V -> V]]
  BY <1>3, <1>4, <1>5
<1>7. PICK e \in [0..M -> V] : e[0] = 1 /\ \A n \in 1..M : e[n] = step[n][e[n - 1]]
  BY <1>5, <1>6, Recursion
<1>8. PICK f : f = [n \in 1..N |-> e[n - 1]]
  OBVIOUS
<1>9. f \in [1..N -> V] /\ f[1] = 1
  BY <1>5, <1>7, <1>8
<1>10. ASSUME NEW n \in 2..N PROVE f[n] = (IF p[n] > p[f[n - 1]] THEN n ELSE f[n - 1])
  <2>1. n - 1 \in 1..M /\ (n - 1) - 1 \in 0..M /\ n \in 1..N /\ n - 1 \in 1..N
    BY <1>5
  <2>2. f[n - 1] = e[(n - 1) - 1] /\ f[n] = e[n - 1] /\ f[n - 1] \in V
    BY <2>1, <1>7, <1>8
  <2>3. f[n] = step[n - 1][f[n - 1]]
    BY <2>1, <2>2, <1>7
  <2>4. (n - 1) + 1 = n
    BY <1>5
  <2>5. QED
    BY <2>1, <2>2, <2>3, <2>4, <1>4
<1> DEFINE upTo[n \in 1..N] ==
      IF n = 1 THEN 1 ELSE LET best == upTo[n - 1] IN IF p[n] > p[best] THEN n ELSE best
<1>11. upTo = [n \in 1..N |-> IF n = 1 THEN 1 ELSE IF p[n] > p[upTo[n - 1]] THEN n ELSE upTo[n - 1]]
  <2> DEFINE g == [n \in 1..N |-> IF n = 1 THEN 1 ELSE IF p[n] > p[f[n - 1]] THEN n ELSE f[n - 1]]
  <2>1. ASSUME NEW n \in 1..N PROVE f[n] = g[n]
    <3>1. CASE n = 1
      BY <3>1, <1>9
    <3>2. CASE n \in 2..N
      <4>1. n # 1
        BY <3>2
      <4>2. g[n] = (IF p[n] > p[f[n - 1]] THEN n ELSE f[n - 1])
        BY <4>1
      <4>3. QED
        BY <3>2, <4>2, <1>10
    <3>3. QED
      BY <3>1, <3>2, <1>5
  <2>2. f = g
    BY <2>1, <1>9
  <2>3. f = [n \in 1..N |-> IF n = 1 THEN 1
                            ELSE LET best == f[n - 1] IN IF p[n] > p[best] THEN n ELSE best]
    BY <2>2
  <2>4. QED
    BY <2>3
<1> HIDE DEF upTo
<1>12. PICK h : h = upTo
  OBVIOUS
<1>13. h = [n \in 1..N |-> IF n = 1 THEN 1 ELSE IF p[n] > p[h[n - 1]] THEN n ELSE h[n - 1]]
  BY <1>11, <1>12
<1>14. PICK F : F = [n \in 0..M |-> f[n + 1]]
  OBVIOUS
<1>15. PICK H : H = [n \in 0..M |-> h[n + 1]]
  OBVIOUS
<1>16. H[0] = F[0]
  BY <1>13, <1>14, <1>15, <1>9, <1>5
<1>17. ASSUME NEW n \in 1..M, H[n - 1] = F[n - 1] PROVE H[n] = F[n]
  <2>1. n \in 0..M /\ n - 1 \in 0..M /\ n + 1 \in 2..N /\ n + 1 \in 1..N /\ n + 1 # 1
        /\ (n - 1) + 1 = n /\ (n + 1) - 1 = n
    BY <1>5
  <2>2. h[n] = f[n]
    BY <2>1, <1>14, <1>15, <1>17
  <2>3. h[n + 1] = (IF p[n + 1] > p[h[n]] THEN n + 1 ELSE h[n])
    BY <2>1, <1>13
  <2>4. f[n + 1] = (IF p[n + 1] > p[f[n]] THEN n + 1 ELSE f[n])
    BY <2>1, <1>10
  <2>5. QED
    BY <2>1, <2>2, <2>3, <2>4, <1>14, <1>15
<1>18. H[M] = F[M]
  <2>1. Follow(H, F, M)
    BY <1>16, <1>17 DEF Follow
  <2>2. Agree(H, F, M)
    BY <2>1, <1>5, SameRecursion
  <2>3. QED
    BY <2>2, <1>5 DEF Agree
<1>19. h[N] = f[N]
  BY <1>18, <1>14, <1>15, <1>5
<1>20. Best(p) = upTo[N]
  BY <1>1 DEF Best, upTo
<1>21. Best(p) = f[Len(p)]
  BY <1>12, <1>19, <1>20, <1>1
<1>22. QED
  BY <1>21, <1>10, <1>9, <1>1, <1>3

\* FirstGreatest: what the loop keeps is the first of the greatest.
IsFirstGreatest(p, n, b) ==
  /\ b \in 1..n
  /\ \A j \in 1..n : p[j] <= p[b]
  /\ \A j \in 1..n : p[j] = p[b] => b <= j

\* The loop of answer() keeps the first of the greatest probabilities.
LEMMA BestIsFirstGreatest ==
  ASSUME NEW p, Len(p) \in Nat, Len(p) # 0, \A n \in 1..Len(p) : p[n] \in Int
  PROVE  IsFirstGreatest(p, Len(p), Best(p))
<1>1. PICK N : N = Len(p)
  OBVIOUS
<1>2. PICK f \in [1..N -> 1..N] :
        /\ f[1] = 1
        /\ \A n \in 2..N : f[n] = (IF p[n] > p[f[n - 1]] THEN n ELSE f[n - 1])
        /\ Best(p) = f[N]
  BY <1>1, BestRecursion
<1> DEFINE Good == {n \in Nat : n \in 1..N => IsFirstGreatest(p, n, f[n])}
<1>3. 0 \in Good
  OBVIOUS
<1>4. ASSUME NEW n \in Nat, n \in Good PROVE n + 1 \in Good
  <2>1. SUFFICES ASSUME n + 1 \in 1..N PROVE IsFirstGreatest(p, n + 1, f[n + 1])
    OBVIOUS
  <2>2. N \in Nat /\ \A m \in 1..N : p[m] \in Int
    BY <1>1
  <2>3. CASE n = 0
    BY <2>1, <2>2, <2>3, <1>2 DEF IsFirstGreatest
  <2>4. CASE n # 0
    <3>1. n + 1 \in 2..N /\ (n + 1) - 1 = n /\ n \in 1..N
      BY <2>1, <2>2, <2>4
    <3>2. f[n + 1] = (IF p[n + 1] > p[f[n]] THEN n + 1 ELSE f[n])
      BY <3>1, <1>2
    <3>3. IsFirstGreatest(p, n, f[n])
      BY <3>1, <1>4
    <3>4. PICK b \in 1..N : b = f[n]
      BY <3>1, <1>2
    <3>5. p[b] \in Int /\ p[n + 1] \in Int /\ b \in 1..n /\ IsFirstGreatest(p, n, b)
      BY <3>1, <3>3, <3>4, <2>2 DEF IsFirstGreatest
    <3>6. CASE p[n + 1] > p[b]
      <4>1. \A j \in 1..n : p[j] \in Int /\ p[j] <= p[b]
        <5>1. TAKE j \in 1..n
        <5>2. j \in 1..N
          BY <3>1, <2>2
        <5>3. QED
          BY <5>2, <3>5, <2>2 DEF IsFirstGreatest
      <4>2. \A j \in 1..n : p[j] < p[n + 1]
        BY <4>1, <3>5, <3>6
      <4>3. IsFirstGreatest(p, n + 1, n + 1)
        <5>1. \A j \in 1..(n + 1) : j = n + 1 \/ j \in 1..n
          OBVIOUS
        <5>2. \A j \in 1..(n + 1) : p[j] <= p[n + 1] /\ (p[j] = p[n + 1] => n + 1 <= j)
          BY <5>1, <4>1, <4>2, <3>5
        <5>3. QED
          BY <5>2 DEF IsFirstGreatest
      <4>4. QED
        BY <4>3, <3>2, <3>4, <3>6
    <3>7. CASE ~(p[n + 1] > p[b])
      <4>1. p[n + 1] <= p[b]
        BY <3>5, <3>7
      <4>2. IsFirstGreatest(p, n + 1, b)
        BY <4>1, <3>5, <3>1 DEF IsFirstGreatest
      <4>3. QED
        BY <4>2, <3>2, <3>4, <3>7
    <3>8. QED
      BY <3>6, <3>7
  <2>5. QED
    BY <2>3, <2>4
<1>5. \A n \in Nat : n \in Good
  <2> HIDE DEF Good
  <2>1. QED
    BY <1>3, <1>4, NatSetInduction
<1>6. N \in 1..N
  BY <1>1
<1>7. IsFirstGreatest(p, N, f[N])
  BY <1>5, <1>6
<1>8. QED
  BY <1>7, <1>1, <1>2

\* There is one first of the greatest: the official argmax is it.
LEMMA OfficialBestIsBest ==
  ASSUME NEW row, NEW k \in Nat, k # 0, \A n \in 1..k : row[n] \in Int,
         NEW b, IsFirstGreatest(row, k, b)
  PROVE  OfficialBest(row, k) = b
<1>1. ASSUME NEW i \in 1..k, \A j \in 1..k : row[j] <= row[i],
             \A j \in 1..k : row[j] = row[i] => i <= j
      PROVE  i = b
  <2>1. b \in 1..k /\ row[b] <= row[i] /\ row[i] <= row[b] /\ row[b] \in Int /\ row[i] \in Int
    BY <1>1 DEF IsFirstGreatest
  <2>2. row[b] = row[i]
    BY <2>1
  <2>3. i <= b /\ b <= i
    BY <2>1, <2>2, <1>1 DEF IsFirstGreatest
  <2>4. QED
    BY <2>1, <2>3
<1>2. b \in 1..k /\ (\A j \in 1..k : row[j] <= row[b]) /\ \A j \in 1..k : row[j] = row[b] => b <= j
  BY DEF IsFirstGreatest
<1>3. QED
  BY <1>1, <1>2 DEF OfficialBest

\* Both loops over the levels of a score add up the same products.
LEMMA ScoresAgree ==
  ASSUME NEW N \in Nat, NEW p, NEW row, Len(p) = N,
         \A n \in 1..N : p[n] = row[n] /\ row[n] \in Int
  PROVE  Expected(p) = OfficialScore(row, N)
<1>1. PICK V : V = Int
  OBVIOUS
<1>2. PICK nil : nil = 0
  OBVIOUS
<1>3. PICK term : term = [n \in 1..N |-> (n - 1) * row[n]]
  OBVIOUS
<1>4. \A n \in 1..N : term[n] = (n - 1) * row[n] /\ term[n] = (n - 1) * p[n] /\ term[n] \in V
  BY <1>1, <1>3
<1>5. PICK step : step = [n \in 1..N |-> [s \in V |-> s + term[n]]]
  OBVIOUS
<1>6. nil \in V /\ step \in [1..N -> [V -> V]]
  BY <1>1, <1>2, <1>4, <1>5
<1>7. PICK f \in [0..N -> V] : f[0] = nil /\ \A n \in 1..N : f[n] = step[n][f[n - 1]]
  BY <1>6, Recursion
<1>8. ASSUME NEW n \in 1..N PROVE f[n] = f[n - 1] + term[n]
  <2>1. f[n - 1] \in V
    BY <1>7
  <2>2. step[n][f[n - 1]] = f[n - 1] + term[n]
    BY <2>1, <1>5
  <2>3. QED
    BY <2>2, <1>7
<1> DEFINE upTo[n \in 0..N] == IF n = 0 THEN 0 ELSE upTo[n - 1] + (n - 1) * p[n]
           sum[n \in 0..N]  == IF n = 0 THEN 0 ELSE sum[n - 1] + (n - 1) * row[n]
<1>9. upTo = [n \in 0..N |-> IF n = 0 THEN 0 ELSE upTo[n - 1] + (n - 1) * p[n]]
  <2> DEFINE g == [n \in 0..N |-> IF n = 0 THEN nil ELSE f[n - 1] + (n - 1) * p[n]]
  <2>1. ASSUME NEW n \in 0..N PROVE f[n] = g[n]
    <3>1. CASE n = 0
      BY <3>1, <1>7
    <3>2. CASE n \in 1..N
      <4>1. f[n] = f[n - 1] + (n - 1) * p[n]
        BY <3>2, <1>8, <1>4
      <4>2. QED
        BY <4>1, <3>2
    <3>3. QED
      BY <3>1, <3>2
  <2>2. f = g
    BY <2>1
  <2>3. f = [n \in 0..N |-> IF n = 0 THEN 0 ELSE f[n - 1] + (n - 1) * p[n]]
    BY <2>2, <1>2
  <2>4. QED
    BY <2>3
<1>10. sum = [n \in 0..N |-> IF n = 0 THEN 0 ELSE sum[n - 1] + (n - 1) * row[n]]
  <2> DEFINE g == [n \in 0..N |-> IF n = 0 THEN nil ELSE f[n - 1] + (n - 1) * row[n]]
  <2>1. ASSUME NEW n \in 0..N PROVE f[n] = g[n]
    <3>1. CASE n = 0
      BY <3>1, <1>7
    <3>2. CASE n \in 1..N
      <4>1. f[n] = f[n - 1] + (n - 1) * row[n]
        BY <3>2, <1>8, <1>4
      <4>2. QED
        BY <4>1, <3>2
    <3>3. QED
      BY <3>1, <3>2
  <2>2. f = g
    BY <2>1
  <2>3. f = [n \in 0..N |-> IF n = 0 THEN 0 ELSE f[n - 1] + (n - 1) * row[n]]
    BY <2>2, <1>2
  <2>4. QED
    BY <2>3
<1> HIDE DEF upTo, sum
<1>11. PICK h : h = upTo
  OBVIOUS
<1>12. PICK o : o = sum
  OBVIOUS
<1>13. h[0] = 0 /\ \A n \in 1..N : h[n] = h[n - 1] + term[n]
  <2>1. h = [n \in 0..N |-> IF n = 0 THEN 0 ELSE h[n - 1] + (n - 1) * p[n]]
    BY <1>9, <1>11
  <2>2. \A n \in 1..N : h[n] = h[n - 1] + (n - 1) * p[n]
    BY <2>1
  <2>3. QED
    BY <2>1, <2>2, <1>4
<1>14. o[0] = 0 /\ \A n \in 1..N : o[n] = o[n - 1] + term[n]
  <2>1. o = [n \in 0..N |-> IF n = 0 THEN 0 ELSE o[n - 1] + (n - 1) * row[n]]
    BY <1>10, <1>12
  <2>2. \A n \in 1..N : o[n] = o[n - 1] + (n - 1) * row[n]
    BY <2>1
  <2>3. QED
    BY <2>1, <2>2, <1>4
<1>15. Agree(h, o, N)
  <2>1. Follow(h, o, N)
    BY <1>13, <1>14 DEF Follow
  <2>2. QED
    BY <2>1, SameRecursion
<1>16. Expected(p) = upTo[N] /\ OfficialScore(row, N) = sum[N]
  BY DEF Expected, OfficialScore, upTo, sum
<1>17. QED
  BY <1>11, <1>12, <1>15, <1>16 DEF Agree

\* Below keeps the marks as they are if all are in the row, fewer if one is not, and
\* keeps the first if that one is in the row.
LEMMA BelowKeepsAll ==
  ASSUME NEW marks, Len(marks) \in Nat, \A n \in 1..Len(marks) : marks[n] \in Nat, NEW max \in Nat
  PROVE  /\ Below(marks, max) \in Seq(Nat)
         /\ (\A n \in 1..Len(marks) : marks[n] < max) =>
              /\ Len(Below(marks, max)) = Len(marks)
              /\ \A n \in 1..Len(marks) : Below(marks, max)[n] = marks[n]
         /\ (\E n \in 1..Len(marks) : ~(marks[n] < max)) => Len(Below(marks, max)) < Len(marks)
         /\ (Len(marks) # 0 /\ marks[1] < max) => /\ Len(Below(marks, max)) # 0
                                                  /\ Below(marks, max)[1] = marks[1]
<1>1. PICK N : N = Len(marks)
  OBVIOUS
<1>2. PICK f \in [0..N -> Seq(Nat)] :
        /\ f[0] = <<>>
        /\ \A n \in 1..N : f[n] = (IF marks[n] < max THEN Append(f[n - 1], marks[n]) ELSE f[n - 1])
        /\ Below(marks, max) = f[N]
  BY <1>1, BelowRecursion
<1> DEFINE Kept(n, s) ==
             /\ Len(s) <= n
             /\ (\A m \in 1..n : marks[m] < max) => Len(s) = n /\ \A m \in 1..n : s[m] = marks[m]
             /\ (\E m \in 1..n : ~(marks[m] < max)) => Len(s) < n
             /\ (n # 0 /\ marks[1] < max) => Len(s) # 0 /\ s[1] = marks[1]
           Good == {n \in Nat : n <= N => Kept(n, f[n])}
<1>3. 0 \in Good
  BY <1>2
<1>4. ASSUME NEW n \in Nat, n \in Good PROVE n + 1 \in Good
  <2>1. SUFFICES ASSUME n + 1 <= N PROVE Kept(n + 1, f[n + 1])
    OBVIOUS
  <2>2. n + 1 \in 1..N /\ (n + 1) - 1 = n /\ n \in 0..N
    BY <2>1, <1>1
  <2>3. f[n + 1] = (IF marks[n + 1] < max THEN Append(f[n], marks[n + 1]) ELSE f[n])
    BY <2>2, <1>2
  <2>4. PICK s \in Seq(Nat) : s = f[n]
    BY <2>2, <1>2
  <2>5. Kept(n, s)
    BY <2>1, <2>2, <2>4, <1>4, <1>1
  <2>6. marks[n + 1] \in Nat /\ n <= N
    BY <2>2, <1>1
  <2>7. CASE marks[n + 1] < max
    <3>1. PICK t : t = Append(s, marks[n + 1])
      OBVIOUS
    <3>2. f[n + 1] = t
      BY <2>3, <2>4, <2>7, <3>1
    <3>3. Len(t) = Len(s) + 1 /\ t[Len(s) + 1] = marks[n + 1] /\ \A m \in 1..Len(s) : t[m] = s[m]
      BY <3>1, <2>6
    <3>4. Len(s) \in Nat
      BY <2>4
    <3>5. Kept(n + 1, t)
      BY <3>3, <3>4, <2>5, <2>7
    <3>6. QED
      BY <3>5, <3>2
  <2>8. CASE ~(marks[n + 1] < max)
    <3>1. f[n + 1] = s
      BY <2>3, <2>4, <2>8
    <3>2. Len(s) \in Nat
      BY <2>4
    <3>3. Kept(n + 1, s)
      BY <3>2, <2>5, <2>8
    <3>4. QED
      BY <3>1, <3>3
  <2>9. QED
    BY <2>7, <2>8
<1>5. \A n \in Nat : n \in Good
  <2> HIDE DEF Good
  <2>1. QED
    BY <1>3, <1>4, NatSetInduction
<1>6. Kept(N, f[N])
  BY <1>5, <1>1
<1>7. f[N] \in Seq(Nat)
  BY <1>1
<1>8. QED
  BY <1>6, <1>7, <1>1, <1>2


\* g[n] elements precede the text after the n-th.
Precede(seqs, g) ==
  /\ g \in [0..Len(seqs) -> Nat]
  /\ g[0] = 0
  /\ \A n \in 1..Len(seqs) : g[n] = g[n - 1] + Len(seqs[n])

\* What precedes a text is the total of the texts in front of it.
LEMMA TotalOfPrefix ==
  ASSUME NEW S, NEW seqs \in TextsOf(S), NEW g, Precede(seqs, g), NEW m \in 0..Len(seqs)
  PROVE  Total(SubSeq(seqs, 1, m)) = g[m]
<1>1. PICK pre : pre = SubSeq(seqs, 1, m)
  OBVIOUS
<1>2. pre \in TextsOf(S) /\ Len(pre) = m /\ (\A n \in 1..m : pre[n] = seqs[n]) /\ m \in Nat
      /\ Len(seqs) \in Nat
  BY <1>1 DEF TextsOf
<1>3. PICK f \in [0..m -> Nat] :
        f[0] = 0 /\ (\A n \in 1..m : f[n] = f[n - 1] + Len(pre[n])) /\ Total(pre) = f[m]
  BY <1>2, TotalRecursion
<1>4. \A n \in 1..m : g[n] = g[n - 1] + Len(pre[n])
  BY <1>2 DEF Precede
<1>5. Follow(f, g, m)
  BY <1>3, <1>4 DEF Follow, Precede
<1>6. Agree(f, g, m)
  BY <1>5, <1>2, SameRecursion
<1>7. QED
  BY <1>1, <1>2, <1>3, <1>6 DEF Agree

\* Where the elements of the texts are in their concatenation.
LaidOut(seqs, whole, g) ==
  /\ Len(whole) = g[Len(seqs)]
  /\ \A n \in 1..Len(seqs) : \A i \in 1..Len(seqs[n]) :
       /\ g[n - 1] + i \in 1..Len(whole)
       /\ whole[g[n - 1] + i] = seqs[n][i]
  /\ \A p \in 1..Len(whole) : \E n \in 1..Len(seqs) : \E i \in 1..Len(seqs[n]) : p = g[n - 1] + i

\* Each sequence of texts has such a function, and its last value is the total.
LEMMA PrecedeExists ==
  ASSUME NEW S, NEW seqs \in TextsOf(S)
  PROVE  \E g : Precede(seqs, g) /\ Total(seqs) = g[Len(seqs)]
BY TotalRecursion DEF Precede

\* Concat puts each element of each text at its place and nothing anywhere else.
LEMMA ConcatLaysOut ==
  ASSUME NEW S, NEW seqs \in TextsOf(S), NEW g, Precede(seqs, g)
  PROVE  Concat(seqs) \in Seq(S) /\ LaidOut(seqs, Concat(seqs), g)
<1>1. PICK N : N = Len(seqs)
  OBVIOUS
<1>2. PICK f \in [0..N -> Seq(S)] :
        f[0] = <<>> /\ (\A n \in 1..N : f[n] = f[n - 1] \o seqs[n]) /\ Concat(seqs) = f[N]
  BY <1>1, ConcatRecursion
<1>3. N \in Nat /\ \A n \in 1..N : seqs[n] \in Seq(S)
  BY <1>1 DEF TextsOf
<1>4. g \in [0..N -> Nat] /\ g[0] = 0 /\ \A n \in 1..N : g[n] = g[n - 1] + Len(seqs[n])
  BY <1>1 DEF Precede
<1> DEFINE Upto(n, whole) ==
             /\ Len(whole) = g[n]
             /\ \A m \in 1..n : \A i \in 1..Len(seqs[m]) :
                  g[m - 1] + i \in 1..Len(whole) /\ whole[g[m - 1] + i] = seqs[m][i]
             /\ \A p \in 1..Len(whole) : \E m \in 1..n : \E i \in 1..Len(seqs[m]) : p = g[m - 1] + i
           Good == {n \in Nat : n <= N => Upto(n, f[n])}
<1>5. 0 \in Good
  BY <1>2, <1>4
<1>6. ASSUME NEW n \in Nat, n \in Good PROVE n + 1 \in Good
  <2>1. SUFFICES ASSUME n + 1 <= N PROVE Upto(n + 1, f[n + 1])
    <3> HIDE DEF Upto
    <3>1. QED
      OBVIOUS
  <2>2. n + 1 \in 1..N /\ (n + 1) - 1 = n /\ n \in 0..N
    BY <2>1, <1>3
  <2>3. PICK s \in Seq(S) : s = f[n]
    BY <2>2, <1>2
  <2>4. PICK t \in Seq(S) : t = seqs[n + 1]
    BY <2>2, <1>3
  <2>5. PICK w : w = s \o t
    OBVIOUS
  <2>6. f[n + 1] = w
    BY <2>2, <2>3, <2>4, <2>5, <1>2
  <2>7. Upto(n, s)
    BY <2>2, <2>3, <1>6
  <2>8. Len(s) \in Nat /\ Len(t) \in Nat /\ Len(w) = Len(s) + Len(t)
    BY <2>5, <2>3, <2>4
  <2>9. (\A i \in 1..Len(s) : w[i] = s[i]) /\ \A i \in 1..Len(t) : w[Len(s) + i] = t[i]
    BY <2>5
  <2>10. g[n] = Len(s) /\ g[n + 1] = Len(w)
    BY <2>7, <2>8, <2>4, <2>2, <1>4
  <2>11. ASSUME NEW m \in 1..(n + 1), NEW i \in 1..Len(seqs[m])
         PROVE  g[m - 1] + i \in 1..Len(w) /\ w[g[m - 1] + i] = seqs[m][i]
    <3>1. CASE m \in 1..n
      <4>1. g[m - 1] + i \in 1..Len(s) /\ s[g[m - 1] + i] = seqs[m][i]
        BY <3>1, <2>7
      <4>2. QED
        BY <4>1, <2>8, <2>9
    <3>2. CASE m = n + 1
      <4>1. i \in 1..Len(t) /\ g[m - 1] = Len(s) /\ seqs[m] = t
        BY <3>2, <2>4, <2>10
      <4>2. Len(s) + i \in 1..Len(w)
        BY <4>1, <2>8
      <4>3. w[Len(s) + i] = t[i]
        BY <4>1, <2>9
      <4>4. QED
        BY <4>1, <4>2, <4>3
    <3>3. QED
      BY <3>1, <3>2
  <2>12. ASSUME NEW p \in 1..Len(w)
         PROVE  \E m \in 1..(n + 1) : \E i \in 1..Len(seqs[m]) : p = g[m - 1] + i
    <3>1. CASE p \in 1..Len(s)
      BY <3>1, <2>7
    <3>2. CASE p > Len(s)
      <4>1. Len(seqs[n + 1]) = Len(t) /\ g[(n + 1) - 1] = Len(s)
        BY <2>4, <2>10, <2>2
      <4>2. p - Len(s) \in 1..Len(t) /\ p = Len(s) + (p - Len(s))
        BY <3>2, <2>8
      <4>3. n + 1 \in 1..(n + 1)
        OBVIOUS
      <4>4. QED
        BY <4>1, <4>2, <4>3
    <3>3. QED
      BY <3>1, <3>2, <2>8
  <2>13. Upto(n + 1, w)
    BY <2>10, <2>11, <2>12
  <2>14. QED
    BY <2>13, <2>6
<1>7. \A n \in Nat : n \in Good
  <2> HIDE DEF Good
  <2>1. QED
    BY <1>5, <1>6, NatSetInduction
<1>8. Upto(N, f[N])
  <2>1. N \in Good
    BY <1>7, <1>3
  <2> HIDE DEF Upto
  <2>2. QED
    BY <2>1, <1>3
<1>9. f[N] \in Seq(S)
  BY <1>2, <1>3
<1>10. QED
  BY <1>8, <1>9, <1>2, <1>1 DEF LaidOut

\* Finitely many numbers have a greatest.
LEMMA MaxExists ==
  ASSUME NEW N \in Nat, N # 0, NEW f, \A n \in 1..N : f[n] \in Int
  PROVE  \E n \in 1..N : \A m \in 1..N : f[m] <= f[n]
<1> DEFINE Good == {n \in Nat : n \in 1..N => \E b \in 1..n : \A m \in 1..n : f[m] <= f[b]}
<1>1. 0 \in Good
  OBVIOUS
<1>2. ASSUME NEW n \in Nat, n \in Good PROVE n + 1 \in Good
  <2>1. SUFFICES ASSUME n + 1 \in 1..N
                 PROVE  \E b \in 1..(n + 1) : \A m \in 1..(n + 1) : f[m] <= f[b]
    OBVIOUS
  <2>2. \A m \in 1..(n + 1) : f[m] \in Int /\ (m = n + 1 \/ m \in 1..n)
    BY <2>1
  <2>3. CASE n = 0
    BY <2>2, <2>3
  <2>4. CASE n # 0
    <3>1. PICK b \in 1..n : \A m \in 1..n : f[m] <= f[b]
      BY <1>2, <2>1, <2>4
    <3>2. CASE f[n + 1] <= f[b]
      <4>1. \A m \in 1..(n + 1) : f[m] <= f[b]
        BY <2>2, <3>1, <3>2
      <4>2. QED
        BY <4>1
    <3>3. CASE f[b] < f[n + 1]
      <4>1. \A m \in 1..(n + 1) : f[m] <= f[n + 1]
        BY <2>2, <3>1, <3>3
      <4>2. QED
        BY <4>1
    <3>4. QED
      BY <2>2, <3>2, <3>3
  <2>5. QED
    BY <2>3, <2>4
<1>3. \A n \in Nat : n \in Good
  <2> HIDE DEF Good
  <2>1. QED
    BY <1>1, <1>2, NatSetInduction
<1>4. QED
  BY <1>3

\* The width that Collate takes is the length of some row and at least that of each.
LEMMA WidestIsMax ==
  ASSUME NEW N \in Nat, N # 0, NEW f, \A n \in 1..N : f[n] \in Int
  PROVE  LET w == Widest({f[n] : n \in 1..N})
         IN  (\E n \in 1..N : w = f[n]) /\ \A n \in 1..N : f[n] <= w
<1>1. PICK b \in 1..N : \A m \in 1..N : f[m] <= f[b]
  BY MaxExists
<1>2. PICK L : L = {f[n] : n \in 1..N}
  OBVIOUS
<1>3. f[b] \in L /\ \A m \in L : m <= f[b]
  BY <1>1, <1>2
<1>4. Widest(L) \in L /\ \A m \in L : m <= Widest(L)
  BY <1>3 DEF Widest
<1>5. QED
  BY <1>4, <1>2

\* The cells of a padded batch that hold an element are as many as the elements.
LEMMA CellsAreTotal ==
  ASSUME NEW S, NEW seqs \in TextsOf(S), NEW L \in Nat, \A n \in 1..Len(seqs) : Len(seqs[n]) <= L
  PROVE  Cardinality({p \in (1..Len(seqs)) \X (1..L) : p[2] <= Len(seqs[p[1]])}) = Total(seqs)
<1>1. PICK N : N = Len(seqs)
  OBVIOUS
<1>2. PICK len : len = [n \in 1..N |-> Len(seqs[n])]
  OBVIOUS
<1>3. N \in Nat /\ len \in [1..N -> Nat] /\ (\A n \in 1..N : len[n] = Len(seqs[n]) /\ len[n] <= L)
  BY <1>1, <1>2 DEF TextsOf
<1>4. PICK g : Precede(seqs, g) /\ Total(seqs) = g[N]
  BY <1>1, PrecedeExists
<1>5. g \in [0..N -> Nat] /\ g[0] = 0 /\ \A n \in 1..N : g[n] = g[n - 1] + len[n]
  BY <1>1, <1>3, <1>4 DEF Precede
<1> DEFINE Cells(n) == {p \in (1..n) \X (1..L) : p[2] <= len[p[1]]}
           Good == {n \in Nat : n <= N => IsFiniteSet(Cells(n)) /\ Cardinality(Cells(n)) = g[n]}
<1>6. 0 \in Good
  <2>1. Cells(0) = {}
    OBVIOUS
  <2>2. QED
    BY <2>1, <1>5, FS_EmptySet
<1>7. ASSUME NEW n \in Nat, n \in Good PROVE n + 1 \in Good
  <2>1. SUFFICES ASSUME n + 1 <= N
                 PROVE  IsFiniteSet(Cells(n + 1)) /\ Cardinality(Cells(n + 1)) = g[n + 1]
    OBVIOUS
  <2>2. n + 1 \in 1..N /\ (n + 1) - 1 = n /\ n <= N
    BY <2>1, <1>3
  <2>3. len[n + 1] \in Nat /\ len[n + 1] <= L /\ g[n + 1] = g[n] + len[n + 1] /\ g[n] \in Nat
    BY <2>2, <1>3, <1>5
  <2>4. PICK k \in Nat : k = len[n + 1]
    BY <2>3
  <2>5. PICK A : A = Cells(n)
    OBVIOUS
  <2>6. PICK B : B = {n + 1} \X (1..k)
    OBVIOUS
  <2>7. IsFiniteSet(A) /\ Cardinality(A) = g[n]
    BY <1>7, <2>2, <2>5
  <2>8. IsFiniteSet(B) /\ Cardinality(B) = k
    <3>1. IsFiniteSet({n + 1}) /\ Cardinality({n + 1}) = 1
      BY FS_Singleton
    <3>2. IsFiniteSet(1..k) /\ Cardinality(1..k) = k
      BY FS_Interval
    <3>3. IsFiniteSet(B) /\ Cardinality(B) = Cardinality({n + 1}) * Cardinality(1..k)
      BY <3>1, <3>2, <2>6, FS_Product
    <3>4. QED
      BY <3>1, <3>2, <3>3
  <2>9. A \cap B = {}
    BY <2>5, <2>6
  <2>10. Cells(n + 1) = A \cup B
    <3>1. ASSUME NEW p \in Cells(n + 1) PROVE p \in A \cup B
      <4>1. PICK a \in 1..(n + 1), b \in 1..L : p = <<a, b>> /\ b <= len[a]
        OBVIOUS
      <4>2. CASE a = n + 1
        BY <4>1, <4>2, <2>4, <2>6
      <4>3. CASE a \in 1..n
        BY <4>1, <4>3, <2>5
      <4>4. QED
        BY <4>2, <4>3
    <3>2. ASSUME NEW p \in A PROVE p \in Cells(n + 1)
      BY <3>2, <2>5
    <3>3. ASSUME NEW p \in B PROVE p \in Cells(n + 1)
      <4>1. PICK b \in 1..k : p = <<n + 1, b>>
        BY <2>6
      <4>2. n + 1 \in 1..(n + 1) /\ b \in 1..L /\ b <= len[n + 1]
        BY <2>3, <2>4
      <4>3. QED
        BY <4>1, <4>2
    <3>4. QED
      BY <3>1, <3>2, <3>3
  <2>11. Cardinality({}) = 0
    BY FS_EmptySet
  <2>12. PICK C : C = A \cup B
    OBVIOUS
  <2>13. IsFiniteSet(C) /\ Cardinality(C) = Cardinality(A) + Cardinality(B) - Cardinality(A \cap B)
    BY <2>7, <2>8, <2>12, FS_Union
  <2>14. Cardinality(C) = g[n + 1]
    <3>1. Cardinality(A \cap B) = 0
      BY <2>9, <2>11
    <3>2. Cardinality(C) = g[n] + k - 0
      BY <3>1, <2>13, <2>7, <2>8
    <3>3. QED
      BY <3>2, <2>3, <2>4
  <2>15. QED
    BY <2>14, <2>13, <2>12, <2>10
<1>8. \A n \in Nat : n \in Good
  <2> HIDE DEF Good
  <2>1. QED
    BY <1>6, <1>7, NatSetInduction
<1>9. Cardinality(Cells(N)) = g[N]
  <2>1. N \in Good
    BY <1>8, <1>3
  <2>2. QED
    BY <2>1, <1>3
<1>10. {p \in (1..N) \X (1..L) : p[2] <= Len(seqs[p[1]])} = Cells(N)
  <2>1. \A p \in (1..N) \X (1..L) : Len(seqs[p[1]]) = len[p[1]]
    BY <1>3
  <2>2. QED
    BY <2>1
<1>11. QED
  BY <1>9, <1>10, <1>4, <1>1

----------------------------------------------------------------------------
Kinds  == {"cls", "sep", "pad", "mask", "header", "option", "state"}
\* Tokens by what they are.
Tokens == Kinds \X Nat \X Nat \X Nat

\* The tokens that are neither a marker of an option nor padding.
Plain == {t \in Tokens : t[1] # "pad" /\ t[1] # "mask"}

\* What Token makes is a token.
LEMMA TokenType ==
  ASSUME NEW what \in Kinds, NEW q \in Nat, NEW j \in Nat, NEW i \in Nat
  PROVE  Token(what, q, j, i) \in Tokens
BY DEF Token, Tokens

\* Tokens of texts are plain.
LEMMA PlainTokens ==
  ASSUME NEW what \in Kinds, NEW q \in Nat, NEW j \in Nat, NEW i \in Nat,
         what # "pad", what # "mask"
  PROVE  Token(what, q, j, i) \in Plain
BY DEF Token, Tokens, Plain

\* The markers of a question differ from one another, from padding and from plain tokens.
LEMMA MarkersDiffer ==
  ASSUME NEW q \in Nat, NEW j \in Nat
  PROVE  /\ Token("mask", q, j, 0) \in Tokens
         /\ Token("mask", q, j, 0) # Special("pad")
         /\ Token("mask", q, j, 0) \notin Plain
         /\ \A k \in Nat : Token("mask", q, j, 0) = Token("mask", q, k, 0) => j = k
<1>1. Token("mask", q, j, 0) \in Tokens
  <2>1. "mask" \in Kinds /\ 0 \in Nat
    BY DEF Kinds
  <2>2. QED
    BY <2>1, TokenType
<1>2. Token("mask", q, j, 0) # Special("pad")
  BY DEF Token, Special
<1>3. Token("mask", q, j, 0) \notin Plain
  BY DEF Token, Plain
<1>4. \A k \in Nat : Token("mask", q, j, 0) = Token("mask", q, k, 0) => j = k
  BY DEF Token
<1>5. QED
  BY <1>1, <1>2, <1>3, <1>4

\* Plain tokens are no padding; [CLS] and [SEP] are plain.
LEMMA PlainIsNoPadding ==
  /\ Plain \subseteq Tokens
  /\ \A t \in Plain : t # Special("pad")
  /\ Special("cls") \in Plain /\ Special("sep") \in Plain
  /\ Special("pad") \in Tokens
<1>1. "cls" \in Kinds /\ "sep" \in Kinds /\ "pad" \in Kinds /\ 0 \in Nat
  BY DEF Kinds
<1>2. Plain \subseteq Tokens
  BY DEF Plain
<1>3. \A t \in Plain : t # Special("pad")
  BY DEF Plain, Special, Token
<1>4. Special("cls") \in Plain /\ Special("sep") \in Plain
  BY <1>1, PlainTokens DEF Special
<1>5. Special("pad") \in Tokens
  BY <1>1, TokenType DEF Special
<1>6. QED
  BY <1>2, <1>3, <1>4, <1>5

\* A text consists of plain tokens.
LEMMA PlainText ==
  ASSUME NEW what \in Kinds, NEW q \in Nat, NEW j \in Nat, NEW n \in Nat,
         what # "pad", what # "mask"
  PROVE  Text(what, q, j, n) \in Seq(Plain) /\ Len(Text(what, q, j, n)) = n
<1>1. \A i \in 1..n : Token(what, q, j, i) \in Plain
  BY PlainTokens
<1>2. QED
  BY <1>1 DEF Text

\* Take cuts a sequence behind its first n elements (Vec::truncate).
LEMMA TakeIsPrefix ==
  ASSUME NEW S, NEW s \in Seq(S), NEW n \in Nat
  PROVE  /\ Take(s, n) \in Seq(S)
         /\ Len(Take(s, n)) = IF n < Len(s) THEN n ELSE Len(s)
         /\ \A i \in 1..Len(Take(s, n)) : Take(s, n)[i] = s[i]
<1>1. PICK m : m = IF n < Len(s) THEN n ELSE Len(s)
  OBVIOUS
<1>2. m \in 0..Len(s)
  BY <1>1
<1>3. SubSeq(s, 1, m) \in Seq(S) /\ Len(SubSeq(s, 1, m)) = m
      /\ \A i \in 1..m : SubSeq(s, 1, m)[i] = s[i]
  BY <1>2
<1>4. Take(s, n) = SubSeq(s, 1, m)
  BY <1>1 DEF Take
<1>5. QED
  BY <1>1, <1>3, <1>4

\* A text that begins with the marker of option j and has no other.
Marked(s, q, j) ==
  /\ s \in Seq(Tokens)
  /\ Len(s) >= 1
  /\ s[1] = Token("mask", q, j, 0)
  /\ \A i \in 2..Len(s) : s[i] \in Plain

\* The text of an option begins with its marker (build).
LEMMA OptionTextIsMarked ==
  ASSUME NEW q \in Nat, NEW j \in Nat, questions[q].options[j] \in Nat
  PROVE  Marked(OptionText(q, j), q, j)
<1>1. PICK n \in Nat : n = questions[q].options[j]
  OBVIOUS
<1>2. PICK s \in Seq(Plain) : s = Take(Text("option", q, j, n), 48)
  <2>1. "option" \in Kinds
    BY DEF Kinds
  <2>2. PICK t : t = Text("option", q, j, n)
    OBVIOUS
  <2>3. t \in Seq(Plain)
    BY <2>1, <2>2, PlainText
  <2>4. Take(t, 48) \in Seq(Plain)
    BY <2>3, TakeIsPrefix
  <2>5. QED
    BY <2>2, <2>4
<1>3. PICK t \in Tokens : t = Token("mask", q, j, 0)
  BY MarkersDiffer
<1>4. OptionText(q, j) = <<t>> \o s
  BY <1>1, <1>2, <1>3 DEF OptionText
<1>5. s \in Seq(Tokens)
  BY <1>2, PlainIsNoPadding
<1>6. <<t>> \o s \in Seq(Tokens) /\ Len(<<t>> \o s) = 1 + Len(s) /\ (<<t>> \o s)[1] = t
  BY <1>5
<1>7. \A i \in 2..(1 + Len(s)) : (<<t>> \o s)[i] = s[i - 1]
  BY <1>5
<1>8. \A i \in 2..(1 + Len(s)) : s[i - 1] \in Plain
  BY <1>2
<1>9. QED
  BY <1>3, <1>4, <1>6, <1>7, <1>8 DEF Marked

\* Cut behind its first token or later, it still does (truncate_head).
LEMMA TakeIsMarked ==
  ASSUME NEW s, NEW q, NEW j, Marked(s, q, j), NEW n \in Nat, n >= 1
  PROVE  Marked(Take(s, n), q, j)
<1>1. PICK t : t = Take(s, n)
  OBVIOUS
<1>2. s \in Seq(Tokens) /\ Len(s) >= 1
  BY DEF Marked
<1>3. t \in Seq(Tokens) /\ (Len(t) = IF n < Len(s) THEN n ELSE Len(s))
      /\ \A i \in 1..Len(t) : t[i] = s[i]
  BY <1>1, <1>2, TakeIsPrefix
<1>4. Len(t) >= 1 /\ Len(t) <= Len(s)
  BY <1>2, <1>3
<1>5. QED
  BY <1>1, <1>2, <1>3, <1>4 DEF Marked

\* The lengths of a question that the service asks.
Asked(q) ==
  /\ q \in Nat
  /\ questions[q].header \in Nat
  /\ Len(questions[q].options) \in Nat
  /\ Len(questions[q].options) >= 2
  /\ \A j \in 1..Len(questions[q].options) : questions[q].options[j] \in Nat

\* Texts of the k options of question q, whole or cut behind their markers.
MarkedTexts(options, q, k) ==
  /\ options \in TextsOf(Tokens)
  /\ Len(options) = k /\ DOMAIN options = 1..k
  /\ \A j \in 1..k : Marked(options[j], q, j)

\* Marked texts for each option are a sequence of marked texts.
LEMMA AllMarked ==
  ASSUME NEW k \in Nat, NEW q, NEW f, \A j \in 1..k : Marked(f[j], q, j)
  PROVE  MarkedTexts([j \in 1..k |-> f[j]], q, k)
<1>1. PICK V : V = Seq(Tokens)
  OBVIOUS
<1>2. \A j \in 1..k : f[j] \in V
  BY <1>1 DEF Marked
<1>3. [j \in 1..k |-> f[j]] \in Seq(V) /\ Len([j \in 1..k |-> f[j]]) = k
  BY <1>2
<1>4. QED
  BY <1>1, <1>3 DEF MarkedTexts, TextsOf

\* The options of a question are marked texts.
LEMMA OptionTextsAreMarked ==
  ASSUME NEW q, Asked(q)
  PROVE  MarkedTexts(OptionTexts(q), q, Len(questions[q].options))
<1>1. PICK k \in Nat : k = Len(questions[q].options)
  BY DEF Asked
<1>2. PICK f : f = [j \in 1..k |-> OptionText(q, j)]
  OBVIOUS
<1>3. \A j \in 1..k : Marked(f[j], q, j)
  BY <1>1, <1>2, OptionTextIsMarked DEF Asked
<1>4. MarkedTexts([j \in 1..k |-> f[j]], q, k)
  BY <1>3, AllMarked
<1>5. OptionTexts(q) = [j \in 1..k |-> f[j]]
  BY <1>1, <1>2 DEF OptionTexts
<1>6. QED
  BY <1>1, <1>4, <1>5

\* The total of texts is a number.
LEMMA TotalIsNat ==
  ASSUME NEW S, NEW seqs \in TextsOf(S)
  PROVE  Total(seqs) \in Nat
<1>1. Len(seqs) \in Nat
  BY DEF TextsOf
<1>2. PICK g : Precede(seqs, g) /\ Total(seqs) = g[Len(seqs)]
  BY PrecedeExists
<1>3. QED
  BY <1>1, <1>2 DEF Precede

IsPlain(s) == s \in Seq(Plain)

\* t is s and, behind it, plain tokens only.
Lengthens(s, t) ==
  /\ s \in Seq(Tokens) /\ t \in Seq(Tokens)
  /\ Len(s) <= Len(t)
  /\ \A i \in 1..Len(s) : t[i] = s[i]
  /\ \A i \in 1..Len(t) : i > Len(s) => t[i] \in Plain

\* Plain tokens appended lengthen a sequence.
LEMMA PlainLengthens ==
  ASSUME NEW s \in Seq(Tokens), NEW t, IsPlain(t)
  PROVE  Lengthens(s, s \o t) /\ Len(s \o t) = Len(s) + Len(t)
<1>1. t \in Seq(Tokens) /\ (\A i \in 1..Len(t) : t[i] \in Plain)
  BY PlainIsNoPadding DEF IsPlain
<1>2. s \o t \in Seq(Tokens) /\ Len(s \o t) = Len(s) + Len(t) /\ Len(s) \in Nat /\ Len(t) \in Nat
  BY <1>1
<1>3. (\A i \in 1..Len(s) : (s \o t)[i] = s[i]) /\ \A i \in 1..Len(t) : (s \o t)[Len(s) + i] = t[i]
  BY <1>1
<1>4. ASSUME NEW i \in 1..Len(s \o t), i > Len(s) PROVE (s \o t)[i] \in Plain
  <2>1. i - Len(s) \in 1..Len(t) /\ i = Len(s) + (i - Len(s))
    BY <1>2, <1>4
  <2>2. (s \o t)[Len(s) + (i - Len(s))] = t[i - Len(s)]
    BY <2>1, <1>3
  <2>3. QED
    BY <2>1, <2>2, <1>1
<1>5. QED
  BY <1>2, <1>3, <1>4 DEF Lengthens

\* What lengthens a longer sequence lengthens the shorter one.
LEMMA LengthensTwice ==
  ASSUME NEW s, NEW t, NEW u, Lengthens(s, t), Lengthens(t, u)
  PROVE  Lengthens(s, u)
<1>1. Len(s) \in Nat /\ Len(t) \in Nat /\ Len(u) \in Nat
  BY DEF Lengthens
<1>2. ASSUME NEW i \in 1..Len(u), i > Len(s) PROVE u[i] \in Plain
  <2>1. CASE i \in 1..Len(t)
    BY <2>1, <1>2 DEF Lengthens
  <2>2. CASE i > Len(t)
    BY <2>2, <1>2 DEF Lengthens
  <2>3. QED
    BY <2>1, <2>2, <1>1
<1>3. \A i \in 1..Len(s) : i \in 1..Len(t)
  BY <1>1 DEF Lengthens
<1>4. QED
  BY <1>1, <1>2, <1>3 DEF Lengthens

\* The sequence of a question before its last cut.
Whole(header, options, text) ==
  <<Special("cls")>> \o header \o <<Special("sep")>> \o Concat(options)
    \o <<Special("sep")>> \o text \o <<Special("sep")>>

\* What is where in it.
Layout(whole, header, options, text, q, k) ==
  /\ whole \in Seq(Tokens)
  /\ Len(whole) = Len(header) + Total(options) + Len(text) + 4
  /\ \A j \in 1..k : /\ Start(header, options, j) \in Nat
                     /\ Start(header, options, j) + 1 \in 1..Len(whole)
                     /\ whole[Start(header, options, j) + 1] = Token("mask", q, j, 0)
  /\ \A p \in 1..Len(whole) :
       whole[p] \in Plain \/ \E j \in 1..k : p = Start(header, options, j) + 1

\* In the sequence of a question every option has its marker at its start, and every
\* other token is plain (row).
LEMMA WholeLayout ==
  ASSUME NEW q \in Nat, NEW k \in Nat, NEW header, IsPlain(header),
         NEW options, MarkedTexts(options, q, k), NEW text, IsPlain(text)
  PROVE  Layout(Whole(header, options, text), header, options, text, q, k)
<1>1. options \in TextsOf(Tokens) /\ Len(options) = k
  BY DEF MarkedTexts
<1>2. PICK g : Precede(options, g) /\ Total(options) = g[k]
  BY <1>1, PrecedeExists
<1>3. PICK C : C = Concat(options)
  OBVIOUS
<1>4. C \in Seq(Tokens) /\ LaidOut(options, C, g)
  BY <1>1, <1>2, <1>3, ConcatLaysOut
<1>5. PICK cls : cls = Special("cls")
  OBVIOUS
<1>6. PICK sep : sep = Special("sep")
  OBVIOUS
<1>7. cls \in Plain /\ sep \in Plain
  BY <1>5, <1>6, PlainIsNoPadding
<1>8. PICK b : b = <<cls>> \o header \o <<sep>>
  OBVIOUS
<1>9. b \in Seq(Plain) /\ Len(b) = Len(header) + 2 /\ Len(header) \in Nat
  BY <1>7, <1>8 DEF IsPlain
<1>10. PICK c : c = b \o C
  OBVIOUS
<1>11. c \in Seq(Tokens) /\ Len(c) = Len(b) + Len(C)
       /\ (\A i \in 1..Len(b) : c[i] = b[i]) /\ \A i \in 1..Len(C) : c[Len(b) + i] = C[i]
  <2>1. b \in Seq(Tokens)
    BY <1>9, PlainIsNoPadding
  <2>2. QED
    BY <2>1, <1>4, <1>10
<1>12. IsPlain(<<sep>>)
  BY <1>7 DEF IsPlain
<1>13. PICK d : d = c \o <<sep>>
  OBVIOUS
<1>14. PICK e : e = d \o text
  OBVIOUS
<1>15. PICK w : w = e \o <<sep>>
  OBVIOUS
<1>16. Whole(header, options, text) = w
  BY <1>3, <1>5, <1>6, <1>8, <1>10, <1>13, <1>14, <1>15 DEF Whole
<1>17. Lengthens(c, d) /\ Len(d) = Len(c) + 1
  BY <1>11, <1>12, <1>13, PlainLengthens
<1>18. d \in Seq(Tokens)
  BY <1>17 DEF Lengthens
<1>19. Lengthens(d, e) /\ Len(e) = Len(d) + Len(text)
  BY <1>14, <1>18, PlainLengthens
<1>20. e \in Seq(Tokens)
  BY <1>19 DEF Lengthens
<1>21. Lengthens(e, w) /\ Len(w) = Len(e) + 1
  BY <1>12, <1>15, <1>20, PlainLengthens
<1>22. Lengthens(c, w)
  BY <1>17, <1>19, <1>21, LengthensTwice
<1>23. Len(text) \in Nat /\ Len(C) \in Nat /\ g[k] = Len(C) /\ w \in Seq(Tokens)
  BY <1>1, <1>4, <1>22 DEF IsPlain, LaidOut, Lengthens
<1>24. Len(w) = Len(header) + Total(options) + Len(text) + 4
  BY <1>2, <1>9, <1>11, <1>17, <1>19, <1>21, <1>23
<1>25. PICK B \in Nat, M \in Nat, W \in Nat : B = Len(b) /\ M = Len(C) /\ W = Len(w)
  BY <1>9, <1>23
<1>26. B = Len(header) + 2 /\ Len(c) = B + M /\ B + M <= W
  BY <1>9, <1>11, <1>22, <1>25 DEF Lengthens
<1>27. \A i \in 1..W : i > B + M => w[i] \in Plain
  BY <1>22, <1>25, <1>26 DEF Lengthens
<1>28. \A i \in 1..(B + M) : w[i] = c[i]
  BY <1>22, <1>26 DEF Lengthens
<1>29. \A i \in 1..B : w[i] \in Plain
  <2>1. \A i \in 1..B : b[i] \in Plain /\ c[i] = b[i]
    BY <1>9, <1>11, <1>25
  <2>2. \A i \in 1..B : i \in 1..(B + M)
    OBVIOUS
  <2>3. QED
    BY <2>1, <2>2, <1>28
<1>30. \A r \in 1..M : w[B + r] = C[r]
  <2>1. \A r \in 1..M : c[B + r] = C[r]
    BY <1>11, <1>25
  <2>2. \A r \in 1..M : B + r \in 1..(B + M)
    OBVIOUS
  <2>3. QED
    BY <2>1, <2>2, <1>28
<1>31. /\ \A j \in 1..k : \A i \in 1..Len(options[j]) :
            g[j - 1] + i \in 1..M /\ C[g[j - 1] + i] = options[j][i]
       /\ \A r \in 1..M : \E j \in 1..k : \E i \in 1..Len(options[j]) : r = g[j - 1] + i
  BY <1>1, <1>4, <1>25 DEF LaidOut
<1>32. ASSUME NEW j \in 1..k PROVE Start(header, options, j) = B + g[j - 1] /\ g[j - 1] \in Nat
  <2>1. j - 1 \in 0..Len(options)
    BY <1>1
  <2>2. Total(SubSeq(options, 1, j - 1)) = g[j - 1] /\ g[j - 1] \in Nat
    BY <2>1, <1>1, <1>2, TotalOfPrefix DEF Precede
  <2>3. Len(header) \in Nat
    BY <1>9
  <2>4. QED
    BY <2>2, <2>3, <1>26 DEF Start
<1>33. ASSUME NEW j \in 1..k
       PROVE  /\ Start(header, options, j) \in Nat
              /\ Start(header, options, j) + 1 \in 1..W
              /\ w[Start(header, options, j) + 1] = Token("mask", q, j, 0)
  <2>1. 1 \in 1..Len(options[j]) /\ options[j][1] = Token("mask", q, j, 0)
    BY DEF MarkedTexts, Marked
  <2>2. PICK r \in 1..M : r = g[j - 1] + 1
    BY <2>1, <1>31
  <2>3. w[B + r] = Token("mask", q, j, 0)
    BY <2>1, <2>2, <1>30, <1>31
  <2>4. B + r \in 1..W /\ Start(header, options, j) + 1 = B + r /\ Start(header, options, j) \in Nat
    <3>1. Start(header, options, j) = B + g[j - 1] /\ g[j - 1] \in Nat
      BY <1>32
    <3>2. PICK a \in Nat, z \in Nat :
            a = Start(header, options, j) /\ z = g[j - 1] /\ a = B + z /\ r = z + 1
      BY <3>1, <2>2
    <3>3. B + M <= W
      BY <1>26
    <3>4. B + r \in 1..W /\ a + 1 = B + r /\ a \in Nat
      BY <3>2, <3>3
    <3>5. QED
      BY <3>2, <3>4
  <2>5. QED
    BY <2>3, <2>4
<1>34. ASSUME NEW p \in 1..W
       PROVE  w[p] \in Plain \/ \E j \in 1..k : p = Start(header, options, j) + 1
  <2>1. CASE p > B + M
    BY <2>1, <1>27
  <2>2. CASE p \in 1..B
    BY <2>2, <1>29
  <2>3. CASE p - B \in 1..M
    <3>1. PICK r \in 1..M : r = p - B /\ p = B + r
      BY <2>3
    <3>2. PICK j \in 1..k : \E i \in 1..Len(options[j]) : r = g[j - 1] + i
      BY <1>31
    <3>3. PICK i \in 1..Len(options[j]) : r = g[j - 1] + i
      BY <3>2
    <3>4. w[p] = options[j][i]
      <4>1. w[p] = C[r]
        BY <3>1, <1>30
      <4>2. C[g[j - 1] + i] = options[j][i]
        BY <1>31
      <4>3. QED
        BY <4>1, <4>2, <3>3
    <3>5. CASE i = 1
      <4>1. Start(header, options, j) = B + g[j - 1] /\ g[j - 1] \in Nat
        BY <1>32
      <4>2. p = Start(header, options, j) + 1
        BY <4>1, <3>1, <3>3, <3>5
      <4>3. QED
        BY <4>2
    <3>6. CASE i # 1
      <4>1. i \in 2..Len(options[j])
        BY <3>6
      <4>2. options[j][i] \in Plain
        BY <4>1 DEF MarkedTexts, Marked
      <4>3. QED
        BY <4>2, <3>4
    <3>7. QED
      BY <3>5, <3>6
  <2>4. QED
    BY <2>1, <2>2, <2>3
<1>35. QED
  BY <1>16, <1>23, <1>24, <1>25, <1>33, <1>34 DEF Layout

\* The parts of the official row, named.
OfficialOptions(q, head) ==
  LET texts == OptionTexts(q)
      k     == Len(texts)
      per   == Greater(4, (head - 16) \div Greater(1, k))
  IN  IF head - Total(texts) < 16 THEN [j \in 1..k |-> Take(texts[j], per)] ELSE texts
OfficialHeader(q, head) == Take(HeaderText(q), Greater(8, head - Total(OfficialOptions(q, head))))
Opening(header, options) ==
  <<Special("cls")>> \o header \o <<Special("sep")>> \o Concat(options) \o <<Special("sep")>>
OfficialText(q, tokens, max, head) ==
  Take(Text("state", 0, 0, tokens),
       Greater(0, max - Len(Opening(OfficialHeader(q, head), OfficialOptions(q, head))) - 1))
OfficialWhole(q, tokens, max, head) ==
  Whole(OfficialHeader(q, head), OfficialOptions(q, head), OfficialText(q, tokens, max, head))
FoundMarks(whole, q, k) ==
  [j \in 1..k |-> (CHOOSE i \in 1..Len(whole) : whole[i] = Token("mask", q, j, 0)) - 1]

\* OfficialRow is made of the named parts.
LEMMA OfficialRowParts ==
  ASSUME NEW q, NEW tokens, NEW max, NEW head
  PROVE  OfficialRow(q, tokens, max, head) =
           [ids     |-> Take(OfficialWhole(q, tokens, max, head), max),
            markers |-> Below(FoundMarks(OfficialWhole(q, tokens, max, head), q, Len(OptionTexts(q))),
                              max)]
BY DEF OfficialRow, OfficialWhole, Whole, OfficialText, Opening, OfficialHeader, OfficialOptions,
   FoundMarks

\* Cut options are marked texts.
LEMMA CutTextsAreMarked ==
  ASSUME NEW q, NEW k \in Nat, NEW options, MarkedTexts(options, q, k), NEW n \in Nat, n >= 1
  PROVE  MarkedTexts([j \in 1..k |-> Take(options[j], n)], q, k)
<1>1. PICK f : f = [j \in 1..k |-> Take(options[j], n)]
  OBVIOUS
<1>2. \A j \in 1..k : Marked(f[j], q, j)
  BY <1>1, TakeIsMarked DEF MarkedTexts
<1>3. MarkedTexts([j \in 1..k |-> f[j]], q, k)
  BY <1>2, AllMarked
<1>4. [j \in 1..k |-> f[j]] = f
  BY <1>1
<1>5. QED
  BY <1>1, <1>3, <1>4

\* The official options are marked texts, cut or not: the cut leaves 4 tokens or more.
LEMMA OfficialOptionsAreMarked ==
  ASSUME NEW q, Asked(q), NEW head \in Nat
  PROVE  MarkedTexts(OfficialOptions(q, head), q, Len(questions[q].options))
<1>1. PICK k \in Nat : k = Len(questions[q].options) /\ k >= 2
  BY DEF Asked
<1>2. PICK texts : texts = OptionTexts(q)
  OBVIOUS
<1>3. MarkedTexts(texts, q, k)
  BY <1>1, <1>2, OptionTextsAreMarked
<1>4. Len(texts) = k
  BY <1>3 DEF MarkedTexts
<1>5. PICK per : per = Greater(4, (head - 16) \div Greater(1, k))
  OBVIOUS
<1>6. per \in Nat /\ per >= 1
  <2>1. Greater(1, k) = k
    BY <1>1 DEF Greater
  <2>2. (head - 16) \div k \in Int
    BY <1>1
  <2>3. QED
    BY <2>1, <2>2, <1>5 DEF Greater
<1>7. MarkedTexts([j \in 1..k |-> Take(texts[j], per)], q, k)
  BY <1>3, <1>6, CutTextsAreMarked
<1>8. OfficialOptions(q, head) =
        IF head - Total(texts) < 16 THEN [j \in 1..k |-> Take(texts[j], per)] ELSE texts
  BY <1>2, <1>4, <1>5 DEF OfficialOptions
<1>9. QED
  BY <1>1, <1>3, <1>7, <1>8

\* The official header is a plain text.
LEMMA OfficialHeaderIsPlain ==
  ASSUME NEW q, Asked(q), NEW head \in Nat
  PROVE  IsPlain(OfficialHeader(q, head))
<1>1. "header" \in Kinds /\ 0 \in Nat /\ q \in Nat /\ questions[q].header \in Nat
  BY DEF Kinds, Asked
<1>2. IsPlain(HeaderText(q))
  BY <1>1, PlainText DEF HeaderText, IsPlain
<1>3. Total(OfficialOptions(q, head)) \in Nat
  BY OfficialOptionsAreMarked, TotalIsNat DEF MarkedTexts
<1>4. Greater(8, head - Total(OfficialOptions(q, head))) \in Nat
  BY <1>3 DEF Greater
<1>5. QED
  BY <1>2, <1>4, TakeIsPrefix DEF OfficialHeader, IsPlain

\* The part before the state has the header, the options and three special tokens.
LEMMA OpeningLength ==
  ASSUME NEW header, IsPlain(header), NEW options \in TextsOf(Tokens)
  PROVE  Len(Opening(header, options)) = Len(header) + Total(options) + 3
<1>1. PICK g : Precede(options, g) /\ Total(options) = g[Len(options)]
  BY PrecedeExists
<1>2. Concat(options) \in Seq(Tokens) /\ Len(Concat(options)) = Total(options)
  BY <1>1, ConcatLaysOut DEF LaidOut
<1>3. PICK C \in Seq(Tokens) : C = Concat(options)
  BY <1>2
<1>4. PICK cls \in Tokens, sep \in Tokens : cls = Special("cls") /\ sep = Special("sep")
  BY PlainIsNoPadding
<1>5. PICK h \in Seq(Tokens) : h = header
  BY PlainIsNoPadding DEF IsPlain
<1>6. Len(<<cls>> \o h \o <<sep>> \o C \o <<sep>>) = Len(h) + Len(C) + 3
  OBVIOUS
<1>7. QED
  BY <1>2, <1>3, <1>4, <1>5, <1>6 DEF Opening

\* The state, cut to its room, is a plain text.
LEMMA StateTextIsPlain ==
  ASSUME NEW tokens \in Nat, NEW room \in Nat
  PROVE  IsPlain(Take(Text("state", 0, 0, tokens), room))
<1>1. "state" \in Kinds /\ 0 \in Nat
  BY DEF Kinds
<1>2. IsPlain(Text("state", 0, 0, tokens))
  BY <1>1, PlainText DEF IsPlain
<1>3. QED
  BY <1>2, TakeIsPrefix DEF IsPlain

\* The official sequence has the layout.
LEMMA OfficialLayout ==
  ASSUME NEW q, Asked(q), NEW tokens \in Nat, NEW max \in Nat, NEW head \in Nat
  PROVE  /\ IsPlain(OfficialText(q, tokens, max, head))
         /\ Layout(OfficialWhole(q, tokens, max, head), OfficialHeader(q, head),
                   OfficialOptions(q, head), OfficialText(q, tokens, max, head), q,
                   Len(questions[q].options))
<1>1. PICK k \in Nat : k = Len(questions[q].options)
  BY DEF Asked
<1>2. PICK options : options = OfficialOptions(q, head)
  OBVIOUS
<1>3. PICK header : header = OfficialHeader(q, head)
  OBVIOUS
<1>4. MarkedTexts(options, q, k) /\ IsPlain(header)
  BY <1>1, <1>2, <1>3, OfficialOptionsAreMarked, OfficialHeaderIsPlain
<1>5. Len(Opening(header, options)) = Len(header) + Total(options) + 3
  BY <1>4, OpeningLength DEF MarkedTexts
<1>6. Len(header) \in Nat /\ Total(options) \in Nat
  BY <1>4, TotalIsNat DEF IsPlain, MarkedTexts
<1>7. Greater(0, max - Len(Opening(header, options)) - 1) \in Nat
  BY <1>5, <1>6 DEF Greater
<1>8. IsPlain(OfficialText(q, tokens, max, head))
  BY <1>2, <1>3, <1>7, StateTextIsPlain DEF OfficialText
<1>9. q \in Nat
  BY DEF Asked
<1>10. Layout(Whole(header, options, OfficialText(q, tokens, max, head)), header, options,
              OfficialText(q, tokens, max, head), q, k)
  BY <1>4, <1>8, <1>9, WholeLayout
<1>11. QED
  BY <1>1, <1>2, <1>3, <1>8, <1>10 DEF OfficialWhole

\* A search for the marker of an option finds it where the option starts.
LEMMA MarksAreFound ==
  ASSUME NEW q \in Nat, NEW k \in Nat, NEW header, NEW options, NEW text, NEW whole,
         Layout(whole, header, options, text, q, k)
  PROVE  FoundMarks(whole, q, k) = [j \in 1..k |-> Start(header, options, j)]
<1>1. SUFFICES ASSUME NEW j \in 1..k
               PROVE  (CHOOSE i \in 1..Len(whole) : whole[i] = Token("mask", q, j, 0)) - 1
                        = Start(header, options, j)
  BY DEF FoundMarks
<1>2. PICK a \in Nat : a = Start(header, options, j)
  BY DEF Layout
<1>3. a + 1 \in 1..Len(whole) /\ whole[a + 1] = Token("mask", q, j, 0)
  BY <1>2 DEF Layout
<1>4. ASSUME NEW i \in 1..Len(whole), whole[i] = Token("mask", q, j, 0) PROVE i = a + 1
  <2>1. whole[i] \notin Plain
    BY <1>4, MarkersDiffer
  <2>2. PICK n \in 1..k : i = Start(header, options, n) + 1
    BY <2>1 DEF Layout
  <2>3. whole[i] = Token("mask", q, n, 0)
    BY <2>2 DEF Layout
  <2>4. n = j
    BY <2>3, <1>4, MarkersDiffer
  <2>5. QED
    BY <2>2, <2>4, <1>2
<1>5. (CHOOSE i \in 1..Len(whole) : whole[i] = Token("mask", q, j, 0)) = a + 1
  BY <1>3, <1>4
<1>6. (a + 1) - 1 = a
  OBVIOUS
<1>7. QED
  BY <1>5, <1>6, <1>2

----------------------------------------------------------------------------
\* The budgets and the state of a request that is being built.
Budgeted == budget.max \in Nat /\ budget.max # 0 /\ budget.head \in Nat /\ state \in Nat

\* Nothing, shared among the options, is nothing.
LEMMA NoneDivided ==
  ASSUME NEW k \in Nat, k # 0
  PROVE  0 \div k = 0
OBVIOUS

\* A negative share is below the floor of 4.
LEMMA NegativeDivided ==
  ASSUME NEW a \in Int, a < 0, NEW k \in Nat, k # 0
  PROVE  a \div k \in Int /\ a \div k <= 4
OBVIOUS

\* With saturating arithmetic the options are cut as with signed arithmetic: where the
\* difference is negative, the floor of 4 decides both (truncate_head).
LEMMA TruncateOptionsIsOfficial ==
  ASSUME NEW q, Asked(q), Budgeted
  PROVE  TruncateOptions(OptionTexts(q)) = OfficialOptions(q, budget.head)
<1>1. PICK k \in Nat : k = Len(questions[q].options) /\ k >= 2
  BY DEF Asked
<1>2. PICK texts : texts = OptionTexts(q)
  OBVIOUS
<1>3. MarkedTexts(texts, q, k)
  BY <1>1, <1>2, OptionTextsAreMarked
<1>4. Len(texts) = k /\ DOMAIN texts = 1..k
  BY <1>3 DEF MarkedTexts
<1>5. PICK total \in Nat : total = Total(texts)
  BY <1>3, TotalIsNat DEF MarkedTexts
<1>6. PICK head \in Nat : head = budget.head
  BY DEF Budgeted
<1>7. Sat(head, total) >= 16 <=> ~(head - total < 16)
  BY DEF Sat, Greater
<1>8. Greater(Sat(head, 16) \div k, 4) = Greater(4, (head - 16) \div Greater(1, k))
  <2>1. Greater(1, k) = k
    BY <1>1 DEF Greater
  <2>2. CASE head >= 16
    <3>1. Sat(head, 16) = head - 16
      BY <2>2 DEF Sat, Greater
    <3>2. (head - 16) \div k \in Int
      BY <1>1
    <3>3. QED
      BY <2>1, <3>1, <3>2 DEF Greater
  <2>3. CASE head < 16
    <3>1. Sat(head, 16) = 0
      BY <2>3 DEF Sat, Greater
    <3>2. 0 \div k = 0
      <4>1. k # 0
        BY <1>1
      <4>2. QED
        BY <4>1, NoneDivided, Zenon
    <3>3. (head - 16) \div k \in Int /\ (head - 16) \div k <= 4
      <4>1. k # 0
        BY <1>1
      <4>2. head - 16 \in Int /\ head - 16 < 0
        BY <2>3
      <4>3. QED
        BY <4>1, <4>2, NegativeDivided, Zenon
    <3>4. QED
      BY <2>1, <3>1, <3>2, <3>3 DEF Greater
  <2>4. QED
    BY <2>2, <2>3
<1>9. PICK per : per = Greater(4, (head - 16) \div Greater(1, k))
  OBVIOUS
<1>10. TruncateOptions(texts) =
         IF Sat(head, total) >= 16 THEN texts ELSE [j \in 1..k |-> Take(texts[j], per)]
  BY <1>4, <1>5, <1>6, <1>8, <1>9 DEF TruncateOptions
<1>11. OfficialOptions(q, head) =
         IF head - total < 16 THEN [j \in 1..k |-> Take(texts[j], per)] ELSE texts
  BY <1>2, <1>4, <1>5, <1>9 DEF OfficialOptions
<1>12. QED
  BY <1>2, <1>6, <1>7, <1>10, <1>11

\* So is the header, whose floor is 8.
LEMMA TruncateHeaderIsOfficial ==
  ASSUME NEW q, Asked(q), Budgeted
  PROVE  TruncateHeader(HeaderText(q), OfficialOptions(q, budget.head))
           = OfficialHeader(q, budget.head)
<1>1. PICK head \in Nat : head = budget.head
  BY DEF Budgeted
<1>2. PICK total \in Nat : total = Total(OfficialOptions(q, head))
  BY OfficialOptionsAreMarked, TotalIsNat DEF MarkedTexts
<1>3. Greater(Sat(head, total), 8) = Greater(8, head - total)
  BY DEF Greater, Sat
<1>4. QED
  BY <1>1, <1>2, <1>3 DEF TruncateHeader, OfficialHeader

\* Row builds the official sequence, cut at the limit, with the starts as markers.
LEMMA RowParts ==
  ASSUME NEW q, Asked(q), Budgeted
  PROVE  Row(q) =
           IF MarkerLost(OfficialHeader(q, budget.head), OfficialOptions(q, budget.head)) THEN Lost
           ELSE [ids     |-> Take(OfficialWhole(q, state, budget.max, budget.head), budget.max),
                 markers |-> [j \in 1..Len(questions[q].options) |->
                                Start(OfficialHeader(q, budget.head),
                                      OfficialOptions(q, budget.head), j)]]
<1>1. PICK k \in Nat : k = Len(questions[q].options)
  BY DEF Asked
<1>2. PICK head \in Nat, max \in Nat : head = budget.head /\ max = budget.max
  BY DEF Budgeted
<1>3. PICK options : options = OfficialOptions(q, head)
  OBVIOUS
<1>4. PICK header : header = OfficialHeader(q, head)
  OBVIOUS
<1>5. TruncateOptions(OptionTexts(q)) = options
  BY <1>2, <1>3, TruncateOptionsIsOfficial
<1>6. TruncateHeader(HeaderText(q), options) = header
  BY <1>2, <1>3, <1>4, TruncateHeaderIsOfficial
<1>7. MarkedTexts(options, q, k) /\ IsPlain(header)
  BY <1>1, <1>2, <1>3, <1>4, OfficialOptionsAreMarked, OfficialHeaderIsPlain
<1>8. PICK H \in Nat, T \in Nat : H = Len(header) /\ T = Total(options)
  BY <1>7, TotalIsNat DEF IsPlain, MarkedTexts
<1>9. Len(Opening(header, options)) = H + T + 3
  BY <1>7, <1>8, OpeningLength DEF MarkedTexts
<1>10. PICK room : room = Sat(Sat(max, H + T + 3), 1)
  OBVIOUS
<1>11. room = Greater(0, max - (H + T + 3) - 1)
  BY <1>10 DEF Sat, Greater
<1>12. PICK text : text = Take(Text("state", 0, 0, state), room)
  OBVIOUS
<1>13. OfficialText(q, state, max, head) = text
  BY <1>3, <1>4, <1>9, <1>11, <1>12 DEF OfficialText
<1>14. OfficialWhole(q, state, max, head) = Whole(header, options, text)
  BY <1>3, <1>4, <1>13 DEF OfficialWhole
<1>15. DOMAIN options = 1..k
  BY <1>7 DEF MarkedTexts
<1>16. Row(q) = IF MarkerLost(header, options) THEN Lost
                ELSE [ids     |-> Take(Whole(header, options, text), max),
                      markers |-> [j \in 1..k |-> Start(header, options, j)]]
  <2>1. Sat(Sat(budget.max, Len(header) + Total(options) + 3), 1) = room
    BY <1>2, <1>8, <1>10
  <2>2. Row(q) = IF MarkerLost(header, options) THEN Lost
                 ELSE [ids     |-> Take(<<Special("cls")>> \o header \o <<Special("sep")>>
                                   \o Concat(options) \o <<Special("sep")>>
                                   \o Take(Text("state", 0, 0, state), room)
                                   \o <<Special("sep")>>, budget.max),
                       markers |-> [j \in DOMAIN options |-> Start(header, options, j)]]
    BY <1>5, <1>6, <2>1 DEF Row
  <2>3. QED
    BY <2>2, <1>2, <1>12, <1>15 DEF Whole
<1>17. QED
  BY <1>1, <1>2, <1>3, <1>4, <1>14, <1>16

\* A marker is at or behind the limit exactly if the official function finds fewer
\* markers than options; if none is, both build the same row.
LEMMA OfficialLostIsLost ==
  ASSUME NEW q, Asked(q), Budgeted
  PROVE  LET row  == OfficialRow(q, state, budget.max, budget.head)
             lost == MarkerLost(OfficialHeader(q, budget.head), OfficialOptions(q, budget.head))
         IN  /\ OfficialLost(q, row) <=> lost
             /\ ~lost => Row(q) = row
             /\ lost => Row(q) = Lost
<1>1. PICK k \in Nat : k = Len(questions[q].options)
  BY DEF Asked
<1>2. PICK head \in Nat, max \in Nat : head = budget.head /\ max = budget.max
  BY DEF Budgeted
<1>3. PICK options : options = OfficialOptions(q, head)
  OBVIOUS
<1>4. PICK header : header = OfficialHeader(q, head)
  OBVIOUS
<1>5. PICK whole : whole = OfficialWhole(q, state, max, head)
  OBVIOUS
<1>6. PICK text : text = OfficialText(q, state, max, head)
  OBVIOUS
<1>7. q \in Nat /\ state \in Nat
  BY DEF Asked, Budgeted
<1>8. Layout(whole, header, options, text, q, k)
  BY <1>1, <1>2, <1>3, <1>4, <1>5, <1>6, <1>7, OfficialLayout
<1>9. PICK marks : marks = [j \in 1..k |-> Start(header, options, j)]
  OBVIOUS
<1>10. FoundMarks(whole, q, k) = marks
  BY <1>7, <1>8, <1>9, MarksAreFound
<1>11. Len(OptionTexts(q)) = k /\ DOMAIN options = 1..k
  BY <1>1, <1>2, <1>3, OptionTextsAreMarked, OfficialOptionsAreMarked DEF MarkedTexts
<1>12. OfficialRow(q, state, max, head) = [ids |-> Take(whole, max), markers |-> Below(marks, max)]
  BY <1>5, <1>10, <1>11, OfficialRowParts
<1>13. Len(marks) = k /\ \A j \in 1..k : marks[j] \in Nat /\ marks[j] = Start(header, options, j)
  <2>1. \A j \in 1..k : Start(header, options, j) \in Nat
    BY <1>8 DEF Layout
  <2>2. QED
    BY <2>1, <1>9
<1>14. MarkerLost(header, options) <=> \E j \in 1..k : ~(marks[j] < max)
  <2>1. MarkerLost(header, options) <=> \E j \in 1..k : marks[j] >= max
    BY <1>2, <1>11, <1>13 DEF MarkerLost
  <2>2. QED
    BY <2>1, <1>13
<1>15. /\ Below(marks, max) \in Seq(Nat)
       /\ (\A j \in 1..k : marks[j] < max) =>
            Len(Below(marks, max)) = k /\ \A j \in 1..k : Below(marks, max)[j] = marks[j]
       /\ (\E j \in 1..k : ~(marks[j] < max)) => Len(Below(marks, max)) < k
  <2>1. Len(marks) \in Nat /\ \A j \in 1..Len(marks) : marks[j] \in Nat
    BY <1>13
  <2>2. QED
    BY <2>1, <1>13, BelowKeepsAll
<1>16. ASSUME ~MarkerLost(header, options) PROVE Below(marks, max) = marks
  <2>1. PICK b \in Seq(Nat) : b = Below(marks, max) /\ Len(b) = k /\ \A j \in 1..k : b[j] = marks[j]
    BY <1>14, <1>15, <1>16
  <2>2. b = [j \in 1..k |-> b[j]]
    BY <2>1
  <2>3. QED
    BY <2>1, <2>2, <1>9
<1>17. OfficialLost(q, OfficialRow(q, state, max, head)) <=> Len(Below(marks, max)) # k
  BY <1>1, <1>12 DEF OfficialLost
<1>18. OfficialLost(q, OfficialRow(q, state, max, head)) <=> MarkerLost(header, options)
  BY <1>14, <1>15, <1>17
<1>19. Row(q) = IF MarkerLost(header, options) THEN Lost
                ELSE [ids |-> Take(whole, max), markers |-> marks]
  BY <1>1, <1>2, <1>3, <1>4, <1>5, <1>9, RowParts
<1>20. QED
  BY <1>2, <1>3, <1>4, <1>12, <1>16, <1>18, <1>19

\* A row that is built: its tokens are real ones, and each option has its marker in it.
Built(row, q) ==
  LET k == Len(questions[q].options)
  IN  /\ row.ids \in Seq(Tokens)
      /\ Len(row.ids) >= 1
      /\ \A i \in 1..Len(row.ids) : row.ids[i] # Special("pad")
      /\ row.markers \in [1..k -> Nat]
      /\ Len(row.markers) = k
      /\ \A j \in 1..k : /\ row.markers[j] + 1 \in 1..Len(row.ids)
                         /\ row.ids[row.markers[j] + 1] = Token("mask", q, j, 0)

\* Nothing in the sequence of a question is padding.
LEMMA LayoutHasNoPadding ==
  ASSUME NEW whole, NEW header, NEW options, NEW text, NEW q \in Nat, NEW k \in Nat,
         Layout(whole, header, options, text, q, k)
  PROVE  \A p \in 1..Len(whole) : whole[p] # Special("pad")
<1>1. TAKE p \in 1..Len(whole)
<1>2. CASE whole[p] \in Plain
  BY <1>2, PlainIsNoPadding
<1>3. CASE whole[p] \notin Plain
  <2>1. PICK j \in 1..k : p = Start(header, options, j) + 1
    BY <1>3 DEF Layout
  <2>2. whole[p] = Token("mask", q, j, 0)
    BY <2>1 DEF Layout
  <2>3. QED
    BY <2>2, MarkersDiffer
<1>4. QED
  BY <1>2, <1>3

\* A row whose markers are in front of the limit is built as it should be.
LEMMA RowIsBuilt ==
  ASSUME NEW q, Asked(q), Budgeted,
         ~MarkerLost(OfficialHeader(q, budget.head), OfficialOptions(q, budget.head))
  PROVE  Built(Row(q), q)
<1>1. PICK k \in Nat : k = Len(questions[q].options)
  BY DEF Asked
<1>2. PICK head \in Nat, max \in Nat : head = budget.head /\ max = budget.max /\ max # 0
  BY DEF Budgeted
<1>3. PICK options : options = OfficialOptions(q, head)
  OBVIOUS
<1>4. PICK header : header = OfficialHeader(q, head)
  OBVIOUS
<1>5. PICK whole : whole = OfficialWhole(q, state, max, head)
  OBVIOUS
<1>6. PICK text : text = OfficialText(q, state, max, head)
  OBVIOUS
<1>7. q \in Nat /\ state \in Nat
  BY DEF Asked, Budgeted
<1>8. Layout(whole, header, options, text, q, k) /\ IsPlain(text)
  BY <1>1, <1>2, <1>3, <1>4, <1>5, <1>6, <1>7, OfficialLayout
<1>9. PICK marks : marks = [j \in 1..k |-> Start(header, options, j)]
  OBVIOUS
<1>10. PICK ids : ids = Take(whole, max)
  OBVIOUS
<1>11. Row(q) = [ids |-> ids, markers |-> marks]
  BY <1>1, <1>2, <1>3, <1>4, <1>5, <1>9, <1>10, RowParts
<1>12. MarkedTexts(options, q, k) /\ IsPlain(header)
  BY <1>1, <1>2, <1>3, <1>4, OfficialOptionsAreMarked, OfficialHeaderIsPlain
<1>13. whole \in Seq(Tokens) /\ Len(whole) \in Nat /\ Len(whole) >= 4
  <2>1. Len(header) \in Nat /\ Total(options) \in Nat /\ Len(text) \in Nat
    BY <1>8, <1>12, TotalIsNat DEF IsPlain, MarkedTexts
  <2>2. QED
    BY <2>1, <1>8 DEF Layout
<1>14. PICK L \in Nat : L = IF max < Len(whole) THEN max ELSE Len(whole)
  BY <1>13
<1>15. ids \in Seq(Tokens) /\ Len(ids) = L /\ \A i \in 1..L : ids[i] = whole[i]
  BY <1>10, <1>13, <1>14, TakeIsPrefix
<1>16. L >= 1 /\ \A i \in 1..L : i \in 1..Len(whole)
  BY <1>2, <1>13, <1>14
<1>17. \A i \in 1..L : ids[i] # Special("pad")
  BY <1>1, <1>7, <1>8, <1>15, <1>16, LayoutHasNoPadding
<1>18. ASSUME NEW j \in 1..k
       PROVE  /\ marks[j] \in Nat /\ marks[j] + 1 \in 1..L
              /\ ids[marks[j] + 1] = Token("mask", q, j, 0)
  <2>1. PICK a \in Nat : a = Start(header, options, j)
    BY <1>8 DEF Layout
  <2>2. a + 1 \in 1..Len(whole) /\ whole[a + 1] = Token("mask", q, j, 0)
    BY <2>1, <1>8 DEF Layout
  <2>3. a < max
    BY <2>1, <1>2, <1>3, <1>4, <1>12 DEF MarkerLost, MarkedTexts
  <2>4. a + 1 \in 1..L
    BY <2>2, <2>3, <1>2, <1>13, <1>14
  <2>5. marks[j] = a
    BY <2>1, <1>9
  <2>6. QED
    BY <2>2, <2>4, <2>5, <1>15
<1>19. marks \in [1..k -> Nat] /\ Len(marks) = k
  <2>1. marks = [j \in 1..k |-> marks[j]]
    BY <1>9
  <2>2. QED
    BY <2>1, <1>18
<1>20. QED
  BY <1>1, <1>11, <1>15, <1>16, <1>17, <1>18, <1>19 DEF Built

\* What becomes of a row, at any budgets that SequenceBuilder::new accepts and not only
\* at those of the oracles: the official one, built, or the error the official function has.
THEOREM RowDecides ==
  ASSUME NEW q, Asked(q), Budgeted
  PROVE  LET row == OfficialRow(q, state, budget.max, budget.head)
         IN  /\ Row(q) = Lost => OfficialLost(q, row)
             /\ Row(q) # Lost => ~OfficialLost(q, row) /\ Row(q) = row /\ Built(Row(q), q)
<1>1. PICK lost : lost = MarkerLost(OfficialHeader(q, budget.head), OfficialOptions(q, budget.head))
  OBVIOUS
<1>2. PICK row : row = OfficialRow(q, state, budget.max, budget.head)
  OBVIOUS
<1>3. MarkerLost(OfficialHeader(q, budget.head), OfficialOptions(q, budget.head))
      => Row(q) = Lost /\ OfficialLost(q, row)
  BY <1>2, OfficialLostIsLost
<1>4. ASSUME ~MarkerLost(OfficialHeader(q, budget.head), OfficialOptions(q, budget.head))
      PROVE  Row(q) # Lost /\ Row(q) = row /\ ~OfficialLost(q, row) /\ Built(Row(q), q)
  <2>1. Row(q) = row /\ ~OfficialLost(q, row)
    BY <1>2, <1>4, OfficialLostIsLost
  <2>2. Built(Row(q), q)
    BY <1>4, RowIsBuilt
  <2>3. Len(Row(q).ids) >= 1
    BY <2>2 DEF Built
  <2>4. Lost.ids = <<>> /\ Len(<<>>) = 0
    BY DEF Lost
  <2>5. QED
    BY <2>1, <2>2, <2>3, <2>4
<1>5. QED
  BY <1>2, <1>3, <1>4

\* The budgets of the oracles are numbers: at the limits of the first of them the first
\* marker of the first question is always in the row, so there is one to measure.
LEMMA BudgetsAreNumbers ==
  ASSUME Asked(1), NEW b \in OracleBudgets
  PROVE  b.max \in Nat /\ b.head \in Nat
<1>1. PICK k \in Nat : k = Len(questions[1].options) /\ k >= 2
  BY DEF Asked
<1>2. PICK max \in Nat, head \in Nat : max = 1024 /\ head = 256
  OBVIOUS
<1>3. PICK options : options = OfficialOptions(1, head)
  OBVIOUS
<1>4. PICK header : header = OfficialHeader(1, head)
  OBVIOUS
<1>5. PICK whole : whole = OfficialWhole(1, 0, max, head)
  OBVIOUS
<1>6. PICK text : text = OfficialText(1, 0, max, head)
  OBVIOUS
<1>7. 1 \in Nat /\ 0 \in Nat
  OBVIOUS
<1>8. Layout(whole, header, options, text, 1, k)
  BY <1>1, <1>3, <1>4, <1>5, <1>6, <1>7, OfficialLayout
<1>9. PICK marks : marks = [j \in 1..k |-> Start(header, options, j)]
  OBVIOUS
<1>10. FoundMarks(whole, 1, k) = marks
  BY <1>7, <1>8, <1>9, MarksAreFound
<1>11. Len(OptionTexts(1)) = k /\ MarkedTexts(options, 1, k)
  BY <1>1, <1>3, OptionTextsAreMarked, OfficialOptionsAreMarked DEF MarkedTexts
<1>12. PICK kept : kept = Below(marks, max)
  OBVIOUS
<1>13. PICK ids : ids = Take(whole, max)
  OBVIOUS
<1>14. OfficialRow(1, 0, max, head) = [ids |-> ids, markers |-> kept]
  BY <1>5, <1>10, <1>11, <1>12, <1>13, OfficialRowParts
<1>15. Len(ids) \in Nat
  <2>1. whole \in Seq(Tokens)
    BY <1>8 DEF Layout
  <2>2. ids \in Seq(Tokens)
    BY <2>1, <1>13, TakeIsPrefix
  <2>3. QED
    BY <2>2
<1>16. Len(marks) = k /\ \A j \in 1..k : marks[j] \in Nat /\ marks[j] = Start(header, options, j)
  <2>1. \A j \in 1..k : Start(header, options, j) \in Nat
    BY <1>8 DEF Layout
  <2>2. QED
    BY <2>1, <1>9
<1>17. marks[1] < max
  <2>1. PICK total \in Nat : total = Total(options)
    BY <1>11, TotalIsNat DEF MarkedTexts
  <2>2. Greater(8, head - total) \in Nat /\ Greater(8, head - total) <= 256
    BY <1>2 DEF Greater
  <2>3. "header" \in Kinds /\ questions[1].header \in Nat
    BY DEF Kinds, Asked
  <2>4. PICK s : s = HeaderText(1)
    OBVIOUS
  <2>5. s \in Seq(Plain)
    BY <2>3, <2>4, <1>7, PlainText DEF HeaderText
  <2>6. header = Take(s, Greater(8, head - total))
    BY <2>1, <2>4, <1>3, <1>4 DEF OfficialHeader
  <2>7. Len(header) = IF Greater(8, head - total) < Len(s) THEN Greater(8, head - total) ELSE Len(s)
    BY <2>2, <2>5, <2>6, TakeIsPrefix
  <2>8. Len(header) \in Nat /\ Len(header) <= 256
    BY <2>2, <2>5, <2>7
  <2>9. Total(SubSeq(options, 1, 0)) = 0
    <3>1. PICK g : Precede(options, g)
      BY <1>11, PrecedeExists DEF MarkedTexts
    <3>2. 0 \in 0..Len(options)
      BY <1>11 DEF MarkedTexts
    <3>3. QED
      BY <3>1, <3>2, <1>11, TotalOfPrefix DEF MarkedTexts, Precede
  <2>10. Start(header, options, 1) = 2 + Len(header)
    BY <2>8, <2>9 DEF Start
  <2>11. QED
    BY <2>8, <2>10, <1>1, <1>2, <1>16
<1>18. kept \in Seq(Nat) /\ Len(kept) # 0
  <2>1. Len(marks) \in Nat /\ Len(marks) # 0 /\ \A j \in 1..Len(marks) : marks[j] \in Nat
    BY <1>1, <1>16
  <2>2. QED
    BY <2>1, <1>12, <1>17, BelowKeepsAll
<1>19. kept[1] \in Nat /\ kept[Len(kept)] \in Nat
  BY <1>18
<1>20. b \in [max : {1024, Len(ids), Len(ids) + 1, kept[Len(kept)] + 1, kept[Len(kept)],
                    kept[1]}, head : {256}]
         \cup [max : {1024}, head : {0, 15, 16, 23, 24, 113, 114}]
  BY <1>2, <1>14 DEF OracleBudgets
<1>21. QED
  BY <1>15, <1>19, <1>20

----------------------------------------------------------------------------
\* The rows of the request, all built.
AllRowsBuilt(n) ==
  /\ n \in Nat /\ n # 0
  /\ DOMAIN questions = 1..n /\ Len(questions) = n
  /\ DOMAIN rows = 1..n
  /\ \A q \in 1..n : Asked(q) /\ Built(rows[q], q)

\* The columns of the markers are as many as the most options of a question.
Columns(n, k) ==
  /\ k \in Nat
  /\ \A q \in 1..n : Len(questions[q].options) <= k
  /\ \E q \in 1..n : Len(questions[q].options) = k

\* Padded keeps what is there and fills up with the padding.
LEMMA PaddedCells ==
  ASSUME NEW s, NEW n \in Nat, NEW pad
  PROVE  /\ Len(Padded(s, n, pad)) = n
         /\ \A i \in 1..n : Padded(s, n, pad)[i] = IF i <= Len(s) THEN s[i] ELSE pad
BY DEF Padded

\* Collate leaves each question the positions of its own markers, masked by their number.
LEMMA MarkersAreCollated ==
  ASSUME NEW n, AllRowsBuilt(n)
  PROVE  \E k : /\ Columns(n, k)
                /\ \A q \in 1..n :
                     /\ Len(Collate(rows).marker_pos[q]) = k
                     /\ Len(Collate(rows).marker_mask[q]) = k
                     /\ \A j \in 1..k :
                          /\ j <= Len(questions[q].options) =>
                               /\ Collate(rows).marker_pos[q][j] = rows[q].markers[j]
                               /\ Collate(rows).marker_mask[q][j]
                          /\ j > Len(questions[q].options) => ~Collate(rows).marker_mask[q][j]
<1>1. PICK f : f = [q \in 1..n |-> Len(rows[q].markers)]
  OBVIOUS
<1>2. n \in Nat /\ n # 0 /\ DOMAIN rows = 1..n /\ \A q \in 1..n : Asked(q) /\ Built(rows[q], q)
  BY DEF AllRowsBuilt
<1>3. \A q \in 1..n :
        f[q] = Len(questions[q].options) /\ f[q] = Len(rows[q].markers) /\ f[q] \in Nat
  BY <1>1, <1>2 DEF Built, Asked
<1>4. PICK k : k = Widest({f[q] : q \in 1..n})
  OBVIOUS
<1>5. (\E q \in 1..n : k = f[q]) /\ \A q \in 1..n : f[q] <= k
  <2>1. \A q \in 1..n : f[q] \in Int
    BY <1>3
  <2>2. QED
    BY <2>1, <1>2, <1>4, WidestIsMax
<1>6. Columns(n, k)
  BY <1>3, <1>5 DEF Columns
<1>7. {Len(rows[q].markers) : q \in DOMAIN rows} = {f[q] : q \in 1..n}
  BY <1>2, <1>3
<1>8. /\ Collate(rows).marker_pos = [q \in 1..n |-> Padded(rows[q].markers, k, 0)]
      /\ Collate(rows).marker_mask = [q \in 1..n |-> [j \in 1..k |-> j <= Len(rows[q].markers)]]
  BY <1>2, <1>4, <1>7 DEF Collate
<1>9. ASSUME NEW q \in 1..n
      PROVE  /\ Len(Collate(rows).marker_pos[q]) = k
             /\ Len(Collate(rows).marker_mask[q]) = k
             /\ \A j \in 1..k :
                  /\ j <= Len(questions[q].options) =>
                       /\ Collate(rows).marker_pos[q][j] = rows[q].markers[j]
                       /\ Collate(rows).marker_mask[q][j]
                  /\ j > Len(questions[q].options) => ~Collate(rows).marker_mask[q][j]
  <2>1. PICK m : m = rows[q].markers
    OBVIOUS
  <2>2. Len(m) = Len(questions[q].options) /\ Len(m) \in Nat /\ k \in Nat
    BY <2>1, <1>3, <1>6 DEF Columns
  <2>3. Collate(rows).marker_pos[q] = Padded(m, k, 0)
    BY <2>1, <1>8
  <2>4. Collate(rows).marker_mask[q] = [j \in 1..k |-> j <= Len(m)]
    BY <2>1, <1>8
  <2>5. /\ Len(Padded(m, k, 0)) = k
        /\ \A j \in 1..k : Padded(m, k, 0)[j] = IF j <= Len(m) THEN m[j] ELSE 0
    BY <2>2, PaddedCells
  <2>6. /\ Len([j \in 1..k |-> j <= Len(m)]) = k
        /\ \A j \in 1..k : [i \in 1..k |-> i <= Len(m)][j] = (j <= Len(m))
    BY <2>2
  <2>7. PICK mask : mask = [j \in 1..k |-> j <= Len(m)]
    OBVIOUS
  <2>8. ASSUME NEW j \in 1..k
        PROVE  (j <= Len(m) => mask[j]) /\ (j > Len(m) => ~mask[j])
    <3>1. mask[j] = (j <= Len(m))
      BY <2>6, <2>7
    <3>2. j > Len(m) => ~(j <= Len(m))
      BY <2>2
    <3>3. QED
      BY <3>1, <3>2, Zenon
  <2>9. Collate(rows).marker_mask[q] = mask /\ Len(mask) = k
    BY <2>4, <2>6, <2>7
  <2>10. \A j \in 1..k : j <= Len(m) => Collate(rows).marker_pos[q][j] = m[j]
    BY <2>3, <2>5
  <2>11. Len(Collate(rows).marker_pos[q]) = k
    BY <2>3, <2>5
  <2>12. QED
    BY <2>1, <2>2, <2>8, <2>9, <2>10, <2>11, Zenon
<1>10. QED
  BY <1>6, <1>9

\* Collate leaves each question its tokens in front of the padding.
LEMMA TokensAreCollated ==
  ASSUME NEW n, AllRowsBuilt(n)
  PROVE  \E l \in Nat :
           /\ \A q \in 1..n :
                /\ Len(rows[q].ids) <= l
                /\ Len(Collate(rows).input_ids[q]) = l
                /\ \A i \in 1..l :
                     /\ i <= Len(rows[q].ids) => /\ Collate(rows).input_ids[q][i] = rows[q].ids[i]
                                                 /\ Collate(rows).attention_mask[q][i]
                     /\ i > Len(rows[q].ids) => Collate(rows).input_ids[q][i] = Special("pad")
           /\ Collate(rows).input_tokens = Total([q \in 1..n |-> rows[q].ids])
<1>1. PICK f : f = [q \in 1..n |-> Len(rows[q].ids)]
  OBVIOUS
<1>2. n \in Nat /\ n # 0 /\ DOMAIN rows = 1..n /\ \A q \in 1..n : Asked(q) /\ Built(rows[q], q)
  BY DEF AllRowsBuilt
<1>3. \A q \in 1..n : f[q] = Len(rows[q].ids) /\ f[q] \in Nat
  <2>1. TAKE q \in 1..n
  <2>2. rows[q].ids \in Seq(Tokens)
    BY <1>2 DEF Built
  <2>3. QED
    BY <2>2, <1>1
<1>4. PICK l : l = Widest({f[q] : q \in 1..n})
  OBVIOUS
<1>5. (\E q \in 1..n : l = f[q]) /\ \A q \in 1..n : f[q] <= l
  <2>1. \A q \in 1..n : f[q] \in Int
    BY <1>3
  <2>2. QED
    BY <2>1, <1>2, <1>4, WidestIsMax
<1>6. l \in Nat
  BY <1>3, <1>5
<1>7. {Len(rows[q].ids) : q \in DOMAIN rows} = {f[q] : q \in 1..n}
  BY <1>2, <1>3
<1>8. PICK pad : pad = Special("pad")
  OBVIOUS
<1>9. /\ Collate(rows).input_ids = [q \in 1..n |-> Padded(rows[q].ids, l, pad)]
      /\ Collate(rows).attention_mask = [q \in 1..n |-> [i \in 1..l |-> i <= Len(rows[q].ids)]]
      /\ Collate(rows).input_tokens = Total([q \in 1..n |-> rows[q].ids])
  BY <1>2, <1>4, <1>7, <1>8 DEF Collate
<1>10. ASSUME NEW q \in 1..n
       PROVE  /\ Len(rows[q].ids) <= l
              /\ Len(Collate(rows).input_ids[q]) = l
              /\ \A i \in 1..l :
                   /\ i <= Len(rows[q].ids) => /\ Collate(rows).input_ids[q][i] = rows[q].ids[i]
                                               /\ Collate(rows).attention_mask[q][i]
                   /\ i > Len(rows[q].ids) => Collate(rows).input_ids[q][i] = Special("pad")
  <2>1. PICK m : m = rows[q].ids
    OBVIOUS
  <2>2. Len(m) \in Nat /\ Len(m) <= l
    BY <2>1, <1>3, <1>5
  <2>3. Collate(rows).input_ids[q] = Padded(m, l, pad)
    BY <2>1, <1>9
  <2>4. Collate(rows).attention_mask[q] = [i \in 1..l |-> i <= Len(m)]
    BY <2>1, <1>9
  <2>5. /\ Len(Padded(m, l, pad)) = l
        /\ \A i \in 1..l : Padded(m, l, pad)[i] = IF i <= Len(m) THEN m[i] ELSE pad
    BY <1>6, PaddedCells
  <2>6. \A i \in 1..l : [j \in 1..l |-> j <= Len(m)][i] = (i <= Len(m))
    OBVIOUS
  <2>7. PICK mask : mask = [i \in 1..l |-> i <= Len(m)]
    OBVIOUS
  <2>8. ASSUME NEW i \in 1..l, i <= Len(m) PROVE mask[i]
    <3>1. mask[i] = (i <= Len(m))
      BY <2>6, <2>7
    <3>2. QED
      BY <2>8, <3>1, Zenon
  <2>9. Collate(rows).attention_mask[q] = mask
    BY <2>4, <2>7
  <2>10. \A i \in 1..l : i > Len(m) => ~(i <= Len(m))
    BY <1>6, <2>2
  <2>11. /\ \A i \in 1..l : i <= Len(m) => Collate(rows).input_ids[q][i] = m[i]
         /\ \A i \in 1..l : i > Len(m) => Collate(rows).input_ids[q][i] = pad
    BY <2>3, <2>5, <2>10, Zenon
  <2>12. Len(Collate(rows).input_ids[q]) = l
    BY <2>3, <2>5
  <2>13. QED
    BY <2>1, <2>2, <2>8, <2>9, <2>11, <2>12, <1>8, Zenon
<1>11. QED
  BY <1>6, <1>9, <1>10

\* The usage is the number of cells that are not padding.
LEMMA TokensAreCounted ==
  ASSUME NEW n, AllRowsBuilt(n), NEW b, b = Collate(rows)
  PROVE  b.input_tokens = Cardinality({p \in (1..n) \X (1..Len(b.input_ids[1])) :
                                         b.input_ids[p[1]][p[2]] # Special("pad")})
<1>1. PICK l \in Nat :
        /\ \A q \in 1..n :
             /\ Len(rows[q].ids) <= l
             /\ Len(b.input_ids[q]) = l
             /\ \A i \in 1..l : /\ i <= Len(rows[q].ids) => b.input_ids[q][i] = rows[q].ids[i]
                                /\ i > Len(rows[q].ids) => b.input_ids[q][i] = Special("pad")
        /\ b.input_tokens = Total([q \in 1..n |-> rows[q].ids])
  BY TokensAreCollated
<1>2. n \in Nat /\ n # 0 /\ \A q \in 1..n : Built(rows[q], q)
  BY DEF AllRowsBuilt
<1>3. PICK V : V = Seq(Tokens)
  OBVIOUS
<1>4. PICK seqs : seqs = [q \in 1..n |-> rows[q].ids]
  OBVIOUS
<1>5. \A q \in 1..n : seqs[q] = rows[q].ids /\ seqs[q] \in V /\ Len(seqs[q]) \in Nat
  <2>1. TAKE q \in 1..n
  <2>2. rows[q].ids \in Seq(Tokens)
    BY <1>2 DEF Built
  <2>3. QED
    BY <2>2, <1>3, <1>4
<1>6. seqs \in TextsOf(Tokens) /\ Len(seqs) = n
  <2>1. [q \in 1..n |-> seqs[q]] \in Seq(V) /\ Len([q \in 1..n |-> seqs[q]]) = n
    BY <1>2, <1>5
  <2>2. [q \in 1..n |-> seqs[q]] = seqs
    BY <1>4
  <2>3. QED
    BY <2>1, <2>2, <1>3 DEF TextsOf
<1>7. \A q \in 1..Len(seqs) : Len(seqs[q]) <= l
  BY <1>1, <1>5, <1>6
<1>8. Cardinality({p \in (1..Len(seqs)) \X (1..l) : p[2] <= Len(seqs[p[1]])}) = Total(seqs)
  BY <1>6, <1>7, CellsAreTotal
<1>9. ASSUME NEW q \in 1..n, NEW i \in 1..l
      PROVE  b.input_ids[q][i] # Special("pad") <=> i <= Len(seqs[q])
  <2>1. CASE i <= Len(seqs[q])
    <3>1. i \in 1..Len(rows[q].ids)
      BY <2>1, <1>5
    <3>2. rows[q].ids[i] # Special("pad")
      BY <3>1, <1>2 DEF Built
    <3>3. QED
      BY <2>1, <3>2, <1>1, <1>5
  <2>2. CASE i > Len(seqs[q])
    BY <2>2, <1>1, <1>5
  <2>3. QED
    BY <2>1, <2>2, <1>5
<1>10. {p \in (1..n) \X (1..l) : b.input_ids[p[1]][p[2]] # Special("pad")}
         = {p \in (1..n) \X (1..l) : p[2] <= Len(seqs[p[1]])}
  BY <1>9
<1>11. Len(b.input_ids[1]) = l
  BY <1>1, <1>2
<1>12. QED
  BY <1>1, <1>4, <1>6, <1>8, <1>10, <1>11

\* A batch collated from built rows finds each option at its own marker.
LEMMA CollatedBatchFindsOptions ==
  ASSUME NEW n, AllRowsBuilt(n), batch = Collate(rows)
  PROVE  BatchFindsOptions
<1>1. PICK k :
        /\ Columns(n, k)
        /\ \A q \in 1..n :
             /\ Len(batch.marker_pos[q]) = k
             /\ \A j \in 1..k :
                  /\ j <= Len(questions[q].options) => /\ batch.marker_pos[q][j] = rows[q].markers[j]
                                                       /\ batch.marker_mask[q][j]
                  /\ j > Len(questions[q].options) => ~batch.marker_mask[q][j]
  BY MarkersAreCollated
<1>2. PICK l \in Nat :
        \A q \in 1..n :
          /\ Len(rows[q].ids) <= l
          /\ \A i \in 1..l : i <= Len(rows[q].ids) => /\ batch.input_ids[q][i] = rows[q].ids[i]
                                                      /\ batch.attention_mask[q][i]
  <2>1. PICK l \in Nat :
           /\ \A q \in 1..n :
                /\ Len(rows[q].ids) <= l
                /\ Len(Collate(rows).input_ids[q]) = l
                /\ \A i \in 1..l :
                     /\ i <= Len(rows[q].ids) => /\ Collate(rows).input_ids[q][i] = rows[q].ids[i]
                                                 /\ Collate(rows).attention_mask[q][i]
                     /\ i > Len(rows[q].ids) => Collate(rows).input_ids[q][i] = Special("pad")
           /\ Collate(rows).input_tokens = Total([q \in 1..n |-> rows[q].ids])
    BY TokensAreCollated, Zenon
  <2>2. \A q \in 1..n :
          /\ Len(rows[q].ids) <= l
          /\ \A i \in 1..l : i <= Len(rows[q].ids) => /\ batch.input_ids[q][i] = rows[q].ids[i]
                                                      /\ batch.attention_mask[q][i]
    BY <2>1, Zenon
  <2>3. QED
    BY <2>2, Zenon
<1>3. /\ n \in Nat /\ DOMAIN questions = 1..n
      /\ \A q \in 1..n : Built(rows[q], q) /\ Len(questions[q].options) \in Nat
  BY DEF AllRowsBuilt, Asked
<1>4. ASSUME NEW q \in 1..n, NEW j \in 1..k, j <= Len(questions[q].options)
      PROVE  /\ batch.marker_mask[q][j]
             /\ batch.attention_mask[q][batch.marker_pos[q][j] + 1]
             /\ batch.input_ids[q][batch.marker_pos[q][j] + 1] = Token("mask", q, j, 0)
  <2>1. batch.marker_mask[q][j] /\ batch.marker_pos[q][j] = rows[q].markers[j]
    BY <1>1, <1>4, Zenon
  <2>2. PICK p : p = rows[q].markers[j] + 1
    OBVIOUS
  <2>3. j \in 1..Len(questions[q].options)
    BY <1>3, <1>4
  <2>4. p \in 1..Len(rows[q].ids) /\ rows[q].ids[p] = Token("mask", q, j, 0)
    BY <2>2, <2>3, <1>3 DEF Built
  <2>5. Len(rows[q].ids) \in Nat /\ Len(rows[q].ids) <= l
    <3>1. rows[q].ids \in Seq(Tokens)
      BY <1>3 DEF Built
    <3>2. QED
      BY <3>1, <1>2
  <2>6. p \in 1..l /\ p <= Len(rows[q].ids)
    BY <2>4, <2>5
  <2>7. batch.input_ids[q][p] = rows[q].ids[p] /\ batch.attention_mask[q][p]
    BY <2>6, <1>2, Zenon
  <2>8. QED
    BY <2>1, <2>2, <2>4, <2>7, Zenon
<1>5. ASSUME NEW q \in 1..n, NEW j \in 1..k, ~(j <= Len(questions[q].options))
      PROVE  ~batch.marker_mask[q][j]
  <2>1. j > Len(questions[q].options)
    BY <1>3, <1>5, <1>1 DEF Columns
  <2>2. QED
    BY <2>1, <1>1, Zenon
<1>6. batch.input_tokens = Cardinality({p \in (1..n) \X (1..Len(batch.input_ids[1])) :
                                          batch.input_ids[p[1]][p[2]] # Special("pad")})
  BY TokensAreCounted
<1>7. \A q \in 1..n : Len(batch.marker_pos[q]) = k
  BY <1>1
<1>8. QED
  BY <1>3, <1>4, <1>5, <1>6, <1>7, Zenon DEF BatchFindsOptions

\* What the model computes: nothing, or a value for each column of each question.
Outputs(n, k) ==
  /\ logits \in {<<>>} \cup [1..n -> [1..k -> {NonFinite, Large} \cup Int]]
  /\ acts \in {<<>>} \cup [1..n -> BOOLEAN]

\* The columns that response() takes the outputs to have.
LEMMA WidestQuestion ==
  ASSUME NEW n \in Nat, n # 0, DOMAIN questions = 1..n, \A q \in 1..n : Asked(q),
         NEW k, Columns(n, k)
  PROVE  Widest({Len(questions[q].options) : q \in DOMAIN questions}) = k
<1>1. PICK f : f = [q \in 1..n |-> Len(questions[q].options)]
  OBVIOUS
<1>2. \A q \in 1..n : f[q] = Len(questions[q].options) /\ f[q] <= k
  BY <1>1 DEF Columns
<1>3. \A q \in 1..n : f[q] \in Nat
  BY <1>2 DEF Asked
<1>4. PICK w : w = Widest({f[q] : q \in 1..n})
  OBVIOUS
<1>5. (\E q \in 1..n : w = f[q]) /\ \A q \in 1..n : f[q] <= w
  <2>1. \A q \in 1..n : f[q] \in Int
    BY <1>3
  <2>2. QED
    BY <2>1, <1>4, WidestIsMax
<1>6. PICK q \in 1..n : f[q] = k
  BY <1>2 DEF Columns
<1>7. w = k
  BY <1>2, <1>3, <1>5, <1>6 DEF Columns
<1>8. {Len(questions[r].options) : r \in DOMAIN questions} = {f[r] : r \in 1..n}
  BY <1>2
<1>9. QED
  BY <1>4, <1>7, <1>8

\* The first m values of a row of k, as answer() gets them.
LEMMA FirstOfRow ==
  ASSUME NEW V, NEW k \in Nat, NEW row \in [1..k -> V], NEW m \in Nat, m <= k
  PROVE  /\ Len(SubSeq(row, 1, m)) = m
         /\ \A i \in 1..m : SubSeq(row, 1, m)[i] = row[i]
         /\ SubSeq(row, 1, m) = [i \in 1..m |-> row[i]]
<1>1. row \in Seq(V) /\ Len(row) = k
  OBVIOUS
<1>2. PICK p : p = SubSeq(row, 1, m)
  OBVIOUS
<1>3. p \in Seq(V) /\ Len(p) = m /\ \A i \in 1..m : p[i] = row[i]
  BY <1>1, <1>2
<1>4. p = [i \in 1..m |-> row[i]]
  <2>1. p = [i \in 1..m |-> p[i]]
    BY <1>3
  <2>2. QED
    BY <2>1, <1>3
<1>5. QED
  BY <1>2, <1>3, <1>4

\* The options' logits are those that the marker mask leaves.
LEMMA MaskIsOptions ==
  ASSUME NEW n, AllRowsBuilt(n), batch = Collate(rows)
  PROVE  /\ Len(batch.marker_mask) = n
         /\ \E k : /\ Columns(n, k) /\ Len(batch.marker_mask[1]) = k
                  /\ \A q \in 1..n : \A j \in 1..k :
                       batch.marker_mask[q][j] <=> j <= Len(questions[q].options)
<1>1. n \in Nat /\ n # 0 /\ DOMAIN rows = 1..n /\ \A q \in 1..n : Asked(q)
  BY DEF AllRowsBuilt
<1>2. Len(batch.marker_mask) = n
  <2>1. PICK mask : mask = batch.marker_mask
    OBVIOUS
  <2>2. DOMAIN mask = 1..n /\ mask = [q \in 1..n |-> mask[q]]
    BY <2>1, <1>1 DEF Collate
  <2>3. Len(mask) = n
    BY <2>2, <1>1
  <2>4. QED
    BY <2>1, <2>3
<1>3. PICK k :
        /\ Columns(n, k)
        /\ \A q \in 1..n :
             /\ Len(batch.marker_pos[q]) = k
             /\ Len(batch.marker_mask[q]) = k
             /\ \A j \in 1..k :
                  /\ j <= Len(questions[q].options) =>
                       /\ batch.marker_pos[q][j] = rows[q].markers[j]
                       /\ batch.marker_mask[q][j]
                  /\ j > Len(questions[q].options) => ~batch.marker_mask[q][j]
  BY MarkersAreCollated
<1>4. ASSUME NEW q \in 1..n, NEW j \in 1..k
      PROVE  batch.marker_mask[q][j] <=> j <= Len(questions[q].options)
  <2>1. j <= Len(questions[q].options) \/ j > Len(questions[q].options)
    BY <1>1, <1>3 DEF Asked, Columns
  <2>2. ~(j <= Len(questions[q].options)) \/ ~(j > Len(questions[q].options))
    BY <1>1, <1>3 DEF Asked, Columns
  <2>3. QED
    BY <2>1, <2>2, <1>3, Zenon
<1>5. 1 \in 1..n
  BY <1>1
<1>6. QED
  BY <1>2, <1>3, <1>4, <1>5, Zenon

\* What passes the checks of response() is what the contract of the outputs asks for.
LEMMA ValidIsOfficial ==
  ASSUME NEW n, AllRowsBuilt(n), batch = Collate(rows), Outputs(n, Len(batch.marker_mask[1]))
  PROVE  Valid <=> OfficialOutputs
<1>1. n \in Nat /\ n # 0 /\ DOMAIN questions = 1..n /\ Len(questions) = n
      /\ \A q \in 1..n : Asked(q)
  BY DEF AllRowsBuilt
<1>2. PICK k :
        /\ Columns(n, k) /\ Len(batch.marker_mask[1]) = k
        /\ \A q \in 1..n : \A j \in 1..k :
             batch.marker_mask[q][j] <=> j <= Len(questions[q].options)
  BY MaskIsOptions
<1>3. Len(batch.marker_mask) = n
  BY MaskIsOptions
<1>4. Widest({Len(questions[q].options) : q \in DOMAIN questions}) = k
  BY <1>1, <1>2, WidestQuestion
<1>5. k \in Nat /\ \A q \in 1..n :
        /\ Len(questions[q].options) \in Nat /\ Len(questions[q].options) <= k
  BY <1>1, <1>2 DEF Columns, Asked
<1>6. PICK V : V = {NonFinite, Large} \cup Int
  OBVIOUS
<1>7. logits \in {<<>>} \cup [1..n -> [1..k -> V]] /\ acts \in {<<>>} \cup [1..n -> BOOLEAN]
  BY <1>2, <1>6 DEF Outputs
<1> DEFINE Finite(q)  == \A j \in 1..k : logits[q][j] # NonFinite
           NoLarge(q) == \A j \in 1..Len(questions[q].options) : logits[q][j] # Large
           Checked    == /\ logits \in [1..n -> [1..k -> V]] /\ acts = [q \in 1..n |-> TRUE]
                         /\ \A q \in 1..n : Finite(q) /\ NoLarge(q)
<1>8. DOMAIN <<>> # 1..n
  BY <1>1
<1>9. ASSUME logits \in [1..n -> [1..k -> V]], NEW q \in 1..n
      PROVE  /\ DOMAIN logits = 1..n /\ DOMAIN logits[q] = 1..k
             /\ \A j \in 1..Len(questions[q].options) : Probabilities(q)[j] = logits[q][j]
  <2>1. PICK m : m = Len(questions[q].options)
    OBVIOUS
  <2>2. logits[q] \in [1..k -> V] /\ m \in Nat /\ m <= k
    BY <2>1, <1>5, <1>9
  <2>3. \A i \in 1..m : SubSeq(logits[q], 1, m)[i] = logits[q][i]
    BY <2>2, <1>5, FirstOfRow
  <2>4. QED
    BY <2>1, <2>2, <2>3, <1>9 DEF Probabilities
<1>10. Valid => Checked
  <2>1. SUFFICES ASSUME Valid PROVE Checked
    OBVIOUS
  <2>2. DOMAIN logits = 1..n /\ DOMAIN acts = 1..n /\ \A q \in 1..n : Finite(q)
    BY <2>1, <1>1, <1>4 DEF Valid, WellFormed
  <2>3. logits \in [1..n -> [1..k -> V]] /\ acts \in [1..n -> BOOLEAN]
    BY <2>2, <1>7, <1>8
  <2>4. \A q \in 1..n : acts[q]
    BY <2>1, <1>1, Zenon DEF Valid, Calculable
  <2>5. acts = [q \in 1..n |-> TRUE]
    <3>1. \A q \in 1..n : acts[q] = TRUE
      BY <2>3, <2>4
    <3>2. acts = [q \in 1..n |-> acts[q]]
      BY <2>3
    <3>3. QED
      BY <3>1, <3>2
  <2>6. \A q \in 1..n : NoLarge(q)
    <3>1. ASSUME NEW q \in 1..n, NEW j \in 1..Len(questions[q].options)
          PROVE  logits[q][j] # Large
      <4>1. Probabilities(q)[j] # Large
        BY <2>1, <1>1, Zenon DEF Valid, Calculable
      <4>2. QED
        BY <4>1, <2>3, <1>9
    <3>2. QED
      BY <3>1
  <2>7. QED
    BY <2>2, <2>3, <2>5, <2>6
<1>11. Checked => Valid
  <2>1. SUFFICES ASSUME Checked PROVE Valid
    OBVIOUS
  <2>2. WellFormed
    <3>1. DOMAIN acts = 1..n
      BY <2>1
    <3>2. DOMAIN logits = 1..n
      BY <2>1
    <3>3. \A q \in 1..n : DOMAIN logits[q] = 1..k /\ \A j \in 1..k : logits[q][j] # NonFinite
      BY <2>1
    <3>4. QED
      BY <3>1, <3>2, <3>3, <1>1, <1>4 DEF WellFormed
  <2>3. ASSUME NEW q \in 1..n PROVE Calculable(q)
    <3>1. acts[q] = TRUE
      BY <2>1
    <3>2. \A j \in 1..Len(questions[q].options) : Probabilities(q)[j] # Large
      BY <2>1, <1>9
    <3>3. QED
      BY <3>1, <3>2, Zenon DEF Calculable
  <2>4. QED
    BY <2>2, <2>3, <1>1 DEF Valid
<1>12. Checked => OfficialOutputs
  <2>1. SUFFICES ASSUME Checked PROVE OfficialOutputs
    OBVIOUS
  <2>2. logits \in [1..n -> [1..k -> {Large} \cup Int]]
    <3>1. ASSUME NEW q \in 1..n PROVE logits[q] \in [1..k -> {Large} \cup Int]
      BY <2>1, <1>6
    <3>2. QED
      BY <2>1, <3>1
  <2>3. ASSUME NEW q \in 1..n, NEW j \in 1..k, batch.marker_mask[q][j] PROVE logits[q][j] # Large
    <3>1. j <= Len(questions[q].options)
      BY <2>3, <1>2, Zenon
    <3>2. j \in 1..Len(questions[q].options)
      BY <3>1, <1>5
    <3>3. QED
      BY <3>2, <2>1
  <2>4. acts = [q \in 1..n |-> TRUE]
    BY <2>1
  <2> HIDE DEF Checked
  <2>5. QED
    BY <2>2, <2>3, <2>4, <1>2, <1>3, Zenon DEF OfficialOutputs
<1>13. OfficialOutputs => Checked
  <2>1. SUFFICES ASSUME OfficialOutputs PROVE Checked
    OBVIOUS
  <2>2. /\ logits \in [1..n -> [1..k -> {Large} \cup Int]]
        /\ acts = [q \in 1..n |-> TRUE]
        /\ \A q \in 1..n : \A j \in 1..k : batch.marker_mask[q][j] => logits[q][j] # Large
    BY <2>1, <1>2, <1>3, Zenon DEF OfficialOutputs
  <2>3. logits \in [1..n -> [1..k -> V]] /\ \A q \in 1..n : Finite(q)
    <3>1. ASSUME NEW q \in 1..n PROVE logits[q] \in [1..k -> V] /\ Finite(q)
      BY <2>2, <1>6, ValuesAssumption
    <3>2. QED
      BY <2>2, <3>1
  <2>4. ASSUME NEW q \in 1..n, NEW j \in 1..Len(questions[q].options)
        PROVE  logits[q][j] # Large
    <3>1. j \in 1..k /\ j <= Len(questions[q].options)
      BY <1>5
    <3>2. batch.marker_mask[q][j]
      BY <3>1, <1>2, Zenon
    <3>3. QED
      BY <3>1, <3>2, <2>2, Zenon
  <2>5. QED
    BY <2>2, <2>3, <2>4
<1>14. QED
  <2> HIDE DEF Checked
  <2>1. QED
    BY <1>10, <1>11, <1>12, <1>13

\* From outputs that are valid, answer() computes what the official functions do.
LEMMA AnswerIsOfficial ==
  ASSUME NEW n, AllRowsBuilt(n), NEW k, Columns(n, k), Outputs(n, k), Valid,
         NEW q \in 1..n, questions[q].kind \in {"choice", "score", "noul"}
  PROVE  Answer(q) = OfficialAnswer(q, logits[q])
<1>1. n \in Nat /\ n # 0 /\ Len(questions) = n /\ DOMAIN questions = 1..n /\ Asked(q)
  BY DEF AllRowsBuilt
<1>2. PICK m \in Nat : m = Len(questions[q].options) /\ m >= 2
  BY <1>1 DEF Asked
<1>3. PICK row : row = logits[q]
  OBVIOUS
<1>4. PICK V : V = {NonFinite, Large} \cup Int
  OBVIOUS
<1>5. k \in Nat /\ m <= k
  BY <1>2 DEF Columns
<1>6. row \in [1..k -> V] /\ \A j \in 1..k : row[j] # NonFinite
  <2>1. Widest({Len(questions[r].options) : r \in DOMAIN questions}) = k
    BY <1>1, WidestQuestion DEF AllRowsBuilt
  <2>2. DOMAIN logits = 1..n /\ \A j \in 1..k : logits[q][j] # NonFinite
    BY <2>1, <1>1 DEF Valid, WellFormed
  <2>3. logits # <<>>
    <3>1. DOMAIN <<>> # 1..n
      BY <1>1
    <3>2. QED
      BY <3>1, <2>2
  <2>4. logits \in [1..n -> [1..k -> V]]
    BY <2>3, <1>4 DEF Outputs
  <2>5. QED
    BY <2>2, <2>4, <1>3
<1>7. PICK p : p = SubSeq(row, 1, m)
  OBVIOUS
<1>8. /\ Len(p) = m /\ p = [i \in 1..m |-> row[i]]
      /\ \A i \in 1..m : p[i] = row[i]
  BY <1>5, <1>6, <1>7, FirstOfRow
<1>9. Probabilities(q) = p
  BY <1>2, <1>3, <1>7 DEF Probabilities
<1>10. \A i \in 1..m : row[i] \in Int
  <2>1. TAKE i \in 1..m
  <2>2. p[i] # Large
    BY <1>1, <1>2, <1>9 DEF Valid, Calculable
  <2>3. QED
    BY <2>2, <1>4, <1>5, <1>6, <1>8
<1>11. OfficialBest(row, m) = Best(p)
  <2>1. Len(p) \in Nat /\ Len(p) # 0 /\ \A i \in 1..Len(p) : p[i] \in Int
    BY <1>2, <1>8, <1>10
  <2>2. IsFirstGreatest(p, m, Best(p))
    BY <2>1, <1>8, BestIsFirstGreatest
  <2>3. IsFirstGreatest(row, m, Best(p))
    BY <2>2, <1>8 DEF IsFirstGreatest
  <2>4. m # 0
    BY <1>2
  <2>5. QED
    BY <2>3, <2>4, <1>10, OfficialBestIsBest
<1>12. OfficialScore(row, m) = Expected(p)
  BY <1>8, <1>10, ScoresAgree
<1>13. p[2] = row[2]
  BY <1>2, <1>8
<1>14. PICK t : t = Temperature(questions[q].kind, m)
  OBVIOUS
<1>15. OfficialTemperature(questions[q].kind, m) = t
  <2>1. Bucket(m) =
          IF m <= 2 THEN "2" ELSE IF m <= 5 THEN "3-5" ELSE IF m <= 10 THEN "6-10" ELSE "11+"
    BY DEF Bucket
  <2>2. QED
    BY <2>1, <1>14 DEF Temperature, OfficialTemperature
<1>16. CASE questions[q].kind = "choice"
  <2>1. Answer(q) = [choice |-> Best(p), probabilities |-> p, temperature |-> t]
    BY <1>8, <1>9, <1>14, <1>16 DEF Answer
  <2>2. OfficialAnswer(q, row) =
          [choice |-> OfficialBest(row, m), probabilities |-> p, temperature |-> t]
    BY <1>2, <1>8, <1>15, <1>16 DEF OfficialAnswer
  <2>3. QED
    BY <2>1, <2>2, <1>3, <1>11
<1>17. CASE questions[q].kind = "score"
  <2>1. Answer(q) = [score |-> Expected(p), probabilities |-> p, temperature |-> t]
    BY <1>8, <1>9, <1>14, <1>17 DEF Answer
  <2>2. OfficialAnswer(q, row) =
          [score |-> OfficialScore(row, m), probabilities |-> p, temperature |-> t]
    BY <1>2, <1>8, <1>15, <1>17 DEF OfficialAnswer
  <2>3. QED
    BY <2>1, <2>2, <1>3, <1>12
<1>18. CASE questions[q].kind = "noul"
  <2>1. Answer(q) = [noul |-> p[2], temperature |-> t]
    BY <1>8, <1>9, <1>14, <1>18 DEF Answer
  <2>2. OfficialAnswer(q, row) = [noul |-> row[2], temperature |-> t]
    BY <1>2, <1>15, <1>18 DEF OfficialAnswer
  <2>3. QED
    BY <2>1, <2>2, <1>3, <1>13
<1>19. QED
  BY <1>16, <1>17, <1>18

----------------------------------------------------------------------------
\* The request is one that the constants allow.
RequestInv ==
  /\ questions \in Seq(Questions)
  /\ Len(questions) # 0
  /\ state \in Nat

\* Once there is a builder, its budgets are numbers.
BudgetInv == pc # "new" => Budgeted

\* The rows are those of the first questions, none of them lost; a request that is
\* rejected has lost the marker of the next one.
RowsInv ==
  /\ rows \in Seq({Row(q) : q \in 1..Len(questions)})
  /\ Len(rows) <= Len(questions)
  /\ \A q \in 1..Len(rows) : rows[q] = Row(q) /\ Row(q) # Lost
  /\ pc = "new" => rows = <<>>
  /\ pc = "lost" => AllBuilt = FALSE /\ Row(Len(rows) + 1) = Lost

\* There is a batch once every question has its row: the rows collated.
BatchInv ==
  /\ pc \in {"new", "build", "lost", "run", "answer", "done", "failed"}
  /\ pc \in {"new", "build", "lost"} => batch = <<>>
  /\ pc \in {"run", "answer", "done", "failed"} => AllBuilt /\ batch = Collate(rows)

\* What the model computed has a value for each column, and each option a column.
LogitsInv ==
  pc \in {"answer", "done", "failed"} =>
    LET n == Len(questions)
        k == Len(batch.marker_mask[1])
    IN  Outputs(n, k) /\ Columns(n, k)

\* The answers are given at the end, to every question or to none.
AnswersInv ==
  /\ pc # "done" => answers = <<>>
  /\ pc = "done" => Valid /\ answers = [q \in 1..Len(questions) |-> Answer(q)]
  /\ pc = "failed" => ~Valid

\* The invariant.
InferenceInv == RequestInv /\ BudgetInv /\ RowsInv /\ BatchInv /\ LogitsInv /\ AnswersInv

\* The questions of a request have a header and two options or more.
LEMMA QuestionsAreAsked ==
  ASSUME RequestInv
  PROVE  /\ Len(questions) \in Nat /\ Len(questions) # 0 /\ DOMAIN questions = 1..Len(questions)
         /\ \A q \in 1..Len(questions) : Asked(q)
<1>1. Len(questions) \in Nat /\ DOMAIN questions = 1..Len(questions)
      /\ \A q \in 1..Len(questions) : questions[q] \in Questions
  BY DEF RequestInv
<1>2. ASSUME NEW q \in 1..Len(questions) PROVE Asked(q)
  <2>1. questions[q].header \in Nat /\ questions[q].options \in Seq(Nat)
        /\ Len(questions[q].options) >= 2
    BY <1>1, QuestionsAssumption
  <2>2. Len(questions[q].options) \in Nat
        /\ \A j \in 1..Len(questions[q].options) : questions[q].options[j] \in Nat
    BY <2>1
  <2>3. q \in Nat
    BY <1>1
  <2>4. QED
    BY <2>1, <2>2, <2>3 DEF Asked
<1>3. QED
  BY <1>1, <1>2 DEF RequestInv

\* The rows are a sequence.
LEMMA RowsAreCounted ==
  ASSUME RowsInv
  PROVE  Len(rows) \in Nat /\ DOMAIN rows = 1..Len(rows)
<1>1. PICK R : R = {Row(q) : q \in 1..Len(questions)}
  OBVIOUS
<1>2. rows \in Seq(R)
  BY <1>1 DEF RowsInv
<1>3. QED
  BY <1>2

\* Once every question has its row, all rows are built as they should be.
LEMMA BuiltRowsAreBuilt ==
  ASSUME RequestInv, BudgetInv, RowsInv, pc # "new", AllBuilt
  PROVE  AllRowsBuilt(Len(questions))
<1>1. Budgeted
  BY DEF BudgetInv
<1>2. DOMAIN rows = 1..Len(rows) /\ Len(rows) = Len(questions)
  BY DEF RowsInv, AllBuilt
<1>3. ASSUME NEW q \in 1..Len(questions) PROVE Asked(q) /\ Built(rows[q], q)
  <2>1. Asked(q)
    BY QuestionsAreAsked
  <2>2. rows[q] = Row(q) /\ Row(q) # Lost
    BY <1>2 DEF RowsInv
  <2>3. Built(Row(q), q)
    BY <2>1, <2>2, <1>1, RowDecides
  <2>4. QED
    BY <2>1, <2>2, <2>3
<1>4. QED
  BY <1>2, <1>3, QuestionsAreAsked DEF AllRowsBuilt

\* A row depends on the request and the budgets only.
LEMMA RowUnchanged ==
  ASSUME UNCHANGED <<questions, state, budget>>, NEW q
  PROVE  Row(q)' = Row(q)
BY DEF Row, TruncateOptions, TruncateHeader, OptionTexts, OptionText, HeaderText, MarkerLost

\* An answer depends on the request, the table and the outputs only.
LEMMA AnswerUnchanged ==
  ASSUME UNCHANGED <<questions, table, logits, acts>>
  PROVE  (Valid' <=> Valid) /\ \A q : Answer(q)' = Answer(q)
<1>1. \A q : Probabilities(q)' = Probabilities(q)
  BY DEF Probabilities
<1>2. \A q : Answer(q)' = Answer(q)
  BY <1>1 DEF Answer, Temperature
<1>3. WellFormed' <=> WellFormed
  BY DEF WellFormed
<1>4. \A q : Calculable(q)' <=> Calculable(q)
  <2>1. TAKE q
  <2>2. acts' = acts /\ questions' = questions
    OBVIOUS
  <2>3. Probabilities(q)' = Probabilities(q)
    BY <1>1
  <2>4. QED
    BY <2>2, <2>3, Zenon DEF Calculable
<1>5. Valid' <=> Valid
  BY <1>3, <1>4, Zenon DEF Valid
<1>6. QED
  BY <1>2, <1>5

\* A request that has just been validated satisfies the invariant.
LEMMA InitEstablishesInv ==
  ASSUME Init
  PROVE  InferenceInv
<1>1. RequestInv
  <2>1. PICK n : n = MaxQuestions /\ questions \in SeqOf(Questions, n) /\ questions # <<>>
    BY DEF Init
  <2>2. questions \in Seq(Questions)
    BY <2>1, BoundAssumption DEF SeqOf
  <2>3. Len(questions) # 0
    BY <2>1, <2>2
  <2>4. QED
    BY <2>2, <2>3, StatesAssumption DEF Init, RequestInv
<1>2. RowsInv
  <2>1. rows = <<>> /\ Len(rows) = 0 /\ pc = "new"
    BY DEF Init
  <2>2. QED
    BY <2>1, <1>1, QuestionsAreAsked DEF RowsInv
<1>3. QED
  BY <1>1, <1>2 DEF Init, InferenceInv, BudgetInv, BatchInv, LogitsInv, AnswersInv

\* SequenceBuilder::new takes budgets that are numbers.
LEMMA NewPreservesInv ==
  ASSUME InferenceInv, New
  PROVE  InferenceInv'
<1>1. RequestInv'
  BY DEF InferenceInv, RequestInv, New
<1>2. PICK b \in OracleBudgets : b.max # 0 /\ budget' = b
  BY DEF New
<1>3. b.max \in Nat /\ b.head \in Nat
  <2>1. 1 \in 1..Len(questions)
    BY QuestionsAreAsked DEF InferenceInv
  <2>2. Asked(1)
    BY <2>1, QuestionsAreAsked DEF InferenceInv
  <2>3. QED
    BY <2>2, BudgetsAreNumbers
<1>4. BudgetInv'
  BY <1>2, <1>3 DEF InferenceInv, RequestInv, New, BudgetInv, Budgeted
<1>5. RowsInv'
  <2>1. rows' = <<>> /\ Len(rows') = 0 /\ pc' = "build" /\ questions' = questions
    BY DEF InferenceInv, RowsInv, New
  <2>2. QED
    BY <2>1, QuestionsAreAsked DEF InferenceInv, RowsInv
<1>6. BatchInv'
  BY DEF InferenceInv, BatchInv, New
<1>7. LogitsInv' /\ AnswersInv'
  BY DEF InferenceInv, AnswersInv, LogitsInv, New
<1>8. QED
  BY <1>1, <1>4, <1>5, <1>6, <1>7 DEF InferenceInv

\* build adds the row of the next question, or ends the request for its lost marker.
LEMMA BuildPreservesInv ==
  ASSUME InferenceInv, Build
  PROVE  InferenceInv'
<1>1. RequestInv' /\ BudgetInv'
  BY DEF InferenceInv, RequestInv, BudgetInv, Budgeted, Build
<1>2. PICK n \in Nat, m \in Nat : n = Len(questions) /\ m = Len(rows)
  BY QuestionsAreAsked, RowsAreCounted DEF InferenceInv
<1>3. m + 1 \in 1..n
  BY <1>2 DEF InferenceInv, RowsInv, Build, AllBuilt
<1>4. PICK R : R = {Row(q) : q \in 1..n}
  OBVIOUS
<1>5. {Row(q) : q \in 1..Len(questions)}' = R /\ \A q : Row(q)' = Row(q)
  <2>1. UNCHANGED <<questions, state, budget>>
    BY DEF Build
  <2>2. \A q : Row(q)' = Row(q)
    BY <2>1, RowUnchanged
  <2>3. QED
    BY <2>1, <2>2, <1>2, <1>4
<1>6. rows \in Seq(R) /\ Len(rows) = m /\ (\A q \in 1..m : rows[q] = Row(q) /\ Row(q) # Lost)
      /\ pc = "build"
  BY <1>2, <1>4 DEF InferenceInv, RowsInv, Build
<1>7. CASE Row(m + 1) = Lost
  <2>1. pc' = "lost" /\ rows' = rows /\ batch' = batch /\ answers' = answers
        /\ questions' = questions
    BY <1>2, <1>7 DEF Build
  <2>2. RowsInv'
    <3>1. rows' \in Seq(R) /\ Len(rows') = m /\ Len(questions') = n /\ m <= n /\ m # n
      BY <2>1, <1>2, <1>3, <1>6
    <3>2. (\A q \in 1..m : rows'[q] = Row(q)' /\ Row(q)' # Lost) /\ Row(m + 1)' = Lost
      BY <2>1, <1>5, <1>6, <1>7
    <3>3. AllBuilt' = FALSE
      BY <3>1 DEF AllBuilt
    <3>4. QED
      BY <3>1, <3>2, <3>3, <2>1, <1>5 DEF RowsInv, Lost
  <2>3. BatchInv' /\ LogitsInv' /\ AnswersInv'
    BY <2>1, <1>6 DEF InferenceInv, BatchInv, LogitsInv, AnswersInv
  <2>4. QED
    BY <2>2, <2>3, <1>1 DEF InferenceInv
<1>8. CASE Row(m + 1) # Lost
  <2>1. /\ pc' = "build" /\ rows' = Append(rows, Row(m + 1)) /\ batch' = batch /\ answers' = answers
        /\ questions' = questions
    BY <1>2, <1>6, <1>8 DEF Build
  <2>2. PICK r \in R : r = Row(m + 1)
    BY <1>3, <1>4
  <2>3. /\ rows' \in Seq(R) /\ Len(rows') = m + 1 /\ rows'[m + 1] = r
        /\ \A q \in 1..m : rows'[q] = rows[q]
    BY <2>1, <2>2, <1>6
  <2>4. \A q \in 1..(m + 1) : rows'[q] = Row(q)' /\ Row(q)' # Lost
    <3>1. TAKE q \in 1..(m + 1)
    <3>2. CASE q \in 1..m
      BY <3>2, <2>3, <1>5, <1>6
    <3>3. CASE q = m + 1
      BY <3>3, <2>2, <2>3, <1>5, <1>8
    <3>4. QED
      BY <3>2, <3>3
  <2>5. RowsInv'
    <3>1. m + 1 <= n /\ Len(questions') = n
      BY <2>1, <1>2, <1>3
    <3>2. QED
      BY <3>1, <2>1, <2>3, <2>4, <1>5 DEF RowsInv
  <2>6. BatchInv' /\ LogitsInv' /\ AnswersInv'
    BY <2>1, <1>6 DEF InferenceInv, BatchInv, LogitsInv, AnswersInv
  <2>7. QED
    BY <2>5, <2>6, <1>1 DEF InferenceInv
<1>9. QED
  BY <1>7, <1>8

\* A step that leaves the request and its rows alone keeps what is said of them.
LEMMA RowsKept ==
  ASSUME RequestInv, BudgetInv, RowsInv, UNCHANGED <<questions, state, budget, rows>>,
         pc \notin {"new", "lost"}, pc' \notin {"new", "lost"}
  PROVE  RequestInv' /\ BudgetInv' /\ RowsInv'
<1>1. RequestInv' /\ BudgetInv'
  BY DEF RequestInv, BudgetInv, Budgeted
<1>2. \A q : Row(q)' = Row(q)
  BY RowUnchanged
<1>3. {Row(q) : q \in 1..Len(questions)}' = {Row(q) : q \in 1..Len(questions)}
  BY <1>2
<1>4. RowsInv'
  BY <1>2, <1>3 DEF RowsInv
<1>5. QED
  BY <1>1, <1>4

\* collate happens once every question has its row.
LEMMA CollatePreservesInv ==
  ASSUME InferenceInv, CollateRows
  PROVE  InferenceInv'
<1>1. RequestInv' /\ BudgetInv' /\ RowsInv'
  BY RowsKept DEF InferenceInv, CollateRows
<1>2. BatchInv'
  BY DEF InferenceInv, BatchInv, CollateRows, AllBuilt
<1>3. LogitsInv' /\ AnswersInv'
  BY DEF InferenceInv, LogitsInv, AnswersInv, CollateRows
<1>4. QED
  BY <1>1, <1>2, <1>3 DEF InferenceInv

\* The model computes as many numbers as the batch has columns, which are as many as
\* the most options of a question.
LEMMA RunPreservesInv ==
  ASSUME InferenceInv, Run
  PROVE  InferenceInv'
<1>1. RequestInv' /\ BudgetInv' /\ RowsInv'
  BY RowsKept DEF InferenceInv, Run
<1>2. BatchInv'
  BY DEF InferenceInv, BatchInv, Run, AllBuilt
<1>3. AnswersInv'
  BY DEF InferenceInv, AnswersInv, Run
<1>4. PICK n : n = Len(questions)
  OBVIOUS
<1>5. AllRowsBuilt(n) /\ batch = Collate(rows)
  BY <1>4, BuiltRowsAreBuilt DEF InferenceInv, BatchInv, Run
<1>6. n \in Nat /\ n # 0 /\ \A q \in 1..n : Asked(q) /\ questions[q] \in Questions
  BY <1>4, QuestionsAreAsked DEF InferenceInv, RequestInv
<1>7. PICK k : Columns(n, k) /\ \A q \in 1..n : Len(Collate(rows).marker_mask[q]) = k
  BY <1>5, MarkersAreCollated
<1>8. Len(batch.marker_mask[1]) = k
  BY <1>5, <1>6, <1>7
<1>9. PICK q \in 1..n : Len(questions[q].options) = k
  BY <1>7 DEF Columns
<1>10. Logits[k] \subseteq [1..k -> {NonFinite, Large} \cup Int]
  BY <1>6, <1>9, LogitsAssumption
<1>11. /\ logits' \in {<<>>} \cup [1..n -> [1..k -> {NonFinite, Large} \cup Int]]
       /\ acts' \in {<<>>} \cup [1..n -> BOOLEAN]
  <2>1. logits' \in {<<>>} \cup [1..n -> Logits[k]] /\ acts' \in {<<>>} \cup [1..n -> BOOLEAN]
    BY <1>4, <1>8 DEF Run
  <2>2. [1..n -> Logits[k]] \subseteq [1..n -> [1..k -> {NonFinite, Large} \cup Int]]
    BY <1>10
  <2>3. QED
    BY <2>1, <2>2
<1>12. questions' = questions /\ batch' = batch
  BY DEF Run
<1>13. LogitsInv'
  <2>1. Outputs(n, k)'
    BY <1>11 DEF Outputs
  <2>2. Columns(n, k)'
    BY <1>7, <1>12 DEF Columns
  <2>3. Len(questions)' = n /\ Len(batch.marker_mask[1])' = k
    BY <1>4, <1>8, <1>12
  <2>4. QED
    BY <2>1, <2>2, <2>3 DEF LogitsInv, Outputs, Columns
<1>14. QED
  BY <1>1, <1>2, <1>3, <1>13 DEF InferenceInv

\* The outputs stay as they are once the model has computed them.
LEMMA LogitsKept ==
  ASSUME LogitsInv, UNCHANGED <<questions, batch, logits, acts>>, pc = "answer"
  PROVE  LogitsInv'
BY DEF LogitsInv, Outputs, Columns

\* response answers every question of a request with valid outputs.
LEMMA RespondPreservesInv ==
  ASSUME InferenceInv, Respond
  PROVE  InferenceInv'
<1>1. RequestInv' /\ BudgetInv' /\ RowsInv'
  BY RowsKept DEF InferenceInv, Respond
<1>2. BatchInv'
  BY DEF InferenceInv, BatchInv, Respond, AllBuilt
<1>3. LogitsInv'
  BY LogitsKept DEF InferenceInv, Respond
<1>4. AnswersInv'
  <2>1. UNCHANGED <<questions, table, logits, acts>> /\ pc' = "done" /\ Valid
    BY DEF Respond
  <2>2. Valid' /\ \A q : Answer(q)' = Answer(q)
    BY <2>1, AnswerUnchanged
  <2>3. answers' = [q \in 1..Len(questions) |-> Answer(q)]
    BY DEF Respond
  <2>4. QED
    BY <2>1, <2>2, <2>3 DEF AnswersInv
<1>5. QED
  BY <1>1, <1>2, <1>3, <1>4 DEF InferenceInv

\* response answers no question of a request with an invalid output.
LEMMA FailPreservesInv ==
  ASSUME InferenceInv, Fail
  PROVE  InferenceInv'
<1>1. RequestInv' /\ BudgetInv' /\ RowsInv'
  BY RowsKept DEF InferenceInv, Fail
<1>2. BatchInv'
  BY DEF InferenceInv, BatchInv, Fail, AllBuilt
<1>3. LogitsInv'
  BY LogitsKept DEF InferenceInv, Fail
<1>4. AnswersInv'
  <2>1. UNCHANGED <<questions, table, logits, acts, answers>> /\ pc = "answer" /\ pc' = "failed"
        /\ ~Valid
    BY DEF Fail
  <2>2. ~Valid'
    BY <2>1, AnswerUnchanged
  <2>3. answers' = <<>>
    BY <2>1 DEF InferenceInv, AnswersInv
  <2>4. QED
    BY <2>1, <2>2, <2>3 DEF AnswersInv
<1>5. QED
  BY <1>1, <1>2, <1>3, <1>4 DEF InferenceInv

\* A step of nothing keeps the invariant.
LEMMA StutterPreservesInv ==
  ASSUME InferenceInv, UNCHANGED vars
  PROVE  InferenceInv'
<1>1. UNCHANGED <<questions, state, budget, table, pc, rows, batch, logits, acts, answers>>
  BY DEF vars
<1>2. (\A q : Row(q)' = Row(q) /\ Answer(q)' = Answer(q)) /\ (Valid' <=> Valid)
  BY <1>1, RowUnchanged, AnswerUnchanged
<1>3. {Row(q) : q \in 1..Len(questions)}' = {Row(q) : q \in 1..Len(questions)}
  BY <1>1, <1>2
<1>4. RowsInv'
  BY <1>1, <1>2, <1>3 DEF InferenceInv, RowsInv, AllBuilt
<1>5. AnswersInv'
  BY <1>1, <1>2 DEF InferenceInv, AnswersInv
<1>6. RequestInv' /\ BudgetInv' /\ BatchInv' /\ LogitsInv'
  BY <1>1 DEF InferenceInv, RequestInv, BudgetInv, Budgeted, BatchInv, AllBuilt, LogitsInv,
     Outputs, Columns
<1>7. QED
  BY <1>4, <1>5, <1>6 DEF InferenceInv

\* What a request has at each of its stages.
THEOREM InferenceInvariant == Spec => []InferenceInv
<1>1. Init => InferenceInv
  BY InitEstablishesInv
<1>2. InferenceInv /\ [Next]_vars => InferenceInv'
  BY NewPreservesInv, BuildPreservesInv, CollatePreservesInv, RunPreservesInv, RespondPreservesInv,
     FailPreservesInv, StutterPreservesInv DEF Next
<1>3. QED
  BY <1>1, <1>2, PTL DEF Spec

\* For every request and all budgets of the oracles the rows are those of the official
\* function, and exactly the requests it rejects are rejected.
THEOREM RowsAreAlwaysOfficial == Spec => []RowsAreOfficial
<1>1. ASSUME InferenceInv PROVE RowsAreOfficial
  <2>1. PICK m \in Nat, n \in Nat :
          m = Len(rows) /\ n = Len(questions) /\ m <= n /\ DOMAIN rows = 1..m
    <3>1. RequestInv /\ RowsInv
      BY <1>1 DEF InferenceInv
    <3>2. Len(rows) <= Len(questions)
      BY <3>1 DEF RowsInv
    <3>3. QED
      BY <3>1, <3>2, QuestionsAreAsked, RowsAreCounted
  <2>2. ASSUME NEW q \in 1..m
        PROVE  LET row == OfficialRow(q, state, budget.max, budget.head)
               IN  ~OfficialLost(q, row) /\ rows[q] = row
    <3>1. rows[q] = Row(q) /\ Row(q) # Lost
      BY <1>1, <2>1 DEF InferenceInv, RowsInv
    <3>2. Asked(q)
      BY <1>1, <2>1, QuestionsAreAsked DEF InferenceInv
    <3>3. Budgeted
      <4>1. rows # <<>>
        BY <2>1
      <4>2. QED
        BY <1>1, <4>1 DEF InferenceInv, RowsInv, BudgetInv
    <3>4. QED
      BY <3>1, <3>2, <3>3, RowDecides
  <2>3. ASSUME pc = "lost"
        PROVE  LET q == Len(rows) + 1
               IN  OfficialLost(q, OfficialRow(q, state, budget.max, budget.head))
    <3>1. m # n /\ Row(m + 1) = Lost
      BY <1>1, <2>1, <2>3 DEF InferenceInv, RowsInv, AllBuilt
    <3>2. m + 1 \in 1..n
      BY <2>1, <3>1
    <3>3. Asked(m + 1)
      BY <1>1, <2>1, <3>2, QuestionsAreAsked DEF InferenceInv
    <3>4. Budgeted
      BY <1>1, <2>3 DEF InferenceInv, BudgetInv
    <3>5. QED
      BY <2>1, <3>1, <3>3, <3>4, RowDecides
  <2>4. QED
    BY <2>1, <2>2, <2>3 DEF RowsAreOfficial
<1>2. QED
  BY <1>1, InferenceInvariant, PTL

\* For every request each option is found at its own marker of the padded batch, in front
\* of padding, and the usage counts what is not padding.
THEOREM BatchAlwaysFindsOptions == Spec => []BatchFindsOptions
<1>1. ASSUME InferenceInv PROVE BatchFindsOptions
  <2>1. CASE pc \in {"new", "build", "lost"}
    BY <1>1, <2>1 DEF InferenceInv, BatchInv, BatchFindsOptions
  <2>2. CASE pc \in {"run", "answer", "done", "failed"}
    <3>1. AllBuilt /\ batch = Collate(rows) /\ pc # "new"
      BY <1>1, <2>2 DEF InferenceInv, BatchInv
    <3>2. AllRowsBuilt(Len(questions))
      BY <1>1, <3>1, BuiltRowsAreBuilt DEF InferenceInv
    <3>3. QED
      BY <3>1, <3>2, CollatedBatchFindsOptions
  <2>3. QED
    BY <1>1, <2>1, <2>2 DEF InferenceInv, BatchInv
<1>2. QED
  BY <1>1, InferenceInvariant, PTL

\* For every request and whatever the model computes: outputs that break their contract
\* fail the request as a whole, and from others each question gets the official answer of
\* its kind, a choice, an expectation or a probability, with the official temperature
\* (AnswersAreOfficial).
THEOREM AnswersAreAlwaysOfficial == Spec => []AnswersAreOfficial
<1>1. ASSUME InferenceInv PROVE AnswersAreOfficial
  <2>1. PICK n : n = Len(questions)
    OBVIOUS
  <2>2. SUFFICES ASSUME pc \in {"done", "failed"} PROVE AnswersAreOfficial
    BY DEF AnswersAreOfficial
  <2>3. AllRowsBuilt(n) /\ batch = Collate(rows)
    BY <1>1, <2>1, <2>2, BuiltRowsAreBuilt DEF InferenceInv, BatchInv
  <2>4. Outputs(n, Len(batch.marker_mask[1])) /\ Columns(n, Len(batch.marker_mask[1]))
    BY <1>1, <2>1, <2>2 DEF InferenceInv, LogitsInv
  <2>5. Valid <=> OfficialOutputs
    BY <2>3, <2>4, ValidIsOfficial
  <2>6. CASE pc = "failed"
    BY <1>1, <2>5, <2>6 DEF InferenceInv, AnswersInv, AnswersAreOfficial
  <2>7. CASE pc = "done"
    <3>1. Valid /\ answers = [q \in 1..n |-> Answer(q)]
      BY <1>1, <2>1, <2>7 DEF InferenceInv, AnswersInv
    <3>2. ASSUME NEW q \in 1..n PROVE Answer(q) = OfficialAnswer(q, logits[q])
      <4>1. questions[q] \in Questions
        BY <1>1, <2>1 DEF InferenceInv, RequestInv
      <4>2. questions[q].kind \in {"choice", "score", "noul"}
        BY <4>1, QuestionsAssumption
      <4>3. QED
        BY <4>2, <3>1, <2>3, <2>4, AnswerIsOfficial
    <3>3. DOMAIN questions = 1..n
      BY <2>3 DEF AllRowsBuilt
    <3>4. answers = [q \in DOMAIN questions |-> OfficialAnswer(q, logits[q])]
      BY <3>1, <3>2, <3>3
    <3>5. QED
      BY <3>1, <3>4, <2>5, <2>7 DEF AnswersAreOfficial
  <2>8. QED
    BY <2>2, <2>6, <2>7
<1>2. QED
  BY <1>1, InferenceInvariant, PTL
=============================================================================
