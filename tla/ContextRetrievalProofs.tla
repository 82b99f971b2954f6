------------------------ MODULE ContextRetrievalProofs ------------------------
(***************************************************************************)
(* Theorems about context retrieval, for any number of agents, any         *)
(* queries, any answers of the searches and any number of clears.          *)
(*                                                                         *)
(* What the ranking and the budget make of the results of a search is      *)
(* shown first, for every list of results; the invariant of the service    *)
(* then says which results a cached or delivered bundle was made of.       *)
(***************************************************************************)
EXTENDS ContextRetrieval, SequenceTheorems, FiniteSetTheorems, RecursionLemmas

------------------------------------------------------------------------------
(* The sum of the tokens.                                                  *)

IsSum(f, s) ==
  f = [n \in 0..Len(s) |-> IF n = 0 THEN 0 ELSE f[n - 1] + s[n].tokens]

\* Two sums agree as long as their sequences do.
LEMMA SumsAgree ==
  ASSUME NEW s \in Seq(Result), NEW t \in Seq(Result), NEW f, NEW g,
         IsSum(f, s), IsSum(g, t),
         NEW n \in Nat, n <= Len(s), n <= Len(t), \A i \in 1..n : s[i] = t[i]
  PROVE  f[n] = g[n] /\ f[n] \in Nat
  <1> DEFINE S == {i \in Nat : i <= n => f[i] = g[i] /\ f[i] \in Nat}
  <1>1. 0 \in S
    BY DEF IsSum
  <1>2. ASSUME NEW i \in Nat, i \in S PROVE i + 1 \in S
    <2> SUFFICES ASSUME i + 1 <= n PROVE f[i + 1] = g[i + 1] /\ f[i + 1] \in Nat
      OBVIOUS
    <2>1. i + 1 \in 0..Len(s) /\ i + 1 \in 0..Len(t) /\ i + 1 \in 1..n /\ i + 1 # 0
      OBVIOUS
    <2>2. f[i + 1] = f[i] + s[i + 1].tokens /\ g[i + 1] = g[i] + t[i + 1].tokens
      BY <2>1 DEF IsSum
    <2>3. s[i + 1] = t[i + 1] /\ s[i + 1] \in Result
      BY <2>1, ElementOfSeq
    <2>4. s[i + 1].tokens \in Nat
      BY <2>3 DEF Result
    <2> QED
      BY <1>2, <2>2, <2>3, <2>4
  <1>3. Nat \subseteq S
    BY <1>1, <1>2, Numbers
  <1> QED
    BY <1>3

\* There is such a sum for every sequence of results.
LEMMA SumExists ==
  ASSUME NEW s \in Seq(Result)
  PROVE  \E f : IsSum(f, s)
  <1> DEFINE add == [n \in 1..Len(s) |-> [x \in Nat |-> x + s[n].tokens]]
  <1>1. Len(s) \in Nat /\ 0 \in Nat
    BY LenProperties
  <1>2. \A n \in 1..Len(s) : s[n].tokens \in Nat
    <2>1. \A n \in 1..Len(s) : s[n] \in Result
      BY ElementOfSeq
    <2> QED
      BY <2>1 DEF Result
  <1>3. add \in [1..Len(s) -> [Nat -> Nat]]
    <2>1. \A n \in 1..Len(s) : [x \in Nat |-> x + s[n].tokens] \in [Nat -> Nat]
      BY <1>2
    <2> QED
      BY <2>1
  <1> HIDE DEF add
  <1>4. PICK f \in [0..Len(s) -> Nat] : Recursion(f, Len(s), 0, add)
    BY <1>1, <1>3, RecursionExists
  <1>5. \A n \in 0..Len(s) : n # 0 => add[n][f[n - 1]] = f[n - 1] + s[n].tokens
    <2> SUFFICES ASSUME NEW n \in 0..Len(s), n # 0
                 PROVE  add[n][f[n - 1]] = f[n - 1] + s[n].tokens
      OBVIOUS
    <2>1. n \in 1..Len(s) /\ n - 1 \in 0..Len(s)
      BY <1>1
    <2>2. f[n - 1] \in Nat
      BY <2>1
    <2> QED
      BY <2>1, <2>2 DEF add
  <1>6. f = [n \in 0..Len(s) |-> IF n = 0 THEN 0 ELSE f[n - 1] + s[n].tokens]
    BY <1>4, <1>5, Zenon DEF Recursion
  <1>7. IsSum(f, s)
    BY <1>6 DEF IsSum
  <1> QED
    BY <1>7

\* Tokens is that sum.
LEMMA TokensAreSum ==
  ASSUME NEW s \in Seq(Result)
  PROVE  \E f : IsSum(f, s) /\ Tokens(s) = f[Len(s)] /\ Tokens(s) \in Nat
  <1> DEFINE f == CHOOSE f : IsSum(f, s)
  <1>1. IsSum(f, s)
    BY SumExists
  <1>2. Tokens(s) = f[Len(s)]
    BY DEF Tokens, IsSum
  <1> HIDE DEF f
  <1>3. f[Len(s)] \in Nat
    BY <1>1, SumsAgree
  <1> QED
    BY <1>1, <1>2, <1>3

LEMMA TokensEmpty == Tokens(<<>>) = 0
  <1>1. <<>> \in Seq(Result) /\ Len(<<>>) = 0
    OBVIOUS
  <1>2. PICK f : IsSum(f, <<>>) /\ Tokens(<<>>) = f[0]
    BY <1>1, TokensAreSum
  <1> QED
    BY <1>1, <1>2 DEF IsSum

LEMMA TokensAppend ==
  ASSUME NEW s \in Seq(Result), NEW r \in Result
  PROVE  Tokens(Append(s, r)) = Tokens(s) + r.tokens
  <1> DEFINE t == Append(s, r)
  <1>1. t \in Seq(Result) /\ Len(t) = Len(s) + 1 /\ t[Len(s) + 1] = r
        /\ \A i \in 1..Len(s) : t[i] = s[i]
    OBVIOUS
  <1> HIDE DEF t
  <1>2. PICK f : IsSum(f, s) /\ Tokens(s) = f[Len(s)] /\ Tokens(s) \in Nat
    BY TokensAreSum
  <1>3. PICK g : IsSum(g, t) /\ Tokens(t) = g[Len(t)]
    BY <1>1, TokensAreSum
  <1>4. g[Len(s)] = f[Len(s)]
    BY <1>1, <1>2, <1>3, SumsAgree
  <1>5. g[Len(s) + 1] = g[Len(s)] + t[Len(s) + 1].tokens
    BY <1>1, <1>3 DEF IsSum
  <1>6. Tokens(t) = Tokens(s) + r.tokens
    BY <1>1, <1>2, <1>3, <1>4, <1>5
  <1> QED
    BY <1>6 DEF t
------------------------------------------------------------------------------
(* The ranking.                                                            *)

\* Before is a strict total order on the positions.
LEMMA BeforeOrders ==
  ASSUME NEW r \in Seq(Result), NEW i \in DOMAIN r, NEW j \in DOMAIN r, NEW k \in DOMAIN r
  PROVE  /\ ~Before(r, i, i)
         /\ Before(r, i, j) /\ Before(r, j, k) => Before(r, i, k)
         /\ Before(r, i, j) \/ Before(r, j, i) \/ i = j
  <1>1. \A x \in DOMAIN r : x \in Nat /\ r[x] \in Result
    BY LenProperties, ElementOfSeq
  <1>2. \A x \in DOMAIN r : x \in Nat /\ r[x].score \in Nat
    BY <1>1 DEF Result
  <1> QED
    BY <1>2 DEF Before

\* What is kept are finitely many positions.
LEMMA KeptFinite ==
  ASSUME NEW r \in Seq(Result)
  PROVE  /\ Kept(r) \subseteq DOMAIN r
         /\ IsFiniteSet(Kept(r)) /\ Cardinality(Kept(r)) \in Nat
  <1>1. Kept(r) \in SUBSET (1..Len(r)) /\ DOMAIN r = 1..Len(r) /\ Len(r) \in Nat
    BY LenProperties DEF Kept
  <1>2. IsFiniteSet(1..Len(r))
    BY <1>1, FS_Interval
  <1>3. IsFiniteSet(Kept(r))
    BY <1>1, <1>2, FS_Subset
  <1> QED
    BY <1>1, <1>3, FS_CardinalityType

\* Who comes before another has fewer before it, and nobody has all before it.
LEMMA RankStrict ==
  ASSUME NEW r \in Seq(Result), NEW i \in Kept(r)
  PROVE  /\ Cardinality(Ahead(r, i)) \in 0..(Cardinality(Kept(r)) - 1)
         /\ \A j \in Kept(r) :
              Before(r, i, j) => Cardinality(Ahead(r, i)) < Cardinality(Ahead(r, j))
  <1>1. \A j \in Kept(r) : /\ Ahead(r, j) \in SUBSET Kept(r) /\ IsFiniteSet(Ahead(r, j))
                           /\ Cardinality(Ahead(r, j)) \in Nat
    <2> TAKE j \in Kept(r)
    <2>1. Ahead(r, j) \in SUBSET Kept(r)
      BY DEF Ahead
    <2> QED
      BY <2>1, KeptFinite, FS_Subset, FS_CardinalityType
  <1>2. \A j \in Kept(r) : j \in DOMAIN r /\ j \notin Ahead(r, j)
    BY KeptFinite, BeforeOrders DEF Ahead
  <1>3. Cardinality(Ahead(r, i)) \in 0..(Cardinality(Kept(r)) - 1)
    <2>1. Ahead(r, i) # Kept(r)
      BY <1>2
    <2>2. Cardinality(Ahead(r, i)) <= Cardinality(Kept(r))
          /\ Cardinality(Ahead(r, i)) # Cardinality(Kept(r))
      BY <1>1, <2>1, KeptFinite, FS_Subset
    <2> QED
      BY <1>1, <2>2, KeptFinite
  <1>4. ASSUME NEW j \in Kept(r), Before(r, i, j)
        PROVE  Cardinality(Ahead(r, i)) < Cardinality(Ahead(r, j))
    <2>1. Ahead(r, i) \in SUBSET Ahead(r, j)
      <3> SUFFICES ASSUME NEW k \in Kept(r), Before(r, k, i) PROVE Before(r, k, j)
        BY DEF Ahead
      <3> QED
        BY <1>2, <1>4, BeforeOrders
    <2>2. i \in Ahead(r, j)
      BY <1>4 DEF Ahead
    <2>3. Ahead(r, i) # Ahead(r, j)
      BY <1>2, <2>2
    <2>4. Cardinality(Ahead(r, i)) <= Cardinality(Ahead(r, j))
          /\ Cardinality(Ahead(r, i)) # Cardinality(Ahead(r, j))
      BY <1>1, <2>1, <2>3, FS_Subset
    <2> QED
      BY <1>1, <2>4
  <1> QED
    BY <1>3, <1>4

\* Every place of the ranking is taken: the ranks differ, and there are as many
\* of them as places.
LEMMA RanksTaken ==
  ASSUME NEW r \in Seq(Result), NEW n \in 1..Cardinality(Kept(r))
  PROVE  \E i \in Kept(r) : Cardinality(Ahead(r, i)) = n - 1
  <1> DEFINE N == Cardinality(Kept(r))
             rank == [i \in Kept(r) |-> Cardinality(Ahead(r, i)) + 1]
  <1>1. N \in Nat /\ IsFiniteSet(Kept(r)) /\ Kept(r) \subseteq DOMAIN r
    BY KeptFinite
  <1>2. \A i \in Kept(r) : Cardinality(Ahead(r, i)) \in 0..(N - 1)
    BY RankStrict
  <1>3. rank \in [Kept(r) -> 1..N]
    <2>1. \A i \in Kept(r) : Cardinality(Ahead(r, i)) + 1 \in 1..N
      BY <1>1, <1>2
    <2> QED
      BY <2>1
  <1>4. ASSUME NEW i \in Kept(r), NEW j \in Kept(r), rank[i] = rank[j] PROVE i = j
    <2>1. Cardinality(Ahead(r, i)) = Cardinality(Ahead(r, j))
      BY <1>2, <1>4
    <2>2. ~Before(r, i, j) /\ ~Before(r, j, i)
      BY <1>2, <2>1, RankStrict
    <2> QED
      BY <1>1, <2>2, BeforeOrders
  <1>5. rank \in Injection(Kept(r), 1..N)
    BY <1>3, <1>4 DEF Injection, IsInjective
  <1>6. IsFiniteSet(1..N) /\ Cardinality(1..N) = N
    BY <1>1, FS_Interval
  <1>7. rank \in Surjection(Kept(r), 1..N)
    BY <1>5, <1>6, FS_Injection
  <1>8. PICK i \in Kept(r) : rank[i] = n
    BY <1>7 DEF Surjection
  <1>9. Cardinality(Ahead(r, i)) = n - 1
    BY <1>2, <1>8
  <1> QED
    BY <1>9

\* The ranking lists every result that was kept, once.
LEMMA RankedLists ==
  ASSUME NEW r \in Seq(Result)
  PROVE  \E o \in [1..Cardinality(Kept(r)) -> Kept(r)] :
           /\ Ranked(r) = [n \in 1..Cardinality(Kept(r)) |-> r[o[n]]]
           /\ \A m, n \in 1..Cardinality(Kept(r)) : m < n => Before(r, o[m], o[n])
           /\ \A i \in Kept(r) : \E n \in 1..Cardinality(Kept(r)) : o[n] = i
  <1> DEFINE N == Cardinality(Kept(r))
             Rank(i) == Cardinality(Ahead(r, i))
             o == [n \in 1..N |-> CHOOSE i \in Kept(r) : Rank(i) = n - 1]
  <1>1. N \in Nat /\ Kept(r) \subseteq DOMAIN r
    BY KeptFinite
  <1>2. \A n \in 1..N : o[n] \in Kept(r) /\ Rank(o[n]) = n - 1
    BY RanksTaken
  <1>3. \A i \in Kept(r) : Rank(i) \in 0..(N - 1)
    BY RankStrict
  <1>4. \A i, j \in Kept(r) : Before(r, i, j) => Rank(i) < Rank(j)
    BY RankStrict
  <1>5. Ranked(r) = [n \in 1..N |-> r[o[n]]]
    BY DEF Ranked
  <1> HIDE DEF o, N, Rank
  <1>6. ASSUME NEW m \in 1..N, NEW n \in 1..N, m < n PROVE Before(r, o[m], o[n])
    <2>1. o[m] # o[n] /\ ~Before(r, o[n], o[m])
      BY <1>1, <1>2, <1>4, <1>6
    <2> QED
      BY <1>1, <1>2, <2>1, BeforeOrders
  <1>7. ASSUME NEW i \in Kept(r) PROVE \E n \in 1..N : o[n] = i
    <2>1. Rank(i) + 1 \in 1..N /\ Rank(i) \in Nat
      BY <1>1, <1>3
    <2>2. o[Rank(i) + 1] \in Kept(r) /\ Rank(o[Rank(i) + 1]) = Rank(i)
      BY <1>2, <2>1
    <2>3. o[Rank(i) + 1] = i
      BY <1>1, <1>4, <2>1, <2>2, BeforeOrders
    <2> QED
      BY <2>1, <2>3
  <1>8. o \in [1..N -> Kept(r)]
    BY <1>2 DEF o
  <1> QED
    BY <1>5, <1>6, <1>7, <1>8 DEF N

\* Two positions that are kept have different paths.
LEMMA KeptPathsDiffer ==
  ASSUME NEW r \in Seq(Result), NEW i \in Kept(r), NEW j \in Kept(r), i # j
  PROVE  r[i].path # r[j].path
  <1>1. i \in Nat /\ j \in Nat /\ i >= 1 /\ j >= 1
    BY LenProperties DEF Kept
  <1>2. r[i].score >= MinRelevance /\ r[j].score >= MinRelevance
    BY DEF Kept
  <1>3. CASE i < j
    <2>1. i \in 1..(j - 1)
      BY <1>1, <1>3
    <2> QED
      BY <1>2, <2>1 DEF Kept
  <1>4. CASE j < i
    <2>1. j \in 1..(i - 1)
      BY <1>1, <1>4
    <2> QED
      BY <1>2, <2>1 DEF Kept
  <1> QED
    BY <1>1, <1>3, <1>4

\* What _process_results makes of the results: a list of those it kept, all
\* paths different, the best first.
LEMMA RankedBestFirst ==
  ASSUME NEW r \in Seq(Result)
  PROVE  /\ Ranked(r) \in Seq(Result)
         /\ \A n \in DOMAIN Ranked(r) : \E i \in Kept(r) : Ranked(r)[n] = r[i]
         /\ \A i \in Kept(r) : \E n \in DOMAIN Ranked(r) : Ranked(r)[n] = r[i]
         /\ \A m, n \in DOMAIN Ranked(r) :
              m < n => /\ Ranked(r)[m].path # Ranked(r)[n].path
                       /\ Ranked(r)[m].score >= Ranked(r)[n].score
  <1> DEFINE N == Cardinality(Kept(r))
  <1>1. PICK o \in [1..N -> Kept(r)] :
          /\ Ranked(r) = [n \in 1..N |-> r[o[n]]]
          /\ \A m, n \in 1..N : m < n => Before(r, o[m], o[n])
          /\ \A i \in Kept(r) : \E n \in 1..N : o[n] = i
    BY RankedLists
  <1>2. N \in Nat /\ \A i \in Kept(r) : i \in DOMAIN r /\ r[i] \in Result
    BY KeptFinite, LenProperties, ElementOfSeq
  <1> HIDE DEF N
  <1>3. DOMAIN Ranked(r) = 1..N /\ \A n \in 1..N : Ranked(r)[n] = r[o[n]] /\ o[n] \in Kept(r)
    BY <1>1
  <1>4. Ranked(r) \in Seq(Result)
    BY <1>1, <1>2, <1>3
  <1>5. ASSUME NEW m \in 1..N, NEW n \in 1..N, m < n
        PROVE  r[o[m]].path # r[o[n]].path /\ r[o[m]].score >= r[o[n]].score
    <2>1. Before(r, o[m], o[n]) /\ o[m] \in DOMAIN r /\ o[n] \in DOMAIN r
      BY <1>1, <1>2, <1>3, <1>5
    <2>2. o[m] # o[n]
      BY <2>1, BeforeOrders
    <2>3. r[o[m]].path # r[o[n]].path
      BY <1>3, <2>2, KeptPathsDiffer
    <2>4. r[o[m]].score \in Nat /\ r[o[n]].score \in Nat
      BY <1>2, <1>3 DEF Result
    <2> QED
      BY <2>1, <2>3, <2>4 DEF Before
  <1> QED
    BY <1>1, <1>3, <1>4, <1>5
------------------------------------------------------------------------------
(* The token budget.                                                       *)

\* A context cut to a rest is a context of that many tokens, no better than before.
LEMMA TruncatedType ==
  ASSUME NEW r \in Result, NEW rest \in Nat
  PROVE  /\ Truncated(r, rest) \in Result
         /\ Truncated(r, rest).tokens = rest
         /\ Truncated(r, rest).path = r.path
         /\ Truncated(r, rest).score <= r.score
  <1>1. r.score \in Nat
    BY DEF Result
  <1>2. (r.score * 8) \div 10 \in Nat /\ (r.score * 8) \div 10 <= r.score
    BY <1>1
  <1> QED
    BY <1>2 DEF Truncated, Result

\* What Fitting returns: w contexts within the budget, and perhaps the next one
\* cut to what is left of it.
FilledBy(s, budget, w) ==
  LET taken == SubSeq(s, 1, w)
      rest == budget - Tokens(taken)
  IN  /\ taken \in Seq(Result) /\ rest \in Nat
      /\ \/ Fitting(s, budget) = taken
         \/ /\ w + 1 \in 1..Len(s)
            /\ Fitting(s, budget) = Append(taken, Truncated(s[w + 1], rest))

\* There is a longest beginning of the list that fits the budget.
LEMMA FittingIsPrefix ==
  ASSUME NEW s \in Seq(Result), NEW budget \in Nat
  PROVE  \E w \in 0..Len(s) : FilledBy(s, budget, w)
  <1> DEFINE Fits(n) == Tokens(SubSeq(s, 1, n)) <= budget
             T == {n \in 0..Len(s) : Fits(n)}
  <1>1. Len(s) \in Nat
    BY LenProperties
  <1>2. 0 \in T
    <2>1. SubSeq(s, 1, 0) = <<>>
      BY SubSeqEmpty
    <2>2. Tokens(SubSeq(s, 1, 0)) = 0
      BY <2>1, TokensEmpty, Zenon
    <2> QED
      BY <1>1, <2>2
  <1>3. \A n \in 0..Len(s) : SubSeq(s, 1, n) \in Seq(Result) /\ Tokens(SubSeq(s, 1, n)) \in Nat
    <2> TAKE n \in 0..Len(s)
    <2>1. SubSeq(s, 1, n) \in Seq(Result)
      BY <1>1, SubSeqProperties
    <2> QED
      BY <2>1, TokensAreSum
  <1>4. PICK g \in T : \A m \in T : m <= g
    BY <1>1, <1>2, GreatestNumber
  <1>5. \A m \in (g + 1)..Len(s) : Tokens(SubSeq(s, 1, m)) > budget
    BY <1>1, <1>3, <1>4
  <1> DEFINE Whole(n) == Fits(n) /\ \A m \in (n + 1)..Len(s) : Tokens(SubSeq(s, 1, m)) > budget
             w == CHOOSE n \in 0..Len(s) : Whole(n)
  <1>6. w \in 0..Len(s) /\ Whole(w)
    BY <1>4, <1>5
  <1> DEFINE taken == SubSeq(s, 1, w)
             rest == budget - Tokens(taken)
  <1>7. Fitting(s, budget) = IF w < Len(s) /\ rest > MinViable
                             THEN Append(taken, Truncated(s[w + 1], rest)) ELSE taken
    BY DEF Fitting
  <1> HIDE DEF w
  <1>8. taken \in Seq(Result) /\ rest \in Nat
    BY <1>3, <1>6
  <1>9. w < Len(s) => w + 1 \in 1..Len(s)
    BY <1>1, <1>6
  <1> QED
    BY <1>6, <1>7, <1>8, <1>9 DEF FilledBy

\* What fits is a sequence of contexts.
LEMMA FittingTyped ==
  ASSUME NEW s \in Seq(Result), NEW budget \in Nat
  PROVE  Fitting(s, budget) \in Seq(Result)
  <1> USE DEF FilledBy
  <1>1. PICK w \in 0..Len(s) : FilledBy(s, budget, w)
    BY FittingIsPrefix
  <1> DEFINE taken == SubSeq(s, 1, w)
             rest == budget - Tokens(taken)
  <1>2. ASSUME w + 1 \in 1..Len(s) PROVE Append(taken, Truncated(s[w + 1], rest)) \in Seq(Result)
    <2>1. s[w + 1] \in Result
      BY <1>2, ElementOfSeq
    <2>2. Truncated(s[w + 1], rest) \in Result
      BY <1>1, <2>1, TruncatedType
    <2> QED
      BY <1>1, <2>2, AppendProperties
  <1> QED
    BY <1>1, <1>2

\* _apply_token_budget keeps to the budget.
LEMMA FittingFits ==
  ASSUME NEW s \in Seq(Result), NEW budget \in Nat
  PROVE  Tokens(Fitting(s, budget)) <= budget
  <1> USE DEF FilledBy
  <1>1. PICK w \in 0..Len(s) : FilledBy(s, budget, w)
    BY FittingIsPrefix
  <1> DEFINE taken == SubSeq(s, 1, w)
             rest == budget - Tokens(taken)
  <1>2. taken \in Seq(Result) /\ rest \in Nat /\ Tokens(taken) \in Nat
    BY <1>1, TokensAreSum
  <1>3. CASE Fitting(s, budget) = taken
    BY <1>2, <1>3
  <1>4. CASE w + 1 \in 1..Len(s) /\ Fitting(s, budget) = Append(taken, Truncated(s[w + 1], rest))
    <2>1. s[w + 1] \in Result
      BY <1>4, ElementOfSeq
    <2>2. Truncated(s[w + 1], rest) \in Result /\ Truncated(s[w + 1], rest).tokens = rest
      BY <1>2, <2>1, TruncatedType
    <2>3. Tokens(Fitting(s, budget)) = Tokens(taken) + rest
      BY <1>2, <1>4, <2>2, TokensAppend
    <2> QED
      BY <1>2, <2>3
  <1> QED
    BY <1>1, <1>3, <1>4

\* What is handed over is, place by place, a beginning of the ranking; only the
\* last context may be cut, which costs it a part of its score.
LEMMA FittingBeginsRanking ==
  ASSUME NEW s \in Seq(Result), NEW budget \in Nat
  PROVE  LET given == Fitting(s, budget) IN
         /\ DOMAIN given = 1..Len(given) /\ Len(given) \in 0..Len(s)
         /\ \A n \in DOMAIN given :
              /\ n \in DOMAIN s /\ given[n].path = s[n].path
              /\ given[n] \in Result /\ given[n].score <= s[n].score
              /\ n < Len(given) => given[n] = s[n]
  <1> USE DEF FilledBy
  <1>1. PICK w \in 0..Len(s) : FilledBy(s, budget, w)
    BY FittingIsPrefix
  <1> DEFINE given == Fitting(s, budget)
             taken == SubSeq(s, 1, w)
             rest == budget - Tokens(taken)
  <1>2. Len(s) \in Nat /\ w \in Nat /\ DOMAIN s = 1..Len(s)
    BY LenProperties
  <1>3. taken \in Seq(Result) /\ Len(taken) = w /\ \A n \in 1..w : taken[n] = s[n]
    BY <1>2, SubSeqProperties
  <1>4. \A n \in 1..Len(s) : s[n] \in Result /\ s[n].score \in Nat
    <2>1. \A n \in 1..Len(s) : s[n] \in Result
      BY <1>2, ElementOfSeq
    <2> QED
      BY <2>1 DEF Result
  <1>5. CASE given = taken
    <2>1. DOMAIN given = 1..w /\ Len(given) = w
      BY <1>2, <1>3, <1>5, LenProperties
    <2>2. \A n \in 1..w : n \in 1..Len(s) /\ given[n] = s[n]
      BY <1>2, <1>3, <1>5
    <2> HIDE DEF given, taken, rest
    <2>3. \A n \in DOMAIN given : /\ n \in DOMAIN s /\ given[n] = s[n]
                                  /\ given[n] \in Result /\ given[n].score <= s[n].score
      BY <1>2, <1>4, <2>1, <2>2
    <2>4. DOMAIN given = 1..Len(given) /\ Len(given) \in 0..Len(s)
      BY <1>2, <2>1
    <2> QED
      BY <2>3, <2>4 DEF given
  <1>6. CASE w + 1 \in 1..Len(s) /\ given = Append(taken, Truncated(s[w + 1], rest))
    <2> DEFINE cut == Truncated(s[w + 1], rest)
    <2>1. /\ cut \in Result /\ cut.path = s[w + 1].path /\ cut.score <= s[w + 1].score
      BY <1>1, <1>4, <1>6, TruncatedType
    <2>2. /\ Len(given) = w + 1 /\ DOMAIN given = 1..(w + 1) /\ given[w + 1] = cut
          /\ \A n \in 1..w : given[n] = taken[n]
      BY <1>3, <1>6, <2>1, AppendProperties
    <2> HIDE DEF given, taken, rest, cut
    <2>3. \A n \in 1..(w + 1) : n \in 1..Len(s) /\ (n = w + 1 \/ n \in 1..w)
      <3>1. w + 1 <= Len(s)
        BY <1>2, <1>6
      <3> QED
        BY <1>2, <3>1
    <2>4. \A n \in 1..w : given[n] = s[n]
      BY <1>3, <2>2
    <2>5. DOMAIN given = 1..Len(given) /\ Len(given) \in 0..Len(s)
      BY <1>2, <1>6, <2>2
    <2>6. ASSUME NEW n \in DOMAIN given
          PROVE  /\ n \in DOMAIN s /\ given[n].path = s[n].path
                 /\ given[n] \in Result /\ given[n].score <= s[n].score
                 /\ n < Len(given) => given[n] = s[n]
      <3>1. CASE n = w + 1
        BY <1>2, <2>1, <2>2, <2>3, <3>1
      <3>2. CASE n \in 1..w
        <4>1. n \in 1..Len(s) /\ given[n] = s[n]
          BY <2>2, <2>3, <2>4, <3>2
        <4> QED
          BY <1>2, <1>4, <4>1
      <3> QED
        BY <2>2, <2>3, <3>1, <3>2
    <2> QED
      BY <2>5, <2>6 DEF given
  <1> QED
    BY <1>1, <1>5, <1>6

\* What retrieve_context hands over of the results r is the best of them.
LEMMA BestHandedOver ==
  ASSUME NEW r \in Seq(Result), NEW budget \in Nat
  PROVE  BestOf(r, Fitting(Ranked(r), budget))
  <1> DEFINE s == Ranked(r)
             given == Fitting(s, budget)
             first == {r[i] : i \in Kept(r)}
             left == {x \in first : \A n \in DOMAIN given : given[n].path # x.path}
  <1>1. /\ s \in Seq(Result)
        /\ \A n \in DOMAIN s : s[n] \in first
        /\ \A x \in first : \E n \in DOMAIN s : s[n] = x
        /\ \A m, n \in DOMAIN s : m < n => s[m].path # s[n].path /\ s[m].score >= s[n].score
    BY RankedBestFirst
  <1> HIDE DEF s, first
  <1>2. DOMAIN s = 1..Len(s) /\ Len(s) \in Nat
    BY <1>1, LenProperties
  <1>3. \A n \in DOMAIN s : s[n].score \in Nat
    <2>1. \A n \in DOMAIN s : s[n] \in Result
      BY <1>1, <1>2, ElementOfSeq
    <2> QED
      BY <2>1 DEF Result
  <1>4. /\ DOMAIN given = 1..Len(given) /\ Len(given) \in 0..Len(s)
        /\ \A n \in DOMAIN given :
             /\ n \in DOMAIN s /\ given[n].path = s[n].path
             /\ given[n] \in Result /\ given[n].score <= s[n].score
             /\ n < Len(given) => given[n] = s[n]
    BY <1>1, FittingBeginsRanking
  <1> HIDE DEF given
  <1>5. ASSUME NEW m \in DOMAIN given, NEW n \in DOMAIN given, m < n
        PROVE  /\ given[m].path # given[n].path
               /\ given[m].score >= given[n].score
               /\ given[m] \in first
    <2>1. m < Len(given)
      BY <1>2, <1>4, <1>5
    <2>2. given[m] = s[m] /\ m \in DOMAIN s /\ n \in DOMAIN s
      BY <1>4, <2>1
    <2>3. given[n].score \in Nat
      BY <1>4 DEF Result
    <2> QED
      BY <1>1, <1>3, <1>4, <1>5, <2>2, <2>3
  <1>6. ASSUME NEW x \in left, NEW n \in DOMAIN given
        PROVE  \E best \in first : best.path = given[n].path /\ best.score >= x.score
    <2>1. x \in first /\ \A k \in DOMAIN given : given[k].path # x.path
      OBVIOUS
    <2>2. PICK k \in DOMAIN s : s[k] = x
      BY <1>1, <2>1
    <2>3. k \notin DOMAIN given
      BY <1>4, <2>1, <2>2
    <2>4. n < k /\ n \in DOMAIN s
      BY <1>2, <1>4, <2>3
    <2>5. s[n] \in first /\ s[n].path = given[n].path /\ s[n].score >= x.score
      BY <1>1, <1>4, <2>2, <2>4
    <2> QED
      BY <2>5
  <1> QED
    BY <1>5, <1>6 DEF given, s, first, BestOf

------------------------------------------------------------------------------
(* The service.                                                            *)

\* Types, and what a caller waits for: a query, until its bundle is there.
Waiting ==
  /\ clears \in Nat
  /\ begun \in [Callers -> Nat]
  /\ found \in [Callers -> Seq(Result)]
  /\ query \in [Callers -> Queries \cup {NoQuery}]
  /\ DOMAIN todo = Callers
  /\ cache \in [Keys -> [contexts : Seq(Result), since : Int]]
  /\ bundle \in [Callers -> [query : Queries \cup {NoQuery}, contexts : Seq(Result),
                             since : Int, begun : Int]]
  /\ \A c \in Callers : /\ todo[c] # <<>> => query[c] # NoQuery
                        /\ query[c] # NoQuery => bundle[c] = NoBundle

\* The contexts in the cache fit the budget of every role that has their key.
CacheFits == \A q \in Queries : Tokens(cache[Key(q)].contexts) <= Budget[q.role]

\* Only what a retrieval had begun before the last clear can be older than it.
Ages ==
  /\ \A k \in Keys : cache[k] # NotCached =>
       cache[k].since \in 0..clears /\ (cache[k].since < clears => k \in overtaken)
  /\ \A c \in Callers : query[c] # NoQuery =>
       begun[c] \in 0..clears /\ (begun[c] < clears => Key(query[c]) \in overtaken)

\* A bundle was cut to its query's budget from the results it was made of.
BundlesMade ==
  \A c \in Callers : bundle[c] # NoBundle =>
    /\ bundle[c].query \in Queries
    /\ bundle[c].since \in 0..bundle[c].begun /\ bundle[c].begun \in 0..clears
    /\ found[c] # <<>> =>
         bundle[c].contexts = Fitting(Ranked(found[c]), Budget[bundle[c].query.role])

RetrievalInv ==
  Waiting /\ CacheFits /\ Ages /\ BundlesMade /\ BundleFits /\ FreshAfterClear

\* The builders' sets of strategies tell their roles apart, so that a key
\* belongs to one budget.
LEMMA KeysKnowBudgets ==
  ASSUME NEW p \in Queries, NEW q \in Queries, Key(p) = Key(q)
  PROVE  Budget[p.role] = Budget[q.role]
  <1> DEFINE Roles == {"planner", "coder", "debugger", "tester", "reviewer", "security"}
  <1>1. p.role \in Roles /\ q.role \in Roles
    BY QueryAssumption DEF Strategies
  <1>2. Strategies[p.role] = Strategies[q.role]
    BY DEF Key
  <1>3. \A r \in Roles : r \in DOMAIN Budget
    BY DEF Budget
  <1>4. ASSUME NEW r \in Roles, Strategies[r] = Strategies["planner"] PROVE r = "planner"
    BY <1>4 DEF Strategies
  <1>5. ASSUME NEW r \in Roles, Strategies[r] = Strategies["coder"] PROVE r = "coder"
    BY <1>5 DEF Strategies
  <1>6. ASSUME NEW r \in Roles, Strategies[r] = Strategies["debugger"] PROVE r = "debugger"
    BY <1>6 DEF Strategies
  <1>7. ASSUME NEW r \in Roles, Strategies[r] = Strategies["tester"] PROVE r = "tester"
    BY <1>7 DEF Strategies
  <1>8. ASSUME NEW r \in Roles, Strategies[r] = Strategies["reviewer"] PROVE r = "reviewer"
    BY <1>8 DEF Strategies
  <1>9. ASSUME NEW r \in Roles, Strategies[r] = Strategies["security"] PROVE r = "security"
    BY <1>9 DEF Strategies
  <1> QED
    BY <1>1, <1>2, <1>4, <1>5, <1>6, <1>7, <1>8, <1>9

\* Keys and budgets of queries.
LEMMA QueriesTyped ==
  ASSUME NEW q \in Queries
  PROVE  /\ q # NoQuery /\ Key(q) \in Keys
         /\ Budget[q.role] \in Nat
  <1>1. q.role \in {"planner", "coder", "debugger", "tester", "reviewer", "security"}
    BY QueryAssumption DEF Strategies
  <1>2. q # NoQuery
    BY <1>1 DEF NoQuery
  <1>3. Budget[q.role] \in Nat
    BY <1>1 DEF Budget
  <1> QED
    BY <1>2, <1>3 DEF Keys

LEMMA RetrievalInitial == Init => RetrievalInv
  <1> SUFFICES ASSUME Init PROVE RetrievalInv
    OBVIOUS
  <1>1. <<>> \in Seq(Result)
    OBVIOUS
  <1>2. Waiting
    BY <1>1 DEF Init, Waiting, NotCached, NoBundle
  <1>3. CacheFits
    <2>1. ASSUME NEW q \in Queries PROVE Tokens(cache[Key(q)].contexts) <= Budget[q.role]
      <3>1. cache[Key(q)].contexts = <<>> /\ Budget[q.role] \in Nat
        BY QueriesTyped DEF Init, NotCached
      <3> QED
        BY <3>1, TokensEmpty
    <2> QED
      BY <2>1 DEF CacheFits
  <1>4. Ages /\ BundlesMade /\ BundleFits /\ FreshAfterClear
    BY DEF Init, Ages, BundlesMade, BundleFits, FreshAfterClear, Given
  <1> QED
    BY <1>2, <1>3, <1>4 DEF RetrievalInv

\* A hit hands out an entry that fits and is as old as Ages says.
LEMMA HitKeeps ==
  ASSUME RetrievalInv, NEW c \in Callers, NEW q \in Queries, CacheHit(c, q)
  PROVE  RetrievalInv'
  <1> DEFINE b == Bundle(q, cache[Key(q)].contexts, cache[Key(q)].since, clears)
  <1>1. /\ query[c] = NoQuery /\ cache[Key(q)] # NotCached
        /\ bundle' = [bundle EXCEPT ![c] = b] /\ found' = [found EXCEPT ![c] = <<>>]
        /\ UNCHANGED <<cache, query, todo, begun, clears, overtaken>>
    BY DEF CacheHit
  <1>2. Waiting /\ CacheFits /\ Ages /\ BundlesMade /\ BundleFits /\ FreshAfterClear
    BY DEF RetrievalInv
  <1>3. Key(q) \in Keys /\ q # NoQuery
    BY QueriesTyped
  <1>4. /\ b.query = q /\ b.contexts = cache[Key(q)].contexts
        /\ b.since = cache[Key(q)].since /\ b.begun = clears
        /\ b \in [query : Queries \cup {NoQuery}, contexts : Seq(Result), since : Int, begun : Int]
    BY <1>2, <1>3 DEF Bundle, Waiting
  <1>5. b.since \in 0..clears /\ (b.since < clears => Key(q) \in overtaken)
    BY <1>1, <1>2, <1>3, <1>4 DEF Ages
  <1>6. Tokens(b.contexts) <= Budget[q.role]
    BY <1>2, <1>4 DEF CacheFits
  <1>7. /\ bundle'[c] = b /\ found'[c] = <<>>
        /\ \A d \in Callers : d # c => bundle'[d] = bundle[d] /\ found'[d] = found[d]
    BY <1>1, <1>2 DEF Waiting
  <1> HIDE DEF b
  <1>8. Waiting'
    <2>1. <<>> \in Seq(Result)
      OBVIOUS
    <2> QED
      BY <1>1, <1>2, <1>4, <1>7, <2>1 DEF Waiting
  <1>9. CacheFits' /\ Ages'
    BY <1>1, <1>2 DEF CacheFits, Ages
  <1>10. BundlesMade'
    BY <1>1, <1>2, <1>4, <1>5, <1>7 DEF BundlesMade
  <1>11. BundleFits' /\ FreshAfterClear'
    <2>1. ASSUME NEW d \in Callers, bundle'[d] # NoBundle
          PROVE  /\ Tokens(bundle'[d].contexts) <= Budget[bundle'[d].query.role]
                 /\ bundle'[d].begun = clears' /\ bundle'[d].since < clears' =>
                      Key(bundle'[d].query) \in overtaken'
      <3>1. CASE d = c
        BY <1>1, <1>4, <1>5, <1>6, <1>7, <3>1
      <3>2. CASE d # c
        BY <1>1, <1>2, <1>7, <2>1, <3>2 DEF BundleFits, FreshAfterClear, Given
      <3> QED
        BY <3>1, <3>2
    <2> QED
      BY <2>1 DEF BundleFits, FreshAfterClear, Given
  <1> QED
    BY <1>8, <1>9, <1>10, <1>11 DEF RetrievalInv

\* A miss begins at the present number of clears.
LEMMA MissKeeps ==
  ASSUME RetrievalInv, NEW c \in Callers, NEW q \in Queries, CacheMiss(c, q)
  PROVE  RetrievalInv'
  <1>1. /\ query' = [query EXCEPT ![c] = q] /\ found' = [found EXCEPT ![c] = <<>>]
        /\ begun' = [begun EXCEPT ![c] = clears] /\ bundle' = [bundle EXCEPT ![c] = NoBundle]
        /\ DOMAIN todo' = DOMAIN todo /\ \A d \in DOMAIN todo : d # c => todo'[d] = todo[d]
        /\ UNCHANGED <<cache, clears, overtaken>>
    BY DEF CacheMiss
  <1>2. Waiting /\ CacheFits /\ Ages /\ BundlesMade /\ BundleFits /\ FreshAfterClear
    BY DEF RetrievalInv
  <1>3. q # NoQuery
    BY QueriesTyped
  <1>4. /\ query'[c] = q /\ found'[c] = <<>> /\ begun'[c] = clears /\ bundle'[c] = NoBundle
        /\ \A d \in Callers : d # c => /\ bundle'[d] = bundle[d] /\ found'[d] = found[d]
                                     /\ query'[d] = query[d] /\ begun'[d] = begun[d]
    BY <1>1, <1>2 DEF Waiting
  <1>5. Waiting'
    <2>1. <<>> \in Seq(Result)
          /\ NoBundle \in [query : Queries \cup {NoQuery}, contexts : Seq(Result),
                          since : Int, begun : Int]
      BY DEF NoBundle
    <2> QED
      BY <1>1, <1>2, <1>3, <1>4, <2>1 DEF Waiting
  <1>6. CacheFits' /\ Ages'
    BY <1>1, <1>2, <1>4 DEF CacheFits, Ages, Waiting
  <1>7. BundlesMade' /\ BundleFits' /\ FreshAfterClear'
    BY <1>1, <1>2, <1>4 DEF BundlesMade, BundleFits, FreshAfterClear, Given
  <1> QED
    BY <1>5, <1>6, <1>7 DEF RetrievalInv

LEMMA AnswerKeeps ==
  ASSUME RetrievalInv, NEW c \in Callers, NEW results \in Seq(Result),
         SearchAnswers(c, results)
  PROVE  RetrievalInv'
  <1>1. /\ todo[c] # <<>> /\ found' = [found EXCEPT ![c] = @ \o results]
        /\ todo' = [todo EXCEPT ![c] = Tail(@)]
        /\ UNCHANGED <<cache, query, begun, bundle, clears, overtaken>>
    BY DEF SearchAnswers
  <1>2. Waiting /\ CacheFits /\ Ages /\ BundlesMade /\ BundleFits /\ FreshAfterClear
    BY DEF RetrievalInv
  <1>3. query[c] # NoQuery /\ bundle[c] = NoBundle
    BY <1>1, <1>2 DEF Waiting
  <1>4. found[c] \o results \in Seq(Result)
    BY <1>2, ConcatProperties DEF Waiting
  <1>5. /\ DOMAIN todo' = DOMAIN todo /\ \A d \in DOMAIN todo : d # c => todo'[d] = todo[d]
        /\ \A d \in Callers : d # c => found'[d] = found[d]
    BY <1>1, <1>2 DEF Waiting
  <1>6. Waiting'
    BY <1>1, <1>2, <1>3, <1>4, <1>5 DEF Waiting
  <1>7. CacheFits' /\ Ages'
    BY <1>1, <1>2 DEF CacheFits, Ages
  <1>8. BundlesMade' /\ BundleFits' /\ FreshAfterClear'
    BY <1>1, <1>2, <1>3, <1>5 DEF BundlesMade, BundleFits, FreshAfterClear, Given
  <1> QED
    BY <1>6, <1>7, <1>8 DEF RetrievalInv

\* A retrieval puts the same contexts in the cache and in the bundle.
LEMMA RetrievedKeeps ==
  ASSUME RetrievalInv, NEW c \in Callers, Retrieved(c)
  PROVE  RetrievalInv'
  <1> DEFINE q == query[c]
             contexts == Fitting(Ranked(found[c]), Budget[q.role])
             entry == [contexts |-> contexts, since |-> begun[c]]
             b == Bundle(q, contexts, begun[c], begun[c])
  <1>1. /\ q # NoQuery /\ todo[c] = <<>>
        /\ cache' = [cache EXCEPT ![Key(q)] = entry]
        /\ bundle' = [bundle EXCEPT ![c] = b] /\ query' = [query EXCEPT ![c] = NoQuery]
        /\ UNCHANGED <<todo, found, begun, clears, overtaken>>
    BY DEF Retrieved
  <1>2. Waiting /\ CacheFits /\ Ages /\ BundlesMade /\ BundleFits /\ FreshAfterClear
    BY DEF RetrievalInv
  <1>3. q \in Queries /\ found[c] \in Seq(Result)
    BY <1>1, <1>2 DEF Waiting
  <1>4. Key(q) \in Keys /\ Budget[q.role] \in Nat
    BY <1>3, QueriesTyped
  <1>5. contexts \in Seq(Result) /\ Tokens(contexts) <= Budget[q.role]
    <2>1. Ranked(found[c]) \in Seq(Result)
      BY <1>3, RankedBestFirst
    <2> QED
      BY <1>4, <2>1, FittingFits, FittingTyped
  <1>6. begun[c] \in 0..clears /\ (begun[c] < clears => Key(q) \in overtaken)
    BY <1>1, <1>2 DEF Ages
  <1>7. /\ b.query = q /\ b.contexts = contexts /\ b.since = begun[c] /\ b.begun = begun[c]
        /\ b \in [query : Queries \cup {NoQuery}, contexts : Seq(Result), since : Int, begun : Int]
        /\ entry \in [contexts : Seq(Result), since : Int]
        /\ entry.contexts = contexts /\ entry.since = begun[c]
    BY <1>2, <1>3, <1>5 DEF Bundle, Waiting
  <1>8. /\ contexts = Fitting(Ranked(found[c]), Budget[b.query.role])
    BY <1>7
  <1> HIDE DEF b, contexts, entry
  <1>9. /\ bundle'[c] = b /\ query'[c] = NoQuery /\ cache'[Key(q)] = entry
        /\ \A d \in Callers : d # c => bundle'[d] = bundle[d] /\ query'[d] = query[d]
        /\ \A k \in Keys : k # Key(q) => cache'[k] = cache[k]
    BY <1>1, <1>2, <1>4 DEF Waiting
  <1>10. Waiting'
    BY <1>1, <1>2, <1>7, <1>9 DEF Waiting
  <1>11. CacheFits'
    <2>1. ASSUME NEW p \in Queries PROVE Tokens(cache'[Key(p)].contexts) <= Budget[p.role]
      <3>1. CASE Key(p) = Key(q)
        BY <1>3, <1>5, <1>7, <1>9, <3>1, KeysKnowBudgets
      <3>2. CASE Key(p) # Key(q)
        <4>1. cache'[Key(p)] = cache[Key(p)]
          BY <1>9, <3>2, QueriesTyped
        <4> QED
          BY <1>2, <4>1 DEF CacheFits
      <3> QED
        BY <3>1, <3>2
    <2> QED
      BY <2>1 DEF CacheFits
  <1>12. Ages'
    <2>1. ASSUME NEW k \in Keys, cache'[k] # NotCached
          PROVE  cache'[k].since \in 0..clears /\ (cache'[k].since < clears => k \in overtaken)
      BY <1>2, <1>6, <1>7, <1>9, <2>1 DEF Ages
    <2>2. ASSUME NEW d \in Callers, query'[d] # NoQuery
          PROVE  begun[d] \in 0..clears /\ (begun[d] < clears => Key(query'[d]) \in overtaken)
      BY <1>2, <1>9, <2>2 DEF Ages
    <2> QED
      BY <1>1, <2>1, <2>2 DEF Ages
  <1>13. BundlesMade'
    <2>1. ASSUME NEW d \in Callers, bundle'[d] # NoBundle
          PROVE  /\ bundle'[d].query \in Queries
                 /\ bundle'[d].since \in 0..bundle'[d].begun /\ bundle'[d].begun \in 0..clears
                 /\ found[d] # <<>> => bundle'[d].contexts =
                      Fitting(Ranked(found[d]), Budget[bundle'[d].query.role])
      <3>1. CASE d = c
        BY <1>3, <1>6, <1>7, <1>8, <1>9, <3>1
      <3>2. CASE d # c
        BY <1>2, <1>9, <2>1, <3>2 DEF BundlesMade
      <3> QED
        BY <3>1, <3>2
    <2> QED
      BY <1>1, <2>1 DEF BundlesMade
  <1>14. BundleFits' /\ FreshAfterClear'
    <2>1. ASSUME NEW d \in Callers, bundle'[d] # NoBundle
          PROVE  /\ Tokens(bundle'[d].contexts) <= Budget[bundle'[d].query.role]
                 /\ bundle'[d].begun = clears' /\ bundle'[d].since < clears' =>
                      Key(bundle'[d].query) \in overtaken'
      <3>1. CASE d = c
        BY <1>1, <1>5, <1>6, <1>7, <1>9, <3>1
      <3>2. CASE d # c
        BY <1>1, <1>2, <1>9, <2>1, <3>2 DEF BundleFits, FreshAfterClear, Given
      <3> QED
        BY <3>1, <3>2
    <2> QED
      BY <2>1 DEF BundleFits, FreshAfterClear, Given
  <1> QED
    BY <1>10, <1>11, <1>12, <1>13, <1>14 DEF RetrievalInv

LEMMA CancelledKeeps ==
  ASSUME RetrievalInv, NEW c \in Callers, Cancelled(c)
  PROVE  RetrievalInv'
  <1>1. /\ todo[c] # <<>> /\ query' = [query EXCEPT ![c] = NoQuery]
        /\ todo' = [todo EXCEPT ![c] = <<>>] /\ found' = [found EXCEPT ![c] = <<>>]
        /\ UNCHANGED <<cache, begun, bundle, clears, overtaken>>
    BY DEF Cancelled
  <1>2. Waiting /\ CacheFits /\ Ages /\ BundlesMade /\ BundleFits /\ FreshAfterClear
    BY DEF RetrievalInv
  <1>3. bundle[c] = NoBundle
    BY <1>1, <1>2 DEF Waiting
  <1>4. /\ query'[c] = NoQuery /\ todo'[c] = <<>>
        /\ \A d \in Callers : d # c =>
             query'[d] = query[d] /\ todo'[d] = todo[d] /\ found'[d] = found[d]
    BY <1>1, <1>2 DEF Waiting
  <1>5. Waiting'
    <2>1. <<>> \in Seq(Result)
      OBVIOUS
    <2> QED
      BY <1>1, <1>2, <1>4, <2>1 DEF Waiting
  <1>6. CacheFits' /\ Ages'
    BY <1>1, <1>2, <1>4 DEF CacheFits, Ages
  <1>7. BundlesMade' /\ BundleFits' /\ FreshAfterClear'
    BY <1>1, <1>2, <1>3, <1>4 DEF BundlesMade, BundleFits, FreshAfterClear, Given
  <1> QED
    BY <1>5, <1>6, <1>7 DEF RetrievalInv

\* A clear makes every bundle given so far, and every retrieval under way, one
\* of before the clear; the keys of the latter are the ones remembered.
LEMMA ClearKeeps ==
  ASSUME RetrievalInv, ClearCache
  PROVE  RetrievalInv'
  <1>1. /\ cache' = [k \in DOMAIN cache |-> NotCached] /\ clears' = clears + 1
        /\ overtaken' = {Key(query[c]) : c \in {d \in Callers : query[d] # NoQuery}}
        /\ UNCHANGED <<query, todo, found, begun, bundle>>
    BY DEF ClearCache, Cleared
  <1>2. Waiting /\ CacheFits /\ Ages /\ BundlesMade /\ BundleFits /\ FreshAfterClear
    BY DEF RetrievalInv
  <1>3. clears \in Nat /\ clears' \in Nat /\ DOMAIN cache = Keys
    BY <1>1, <1>2 DEF Waiting
  <1>4. cache' = [k \in Keys |-> NotCached]
    BY <1>1, <1>3
  <1>5. Waiting'
    <2>1. NotCached \in [contexts : Seq(Result), since : Int]
      BY DEF NotCached
    <2>2. cache' \in [Keys -> [contexts : Seq(Result), since : Int]]
      BY <1>4, <2>1
    <2> QED
      BY <1>1, <1>2, <1>3, <2>2 DEF Waiting
  <1>6. CacheFits'
    <2>1. ASSUME NEW q \in Queries PROVE Tokens(cache'[Key(q)].contexts) <= Budget[q.role]
      <3>1. cache'[Key(q)].contexts = <<>> /\ Budget[q.role] \in Nat
        BY <1>4, QueriesTyped DEF NotCached
      <3> QED
        BY <3>1, TokensEmpty
    <2> QED
      BY <2>1 DEF CacheFits
  <1>7. Ages'
    <2>1. ASSUME NEW c \in Callers, query[c] # NoQuery
          PROVE  begun[c] \in 0..clears' /\ Key(query[c]) \in overtaken'
      BY <1>1, <1>2, <1>3, <2>1 DEF Ages
    <2> QED
      BY <1>1, <1>4, <2>1 DEF Ages
  <1>8. ASSUME NEW c \in Callers, bundle[c] # NoBundle
        PROVE  /\ bundle[c].since \in 0..bundle[c].begun /\ bundle[c].begun \in 0..clears'
               /\ bundle[c].begun # clears'
    BY <1>1, <1>2, <1>3, <1>8 DEF BundlesMade
  <1>9. BundlesMade'
    BY <1>1, <1>2, <1>8 DEF BundlesMade
  <1>10. BundleFits' /\ FreshAfterClear'
    BY <1>1, <1>2, <1>8 DEF BundleFits, FreshAfterClear, Given
  <1> QED
    BY <1>5, <1>6, <1>7, <1>9, <1>10 DEF RetrievalInv

LEMMA RetrievalInductive == RetrievalInv /\ [Next]_vars => RetrievalInv'
  <1> SUFFICES ASSUME RetrievalInv, [Next]_vars PROVE RetrievalInv'
    OBVIOUS
  <1>1. CASE UNCHANGED vars
    BY <1>1 DEF vars, RetrievalInv, Waiting, CacheFits, Ages, BundlesMade, BundleFits,
       FreshAfterClear, Given
  <1>2. CASE ClearCache
    BY <1>2, ClearKeeps
  <1>3. ASSUME NEW c \in Callers, Retrieved(c) PROVE RetrievalInv'
    BY <1>3, RetrievedKeeps
  <1>4. ASSUME NEW c \in Callers, Cancelled(c) PROVE RetrievalInv'
    BY <1>4, CancelledKeeps
  <1>5. ASSUME NEW c \in Callers, NEW q \in Queries, CacheHit(c, q) PROVE RetrievalInv'
    BY <1>5, HitKeeps
  <1>6. ASSUME NEW c \in Callers, NEW q \in Queries, CacheMiss(c, q) PROVE RetrievalInv'
    BY <1>6, MissKeeps
  <1>7. ASSUME NEW c \in Callers, NEW s \in DOMAIN Answers, NEW results \in Answers[s],
               SearchAnswers(c, results)
        PROVE  RetrievalInv'
    <2>1. results \in Seq(Result)
      BY QueryAssumption
    <2> QED
      BY <1>7, <2>1, AnswerKeeps
  <1> QED
    BY <1>1, <1>2, <1>3, <1>4, <1>5, <1>6, <1>7 DEF Next

\* Whatever agents ask, search, cancel and clear, every entry of the cache and
\* every bundle comes from a retrieval that RetrievalInv accounts for.
THEOREM RetrievalInvariance == Spec => []RetrievalInv
  BY RetrievalInitial, RetrievalInductive, PTL DEF Spec

\* However many agents share the cache, a bundle never holds more tokens than
\* the role that asked may have, whoever filled the cache.
THEOREM BudgetsKept == Spec => []BundleFits
  BY RetrievalInvariance, PTL DEF RetrievalInv

\* After clear_cache nothing older is handed out, however many clears and
\* retrievals overlap, but under the keys whose retrieval the clear overtook.
THEOREM ClearIsHonoured == Spec => []FreshAfterClear
  BY RetrievalInvariance, PTL DEF RetrievalInv

\* A retrieval hands over the best of whatever its searches found.
THEOREM BestHandedOut == Spec => []BestKept
  <1>1. RetrievalInv => BestKept
    <2> SUFFICES ASSUME RetrievalInv, NEW c \in Callers, bundle[c] # NoBundle, found[c] # <<>>
                 PROVE  BestOf(found[c], bundle[c].contexts)
      BY DEF BestKept
    <2>1. /\ bundle[c].query \in Queries /\ found[c] \in Seq(Result)
          /\ bundle[c].contexts = Fitting(Ranked(found[c]), Budget[bundle[c].query.role])
      BY DEF RetrievalInv, Waiting, BundlesMade
    <2>2. Budget[bundle[c].query.role] \in Nat
      BY <2>1, QueriesTyped
    <2> QED
      BY <2>1, <2>2, BestHandedOver
  <1> QED
    BY <1>1, RetrievalInvariance, PTL
==============================================================================
