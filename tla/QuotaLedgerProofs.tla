------------------------- MODULE QuotaLedgerProofs -------------------------
(***************************************************************************)
(* Theorems about QuotaLedger, for any users, tokens, requests, prices,    *)
(* retries, failures and interleavings:                                    *)
(*   TypeCorrect         the types.                                        *)
(*   RequestServedOnce   a request is served by one attempt at most.       *)
(*   UsersRefineAccount, TokensRefineAccount                               *)
(*                       users.quota and tokens.remain_quota move as       *)
(*                       QuotaAccount says.                                *)
(*   BooksSettleFairly, BooksSettle, TokensSettle                          *)
(*                       when all is settled the books balance, up to what *)
(*                       the failed statements displaced.                  *)
(*   UsersAreConserved   before that, what is missing is what the attempts *)
(*                       hold or were charged.                             *)
(***************************************************************************)
EXTENDS QuotaLedger, FiniteSetTheorems, TLAPS

(***************************************************************************)
(* Sums over finite sets, which the model takes with the fold of the       *)
(* community modules.  What is said of all sums follows by induction, from *)
(* the well-founded orders of the library.                                 *)
(***************************************************************************)
First(s) == CHOOSE x \in s : TRUE

\* g sums f over every subset of S, as the fold's recursion does.
Adds(g, f, S) == g = [s \in SUBSET S |-> IF s = {} THEN 0 ELSE f[First(s)] + g[s \ {First(s)}]]

\* The sum of f over S.
Total(f, S) == MapThenSumSet(LAMBDA x : f[x], S)

\* What holds of the empty set and of every set with one element more holds
\* of a finite set; P is the set of those it holds of.
LEMMA FiniteInduction ==
    ASSUME NEW S, IsFiniteSet(S), NEW P, {} \in P,
           \A T \in SUBSET S : \A x \in S \ T : T \in P => T \cup {x} \in P
    PROVE  S \in P
<1> DEFINE Bad == {T \in FiniteSubsetsOf(S) : T \notin P}
<1>1. SUFFICES ASSUME Bad # {} PROVE FALSE
  BY FS_FiniteSubsetsOfFinite
<1>2. PICK T \in Bad : \A U \in Bad : <<U, T>> \notin StrictSubsetOrdering(S)
  <2>1. IsWellFoundedOn(StrictSubsetOrdering(S), FiniteSubsetsOf(S))
    BY FS_StrictSubsetOrderingWellFounded
  <2> QED
    BY <1>1, <2>1, WFMin
<1>3. T \in SUBSET S /\ T \notin P /\ T # {}
  BY FS_FiniteSubsetsOfFinite
<1>4. PICK x \in T : TRUE
  BY <1>3
<1>5. T \ {x} \in P
  <2>1. T \ {x} \in FiniteSubsetsOf(S)
    BY <1>3, FS_FiniteSubsetsOfFinite
  <2>2. <<T \ {x}, T>> \in StrictSubsetOrdering(S)
    BY <1>3, <1>4 DEF StrictSubsetOrdering
  <2> QED
    BY <1>2, <2>1, <2>2
<1>6. (T \ {x}) \cup {x} = T
  BY <1>4
<1> QED
  BY <1>3, <1>4, <1>5, <1>6

\* The same for numbers.
LEMMA CountedInduction ==
    ASSUME NEW P, 0 \in P, \A n \in Nat : n \in P => n + 1 \in P
    PROVE  \A n \in Nat : n \in P
<1> DEFINE Bad == {n \in Nat : n \notin P}
<1>1. SUFFICES ASSUME Bad # {} PROVE FALSE
  OBVIOUS
<1>2. PICK n \in Bad : \A m \in Bad : <<m, n>> \notin OpToRel(<, Nat)
  <2>1. Bad \subseteq Nat
    OBVIOUS
  <2> HIDE DEF Bad
  <2> QED
    BY <1>1, <2>1, NatLessThanWellFounded, WFMin
<1>3. n # 0 /\ n - 1 \in Nat /\ n - 1 < n
  OBVIOUS
<1>4. n - 1 \notin Bad
  BY <1>2, <1>3 DEF OpToRel
<1> QED
  BY <1>3, <1>4

\* The recursion behind a sum has a solution.
LEMMA TotalExists ==
    ASSUME NEW S, IsFiniteSet(S), NEW f, \A x \in S : f[x] \in Int
    PROVE  \E g \in [SUBSET S -> Int] : Adds(g, f, S)
<1> DEFINE Body(g, s) == IF s = {} THEN 0 ELSE f[First(s)] + g[s \ {First(s)}]
           Good(g, n) == \A s \in SUBSET S : Cardinality(s) <= n => g[s] = Body(g, s)
           P == {n \in Nat : \E g \in [SUBSET S -> Int] : Good(g, n)}
<1>1. ASSUME NEW s \in SUBSET S, s # {}
      PROVE  First(s) \in s /\ f[First(s)] \in Int /\ s \ {First(s)} \in SUBSET S
  <2>1. First(s) \in s
    BY <1>1 DEF First
  <2> QED
    BY <2>1
<1>2. ASSUME NEW s \in SUBSET S
      PROVE  IsFiniteSet(s) /\ Cardinality(s) \in Nat /\ (Cardinality(s) = 0 <=> s = {})
  BY FS_Subset, FS_CardinalityType, FS_EmptySet
<1>3. 0 \in P
  <2> DEFINE z == [s \in SUBSET S |-> 0]
  <2>1. z \in [SUBSET S -> Int]
    OBVIOUS
  <2>2. Good(z, 0)
    BY <1>2
  <2> QED
    BY <2>1, <2>2
<1>4. ASSUME NEW n \in Nat, n \in P PROVE n + 1 \in P
  <2>1. PICK g \in [SUBSET S -> Int] : Good(g, n)
    BY <1>4
  <2> DEFINE h == [s \in SUBSET S |-> Body(g, s)]
  <2>2. h \in [SUBSET S -> Int]
    BY <1>1
  <2>3. ASSUME NEW s \in SUBSET S, Cardinality(s) <= n + 1, s # {}
        PROVE  h[s \ {First(s)}] = g[s \ {First(s)}]
    <3>1. Cardinality(s \ {First(s)}) <= n
      BY <1>1, <1>2, <2>3, FS_RemoveElement
    <3> QED
      BY <1>1, <2>1, <2>3, <3>1
  <2>4. Good(h, n + 1)
    BY <2>3
  <2> HIDE DEF Good, h
  <2> QED
    BY <2>2, <2>4
<1>5. Cardinality(S) \in P
  <2> HIDE DEF P
  <2> QED
    BY <1>2, <1>3, <1>4, CountedInduction
<1>6. PICK g \in [SUBSET S -> Int] : Good(g, Cardinality(S))
  BY <1>5
<1>7. \A s \in SUBSET S : g[s] = Body(g, s)
  BY <1>6, FS_Subset
<1>8. g = [s \in SUBSET S |-> Body(g, s)]
  BY <1>7
<1> QED
  BY <1>8 DEF Adds

\* Two solutions agree wherever both are defined and the terms are the same.
LEMMA TotalUnique ==
    ASSUME NEW S, IsFiniteSet(S), NEW f, NEW g, NEW U, NEW h, NEW k, S \subseteq U,
           \A x \in S : f[x] = h[x], Adds(g, f, S), Adds(k, h, U)
    PROVE  \A s \in SUBSET S : g[s] = k[s]
<1> DEFINE P == {n \in Nat : \A s \in SUBSET S : Cardinality(s) <= n => g[s] = k[s]}
<1>1. ASSUME NEW s \in SUBSET S
      PROVE  IsFiniteSet(s) /\ Cardinality(s) \in Nat /\ (Cardinality(s) = 0 <=> s = {})
  BY FS_Subset, FS_CardinalityType, FS_EmptySet
<1>2. ASSUME NEW s \in SUBSET S
      PROVE  /\ s = {} => g[s] = 0 /\ k[s] = 0
             /\ s # {} => /\ First(s) \in s
                          /\ g[s] = f[First(s)] + g[s \ {First(s)}]
                          /\ k[s] = f[First(s)] + k[s \ {First(s)}]
  <2>1. s # {} => First(s) \in s
    BY DEF First
  <2>2. /\ g[s] = IF s = {} THEN 0 ELSE f[First(s)] + g[s \ {First(s)}]
        /\ k[s] = IF s = {} THEN 0 ELSE h[First(s)] + k[s \ {First(s)}]
    BY DEF Adds
  <2> QED
    BY <2>1, <2>2
<1>3. 0 \in P
  <2> SUFFICES ASSUME NEW s \in SUBSET S, Cardinality(s) <= 0 PROVE g[s] = k[s]
    OBVIOUS
  <2>1. s = {}
    BY <1>1
  <2> QED
    BY <1>2, <2>1
<1>4. ASSUME NEW n \in Nat, n \in P PROVE n + 1 \in P
  <2> SUFFICES ASSUME NEW s \in SUBSET S, Cardinality(s) <= n + 1
               PROVE  g[s] = k[s]
    OBVIOUS
  <2> SUFFICES ASSUME s # {} PROVE g[s] = k[s]
    BY <1>2
  <2>1. Cardinality(s \ {First(s)}) <= n
    <3>1. First(s) \in s
      BY <1>2
    <3> QED
      BY <1>1, <3>1, FS_RemoveElement
  <2>2. g[s \ {First(s)}] = k[s \ {First(s)}]
    BY <1>4, <2>1
  <2> QED
    BY <1>2, <2>2
<1>5. \A n \in Nat : n \in P
  <2> HIDE DEF P
  <2> QED
    BY <1>3, <1>4, CountedInduction
<1> QED
  BY <1>1, <1>5

\* What a sum is, and how it is taken apart in the order of its recursion.
LEMMA TotalIs ==
    ASSUME NEW S, IsFiniteSet(S), NEW f, \A x \in S : f[x] \in Int
    PROVE  \E g : Adds(g, f, S) /\ \A T \in SUBSET S : Total(f, T) = g[T] /\ g[T] \in Int
<1> DEFINE F(T) == CHOOSE g : Adds(g, f, T)
<1>1. \A T : Total(f, T) = F(T)[T]
  BY DEF Total, MapThenSumSet, MapThenFoldSet, Adds, First
<1>2. ASSUME NEW T \in SUBSET S
      PROVE  Adds(F(T), f, T)
  <2>1. \E g : Adds(g, f, T)
    BY TotalExists, FS_Subset
  <2> QED
    BY <2>1, Zenon
<1>3. PICK g \in [SUBSET S -> Int] : Adds(g, f, S)
  BY TotalExists
<1>4. ASSUME NEW T \in SUBSET S
      PROVE  F(T)[T] = g[T]
  <2> HIDE DEF F
  <2>1. IsFiniteSet(T)
    BY FS_Subset
  <2>2. \A s \in SUBSET T : F(T)[s] = g[s]
    BY <1>2, <1>3, <2>1, TotalUnique
  <2> QED
    BY <2>2
<1> HIDE DEF F
<1> QED
  BY <1>1, <1>3, <1>4

\* A sum of integers is one, and that over the empty set is 0.
LEMMA TotalType ==
    ASSUME NEW S, IsFiniteSet(S), NEW f, \A x \in S : f[x] \in Int
    PROVE  Total(f, S) \in Int /\ Total(f, {}) = 0
<1>1. PICK g : Adds(g, f, S) /\ \A T \in SUBSET S : Total(f, T) = g[T] /\ g[T] \in Int
  BY TotalIs
<1>2. g[{}] = 0
  BY <1>1 DEF Adds
<1> QED
  BY <1>1, <1>2

\* Any term may be taken out of a sum.
LEMMA TotalWithout ==
    ASSUME NEW S, IsFiniteSet(S), NEW f, \A x \in S : f[x] \in Int, NEW x \in S
    PROVE  Total(f, S) = f[x] + Total(f, S \ {x})
<1>1. PICK g : Adds(g, f, S) /\ \A T \in SUBSET S : Total(f, T) = g[T] /\ g[T] \in Int
  BY TotalIs
<1> DEFINE P == {n \in Nat : \A T \in SUBSET S : \A y \in T :
                               Cardinality(T) <= n => g[T] = f[y] + g[T \ {y}]}
<1>2. ASSUME NEW T \in SUBSET S
      PROVE  IsFiniteSet(T) /\ Cardinality(T) \in Nat /\ (Cardinality(T) = 0 <=> T = {})
  BY FS_Subset, FS_CardinalityType, FS_EmptySet
<1>7. ASSUME NEW T \in SUBSET S, T # {}
      PROVE  First(T) \in T /\ g[T] = f[First(T)] + g[T \ {First(T)}]
  <2>1. First(T) \in T
    BY <1>7 DEF First
  <2>2. g[T] = IF T = {} THEN 0 ELSE f[First(T)] + g[T \ {First(T)}]
    BY <1>1 DEF Adds
  <2> QED
    BY <1>7, <2>1, <2>2
<1>3. 0 \in P
  <2> SUFFICES ASSUME NEW T \in SUBSET S, NEW y \in T, Cardinality(T) <= 0
               PROVE  g[T] = f[y] + g[T \ {y}]
    OBVIOUS
  <2>1. Cardinality(T) = 0
    BY <1>2
  <2> QED
    BY <1>2, <2>1
<1>4. ASSUME NEW n \in Nat, n \in P PROVE n + 1 \in P
  <2> SUFFICES ASSUME NEW T \in SUBSET S, NEW y \in T, Cardinality(T) <= n + 1
               PROVE  g[T] = f[y] + g[T \ {y}]
    OBVIOUS
  <2> DEFINE c == First(T)
  <2>1. c \in T /\ g[T] = f[c] + g[T \ {c}]
    BY <1>7
  <2> HIDE DEF c
  <2>2. CASE c = y
    BY <2>1, <2>2
  <2>3. CASE c # y
    <3>1. \A z \in T : T \ {z} \in SUBSET S /\ Cardinality(T \ {z}) <= n
      <4> TAKE z \in T
      <4>1. IsFiniteSet(T) /\ Cardinality(T) \in Nat
        BY <1>2
      <4>2. Cardinality(T \ {z}) = Cardinality(T) - 1
        BY <4>1, FS_RemoveElement
      <4> QED
        BY <4>1, <4>2
    <3>2. y \in T \ {c} /\ c \in T \ {y}
      BY <2>1, <2>3
    <3>3. g[T \ {c}] = f[y] + g[(T \ {c}) \ {y}]
      BY <1>4, <2>1, <3>1, <3>2
    <3>4. g[T \ {y}] = f[c] + g[(T \ {y}) \ {c}]
      BY <1>4, <3>1, <3>2
    <3>5. (T \ {c}) \ {y} = (T \ {y}) \ {c}
      OBVIOUS
    <3>6. f[y] \in Int /\ f[c] \in Int /\ g[(T \ {y}) \ {c}] \in Int
      <4>1. (T \ {y}) \ {c} \in SUBSET S
        OBVIOUS
      <4> QED
        BY <1>1, <2>1, <4>1
    <3>7. g[T \ {c}] = f[y] + g[(T \ {y}) \ {c}]
      BY <3>3, <3>5
    <3> HIDE DEF P
    <3> QED
      BY <2>1, <3>4, <3>6, <3>7
  <2> QED
    BY <2>2, <2>3
<1>5. \A n \in Nat : n \in P
  <2> HIDE DEF P
  <2> QED
    BY <1>3, <1>4, CountedInduction
<1>6. g[S] = f[x] + g[S \ {x}]
  <2>1. Cardinality(S) \in P /\ Cardinality(S) <= Cardinality(S)
    BY <1>2, <1>5
  <2> QED
    BY <2>1
<1> QED
  BY <1>1, <1>6

\* Equal terms make equal sums.
LEMMA TotalSame ==
    ASSUME NEW S, IsFiniteSet(S), NEW f, NEW h, \A x \in S : f[x] \in Int /\ h[x] = f[x]
    PROVE  Total(h, S) = Total(f, S)
<1>1. PICK g : Adds(g, f, S) /\ \A T \in SUBSET S : Total(f, T) = g[T] /\ g[T] \in Int
  BY TotalIs
<1>2. PICK k : Adds(k, h, S) /\ \A T \in SUBSET S : Total(h, T) = k[T] /\ k[T] \in Int
  BY TotalIs
<1> QED
  BY <1>1, <1>2, TotalUnique

\* A sum moves with the one term that changes.
LEMMA TotalMoves ==
    ASSUME NEW S, IsFiniteSet(S), NEW f, NEW h, NEW x \in S,
           \A y \in S : f[y] \in Int /\ h[y] \in Int,
           \A y \in S \ {x} : h[y] = f[y]
    PROVE  Total(h, S) = Total(f, S) + h[x] - f[x]
<1>1. Total(h, S) = h[x] + Total(h, S \ {x}) /\ Total(f, S) = f[x] + Total(f, S \ {x})
  BY TotalWithout
<1>2. IsFiniteSet(S \ {x})
  BY FS_RemoveElement
<1>3. Total(h, S \ {x}) = Total(f, S \ {x}) /\ Total(f, S \ {x}) \in Int
  BY <1>2, TotalSame, TotalType
<1>4. f[x] \in Int /\ h[x] \in Int
  OBVIOUS
<1> QED
  BY <1>1, <1>3, <1>4

\* Terms that are 0 need not be summed.
LEMMA TotalOfRest ==
    ASSUME NEW S, IsFiniteSet(S), NEW f, \A x \in S : f[x] \in Int,
           NEW T \in SUBSET S, \A x \in S \ T : f[x] = 0
    PROVE  Total(f, S) = Total(f, T)
<1> DEFINE P == {U \in SUBSET (S \ T) : Total(f, T \cup U) = Total(f, T)}
<1>1. {} \in P
  OBVIOUS
<1>2. ASSUME NEW U \in SUBSET (S \ T), NEW x \in (S \ T) \ U, U \in P
      PROVE  U \cup {x} \in P
  <2> DEFINE V == T \cup (U \cup {x})
  <2>1. V \in SUBSET S /\ x \in V /\ V \ {x} = T \cup U
    OBVIOUS
  <2>2. IsFiniteSet(V)
    BY <2>1, FS_Subset
  <2> HIDE DEF V
  <2>3. Total(f, V) = f[x] + Total(f, V \ {x})
    BY <2>1, <2>2, TotalWithout
  <2>4. f[x] = 0 /\ Total(f, T \cup U) \in Int
    <3>1. IsFiniteSet(T \cup U) /\ \A y \in T \cup U : f[y] \in Int
      BY FS_Subset, <2>1
    <3> QED
      BY <3>1, TotalType
  <2>5. Total(f, T \cup U) = Total(f, T)
    BY <1>2
  <2>6. Total(f, V \ {x}) = Total(f, T \cup U)
    BY <2>1
  <2>7. Total(f, V) = Total(f, T)
    <3> HIDE DEF P
    <3> QED
      BY <2>3, <2>4, <2>5, <2>6
  <2> QED
    BY <2>7 DEF V
<1>3. S \ T \in P
  <2>1. IsFiniteSet(S \ T)
    BY FS_Difference
  <2> HIDE DEF P
  <2> QED
    BY <1>1, <1>2, <2>1, FiniteInduction
<1>4. T \cup (S \ T) = S
  OBVIOUS
<1> QED
  BY <1>3, <1>4

\* A sum of zeros is 0.
LEMMA TotalOfZeros ==
    ASSUME NEW S, IsFiniteSet(S), NEW f, \A x \in S : f[x] = 0
    PROVE  Total(f, S) = 0
<1>1. {} \in SUBSET S /\ \A x \in S : f[x] \in Int
  OBVIOUS
<1>2. Total(f, S) = Total(f, {}) /\ Total(f, {}) = 0
  BY <1>1, TotalOfRest, TotalType
<1> QED
  BY <1>2

\* A finite set of naturals has a largest element.
LEMMA LargestIs ==
    ASSUME NEW S \in SUBSET Nat, IsFiniteSet(S), S # {}
    PROVE  Max(S) \in S /\ \A x \in S : x <= Max(S)
<1> DEFINE P == {T \in SUBSET S : T # {} => \E x \in T : \A y \in T : x >= y}
<1>1. ASSUME NEW T \in SUBSET S, NEW x \in S \ T, T \in P
      PROVE  T \cup {x} \in P
  <2>1. CASE T = {}
    BY <2>1
  <2>2. CASE T # {}
    <3>1. PICK m \in T : \A y \in T : m >= y
      BY <1>1, <2>2
    <3>2. CASE m >= x
      BY <3>1, <3>2
    <3>3. CASE x >= m
      BY <3>1, <3>3
    <3> QED
      BY <3>2, <3>3
  <2> QED
    BY <2>1, <2>2
<1>2. {} \in P
  OBVIOUS
<1>3. S \in P
  <2> HIDE DEF P
  <2> QED
    BY <1>1, <1>2, FiniteInduction
<1>4. \E x \in S : \A y \in S : x >= y
  BY <1>3
<1>5. Max(S) \in S /\ \A y \in S : Max(S) >= y
  <2> SUFFICES \E x : x \in S /\ \A y \in S : x >= y
    BY Zenon DEF Max
  <2> QED
    BY <1>4
<1> QED
  BY <1>5
-----------------------------------------------------------------------------
USE LedgerAssumption

\* The part of TypeOK about the database and the batch stores.
LedgerType ==
    /\ balance \in [Accounts -> Int]
    /\ store \in [Accounts -> Int]
    /\ taken \in [Accounts -> Int]
    /\ lost \in [Accounts -> Int]
    /\ turn \in 1..3
    /\ faults \in 0..MaxFaults

\* An attempt bills an account of its user and of its token.
LEMMA AccountsOfAttempt ==
    ASSUME NEW a \in Attempts
    PROVE  /\ a[1] \in Requests
           /\ a[2] \in 0..RetryTimes
           /\ a = <<a[1], a[2]>>
           /\ TokenOf[a[1]] \in Tokens
           /\ UserOf(a) \in Users
           /\ UserQuota(UserOf(a)) \in Accounts
           /\ UsedQuota(UserOf(a)) \in Accounts
           /\ TokenQuota(TokenOf[a[1]]) \in Accounts
BY DEF Attempts, UserOf, Accounts

\* The initial state has the declared types.
LEMMA InitType == Init => TypeOK
<1>1. ASSUME NEW x \in Accounts
      PROVE  (IF x[1] = "UserQuota" THEN UserQuota0[x[2]]
              ELSE IF x[1] = "TokenQuota" THEN TokenQuota0[x[2]] ELSE 0) \in Int
  <2>1. CASE \E u \in Users : x = UserQuota(u)
    BY <2>1 DEF UserQuota
  <2>2. CASE \E t \in Tokens : x = TokenQuota(t)
    BY <2>2 DEF TokenQuota
  <2>3. CASE \E u \in Users : x = UsedQuota(u)
    BY <2>3 DEF UsedQuota
  <2> QED
    BY <2>1, <2>2, <2>3 DEF Accounts
<1> QED
  BY <1>1 DEF Init, TypeOK, Stages

\* What a statement may do keeps the database typed.
LEMMA ApplyKeepsType ==
    ASSUME LedgerType, NEW x \in Accounts, NEW d \in Int, Apply(x, d)
    PROVE  LedgerType'
BY DEF LedgerType, Apply

\* A step that writes no quota keeps the types.
LEMMA NoWriteKeepsType ==
    ASSUME LedgerType, NoWrite \/ SqlFails \/ WriteFails
    PROVE  LedgerType'
BY DEF LedgerType, NoWrite, SqlFails, WriteFails, ledger

\* Moving an attempt, and starting the next one, keeps pc typed.
LEMMA GotoKeepsType ==
    ASSUME pc \in [Attempts -> Stages], NEW a \in Attempts, NEW s \in Stages,
           \/ Goto(a, s)
           \/ \E local \in BOOLEAN : ReturnError(a, s, local)
    PROVE  pc' \in [Attempts -> Stages]
BY DEF Goto, ReturnError, Stages

\* Turning a request away keeps the types.
LEMMA RejectKeepsType ==
    ASSUME pc \in [Attempts -> Stages], NEW a \in Attempts, Reject(a)
    PROVE  pc' \in [Attempts -> Stages]
BY DEF Reject, Goto, ReturnError, Stages

\* Every step of an attempt keeps the type invariant.
LEMMA StepKeepsType ==
    ASSUME TypeOK, NEW a \in Attempts, Step(a)
    PROVE  TypeOK'
<1> USE AccountsOfAttempt
<1>0. LedgerType /\ pc \in [Attempts -> Stages]
  BY DEF TypeOK, LedgerType
<1>1. SUFFICES /\ LedgerType' /\ pc' \in [Attempts -> Stages]
               /\ status' \in [Tokens -> {"enabled", "exhausted"}]
               /\ tokenSeen' \in [Requests -> Int]
               /\ pre' \in [Attempts -> Nat] /\ price' \in [Attempts -> Nat]
  BY DEF TypeOK, LedgerType
<1>2. pre[a] \in Nat /\ price[a] \in Nat
  BY DEF TypeOK
<1>3. CASE TokenAuth(a)
  <2>1. LedgerType'
    BY <1>0, <1>3, NoWriteKeepsType DEF TokenAuth
  <2>2. pc' \in [Attempts -> Stages]
    BY <1>0, <1>3 DEF TokenAuth, Goto, Stages
  <2>3. balance[TokenQuota(TokenOf[a[1]])] \in Int
    BY DEF TypeOK
  <2> QED
    BY <1>3, <2>1, <2>2, <2>3 DEF TokenAuth, TypeOK
<1>4. CASE MarkExhausted(a)
  <2>1. LedgerType'
    BY <1>0, <1>4, NoWriteKeepsType DEF MarkExhausted
  <2> QED
    BY <1>0, <1>4, <2>1 DEF MarkExhausted, TypeOK, Goto, Stages
<1>5. CASE CheckUserQuota(a)
  <2>1. LedgerType'
    BY <1>0, <1>5, NoWriteKeepsType DEF CheckUserQuota
  <2>2. pc' \in [Attempts -> Stages]
    BY <1>0, <1>5, RejectKeepsType DEF CheckUserQuota, Goto, Stages
  <2>3. pre' \in [Attempts -> Nat]
    BY <1>5 DEF CheckUserQuota, TypeOK
  <2> QED
    BY <1>5, <2>1, <2>2, <2>3 DEF CheckUserQuota, TypeOK
<1>6. CASE CheckTokenQuota(a)
  <2>1. LedgerType'
    BY <1>0, <1>6, NoWriteKeepsType DEF CheckTokenQuota
  <2>2. pc' \in [Attempts -> Stages]
    BY <1>0, <1>6, RejectKeepsType DEF CheckTokenQuota, Goto, Stages
  <2> QED
    BY <1>6, <2>1, <2>2 DEF CheckTokenQuota, TypeOK
<1>7. CASE DecreaseToken(a) \/ DecreaseUser(a)
  <2>1. LedgerType'
    BY <1>0, <1>2, <1>7, ApplyKeepsType, NoWriteKeepsType DEF DecreaseToken, DecreaseUser
  <2>2. pc' \in [Attempts -> Stages]
    BY <1>0, <1>7, RejectKeepsType DEF DecreaseToken, DecreaseUser, Goto, Stages
  <2> QED
    BY <1>7, <2>1, <2>2 DEF DecreaseToken, DecreaseUser, TypeOK
<1>8. CASE UpstreamAnswers(a)
  <2>1. LedgerType'
    BY <1>0, <1>8, NoWriteKeepsType DEF UpstreamAnswers
  <2> QED
    BY <1>8, <2>1 DEF UpstreamAnswers, TypeOK, Goto, Stages
<1>9. CASE UpstreamError(a) \/ ClaudeLocalError(a)
  <2>1. LedgerType'
    BY <1>0, <1>9, NoWriteKeepsType DEF UpstreamError, ClaudeLocalError
  <2>2. pc' \in [Attempts -> Stages]
    BY <1>0, <1>9, GotoKeepsType DEF UpstreamError, ClaudeLocalError, Stages
  <2> QED
    BY <1>9, <2>1, <2>2 DEF UpstreamError, ClaudeLocalError, TypeOK
<1>10. CASE UpdateUsedQuota(a) \/ SettleUser(a) \/ SettleToken(a)
  <2>1. LedgerType'
    BY <1>0, <1>2, <1>10, ApplyKeepsType, NoWriteKeepsType
       DEF UpdateUsedQuota, SettleUser, SettleToken
  <2>2. pc' \in [Attempts -> Stages]
    BY <1>0, <1>10 DEF UpdateUsedQuota, SettleUser, SettleToken, Goto, Stages
  <2> QED
    BY <1>10, <2>1, <2>2 DEF UpdateUsedQuota, SettleUser, SettleToken, TypeOK
<1>11. CASE RefundUser(a) \/ RefundToken(a)
  <2>1. LedgerType'
    BY <1>0, <1>2, <1>11, ApplyKeepsType, NoWriteKeepsType DEF RefundUser, RefundToken
  <2>2. pc' \in [Attempts -> Stages]
    BY <1>0, <1>11 DEF RefundUser, RefundToken, Goto, Stages
  <2> QED
    BY <1>11, <2>1, <2>2 DEF RefundUser, RefundToken, TypeOK
<1> QED
  BY <1>3, <1>4, <1>5, <1>6, <1>7, <1>8, <1>9, <1>10, <1>11 DEF Step

\* Every step of the batch updater keeps it too.
LEMMA UpdaterKeepsType ==
    ASSUME TypeOK, Updater
    PROVE  TypeOK'
<1>1. CASE TakeStore
  BY <1>1 DEF TakeStore, TypeOK
<1>2. CASE \E x \in Accounts : ApplyTaken(x)
  BY <1>2 DEF ApplyTaken, TypeOK
<1> QED
  BY <1>1, <1>2 DEF Updater

\* Types hold whatever the instance: quotas stay integers, reservations and
\* prices natural numbers, and no more statements fail than the bound allows.
THEOREM TypeCorrect == Spec => []TypeOK
<1>1. Init => TypeOK
  BY InitType
<1>2. TypeOK /\ [Next]_vars => TypeOK'
  <2> SUFFICES ASSUME TypeOK, [Next]_vars PROVE TypeOK'
    OBVIOUS
  <2>1. CASE \E a \in Attempts : Step(a)
    BY <2>1, StepKeepsType
  <2>2. CASE Updater
    BY <2>2, UpdaterKeepsType
  <2>3. CASE UNCHANGED vars
    BY <2>3 DEF vars, TypeOK
  <2> QED
    BY <2>1, <2>2, <2>3 DEF Next
<1> QED
  BY <1>1, <1>2, PTL DEF Spec
-----------------------------------------------------------------------------
Over == {"refundUser", "refundToken", "failed"}

\* How an attempt may move without making ServedOnce false: it goes on to any
\* stage while it has not failed, it fails and lets the next one begin, or it
\* goes on failing.
LEMMA MovesServedOnce ==
    ASSUME TypeOK, ServedOnce, NEW a \in Attempts, pc[a] # "idle", NEW s \in Stages,
           \/ pc[a] \notin Over /\ Goto(a, s)
           \/ pc[a] \notin Over /\ s \in Over /\ \E local \in BOOLEAN : ReturnError(a, s, local)
           \/ pc[a] \in Over /\ s \in Over /\ Goto(a, s)
    PROVE  ServedOnce'
<1> SUFFICES ASSUME NEW r \in Requests, NEW i \in 0..RetryTimes, NEW j \in 0..RetryTimes,
                    i < j, pc'[<<r, j>>] # "idle"
             PROVE  pc'[<<r, i>>] \in Over
  BY DEF ServedOnce, Over
<1>1. /\ a[1] \in Requests /\ a[2] \in 0..RetryTimes /\ a = <<a[1], a[2]>>
      /\ <<r, i>> \in Attempts /\ <<r, j>> \in Attempts /\ <<r, i>> # <<r, j>>
  BY DEF Attempts
<1>2. pc \in [Attempts -> Stages]
  BY DEF TypeOK
<1>3. \A k, l \in 0..RetryTimes : k < l /\ pc[<<r, l>>] # "idle" => pc[<<r, k>>] \in Over
  BY DEF ServedOnce, Over
<1>4. CASE Goto(a, s) /\ (pc[a] \notin Over \/ s \in Over)
  <2>1. pc[<<r, j>>] # "idle"
    BY <1>1, <1>2, <1>4 DEF Goto
  <2>2. pc[<<r, i>>] \in Over
    BY <1>3, <2>1
  <2> QED
    BY <1>1, <1>2, <1>4, <2>2 DEF Goto
<1>5. CASE /\ pc[a] \notin Over /\ s \in Over /\ a[2] < RetryTimes
           /\ pc' = [pc EXCEPT ![a] = s, ![<<a[1], a[2] + 1>>] = "check"]
  <2>1. <<a[1], a[2] + 1>> \in Attempts /\ <<a[1], a[2] + 1>> # a
    BY <1>1, <1>5 DEF Attempts
  <2>2. pc'[a] \in Over
    BY <1>2, <1>5, <2>1
  <2>3. CASE <<r, j>> = <<a[1], a[2] + 1>>
    <3>1. CASE <<r, i>> = a
      BY <2>2, <3>1
    <3>2. CASE <<r, i>> # a
      <4>1. r = a[1] /\ j = a[2] + 1 /\ i < a[2]
        BY <1>1, <2>3, <3>2
      <4>2. pc[<<r, i>>] \in Over
        BY <1>1, <1>3, <4>1
      <4>3. <<r, i>> # <<a[1], a[2] + 1>>
        BY <2>3, <1>1
      <4> QED
        BY <1>1, <1>2, <1>5, <3>2, <4>2, <4>3
    <3> QED
      BY <3>1, <3>2
  <2>4. CASE <<r, j>> # <<a[1], a[2] + 1>>
    <3>1. pc[<<r, j>>] # "idle"
      BY <1>1, <1>2, <1>5, <2>4
    <3>2. pc[<<r, i>>] \in Over
      BY <1>3, <3>1
    <3>3. <<r, i>> # a
      BY <3>2, <1>5
    <3>4. CASE <<r, i>> = <<a[1], a[2] + 1>>
      <4>1. r = a[1] /\ a[2] < i
        BY <1>1, <3>4
      <4>2. pc[<<r, a[2]>>] \in Over
        BY <1>1, <1>3, <1>2, <3>2, <4>1 DEF Over
      <4> QED
        BY <1>1, <1>5, <4>1, <4>2
    <3> QED
      BY <1>1, <1>2, <1>5, <3>2, <3>3, <3>4
  <2> QED
    BY <2>3, <2>4
<1> QED
  BY <1>4, <1>5 DEF ReturnError

\* An error of preConsumeQuota is such a move.
LEMMA RejectServedOnce ==
    ASSUME TypeOK, ServedOnce, NEW a \in Attempts, pc[a] \notin Over \cup {"idle"}, Reject(a)
    PROVE  ServedOnce'
<1>1. "failed" \in Over /\ "failed" \in Stages
  BY DEF Over, Stages
<1>2. \E local \in BOOLEAN : ReturnError(a, "failed", local)
  BY DEF Reject
<1> QED
  BY <1>1, <1>2, MovesServedOnce

\* Every step of an attempt is such a move.
LEMMA StepServedOnce ==
    ASSUME TypeOK, ServedOnce, NEW a \in Attempts, Step(a)
    PROVE  ServedOnce'
<1>1. \A s \in Stages : pc[a] \notin Over \cup {"idle"} /\ Goto(a, s) => ServedOnce'
  BY MovesServedOnce
<1>2. \A s \in Over : \A local \in BOOLEAN :
          pc[a] \notin Over \cup {"idle"} /\ ReturnError(a, s, local) => ServedOnce'
  BY MovesServedOnce DEF Over, Stages
<1>3. CASE TokenAuth(a) \/ MarkExhausted(a)
  BY <1>1, <1>3 DEF TokenAuth, MarkExhausted, Over, Stages
<1>4. CASE CheckUserQuota(a) \/ CheckTokenQuota(a)
  <2>1. pc[a] \notin Over \cup {"idle"}
    BY <1>4 DEF CheckUserQuota, CheckTokenQuota, Over
  <2> QED
    BY <1>1, <1>4, <2>1, RejectServedOnce DEF CheckUserQuota, CheckTokenQuota, Stages
<1>5. CASE DecreaseToken(a) \/ DecreaseUser(a)
  <2>1. pc[a] \notin Over \cup {"idle"}
    BY <1>5 DEF DecreaseToken, DecreaseUser, Over
  <2> QED
    BY <1>1, <1>5, <2>1, RejectServedOnce DEF DecreaseToken, DecreaseUser, Stages
<1>6. CASE UpstreamAnswers(a)
  BY <1>1, <1>6 DEF UpstreamAnswers, Over, Stages
<1>7. CASE UpstreamError(a) \/ ClaudeLocalError(a)
  BY <1>2, <1>7 DEF UpstreamError, ClaudeLocalError, Over
<1>8. CASE UpdateUsedQuota(a) \/ SettleUser(a) \/ SettleToken(a)
  BY <1>1, <1>8 DEF UpdateUsedQuota, SettleUser, SettleToken, Over, Stages
<1>9. CASE RefundUser(a) \/ RefundToken(a)
  <2>1. pc[a] \in Over /\ pc[a] # "idle"
    BY <1>9 DEF RefundUser, RefundToken, Over
  <2>2. \E s \in Over : Goto(a, s)
    BY <1>9 DEF RefundUser, RefundToken, Over
  <2> QED
    BY <2>1, <2>2, MovesServedOnce DEF Over, Stages
<1> QED
  BY <1>3, <1>4, <1>5, <1>6, <1>7, <1>8, <1>9 DEF Step

\* A request is billed once, however many attempts it takes and whatever the
\* others do: the retry loop of Relay begins an attempt only when all the
\* earlier ones have failed, and none of them can still be charged.
THEOREM RequestServedOnce == Spec => []ServedOnce
<1>1. Init => ServedOnce
  <2> SUFFICES ASSUME Init, NEW r \in Requests, NEW i \in 0..RetryTimes,
                      NEW j \in 0..RetryTimes, i < j
               PROVE  pc[<<r, j>>] = "idle"
    BY DEF ServedOnce
  <2>1. <<r, j>> \in Attempts /\ j # 0
    BY DEF Attempts
  <2> QED
    BY <2>1 DEF Init
<1>2. TypeOK /\ ServedOnce /\ [Next]_vars => ServedOnce'
  <2> SUFFICES ASSUME TypeOK, ServedOnce, [Next]_vars PROVE ServedOnce'
    OBVIOUS
  <2>1. CASE \E a \in Attempts : Step(a)
    BY <2>1, StepServedOnce
  <2>2. CASE Updater \/ UNCHANGED vars
    BY <2>2 DEF Updater, TakeStore, ApplyTaken, vars, ServedOnce
  <2> QED
    BY <2>1, <2>2 DEF Next
<1> QED
  BY <1>1, <1>2, TypeCorrect, PTL DEF Spec
-----------------------------------------------------------------------------
(***************************************************************************)
(* What a step does to the funds of its user and token.                    *)
(***************************************************************************)
\* How the funds move with one attempt: its user's, his usage, and its token's.
FundsMove(a, user, used, token) ==
    /\ \A v \in Users :
          /\ Funds(UserQuota(v))' = Funds(UserQuota(v)) + (IF v = UserOf(a) THEN user ELSE 0)
          /\ Funds(UsedQuota(v))' = Funds(UsedQuota(v)) + (IF v = UserOf(a) THEN used ELSE 0)
    /\ \A t \in Tokens :
          Funds(TokenQuota(t))' =
              Funds(TokenQuota(t)) + (IF t = TokenOf[a[1]] THEN token ELSE 0)

\* The funds of every account are an integer.
LEMMA FundsType ==
    ASSUME TypeOK
    PROVE  \A y \in Accounts : Funds(y) \in Int
BY DEF TypeOK, Funds

\* Every row is an account.
LEMMA RowsAre ==
    /\ \A u \in Users : UserQuota(u) \in Accounts /\ UsedQuota(u) \in Accounts
    /\ \A t \in Tokens : TokenQuota(t) \in Accounts
BY DEF Accounts

\* A statement moves the funds of its own row only, batched or not.
LEMMA FundsAfterApply ==
    ASSUME TypeOK, NEW x \in Accounts, NEW d \in Int, Apply(x, d), NEW y \in Accounts
    PROVE  Funds(y)' = Funds(y) + (IF x = y THEN d ELSE 0)
<1>1. /\ balance \in [Accounts -> Int] /\ store \in [Accounts -> Int]
      /\ taken \in [Accounts -> Int] /\ lost \in [Accounts -> Int]
  BY DEF TypeOK
<1> QED
  BY <1>1 DEF Apply, Funds

\* The statements of an attempt, and those that write nothing.
LEMMA ApplyMoves ==
    ASSUME TypeOK, NEW a \in Attempts, NEW d \in Int
    PROVE  /\ Apply(UserQuota(UserOf(a)), d) => FundsMove(a, d, 0, 0)
           /\ Apply(UsedQuota(UserOf(a)), d) => FundsMove(a, 0, d, 0)
           /\ Apply(TokenQuota(TokenOf[a[1]]), d) => FundsMove(a, 0, 0, d)
           /\ NoWrite \/ SqlFails => FundsMove(a, 0, 0, 0)
<1>1. \A u, v \in Users : \A s, t \in Tokens :
         /\ UserQuota(u) = UserQuota(v) <=> u = v
         /\ UsedQuota(u) = UsedQuota(v) <=> u = v
         /\ TokenQuota(s) = TokenQuota(t) <=> s = t
         /\ UserQuota(u) # UsedQuota(v) /\ UserQuota(u) # TokenQuota(t)
         /\ UsedQuota(u) # TokenQuota(t)
  BY DEF UserQuota, UsedQuota, TokenQuota
<1>2. UserOf(a) \in Users /\ TokenOf[a[1]] \in Tokens
  BY AccountsOfAttempt
<1>3. ASSUME NEW x \in Accounts, Apply(x, d)
      PROVE  \A y \in Accounts : Funds(y)' = Funds(y) + (IF x = y THEN d ELSE 0)
  BY <1>3, FundsAfterApply
<1>4. \A y \in Accounts : Funds(y) \in Int
  BY FundsType
<1>5. Apply(UserQuota(UserOf(a)), d) => FundsMove(a, d, 0, 0)
  BY <1>1, <1>2, <1>3, <1>4, RowsAre DEF FundsMove
<1>6. Apply(UsedQuota(UserOf(a)), d) => FundsMove(a, 0, d, 0)
  BY <1>1, <1>2, <1>3, <1>4, RowsAre DEF FundsMove
<1>7. Apply(TokenQuota(TokenOf[a[1]]), d) => FundsMove(a, 0, 0, d)
  BY <1>1, <1>2, <1>3, <1>4, RowsAre DEF FundsMove
<1>8. NoWrite \/ SqlFails => FundsMove(a, 0, 0, 0)
  <2> SUFFICES ASSUME NoWrite \/ SqlFails PROVE FundsMove(a, 0, 0, 0)
    OBVIOUS
  <2>1. \A y \in Accounts : Funds(y)' = Funds(y)
    BY DEF NoWrite, SqlFails, ledger, Funds
  <2> QED
    BY <1>4, <2>1, RowsAre DEF FundsMove
<1> QED
  BY <1>5, <1>6, <1>7, <1>8

\* A step of an attempt leaves what the others hold alone; it may only start
\* the one that comes after it, which has been idle.
LEMMA OthersStand ==
    ASSUME TypeOK, ServedOnce, NEW a \in Attempts, Step(a), NEW b \in Attempts \ {a}
    PROVE  /\ pre'[b] = pre[b] /\ price'[b] = price[b]
           /\ pc'[b] = pc[b] \/ (pc[b] = "idle" /\ pc'[b] = "check")
<1> USE AccountsOfAttempt
<1>1. pc \in [Attempts -> Stages] /\ pre \in [Attempts -> Nat] /\ price \in [Attempts -> Nat]
  BY DEF TypeOK
<1>2. pre'[b] = pre[b]
  BY <1>1 DEF Step, TokenAuth, MarkExhausted, CheckUserQuota, CheckTokenQuota, DecreaseToken,
      DecreaseUser, UpstreamAnswers, UpstreamError, ClaudeLocalError, UpdateUsedQuota,
      SettleUser, SettleToken, RefundUser, RefundToken
<1>3. price'[b] = price[b]
  BY <1>1 DEF Step, TokenAuth, MarkExhausted, CheckUserQuota, CheckTokenQuota, DecreaseToken,
      DecreaseUser, UpstreamAnswers, UpstreamError, ClaudeLocalError, UpdateUsedQuota,
      SettleUser, SettleToken, RefundUser, RefundToken
<1>4. \/ pc'[b] = pc[b]
      \/ /\ pc[a] \in {"check", "tokenRead", "tokenDec", "userDec", "upstream"}
         /\ b = <<a[1], a[2] + 1>> /\ a[2] < RetryTimes
         /\ pc'[b] = "check"
  BY <1>1 DEF Step, TokenAuth, MarkExhausted, CheckUserQuota, CheckTokenQuota, DecreaseToken,
      DecreaseUser, UpstreamAnswers, UpstreamError, ClaudeLocalError, UpdateUsedQuota,
      SettleUser, SettleToken, RefundUser, RefundToken, Goto, Reject, ReturnError
<1>5. ASSUME pc[a] \in {"check", "tokenRead", "tokenDec", "userDec", "upstream"},
             b = <<a[1], a[2] + 1>>, a[2] < RetryTimes
      PROVE  pc[b] = "idle"
  <2>1. pc[<<a[1], a[2]>>] \notin {"refundUser", "refundToken", "failed"}
    BY <1>5
  <2>2. a[2] + 1 \in 0..RetryTimes /\ a[2] < a[2] + 1
    BY <1>5
  <2> QED
    BY <1>5, <2>1, <2>2 DEF ServedOnce
<1> QED
  BY <1>2, <1>3, <1>4, <1>5
\* The batch updater moves quota without changing whose it is; an update that
\* fails keeps what it dropped in view, and widens the bound.
LEMMA UpdaterKeepsFunds ==
    ASSUME TypeOK, Updater
    PROVE  /\ \A y \in Accounts : Funds(y)' = Funds(y)
           /\ faults' = faults \/ faults' = faults + 1
           /\ UNCHANGED <<pc, pre, price>>
<1>1. /\ balance \in [Accounts -> Int] /\ store \in [Accounts -> Int]
      /\ taken \in [Accounts -> Int] /\ lost \in [Accounts -> Int]
  BY DEF TypeOK
<1>2. CASE TakeStore
  BY <1>1, <1>2 DEF TakeStore, Funds
<1>3. CASE \E x \in Accounts : ApplyTaken(x)
  BY <1>1, <1>3 DEF ApplyTaken, Funds
<1> QED
  BY <1>2, <1>3 DEF Updater
-----------------------------------------------------------------------------
(***************************************************************************)
(* The refinements of QuotaAccount by users.quota and tokens.remain_quota, *)
(* when no statement fails or those that fail are batched, and without     *)
(* ClaudeHelper.                                                           *)
(***************************************************************************)
\* Requests of the playground have nothing to do with their token's quota.
Billed ==
    \A a \in Attempts :
        pc[a] \in {"tokenRead", "tokenDec", "settleToken", "refundToken"} => a[1] \notin Playground

\* The steps keep it.
LEMMA BilledHolds == TypeOK /\ ServedOnce /\ Billed /\ [Next]_vars => Billed'
<1> SUFFICES ASSUME TypeOK, ServedOnce, Billed, [Next]_vars, NEW b \in Attempts,
                    pc'[b] \in {"tokenRead", "tokenDec", "settleToken", "refundToken"}
             PROVE  b[1] \notin Playground
  BY DEF Billed
<1>1. CASE Updater \/ UNCHANGED vars
  BY <1>1 DEF Updater, TakeStore, ApplyTaken, vars, Billed
<1>2. ASSUME NEW a \in Attempts, Step(a), a # b
      PROVE  b[1] \notin Playground
  <2>1. pc'[b] = pc[b] \/ pc'[b] = "check"
    BY <1>2, OthersStand
  <2> QED
    BY <2>1 DEF Billed
<1>3. CASE Step(b)
  <2>1. pc \in [Attempts -> Stages]
    BY DEF TypeOK
  <2>2. /\ pc'[b] = "tokenRead" => CheckUserQuota(b)
        /\ pc'[b] = "tokenDec" => CheckTokenQuota(b)
        /\ pc'[b] = "settleToken" => SettleUser(b)
        /\ pc'[b] = "refundToken" => RefundUser(b)
    BY <1>3, <2>1, AccountsOfAttempt DEF Step, TokenAuth, MarkExhausted, CheckUserQuota,
       CheckTokenQuota, DecreaseToken, DecreaseUser, UpstreamAnswers, UpstreamError,
       ClaudeLocalError, UpdateUsedQuota, SettleUser, SettleToken, RefundUser, RefundToken,
       Goto, Reject, ReturnError
  <2>3. pc'[b] = "tokenDec" => pc[b] = "tokenRead"
    BY <2>2 DEF CheckTokenQuota
  <2>4. pc'[b] \in {"tokenRead", "settleToken", "refundToken"} => b[1] \notin Playground
    BY <2>1, <2>2, AccountsOfAttempt DEF CheckUserQuota, SettleUser, RefundUser,
       Goto, Reject, ReturnError
  <2> QED
    BY <2>3, <2>4 DEF Billed
<1> QED
  BY <1>1, <1>2, <1>3 DEF Next

\* How a claim may move.
ClaimMoves(phase, claim, phase2, claim2) ==
    \/ phase2 = phase /\ claim2 = claim
    \/ phase = "open" /\ phase2 = "held"
    \/ phase = "held" /\ phase2 = "closed"
    \/ phase = "open" /\ phase2 = "closed" /\ claim2 = 0

\* A step of an attempt does not touch the claims of the others.
LEMMA OtherClaims ==
    ASSUME TypeOK, ServedOnce, NEW a \in Attempts, Step(a), NEW b \in Attempts \ {a}
    PROVE  /\ UserPhase'[b] = UserPhase[b] /\ UserClaim'[b] = UserClaim[b]
           /\ TokenPhase'[b] = TokenPhase[b] /\ TokenClaim'[b] = TokenClaim[b]
<1>1. /\ pre'[b] = pre[b] /\ price'[b] = price[b]
      /\ pc'[b] = pc[b] \/ (pc[b] = "idle" /\ pc'[b] = "check")
  BY OthersStand
<1> QED
  BY <1>1 DEF UserPhase, UserClaim, TokenPhase, TokenClaim

\* Claims are natural numbers.
LEMMA ClaimType ==
    ASSUME TypeOK, TypeOK', NEW a \in Attempts
    PROVE  /\ UserClaim[a] \in Nat /\ UserClaim'[a] \in Nat
           /\ TokenClaim[a] \in Nat /\ TokenClaim'[a] \in Nat
<1>1. pre[a] \in Nat /\ price[a] \in Nat /\ pre'[a] \in Nat /\ price'[a] \in Nat
  BY DEF TypeOK
<1> QED
  BY <1>1 DEF UserClaim, TokenClaim

\* Every step of an attempt moves the funds of its user and of its token by
\* what its claims on them move.
LEMMA StepClaims ==
    ASSUME MaxFaults = 0 \/ BatchUpdateEnabled, ClaudeRequests = {},
           TypeOK, TypeOK', Billed, Billed', NEW a \in Attempts, Step(a)
    PROVE  /\ \E used : FundsMove(a, UserClaim[a] - UserClaim'[a], used,
                                  TokenClaim[a] - TokenClaim'[a])
           /\ ClaimMoves(UserPhase[a], UserClaim[a], UserPhase'[a], UserClaim'[a])
           /\ ClaimMoves(TokenPhase[a], TokenClaim[a], TokenPhase'[a], TokenClaim'[a])
<1> DEFINE Claims(user, used, token) ==
               /\ FundsMove(a, user, used, token)
               /\ UserClaim[a] - UserClaim'[a] = user
               /\ TokenClaim[a] - TokenClaim'[a] = token
               /\ ClaimMoves(UserPhase[a], UserClaim[a], UserPhase'[a], UserClaim'[a])
               /\ ClaimMoves(TokenPhase[a], TokenClaim[a], TokenPhase'[a], TokenClaim'[a])
<1> SUFFICES \E user, used, token : Claims(user, used, token)
  OBVIOUS
<1>1. ~WriteFails
  BY DEF TypeOK, SqlFails, WriteFails
<1>2. /\ pc \in [Attempts -> Stages] /\ pre \in [Attempts -> Nat] /\ price \in [Attempts -> Nat]
      /\ pc[a] \in Stages /\ pre[a] \in Nat /\ price[a] \in Nat
      /\ pre'[a] \in Nat /\ price'[a] \in Nat
  BY DEF TypeOK
<1>3. /\ UserPhase[a] = IF pc[a] \in {"upstream", "stats", "settleUser", "refundUser"} THEN "held"
                        ELSE IF pc[a] \in {"settleToken", "refundToken", "done", "failed"}
                             THEN "closed" ELSE "open"
      /\ UserPhase'[a] = IF pc'[a] \in {"upstream", "stats", "settleUser", "refundUser"}
                         THEN "held"
                         ELSE IF pc'[a] \in {"settleToken", "refundToken", "done", "failed"}
                              THEN "closed" ELSE "open"
      /\ UserClaim[a] = IF UserPhase[a] = "held" THEN pre[a]
                        ELSE IF pc[a] \in {"settleToken", "done"} THEN price[a] ELSE 0
      /\ UserClaim'[a] = IF UserPhase'[a] = "held" THEN pre'[a]
                         ELSE IF pc'[a] \in {"settleToken", "done"} THEN price'[a] ELSE 0
  BY DEF UserPhase, UserClaim
<1>4. /\ TokenPhase[a] = IF pc[a] \in {"userDec", "upstream", "stats", "settleUser",
                                       "settleToken", "refundUser", "refundToken"} THEN "held"
                         ELSE IF pc[a] \in {"done", "failed"} THEN "closed" ELSE "open"
      /\ TokenPhase'[a] = IF pc'[a] \in {"userDec", "upstream", "stats", "settleUser",
                                         "settleToken", "refundUser", "refundToken"} THEN "held"
                          ELSE IF pc'[a] \in {"done", "failed"} THEN "closed" ELSE "open"
      /\ TokenClaim[a] = IF a[1] \in Playground THEN 0 ELSE IF TokenPhase[a] = "held" THEN pre[a]
                         ELSE IF pc[a] = "done" THEN price[a] ELSE 0
      /\ TokenClaim'[a] = IF a[1] \in Playground THEN 0
                          ELSE IF TokenPhase'[a] = "held" THEN pre'[a]
                          ELSE IF pc'[a] = "done" THEN price'[a] ELSE 0
  BY DEF TokenPhase, TokenClaim
<1>5. /\ pc[a] \in {"tokenRead", "tokenDec", "settleToken", "refundToken"}
            => a[1] \notin Playground
      /\ pc'[a] \in {"tokenRead", "tokenDec", "settleToken", "refundToken"}
            => a[1] \notin Playground
  BY DEF Billed
<1>6. \A d \in Int : /\ Apply(UserQuota(UserOf(a)), d) => FundsMove(a, d, 0, 0)
                     /\ Apply(UsedQuota(UserOf(a)), d) => FundsMove(a, 0, d, 0)
                     /\ Apply(TokenQuota(TokenOf[a[1]]), d) => FundsMove(a, 0, 0, d)
  BY ApplyMoves
<1>7. NoWrite \/ SqlFails => FundsMove(a, 0, 0, 0)
  BY ApplyMoves
<1>10. CASE TokenAuth(a) \/ MarkExhausted(a) \/ CheckUserQuota(a) \/ CheckTokenQuota(a)
  <2>1. NoWrite \/ SqlFails
    BY <1>10 DEF TokenAuth, MarkExhausted, CheckUserQuota, CheckTokenQuota
  <2>2. /\ pc[a] \in {"auth", "exhaust", "check", "tokenRead"}
        /\ \/ pc'[a] \in {"exhaust", "check", "tokenRead", "tokenDec", "failed"}
           \/ pc'[a] = "userDec" /\ a[1] \in Playground
           \/ pc'[a] = "upstream" /\ pre'[a] = 0
    BY <1>2, <1>10 DEF TokenAuth, MarkExhausted, CheckUserQuota, CheckTokenQuota,
         Reject, ReturnError, Goto
  <2>3. Claims(0, 0, 0)
    BY <1>3, <1>4, <1>7, <2>1, <2>2 DEF ClaimMoves
  <2> QED
    BY <2>3
<1>11. CASE DecreaseToken(a)
  <2>1. /\ pc[a] = "tokenDec" /\ pre'[a] = pre[a] /\ price'[a] = price[a]
        /\ Apply(TokenQuota(TokenOf[a[1]]), -pre[a]) /\ pc'[a] = "userDec"
    BY <1>1, <1>2, <1>11 DEF DecreaseToken, Goto
  <2>2. Claims(0, 0, -pre[a])
    BY <1>2, <1>3, <1>4, <1>5, <1>6, <2>1 DEF ClaimMoves
  <2> QED
    BY <2>2
<1>12. CASE DecreaseUser(a)
  <2>1. /\ pc[a] = "userDec" /\ pre'[a] = pre[a] /\ price'[a] = price[a]
        /\ Apply(UserQuota(UserOf(a)), -pre[a]) /\ pc'[a] = "upstream"
    BY <1>1, <1>2, <1>12 DEF DecreaseUser, Goto
  <2>2. Claims(-pre[a], 0, 0)
    BY <1>2, <1>3, <1>4, <1>5, <1>6, <2>1 DEF ClaimMoves
  <2> QED
    BY <2>2
<1>13. CASE UpstreamAnswers(a) \/ UpstreamError(a) \/ ClaudeLocalError(a)
  <2>1. NoWrite /\ pc[a] = "upstream" /\ pre'[a] = pre[a]
    BY <1>2, <1>13 DEF UpstreamAnswers, UpstreamError, ClaudeLocalError
  <2>2. pc'[a] \in {"stats", "refundUser"} \/ (pc'[a] = "failed" /\ pre[a] = 0)
    BY <1>2, <1>13 DEF UpstreamAnswers, UpstreamError, ClaudeLocalError, ReturnError, Goto
  <2>3. Claims(0, 0, 0)
    BY <1>2, <1>3, <1>4, <1>7, <2>1, <2>2 DEF ClaimMoves
  <2> QED
    BY <2>3
<1>14. CASE UpdateUsedQuota(a)
  <2>1. /\ pc[a] = "stats" /\ pre'[a] = pre[a] /\ price'[a] = price[a]
        /\ Apply(UsedQuota(UserOf(a)), price[a])
        /\ pc'[a] = "settleUser" \/ (pc'[a] = "done" /\ price[a] = pre[a])
    BY <1>1, <1>2, <1>14 DEF UpdateUsedQuota, Goto
  <2>2. Claims(0, price[a], 0)
    BY <1>2, <1>3, <1>4, <1>5, <1>6, <2>1 DEF ClaimMoves
  <2> QED
    BY <2>2
<1>15. CASE SettleUser(a)
  <2>1. /\ pc[a] = "settleUser" /\ pre'[a] = pre[a] /\ price'[a] = price[a]
        /\ Apply(UserQuota(UserOf(a)), pre[a] - price[a])
        /\ pc'[a] = IF a[1] \in Playground THEN "done" ELSE "settleToken"
    BY <1>1, <1>2, <1>15 DEF SettleUser, Goto
  <2>2. Claims(pre[a] - price[a], 0, 0)
    BY <1>2, <1>3, <1>4, <1>5, <1>6, <2>1 DEF ClaimMoves
  <2> QED
    BY <2>2
<1>16. CASE SettleToken(a)
  <2>1. /\ pc[a] = "settleToken" /\ pre'[a] = pre[a] /\ price'[a] = price[a]
        /\ Apply(TokenQuota(TokenOf[a[1]]), pre[a] - price[a]) /\ pc'[a] = "done"
    BY <1>1, <1>2, <1>16 DEF SettleToken, Goto
  <2>2. Claims(0, 0, pre[a] - price[a])
    BY <1>2, <1>3, <1>4, <1>5, <1>6, <2>1 DEF ClaimMoves
  <2> QED
    BY <2>2
<1>17. CASE RefundUser(a)
  <2>1. /\ pc[a] = "refundUser" /\ pre'[a] = pre[a] /\ price'[a] = price[a]
        /\ Apply(UserQuota(UserOf(a)), pre[a])
        /\ pc'[a] = IF a[1] \in Playground THEN "failed" ELSE "refundToken"
    BY <1>1, <1>2, <1>17 DEF RefundUser, Goto
  <2>2. Claims(pre[a], 0, 0)
    BY <1>2, <1>3, <1>4, <1>5, <1>6, <2>1 DEF ClaimMoves
  <2> QED
    BY <2>2
<1>18. CASE RefundToken(a)
  <2>1. /\ pc[a] = "refundToken" /\ pre'[a] = pre[a] /\ price'[a] = price[a]
        /\ Apply(TokenQuota(TokenOf[a[1]]), pre[a]) /\ pc'[a] = "failed"
    BY <1>1, <1>2, <1>18 DEF RefundToken, Goto
  <2>2. Claims(0, 0, pre[a])
    BY <1>2, <1>3, <1>4, <1>5, <1>6, <2>1 DEF ClaimMoves
  <2> QED
    BY <2>2
<1> QED
  BY <1>10, <1>11, <1>12, <1>13, <1>14, <1>15, <1>16, <1>17, <1>18 DEF Step

\* What has to be said of a step for it to be one of QuotaAccount on the users.
LEMMA UserStep ==
    ASSUME NEW a \in Attempts,
           \A b \in Attempts \ {a} :
              UserPhase'[b] = UserPhase[b] /\ UserClaim'[b] = UserClaim[b],
           \A x \in Users : UserFunds'[x] =
               UserFunds[x] + (IF x = UserOf(a) THEN UserClaim[a] - UserClaim'[a] ELSE 0),
           \A x \in Users : UserFunds[x] \in Int,
           UserClaim[a] \in Nat, UserClaim'[a] \in Nat,
           ClaimMoves(UserPhase[a], UserClaim[a], UserPhase'[a], UserClaim'[a])
    PROVE  [UserAccounts!Next]_(UserAccounts!vars)
<1>1. UserPhase' = [UserPhase EXCEPT ![a] = UserPhase'[a]]
  BY DEF UserPhase
<1>2. UserClaim' = [UserClaim EXCEPT ![a] = UserClaim'[a]]
  BY DEF UserClaim
<1>3. UserFunds' = [UserFunds EXCEPT ![UserOf(a)] = @ + UserClaim[a] - UserClaim'[a]]
  BY AccountsOfAttempt DEF UserFunds
<1>4. CASE UserPhase'[a] = UserPhase[a] /\ UserClaim'[a] = UserClaim[a]
  <2>1. UserPhase' = UserPhase /\ UserClaim' = UserClaim
    BY <1>1, <1>2, <1>4 DEF UserPhase, UserClaim
  <2>2. UserFunds' = UserFunds
    BY <1>4, AccountsOfAttempt DEF UserFunds
  <2> QED
    BY <2>1, <2>2 DEF UserAccounts!vars
<1>5. UserAccounts!Reprice(a, UserClaim'[a])
  BY <1>2, <1>3 DEF UserAccounts!Reprice
<1>6. CASE UserPhase[a] = "open" /\ UserPhase'[a] = "held"
  BY <1>1, <1>5, <1>6 DEF UserAccounts!Hold, UserAccounts!Next
<1>7. CASE UserPhase[a] = "held" /\ UserPhase'[a] = "closed"
  BY <1>1, <1>5, <1>7 DEF UserAccounts!Settle, UserAccounts!Next
<1>8. CASE UserPhase[a] = "open" /\ UserPhase'[a] = "closed" /\ UserClaim'[a] = 0
  BY <1>1, <1>5, <1>8 DEF UserAccounts!Release, UserAccounts!Next
<1> QED
  BY <1>4, <1>6, <1>7, <1>8 DEF ClaimMoves

\* What has to be said of a step for it to be one of QuotaAccount on the tokens.
LEMMA TokenStep ==
    ASSUME NEW a \in Attempts,
           \A b \in Attempts \ {a} :
              TokenPhase'[b] = TokenPhase[b] /\ TokenClaim'[b] = TokenClaim[b],
           \A x \in Tokens : TokenFunds'[x] =
               TokenFunds[x] + (IF x = TokenOf[a[1]] THEN TokenClaim[a] - TokenClaim'[a] ELSE 0),
           \A x \in Tokens : TokenFunds[x] \in Int,
           TokenClaim[a] \in Nat, TokenClaim'[a] \in Nat,
           ClaimMoves(TokenPhase[a], TokenClaim[a], TokenPhase'[a], TokenClaim'[a])
    PROVE  [TokenAccounts!Next]_(TokenAccounts!vars)
<1>1. TokenPhase' = [TokenPhase EXCEPT ![a] = TokenPhase'[a]]
  BY DEF TokenPhase
<1>2. TokenClaim' = [TokenClaim EXCEPT ![a] = TokenClaim'[a]]
  BY DEF TokenClaim
<1>3. TokenFunds' = [TokenFunds EXCEPT ![TokenOf[a[1]]] = @ + TokenClaim[a] - TokenClaim'[a]]
  BY AccountsOfAttempt DEF TokenFunds
<1>4. CASE TokenPhase'[a] = TokenPhase[a] /\ TokenClaim'[a] = TokenClaim[a]
  <2>1. TokenPhase' = TokenPhase /\ TokenClaim' = TokenClaim
    BY <1>1, <1>2, <1>4 DEF TokenPhase, TokenClaim
  <2>2. TokenFunds' = TokenFunds
    BY <1>4, AccountsOfAttempt DEF TokenFunds
  <2> QED
    BY <2>1, <2>2 DEF TokenAccounts!vars
<1>5. TokenAccounts!Reprice(a, TokenClaim'[a])
  BY <1>2, <1>3 DEF TokenAccounts!Reprice
<1>6. CASE TokenPhase[a] = "open" /\ TokenPhase'[a] = "held"
  BY <1>1, <1>5, <1>6 DEF TokenAccounts!Hold, TokenAccounts!Next
<1>7. CASE TokenPhase[a] = "held" /\ TokenPhase'[a] = "closed"
  BY <1>1, <1>5, <1>7 DEF TokenAccounts!Settle, TokenAccounts!Next
<1>8. CASE TokenPhase[a] = "open" /\ TokenPhase'[a] = "closed" /\ TokenClaim'[a] = 0
  BY <1>1, <1>5, <1>8 DEF TokenAccounts!Release, TokenAccounts!Next
<1> QED
  BY <1>4, <1>6, <1>7, <1>8 DEF ClaimMoves

\* The ledger's steps are steps of both accounts, or none.
LEMMA StepsRefine ==
    ASSUME MaxFaults = 0 \/ BatchUpdateEnabled, ClaudeRequests = {},
           TypeOK, TypeOK', ServedOnce, Billed, Billed', [Next]_vars
    PROVE  /\ [UserAccounts!Next]_(UserAccounts!vars)
           /\ [TokenAccounts!Next]_(TokenAccounts!vars)
<1>1. /\ \A u \in Users : UserFunds[u] = Funds(UserQuota(u))
                          /\ UserFunds'[u] = Funds(UserQuota(u))'
                          /\ UserFunds[u] \in Int
      /\ \A t \in Tokens : TokenFunds[t] = Funds(TokenQuota(t))
                           /\ TokenFunds'[t] = Funds(TokenQuota(t))'
                           /\ TokenFunds[t] \in Int
  BY FundsType, RowsAre DEF UserFunds, TokenFunds
<1>2. ASSUME NEW a \in Attempts, Step(a)
      PROVE  /\ [UserAccounts!Next]_(UserAccounts!vars)
             /\ [TokenAccounts!Next]_(TokenAccounts!vars)
  <2>1. /\ \E used : FundsMove(a, UserClaim[a] - UserClaim'[a], used,
                               TokenClaim[a] - TokenClaim'[a])
        /\ ClaimMoves(UserPhase[a], UserClaim[a], UserPhase'[a], UserClaim'[a])
        /\ ClaimMoves(TokenPhase[a], TokenClaim[a], TokenPhase'[a], TokenClaim'[a])
    BY <1>2, StepClaims
  <2>2. /\ UserClaim[a] \in Nat /\ UserClaim'[a] \in Nat
        /\ TokenClaim[a] \in Nat /\ TokenClaim'[a] \in Nat
    BY ClaimType
  <2>3. \A b \in Attempts \ {a} :
           /\ UserPhase'[b] = UserPhase[b] /\ UserClaim'[b] = UserClaim[b]
           /\ TokenPhase'[b] = TokenPhase[b] /\ TokenClaim'[b] = TokenClaim[b]
    BY <1>2, OtherClaims
  <2>4. \A u \in Users : UserFunds'[u] =
           UserFunds[u] + (IF u = UserOf(a) THEN UserClaim[a] - UserClaim'[a] ELSE 0)
    BY <1>1, <2>1 DEF FundsMove
  <2>5. \A t \in Tokens : TokenFunds'[t] =
           TokenFunds[t] + (IF t = TokenOf[a[1]] THEN TokenClaim[a] - TokenClaim'[a] ELSE 0)
    BY <1>1, <2>1 DEF FundsMove
  <2>6. [UserAccounts!Next]_(UserAccounts!vars)
    BY <1>1, <2>1, <2>2, <2>3, <2>4, UserStep
  <2>7. [TokenAccounts!Next]_(TokenAccounts!vars)
    BY <1>1, <2>1, <2>2, <2>3, <2>5, TokenStep
  <2> QED
    BY <2>6, <2>7
<1>3. CASE Updater \/ UNCHANGED vars
  <2>1. /\ \A y \in Accounts : Funds(y)' = Funds(y)
        /\ UNCHANGED <<pc, pre, price>>
    BY <1>3, UpdaterKeepsFunds DEF vars, Funds
  <2>2. UserFunds' = UserFunds /\ TokenFunds' = TokenFunds
    BY <2>1, RowsAre DEF UserFunds, TokenFunds
  <2>3. /\ UserPhase' = UserPhase /\ UserClaim' = UserClaim
        /\ TokenPhase' = TokenPhase /\ TokenClaim' = TokenClaim
    BY <2>1 DEF UserPhase, UserClaim, TokenPhase, TokenClaim
  <2> QED
    BY <2>2, <2>3 DEF UserAccounts!vars, TokenAccounts!vars
<1> QED
  BY <1>2, <1>3 DEF Next

\* Both accounts begin as the rows do, with no claim opened.
LEMMA InitRefines == Init => UserAccounts!Init /\ TokenAccounts!Init /\ Billed
<1> SUFFICES ASSUME Init PROVE UserAccounts!Init /\ TokenAccounts!Init /\ Billed
  OBVIOUS
<1>1. /\ \A u \in Users : balance[UserQuota(u)] = UserQuota0[u]
      /\ \A t \in Tokens : balance[TokenQuota(t)] = TokenQuota0[t]
  BY RowsAre DEF Init, UserQuota, TokenQuota
<1>2. \A y \in Accounts : store[y] = 0 /\ taken[y] = 0 /\ lost[y] = 0
  BY DEF Init
<1>3. UserFunds = UserQuota0 /\ TokenFunds = TokenQuota0
  BY <1>1, <1>2, RowsAre DEF UserFunds, TokenFunds, Funds
<1>4. \A a \in Attempts : pc[a] \in {"idle", "check", "auth"}
  BY DEF Init
<1>5. UserPhase = [a \in Attempts |-> "open"] /\ TokenPhase = [a \in Attempts |-> "open"]
  BY <1>4 DEF UserPhase, TokenPhase
<1>6. UserClaim = [a \in Attempts |-> 0] /\ TokenClaim = [a \in Attempts |-> 0]
  BY <1>4, <1>5 DEF UserClaim, TokenClaim
<1> QED
  BY <1>3, <1>4, <1>5, <1>6 DEF UserAccounts!Init, TokenAccounts!Init, Billed

\* Requests of the playground are never billed to a token.
LEMMA BilledAlways == Spec => []Billed
<1>1. Init => Billed
  BY InitRefines
<1> QED
  BY <1>1, BilledHolds, TypeCorrect, RequestServedOnce, PTL DEF Spec

\* Without failing statements, or with a batch updater that accounts for what
\* its failures drop, and without the handler that loses reservations, the
\* billing code implements QuotaAccount on users.quota: every attempt reserves
\* once and closes once, whatever the interleaving, the retries and the batch
\* updater.
THEOREM UsersRefineAccount ==
    ASSUME MaxFaults = 0 \/ BatchUpdateEnabled, ClaudeRequests = {}
    PROVE  Spec => UsersImplementAccount
<1>1. Init => UserAccounts!Init
  BY InitRefines
<1>2. /\ TypeOK /\ TypeOK' /\ ServedOnce /\ Billed /\ Billed' /\ [Next]_vars
      => [UserAccounts!Next]_(UserAccounts!vars)
  BY StepsRefine
<1> QED
  BY <1>1, <1>2, TypeCorrect, RequestServedOnce, BilledAlways, PTL
     DEF Spec, UsersImplementAccount, UserAccounts!Spec

\* Under the same assumptions it implements QuotaAccount on
\* tokens.remain_quota, which moves at other moments than the user's quota.
THEOREM TokensRefineAccount ==
    ASSUME MaxFaults = 0 \/ BatchUpdateEnabled, ClaudeRequests = {}
    PROVE  Spec => TokensImplementAccount
<1>1. Init => TokenAccounts!Init
  BY InitRefines
<1>2. /\ TypeOK /\ TypeOK' /\ ServedOnce /\ Billed /\ Billed' /\ [Next]_vars
      => [TokenAccounts!Next]_(TokenAccounts!vars)
  BY StepsRefine
<1> QED
  BY <1>1, <1>2, TypeCorrect, RequestServedOnce, BilledAlways, PTL
     DEF Spec, TokensImplementAccount, TokenAccounts!Spec
-----------------------------------------------------------------------------
(***************************************************************************)
(* The books: what the attempts have under way explains what is missing,   *)
(* but for what the failed statements displaced.                           *)
(***************************************************************************)
Of(u) == {a \in Attempts : UserOf(a) = u}

\* What an attempt has taken from its user and not given back or recorded yet.
Due == [a \in Attempts |->
    IF pc[a] \in {"upstream", "stats", "refundUser"} THEN pre[a]
    ELSE IF pc[a] = "settleUser" THEN pre[a] - price[a] ELSE 0]

\* The same with what ClaudeHelper may have kept.
Kept == [a \in Attempts |->
    IF pc[a] = "failed" /\ a[1] \in ClaudeRequests THEN pre[a] ELSE Due[a]]

\* How far a token's charges are ahead of its user's.
TokenDue == [a \in Attempts |->
    IF pc[a] \in {"userDec", "refundToken"} THEN -pre[a]
    ELSE IF pc[a] = "settleToken" THEN price[a] - pre[a] ELSE 0]

Amounts == \A a \in Attempts : pre[a] <= MaxDisplaced /\ price[a] <= MaxDisplaced

Books ==
    \A u \in Users :
        /\ Surplus(u) + Total(Due, Of(u)) <= faults * MaxDisplaced
        /\ -(Surplus(u) + Total(Kept, Of(u))) <= faults * MaxDisplaced

TokensOf(u) == {t \in Tokens : OwnerOf[t] = u}
Spent == [t \in Tokens |-> TokenQuota0[t] - Funds(TokenQuota(t))]

\* How far the tokens of a user are from him.
Lead(u) == UserQuota0[u] - Funds(UserQuota(u)) - Total(Spent, TokensOf(u))
                - Total(TokenDue, Of(u))

TokenBooks ==
    \A u \in Users :
        (\A r \in Playground : OwnerOf[TokenOf[r]] # u) =>
            Gap(Lead(u)) <= faults * MaxDisplaced

\* No reservation and no price is more than MaxDisplaced.
LEMMA MaxIs ==
    ASSUME IsFiniteSet(Requests), IsFiniteSet(Prices), Requests # {}
    PROVE  /\ MaxDisplaced \in Nat
           /\ \A r \in Requests : Reserve[r] <= MaxDisplaced
           /\ \A p \in Prices : p <= MaxDisplaced
<1> DEFINE R == {Reserve[r] : r \in Requests}
<1>1. IsFiniteSet(R)
  <2>1. Reserve \in Surjection(Requests, R)
    BY DEF Surjection
  <2> QED
    BY <2>1, FS_Surjection
<1>2. IsFiniteSet(R \cup Prices)
  <2> HIDE DEF R
  <2> QED
    BY <1>1, FS_Union
<1>3. Max(R \cup Prices) \in Nat /\ \A x \in R \cup Prices : x <= Max(R \cup Prices)
  <2>1. R \cup Prices \in SUBSET Nat
    OBVIOUS
  <2>2. R \cup Prices # {}
    <3>1. PICK r \in Requests : TRUE
      OBVIOUS
    <3>2. Reserve[r] \in R
      OBVIOUS
    <3> QED
      BY <3>2
  <2> HIDE DEF R
  <2> QED
    BY <1>2, <2>1, <2>2, LargestIs
<1>4. MaxDisplaced = Max(R \cup Prices)
  BY DEF MaxDisplaced
<1> QED
  BY <1>3, <1>4

\* What a step adds to the bound.
Slack == IF faults' = faults THEN 0 ELSE MaxDisplaced

\* The step of an attempt explains what it moves.
Explained(a, user, used, token) ==
    /\ user + used + Due'[a] - Due[a] <= Slack
    /\ -(user + used + Kept'[a] - Kept[a]) <= Slack
    /\ a[1] \notin Playground => Gap(token - user - (TokenDue'[a] - TokenDue[a])) <= Slack

\* No step of an attempt displaces more than one failure may.
LEMMA StepExplained ==
    ASSUME TypeOK, TypeOK', Amounts, Amounts', MaxDisplaced \in Nat,
           NEW a \in Attempts, Step(a)
    PROVE  /\ faults' = faults \/ faults' = faults + 1
           /\ \E user, used, token \in Int :
                 FundsMove(a, user, used, token) /\ Explained(a, user, used, token)
<1> DEFINE M == MaxDisplaced
           Explains(user, used, token) ==
               /\ faults' = faults \/ faults' = faults + 1
               /\ FundsMove(a, user, used, token) /\ Explained(a, user, used, token)
<1>1. /\ pc \in [Attempts -> Stages] /\ pc'[a] \in Stages /\ faults \in Nat /\ M \in Nat
      /\ pre \in [Attempts -> Nat] /\ price \in [Attempts -> Nat]
      /\ pre[a] \in Nat /\ price[a] \in Nat /\ pre'[a] \in Nat /\ price'[a] \in Nat
      /\ pre[a] <= M /\ price[a] <= M /\ pre'[a] <= M /\ price'[a] <= M
  BY DEF TypeOK, Amounts
<1>2. SUFFICES \E user, used, token \in Int : Explains(user, used, token)
  OBVIOUS
<1>3. /\ Due[a] = IF pc[a] \in {"upstream", "stats", "refundUser"} THEN pre[a]
                  ELSE IF pc[a] = "settleUser" THEN pre[a] - price[a] ELSE 0
      /\ Due'[a] = IF pc'[a] \in {"upstream", "stats", "refundUser"} THEN pre'[a]
                   ELSE IF pc'[a] = "settleUser" THEN pre'[a] - price'[a] ELSE 0
  BY DEF Due
<1>4. /\ Kept[a] = IF pc[a] = "failed" /\ a[1] \in ClaudeRequests THEN pre[a] ELSE Due[a]
      /\ Kept'[a] = IF pc'[a] = "failed" /\ a[1] \in ClaudeRequests THEN pre'[a] ELSE Due'[a]
  BY DEF Kept
<1>5. /\ TokenDue[a] = IF pc[a] \in {"userDec", "refundToken"} THEN -pre[a]
                       ELSE IF pc[a] = "settleToken" THEN price[a] - pre[a] ELSE 0
      /\ TokenDue'[a] = IF pc'[a] \in {"userDec", "refundToken"} THEN -pre'[a]
                        ELSE IF pc'[a] = "settleToken" THEN price'[a] - pre'[a] ELSE 0
  BY DEF TokenDue
<1>6. \A d \in Int : /\ Apply(UserQuota(UserOf(a)), d) => FundsMove(a, d, 0, 0)
                     /\ Apply(UsedQuota(UserOf(a)), d) => FundsMove(a, 0, d, 0)
                     /\ Apply(TokenQuota(TokenOf[a[1]]), d) => FundsMove(a, 0, 0, d)
  BY ApplyMoves
<1>7. NoWrite \/ SqlFails => FundsMove(a, 0, 0, 0)
  BY ApplyMoves
<1>8. /\ NoWrite => faults' = faults
      /\ SqlFails => faults' = faults + 1 /\ faults' # faults
      /\ \A x, d : Apply(x, d) => faults' = faults
  BY <1>1 DEF NoWrite, SqlFails, Apply
<1>9. /\ NoWrite => Slack = 0
      /\ SqlFails => Slack = M
      /\ \A x, d : Apply(x, d) => Slack = 0
  BY <1>8 DEF Slack
<1>user. ASSUME NEW d \in Int, Apply(UserQuota(UserOf(a)), d), Explained(a, d, 0, 0)
         PROVE  \E user, used, token \in Int : Explains(user, used, token)
  <2>1. Explains(d, 0, 0)
    BY <1>6, <1>8, <1>user
  <2> QED
    BY <2>1
<1>used. ASSUME NEW d \in Int, Apply(UsedQuota(UserOf(a)), d), Explained(a, 0, d, 0)
         PROVE  \E user, used, token \in Int : Explains(user, used, token)
  <2>1. Explains(0, d, 0)
    BY <1>6, <1>8, <1>used
  <2> QED
    BY <2>1
<1>token. ASSUME NEW d \in Int, Apply(TokenQuota(TokenOf[a[1]]), d), Explained(a, 0, 0, d)
          PROVE  \E user, used, token \in Int : Explains(user, used, token)
  <2>1. Explains(0, 0, d)
    BY <1>6, <1>8, <1>token
  <2> QED
    BY <2>1
<1>none. ASSUME NoWrite \/ SqlFails, Explained(a, 0, 0, 0)
         PROVE  \E user, used, token \in Int : Explains(user, used, token)
  <2>1. Explains(0, 0, 0)
    BY <1>7, <1>8, <1>none
  <2> QED
    BY <2>1
<1> HIDE DEF M, Explains
<1>10. CASE TokenAuth(a) \/ MarkExhausted(a) \/ CheckUserQuota(a) \/ CheckTokenQuota(a)
  <2>1. NoWrite \/ SqlFails
    BY <1>10 DEF TokenAuth, MarkExhausted, CheckUserQuota, CheckTokenQuota
  <2>2. /\ pc[a] \in {"auth", "exhaust", "check", "tokenRead"}
        /\ \/ pc'[a] \in {"exhaust", "check", "tokenRead", "tokenDec", "failed"}
           \/ pc'[a] = "userDec" /\ a[1] \in Playground
           \/ pc'[a] = "upstream" /\ pre'[a] = 0
    BY <1>1, <1>10 DEF TokenAuth, MarkExhausted, CheckUserQuota, CheckTokenQuota,
         Reject, ReturnError, Goto
  <2>3. Due[a] = 0 /\ Due'[a] = 0 /\ Kept[a] = 0 /\ Kept'[a] \in Nat
    BY <1>1, <1>3, <1>4, <2>2
  <2>4. a[1] \notin Playground => TokenDue[a] = 0 /\ TokenDue'[a] = 0
    BY <1>5, <2>2
  <2>5. Explained(a, 0, 0, 0)
    BY <1>1, <2>3, <2>4 DEF Explained, Slack, Gap
  <2> QED
    BY <1>none, <2>1, <2>5
<1>11. CASE DecreaseToken(a)
  <2>1. /\ pc[a] = "tokenDec" /\ pre'[a] = pre[a] /\ price'[a] = price[a]
        /\ \/ Apply(TokenQuota(TokenOf[a[1]]), -pre[a]) /\ pc'[a] = "userDec"
           \/ SqlFails /\ pc'[a] = "failed"
    BY <1>1, <1>11 DEF DecreaseToken, WriteFails, Reject, ReturnError, Goto
  <2>2. CASE Apply(TokenQuota(TokenOf[a[1]]), -pre[a]) /\ pc'[a] = "userDec"
    <3>1. Explained(a, 0, 0, -pre[a])
      <4>1. Due[a] = 0 /\ Due'[a] = 0 /\ Kept[a] = 0 /\ Kept'[a] = 0 /\ Slack = 0
        BY <1>3, <1>4, <1>9, <2>1, <2>2
      <4>2. TokenDue[a] = 0 /\ TokenDue'[a] = -pre[a]
        BY <1>5, <2>1, <2>2
      <4> QED
        BY <1>1, <4>1, <4>2 DEF Explained, Gap
    <3> QED
      BY <1>1, <1>token, <2>2, <3>1
  <2>3. CASE SqlFails /\ pc'[a] = "failed"
    <3>1. Explained(a, 0, 0, 0)
      BY <1>1, <1>3, <1>4, <1>5, <1>9, <2>1, <2>3 DEF Explained, Gap
    <3> QED
      BY <1>none, <2>3, <3>1
  <2> QED
    BY <2>1, <2>2, <2>3
<1>12. CASE DecreaseUser(a)
  <2>1. /\ pc[a] = "userDec" /\ pre'[a] = pre[a] /\ price'[a] = price[a]
        /\ \/ Apply(UserQuota(UserOf(a)), -pre[a]) /\ pc'[a] = "upstream"
           \/ SqlFails /\ pc'[a] = "failed"
    BY <1>1, <1>12 DEF DecreaseUser, WriteFails, Reject, ReturnError, Goto
  <2>2. CASE Apply(UserQuota(UserOf(a)), -pre[a]) /\ pc'[a] = "upstream"
    <3>1. Explained(a, -pre[a], 0, 0)
      BY <1>1, <1>3, <1>4, <1>5, <1>9, <2>1, <2>2 DEF Explained, Gap
    <3> QED
      BY <1>1, <1>user, <2>2, <3>1
  <2>3. CASE SqlFails /\ pc'[a] = "failed"
    <3>1. Explained(a, 0, 0, 0)
      BY <1>1, <1>3, <1>4, <1>5, <1>9, <2>1, <2>3 DEF Explained, Gap
    <3> QED
      BY <1>none, <2>3, <3>1
  <2> QED
    BY <2>1, <2>2, <2>3
<1>13. CASE UpstreamAnswers(a) \/ UpstreamError(a) \/ ClaudeLocalError(a)
  <2>1. NoWrite /\ pc[a] = "upstream" /\ pre'[a] = pre[a]
    BY <1>1, <1>13 DEF UpstreamAnswers, UpstreamError, ClaudeLocalError
  <2>2. \/ pc'[a] \in {"stats", "refundUser"}
        \/ pc'[a] = "failed" /\ (a[1] \in ClaudeRequests \/ pre[a] = 0)
    BY <1>1, <1>13 DEF UpstreamAnswers, UpstreamError, ClaudeLocalError, ReturnError, Goto
  <2>3. Due[a] = pre[a] /\ Due'[a] \in {pre[a], 0} /\ Kept[a] = pre[a] /\ Kept'[a] = pre[a]
    BY <1>1, <1>3, <1>4, <2>1, <2>2
  <2>4. TokenDue[a] = 0 /\ TokenDue'[a] = 0
    BY <1>5, <2>1, <2>2
  <2>5. Explained(a, 0, 0, 0)
    <3>1. Slack = 0 /\ pre[a] \in Nat
      BY <1>1, <1>9, <2>1
    <3> QED
      BY <2>3, <2>4, <3>1 DEF Explained, Gap
  <2> QED
    BY <1>none, <2>1, <2>5
<1>14. CASE UpdateUsedQuota(a)
  <2>1. /\ pc[a] = "stats" /\ pre'[a] = pre[a] /\ price'[a] = price[a]
        /\ Apply(UsedQuota(UserOf(a)), price[a]) \/ SqlFails
        /\ pc'[a] = "settleUser" \/ (pc'[a] = "done" /\ price[a] = pre[a])
    BY <1>1, <1>14 DEF UpdateUsedQuota, WriteFails, Goto
  <2>2. CASE Apply(UsedQuota(UserOf(a)), price[a])
    <3>1. Explained(a, 0, price[a], 0)
      BY <1>1, <1>3, <1>4, <1>5, <1>9, <2>1, <2>2 DEF Explained, Gap
    <3> QED
      BY <1>1, <1>used, <2>2, <3>1
  <2>3. CASE SqlFails
    <3>1. Explained(a, 0, 0, 0)
      BY <1>1, <1>3, <1>4, <1>5, <1>9, <2>1, <2>3 DEF Explained, Gap
    <3> QED
      BY <1>none, <2>3, <3>1
  <2> QED
    BY <2>1, <2>2, <2>3
<1>15. CASE SettleUser(a)
  <2>1. /\ pc[a] = "settleUser" /\ pre'[a] = pre[a] /\ price'[a] = price[a]
        /\ \/ /\ Apply(UserQuota(UserOf(a)), pre[a] - price[a])
              /\ pc'[a] = IF a[1] \in Playground THEN "done" ELSE "settleToken"
           \/ SqlFails /\ pc'[a] = "done"
    BY <1>1, <1>15 DEF SettleUser, WriteFails, Goto
  <2>2. CASE Apply(UserQuota(UserOf(a)), pre[a] - price[a]) /\ pc'[a] = (IF a[1] \in Playground THEN "done" ELSE "settleToken")
    <3>1. Explained(a, pre[a] - price[a], 0, 0)
      BY <1>1, <1>3, <1>4, <1>5, <1>9, <2>1, <2>2 DEF Explained, Gap
    <3> QED
      BY <1>1, <1>user, <2>2, <3>1
  <2>3. CASE SqlFails /\ pc'[a] = "done"
    <3>1. Explained(a, 0, 0, 0)
      BY <1>1, <1>3, <1>4, <1>5, <1>9, <2>1, <2>3 DEF Explained, Gap
    <3> QED
      BY <1>none, <2>3, <3>1
  <2> QED
    BY <2>1, <2>2, <2>3
<1>16. CASE SettleToken(a)
  <2>1. /\ pc[a] = "settleToken" /\ pre'[a] = pre[a] /\ price'[a] = price[a]
        /\ Apply(TokenQuota(TokenOf[a[1]]), pre[a] - price[a]) \/ SqlFails
        /\ pc'[a] = "done"
    BY <1>1, <1>16 DEF SettleToken, WriteFails, Goto
  <2>2. CASE Apply(TokenQuota(TokenOf[a[1]]), pre[a] - price[a])
    <3>1. Explained(a, 0, 0, pre[a] - price[a])
      BY <1>1, <1>3, <1>4, <1>5, <1>9, <2>1, <2>2 DEF Explained, Gap
    <3> QED
      BY <1>1, <1>token, <2>2, <3>1
  <2>3. CASE SqlFails
    <3>1. Explained(a, 0, 0, 0)
      BY <1>1, <1>3, <1>4, <1>5, <1>9, <2>1, <2>3 DEF Explained, Gap
    <3> QED
      BY <1>none, <2>3, <3>1
  <2> QED
    BY <2>1, <2>2, <2>3
<1>17. CASE RefundUser(a)
  <2>1. /\ pc[a] = "refundUser" /\ pre'[a] = pre[a] /\ price'[a] = price[a]
        /\ \/ /\ Apply(UserQuota(UserOf(a)), pre[a])
              /\ pc'[a] = IF a[1] \in Playground THEN "failed" ELSE "refundToken"
           \/ SqlFails /\ pc'[a] = "failed"
    BY <1>1, <1>17 DEF RefundUser, WriteFails, Goto
  <2>2. CASE Apply(UserQuota(UserOf(a)), pre[a]) /\ pc'[a] = (IF a[1] \in Playground THEN "failed" ELSE "refundToken")
    <3>1. Explained(a, pre[a], 0, 0)
      BY <1>1, <1>3, <1>4, <1>5, <1>9, <2>1, <2>2 DEF Explained, Gap
    <3> QED
      BY <1>1, <1>user, <2>2, <3>1
  <2>3. CASE SqlFails /\ pc'[a] = "failed"
    <3>1. Explained(a, 0, 0, 0)
      BY <1>1, <1>3, <1>4, <1>5, <1>9, <2>1, <2>3 DEF Explained, Gap
    <3> QED
      BY <1>none, <2>3, <3>1
  <2> QED
    BY <2>1, <2>2, <2>3
<1>18. CASE RefundToken(a)
  <2>1. /\ pc[a] = "refundToken" /\ pre'[a] = pre[a] /\ price'[a] = price[a]
        /\ Apply(TokenQuota(TokenOf[a[1]]), pre[a]) \/ SqlFails
        /\ pc'[a] = "failed"
    BY <1>1, <1>18 DEF RefundToken, WriteFails, Goto
  <2>2. CASE Apply(TokenQuota(TokenOf[a[1]]), pre[a])
    <3>1. Explained(a, 0, 0, pre[a])
      BY <1>1, <1>3, <1>4, <1>5, <1>9, <2>1, <2>2 DEF Explained, Gap
    <3> QED
      BY <1>1, <1>token, <2>2, <3>1
  <2>3. CASE SqlFails
    <3>1. Explained(a, 0, 0, 0)
      BY <1>1, <1>3, <1>4, <1>5, <1>9, <2>1, <2>3 DEF Explained, Gap
    <3> QED
      BY <1>none, <2>3, <3>1
  <2> QED
    BY <2>1, <2>2, <2>3
<1> QED
  BY <1>10, <1>11, <1>12, <1>13, <1>14, <1>15, <1>16, <1>17, <1>18 DEF Step

\* Reservations and prices stay within MaxDisplaced.
LEMMA AmountsHold ==
    ASSUME IsFiniteSet(Requests), IsFiniteSet(Prices), Requests # {},
           TypeOK, Amounts, [Next]_vars
    PROVE  Amounts'
<1> DEFINE M == MaxDisplaced
<1>1. /\ M \in Nat /\ \A r \in Requests : Reserve[r] \in Nat /\ Reserve[r] <= M
      /\ \A p \in Prices : p <= M
  BY MaxIs
<1>2. pre \in [Attempts -> Nat] /\ price \in [Attempts -> Nat]
  BY DEF TypeOK
<1>3. \A a \in Attempts : pre[a] <= M /\ price[a] <= M
  BY DEF Amounts
<1> HIDE DEF M
<1>4. SUFFICES \A a \in Attempts : pre'[a] <= M /\ price'[a] <= M
  BY DEF Amounts, M
<1>5. ASSUME NEW a \in Attempts, CheckUserQuota(a), NEW b \in Attempts
      PROVE  pre'[b] <= M /\ price'[b] <= M
  <2>1. pre'[b] = pre[b] \/ pre'[b] \in {0, Reserve[a[1]]}
    BY <1>2, <1>5 DEF CheckUserQuota
  <2>2. price'[b] = price[b] /\ a[1] \in Requests
    BY <1>5, AccountsOfAttempt DEF CheckUserQuota
  <2> QED
    BY <1>1, <1>3, <2>1, <2>2
<1>6. ASSUME NEW a \in Attempts, UpstreamAnswers(a), NEW b \in Attempts
      PROVE  pre'[b] <= M /\ price'[b] <= M
  BY <1>1, <1>2, <1>3, <1>6 DEF UpstreamAnswers
<1>7. ASSUME NEW a \in Attempts, Step(a), ~CheckUserQuota(a), ~UpstreamAnswers(a)
      PROVE  pre' = pre /\ price' = price
  BY <1>7 DEF Step, TokenAuth, MarkExhausted, CheckTokenQuota, DecreaseToken,
      DecreaseUser, UpstreamError, ClaudeLocalError, UpdateUsedQuota,
      SettleUser, SettleToken, RefundUser, RefundToken
<1>8. CASE Updater \/ UNCHANGED vars
  BY <1>3, <1>8 DEF Updater, TakeStore, ApplyTaken, vars
<1> QED
  BY <1>3, <1>5, <1>6, <1>7, <1>8 DEF Next

\* There are finitely many attempts.
LEMMA FiniteAttempts ==
    ASSUME IsFiniteSet(Requests)
    PROVE  \A u : IsFiniteSet(Of(u)) /\ Of(u) \subseteq Attempts
<1>1. IsFiniteSet(0..RetryTimes)
  BY FS_Interval
<1>2. IsFiniteSet(Attempts)
  BY <1>1, FS_Product DEF Attempts
<1> QED
  BY <1>2, FS_Subset DEF Of

\* The sum of what the attempts of a user have under way moves with the one
\* that takes a step.
LEMMA TotalsMove ==
    ASSUME IsFiniteSet(Requests), NEW u \in Users, NEW a \in Attempts, NEW f, NEW h,
           \A b \in Attempts : f[b] \in Int /\ h[b] \in Int,
           \A b \in Attempts \ {a} : h[b] = f[b]
    PROVE  /\ Total(f, Of(u)) \in Int
           /\ Total(h, Of(u)) = Total(f, Of(u)) + (IF u = UserOf(a) THEN h[a] - f[a] ELSE 0)
<1>1. IsFiniteSet(Of(u)) /\ Of(u) \subseteq Attempts
  BY FiniteAttempts
<1>2. Total(f, Of(u)) \in Int
  BY <1>1, TotalType
<1>3. CASE u = UserOf(a)
  <2>1. a \in Of(u)
    BY <1>3 DEF Of
  <2>2. /\ \A y \in Of(u) : f[y] \in Int /\ h[y] \in Int
        /\ \A y \in Of(u) \ {a} : h[y] = f[y]
    BY <1>1
  <2>3. Total(h, Of(u)) = Total(f, Of(u)) + h[a] - f[a]
    <3> DEFINE S == Of(u)
    <3>1. IsFiniteSet(S) /\ a \in S /\ \A y \in S : f[y] \in Int /\ h[y] \in Int
      BY <1>1, <2>1, <2>2
    <3>2. \A y \in S \ {a} : h[y] = f[y]
      BY <2>2
    <3> HIDE DEF S
    <3>3. Total(h, S) = Total(f, S) + h[a] - f[a]
      BY ONLY <3>1, <3>2, TotalMoves
    <3> QED
      BY <3>3 DEF S
  <2>4. h[a] \in Int /\ f[a] \in Int
    OBVIOUS
  <2> QED
    BY <1>2, <1>3, <2>3, <2>4
<1>4. CASE u # UserOf(a)
  <2>1. \A y \in Of(u) : f[y] \in Int /\ h[y] = f[y]
    BY <1>1, <1>4 DEF Of
  <2>2. Total(h, Of(u)) = Total(f, Of(u))
    BY <1>1, <2>1, TotalSame
  <2> QED
    BY <1>2, <1>4, <2>2
<1> QED
  BY <1>2, <1>3, <1>4

\* The bound grows by the slack of a step.
LEMMA SlackGrows ==
    ASSUME MaxDisplaced \in Nat, faults \in Nat, faults' = faults \/ faults' = faults + 1
    PROVE  /\ faults * MaxDisplaced \in Nat /\ Slack \in Nat
           /\ faults' * MaxDisplaced = faults * MaxDisplaced + Slack
<1> DEFINE M == MaxDisplaced
<1>1. \A n, m \in Nat : n * m \in Nat /\ (n + 1) * m = n * m + m
  OBVIOUS
<1>2. M \in Nat
  OBVIOUS
<1> HIDE DEF M
<1>3. faults * M \in Nat /\ (faults + 1) * M = faults * M + M
  BY <1>1, <1>2
<1> QED
  BY <1>2, <1>3 DEF Slack, M

\* The amounts are integers.
LEMMA DueType ==
    ASSUME TypeOK
    PROVE  \A a \in Attempts : Due[a] \in Int /\ Kept[a] \in Int /\ TokenDue[a] \in Int
<1>1. pre \in [Attempts -> Nat] /\ price \in [Attempts -> Nat]
  BY DEF TypeOK
<1> QED
  BY <1>1 DEF Due, Kept, TokenDue

\* ... before and after a step.
LEMMA DueTypeNext ==
    ASSUME TypeOK'
    PROVE  \A a \in Attempts : Due'[a] \in Int /\ Kept'[a] \in Int /\ TokenDue'[a] \in Int
<1>1. pre' \in [Attempts -> Nat] /\ price' \in [Attempts -> Nat]
  BY DEF TypeOK
<1> QED
  BY <1>1 DEF Due, Kept, TokenDue

\* The step of an attempt keeps the users' books.
LEMMA StepKeepsBooks ==
    ASSUME IsFiniteSet(Requests), MaxDisplaced \in Nat, TypeOK, TypeOK', ServedOnce,
           Amounts, Amounts', Books, NEW a \in Attempts, Step(a)
    PROVE  Books'
<1>1. /\ faults' = faults \/ faults' = faults + 1
      /\ \E user, used, token \in Int :
            FundsMove(a, user, used, token) /\ Explained(a, user, used, token)
  BY StepExplained
<1>2. PICK user \in Int, used \in Int, token \in Int :
         FundsMove(a, user, used, token) /\ Explained(a, user, used, token)
  BY <1>1
<1> SUFFICES ASSUME NEW u \in Users
             PROVE  /\ Surplus(u)' + Total(Due', Of(u)) <= faults' * MaxDisplaced
                    /\ -(Surplus(u)' + Total(Kept', Of(u))) <= faults' * MaxDisplaced
  BY DEF Books
<1>3. /\ faults * MaxDisplaced \in Nat /\ Slack \in Nat
      /\ faults' * MaxDisplaced = faults * MaxDisplaced + Slack
  BY <1>1, SlackGrows DEF TypeOK
<1>4. \A b \in Attempts : /\ Due[b] \in Int /\ Due'[b] \in Int
                          /\ Kept[b] \in Int /\ Kept'[b] \in Int
  BY DueType, DueTypeNext
<1>5. \A b \in Attempts \ {a} : Due'[b] = Due[b] /\ Kept'[b] = Kept[b]
  BY OthersStand DEF Due, Kept
<1>6. /\ Total(Due, Of(u)) \in Int
      /\ Total(Due', Of(u)) = Total(Due, Of(u)) + (IF u = UserOf(a) THEN Due'[a] - Due[a] ELSE 0)
  BY <1>4, <1>5, TotalsMove
<1>7. /\ Total(Kept, Of(u)) \in Int
      /\ Total(Kept', Of(u)) =
            Total(Kept, Of(u)) + (IF u = UserOf(a) THEN Kept'[a] - Kept[a] ELSE 0)
  BY <1>4, <1>5, TotalsMove
<1>8. /\ Surplus(u) \in Int
      /\ Surplus(u)' = Surplus(u) + (IF u = UserOf(a) THEN user + used ELSE 0)
  <2>1. Funds(UserQuota(u)) \in Int /\ Funds(UsedQuota(u)) \in Int
    BY FundsType, RowsAre
  <2> QED
    BY <1>2, <2>1 DEF FundsMove, Surplus
<1>9. /\ Surplus(u) + Total(Due, Of(u)) <= faults * MaxDisplaced
      /\ -(Surplus(u) + Total(Kept, Of(u))) <= faults * MaxDisplaced
  BY DEF Books
<1>10. /\ user + used + Due'[a] - Due[a] <= Slack
       /\ -(user + used + Kept'[a] - Kept[a]) <= Slack
       /\ Due[a] \in Int /\ Due'[a] \in Int /\ Kept[a] \in Int /\ Kept'[a] \in Int
  BY <1>2, <1>4 DEF Explained
<1> DEFINE D == Total(Due, Of(u))
           K == Total(Kept, Of(u))
           B == faults * MaxDisplaced
<1>11. D \in Int /\ K \in Int /\ B \in Nat
  BY <1>3, <1>6, <1>7
<1> HIDE DEF D, K, B
<1>12. Surplus(u)' + Total(Due', Of(u)) <= faults' * MaxDisplaced
  <2>1. CASE u = UserOf(a)
    BY <1>3, <1>6, <1>8, <1>9, <1>10, <1>11, <2>1 DEF D, B
  <2>2. CASE u # UserOf(a)
    BY <1>3, <1>6, <1>8, <1>9, <1>10, <1>11, <2>2 DEF D, B
  <2> QED
    BY <2>1, <2>2
<1>13. -(Surplus(u)' + Total(Kept', Of(u))) <= faults' * MaxDisplaced
  <2>1. CASE u = UserOf(a)
    BY <1>3, <1>7, <1>8, <1>9, <1>10, <1>11, <2>1 DEF K, B
  <2>2. CASE u # UserOf(a)
    BY <1>3, <1>7, <1>8, <1>9, <1>10, <1>11, <2>2 DEF K, B
  <2> QED
    BY <2>1, <2>2
<1> QED
  BY <1>12, <1>13

\* The sum of what a user's tokens have spent moves with the attempt's token.
LEMMA SpentMoves ==
    ASSUME IsFiniteSet(Tokens), TypeOK, NEW u \in Users, NEW a \in Attempts,
           NEW user \in Int, NEW used \in Int, NEW token \in Int,
           FundsMove(a, user, used, token)
    PROVE  /\ Total(Spent, TokensOf(u)) \in Int
           /\ Total(Spent', TokensOf(u)) =
                 Total(Spent, TokensOf(u)) - (IF u = UserOf(a) THEN token ELSE 0)
<1> DEFINE S == TokensOf(u)
           s == TokenOf[a[1]]
<1>1. IsFiniteSet(S) /\ S \subseteq Tokens
  BY FS_Subset DEF TokensOf
<1>2. s \in Tokens /\ (s \in S <=> u = UserOf(a))
  BY AccountsOfAttempt DEF TokensOf, UserOf
<1>3. \A t \in Tokens : /\ Spent[t] \in Int
                        /\ Spent'[t] = Spent[t] - (IF t = s THEN token ELSE 0)
  <2> SUFFICES ASSUME NEW t \in Tokens
               PROVE  /\ Spent[t] \in Int
                      /\ Spent'[t] = Spent[t] - (IF t = s THEN token ELSE 0)
    OBVIOUS
  <2>1. Funds(TokenQuota(t)) \in Int /\ TokenQuota0[t] \in Int
    BY FundsType, RowsAre
  <2>2. Funds(TokenQuota(t))' = Funds(TokenQuota(t)) + (IF t = s THEN token ELSE 0)
    BY DEF FundsMove
  <2>3. /\ Spent[t] = TokenQuota0[t] - Funds(TokenQuota(t))
        /\ Spent'[t] = TokenQuota0[t] - Funds(TokenQuota(t))'
    BY DEF Spent
  <2> HIDE DEF s
  <2> QED
    BY <2>1, <2>2, <2>3
<1> HIDE DEF S, s
<1>4. \A t \in S : Spent[t] \in Int /\ Spent'[t] \in Int
  BY <1>1, <1>3
<1>5. Total(Spent, S) \in Int
  BY <1>1, <1>4, TotalType
<1>6. CASE u = UserOf(a)
  <2>1. \A t \in S \ {s} : Spent'[t] = Spent[t]
    BY <1>1, <1>3
  <2>2. s \in S
    BY <1>2, <1>6
  <2>3. Total(Spent', S) = Total(Spent, S) + Spent'[s] - Spent[s]
    BY ONLY <1>1, <1>4, <2>1, <2>2, TotalMoves
  <2>4. Spent'[s] = Spent[s] - token /\ Spent[s] \in Int
    BY <1>2, <1>3
  <2> QED
    BY <1>5, <1>6, <2>3, <2>4 DEF S
<1>7. CASE u # UserOf(a)
  <2>1. \A t \in S : Spent[t] \in Int /\ Spent'[t] = Spent[t]
    BY <1>1, <1>2, <1>3, <1>7
  <2>2. Total(Spent', S) = Total(Spent, S)
    BY ONLY <1>1, <2>1, TotalSame
  <2> QED
    BY <1>5, <1>7, <2>2 DEF S
<1> QED
  BY <1>6, <1>7

\* The step of an attempt keeps the tokens in step with their users.
LEMMA StepKeepsTokenBooks ==
    ASSUME IsFiniteSet(Requests), IsFiniteSet(Tokens), MaxDisplaced \in Nat,
           TypeOK, TypeOK', ServedOnce, Amounts, Amounts', TokenBooks,
           NEW a \in Attempts, Step(a)
    PROVE  TokenBooks'
<1>1. /\ faults' = faults \/ faults' = faults + 1
      /\ \E user, used, token \in Int :
            FundsMove(a, user, used, token) /\ Explained(a, user, used, token)
  BY StepExplained
<1>2. PICK user \in Int, used \in Int, token \in Int :
         FundsMove(a, user, used, token) /\ Explained(a, user, used, token)
  BY <1>1
<1> DEFINE NextLead(u) == UserQuota0[u] - Funds(UserQuota(u))' - Total(Spent', TokensOf(u))
                              - Total(TokenDue', Of(u))
<1> SUFFICES ASSUME NEW u \in Users, \A r \in Playground : OwnerOf[TokenOf[r]] # u
             PROVE  Gap(NextLead(u)) <= faults' * MaxDisplaced
  BY DEF TokenBooks, Lead
<1>3. /\ faults * MaxDisplaced \in Nat /\ Slack \in Nat
      /\ faults' * MaxDisplaced = faults * MaxDisplaced + Slack
  BY <1>1, SlackGrows DEF TypeOK
<1>4. \A b \in Attempts : TokenDue[b] \in Int /\ TokenDue'[b] \in Int
  BY DueType, DueTypeNext
<1>5. \A b \in Attempts \ {a} : TokenDue'[b] = TokenDue[b]
  BY OthersStand DEF TokenDue
<1>6. /\ Total(TokenDue, Of(u)) \in Int
      /\ Total(TokenDue', Of(u)) =
            Total(TokenDue, Of(u)) + (IF u = UserOf(a) THEN TokenDue'[a] - TokenDue[a] ELSE 0)
  BY <1>4, <1>5, TotalsMove
<1>7. /\ Total(Spent, TokensOf(u)) \in Int
      /\ Total(Spent', TokensOf(u)) =
            Total(Spent, TokensOf(u)) - (IF u = UserOf(a) THEN token ELSE 0)
  BY <1>2, SpentMoves
<1>8. /\ Funds(UserQuota(u)) \in Int
      /\ Funds(UserQuota(u))' = Funds(UserQuota(u)) + (IF u = UserOf(a) THEN user ELSE 0)
  BY <1>2, FundsType, RowsAre DEF FundsMove
<1>9. Gap(Lead(u)) <= faults * MaxDisplaced
  BY DEF TokenBooks
<1>10. u = UserOf(a) => Gap(token - user - (TokenDue'[a] - TokenDue[a])) <= Slack
  <2>1. u = UserOf(a) => a[1] \notin Playground
    BY DEF UserOf
  <2> QED
    BY <1>2, <2>1 DEF Explained
<1>11. TokenDue[a] \in Int /\ TokenDue'[a] \in Int /\ UserQuota0[u] \in Int
  BY <1>4
<1> DEFINE D == Total(TokenDue, Of(u))
           T == Total(Spent, TokensOf(u))
           B == faults * MaxDisplaced
           F == Funds(UserQuota(u))
<1>12. D \in Int /\ T \in Int /\ B \in Nat /\ F \in Int
  BY <1>3, <1>6, <1>7, <1>8
<1>13. Lead(u) = UserQuota0[u] - F - T - D
  BY DEF Lead
<1> HIDE DEF D, T, B, F
<1>14. CASE u = UserOf(a)
  <2>1. NextLead(u) = Lead(u) + (token - user - (TokenDue'[a] - TokenDue[a]))
    BY <1>6, <1>7, <1>8, <1>11, <1>12, <1>13, <1>14 DEF D, T, F
  <2>2. \A x, y, b, c \in Int : Gap(x) <= b /\ Gap(y) <= c => Gap(x + y) <= b + c
    BY DEF Gap
  <2>3. Lead(u) \in Int /\ token - user - (TokenDue'[a] - TokenDue[a]) \in Int
    BY <1>11, <1>12, <1>13
  <2> HIDE DEF NextLead
  <2> QED
    BY <1>3, <1>9, <1>10, <1>14, <2>1, <2>2, <2>3
<1>15. CASE u # UserOf(a)
  <2>1. NextLead(u) = Lead(u)
    BY <1>6, <1>7, <1>8, <1>11, <1>12, <1>13, <1>15 DEF D, T, F
  <2>2. Lead(u) \in Int
    BY <1>11, <1>12, <1>13
  <2> HIDE DEF NextLead
  <2> QED
    BY <1>3, <1>9, <2>1, <2>2 DEF Gap
<1> QED
  BY <1>14, <1>15

\* A step that moves no funds and no attempt keeps the books.
LEMMA RestKeepsBooks ==
    ASSUME MaxDisplaced \in Nat, faults \in Nat, faults' = faults \/ faults' = faults + 1,
           \A y \in Accounts : Funds(y)' = Funds(y) /\ Funds(y) \in Int,
           IsFiniteSet(Requests), IsFiniteSet(Tokens), TypeOK, UNCHANGED <<pc, pre, price>>
    PROVE  (Books => Books') /\ (TokenBooks => TokenBooks')
<1> DEFINE B == faults * MaxDisplaced
           C == faults' * MaxDisplaced
<1>1. B \in Nat /\ C \in Nat /\ B <= C
  BY SlackGrows
<1>2. Due' = Due /\ Kept' = Kept /\ TokenDue' = TokenDue
  BY DEF Due, Kept, TokenDue
<1>3. Spent' = Spent
  BY RowsAre DEF Spent
<1>4. \A u \in Users : /\ Surplus(u)' = Surplus(u) /\ Surplus(u) \in Int
                       /\ Funds(UserQuota(u))' = Funds(UserQuota(u))
                       /\ Funds(UserQuota(u)) \in Int
  BY RowsAre DEF Surplus
<1>5. ASSUME NEW u \in Users
      PROVE  /\ Total(Due, Of(u)) \in Int /\ Total(Kept, Of(u)) \in Int
             /\ Total(TokenDue, Of(u)) \in Int /\ Total(Spent, TokensOf(u)) \in Int
  <2>1. IsFiniteSet(Of(u)) /\ Of(u) \subseteq Attempts
    BY FiniteAttempts
  <2>2. \A a \in Of(u) : Due[a] \in Int /\ Kept[a] \in Int /\ TokenDue[a] \in Int
    BY <2>1, DueType
  <2>3. IsFiniteSet(TokensOf(u)) /\ \A t \in TokensOf(u) : Spent[t] \in Int
    BY FS_Subset, RowsAre DEF TokensOf, Spent
  <2>4. Total(Due, Of(u)) \in Int
    BY ONLY <2>1, <2>2, TotalType
  <2>5. Total(Kept, Of(u)) \in Int
    BY ONLY <2>1, <2>2, TotalType
  <2>6. Total(TokenDue, Of(u)) \in Int
    BY ONLY <2>1, <2>2, TotalType
  <2>7. Total(Spent, TokensOf(u)) \in Int
    BY ONLY <2>3, TotalType
  <2> QED
    BY <2>4, <2>5, <2>6, <2>7
<1>6. ASSUME Books PROVE Books'
  <2> SUFFICES ASSUME NEW u \in Users
               PROVE  /\ Surplus(u)' + Total(Due', Of(u)) <= C
                      /\ -(Surplus(u)' + Total(Kept', Of(u))) <= C
    BY DEF Books
  <2>1. Surplus(u) + Total(Due, Of(u)) <= B /\ -(Surplus(u) + Total(Kept, Of(u))) <= B
    BY <1>6 DEF Books
  <2> HIDE DEF B, C
  <2> QED
    BY <1>1, <1>2, <1>4, <1>5, <2>1
<1>7. ASSUME TokenBooks PROVE TokenBooks'
  <2> SUFFICES ASSUME NEW u \in Users, \A r \in Playground : OwnerOf[TokenOf[r]] # u
               PROVE  Gap(UserQuota0[u] - Funds(UserQuota(u))' - Total(Spent', TokensOf(u))
                            - Total(TokenDue', Of(u))) <= C
    BY DEF TokenBooks, Lead
  <2>1. Gap(UserQuota0[u] - Funds(UserQuota(u)) - Total(Spent, TokensOf(u))
               - Total(TokenDue, Of(u))) <= B
    BY <1>7 DEF TokenBooks, Lead
  <2>2. UserQuota0[u] \in Int
    OBVIOUS
  <2> HIDE DEF B, C
  <2> QED
    BY <1>1, <1>2, <1>3, <1>4, <1>5, <2>1, <2>2 DEF Gap
<1> QED
  BY <1>6, <1>7

\* When everything is settled nothing is under way, but for what ClaudeHelper
\* has kept.
LEMMA SettledTotals ==
    ASSUME IsFiniteSet(Requests), TypeOK, Settled, NEW u \in Users
    PROVE  /\ Total(Due, Of(u)) = 0 /\ Total(TokenDue, Of(u)) = 0
           /\ Total(Kept, Of(u)) =
                MapThenSumSet(LAMBDA a : pre[a],
                              {a \in Attempts : /\ UserOf(a) = u /\ pc[a] = "failed"
                                                /\ a[1] \in ClaudeRequests})
<1> DEFINE S == Of(u)
           K == {a \in Attempts : /\ UserOf(a) = u /\ pc[a] = "failed"
                                  /\ a[1] \in ClaudeRequests}
<1>1. IsFiniteSet(S) /\ S \subseteq Attempts
  BY FiniteAttempts
<1>2. \A a \in S : /\ Due[a] \in Int /\ Due[a] = 0 /\ TokenDue[a] \in Int /\ TokenDue[a] = 0
                   /\ Kept[a] \in Int
  <2>1. \A a \in S : pc[a] \in Ended
    BY <1>1 DEF Settled
  <2>2. \A a \in S : Due[a] = 0 /\ TokenDue[a] = 0
    BY <1>1, <2>1 DEF Ended, Due, TokenDue
  <2> QED
    BY <1>1, <2>2, DueType
<1>3. K \in SUBSET S /\ IsFiniteSet(K)
  <2>1. K \in SUBSET S
    BY DEF Of
  <2> HIDE DEF K, S
  <2> QED
    BY <1>1, <2>1, FS_Subset
<1>4. \A a \in S \ K : Kept[a] = 0
  BY <1>1, <1>2 DEF Kept, Of
<1>5. \A a \in K : Kept[a] = pre[a] /\ pre[a] \in Int
  BY DEF Kept, TypeOK
<1> HIDE DEF S, K
<1>7. Total(Due, S) = 0
  BY ONLY <1>1, <1>2, TotalOfZeros
<1>8. Total(TokenDue, S) = 0
  BY ONLY <1>1, <1>2, TotalOfZeros
<1>9. Total(Kept, S) = Total(Kept, K)
  BY ONLY <1>1, <1>2, <1>3, <1>4, TotalOfRest
<1>10. Total(Kept, K) = Total(pre, K)
  BY ONLY <1>3, <1>5, TotalSame
<1>11. Total(pre, K) = MapThenSumSet(LAMBDA a : pre[a], K)
  BY DEF Total
<1> QED
  BY <1>7, <1>8, <1>9, <1>10, <1>11 DEF S, K

\* What a user's tokens have spent, as SettledTokens sums it.
LEMMA SpentIs ==
    ASSUME IsFiniteSet(Tokens), TypeOK, NEW u \in Users
    PROVE  MapThenSumSet(LAMBDA t : TokenQuota0[t] - Funds(TokenQuota(t)),
                         {t \in Tokens : OwnerOf[t] = u}) = Total(Spent, TokensOf(u))
<1> DEFINE S == TokensOf(u)
           F(g) == g = [s \in SUBSET S |->
                          IF s = {} THEN 0
                          ELSE (TokenQuota0[First(s)] - Funds(TokenQuota(First(s))))
                                   + g[s \ {First(s)}]]
           k == CHOOSE g : F(g)
<1>1. MapThenSumSet(LAMBDA t : TokenQuota0[t] - Funds(TokenQuota(t)), S) = k[S]
  BY DEF MapThenSumSet, MapThenFoldSet, First
<1>2. IsFiniteSet(S) /\ S \subseteq Tokens
  BY FS_Subset DEF TokensOf
<1>3. \A t \in S : Spent[t] = TokenQuota0[t] - Funds(TokenQuota(t)) /\ Spent[t] \in Int
  BY <1>2, FundsType, RowsAre DEF Spent
<1> HIDE DEF S
<1>4. \A g : F(g) <=> Adds(g, Spent, S)
  <2>1. \A s \in SUBSET S : s # {} => First(s) \in S
    BY DEF First
  <2> QED
    BY <1>3, <2>1 DEF Adds
<1>5. PICK g : /\ Adds(g, Spent, S)
               /\ \A T \in SUBSET S : Total(Spent, T) = g[T] /\ g[T] \in Int
  BY ONLY <1>2, <1>3, TotalIs
<1>6. F(k)
  <2>1. \E h : F(h)
    BY <1>4, <1>5
  <2> HIDE DEF F
  <2> QED
    BY <2>1, Zenon
<1>7. Adds(k, Spent, S)
  BY <1>4, <1>6
<1> HIDE DEF k
<1>8. \A s \in SUBSET S : k[s] = g[s]
  BY ONLY <1>2, <1>5, <1>7, TotalUnique
<1>9. k[S] = Total(Spent, S)
  BY <1>5, <1>8
<1> QED
  BY <1>1, <1>9 DEF S, TokensOf

\* The books hold throughout.
LEMMA BooksAlways ==
    ASSUME IsFiniteSet(Requests), Requests # {}, IsFiniteSet(Prices), IsFiniteSet(Tokens)
    PROVE  Spec => [](Amounts /\ Books /\ TokenBooks)
<1>1. MaxDisplaced \in Nat
  BY MaxIs
<1>2. Init => Amounts /\ Books /\ TokenBooks
  <2> SUFFICES ASSUME Init PROVE Amounts /\ Books /\ TokenBooks
    OBVIOUS
  <2>1. TypeOK
    BY InitType
  <2>2. \A a \in Attempts : /\ pc[a] \in {"idle", "check", "auth"}
                            /\ pre[a] = 0 /\ price[a] = 0
    BY DEF Init
  <2>3. \A a \in Attempts : Due[a] = 0 /\ Kept[a] = 0 /\ TokenDue[a] = 0
    BY <2>2 DEF Due, Kept, TokenDue
  <2>4. /\ \A u \in Users : /\ Funds(UserQuota(u)) = UserQuota0[u]
                            /\ Funds(UsedQuota(u)) = 0
        /\ \A t \in Tokens : Funds(TokenQuota(t)) = TokenQuota0[t]
    <3>1. /\ \A u \in Users : /\ balance[UserQuota(u)] = UserQuota0[u]
                              /\ balance[UsedQuota(u)] = 0
          /\ \A t \in Tokens : balance[TokenQuota(t)] = TokenQuota0[t]
      BY RowsAre DEF Init, UserQuota, UsedQuota, TokenQuota
    <3>2. \A y \in Accounts : store[y] = 0 /\ taken[y] = 0 /\ lost[y] = 0
      BY DEF Init
    <3> QED
      BY <3>1, <3>2, RowsAre DEF Funds
  <2>5. \A t \in Tokens : Spent[t] = 0
    BY <2>4 DEF Spent
  <2>6. ASSUME NEW u \in Users
        PROVE  /\ Total(Due, Of(u)) = 0 /\ Total(Kept, Of(u)) = 0
               /\ Total(TokenDue, Of(u)) = 0 /\ Total(Spent, TokensOf(u)) = 0
    <3>1. IsFiniteSet(Of(u)) /\ Of(u) \subseteq Attempts
      BY FiniteAttempts
    <3>2. IsFiniteSet(TokensOf(u)) /\ TokensOf(u) \subseteq Tokens
      BY FS_Subset DEF TokensOf
    <3>3. Total(Due, Of(u)) = 0
      BY ONLY <3>1, <2>3, TotalOfZeros
    <3>4. Total(Kept, Of(u)) = 0
      BY ONLY <3>1, <2>3, TotalOfZeros
    <3>5. Total(TokenDue, Of(u)) = 0
      BY ONLY <3>1, <2>3, TotalOfZeros
    <3>6. Total(Spent, TokensOf(u)) = 0
      BY ONLY <3>2, <2>5, TotalOfZeros
    <3> QED
      BY <3>3, <3>4, <3>5, <3>6
  <2>7. \A u \in Users : Surplus(u) = 0 /\ Lead(u) = 0
    BY <2>4, <2>6 DEF Surplus, Lead
  <2>8. faults = 0 /\ 0 * MaxDisplaced = 0
    BY <1>1 DEF Init
  <2> QED
    BY <1>1, <2>2, <2>6, <2>7, <2>8 DEF Amounts, Books, TokenBooks, Gap
<1>3. TypeOK /\ TypeOK' /\ ServedOnce /\ Amounts /\ Books /\ TokenBooks /\ [Next]_vars
        => (Amounts /\ Books /\ TokenBooks)'
  <2> SUFFICES ASSUME TypeOK, TypeOK', ServedOnce, Amounts, Books, TokenBooks, [Next]_vars
               PROVE  Amounts' /\ Books' /\ TokenBooks'
    OBVIOUS
  <2>1. Amounts'
    BY AmountsHold
  <2>2. CASE \E a \in Attempts : Step(a)
    BY <1>1, <2>1, <2>2, StepKeepsBooks, StepKeepsTokenBooks
  <2>3. CASE Updater \/ UNCHANGED vars
    <3>1. /\ \A y \in Accounts : Funds(y)' = Funds(y) /\ Funds(y) \in Int
          /\ faults' = faults \/ faults' = faults + 1
          /\ UNCHANGED <<pc, pre, price>>
      BY <2>3, UpdaterKeepsFunds, FundsType DEF vars, Funds
    <3>2. faults \in Nat
      BY DEF TypeOK
    <3> QED
      BY <1>1, <2>1, <3>1, <3>2, RestKeepsBooks
  <2> QED
    BY <2>2, <2>3 DEF Next
<1> QED
  BY <1>2, <1>3, TypeCorrect, RequestServedOnce, PTL DEF Spec

\* Every user's books balance when everything is settled, up to what the
\* failed statements displaced: no path through retries, errors and refunds
\* makes quota, and none loses any but the reservations ClaudeHelper keeps
\* (SettledFairly, of preConsumeQuota, returnPreConsumedQuota,
\* postConsumeQuota and the batch updater).
THEOREM BooksSettleFairly ==
    ASSUME IsFiniteSet(Requests), Requests # {}, IsFiniteSet(Prices), IsFiniteSet(Tokens)
    PROVE  Spec => []SettledFairly
<1>1. TypeOK /\ Books => SettledFairly
  <2> SUFFICES ASSUME TypeOK, Books, Settled, NEW u \in Users
               PROVE  /\ Surplus(u) <= faults * MaxDisplaced
                      /\ -Surplus(u) <= faults * MaxDisplaced
                           + MapThenSumSet(LAMBDA a : pre[a],
                                {a \in Attempts : /\ UserOf(a) = u /\ pc[a] = "failed"
                                                  /\ a[1] \in ClaudeRequests})
    BY DEF SettledFairly, SettledNoGain, SettledLossBounded
  <2> DEFINE K == MapThenSumSet(LAMBDA a : pre[a],
                                {a \in Attempts : /\ UserOf(a) = u /\ pc[a] = "failed"
                                                  /\ a[1] \in ClaudeRequests})
             B == faults * MaxDisplaced
  <2>1. Total(Due, Of(u)) = 0 /\ Total(Kept, Of(u)) = K
    BY SettledTotals
  <2>2. Surplus(u) + Total(Due, Of(u)) <= B /\ -(Surplus(u) + Total(Kept, Of(u))) <= B
    BY DEF Books
  <2>3. Surplus(u) \in Int
    BY FundsType, RowsAre DEF Surplus
  <2>4. K \in Int
    <3>1. IsFiniteSet(Of(u)) /\ \A a \in Of(u) : Kept[a] \in Int
      BY FiniteAttempts, DueType
    <3>2. Total(Kept, Of(u)) \in Int
      BY ONLY <3>1, TotalType
    <3> QED
      BY <2>1, <3>2
  <2>5. B \in Int
    BY MaxIs DEF TypeOK
  <2> HIDE DEF K, B
  <2>6. Surplus(u) <= B /\ -Surplus(u) <= B + K
    BY <2>1, <2>2, <2>3, <2>4, <2>5
  <2> QED
    BY <2>6 DEF K, B
<1> QED
  BY <1>1, BooksAlways, TypeCorrect, PTL

\* Without ClaudeHelper the difference is bounded both ways by the failed
\* statements alone (SettledBooks).
THEOREM BooksSettle ==
    ASSUME IsFiniteSet(Requests), Requests # {}, IsFiniteSet(Prices), IsFiniteSet(Tokens),
           ClaudeRequests = {}
    PROVE  Spec => []SettledBooks
<1>1. TypeOK /\ Books => SettledBooks
  <2> SUFFICES ASSUME TypeOK, Books, Settled, NEW u \in Users
               PROVE  Gap(Surplus(u)) <= faults * MaxDisplaced
    BY DEF SettledBooks
  <2> DEFINE B == faults * MaxDisplaced
  <2>1. Total(Due, Of(u)) = 0
    BY SettledTotals
  <2>2. Kept = Due
    BY DEF Kept, Due
  <2>3. Surplus(u) + Total(Due, Of(u)) <= B /\ -(Surplus(u) + Total(Kept, Of(u))) <= B
    BY DEF Books
  <2>4. Surplus(u) \in Int
    BY FundsType, RowsAre DEF Surplus
  <2>5. B \in Int
    BY MaxIs DEF TypeOK
  <2> HIDE DEF B
  <2>6. Gap(Surplus(u)) <= B
    BY <2>1, <2>2, <2>3, <2>4, <2>5 DEF Gap
  <2> QED
    BY <2>6 DEF B
<1> QED
  BY <1>1, BooksAlways, TypeCorrect, PTL

\* When everything is settled a user and his tokens have lost the same, up to
\* what the failed statements displaced: a reservation is taken from both and
\* returned to both (SettledTokens, of PreConsumeTokenQuota, PostConsumeQuota
\* and returnPreConsumedQuota).
THEOREM TokensSettle ==
    ASSUME IsFiniteSet(Requests), Requests # {}, IsFiniteSet(Prices), IsFiniteSet(Tokens)
    PROVE  Spec => []SettledTokens
<1>1. TypeOK /\ TokenBooks => SettledTokens
  <2> SUFFICES ASSUME TypeOK, TokenBooks, Settled, NEW u \in Users,
                      \A r \in Playground : OwnerOf[TokenOf[r]] # u
               PROVE  Gap((UserQuota0[u] - Funds(UserQuota(u)))
                           - MapThenSumSet(LAMBDA t : TokenQuota0[t] - Funds(TokenQuota(t)),
                                           {t \in Tokens : OwnerOf[t] = u}))
                         <= faults * MaxDisplaced
    BY DEF SettledTokens
  <2> DEFINE T == MapThenSumSet(LAMBDA t : TokenQuota0[t] - Funds(TokenQuota(t)),
                                {t \in Tokens : OwnerOf[t] = u})
             B == faults * MaxDisplaced
  <2>1. T = Total(Spent, TokensOf(u)) /\ Total(TokenDue, Of(u)) = 0
    BY SpentIs, SettledTotals
  <2>2. T \in Int
    <3>1. IsFiniteSet(TokensOf(u)) /\ \A t \in TokensOf(u) : Spent[t] \in Int
      BY FS_Subset, FundsType, RowsAre DEF TokensOf, Spent
    <3>2. Total(Spent, TokensOf(u)) \in Int
      BY ONLY <3>1, TotalType
    <3> QED
      BY <2>1, <3>2
  <2>3. Gap(Lead(u)) <= B
    BY DEF TokenBooks
  <2>4. Funds(UserQuota(u)) \in Int /\ UserQuota0[u] \in Int
    BY FundsType, RowsAre
  <2> HIDE DEF T, B
  <2>5. Lead(u) = (UserQuota0[u] - Funds(UserQuota(u))) - T
    BY <2>1, <2>2, <2>4 DEF Lead
  <2>6. Gap((UserQuota0[u] - Funds(UserQuota(u))) - T) <= B
    BY <2>3, <2>5
  <2> QED
    BY <2>6 DEF T, B
<1> QED
  BY <1>1, BooksAlways, TypeCorrect, PTL
-----------------------------------------------------------------------------
\* At every moment, and not only when everything is settled, a user is short
\* of exactly what his attempts hold or were charged: nothing is in between.
THEOREM UsersAreConserved ==
    ASSUME MaxFaults = 0 \/ BatchUpdateEnabled, ClaudeRequests = {}, IsFiniteSet(Requests)
    PROVE  Spec => []UsersConserved
<1> DEFINE Conserved ==
             \A u \in Users : Funds(UserQuota(u)) + Total(UserClaim, Of(u)) = UserQuota0[u]
<1>1. TypeOK /\ Conserved => UsersConserved
  <2> SUFFICES ASSUME TypeOK, Conserved, NEW u \in Users
               PROVE  UserFunds[u] + MapThenSumSet(LAMBDA c : UserClaim[c],
                          {c \in Attempts : [b \in Attempts |-> UserOf(b)][c] = u})
                        = UserQuota0[u]
    BY DEF UsersConserved, UserAccounts!Conserved, UserAccounts!MapThenSumSet,
       UserAccounts!MapThenFoldSet, MapThenSumSet, MapThenFoldSet
  <2>1. {c \in Attempts : [b \in Attempts |-> UserOf(b)][c] = u} = Of(u)
    BY DEF Of
  <2>2. MapThenSumSet(LAMBDA c : UserClaim[c], Of(u)) = Total(UserClaim, Of(u))
    BY DEF Total
  <2>3. UserFunds[u] = Funds(UserQuota(u))
    BY DEF UserFunds
  <2> QED
    BY <2>1, <2>2, <2>3
<1>2. Init => Conserved
  <2> SUFFICES ASSUME Init, NEW u \in Users
               PROVE  Funds(UserQuota(u)) + Total(UserClaim, Of(u)) = UserQuota0[u]
    OBVIOUS
  <2>1. Funds(UserQuota(u)) = UserQuota0[u] /\ \A a \in Attempts : UserClaim[a] = 0
    BY InitRefines DEF UserAccounts!Init, UserFunds
  <2>2. IsFiniteSet(Of(u)) /\ Of(u) \subseteq Attempts
    BY FiniteAttempts
  <2>3. Total(UserClaim, Of(u)) = 0
    BY ONLY <2>1, <2>2, TotalOfZeros
  <2> QED
    BY <2>1, <2>3
<1>3. TypeOK /\ TypeOK' /\ ServedOnce /\ Billed /\ Billed' /\ Conserved /\ [Next]_vars
        => Conserved'
  <2> SUFFICES ASSUME TypeOK, TypeOK', ServedOnce, Billed, Billed', [Next]_vars, Conserved,
                      NEW u \in Users
               PROVE  Funds(UserQuota(u))' + Total(UserClaim', Of(u)) = UserQuota0[u]
    OBVIOUS
  <2>1. /\ Funds(UserQuota(u)) + Total(UserClaim, Of(u)) = UserQuota0[u]
        /\ Funds(UserQuota(u)) \in Int
    BY FundsType, RowsAre
  <2>2. ASSUME NEW a \in Attempts, Step(a)
        PROVE  Funds(UserQuota(u))' + Total(UserClaim', Of(u)) = UserQuota0[u]
    <3>1. PICK used : FundsMove(a, UserClaim[a] - UserClaim'[a], used,
                                TokenClaim[a] - TokenClaim'[a])
      BY <2>2, StepClaims
    <3>2. \A b \in Attempts : UserClaim[b] \in Int /\ UserClaim'[b] \in Int
      BY ClaimType
    <3>3. \A b \in Attempts \ {a} : UserClaim'[b] = UserClaim[b]
      BY <2>2, OtherClaims
    <3>4. /\ Total(UserClaim, Of(u)) \in Int
          /\ Total(UserClaim', Of(u)) = Total(UserClaim, Of(u)) +
                (IF u = UserOf(a) THEN UserClaim'[a] - UserClaim[a] ELSE 0)
      <4> DEFINE f == UserClaim
                 h == UserClaim'
      <4>1. /\ \A b \in Attempts : f[b] \in Int /\ h[b] \in Int
            /\ \A b \in Attempts \ {a} : h[b] = f[b]
        BY <3>2, <3>3
      <4> HIDE DEF f, h
      <4>2. /\ Total(f, Of(u)) \in Int
            /\ Total(h, Of(u)) = Total(f, Of(u)) + (IF u = UserOf(a) THEN h[a] - f[a] ELSE 0)
        BY <2>2, <4>1, TotalsMove
      <4> QED
        BY <4>2 DEF f, h
    <3>5. Funds(UserQuota(u))' = Funds(UserQuota(u)) +
             (IF u = UserOf(a) THEN UserClaim[a] - UserClaim'[a] ELSE 0)
      BY <3>1 DEF FundsMove
    <3>6. UserClaim[a] \in Int /\ UserClaim'[a] \in Int
      BY <3>2
    <3> HIDE DEF Conserved
    <3> QED
      BY <2>1, <3>4, <3>5, <3>6
  <2>3. CASE Updater \/ UNCHANGED vars
    <3>1. /\ \A y \in Accounts : Funds(y)' = Funds(y)
          /\ UNCHANGED <<pc, pre, price>>
      BY <2>3, UpdaterKeepsFunds DEF vars, Funds
    <3>2. UserClaim' = UserClaim
      BY <3>1 DEF UserPhase, UserClaim
    <3> QED
      BY <2>1, <3>1, <3>2, RowsAre
  <2> QED
    BY <2>2, <2>3 DEF Next
<1> QED
  BY <1>1, <1>2, <1>3, TypeCorrect, RequestServedOnce, BilledAlways, PTL DEF Spec
=============================================================================
