----------------------- MODULE HouseholdExecution_proofs -----------------------
(***************************************************************************)
(* The execution of any household over any horizon.  The months committed  *)
(* are the state, whatever was refused in between; extra principal is paid *)
(* only beside the service of its loan; no account is overdrawn.           *)
(*                                                                         *)
(* The recursive functions of the model, the remainder of an amount and    *)
(* the first order of a set of works, are iterations: a table of their     *)
(* values exists (IterationExists), and what the table holds is shown by   *)
(* an induction over the indices of a set (Induction).                     *)
(***************************************************************************)
EXTENDS HouseholdExecution, FiniteSetTheorems, SequenceTheorems, WellFoundedInduction, TLAPS

-----------------------------------------------------------------------------
(* Iterations.                                                              *)

LEMMA LeastMember ==
    ASSUME NEW T \in SUBSET Nat, T # {}
    PROVE  \E x \in T : \A y \in T : x <= y
<1> DEFINE R == OpToRel(<, Nat)
<1>1. \A x, y \in Nat : <<y, x>> \in R <=> y < x
    BY DEF OpToRel
<1>2. IsWellFoundedOn(R, Nat)
    BY NatLessThanWellFounded
<1> HIDE DEF R
<1>3. PICK x \in T : \A y \in T : ~(<<y, x>> \in R)
    BY <1>2, WFMin
<1>4. ASSUME NEW y \in T PROVE x <= y
  <2>1. ~(y < x)
    BY <1>1, <1>3
  <2> QED BY <2>1
<1> QED BY <1>4

\* The least member of a set of naturals is in it.
LEMMA MinIsMember == ASSUME NEW T \in SUBSET Nat, T # {} PROVE Min(T) \in T
    BY LeastMember DEF Min

\* So is the largest, if there is a bound.
LEMMA MaxIsMember ==
    ASSUME NEW T \in SUBSET Nat, NEW n \in Nat, T \subseteq 0..n, T # {}
    PROVE  Max(T) \in T
<1> DEFINE U == {m \in 0..n : n - m \in T}
<1>1. U \in SUBSET Nat /\ U # {}
  <2>1. PICK x \in T : x \in 0..n
    OBVIOUS
  <2>2. x \in Nat /\ n - x \in 0..n /\ n - (n - x) = x
    BY <2>1
  <2>3. n - (n - x) \in T
    BY <2>2
  <2>4. n - x \in U
    BY <2>2, <2>3
  <2>5. U \subseteq 0..n
    OBVIOUS
  <2> HIDE DEF U
  <2> QED BY <2>4, <2>5
<1>2. PICK m \in U : \A y \in U : m <= y
  <2> HIDE DEF U
  <2> QED BY <1>1, LeastMember
<1>3. ASSUME NEW x \in T PROVE n - m >= x
  <2>1. x \in 0..n
    OBVIOUS
  <2>2. x \in Nat /\ n - x \in 0..n /\ n - (n - x) = x
    BY <2>1
  <2>3. n - (n - x) \in T
    BY <2>2
  <2>4. n - x \in U
    BY <2>2, <2>3
  <2>5. m <= n - x /\ m \in 0..n
    BY <1>2, <2>4
  <2> QED BY <2>2, <2>5
<1>4. n - m \in T /\ \A x \in T : n - m >= x
    BY <1>2, <1>3
<1> HIDE DEF U
<1> QED BY <1>4 DEF Max

LEMMA MinOfTwo ==
    ASSUME NEW a \in Nat, NEW b \in Nat
    PROVE  Min({a, b}) \in Nat /\ Min({a, b}) = IF a <= b THEN a ELSE b
    BY DEF Min

LEMMA Induction ==
    ASSUME NEW n \in Nat, NEW T, 0 \in T, \A k \in 0..n : k < n /\ k \in T => k + 1 \in T
    PROVE  \A k \in 0..n : k \in T
<1> DEFINE Bad == {k \in 0..n : k \notin T}
<1> SUFFICES ASSUME Bad # {} PROVE FALSE
    OBVIOUS
<1>1. PICK k \in Bad : \A j \in Bad : k <= j
  <2>1. Bad \in SUBSET Nat
    OBVIOUS
  <2> HIDE DEF Bad
  <2> QED BY <2>1, LeastMember
<1>2. k # 0 /\ k - 1 \in 0..n /\ k - 1 < n /\ (k - 1) + 1 = k
    OBVIOUS
<1>3. k - 1 \notin Bad
    BY <1>1, <1>2
<1> QED BY <1>2, <1>3

\* A table of values in V, each made by F from its index and the one before.
Iterates(f, F, v, n) == f[0] = v /\ \A k \in 1..n : f[k] = F[<<k, f[k - 1]>>]

LEMMA IterationExists ==
    ASSUME NEW V, NEW v \in V, NEW n \in Nat, NEW F \in [(1..n) \X V -> V]
    PROVE  \E f \in [0..n -> V] : Iterates(f, F, v, n)
<1> DEFINE Reached(m) == \E f \in [0..m -> V] : Iterates(f, F, v, m)
           T == {m \in 0..n : Reached(m)}
<1>1. Reached(0)
  <2>1. [k \in 0..0 |-> v] \in [0..0 -> V] /\ Iterates([k \in 0..0 |-> v], F, v, 0)
    BY DEF Iterates
  <2> QED BY <2>1
<1>2. ASSUME NEW m \in 0..n, m < n, Reached(m) PROVE Reached(m + 1)
  <2>1. PICK f \in [0..m -> V] : Iterates(f, F, v, m)
    BY <1>2
  <2> DEFINE g == [k \in 0..(m + 1) |-> IF k = m + 1 THEN F[<<k, f[m]>>] ELSE f[k]]
  <2>2. m + 1 \in 1..n /\ f[m] \in V /\ F[<<m + 1, f[m]>>] \in V
    BY <1>2
  <2>3. g \in [0..(m + 1) -> V]
    BY <2>2
  <2>4. \A k \in 0..m : g[k] = f[k]
    OBVIOUS
  <2>5. g[m + 1] = F[<<m + 1, g[(m + 1) - 1]>>]
    BY <2>2
  <2>6. g[0] = v
    BY <2>1, <2>4 DEF Iterates
  <2>7. ASSUME NEW k \in 1..m PROVE g[k] = F[<<k, g[k - 1]>>]
    BY <2>1, <2>4 DEF Iterates
  <2> HIDE DEF g
  <2>8. Iterates(g, F, v, m + 1)
    BY <2>5, <2>6, <2>7, SMTT(60) DEF Iterates
  <2> QED BY <2>3, <2>8
<1> HIDE DEF Reached
<1>3. 0 \in T /\ \A m \in 0..n : m < n /\ m \in T => m + 1 \in T
    BY <1>1, <1>2
<1> HIDE DEF T
<1>4. \A m \in 0..n : m \in T
    BY <1>3, Induction
<1> QED BY <1>4 DEF T, Reached

-----------------------------------------------------------------------------
(* The remainder of an amount: each source pays what it has or what is left. *)

LEMMA RemainderFalls ==
    ASSUME NEW s, s.cash \in [Accounts -> Nat], NEW sources \in Seq(Accounts), NEW amount \in Nat
    PROVE  /\ Remaining(s, sources, amount) \in [0..Len(sources) -> Nat]
           /\ Remaining(s, sources, amount)[0] = amount
           /\ \A k \in 1..Len(sources) :
                 Remaining(s, sources, amount)[k] =
                     Remaining(s, sources, amount)[k - 1]
                         - Min({s.cash[sources[k]], Remaining(s, sources, amount)[k - 1]})
<1> DEFINE n == Len(sources)
           Paid(k, left) == left - Min({s.cash[sources[k]], left})
           F == [p \in (1..n) \X Nat |-> Paid(p[1], p[2])]
           Body(f) == [k \in 0..n |-> IF k = 0 THEN amount ELSE Paid(k, f[k - 1])]
<1>1. n \in Nat /\ \A k \in 1..n : sources[k] \in Accounts
    OBVIOUS
<1>2. ASSUME NEW k \in 1..n, NEW left \in Nat PROVE Paid(k, left) \in Nat
  <2>1. s.cash[sources[k]] \in Nat
    BY <1>1
  <2> QED BY <2>1, MinOfTwo
<1>3. F \in [(1..n) \X Nat -> Nat]
  <2> HIDE DEF Paid, n
  <2> QED BY <1>2
<1>4. PICK f \in [0..n -> Nat] : Iterates(f, F, amount, n)
  <2> HIDE DEF F, n
  <2> QED BY <1>1, <1>3, IterationExists
<1>5. f = Body(f)
  <2>1. \A k \in 1..n : f[k] = Paid(k, f[k - 1])
    <3> HIDE DEF Paid, n
    <3> TAKE k \in 1..n
    <3>0. k - 1 \in 0..n
      BY <1>1
    <3>1. f[k - 1] \in Nat /\ <<k, f[k - 1]>> \in (1..n) \X Nat
      BY <3>0
    <3>2. f[k] = F[<<k, f[k - 1]>>]
      BY <1>4 DEF Iterates
    <3> QED BY <3>1, <3>2
  <2>2. f[0] = amount
    BY <1>4 DEF Iterates
  <2> HIDE DEF Paid, n
  <2> QED BY <2>1, <2>2, <1>1
<1> DEFINE c == CHOOSE g : g = Body(g)
<1>6. c = Body(c)
    BY <1>5
<1>7. Remaining(s, sources, amount) = c
    BY DEF Remaining
<1> HIDE DEF c
<1>8. c[0] = amount /\ \A k \in 1..n : c[k] = Paid(k, c[k - 1])
  <2> HIDE DEF Paid, n
  <2> QED BY <1>1, <1>6
<1>9. \A k \in 0..n : c[k] \in Nat
  <2> DEFINE T == {k \in 0..n : c[k] \in Nat}
  <2>1. 0 \in T
    BY <1>1, <1>8
  <2>2. ASSUME NEW k \in 0..n, k < n, k \in T PROVE k + 1 \in T
    <3>1. k + 1 \in 1..n /\ (k + 1) - 1 = k /\ c[k] \in Nat
      BY <1>1, <2>2
    <3>2. c[k + 1] = Paid(k + 1, c[k])
      BY <1>8, <3>1
    <3>3. c[k + 1] \in Nat
      <4> HIDE DEF Paid, n
      <4> QED BY <1>2, <3>1, <3>2
    <3> HIDE DEF n
    <3> QED BY <1>1, <3>1, <3>3
  <2> HIDE DEF T, n
  <2>3. \A k \in 0..n : k \in T
    BY <1>1, <2>1, <2>2, Induction
  <2> QED BY <2>3 DEF T
<1>10. c \in [0..n -> Nat]
  <2> HIDE DEF Paid, n
  <2> QED BY <1>6, <1>9
<1> QED BY <1>7, <1>8, <1>10

\* The first place of an account among the sources.
Place(sources, a) == SelectInSeq(sources, LAMBDA b : b = a)

LEMMA FirstPlace ==
    ASSUME NEW sources \in Seq(Accounts), NEW k \in 1..Len(sources)
    PROVE  Place(sources, sources[k]) \in 1..k /\ sources[Place(sources, sources[k])] = sources[k]
<1> DEFINE I == {i \in 1..Len(sources) : sources[i] = sources[k]}
<1>1. I \in SUBSET Nat /\ k \in I
    OBVIOUS
<1>2. Place(sources, sources[k]) = Min(I)
    BY <1>1 DEF SelectInSeq, Place
<1>3. Place(sources, sources[k]) \in I /\ \A i \in I : Place(sources, sources[k]) <= i
  <2> HIDE DEF I
  <2> QED BY <1>1, <1>2, LeastMember DEF Min
<1> QED BY <1>1, <1>3

LEMMA OnePays ==
    ASSUME NEW c \in Nat, NEW x \in Nat, NEW y, y = x - Min({c, x})
    PROVE  /\ y \in Nat /\ x - y \in Nat /\ x - y <= c
           /\ x # y => c # 0
           /\ x = y => c = 0 \/ x = 0
<1>1. Min({c, x}) = IF c <= x THEN c ELSE x
    BY MinOfTwo
<1> QED BY <1>1

\* An account pays no more than it has, and somebody pays a covered amount.
LEMMA DrawsPay ==
    ASSUME NEW s, s.cash \in [Accounts -> Nat], NEW sources \in Seq(Accounts), NEW amount \in Nat
    PROVE  /\ Draw(s, sources, amount) \in [Accounts -> Nat]
           /\ \A a \in Accounts : Draw(s, sources, amount)[a] <= s.cash[a]
           /\ Covered(s, sources, amount) /\ amount > 0 =>
                 \E a \in Accounts : Draw(s, sources, amount)[a] > 0
<1> DEFINE n == Len(sources)
           left == Remaining(s, sources, amount)
           place(a) == Place(sources, a)
           D == Draw(s, sources, amount)
<1>1. n \in Nat /\ \A k \in 1..n : sources[k] \in Accounts /\ s.cash[sources[k]] \in Nat
    OBVIOUS
<1>2. /\ left \in [0..n -> Nat] /\ left[0] = amount
      /\ \A k \in 1..n : left[k] = left[k - 1] - Min({s.cash[sources[k]], left[k - 1]})
    BY RemainderFalls
<1>3. /\ D = [a \in Accounts |-> IF a \notin Range(sources) THEN 0
                                 ELSE left[place(a) - 1] - left[place(a)]]
      /\ Covered(s, sources, amount) => left[n] = 0
    BY DEF Draw, Covered, Place
<1>4. ASSUME NEW a \in Range(sources) PROVE place(a) \in 1..n /\ sources[place(a)] = a
  <2>1. PICK k \in 1..n : sources[k] = a
    BY DEF Range
  <2>2. place(a) \in 1..k /\ sources[place(a)] = a
    BY <2>1, FirstPlace
  <2> QED BY <2>1, <2>2
<1>5. \A k \in 1..n : sources[k] \in Range(sources) /\ place(sources[k]) \in 1..k
    BY FirstPlace DEF Range
<1> HIDE DEF left, place, D, n
<1>6. ASSUME NEW k \in 1..n
      PROVE  /\ left[k - 1] \in Nat /\ left[k] \in Nat /\ left[k - 1] - left[k] \in Nat
             /\ left[k - 1] - left[k] <= s.cash[sources[k]]
             /\ left[k - 1] # left[k] => s.cash[sources[k]] # 0
             /\ left[k - 1] = left[k] => s.cash[sources[k]] = 0 \/ left[k - 1] = 0
  <2>1. k - 1 \in 0..n /\ k \in 0..n
    BY <1>1
  <2>2. left[k - 1] \in Nat /\ left[k] \in Nat
    BY <1>2, <2>1
  <2>3. s.cash[sources[k]] \in Nat
    BY <1>1
  <2> DEFINE c == s.cash[sources[k]]
             x == left[k - 1]
             y == left[k]
  <2>4. c \in Nat /\ x \in Nat /\ y = x - Min({c, x})
    BY <1>2, <2>2, <2>3
  <2>5. x \in Nat /\ y \in Nat
    BY <2>2
  <2> HIDE DEF c, x, y
  <2>6. x - y \in Nat /\ x - y <= c /\ (x # y => c # 0) /\ (x = y => c = 0 \/ x = 0)
    BY <2>4, OnePays
  <2> QED BY <2>5, <2>6 DEF c, x, y
<1>7. ASSUME NEW a \in Accounts PROVE D[a] \in Nat /\ D[a] <= s.cash[a]
    BY <1>3, <1>4, <1>6, <1>7
<1>8. D \in [Accounts -> Nat]
    BY <1>3, <1>7
<1>9. ASSUME left[n] = 0, amount > 0 PROVE \E a \in Accounts : D[a] > 0
  <2> DEFINE T == {k \in 1..n : left[k] # amount}
  <2>1. n \in T
    BY <1>1, <1>2, <1>9
  <2>2. PICK k \in T : \A j \in T : k <= j
    <3>1. T \in SUBSET Nat
      BY <1>1
    <3> HIDE DEF T
    <3> QED BY <2>1, <3>1, LeastMember
  <2>3. \A j \in 0..n : j < k => left[j] = amount
    BY <1>1, <1>2, <2>2
  <2>4. place(sources[k]) = k
    <3> DEFINE j == place(sources[k])
    <3>1. j \in 1..k /\ k \in 1..n /\ sources[k] \in Range(sources)
      BY <1>5, <2>2
    <3>2. sources[j] = sources[k]
      BY <1>4, <3>1
    <3> HIDE DEF j
    <3>3. ASSUME j # k PROVE FALSE
      <4>1. j \in 1..n /\ j - 1 \in 0..n /\ j \in 0..n /\ j < k /\ j - 1 < k
        BY <1>1, <3>1, <3>3
      <4>2. left[j] = amount /\ left[j - 1] = amount
        BY <2>3, <4>1
      <4>3. s.cash[sources[k]] = 0
        BY <1>6, <1>9, <3>2, <4>1, <4>2, SMTT(60)
      <4>4. left[k - 1] = left[k]
        BY <1>6, <3>1, <4>3
      <4>5. k - 1 \in 0..n /\ k - 1 < k
        BY <1>1, <3>1
      <4> QED BY <2>2, <2>3, <4>4, <4>5
    <3> QED BY <3>3 DEF j
  <2>5. k \in 1..n /\ k - 1 \in 0..n /\ k - 1 < k
    BY <1>1, <2>2
  <2>6. left[k - 1] - left[k] > 0
    BY <1>6, <2>2, <2>3, <2>5
  <2> QED BY <1>1, <1>3, <1>5, <2>4, <2>5, <2>6
<1> QED BY <1>3, <1>7, <1>8, <1>9 DEF D, left, n

-----------------------------------------------------------------------------
(* The candidate state and what one operation does to it.                    *)

Entries(h) == [item : DOMAIN h.plan, moved : [Accounts -> Int]]
FundingOutcomes(h) == [item : DOMAIN h.plan, paid : BOOLEAN]
States(h) ==
    [cash : [Accounts -> Nat], principal : [Loans -> Nat], owed : [Loans -> Nat],
     unpaid : [DOMAIN h.plan -> Nat], lots : Nat, satisfied : SUBSET Loans,
     books : [Books -> Seq(Entries(h))], outcomes : Seq(FundingOutcomes(h)),
     failed : BOOLEAN]

\* No account is overdrawn and no more is claimed of a loan than is owed on it.
Sound(h, s) == s \in States(h) /\ \A l \in Loans : s.owed[l] <= s.principal[l]

\* What the books show stays there.
Keeps(s, t) ==
    \A b \in Books : \A k \in DOMAIN s.books[b] :
        k \in DOMAIN t.books[b] /\ t.books[b][k] = s.books[b][k]

\* Item i is all that is new in the additional book, extra principal only of a loan
\* whose service was satisfied; and a service becomes satisfied by what i paid.
After(h, s, i, t) ==
    /\ Sound(h, t) /\ Keeps(s, t)
    /\ \A k \in DOMAIN t.books["additional"] \ DOMAIN s.books["additional"] :
          /\ t.books["additional"][k].item = i
          /\ h.plan[i].kind = "extra" => h.plan[i].loan \in s.satisfied
    /\ \A l \in t.satisfied \ s.satisfied :
          \E j \in DOMAIN t.books["liabilities"] :
              /\ t.books["liabilities"][j].moved # Nothing
              /\ t.books["liabilities"][j].item = i
              /\ h.plan[i].loan = l

LEMMA ItemTypes ==
    ASSUME NEW h \in Households, NEW i \in DOMAIN h.plan
    PROVE  /\ h.plan[i].kind \in DOMAIN Domain /\ h.plan[i].amount \in Nat
           /\ h.plan[i].from \in Seq(Accounts)
           /\ h.plan[i].kind \in {"income", "sale", "transfer"} => h.plan[i].to \in Accounts
           /\ h.plan[i].kind \in {"extra", "required"} => h.plan[i].loan \in Loans
    BY HouseholdsAssumption DEF IsHousehold, IsPlan, IsItem

LEMMA PlanIsFinite ==
    ASSUME NEW h \in Households
    PROVE  IsFiniteSet(DOMAIN h.plan) /\ DOMAIN h.plan \subseteq Nat
<1>1. h.plan \in Seq(Range(h.plan))
    BY HouseholdsAssumption DEF IsHousehold, IsPlan
<1>2. DOMAIN h.plan = 1..Len(h.plan) /\ Len(h.plan) \in Nat
    BY <1>1
<1> QED BY <1>2, FS_Interval

\* A posting adds one entry to one book.
LEMMA PostedFacts ==
    ASSUME NEW h \in Households, NEW s, Sound(h, s), NEW book \in Books, NEW i \in DOMAIN h.plan,
           NEW moved \in [Accounts -> Int], \A a \in Accounts : s.cash[a] + moved[a] \in Nat
    PROVE  LET t == Posted(s, book, i, moved)
           IN  /\ Sound(h, t)
               /\ \A b \in Books \ {book} : t.books[b] = s.books[b]
               /\ t.books[book] = Append(s.books[book], [item |-> i, moved |-> moved])
               /\ t.principal = s.principal /\ t.owed = s.owed /\ t.unpaid = s.unpaid
               /\ t.lots = s.lots /\ t.satisfied = s.satisfied /\ t.outcomes = s.outcomes
               /\ t.failed = s.failed
<1> DEFINE t == Posted(s, book, i, moved)
           entry == [item |-> i, moved |-> moved]
<1>1. s \in States(h)
    BY DEF Sound
<1>2. entry \in Entries(h) /\ s.books[book] \in Seq(Entries(h))
    BY <1>1 DEF States, Entries
<1>3. Append(s.books[book], entry) \in Seq(Entries(h))
  <2> HIDE DEF entry
  <2> QED BY <1>2
<1>4. t.books = [s.books EXCEPT ![book] = Append(@, entry)]
    BY <1>1 DEF Posted, States
<1>5. t.cash = [a \in Accounts |-> s.cash[a] + moved[a]]
    BY <1>1 DEF Posted, States
<1>6. /\ t.principal = s.principal /\ t.owed = s.owed /\ t.unpaid = s.unpaid
      /\ t.lots = s.lots /\ t.satisfied = s.satisfied /\ t.outcomes = s.outcomes
      /\ t.failed = s.failed
    BY <1>1 DEF Posted, States
<1>7. /\ \A b \in Books \ {book} : t.books[b] = s.books[b]
      /\ t.books[book] = Append(s.books[book], entry)
    BY <1>1, <1>4 DEF States
<1>8. t.books \in [Books -> Seq(Entries(h))]
  <2> HIDE DEF entry, t
  <2> QED BY <1>1, <1>3, <1>4 DEF States
<1>9. t.cash \in [Accounts -> Nat]
    BY <1>5
<1>10. t \in States(h)
  <2>1. t = [s EXCEPT !.cash = t.cash, !.books = t.books]
    BY <1>1 DEF Posted, States
  <2> HIDE DEF t
  <2> QED BY <1>1, <1>8, <1>9, <2>1 DEF States
<1> QED BY <1>6, <1>7, <1>10 DEF Sound

\* What is true After a posting, whatever else the operation set.
LEMMA PostingIsAfter ==
    ASSUME NEW h \in Households, NEW s, Sound(h, s), NEW book \in Books, NEW i \in DOMAIN h.plan,
           NEW moved \in [Accounts -> Int], \A a \in Accounts : s.cash[a] + moved[a] \in Nat,
           NEW t, Sound(h, t), t.books = Posted(s, book, i, moved).books,
           book = "additional" /\ h.plan[i].kind = "extra" => h.plan[i].loan \in s.satisfied,
           \A l \in t.satisfied \ s.satisfied :
               book = "liabilities" /\ moved # Nothing /\ h.plan[i].loan = l
    PROVE  After(h, s, i, t)
<1> DEFINE entry == [item |-> i, moved |-> moved]
           n == Len(s.books[book])
<1>1. /\ \A b \in Books \ {book} : t.books[b] = s.books[b]
      /\ t.books[book] = Append(s.books[book], entry)
    BY PostedFacts, SMTT(60)
<1>2. \A b \in Books : s.books[b] \in Seq(Entries(h))
    BY DEF Sound, States
<1>3. /\ DOMAIN s.books[book] = 1..n /\ DOMAIN t.books[book] = 1..(n + 1) /\ n \in Nat
      /\ \A k \in 1..n : t.books[book][k] = s.books[book][k]
      /\ t.books[book][n + 1] = entry
  <2>1. s.books[book] \in Seq(Entries(h)) /\ entry \in Entries(h)
    BY <1>2 DEF Entries
  <2> HIDE DEF entry
  <2> QED BY <1>1, <2>1
<1>4. Keeps(s, t)
  <2> SUFFICES ASSUME NEW b \in Books, NEW k \in DOMAIN s.books[b]
               PROVE  k \in DOMAIN t.books[b] /\ t.books[b][k] = s.books[b][k]
    BY DEF Keeps
  <2>1. CASE b = book
    BY <1>3, <2>1, SMTT(60)
  <2>2. CASE b # book
    BY <1>1, <2>2
  <2> QED BY <2>1, <2>2
<1>5. ASSUME NEW k \in DOMAIN t.books["additional"] \ DOMAIN s.books["additional"]
      PROVE  /\ t.books["additional"][k].item = i
             /\ h.plan[i].kind = "extra" => h.plan[i].loan \in s.satisfied
  <2>1. book = "additional"
    BY <1>1, <1>5 DEF Books
  <2>2. k = n + 1
    BY <1>3, <1>5, <2>1
  <2> QED BY <1>3, <2>1, <2>2
<1>6. ASSUME NEW l \in t.satisfied \ s.satisfied
      PROVE  \E j \in DOMAIN t.books["liabilities"] :
                 /\ t.books["liabilities"][j].moved # Nothing
                 /\ t.books["liabilities"][j].item = i
                 /\ h.plan[i].loan = l
  <2>1. book = "liabilities" /\ moved # Nothing /\ h.plan[i].loan = l
    BY <1>6
  <2>2. n + 1 \in DOMAIN t.books["liabilities"] /\ t.books["liabilities"][n + 1] = entry
    BY <1>3, <2>1
  <2> QED BY <2>1, <2>2
<1> QED BY <1>4, <1>5, <1>6 DEF After

\* A state in which nothing was posted.
LEMMA StillIsAfter ==
    ASSUME NEW h \in Households, NEW s, NEW i, NEW t, Sound(h, t),
           t.books = s.books, t.satisfied = s.satisfied
    PROVE  After(h, s, i, t)
    BY DEF After, Keeps

LEMMA FailIsAfter ==
    ASSUME NEW h \in Households, NEW s, NEW i, Sound(h, s)
    PROVE  After(h, s, i, Fail(s))
<1>1. Sound(h, Fail(s)) /\ Fail(s).books = s.books /\ Fail(s).satisfied = s.satisfied
    BY DEF Sound, States, Fail
<1> QED BY <1>1, StillIsAfter

\* A funding outcome changes nothing else.
LEMMA OutcomeFacts ==
    ASSUME NEW h \in Households, NEW s, Sound(h, s), NEW i \in DOMAIN h.plan, NEW paid \in BOOLEAN
    PROVE  LET t == Outcome(s, i, paid)
           IN  Sound(h, t) /\ t.books = s.books /\ t.satisfied = s.satisfied
<1> DEFINE t == Outcome(s, i, paid)
           list == Append(s.outcomes, [item |-> i, paid |-> paid])
<1>1. list \in Seq(FundingOutcomes(h))
  <2>1. s.outcomes \in Seq(FundingOutcomes(h)) /\ [item |-> i, paid |-> paid] \in FundingOutcomes(h)
    BY DEF Sound, States, FundingOutcomes
  <2> QED BY <2>1
<1>2. t = [s EXCEPT !.outcomes = list]
    BY DEF Outcome, Sound, States
<1> HIDE DEF list, t
<1>3. t \in States(h)
    BY <1>1, <1>2 DEF Sound, States
<1>4. t.books = s.books /\ t.satisfied = s.satisfied /\ t.owed = s.owed /\ t.principal = s.principal
    BY <1>2 DEF Sound, States
<1> QED BY <1>3, <1>4 DEF Sound, t

\* What is paid in and out of the accounts leaves none of them overdrawn.
LEMMA Movements ==
    ASSUME NEW h \in Households, NEW s, Sound(h, s),
           NEW sources \in Seq(Accounts), NEW amount \in Nat
    PROVE  /\ Nothing \in [Accounts -> Int]
           /\ Out(s, sources, amount) \in [Accounts -> Int]
           /\ \A a \in Accounts : /\ s.cash[a] + Out(s, sources, amount)[a] \in Nat
                                  /\ s.cash[a] + Nothing[a] \in Nat
           /\ Covered(s, sources, amount) /\ amount > 0 => Out(s, sources, amount) # Nothing
<1>1. s.cash \in [Accounts -> Nat]
    BY DEF Sound, States
<1>2. /\ Draw(s, sources, amount) \in [Accounts -> Nat]
      /\ \A a \in Accounts : Draw(s, sources, amount)[a] <= s.cash[a]
      /\ Covered(s, sources, amount) /\ amount > 0 =>
            \E a \in Accounts : Draw(s, sources, amount)[a] > 0
    BY <1>1, DrawsPay
<1>3. \A a \in Accounts : Out(s, sources, amount)[a] = -Draw(s, sources, amount)[a]
    BY DEF Out
<1>4. \A a \in Accounts : s.cash[a] + Out(s, sources, amount)[a] \in Nat
    BY <1>1, <1>2, <1>3
<1>5. Out(s, sources, amount) \in [Accounts -> Int]
    BY <1>2 DEF Out
<1>6. Covered(s, sources, amount) /\ amount > 0 => Out(s, sources, amount) # Nothing
    BY <1>2, <1>3 DEF Nothing
<1> QED BY <1>1, <1>4, <1>5, <1>6 DEF Nothing

LEMMA Credits ==
    ASSUME NEW h \in Households, NEW s, Sound(h, s), NEW to, NEW amount \in Nat
    PROVE  /\ Into(to, amount) \in [Accounts -> Nat]
           /\ \A a \in Accounts : s.cash[a] + Into(to, amount)[a] \in Nat
    BY DEF Into, Sound, States

\* Each operation in turn.
LEMMA IncomeIsAfter ==
    ASSUME NEW h \in Households, NEW s, Sound(h, s), NEW i \in DOMAIN h.plan
    PROVE  After(h, s, i, Income(s, i, h.plan[i]))
<1> DEFINE x == h.plan[i]
           moved == Into(x.to, x.amount)
           t == Posted(s, "cash_flow", i, moved)
<1>1. moved \in [Accounts -> Int] /\ \A a \in Accounts : s.cash[a] + moved[a] \in Nat
    BY ItemTypes, Credits
<1>2. "cash_flow" \in Books
    BY DEF Books
<1> HIDE DEF moved
<1>3. Sound(h, t) /\ t.satisfied = s.satisfied
    BY <1>1, <1>2, PostedFacts, ZenonT(60)
<1>4. After(h, s, i, t)
    BY <1>1, <1>2, <1>3, PostingIsAfter
<1> QED BY <1>4 DEF Income, moved

LEMMA ExpenseIsAfter ==
    ASSUME NEW h \in Households, NEW s, Sound(h, s), NEW i \in DOMAIN h.plan
    PROVE  After(h, s, i, Expense(s, i, h.plan[i]))
<1> DEFINE x == h.plan[i]
           paid == Out(s, x.from, x.amount)
           t == Posted(s, "cash_flow", i, paid)
           r == Posted(s, "cash_flow", i, Nothing)
           u == [r EXCEPT !.unpaid[i] = @ + x.amount]
<1>1. /\ paid \in [Accounts -> Int] /\ Nothing \in [Accounts -> Int]
      /\ \A a \in Accounts : s.cash[a] + paid[a] \in Nat /\ s.cash[a] + Nothing[a] \in Nat
    BY ItemTypes, Movements
<1>2. "cash_flow" \in Books /\ x.amount \in Nat
    BY ItemTypes DEF Books
<1> HIDE DEF paid
<1>3. CASE Covered(s, x.from, x.amount)
  <2>1. Sound(h, t) /\ t.satisfied = s.satisfied
    BY <1>1, <1>2, PostedFacts, ZenonT(60)
  <2> DEFINE o == Outcome(t, i, TRUE)
  <2>2. Sound(h, o) /\ o.books = t.books /\ o.satisfied = t.satisfied
    BY <2>1, OutcomeFacts
  <2> HIDE DEF o
  <2>3. After(h, s, i, o)
    BY <1>1, <1>2, <2>1, <2>2, PostingIsAfter
  <2> QED BY <1>3, <2>3 DEF Expense, paid, o
<1>4. CASE ~Covered(s, x.from, x.amount)
  <2>1. Sound(h, r) /\ r.satisfied = s.satisfied
    BY <1>1, <1>2, PostedFacts, ZenonT(60)
  <2>2. Sound(h, u) /\ u.satisfied = r.satisfied /\ u.books = r.books
    <3> HIDE DEF r
    <3>1. r.unpaid \in [DOMAIN h.plan -> Nat] /\ [r.unpaid EXCEPT ![i] = @ + x.amount] \in [DOMAIN h.plan -> Nat]
      BY <1>2, <2>1, SMTT(60) DEF Sound, States
    <3> QED BY <2>1, <3>1 DEF Sound, States
  <2> HIDE DEF u
  <2> DEFINE o == Outcome(u, i, FALSE)
  <2>3. Sound(h, o) /\ o.books = u.books /\ o.satisfied = u.satisfied
    BY <2>2, OutcomeFacts
  <2> HIDE DEF o
  <2>4. After(h, s, i, o)
    BY <1>1, <1>2, <2>1, <2>2, <2>3, PostingIsAfter
  <2> QED BY <1>4, <2>4 DEF Expense, u, o
<1> QED BY <1>3, <1>4

\* A fee, a purchase and a premium take their cash or throw.
LEMMA PaymentIsAfter ==
    ASSUME NEW h \in Households, NEW s, Sound(h, s), NEW i \in DOMAIN h.plan,
           NEW book \in {"investments", "additional"}, h.plan[i].kind # "extra"
    PROVE  LET t == Posted(s, book, i, Out(s, h.plan[i].from, h.plan[i].amount))
           IN  Sound(h, t) /\ t.satisfied = s.satisfied /\ After(h, s, i, t)
<1> DEFINE x == h.plan[i]
           moved == Out(s, x.from, x.amount)
           t == Posted(s, book, i, moved)
<1>1. moved \in [Accounts -> Int] /\ \A a \in Accounts : s.cash[a] + moved[a] \in Nat
    BY ItemTypes, Movements
<1>2. book \in Books
    BY DEF Books
<1> HIDE DEF moved
<1>3. Sound(h, t) /\ t.satisfied = s.satisfied
    BY <1>1, <1>2, PostedFacts
<1>4. After(h, s, i, t)
    BY <1>1, <1>2, <1>3, PostingIsAfter
<1> QED BY <1>3, <1>4 DEF moved

LEMMA FeeAndPremiumAreAfter ==
    ASSUME NEW h \in Households, NEW s, Sound(h, s), NEW i \in DOMAIN h.plan,
           h.plan[i].kind # "extra"
    PROVE  After(h, s, i, Fee(s, i, h.plan[i])) /\ After(h, s, i, Premium(s, i, h.plan[i]))
    BY PaymentIsAfter, FailIsAfter DEF Fee, Premium

LEMMA PurchaseIsAfter ==
    ASSUME NEW h \in Households, NEW s, Sound(h, s), NEW i \in DOMAIN h.plan,
           h.plan[i].kind # "extra"
    PROVE  After(h, s, i, Purchase(s, i, h.plan[i]))
<1> DEFINE t == Posted(s, "investments", i, Out(s, h.plan[i].from, h.plan[i].amount))
           u == [t EXCEPT !.lots = @ + 1]
<1>1. Sound(h, t) /\ t.satisfied = s.satisfied /\ After(h, s, i, t)
    BY PaymentIsAfter
<1>2. Purchase(s, i, h.plan[i]) \in {Fail(s), u}
    BY DEF Purchase
<1> HIDE DEF t
<1>3. Sound(h, u) /\ u.books = t.books /\ u.satisfied = t.satisfied
  <2>1. t.lots \in Nat /\ t.lots + 1 \in Nat
    BY <1>1 DEF Sound, States
  <2> QED BY <1>1, <2>1 DEF Sound, States
<1> HIDE DEF u
<1>4. After(h, s, i, u)
    BY <1>1, <1>3 DEF After, Keeps
<1> QED BY <1>2, <1>4, FailIsAfter

LEMMA TransferIsAfter ==
    ASSUME NEW h \in Households, NEW s, Sound(h, s), NEW i \in DOMAIN h.plan,
           h.plan[i].kind = "transfer"
    PROVE  After(h, s, i, Transfer(s, i, h.plan[i]))
<1> DEFINE x == h.plan[i]
           out == Out(s, x.from, x.amount)
           in == Into(x.to, x.amount)
           moved == [a \in Accounts |-> out[a] + in[a]]
           t == Posted(s, "investments", i, moved)
<1>1. /\ out \in [Accounts -> Int] /\ in \in [Accounts -> Nat]
      /\ \A a \in Accounts : s.cash[a] + out[a] \in Nat
      /\ s.cash \in [Accounts -> Nat]
    BY ItemTypes, Movements, Credits DEF Sound, States
<1>2. "investments" \in Books
    BY DEF Books
<1>3. Transfer(s, i, x) \in {Fail(s), t}
    BY DEF Transfer
<1> HIDE DEF out, in
<1>4. moved \in [Accounts -> Int] /\ \A a \in Accounts : s.cash[a] + moved[a] \in Nat
    BY <1>1
<1> HIDE DEF moved
<1>5. Sound(h, t) /\ t.satisfied = s.satisfied
    BY <1>2, <1>4, PostedFacts
<1>6. After(h, s, i, t)
    BY <1>2, <1>4, <1>5, PostingIsAfter
<1> QED BY <1>3, <1>6, FailIsAfter

LEMMA SaleIsAfter ==
    ASSUME NEW h \in Households, NEW s, Sound(h, s), NEW i \in DOMAIN h.plan,
           h.plan[i].kind = "sale"
    PROVE  After(h, s, i, Sale(s, i, h.plan[i]))
<1> DEFINE x == h.plan[i]
           moved == Into(x.to, x.amount)
           t == Posted(s, "additional", i, moved)
           u == [t EXCEPT !.lots = @ - 1]
<1>1. moved \in [Accounts -> Int] /\ \A a \in Accounts : s.cash[a] + moved[a] \in Nat
    BY ItemTypes, Credits
<1>2. "additional" \in Books /\ s.lots \in Nat
    BY DEF Books, Sound, States
<1>3. Sale(s, i, x) = IF s.lots = 0 THEN Fail(s) ELSE u
    BY DEF Sale
<1> HIDE DEF moved
<1>4. Sound(h, t) /\ t.satisfied = s.satisfied /\ t.lots = s.lots
    BY <1>1, <1>2, PostedFacts
<1>5. CASE s.lots # 0
  <2>1. Sound(h, u) /\ u.books = t.books /\ u.satisfied = s.satisfied
    <3> HIDE DEF t
    <3>1. t.lots \in Nat /\ t.lots - 1 \in Nat
      BY <1>2, <1>4, <1>5
    <3> QED BY <1>4, <3>1 DEF Sound, States
  <2> HIDE DEF u
  <2>2. After(h, s, i, u)
    BY <1>1, <1>2, <2>1, PostingIsAfter
  <2> QED BY <1>3, <1>5, <2>2
<1> QED BY <1>3, <1>5, FailIsAfter

\* What is due of a loan is no more than its principal.
LEMMA DueIsOwed ==
    ASSUME NEW h \in Households, NEW s, Sound(h, s), NEW i \in DOMAIN h.plan,
           h.plan[i].kind = "required"
    PROVE  Due(s, h.plan[i]) \in Nat /\ Due(s, h.plan[i]) <= s.principal[h.plan[i].loan]
<1> DEFINE x == h.plan[i]
           p == s.principal[x.loan]
           c == s.owed[x.loan]
<1>1. x.loan \in Loans /\ x.amount \in Nat
    BY ItemTypes
<1>2. p \in Nat /\ c \in Nat /\ c <= p /\ p - c \in Nat
    BY <1>1 DEF Sound, States
<1>3. Min({x.amount, p - c}) \in Nat /\ Min({x.amount, p - c}) <= p - c
    BY <1>1, <1>2, MinOfTwo
<1> QED BY <1>2, <1>3 DEF Due

LEMMA RequiredIsAfter ==
    ASSUME NEW h \in Households, NEW s, Sound(h, s), NEW i \in DOMAIN h.plan,
           h.plan[i].kind = "required"
    PROVE  After(h, s, i, Required(s, i, h.plan[i]))
<1> DEFINE x == h.plan[i]
           due == Due(s, x)
           paid == Out(s, x.from, due)
           t == Posted(s, "liabilities", i, paid)
           u == [t EXCEPT !.principal[x.loan] = @ - due, !.owed[x.loan] = 0,
                          !.satisfied = @ \cup {x.loan}]
           r == Posted(s, "liabilities", i, Nothing)
           v == [r EXCEPT !.owed[x.loan] = due]
<1>1. x.loan \in Loans /\ x.from \in Seq(Accounts) /\ "liabilities" \in Books
    BY ItemTypes DEF Books
<1>2. due \in Nat /\ due <= s.principal[x.loan]
    BY DueIsOwed
<1>3. Required(s, i, x) = IF due = 0 THEN Fail(s)
                          ELSE IF Covered(s, x.from, due) THEN Outcome(u, i, TRUE)
                          ELSE Outcome(v, i, FALSE)
    BY DEF Required
<1> HIDE DEF due
<1>4. /\ paid \in [Accounts -> Int] /\ Nothing \in [Accounts -> Int]
      /\ \A a \in Accounts : s.cash[a] + paid[a] \in Nat /\ s.cash[a] + Nothing[a] \in Nat
      /\ Covered(s, x.from, due) /\ due > 0 => paid # Nothing
    BY <1>1, <1>2, Movements
<1> HIDE DEF paid
<1>5. CASE due # 0 /\ Covered(s, x.from, due)
  <2>1. Sound(h, t) /\ t.satisfied = s.satisfied /\ t.principal = s.principal /\ t.owed = s.owed
    BY <1>1, <1>4, PostedFacts, ZenonT(60)
  <2>2. Sound(h, u) /\ u.books = t.books /\ u.satisfied = s.satisfied \cup {x.loan}
    <3> HIDE DEF t
    <3>0. /\ t.principal \in [Loans -> Nat] /\ t.owed \in [Loans -> Nat]
          /\ t.satisfied \in SUBSET Loans
      BY <2>1 DEF Sound, States
    <3>1. /\ t.principal \in [Loans -> Nat] /\ t.owed \in [Loans -> Nat]
          /\ t.principal[x.loan] - due \in Nat /\ t.satisfied \in SUBSET Loans
      BY <1>1, <1>2, <2>1, <3>0
    <3>2. /\ [t.principal EXCEPT ![x.loan] = @ - due] \in [Loans -> Nat]
          /\ [t.owed EXCEPT ![x.loan] = 0] \in [Loans -> Nat]
      BY <1>1, <3>1
    <3>3. /\ u.principal = [t.principal EXCEPT ![x.loan] = @ - due]
          /\ u.owed = [t.owed EXCEPT ![x.loan] = 0]
          /\ u.books = t.books /\ u.satisfied = t.satisfied \cup {x.loan}
          /\ u = [t EXCEPT !.principal = u.principal, !.owed = u.owed, !.satisfied = u.satisfied]
      BY <2>1 DEF Sound, States
    <3> HIDE DEF u
    <3>4. u \in States(h)
      BY <1>1, <2>1, <3>1, <3>2, <3>3, ZenonT(60) DEF Sound, States
    <3>5. \A l \in Loans : u.owed[l] <= u.principal[l]
      BY <1>1, <2>1, <3>1, <3>3 DEF Sound
    <3> QED BY <2>1, <3>3, <3>4, <3>5 DEF Sound
  <2> HIDE DEF u
  <2> DEFINE o == Outcome(u, i, TRUE)
  <2>3. Sound(h, o) /\ o.books = u.books /\ o.satisfied = u.satisfied
    BY <2>2, OutcomeFacts
  <2> HIDE DEF o
  <2>4. \A l \in o.satisfied \ s.satisfied : paid # Nothing /\ x.loan = l
    BY <1>2, <1>4, <1>5, <2>2, <2>3
  <2>5. After(h, s, i, o)
    BY <1>1, <1>4, <2>2, <2>3, <2>4, PostingIsAfter
  <2> QED BY <1>3, <1>5, <2>5 DEF o
<1>6. CASE due # 0 /\ ~Covered(s, x.from, due)
  <2>1. Sound(h, r) /\ r.satisfied = s.satisfied /\ r.principal = s.principal /\ r.owed = s.owed
    BY <1>1, <1>4, PostedFacts, ZenonT(60)
  <2>2. Sound(h, v) /\ v.books = r.books /\ v.satisfied = s.satisfied
    <3> HIDE DEF r
    <3>1. r.owed \in [Loans -> Nat] /\ [r.owed EXCEPT ![x.loan] = due] \in [Loans -> Nat]
      BY <1>1, <1>2, <2>1 DEF Sound, States
    <3>2. /\ v.owed = [r.owed EXCEPT ![x.loan] = due] /\ v.principal = r.principal
          /\ v.books = r.books /\ v.satisfied = r.satisfied
          /\ v = [r EXCEPT !.owed = v.owed]
      BY <2>1 DEF Sound, States
    <3> HIDE DEF v
    <3>3. v \in States(h)
      BY <2>1, <3>1, <3>2 DEF Sound, States
    <3>4. \A l \in Loans : v.owed[l] <= v.principal[l]
      BY <1>1, <1>2, <2>1, <3>1, <3>2 DEF Sound
    <3> QED BY <2>1, <3>2, <3>3, <3>4 DEF Sound
  <2> HIDE DEF v
  <2> DEFINE o == Outcome(v, i, FALSE)
  <2>3. Sound(h, o) /\ o.books = v.books /\ o.satisfied = v.satisfied
    BY <2>2, OutcomeFacts
  <2> HIDE DEF o
  <2>4. After(h, s, i, o)
    BY <1>1, <1>4, <2>2, <2>3, PostingIsAfter
  <2> QED BY <1>3, <1>6, <2>4 DEF o
<1> QED BY <1>3, <1>5, <1>6, FailIsAfter

LEMMA ExtraIsAfter ==
    ASSUME NEW h \in Households, NEW s, Sound(h, s), NEW i \in DOMAIN h.plan,
           h.plan[i].kind = "extra"
    PROVE  After(h, s, i, Extra(s, i, h.plan[i]))
<1> DEFINE x == h.plan[i]
           amount == Min({x.amount, s.principal[x.loan]})
           moved == Out(s, x.from, amount)
           t == Posted(s, "additional", i, moved)
           u == [t EXCEPT !.principal[x.loan] = @ - amount]
           skipped == \/ x.loan \notin s.satisfied \/ s.owed[x.loan] > 0
                      \/ amount = 0 \/ ~Covered(s, x.from, amount)
<1>1. x.loan \in Loans /\ x.from \in Seq(Accounts) /\ "additional" \in Books
    BY ItemTypes DEF Books
<1>2. amount \in Nat /\ amount <= s.principal[x.loan]
  <2>1. x.amount \in Nat /\ s.principal[x.loan] \in Nat
    BY <1>1, ItemTypes DEF Sound, States
  <2> QED BY <2>1, MinOfTwo
<1>3. Extra(s, i, x) = IF skipped THEN s ELSE u
    BY DEF Extra
<1> HIDE DEF amount
<1>4. moved \in [Accounts -> Int] /\ \A a \in Accounts : s.cash[a] + moved[a] \in Nat
    BY <1>1, <1>2, Movements
<1> HIDE DEF moved
<1>5. CASE skipped
  <2>1. After(h, s, i, s)
    BY StillIsAfter
  <2> QED BY <1>3, <1>5, <2>1
<1>6. CASE ~skipped
  <2>1. Sound(h, t) /\ t.satisfied = s.satisfied /\ t.principal = s.principal /\ t.owed = s.owed
    BY <1>1, <1>4, PostedFacts, ZenonT(60)
  <2>2. Sound(h, u) /\ u.books = t.books /\ u.satisfied = s.satisfied
    <3> HIDE DEF t
    <3>0. t.principal \in [Loans -> Nat] /\ t.owed \in [Loans -> Nat] /\ ~(s.owed[x.loan] > 0)
      BY <1>6, <2>1 DEF Sound, States
    <3>1. /\ t.principal \in [Loans -> Nat] /\ t.principal[x.loan] - amount \in Nat
          /\ [t.principal EXCEPT ![x.loan] = @ - amount] \in [Loans -> Nat]
          /\ t.owed \in [Loans -> Nat] /\ t.owed[x.loan] = 0
      BY <1>1, <1>2, <2>1, <3>0, SMTT(60)
    <3>2. /\ u.principal = [t.principal EXCEPT ![x.loan] = @ - amount] /\ u.owed = t.owed
          /\ u.books = t.books /\ u.satisfied = t.satisfied
          /\ u = [t EXCEPT !.principal = u.principal]
      BY <2>1 DEF Sound, States
    <3> HIDE DEF u
    <3>3. u \in States(h)
      BY <2>1, <3>1, <3>2 DEF Sound, States
    <3>4. \A l \in Loans : u.owed[l] <= u.principal[l]
      BY <1>1, <2>1, <3>1, <3>2 DEF Sound
    <3> QED BY <2>1, <3>2, <3>3, <3>4 DEF Sound
  <2>3. x.loan \in s.satisfied
    BY <1>6
  <2> HIDE DEF u
  <2>4. After(h, s, i, u)
    BY <1>1, <1>4, <2>2, <2>3, PostingIsAfter
  <2> QED BY <1>3, <1>6, <2>4
<1> QED BY <1>5, <1>6

\* What holds after any operation of a sound state.
LEMMA StepIsAfter ==
    ASSUME NEW h \in Households, NEW s, Sound(h, s), NEW i \in DOMAIN h.plan
    PROVE  After(h, s, i, Step(h, s, i))
<1> DEFINE x == h.plan[i]
<1>1. s.failed \in BOOLEAN
    BY DEF Sound, States
<1>2. x.kind \in {"expense", "income", "premium", "sale", "fee", "purchase", "transfer",
                  "extra", "required"}
    BY ItemTypes DEF Domain
<1>3. CASE s.failed
  <2>1. Step(h, s, i) = s
    BY <1>3 DEF Step, Operate
  <2> QED BY <2>1, StillIsAfter
<1>4. CASE ~s.failed
  <2>1. CASE x.kind = "expense"
    BY <1>4, <2>1, ExpenseIsAfter DEF Step, Operate
  <2>2. CASE x.kind = "income"
    BY <1>4, <2>2, IncomeIsAfter DEF Step, Operate
  <2>3. CASE x.kind = "fee"
    BY <1>4, <2>3, FeeAndPremiumAreAfter DEF Step, Operate
  <2>4. CASE x.kind = "premium"
    BY <1>4, <2>4, FeeAndPremiumAreAfter DEF Step, Operate
  <2>5. CASE x.kind = "purchase"
    BY <1>4, <2>5, PurchaseIsAfter DEF Step, Operate
  <2>6. CASE x.kind = "transfer"
    BY <1>4, <2>6, TransferIsAfter DEF Step, Operate
  <2>7. CASE x.kind = "sale"
    BY <1>4, <2>7, SaleIsAfter DEF Step, Operate
  <2>8. CASE x.kind = "required"
    BY <1>4, <2>8, RequiredIsAfter DEF Step, Operate
  <2>9. CASE x.kind = "extra"
    BY <1>4, <2>9, ExtraIsAfter DEF Step, Operate
  <2> QED BY <1>2, <2>1, <2>2, <2>3, <2>4, <2>5, <2>6, <2>7, <2>8, <2>9
<1> QED BY <1>1, <1>3, <1>4

-----------------------------------------------------------------------------
(* The order of the works of an instant.                                     *)

Before(o, k) == {o[j] : j \in {m \in DOMAIN o : m < k}}

\* Orders in which each work is ready when its turn comes and none comes twice.
Admitted(S, deps) ==
    {o \in Seq(S) : /\ Cardinality(Range(o)) = Len(o)
                    /\ \A k \in DOMAIN o : o[k] \in Ready(S, deps, Before(o, k))}

LEMMA ReadyAppended ==
    ASSUME NEW S, IsFiniteSet(S), NEW deps, NEW o \in Admitted(S, deps),
           NEW i \in Ready(S, deps, Range(o))
    PROVE  Append(o, i) \in Admitted(S, deps) /\ Range(Append(o, i)) = Range(o) \cup {i}
<1> DEFINE n == Len(o)
           p == Append(o, i)
<1>1. i \in S /\ i \notin Range(o)
    BY DEF Ready
<1>2. o \in Seq(S) /\ Cardinality(Range(o)) = n
    BY DEF Admitted
<1>3. /\ p \in Seq(S) /\ Len(p) = n + 1 /\ n \in Nat
      /\ DOMAIN o = 1..n /\ DOMAIN p = 1..(n + 1)
      /\ p[n + 1] = i /\ \A k \in 1..n : p[k] = o[k]
    BY <1>1, <1>2
<1> HIDE DEF p, n
<1>4. Range(p) = Range(o) \cup {i}
    BY <1>3 DEF Range
<1>5. IsFiniteSet(Range(o))
  <2>1. Range(o) \subseteq S
    BY <1>2 DEF Range
  <2> QED BY <2>1, FS_Subset
<1>6. Cardinality(Range(p)) = n + 1
    BY <1>1, <1>2, <1>4, <1>5, FS_AddElement
<1>7. ASSUME NEW k \in 1..(n + 1) PROVE p[k] \in Ready(S, deps, Before(p, k))
  <2>1. CASE k = n + 1
    <3>1. Before(p, k) = Range(o)
      BY <1>3, <2>1 DEF Before, Range
    <3> QED BY <1>3, <2>1, <3>1
  <2>2. CASE k # n + 1
    <3>1. k \in 1..n
      BY <1>3, <2>2
    <3>2. Before(p, k) = Before(o, k)
      BY <1>3, <3>1 DEF Before
    <3>3. o[k] \in Ready(S, deps, Before(o, k))
      BY <1>3, <3>1 DEF Admitted
    <3> QED BY <1>3, <3>1, <3>2, <3>3
  <2> QED BY <2>1, <2>2
<1> QED BY <1>3, <1>4, <1>6, <1>7 DEF Admitted, p

\* The first order is an admitted one, and it stops early only where nothing is ready.
LEMMA FirstOrderFacts ==
    ASSUME NEW S \in SUBSET Nat, IsFiniteSet(S), NEW deps
    PROVE  /\ FirstOrder(S, deps) \in Admitted(S, deps)
           /\ \/ Len(FirstOrder(S, deps)) = Cardinality(S)
              \/ Ready(S, deps, Range(FirstOrder(S, deps))) = {}
<1> DEFINE n == Cardinality(S)
           V == Admitted(S, deps)
           ready(o) == Ready(S, deps, Range(o))
           Longer(o) == IF ready(o) = {} THEN o ELSE Append(o, Min(ready(o)))
           F == [x \in (1..n) \X V |-> Longer(x[2])]
           Body(f) == [k \in 0..n |-> IF k = 0 THEN <<>> ELSE Longer(f[k - 1])]
<1>1. n \in Nat
    BY FS_CardinalityType
<1>2. <<>> \in V
  <2>1. Range(<<>>) = {} /\ Cardinality({}) = 0
    BY FS_EmptySet DEF Range
  <2> QED BY <2>1 DEF Admitted
<1>3. ASSUME NEW o \in V
      PROVE  Longer(o) \in V /\ (ready(o) # {} => Len(Longer(o)) = Len(o) + 1)
  <2>1. ready(o) \in SUBSET Nat
    BY DEF Ready
  <2>2. CASE ready(o) # {}
    <3>1. Min(ready(o)) \in ready(o)
      <4> HIDE DEF ready
      <4> QED BY <2>1, <2>2, MinIsMember
    <3>2. Append(o, Min(ready(o))) \in V
      BY <3>1, ReadyAppended
    <3>3. Longer(o) = Append(o, Min(ready(o)))
      BY <2>2
    <3>4. o \in Seq(S)
      BY DEF Admitted
    <3> HIDE DEF V, ready, Longer
    <3> QED BY <3>2, <3>3, <3>4
  <2>3. CASE ready(o) = {}
    BY <2>3
  <2> QED BY <2>2, <2>3
<1> HIDE DEF Longer
<1>4. F \in [(1..n) \X V -> V]
  <2> HIDE DEF V, n
  <2> QED BY <1>3
<1>5. PICK f \in [0..n -> V] : Iterates(f, F, <<>>, n)
  <2> HIDE DEF F, V, n
  <2> QED BY <1>1, <1>2, <1>4, IterationExists
<1>6. f = Body(f)
  <2>1. \A k \in 1..n : f[k] = Longer(f[k - 1])
    <3> HIDE DEF V, n
    <3> TAKE k \in 1..n
    <3>1. k - 1 \in 0..n
      BY <1>1
    <3>2. <<k, f[k - 1]>> \in (1..n) \X V
      BY <3>1
    <3>3. f[k] = F[<<k, f[k - 1]>>]
      BY <1>5 DEF Iterates
    <3> QED BY <3>2, <3>3
  <2>2. f[0] = <<>>
    BY <1>5 DEF Iterates
  <2> HIDE DEF V, n
  <2> QED BY <1>1, <2>1, <2>2
<1> DEFINE c == CHOOSE g : g = Body(g)
<1>7. c = Body(c)
    BY <1>6
<1>8. FirstOrder(S, deps) = c[n]
    BY DEF FirstOrder, Longer
<1> HIDE DEF c
<1>9. c[0] = <<>> /\ \A k \in 1..n : c[k] = Longer(c[k - 1])
  <2> HIDE DEF V, n
  <2> QED BY <1>1, <1>7
<1> HIDE DEF V, n, ready
<1> DEFINE T == {k \in 0..n : c[k] \in V /\ (Len(c[k]) = k \/ ready(c[k]) = {})}
<1>10. 0 \in T
    BY <1>1, <1>2, <1>9
<1>11. ASSUME NEW k \in 0..n, k < n, k \in T PROVE k + 1 \in T
  <2>1. k + 1 \in 1..n /\ k + 1 \in 0..n /\ (k + 1) - 1 = k
    BY <1>1, <1>11
  <2>2. c[k + 1] = Longer(c[k])
    BY <1>9, <2>1
  <2>3. ready(c[k]) = {} => Longer(c[k]) = c[k]
    BY DEF Longer
  <2>4. c[k + 1] \in V /\ (Len(c[k + 1]) = k + 1 \/ ready(c[k + 1]) = {})
    BY <1>3, <1>11, <2>2, <2>3
  <2> QED BY <2>1, <2>4
<1> HIDE DEF T
<1>12. \A k \in 0..n : k \in T
    BY <1>1, <1>10, <1>11, Induction
<1>13. n \in T
    BY <1>1, <1>12
<1> QED BY <1>8, <1>13 DEF T, V, n, ready

\* A set of works that wait for each other.
Circular(U, deps) == U # {} /\ \A i \in U : \E e \in deps : e[2] = i /\ e[1] \in U

\* The order tried first holds every work once, each after all it depends on among them,
\* exactly when no set of the works is circular: a month is refused for a cycle of its
\* dependencies if and only if there is one.
THEOREM FirstOrderIsExact ==
    ASSUME NEW S \in SUBSET Nat, IsFiniteSet(S), NEW deps
    PROVE  /\ Ordered(S, deps) =>
                 LET o == FirstOrder(S, deps)
                 IN  /\ Range(o) = S /\ Len(o) = Cardinality(S)
                     /\ \A k \in DOMAIN o : \A e \in deps :
                           e[2] = o[k] /\ e[1] \in S => e[1] \in Before(o, k)
           /\ Ordered(S, deps) <=> ~\E U \in SUBSET S : Circular(U, deps)
<1> DEFINE o == FirstOrder(S, deps)
           Follows == \A k \in DOMAIN o : \A e \in deps :
                         e[2] = o[k] /\ e[1] \in S => e[1] \in Before(o, k)
<1>1. o \in Admitted(S, deps) /\ (Len(o) = Cardinality(S) \/ Ready(S, deps, Range(o)) = {})
    BY FirstOrderFacts
<1>2. Ordered(S, deps) <=> Len(o) = Cardinality(S)
    BY DEF Ordered
<1> HIDE DEF o
<1>3. /\ o \in Seq(S) /\ Cardinality(Range(o)) = Len(o) /\ Range(o) \in SUBSET S
      /\ DOMAIN o \in SUBSET Nat
  <2>1. o \in Seq(S) /\ Cardinality(Range(o)) = Len(o)
    BY <1>1 DEF Admitted
  <2> QED BY <2>1 DEF Range
<1>4. Follows
    BY <1>1 DEF Admitted, Ready
<1>5. ASSUME Len(o) = Cardinality(S) PROVE Range(o) = S
    BY <1>3, <1>5, FS_Subset
<1>6. ASSUME Len(o) = Cardinality(S), NEW U \in SUBSET S, Circular(U, deps) PROVE FALSE
  <2> DEFINE T == {k \in DOMAIN o : o[k] \in U}
  <2>1. T # {}
    BY <1>5, <1>6 DEF Range, Circular
  <2>2. PICK k \in T : \A j \in T : k <= j
    <3>1. T \in SUBSET Nat
      BY <1>3
    <3> HIDE DEF T
    <3> QED BY <2>1, <3>1, LeastMember
  <2>3. PICK e \in deps : e[2] = o[k] /\ e[1] \in U
    BY <1>6, <2>2 DEF Circular
  <2>4. e[1] \in Before(o, k)
    BY <1>4, <2>2, <2>3
  <2>5. PICK j \in DOMAIN o : j < k /\ e[1] = o[j]
    BY <2>4 DEF Before
  <2>6. j \in T
    BY <2>3, <2>5
  <2> QED BY <1>3, <2>2, <2>5, <2>6
<1>7. ASSUME Len(o) # Cardinality(S) PROVE \E U \in SUBSET S : Circular(U, deps)
  <2> DEFINE U == S \ Range(o)
  <2>1. Ready(S, deps, Range(o)) = {}
    BY <1>1, <1>7
  <2>2. U # {}
    BY <1>3, <1>7
  <2>3. \A i \in U : \E e \in deps : e[2] = i /\ e[1] \in U
    BY <2>1 DEF Ready
  <2> QED BY <2>2, <2>3 DEF Circular
<1>8. Ordered(S, deps) => Range(o) = S /\ Len(o) = Cardinality(S) /\ Follows
    BY <1>2, <1>4, <1>5
<1>9. Ordered(S, deps) <=> ~\E U \in SUBSET S : Circular(U, deps)
    BY <1>2, <1>6, <1>7
<1> QED BY <1>8, <1>9 DEF o

LEMMA FirstOrderType ==
    ASSUME NEW S \in SUBSET Nat, IsFiniteSet(S), NEW deps
    PROVE  FirstOrder(S, deps) \in Seq(S)
    BY FirstOrderFacts DEF Admitted

\* Dependencies relate works of the set they were asked for.
LEMMA EdgesWithin == ASSUME NEW h, NEW S PROVE ExplicitEdges(h, S) \subseteq S \X S
<1>1. CashEdges(h, S) \subseteq S \X S
    BY DEF CashEdges, Consecutive, OfDomain
<1>2. InvestmentEdges(h, S) \subseteq S \X S
  <2> DEFINE all == OfDomain(h, S, "investments")
             chain(t) == {i \in all : t \in Range(Targets(h.plan[i]))}
             precedes(i, j) == \/ h.plan[i].order < h.plan[j].order
                               \/ h.plan[i].order = h.plan[j].order /\ i < j
             links(t) == Consecutive(chain(t), precedes)
             following(j) == {t \in Range(Targets(h.plan[j])) : \E e \in links(t) : e[2] = j}
             kept(j) == CHOOSE t \in following(j) :
                           \A u \in following(j) : Met(h, all, u) <= Met(h, all, t)
  <2>1. ASSUME NEW t PROVE links(t) \subseteq S \X S
    BY DEF Consecutive, OfDomain
  <2>2. InvestmentEdges(h, S) =
            UNION {{e \in links(kept(j)) : e[2] = j} : j \in {k \in all : following(k) # {}}}
    BY DEF InvestmentEdges
  <2> HIDE DEF links, kept, following, all
  <2> QED BY <2>1, <2>2
<1>3. DebtEdges(h, S) \subseteq S \X S
    BY DEF DebtEdges, Consecutive, OfKind
<1>4. DomainEdges(h, S) \subseteq S \X S
    BY DEF DomainEdges, OfDomain, OfKind
<1> QED BY <1>1, <1>2, <1>3, <1>4 DEF ExplicitEdges

\* A decision orders works of its group.
LEMMA DecisionWithin ==
    ASSUME NEW h, NEW s, NEW S, NEW group \in SUBSET Nat, IsFiniteSet(group), NEW deps, NEW tier
    PROVE  Decide(h, s, S, group, deps, tier).edges \subseteq group \X group
<1> DEFINE policy == {e \in group \X group : e[1] # e[2] /\ PolicyPrecedes(h, e[1], e[2])}
           chosen == FirstOrder(group, deps \cup policy)
           pairs == {<<chosen[k], chosen[k + 1]>> : k \in 1..(Len(chosen) - 1)}
<1>1. chosen \in Seq(group)
    BY FirstOrderType
<1>2. policy \subseteq group \X group
    OBVIOUS
<1>3. Decide(h, s, S, group, deps, tier).edges \in {{}, policy \cup pairs}
    BY DEF Decide, Settled, Refused
<1> HIDE DEF chosen, policy
<1>4. pairs \subseteq group \X group
    BY <1>1
<1> QED BY <1>2, <1>3, <1>4

-----------------------------------------------------------------------------
(* Folds.  The library folds a set by taking one element after another.      *)

LEMMA Smaller ==
    ASSUME NEW T, IsFiniteSet(T), NEW x \in T
    PROVE  /\ Cardinality(T) \in Nat /\ Cardinality(T \ {x}) \in Nat
           /\ Cardinality(T \ {x}) = Cardinality(T) - 1
    BY FS_RemoveElement, FS_CardinalityType

\* C names the element taken first from each subset of S that is not empty.
TakesFrom(C, S) == \A T \in SUBSET S : T # {} => C[T] \in T

\* What holds of the empty set, and of a set if it holds without the element taken
\* first, holds of every subset.
LEMMA SubsetInduction ==
    ASSUME NEW S, IsFiniteSet(S), NEW C, TakesFrom(C, S), NEW P, {} \in P,
           \A T \in SUBSET S : T # {} /\ T \ {C[T]} \in P => T \in P
    PROVE  \A T \in SUBSET S : T \in P
<1> DEFINE Bad == {T \in SUBSET S : T \notin P}
           Sizes == {Cardinality(T) : T \in Bad}
<1>1. \A T \in SUBSET S : IsFiniteSet(T) /\ Cardinality(T) \in Nat
    BY FS_Subset, FS_CardinalityType
<1> SUFFICES ASSUME Bad # {} PROVE FALSE
    OBVIOUS
<1>2. PICK n \in Sizes : \A m \in Sizes : n <= m
  <2>1. Sizes \in SUBSET Nat /\ Sizes # {}
    BY <1>1
  <2> HIDE DEF Sizes
  <2> QED BY <2>1, LeastMember
<1>3. PICK T \in SUBSET S : T \notin P /\ n = Cardinality(T)
    OBVIOUS
<1>4. T # {} /\ C[T] \in T
    BY <1>3 DEF TakesFrom
<1>5. T \ {C[T]} \in SUBSET S /\ ~(Cardinality(T) <= Cardinality(T \ {C[T]}))
    BY <1>1, <1>4, Smaller
<1>6. T \ {C[T]} \notin Bad
    BY <1>2, <1>3, <1>5
<1> QED BY <1>3, <1>4, <1>5, <1>6

\* g holds what folding each subset of S by F from v gives.
Folds(g, C, F, v, S) ==
    \A T \in SUBSET S : g[T] = IF T = {} THEN v ELSE F[<<C[T], g[T \ {C[T]}]>>]

LEMMA FoldExists ==
    ASSUME NEW S, IsFiniteSet(S), NEW C, TakesFrom(C, S), NEW V, NEW v \in V,
           NEW F \in [S \X V -> V]
    PROVE  \E g \in [SUBSET S -> V] : Folds(g, C, F, v, S)
<1> DEFINE n == Cardinality(S)
           Entry(g, T) == IF T = {} THEN v ELSE F[<<C[T], g[T \ {C[T]}]>>]
           Upto(k) == \E g \in [SUBSET S -> V] :
                         \A T \in SUBSET S : Cardinality(T) <= k => g[T] = Entry(g, T)
           K == {k \in 0..n : Upto(k)}
<1>1. /\ n \in Nat
      /\ \A T \in SUBSET S : IsFiniteSet(T) /\ Cardinality(T) \in Nat /\ Cardinality(T) <= n
    BY FS_Subset, FS_CardinalityType
<1>2. \A T \in SUBSET S : T # {} =>
          /\ C[T] \in S /\ T \ {C[T]} \in SUBSET S
          /\ Cardinality(T \ {C[T]}) = Cardinality(T) - 1
    BY <1>1, Smaller DEF TakesFrom
<1>3. ASSUME NEW T \in SUBSET S, NEW g \in [SUBSET S -> V] PROVE Entry(g, T) \in V
  <2>1. CASE T = {}
    BY <2>1
  <2>2. CASE T # {}
    <3>1. <<C[T], g[T \ {C[T]}]>> \in S \X V
      BY <1>2, <2>2
    <3>2. F[<<C[T], g[T \ {C[T]}]>>] \in V
      BY <3>1
    <3> QED BY <2>2, <3>2
  <2> QED BY <2>1, <2>2
<1>4. Upto(0)
  <2> DEFINE g == [T \in SUBSET S |-> v]
  <2>1. \A T \in SUBSET S : Cardinality(T) <= 0 => T = {}
    BY <1>1, FS_EmptySet
  <2>2. g \in [SUBSET S -> V]
    OBVIOUS
  <2>3. \A T \in SUBSET S : Cardinality(T) <= 0 => g[T] = Entry(g, T)
    BY <2>1
  <2> QED BY <2>2, <2>3
<1>5. ASSUME NEW k \in 0..n, k < n, Upto(k) PROVE Upto(k + 1)
  <2>1. PICK g \in [SUBSET S -> V] :
            \A T \in SUBSET S : Cardinality(T) <= k => g[T] = Entry(g, T)
    BY <1>5
  <2> DEFINE f == [T \in SUBSET S |-> Entry(g, T)]
  <2>2. f \in [SUBSET S -> V]
    <3> HIDE DEF Entry
    <3> QED BY <1>3
  <2>3. \A T \in SUBSET S : Cardinality(T) <= k => f[T] = g[T]
    BY <2>1
  <2>4. ASSUME NEW T \in SUBSET S, Cardinality(T) <= k + 1 PROVE f[T] = Entry(f, T)
    <3>1. CASE T = {}
      BY <3>1
    <3>2. CASE T # {}
      <4>1. T \ {C[T]} \in SUBSET S /\ Cardinality(T \ {C[T]}) <= k
        BY <3>2, <1>1, <1>2, <2>4
      <4>2. f[T \ {C[T]}] = g[T \ {C[T]}]
        BY <4>1, <2>3
      <4>3. f[T] = Entry(g, T)
        OBVIOUS
      <4> HIDE DEF f
      <4> QED BY <4>2, <4>3, <3>2
    <3> QED BY <3>1, <3>2
  <2> HIDE DEF f, Entry
  <2> QED BY <2>2, <2>4
<1> HIDE DEF Upto
<1>6. 0 \in K /\ \A k \in 0..n : k < n /\ k \in K => k + 1 \in K
    BY <1>1, <1>4, <1>5
<1> HIDE DEF K, n
<1>7. n \in 0..n /\ \A k \in 0..n : k \in K
    BY <1>1, <1>6, Induction
<1>8. Upto(n)
    BY <1>7 DEF K
<1>9. PICK g \in [SUBSET S -> V] :
          \A T \in SUBSET S : Cardinality(T) <= n => g[T] = Entry(g, T)
    BY <1>8 DEF Upto
<1> QED BY <1>1, <1>9 DEF Folds

\* F and G do the same to what g holds of the subsets of R.
Alike(F, G, g, R) == \A x \in R : \A T \in SUBSET R : F[<<x, g[T]>>] = G[<<x, g[T]>>]

\* Two tables that fold alike agree on what both have.
LEMMA FoldsAgree ==
    ASSUME NEW S, IsFiniteSet(S), NEW R \in SUBSET S, NEW C, TakesFrom(C, S),
           NEW F, NEW G, NEW v, NEW g, Folds(g, C, F, v, S), NEW f, Folds(f, C, G, v, R),
           Alike(F, G, g, R)
    PROVE  f[R] = g[R]
<1> DEFINE P == {T \in SUBSET R : f[T] = g[T]}
<1>1. IsFiniteSet(R) /\ TakesFrom(C, R)
    BY FS_Subset DEF TakesFrom
<1>2. {} \in P
    BY DEF Folds
<1>3. ASSUME NEW T \in SUBSET R, T # {}, T \ {C[T]} \in P PROVE T \in P
  <2>1. C[T] \in R /\ T \ {C[T]} \in SUBSET S /\ T \in SUBSET S
    BY <1>1, <1>3 DEF TakesFrom
  <2>2. f[T] = G[<<C[T], f[T \ {C[T]}]>>] /\ g[T] = F[<<C[T], g[T \ {C[T]}]>>]
    BY <1>3, <2>1 DEF Folds
  <2> QED BY <1>3, <2>1, <2>2 DEF Alike
<1> HIDE DEF P
<1>4. \A T \in SUBSET R : T \in P
    BY <1>1, <1>2, <1>3, SubsetInduction
<1> QED BY <1>4 DEF P

\* The last of a set of places.
Latest == [T \in SUBSET Nat |-> Max(T)]

SoundStates(h) == {t \in States(h) : Sound(h, t)}

\* The work at a place of an order, done on a state.
Doing(h, o) == [p \in (DOMAIN o) \X SoundStates(h) |-> Step(h, p[2], o[p[1]])]

LEMMA LatestTakes ==
    ASSUME NEW n \in Nat PROVE IsFiniteSet(1..n) /\ TakesFrom(Latest, 1..n)
<1>1. ASSUME NEW T \in SUBSET (1..n), T # {} PROVE Latest[T] \in T
  <2>1. T \in SUBSET Nat /\ T \subseteq 0..n
    OBVIOUS
  <2>2. Max(T) \in T
    BY <1>1, <2>1, MaxIsMember
  <2> QED BY <2>1, <2>2 DEF Latest
<1> QED BY <1>1, FS_Interval DEF TakesFrom

LEMMA DoingTypes ==
    ASSUME NEW h \in Households, NEW o \in Seq(DOMAIN h.plan)
    PROVE  /\ Doing(h, o) \in [(DOMAIN o) \X SoundStates(h) -> SoundStates(h)]
           /\ \A k \in DOMAIN o : \A t \in SoundStates(h) : Doing(h, o)[<<k, t>>] = Step(h, t, o[k])
<1>1. ASSUME NEW k \in DOMAIN o, NEW t \in SoundStates(h) PROVE Step(h, t, o[k]) \in SoundStates(h)
  <2>1. o[k] \in DOMAIN h.plan /\ Sound(h, t)
    BY DEF SoundStates
  <2>2. Sound(h, Step(h, t, o[k]))
    BY <2>1, StepIsAfter DEF After
  <2> QED BY <2>2 DEF SoundStates, Sound
<1> QED BY <1>1 DEF Doing

\* Executing an order folds the places it has.
LEMMA ExecuteFolds ==
    ASSUME NEW h \in Households, NEW s \in SoundStates(h), NEW o \in Seq(DOMAIN h.plan)
    PROVE  \E g : /\ Folds(g, Latest, Doing(h, o), s, DOMAIN o)
                  /\ \A T \in SUBSET DOMAIN o : g[T] \in SoundStates(h)
                  /\ Execute(h, s, o) = g[DOMAIN o]
<1> DEFINE S == DOMAIN o
           V == SoundStates(h)
           Body(g) == [T \in SUBSET S |->
                          IF T = {} THEN s ELSE Step(h, g[T \ {Max(T)}], o[Max(T)])]
           c == CHOOSE g : g = Body(g)
<1>1. S = 1..Len(o) /\ Len(o) \in Nat
    OBVIOUS
<1>2. IsFiniteSet(S) /\ TakesFrom(Latest, S) /\ S \subseteq Nat
    BY <1>1, LatestTakes
<1>3. ASSUME NEW T \in SUBSET S PROVE Latest[T] = Max(T) /\ (T # {} => Max(T) \in T)
    BY <1>2 DEF Latest, TakesFrom
<1>4. PICK g \in [SUBSET S -> V] : Folds(g, Latest, Doing(h, o), s, S)
    BY <1>2, DoingTypes, FoldExists
<1>5. g = Body(g)
  <2>1. ASSUME NEW T \in SUBSET S
        PROVE  g[T] = IF T = {} THEN s ELSE Step(h, g[T \ {Max(T)}], o[Max(T)])
    <3>1. CASE T = {}
      BY <1>4, <3>1 DEF Folds
    <3>2. CASE T # {}
      <4>1. Latest[T] = Max(T) /\ Max(T) \in S /\ T \ {Max(T)} \in SUBSET S
        BY <1>3, <3>2
      <4>2. g[T] = Doing(h, o)[<<Max(T), g[T \ {Max(T)}]>>]
        BY <1>4, <3>2, <4>1 DEF Folds
      <4>3. g[T \ {Max(T)}] \in V
        BY <1>4, <4>1
      <4> QED BY <3>2, <4>1, <4>2, <4>3, DoingTypes
    <3> QED BY <3>1, <3>2
  <2> QED BY <1>4, <2>1
<1>6. c = Body(c)
    BY <1>5
<1>7. Execute(h, s, o) = c[S]
    BY DEF Execute, FoldLeft, MapThenFoldSet
<1> HIDE DEF c
<1>8. \A T \in SUBSET S : c[T] = IF T = {} THEN s ELSE Step(h, c[T \ {Max(T)}], o[Max(T)])
    BY <1>6
<1> DEFINE P == {T \in SUBSET S : c[T] = g[T]}
<1>9. {} \in P
    BY <1>8, <1>4 DEF Folds
<1>10. ASSUME NEW T \in SUBSET S, T # {}, T \ {Latest[T]} \in P PROVE T \in P
  <2>1. c[T] = Step(h, c[T \ {Max(T)}], o[Max(T)])
    BY <1>8, <1>10
  <2>2. g[T] = Step(h, g[T \ {Max(T)}], o[Max(T)])
    BY <1>5, <1>10
  <2> QED BY <1>3, <1>10, <2>1, <2>2
<1> HIDE DEF P, S
<1>11. \A T \in SUBSET S : T \in P
  <2> DEFINE C == Latest
  <2>1. IsFiniteSet(S) /\ TakesFrom(C, S)
    BY <1>2
  <2>2. \A T \in SUBSET S : T # {} /\ T \ {C[T]} \in P => T \in P
    BY <1>10
  <2> HIDE DEF C
  <2> QED BY <1>9, <2>1, <2>2, SubsetInduction
<1>12. c[S] = g[S]
    BY <1>11 DEF P
<1> QED BY <1>4, <1>7, <1>12 DEF S

\* Executing an order does its works one after the other.
LEMMA ExecuteFacts ==
    ASSUME NEW h \in Households, NEW s \in SoundStates(h)
    PROVE  /\ Execute(h, s, <<>>) = s
           /\ \A o \in Seq(DOMAIN h.plan) :
                 /\ Execute(h, s, o) \in SoundStates(h)
                 /\ \A i \in DOMAIN h.plan :
                       Execute(h, s, Append(o, i)) = Step(h, Execute(h, s, o), i)
<1>1. Execute(h, s, <<>>) = s
  <2>1. PICK g : /\ Folds(g, Latest, Doing(h, <<>>), s, DOMAIN <<>>)
                 /\ Execute(h, s, <<>>) = g[DOMAIN <<>>]
    <3>1. <<>> \in Seq(DOMAIN h.plan)
      OBVIOUS
    <3> QED BY <3>1, ExecuteFolds
  <2>2. DOMAIN <<>> = {}
    OBVIOUS
  <2> QED BY <2>1, <2>2 DEF Folds
<1>2. ASSUME NEW o \in Seq(DOMAIN h.plan)
      PROVE  Execute(h, s, o) \in SoundStates(h)
    BY ExecuteFolds
<1>3. ASSUME NEW o \in Seq(DOMAIN h.plan), NEW i \in DOMAIN h.plan
      PROVE  Execute(h, s, Append(o, i)) = Step(h, Execute(h, s, o), i)
  <2> DEFINE p == Append(o, i)
             n == Len(o)
             V == SoundStates(h)
  <2>1. /\ p \in Seq(DOMAIN h.plan) /\ n \in Nat /\ DOMAIN o = 1..n /\ DOMAIN p = 1..(n + 1)
        /\ p[n + 1] = i /\ \A k \in 1..n : p[k] = o[k]
    OBVIOUS
  <2> HIDE DEF p, n
  <2>2. PICK f : /\ Folds(f, Latest, Doing(h, o), s, DOMAIN o)
                 /\ Execute(h, s, o) = f[DOMAIN o]
    BY ExecuteFolds
  <2>3. PICK g : /\ Folds(g, Latest, Doing(h, p), s, DOMAIN p)
                 /\ \A T \in SUBSET DOMAIN p : g[T] \in V
                 /\ Execute(h, s, p) = g[DOMAIN p]
    BY <2>1, ExecuteFolds
  <2>4. ASSUME NEW k \in DOMAIN o, NEW t \in V
        PROVE  Doing(h, p)[<<k, t>>] = Doing(h, o)[<<k, t>>]
    <3>1. k \in DOMAIN p /\ p[k] = o[k]
      BY <2>1
    <3>2. Doing(h, p)[<<k, t>>] = Step(h, t, p[k])
      BY <2>1, <3>1, DoingTypes
    <3>3. Doing(h, o)[<<k, t>>] = Step(h, t, o[k])
      BY DoingTypes
    <3> QED BY <3>1, <3>2, <3>3
  <2>5. DOMAIN o \in SUBSET DOMAIN p
    BY <2>1
  <2>6. IsFiniteSet(DOMAIN p) /\ TakesFrom(Latest, DOMAIN p)
    BY <2>1, LatestTakes
  <2>7. f[DOMAIN o] = g[DOMAIN o]
    <3> DEFINE F == Doing(h, p)
               G == Doing(h, o)
               R == DOMAIN o
               S == DOMAIN p
               C == Latest
    <3>1. IsFiniteSet(S) /\ TakesFrom(C, S) /\ R \in SUBSET S
      BY <2>5, <2>6
    <3>2. ASSUME NEW x \in R, NEW T \in SUBSET R PROVE F[<<x, g[T]>>] = G[<<x, g[T]>>]
      <4>1. g[T] \in V
        BY <2>3, <2>5
      <4> HIDE DEF F, G, V
      <4> QED BY <2>4, <4>1 DEF F, G, V
    <3>3. Folds(g, C, F, s, S) /\ Folds(f, C, G, s, R)
      BY <2>2, <2>3
    <3> HIDE DEF V, F, G, R, S, C
    <3>4. Alike(F, G, g, R)
      BY <3>2 DEF Alike
    <3>5. f[R] = g[R]
      BY <3>1, <3>3, <3>4, FoldsAgree
    <3> QED BY <3>5 DEF R
  <2>8. Latest[DOMAIN p] = n + 1
    <3>1. Max(1..(n + 1)) = n + 1
      <4>1. n + 1 \in 1..(n + 1) /\ \A k \in 1..(n + 1) : n + 1 >= k
        BY <2>1
      <4>2. \A m \in 1..(n + 1) : (\A k \in 1..(n + 1) : m >= k) => m = n + 1
        BY <2>1
      <4> QED BY <4>1, <4>2 DEF Max
    <3>2. 1..(n + 1) \in SUBSET Nat
      BY <2>1
    <3> QED BY <2>1, <3>1, <3>2 DEF Latest
  <2>9. DOMAIN p # {} /\ DOMAIN p \ {n + 1} = DOMAIN o /\ n + 1 \in DOMAIN p
    <3>1. n + 1 \in 1..(n + 1) /\ (1..(n + 1)) \ {n + 1} = 1..n
      BY <2>1
    <3> QED BY <2>1, <3>1
  <2>10. g[DOMAIN p] = Doing(h, p)[<<n + 1, g[DOMAIN o]>>]
    BY <2>3, <2>8, <2>9 DEF Folds
  <2>11. g[DOMAIN o] \in V
    BY <2>3, <2>5
  <2>12. g[DOMAIN p] = Step(h, g[DOMAIN o], p[n + 1])
    <3> DEFINE t == g[DOMAIN o]
    <3>1. t \in V /\ n + 1 \in DOMAIN p
      BY <2>9, <2>11
    <3> HIDE DEF t
    <3>2. Doing(h, p)[<<n + 1, t>>] = Step(h, t, p[n + 1])
      BY <2>1, <3>1, DoingTypes
    <3> QED BY <2>10, <3>2 DEF t
  <2> QED BY <2>1, <2>2, <2>3, <2>7, <2>12 DEF p
<1> QED BY <1>1, <1>2, <1>3

-----------------------------------------------------------------------------
(* What the comparison of orders sees.                                       *)

\* The orders of all of S that the dependencies allow.
Orders(S, deps) == {o \in Admitted(S, deps) : Len(o) = Cardinality(S)}

\* An order that is not empty is a shorter one and a work that is ready after it.
LEMMA AdmittedFront ==
    ASSUME NEW S, IsFiniteSet(S), NEW deps, NEW o \in Admitted(S, deps), NEW k \in Nat, Len(o) = k + 1
    PROVE  \E q \in Admitted(S, deps) : \E i \in Ready(S, deps, Range(q)) :
              Len(q) = k /\ o = Append(q, i)
<1> DEFINE q == [j \in 1..k |-> o[j]]
           i == o[k + 1]
<1>1. /\ o \in Seq(S) /\ DOMAIN o = 1..(k + 1) /\ Cardinality(Range(o)) = k + 1
      /\ \A m \in DOMAIN o : o[m] \in Ready(S, deps, Before(o, m))
    BY DEF Admitted
<1>2. k + 1 \in 1..(k + 1) /\ \A j \in 1..k : j \in 1..(k + 1)
    OBVIOUS
<1>3. /\ q \in Seq(S) /\ Len(q) = k /\ DOMAIN q = 1..k /\ \A j \in 1..k : q[j] = o[j]
  <2>1. \A j \in 1..k : o[j] \in S
    BY <1>1, <1>2
  <2> QED BY <2>1
<1>4. i \in S /\ o = Append(q, i)
    BY <1>1, <1>2
<1> HIDE DEF q, i
<1>5. Before(o, k + 1) = Range(q)
    BY <1>1, <1>2, <1>3 DEF Before, Range
<1>6. i \in Ready(S, deps, Range(q))
    BY <1>1, <1>2, <1>5 DEF i
<1>7. Range(o) = Range(q) \cup {i} /\ i \notin Range(q)
  <2>1. 1..(k + 1) = (1..k) \cup {k + 1}
    OBVIOUS
  <2>2. Range(o) = Range(q) \cup {i}
    BY <1>1, <1>3, <2>1 DEF Range, i
  <2> QED BY <1>6, <2>2 DEF Ready
<1>8. IsFiniteSet(Range(q)) /\ Cardinality(Range(q)) \in Nat
  <2>1. Range(q) \subseteq S
    BY <1>3 DEF Range
  <2> QED BY <2>1, FS_Subset, FS_CardinalityType
<1>9. Cardinality(Range(q)) = k
  <2>1. Cardinality(Range(q) \cup {i}) = Cardinality(Range(q)) + 1
    BY <1>7, <1>8, FS_AddElement
  <2> QED BY <1>1, <1>7, <1>8, <2>1
<1>10. ASSUME NEW m \in DOMAIN q PROVE q[m] \in Ready(S, deps, Before(q, m))
  <2>1. m \in 1..k /\ m \in DOMAIN o
    BY <1>1, <1>2, <1>3
  <2>2. Before(q, m) = Before(o, m)
    BY <1>1, <1>2, <1>3, <2>1 DEF Before
  <2> QED BY <1>1, <1>3, <2>1, <2>2
<1>11. q \in Admitted(S, deps)
    BY <1>3, <1>9, <1>10 DEF Admitted
<1> QED BY <1>3, <1>4, <1>6, <1>11

\* A work of an order is one of the set.
LEMMA AdmittedType ==
    ASSUME NEW S, NEW deps, NEW o \in Admitted(S, deps)
    PROVE  o \in Seq(S) /\ Len(o) \in Nat /\ Range(o) \in SUBSET S
    BY DEF Admitted, Range

\* The comparison executes prefixes and makes one of those with the same work done and
\* the same state.  It still ends in the states of all orders, and in no other.
THEOREM OutcomesAreExact ==
    ASSUME NEW h \in Households, NEW s \in SoundStates(h), NEW S \in SUBSET DOMAIN h.plan, NEW deps
    PROVE  Outcomes(h, S, deps, s) = {Execute(h, s, o) : o \in Orders(S, deps)}
<1> DEFINE n == Cardinality(S)
           Pairs == [done : SUBSET S, state : SoundStates(h)]
           start == {[done |-> {}, state |-> s]}
           Then(p, i) == [done |-> p.done \cup {i}, state |-> Step(h, p.state, i)]
           Longer(R) == UNION {{Then(p, i) : i \in Ready(S, deps, p.done)} : p \in R}
           F == [x \in (1..n) \X SUBSET Pairs |-> Longer(x[2])]
           Body(f) == [k \in 0..n |-> IF k = 0 THEN start ELSE Longer(f[k - 1])]
           c == CHOOSE f : f = Body(f)
           End(o) == [done |-> Range(o), state |-> Execute(h, s, o)]
           Ends(k) == {End(o) : o \in {q \in Admitted(S, deps) : Len(q) = k}}
<1>1. IsFiniteSet(S) /\ n \in Nat
    BY PlanIsFinite, FS_Subset, FS_CardinalityType
<1>2. start \in SUBSET Pairs
    OBVIOUS
<1>3. ASSUME NEW R \in SUBSET Pairs PROVE Longer(R) \in SUBSET Pairs
  <2>1. ASSUME NEW p \in R, NEW i \in Ready(S, deps, p.done) PROVE Then(p, i) \in Pairs
    <3>1. p.done \in SUBSET S /\ p.state \in SoundStates(h) /\ i \in S /\ i \in DOMAIN h.plan
      BY DEF Ready
    <3>2. Step(h, p.state, i) \in SoundStates(h)
      <4>1. Sound(h, p.state)
        BY <3>1 DEF SoundStates
      <4>2. Sound(h, Step(h, p.state, i))
        BY <3>1, <4>1, StepIsAfter DEF After
      <4> QED BY <4>2 DEF SoundStates, Sound
    <3> QED BY <3>1, <3>2
  <2> HIDE DEF Then, Pairs
  <2> QED BY <2>1
<1> HIDE DEF Longer, Pairs, n, start
<1>4. F \in [(1..n) \X SUBSET Pairs -> SUBSET Pairs]
    BY <1>3
<1>5. PICK f \in [0..n -> SUBSET Pairs] : Iterates(f, F, start, n)
  <2> HIDE DEF F
  <2> QED BY <1>1, <1>2, <1>4, IterationExists
<1>6. f = Body(f)
  <2>1. ASSUME NEW k \in 1..n PROVE f[k] = Longer(f[k - 1])
    <3>1. k - 1 \in 0..n
      BY <1>1
    <3>2. <<k, f[k - 1]>> \in (1..n) \X SUBSET Pairs
      BY <3>1
    <3>3. f[k] = F[<<k, f[k - 1]>>]
      BY <1>5 DEF Iterates
    <3> QED BY <3>2, <3>3
  <2>2. f[0] = start
    BY <1>5 DEF Iterates
  <2> QED BY <1>1, <2>1, <2>2
<1>7. c = Body(c)
    BY <1>6
<1>8. Outcomes(h, S, deps, s) = {p.state : p \in c[n]}
    BY DEF Outcomes, Longer, start, n
<1> HIDE DEF c
<1>9. c[0] = start /\ \A k \in 1..n : c[k] = Longer(c[k - 1])
    BY <1>1, <1>7
<1>10. ASSUME NEW o \in Admitted(S, deps)
       PROVE  o \in Seq(DOMAIN h.plan) /\ Execute(h, s, o) \in SoundStates(h)
  <2>1. o \in Seq(S)
    BY AdmittedType
  <2>2. o \in Seq(DOMAIN h.plan)
    BY <2>1
  <2> QED BY <2>2, ExecuteFacts
<1>11. Ends(0) = start
  <2>1. \A q \in Admitted(S, deps) : Len(q) = 0 <=> q = <<>>
    BY AdmittedType
  <2>2. <<>> \in Admitted(S, deps)
    <3>1. Range(<<>>) = {} /\ Cardinality({}) = 0
      BY FS_EmptySet DEF Range
    <3> QED BY <3>1 DEF Admitted
  <2>3. End(<<>>) = [done |-> {}, state |-> s]
    <3>1. Range(<<>>) = {}
      BY DEF Range
    <3>2. Execute(h, s, <<>>) = s
      BY ExecuteFacts
    <3> QED BY <3>1, <3>2
  <2> HIDE DEF End
  <2> QED BY <2>1, <2>2, <2>3 DEF start
<1>12. ASSUME NEW k \in Nat PROVE Longer(Ends(k)) = Ends(k + 1)
  <2>1. ASSUME NEW o \in Admitted(S, deps), NEW i \in Ready(S, deps, Range(o))
        PROVE  /\ Append(o, i) \in Admitted(S, deps) /\ Len(Append(o, i)) = Len(o) + 1
               /\ End(Append(o, i)) = Then(End(o), i)
    <3>1. i \in DOMAIN h.plan
      BY DEF Ready
    <3>2. Append(o, i) \in Admitted(S, deps) /\ Range(Append(o, i)) = Range(o) \cup {i}
      BY <1>1, ReadyAppended
    <3>3. Execute(h, s, Append(o, i)) = Step(h, Execute(h, s, o), i)
      BY <1>10, <3>1, ExecuteFacts
    <3>4. Len(Append(o, i)) = Len(o) + 1
      BY AdmittedType
    <3> QED BY <3>2, <3>3, <3>4
  <2>2. \A o : End(o).done = Range(o)
    OBVIOUS
  <2> HIDE DEF End, Then
  <2>3. ASSUME NEW o \in Admitted(S, deps), Len(o) = k,
               NEW i \in Ready(S, deps, End(o).done)
        PROVE  Then(End(o), i) \in Ends(k + 1)
    <3>1. i \in Ready(S, deps, Range(o))
      BY <2>2
    <3> QED BY <2>1, <2>3, <3>1
  <2>4. ASSUME NEW o \in Admitted(S, deps), Len(o) = k + 1
        PROVE  End(o) \in Longer(Ends(k))
    <3>1. PICK q \in Admitted(S, deps) : \E i \in Ready(S, deps, Range(q)) :
              Len(q) = k /\ o = Append(q, i)
      BY <1>1, <2>4, AdmittedFront
    <3>2. PICK i \in Ready(S, deps, Range(q)) : Len(q) = k /\ o = Append(q, i)
      BY <3>1
    <3>3. End(o) = Then(End(q), i) /\ End(q) \in Ends(k)
      BY <2>1, <3>2
    <3>4. i \in Ready(S, deps, End(q).done)
      BY <2>2
    <3> QED BY <3>3, <3>4 DEF Longer
  <2>5. Longer(Ends(k)) \subseteq Ends(k + 1)
    BY <2>3 DEF Longer
  <2>6. Ends(k + 1) \subseteq Longer(Ends(k))
    BY <2>4
  <2> QED BY <2>5, <2>6
<1> HIDE DEF Ends
<1> DEFINE K == {k \in 0..n : c[k] = Ends(k)}
<1>13. 0 \in K
    BY <1>1, <1>9, <1>11
<1>14. ASSUME NEW k \in 0..n, k < n, k \in K PROVE k + 1 \in K
  <2>1. k + 1 \in 1..n /\ k + 1 \in 0..n /\ (k + 1) - 1 = k /\ k \in Nat
    BY <1>1, <1>14
  <2>2. c[k + 1] = Longer(c[k])
    BY <1>9, <2>1
  <2> QED BY <1>12, <1>14, <2>1, <2>2
<1> HIDE DEF K
<1>15. \A k \in 0..n : k \in K
    BY <1>1, <1>13, <1>14, Induction
<1>16. c[n] = Ends(n)
    BY <1>1, <1>15 DEF K
<1>17. \A o : End(o).state = Execute(h, s, o)
    OBVIOUS
<1> HIDE DEF End
<1>18. {p.state : p \in Ends(n)} = {Execute(h, s, o) : o \in {q \in Admitted(S, deps) : Len(q) = n}}
    BY <1>17 DEF Ends
<1> QED BY <1>8, <1>16, <1>18 DEF Orders, n

-----------------------------------------------------------------------------
(* The cash of a pool of accounts, and what the pool can pay.                *)

\* Some member of a set.
Some(S) == [T \in SUBSET S |-> CHOOSE x \in T : TRUE]

\* g holds the sums of c over the subsets of S, whatever member is added last.
Sums(g, c, S) ==
    /\ g \in [SUBSET S -> Nat] /\ g[{}] = 0
    /\ \A T \in SUBSET S : \A a \in T : g[T] = c[a] + g[T \ {a}]

LEMMA SumsStep ==
    ASSUME NEW S, NEW c, NEW g, Sums(g, c, S), NEW T \in SUBSET S, NEW a \in T
    PROVE  g[T] = c[a] + g[T \ {a}] /\ g[T] \in Nat /\ g[T \ {a}] \in Nat
<1>1. T \ {a} \in SUBSET S
    OBVIOUS
<1> QED BY <1>1 DEF Sums

LEMMA SumsExist ==
    ASSUME NEW S, IsFiniteSet(S), NEW c, \A a \in S : c[a] \in Nat
    PROVE  /\ TakesFrom(Some(S), S)
           /\ \E g : /\ Folds(g, Some(S), [p \in S \X Nat |-> c[p[1]] + p[2]], 0, S)
                     /\ Sums(g, c, S)
<1> DEFINE C == Some(S)
           F == [p \in S \X Nat |-> c[p[1]] + p[2]]
<1>1. TakesFrom(C, S)
    BY DEF TakesFrom, Some
<1>2. F \in [S \X Nat -> Nat]
    OBVIOUS
<1>3. PICK g \in [SUBSET S -> Nat] : Folds(g, C, F, 0, S)
  <2> HIDE DEF C, F
  <2> QED BY <1>1, <1>2, FoldExists
<1>4. g[{}] = 0
    BY <1>3 DEF Folds
<1>5. ASSUME NEW T \in SUBSET S, T # {}
      PROVE  C[T] \in T /\ C[T] \in S /\ g[T] = c[C[T]] + g[T \ {C[T]}]
  <2>1. C[T] \in T /\ C[T] \in S /\ T \ {C[T]} \in SUBSET S
    BY <1>1, <1>5 DEF TakesFrom
  <2>2. g[T] = F[<<C[T], g[T \ {C[T]}]>>]
    BY <1>3, <1>5 DEF Folds
  <2>3. g[T \ {C[T]}] \in Nat
    BY <2>1
  <2> HIDE DEF C
  <2> QED BY <2>1, <2>2, <2>3
<1> HIDE DEF C, F
<1> DEFINE AnyLast(T) == \A a \in T : g[T] = c[a] + g[T \ {a}]
           Bad == {T \in SUBSET S : ~AnyLast(T)}
           Sizes == {Cardinality(T) : T \in Bad}
<1>6. \A T \in SUBSET S : IsFiniteSet(T) /\ Cardinality(T) \in Nat
    BY FS_Subset, FS_CardinalityType
<1>7. ASSUME Bad # {} PROVE FALSE
  <2>1. PICK n \in Sizes : \A m \in Sizes : n <= m
    <3>1. Sizes \in SUBSET Nat /\ Sizes # {}
      BY <1>6, <1>7
    <3> HIDE DEF Sizes
    <3> QED BY <3>1, LeastMember
  <2>2. PICK T \in SUBSET S : ~AnyLast(T) /\ n = Cardinality(T)
    OBVIOUS
  <2>3. PICK a \in T : g[T] # c[a] + g[T \ {a}]
    BY <2>2
  <2> DEFINE z == C[T]
  <2>4. z \in T /\ z \in S /\ a \in S /\ g[T] = c[z] + g[T \ {z}] /\ z # a
    BY <1>5, <2>3
  <2>5. ASSUME NEW U \in SUBSET S, NEW x \in T, U = T \ {x} PROVE AnyLast(U)
    <3>1. ~(Cardinality(T) <= Cardinality(U))
      BY <1>6, <2>5, Smaller
    <3>2. U \notin Bad
      BY <2>1, <2>2, <3>1
    <3> QED BY <3>2
  <2> HIDE DEF z
  <2>6. /\ T \ {z} \in SUBSET S /\ T \ {a} \in SUBSET S /\ T \ {a, z} \in SUBSET S
        /\ a \in T \ {z} /\ z \in T \ {a}
        /\ (T \ {z}) \ {a} = T \ {a, z} /\ (T \ {a}) \ {z} = T \ {a, z}
    BY <2>4
  <2>7. AnyLast(T \ {z}) /\ AnyLast(T \ {a})
    BY <2>4, <2>5, <2>6
  <2>8. g[T \ {z}] = c[a] + g[T \ {a, z}] /\ g[T \ {a}] = c[z] + g[T \ {a, z}]
    BY <2>6, <2>7
  <2>9. c[a] \in Nat /\ c[z] \in Nat /\ g[T \ {a, z}] \in Nat
    BY <2>4, <2>6
  <2>10. c[z] + (c[a] + g[T \ {a, z}]) = c[a] + (c[z] + g[T \ {a, z}])
    BY <2>9
  <2> QED BY <2>3, <2>4, <2>8, <2>10
<1>8. ASSUME NEW T \in SUBSET S PROVE AnyLast(T)
  <2> HIDE DEF AnyLast
  <2>1. T \notin Bad
    BY <1>7
  <2> QED BY <2>1
<1>9. Sums(g, c, S)
    BY <1>4, <1>8 DEF Sums
<1> QED BY <1>1, <1>3, <1>9 DEF C, F

\* Sums of the same amounts are the same.
LEMMA SumsAgree ==
    ASSUME NEW S, IsFiniteSet(S), NEW R \in SUBSET S, NEW c, NEW d, \A a \in R : c[a] = d[a],
           NEW g, Sums(g, c, S), NEW f, Sums(f, d, S), TakesFrom(Some(S), S)
    PROVE  g[R] = f[R]
<1> DEFINE P == {T \in SUBSET R : g[T] = f[T]}
           C == Some(S)
<1>1. IsFiniteSet(R) /\ TakesFrom(C, R)
    BY FS_Subset DEF TakesFrom
<1>2. {} \in P
    BY DEF Sums
<1>3. ASSUME NEW T \in SUBSET R, T # {}, T \ {C[T]} \in P PROVE T \in P
  <2>1. C[T] \in T /\ C[T] \in R /\ T \in SUBSET S
    BY <1>1, <1>3 DEF TakesFrom
  <2>2. g[T] = c[C[T]] + g[T \ {C[T]}] /\ f[T] = d[C[T]] + f[T \ {C[T]}]
    BY <2>1 DEF Sums
  <2> QED BY <1>3, <2>1, <2>2
<1> HIDE DEF P, C
<1>4. \A T \in SUBSET R : T \in P
    BY <1>1, <1>2, <1>3, SubsetInduction
<1> QED BY <1>4 DEF P

\* The pool of some sources is the sum of their cash.
LEMMA PoolIsSum ==
    ASSUME NEW s, s.cash \in [Accounts -> Nat], NEW sources \in Seq(Accounts)
    PROVE  /\ IsFiniteSet(Range(sources)) /\ Range(sources) \subseteq Accounts
           /\ TakesFrom(Some(Range(sources)), Range(sources))
           /\ \E g : Sums(g, s.cash, Range(sources)) /\ Pool(s, sources) = g[Range(sources)]
<1> DEFINE S == Range(sources)
           C == Some(S)
           Body(g) == [T \in SUBSET S |->
                          IF T = {} THEN 0
                          ELSE s.cash[CHOOSE x \in T : TRUE] + g[T \ {CHOOSE x \in T : TRUE}]]
           c == CHOOSE g : g = Body(g)
<1>1. S \subseteq Accounts /\ IsFiniteSet(S)
    BY AccountsAssumption, FS_Subset DEF Range
<1>2. \A a \in S : s.cash[a] \in Nat
    BY <1>1
<1>3. TakesFrom(C, S)
    BY <1>1, <1>2, SumsExist
<1>4. PICK g : /\ Folds(g, C, [p \in S \X Nat |-> s.cash[p[1]] + p[2]], 0, S)
               /\ Sums(g, s.cash, S)
    BY <1>1, <1>2, SumsExist
<1>5. \A T \in SUBSET S : C[T] = CHOOSE x \in T : TRUE
    BY DEF Some
<1> HIDE DEF S
<1>6. g = Body(g)
  <2>1. ASSUME NEW T \in SUBSET S
        PROVE  g[T] = IF T = {} THEN 0
                      ELSE s.cash[CHOOSE x \in T : TRUE] + g[T \ {CHOOSE x \in T : TRUE}]
    <3>1. CASE T = {}
      BY <1>4, <3>1 DEF Sums
    <3>2. CASE T # {}
      <4>1. (CHOOSE x \in T : TRUE) \in T
        BY <3>2
      <4> QED BY <1>4, <3>2, <4>1 DEF Sums
    <3> QED BY <3>1, <3>2
  <2> QED BY <1>4, <2>1 DEF Sums
<1>7. c = Body(c)
    BY <1>6
<1>8. Pool(s, sources) = c[S]
    BY DEF Pool, MapThenSumSet, MapThenFoldSet, S
<1> HIDE DEF c
<1> DEFINE P == {T \in SUBSET S : c[T] = g[T]}
<1>9. \A T \in SUBSET S : c[T] = IF T = {} THEN 0
                                 ELSE s.cash[CHOOSE x \in T : TRUE] + c[T \ {CHOOSE x \in T : TRUE}]
    BY <1>7
<1>10. {} \in P
    BY <1>4, <1>9 DEF Sums
<1>11. ASSUME NEW T \in SUBSET S, T # {}, T \ {C[T]} \in P PROVE T \in P
  <2>1. C[T] = CHOOSE x \in T : TRUE
    BY <1>5
  <2>2. c[T] = s.cash[C[T]] + c[T \ {C[T]}]
    BY <1>9, <1>11, <2>1
  <2>3. C[T] \in T
    BY <1>3, <1>11 DEF TakesFrom
  <2>4. g[T] = s.cash[C[T]] + g[T \ {C[T]}]
    BY <1>4, <2>3 DEF Sums
  <2> QED BY <1>11, <2>2, <2>4
<1> HIDE DEF P, C
<1>12. \A T \in SUBSET S : T \in P
    BY <1>1, <1>3, <1>10, <1>11, SubsetInduction
<1>13. c[S] = g[S]
    BY <1>12 DEF P
<1> QED BY <1>1, <1>3, <1>4, <1>8, <1>13 DEF S, C

LEMMA PoolType ==
    ASSUME NEW s, s.cash \in [Accounts -> Nat], NEW sources \in Seq(Accounts)
    PROVE  Pool(s, sources) \in Nat
<1>1. PICK g : Sums(g, s.cash, Range(sources)) /\ Pool(s, sources) = g[Range(sources)]
    BY PoolIsSum
<1> QED BY <1>1 DEF Sums

\* The sources of a policy are distinct.
LEMMA SourcesDistinct ==
    ASSUME NEW sources \in Seq(Accounts), Len(sources) = Cardinality(Range(sources)),
           NEW j \in DOMAIN sources, NEW k \in DOMAIN sources, sources[j] = sources[k]
    PROVE  j = k
<1> DEFINE n == Len(sources)
           S == Range(sources)
           f == [i \in 1..n |-> sources[i]]
<1>1. n \in Nat /\ DOMAIN sources = 1..n
    OBVIOUS
<1>2. IsFiniteSet(1..n) /\ Cardinality(1..n) = n
    BY <1>1, FS_Interval
<1>3. f \in Surjection(1..n, S)
    BY <1>1 DEF Surjection, Range
<1>4. f \in Injection(1..n, S)
  <2> HIDE DEF f, S
  <2> QED BY <1>2, <1>3, FS_SurjSameCardinalityImpliesInj DEF S
<1>5. j \in 1..n /\ k \in 1..n /\ f[j] = f[k]
    BY <1>1
<1> HIDE DEF f, n, S
<1> QED BY <1>4, <1>5 DEF Injection, IsInjective

\* A covered amount is in the pool.
LEMMA CoveredPool ==
    ASSUME NEW s, s.cash \in [Accounts -> Nat], NEW sources \in Seq(Accounts),
           \A j, k \in DOMAIN sources : sources[j] = sources[k] => j = k,
           NEW amount \in Nat, Covered(s, sources, amount)
    PROVE  Pool(s, sources) \in Nat /\ amount <= Pool(s, sources)
<1> DEFINE n == Len(sources)
           S == Range(sources)
           left == Remaining(s, sources, amount)
           First(k) == {sources[j] : j \in 1..k}
<1>0. DOMAIN sources = 1..n /\ \A k \in 1..n : sources[k] \in Accounts
    OBVIOUS
<1>1. n \in Nat /\ \A k \in 1..n : sources[k] \in S /\ s.cash[sources[k]] \in Nat
  <2>1. \A k \in DOMAIN sources : sources[k] \in S
    BY DEF Range
  <2> QED BY <1>0, <2>1
<1> HIDE DEF S, First
<1>2. /\ left \in [0..n -> Nat] /\ left[0] = amount
      /\ \A k \in 1..n : left[k] = left[k - 1] - Min({s.cash[sources[k]], left[k - 1]})
    BY RemainderFalls
<1>3. PICK g : Sums(g, s.cash, S) /\ Pool(s, sources) = g[S]
    BY PoolIsSum DEF S
<1>4. \A k \in 0..n : First(k) \in SUBSET S
    BY <1>1 DEF First
<1>5. \A k \in 0..n : left[k] \in Nat /\ g[First(k)] \in Nat
    BY <1>2, <1>3, <1>4 DEF Sums
<1> DEFINE K == {k \in 0..n : amount <= left[k] + g[First(k)]}
<1>6. 0 \in K
  <2>1. First(0) = {}
    BY DEF First
  <2>2. g[First(0)] = 0
    BY <1>3, <2>1 DEF Sums
  <2> HIDE DEF left
  <2> QED BY <1>1, <1>2, <2>2
<1>7. ASSUME NEW k \in 0..n, k < n, k \in K PROVE k + 1 \in K
  <2> DEFINE a == sources[k + 1]
             c == s.cash[a]
             x == left[k]
             y == left[k + 1]
  <2>1. k + 1 \in 1..n /\ k + 1 \in 0..n /\ (k + 1) - 1 = k
    BY <1>1, <1>7
  <2>2. c \in Nat /\ x \in Nat /\ y = x - Min({c, x})
    BY <1>1, <1>2, <1>5, <2>1
  <2>3. y \in Nat /\ x - y <= c
    <3> HIDE DEF c, x, y
    <3> QED BY <2>2, OnePays
  <2>4. First(k + 1) = First(k) \cup {a}
    <3>1. 1..(k + 1) = (1..k) \cup {k + 1}
      BY <2>1
    <3> QED BY <3>1 DEF First
  <2>5. a \notin First(k)
    <3>1. ASSUME NEW j \in 1..k, sources[j] = a PROVE FALSE
      <4>1. j \in DOMAIN sources /\ k + 1 \in DOMAIN sources /\ j # k + 1
        BY <1>0, <2>1
      <4> QED BY <3>1, <4>1
    <3> QED BY <3>1 DEF First
  <2>6. g[First(k + 1)] = c + g[First(k)]
    <3>1. First(k + 1) \in SUBSET S /\ a \in First(k + 1) /\ First(k + 1) \ {a} = First(k)
      BY <1>4, <2>1, <2>4, <2>5
    <3> HIDE DEF a, c
    <3>2. g[First(k + 1)] = s.cash[a] + g[First(k + 1) \ {a}]
      BY <1>3, <3>1, SumsStep
    <3> QED BY <3>1, <3>2 DEF c
  <2>7. amount <= x + g[First(k)] /\ g[First(k)] \in Nat
    BY <1>5, <1>7
  <2> DEFINE u == g[First(k)]
             v == g[First(k + 1)]
  <2>8. amount <= x + u /\ u \in Nat /\ v = c + u
    BY <2>6, <2>7
  <2> HIDE DEF c, x, u, v
  <2>9. amount <= y + v
    <3> HIDE DEF y
    <3>1. x \in Nat /\ c \in Nat
      BY <2>2
    <3> QED BY <2>3, <2>8, <3>1
  <2> QED BY <2>1, <2>9 DEF v
<1> HIDE DEF K, n
<1>8. n \in K
  <2>1. \A k \in 0..n : k \in K
    BY <1>1, <1>6, <1>7, Induction
  <2> QED BY <1>1, <2>1
<1>9. First(n) = S
    BY <1>0 DEF Range, First, S, n
<1>10. left[n] = 0
    BY DEF Covered, n
<1> HIDE DEF left
<1>11. n \in 0..n
    BY <1>1
<1> QED BY <1>3, <1>5, <1>8, <1>9, <1>10, <1>11 DEF K

\* An amount of cash goes from one account to another.
MovedBetween(s, t, a, b, m) ==
    \A x \in Accounts : t.cash[x] = s.cash[x] - (IF x = a THEN m ELSE 0)
                                              + (IF x = b THEN m ELSE 0)

\* Cash that stays inside a pool does not change it.
LEMMA PoolConserved ==
    ASSUME NEW s, s.cash \in [Accounts -> Nat], NEW t, t.cash \in [Accounts -> Nat],
           NEW sources \in Seq(Accounts), NEW a \in Range(sources), NEW b \in Range(sources),
           NEW m \in Nat, MovedBetween(s, t, a, b, m)
    PROVE  Pool(t, sources) = Pool(s, sources)
<1> DEFINE S == Range(sources)
           R == S \ {a, b}
<1>1. /\ IsFiniteSet(S) /\ S \subseteq Accounts /\ TakesFrom(Some(S), S)
    BY PoolIsSum
<1>2. PICK g : Sums(g, s.cash, S) /\ Pool(s, sources) = g[S]
    BY PoolIsSum
<1>3. PICK f : Sums(f, t.cash, S) /\ Pool(t, sources) = f[S]
    BY PoolIsSum
<1> HIDE DEF S
<1>4. g[R] = f[R] /\ g[R] \in Nat
  <2>1. \A x \in R : s.cash[x] = t.cash[x]
    BY <1>1 DEF MovedBetween
  <2>2. R \in SUBSET S
    OBVIOUS
  <2> DEFINE c == s.cash
             d == t.cash
  <2>3. Sums(g, c, S) /\ Sums(f, d, S) /\ \A x \in R : c[x] = d[x]
    BY <1>2, <1>3, <2>1
  <2> HIDE DEF R, c, d
  <2>4. g[R] = f[R]
    BY <1>1, <2>2, <2>3, SumsAgree
  <2> QED BY <1>2, <2>2, <2>4 DEF Sums
<1>5. a \in S /\ b \in S /\ a \in Accounts /\ b \in Accounts
    BY <1>1 DEF S
<1>6. \A T \in SUBSET S : \A x \in T :
          g[T] = s.cash[x] + g[T \ {x}] /\ f[T] = t.cash[x] + f[T \ {x}]
    BY <1>2, <1>3 DEF Sums
<1>7. CASE a = b
  <2>1. S \ {a} = R
    BY <1>7
  <2>2. g[S] = s.cash[a] + g[S \ {a}] /\ f[S] = t.cash[a] + f[S \ {a}]
    BY <1>5, <1>6
  <2>3. t.cash[a] = s.cash[a]
    BY <1>5, <1>7 DEF MovedBetween
  <2> QED BY <1>2, <1>3, <1>4, <2>1, <2>2, <2>3
<1>8. CASE a # b
  <2>1. S \ {a} \in SUBSET S /\ b \in S \ {a} /\ (S \ {a}) \ {b} = R
    BY <1>5, <1>8
  <2> DEFINE Q == S \ {a}
  <2>2. /\ g[S] = s.cash[a] + g[Q] /\ g[Q] = s.cash[b] + g[R]
        /\ f[S] = t.cash[a] + f[Q] /\ f[Q] = t.cash[b] + f[R]
    <3>1. g[S] = s.cash[a] + g[Q] /\ f[S] = t.cash[a] + f[Q]
      BY <1>5, <1>6
    <3>2. Q \in SUBSET S /\ b \in Q /\ Q \ {b} = R
      BY <2>1
    <3> HIDE DEF Q, R
    <3>3. g[Q] = s.cash[b] + g[Q \ {b}] /\ f[Q] = t.cash[b] + f[Q \ {b}]
      BY <1>6, <3>2
    <3> QED BY <3>1, <3>2, <3>3
  <2> HIDE DEF Q
  <2>3. t.cash[a] = s.cash[a] - m /\ t.cash[b] = s.cash[b] + m
    BY <1>5, <1>8 DEF MovedBetween
  <2>4. s.cash[a] \in Nat /\ s.cash[b] \in Nat
    BY <1>5
  <2> DEFINE p == s.cash[a]
             q == s.cash[b]
             u == g[R]
  <2>5. /\ p \in Nat /\ q \in Nat /\ u \in Nat /\ g[S] = p + (q + u)
        /\ f[S] = (p - m) + ((q + m) + u)
    BY <1>4, <2>2, <2>3, <2>4
  <2> HIDE DEF p, q, u
  <2>6. f[S] = g[S]
    BY <2>5
  <2> QED BY <1>2, <1>3, <2>6
<1> QED BY <1>7, <1>8

\* The first source pays the whole amount.
PaysFirst(s, sources, amount) ==
    /\ Covered(s, sources, amount)
    /\ Draw(s, sources, amount) = [a \in Accounts |-> IF a = sources[1] THEN amount ELSE 0]

\* A first source that has the amount pays all of it.
LEMMA FirstPays ==
    ASSUME NEW s, s.cash \in [Accounts -> Nat], NEW sources \in Seq(Accounts), sources # <<>>,
           NEW amount \in Nat, amount <= s.cash[sources[1]]
    PROVE  PaysFirst(s, sources, amount)
<1>0. /\ Remaining(s, sources, amount) \in [0..Len(sources) -> Nat]
      /\ Remaining(s, sources, amount)[0] = amount
      /\ \A k \in 1..Len(sources) :
            Remaining(s, sources, amount)[k] =
                Remaining(s, sources, amount)[k - 1]
                    - Min({s.cash[sources[k]], Remaining(s, sources, amount)[k - 1]})
    BY RemainderFalls
<1> DEFINE n == Len(sources)
           left == Remaining(s, sources, amount)
<1>1. n \in Nat /\ 1 \in 1..n /\ \A k \in 1..n : s.cash[sources[k]] \in Nat
    OBVIOUS
<1>2. /\ left \in [0..n -> Nat] /\ left[0] = amount
      /\ \A k \in 1..n : left[k] = left[k - 1] - Min({s.cash[sources[k]], left[k - 1]})
    BY <1>0
<1> HIDE DEF left, n
<1>3. left[1] = 0
  <2>1. Min({s.cash[sources[1]], amount}) = amount
    BY <1>1, MinOfTwo
  <2>2. left[1] = left[1 - 1] - Min({s.cash[sources[1]], left[1 - 1]})
    BY <1>1, <1>2
  <2>3. 1 - 1 = 0
    OBVIOUS
  <2>4. left[1] = amount - amount
    BY <1>2, <2>1, <2>2, <2>3
  <2> QED BY <2>4
<1> DEFINE K == {k \in 0..n : k > 0 => left[k] = 0}
<1>4. 0 \in K
    BY <1>1
<1>5. ASSUME NEW k \in 0..n, k < n, k \in K PROVE k + 1 \in K
  <2>1. k + 1 \in 1..n /\ k + 1 \in 0..n /\ (k + 1) - 1 = k
    BY <1>1, <1>5
  <2>2. CASE k = 0
    BY <1>3, <2>1, <2>2
  <2>3. CASE k > 0
    <3>1. Min({s.cash[sources[k + 1]], 0}) = 0
      BY <1>1, <2>1, MinOfTwo
    <3>2. left[k + 1] = 0 - 0
      BY <1>2, <1>5, <2>1, <2>3, <3>1
    <3> QED BY <2>1, <3>2
  <2> QED BY <1>1, <2>2, <2>3
<1> HIDE DEF K
<1>6. \A k \in 0..n : k \in K
    BY <1>1, <1>4, <1>5, Induction
<1>7. \A k \in 1..n : left[k] = 0
    BY <1>1, <1>6 DEF K
<1>8. Covered(s, sources, amount)
  <2>1. n \in 1..n
    BY <1>1
  <2> QED BY <1>7, <2>1 DEF Covered, left, n
<1>9. ASSUME NEW a \in Accounts
      PROVE  Draw(s, sources, amount)[a] = IF a = sources[1] THEN amount ELSE 0
  <2>1. CASE a \notin Range(sources)
    <3>1. a # sources[1]
      BY <1>1, <2>1 DEF Range, n
    <3> QED BY <2>1, <3>1 DEF Draw
  <2>2. CASE a \in Range(sources)
    <3>1. PICK k \in 1..n : sources[k] = a
      BY <2>2 DEF Range, n
    <3> DEFINE p == Place(sources, a)
    <3>2. p \in 1..k /\ sources[p] = a
      BY <3>1, FirstPlace DEF n
    <3>3. Draw(s, sources, amount)[a] = left[p - 1] - left[p]
      BY <2>2 DEF Draw, Place, left
    <3> HIDE DEF p
    <3>4. p \in 1..n /\ left[p] = 0
      BY <1>1, <1>7, <3>1, <3>2
    <3>5. CASE p = 1
      <4>1. left[p - 1] = amount
        BY <1>2, <3>5
      <4> QED BY <3>2, <3>3, <3>4, <3>5, <4>1
    <3>6. CASE p # 1
      <4>1. p - 1 \in 1..n
        <5>1. n \in Nat
          BY <1>1
        <5> QED BY <3>4, <3>6, <5>1
      <4>2. left[p - 1] = 0
        BY <1>7, <4>1
      <4>3. a # sources[1]
        <5> DEFINE q == Place(sources, sources[1])
        <5>1. q \in 1..1 /\ q = 1
          BY <1>1, FirstPlace DEF n
        <5> QED BY <3>6, <5>1 DEF p
      <4> QED BY <3>3, <3>4, <4>2, <4>3
    <3> QED BY <3>5, <3>6
  <2> QED BY <2>1, <2>2
<1>10. Draw(s, sources, amount) = [a \in Accounts |-> Draw(s, sources, amount)[a]]
    BY DEF Draw
<1> QED BY <1>8, <1>9, <1>10 DEF PaysFirst

LEMMA FirstRemainder ==
    ASSUME NEW s, s.cash \in [Accounts -> Nat], NEW sources \in Seq(Accounts),
           NEW amount \in Nat
    PROVE  sources # <<>> =>
              /\ s.cash[sources[1]] \in Nat
              /\ Remaining(s, sources, amount)[1] = amount - Min({s.cash[sources[1]], amount})
<1> DEFINE left == Remaining(s, sources, amount)
           n == Len(sources)
<1>1. /\ left \in [0..n -> Nat] /\ left[0] = amount
      /\ \A k \in 1..n : left[k] = left[k - 1] - Min({s.cash[sources[k]], left[k - 1]})
    BY RemainderFalls
<1> HIDE DEF left, n
<1> SUFFICES ASSUME sources # <<>>
             PROVE  /\ s.cash[sources[1]] \in Nat
                    /\ left[1] = amount - Min({s.cash[sources[1]], amount})
    BY DEF left
<1>2. 1 - 1 = 0 /\ 1 \in 1..n
    BY DEF n
<1>3. left[1] = left[0] - Min({s.cash[sources[1]], left[0]})
    BY <1>1, <1>2
<1>4. left[1] = amount - Min({s.cash[sources[1]], amount})
    BY <1>1, <1>3
<1> QED BY <1>4

\* A single source that covers an amount has it.
LEMMA SingleCovers ==
    ASSUME NEW s, s.cash \in [Accounts -> Nat], NEW sources \in Seq(Accounts),
           sources # <<>>, Len(sources) = 1, NEW amount \in Nat, Covered(s, sources, amount)
    PROVE  amount <= s.cash[sources[1]]
<1> DEFINE c == s.cash[sources[1]]
<1>1. c \in Nat /\ Remaining(s, sources, amount)[1] = amount - Min({c, amount})
    BY FirstRemainder
<1>2. 0 = amount - Min({c, amount})
    BY <1>1 DEF Covered
<1> HIDE DEF c
<1>3. Min({c, amount}) = IF c <= amount THEN c ELSE amount
    BY <1>1, MinOfTwo
<1> QED BY <1>1, <1>2, <1>3 DEF c

-----------------------------------------------------------------------------
(* Works that commute.                                                       *)

\* What funding takes depends on the cash alone.
RemainingFrom(c, sources, amount) ==
    LET left[k \in 0..Len(sources)] ==
            IF k = 0 THEN amount ELSE left[k - 1] - Min({c[sources[k]], left[k - 1]})
    IN  left

LEMMA FundingSeesCash ==
    ASSUME NEW s, NEW t, s.cash = t.cash, NEW sources, NEW amount
    PROVE  /\ Covered(s, sources, amount) <=> Covered(t, sources, amount)
           /\ Draw(s, sources, amount) = Draw(t, sources, amount)
<1>1. /\ Remaining(s, sources, amount) = RemainingFrom(s.cash, sources, amount)
      /\ Remaining(t, sources, amount) = RemainingFrom(t.cash, sources, amount)
    BY DEF Remaining, RemainingFrom
<1>2. Remaining(s, sources, amount) = Remaining(t, sources, amount)
    BY <1>1
<1> QED BY <1>2 DEF Covered, Draw

LEMMA OutIsDraw ==
    ASSUME NEW s, NEW t, NEW sources, NEW amount,
           Draw(s, sources, amount) = Draw(t, sources, amount)
    PROVE  Out(s, sources, amount) = Out(t, sources, amount)
    BY DEF Out

LEMMA SameState ==
    ASSUME NEW h, NEW s \in States(h), NEW t \in States(h),
           s.cash = t.cash, s.principal = t.principal, s.owed = t.owed, s.unpaid = t.unpaid,
           s.lots = t.lots, s.satisfied = t.satisfied, s.books = t.books,
           s.outcomes = t.outcomes, s.failed = t.failed
    PROVE  s = t
<1>1. \A u \in {s, t} :
         u = [cash |-> u.cash, principal |-> u.principal, owed |-> u.owed, unpaid |-> u.unpaid,
              lots |-> u.lots, satisfied |-> u.satisfied, books |-> u.books,
              outcomes |-> u.outcomes, failed |-> u.failed]
    BY DEF States
<1> QED BY <1>1

\* t is s with a posting in a book.
IsPosted(t, s, book, i, moved) ==
    /\ t.cash = [a \in Accounts |-> s.cash[a] + moved[a]]
    /\ t.books = [s.books EXCEPT ![book] = Append(@, [item |-> i, moved |-> moved])]
    /\ t.principal = s.principal /\ t.owed = s.owed /\ t.unpaid = s.unpaid
    /\ t.lots = s.lots /\ t.satisfied = s.satisfied /\ t.outcomes = s.outcomes
    /\ t.failed = s.failed

LEMMA PostedFields ==
    ASSUME NEW h, NEW s \in States(h), NEW book, NEW i, NEW moved
    PROVE  IsPosted(Posted(s, book, i, moved), s, book, i, moved)
    BY DEF Posted, States, IsPosted

\* What a required service pays at once.
Payment(s, x) ==
    IF Covered(s, x.from, Due(s, x)) THEN Out(s, x.from, Due(s, x)) ELSE Nothing

\* t is s with a service paid or left as a claim.
IsServed(t, s, i, x) ==
    LET due == Due(s, x)
        covered == Covered(s, x.from, due)
    IN  /\ t.cash = [a \in Accounts |-> s.cash[a] + Payment(s, x)[a]]
        /\ t.books = [s.books EXCEPT !["liabilities"] =
                         Append(@, [item |-> i, moved |-> Payment(s, x)])]
        /\ t.principal = IF covered THEN [s.principal EXCEPT ![x.loan] = @ - due]
                         ELSE s.principal
        /\ t.owed = [s.owed EXCEPT ![x.loan] = IF covered THEN 0 ELSE due]
        /\ t.satisfied = IF covered THEN s.satisfied \cup {x.loan} ELSE s.satisfied
        /\ t.outcomes = Append(s.outcomes, [item |-> i, paid |-> covered])
        /\ t.unpaid = s.unpaid /\ t.lots = s.lots /\ t.failed = s.failed

LEMMA RequiredFields ==
    ASSUME NEW h \in Households, NEW s, Sound(h, s), NEW i \in DOMAIN h.plan,
           h.plan[i].kind = "required", Due(s, h.plan[i]) # 0
    PROVE  IsServed(Required(s, i, h.plan[i]), s, i, h.plan[i])
<1> DEFINE x == h.plan[i]
           due == Due(s, x)
           covered == Covered(s, x.from, due)
           paid == Payment(s, x)
           r == Posted(s, "liabilities", i, paid)
           u == [r EXCEPT !.principal[x.loan] = @ - due, !.owed[x.loan] = 0,
                          !.satisfied = @ \cup {x.loan}]
           v == [r EXCEPT !.owed[x.loan] = due]
           w == Required(s, i, x)
<1>1. x.loan \in Loans /\ x.from \in Seq(Accounts) /\ "liabilities" \in Books
    BY ItemTypes DEF Books
<1>2. due \in Nat /\ due <= s.principal[x.loan] /\ due # 0
    BY DueIsOwed
<1>3. w = IF covered THEN Outcome(u, i, TRUE) ELSE Outcome(v, i, FALSE)
    BY <1>2 DEF Required, Payment
<1>4. paid \in [Accounts -> Int] /\ \A a \in Accounts : s.cash[a] + paid[a] \in Nat
    BY <1>1, <1>2, Movements DEF Payment
<1> HIDE DEF due, paid, covered, w
<1>5. Sound(h, r)
    BY <1>1, <1>4, PostedFacts
<1>6. s \in States(h)
    BY DEF Sound
<1>7. IsPosted(r, s, "liabilities", i, paid)
    BY <1>6, PostedFields
<1>8. r \in States(h)
    BY <1>5, SMTT(60) DEF Sound
<1> HIDE DEF r
<1>9. CASE covered
  <2>1. /\ u.principal = [r.principal EXCEPT ![x.loan] = @ - due]
        /\ u.owed = [r.owed EXCEPT ![x.loan] = 0]
        /\ u.satisfied = r.satisfied \cup {x.loan}
        /\ u.cash = r.cash /\ u.books = r.books /\ u.unpaid = r.unpaid /\ u.lots = r.lots
        /\ u.outcomes = r.outcomes /\ u.failed = r.failed
        /\ u = [r EXCEPT !.principal = u.principal, !.owed = u.owed, !.satisfied = u.satisfied]
    BY <1>8 DEF States
  <2>2. /\ w.principal = u.principal /\ w.owed = u.owed /\ w.satisfied = u.satisfied
        /\ w.cash = u.cash /\ w.books = u.books /\ w.unpaid = u.unpaid /\ w.lots = u.lots
        /\ w.outcomes = Append(u.outcomes, [item |-> i, paid |-> TRUE]) /\ w.failed = u.failed
    <3>1. w = [u EXCEPT !.outcomes = Append(@, [item |-> i, paid |-> TRUE])]
      BY <1>3, <1>9 DEF Outcome
    <3> QED BY <1>8, <3>1 DEF States
  <2> HIDE DEF u
  <2>3. covered = TRUE
    BY <1>9 DEF covered, Covered
  <2> QED BY <1>7, <2>1, <2>2, <2>3 DEF due, paid, covered, w, IsServed, IsPosted
<1>10. CASE ~covered
  <2>1. /\ v.owed = [r.owed EXCEPT ![x.loan] = due]
        /\ v.principal = r.principal /\ v.satisfied = r.satisfied
        /\ v.cash = r.cash /\ v.books = r.books /\ v.unpaid = r.unpaid /\ v.lots = r.lots
        /\ v.outcomes = r.outcomes /\ v.failed = r.failed
        /\ v = [r EXCEPT !.owed = v.owed]
    BY <1>8 DEF States
  <2>2. /\ w.principal = v.principal /\ w.owed = v.owed /\ w.satisfied = v.satisfied
        /\ w.cash = v.cash /\ w.books = v.books /\ w.unpaid = v.unpaid /\ w.lots = v.lots
        /\ w.outcomes = Append(v.outcomes, [item |-> i, paid |-> FALSE]) /\ w.failed = v.failed
    <3>1. w = [v EXCEPT !.outcomes = Append(@, [item |-> i, paid |-> FALSE])]
      BY <1>3, <1>10 DEF Outcome
    <3> QED BY <1>8, <3>1 DEF States
  <2> HIDE DEF v
  <2>3. covered = FALSE
    BY <1>10 DEF covered, Covered
  <2> QED BY <1>7, <2>1, <2>2, <2>3 DEF due, paid, covered, w, IsServed, IsPosted
<1> QED BY <1>9, <1>10

LEMMA ExceptsCommute ==
    ASSUME NEW D, NEW V, NEW B \in [D -> V], NEW p \in D, NEW q \in D, p # q, NEW e, NEW f
    PROVE  [[B EXCEPT ![p] = Append(@, e)] EXCEPT ![q] = Append(@, f)]
               = [[B EXCEPT ![q] = Append(@, f)] EXCEPT ![p] = Append(@, e)]
<1> DEFINE L == [[B EXCEPT ![p] = Append(@, e)] EXCEPT ![q] = Append(@, f)]
           R == [[B EXCEPT ![q] = Append(@, f)] EXCEPT ![p] = Append(@, e)]
<1>1. L = [d \in D |-> L[d]] /\ R = [d \in D |-> R[d]]
    OBVIOUS
<1>2. \A d \in D : L[d] = R[d]
    OBVIOUS
<1> HIDE DEF L, R
<1>3. L = R
    BY <1>1, <1>2
<1> QED BY <1>3 DEF L, R

\* A service and a posting in another book commute if the posting changes nothing of
\* what the service pays.
LEMMA PostingCommutes ==
    ASSUME NEW h \in Households, NEW s, Sound(h, s), NEW j \in DOMAIN h.plan,
           h.plan[j].kind = "required", Due(s, h.plan[j]) # 0,
           NEW i \in DOMAIN h.plan, NEW book \in Books \ {"liabilities"}, NEW moved \in [Accounts -> Int],
           \A a \in Accounts : s.cash[a] + moved[a] \in Nat,
           \A a \in Accounts : s.cash[a] + Payment(s, h.plan[j])[a] + moved[a] \in Nat,
           LET t == Posted(s, book, i, moved)
               x == h.plan[j]
           IN  /\ Covered(t, x.from, Due(s, x)) <=> Covered(s, x.from, Due(s, x))
               /\ Covered(s, x.from, Due(s, x)) =>
                     Draw(t, x.from, Due(s, x)) = Draw(s, x.from, Due(s, x))
    PROVE  Required(Posted(s, book, i, moved), j, h.plan[j])
               = Posted(Required(s, j, h.plan[j]), book, i, moved)
<1> DEFINE x == h.plan[j]
           due == Due(s, x)
           covered == Covered(s, x.from, due)
           t == Posted(s, book, i, moved)
           r == Required(s, j, x)
           a1 == Required(t, j, x)
           b1 == Posted(r, book, i, moved)
           paid == Payment(s, x)
<1>1. s \in States(h) /\ x.loan \in Loans /\ x.from \in Seq(Accounts)
    BY ItemTypes DEF Sound
<1>2. Sound(h, t)
    BY PostedFacts
<1>3. Sound(h, r)
    BY RequiredIsAfter DEF After
<1>4. t \in States(h) /\ r \in States(h)
    BY <1>2, <1>3 DEF Sound
<1>5. Sound(h, a1)
    BY <1>2, RequiredIsAfter DEF After
<1>6. IsPosted(t, s, book, i, moved)
    BY <1>1, PostedFields
<1>7. Due(t, x) = due
  <2>1. t.owed = s.owed /\ t.principal = s.principal
    BY <1>6 DEF IsPosted
  <2> HIDE DEF t
  <2> QED BY <2>1 DEF Due
<1>8. Covered(t, x.from, due) <=> covered
    OBVIOUS
<1>9. Payment(t, x) = paid
  <2>1. covered => Out(t, x.from, due) = Out(s, x.from, due)
    BY OutIsDraw
  <2> HIDE DEF t, due
  <2> QED BY <1>7, <1>8, <2>1 DEF Payment, due
<1>10. paid \in [Accounts -> Int]
  <2>1. due \in Nat
    BY DueIsOwed
  <2> QED BY <1>1, <2>1, Movements DEF Payment
<1>11. IsServed(r, s, j, x)
    BY RequiredFields
<1>12. IsServed(a1, t, j, x)
  <2>1. Due(t, x) # 0
    BY <1>7
  <2> HIDE DEF t
  <2> QED BY <1>2, <2>1, RequiredFields
<1>13. IsPosted(b1, r, book, i, moved)
  <2> HIDE DEF r
  <2> QED BY <1>4, PostedFields
<1>14. r.cash = [a \in Accounts |-> s.cash[a] + paid[a]]
  <2> HIDE DEF r
  <2> QED BY <1>11 DEF IsServed
<1>15. Sound(h, b1)
  <2>1. \A a \in Accounts : r.cash[a] + moved[a] \in Nat
    BY <1>14
  <2>2. book \in Books
    OBVIOUS
  <2> HIDE DEF r
  <2> QED BY <1>3, <2>1, <2>2, PostedFacts
<1> HIDE DEF t, r, a1, b1, paid, due
<1>16. a1.cash = b1.cash
  <2>1. a1.cash = [a \in Accounts |-> (s.cash[a] + moved[a]) + paid[a]]
    BY <1>6, <1>9, <1>12 DEF IsPosted, IsServed
  <2>2. b1.cash = [a \in Accounts |-> (s.cash[a] + paid[a]) + moved[a]]
    BY <1>13, <1>14 DEF IsPosted
  <2>3. ASSUME NEW a \in Accounts
        PROVE  (s.cash[a] + moved[a]) + paid[a] = (s.cash[a] + paid[a]) + moved[a]
    <3>1. s.cash[a] \in Int /\ moved[a] \in Int /\ paid[a] \in Int
      BY <1>1, <1>10 DEF States
    <3> QED BY <3>1
  <2> QED BY <2>1, <2>2, <2>3
<1>17. a1.books = b1.books
  <2>1. s.books \in [Books -> Seq(Entries(h))]
    BY <1>1 DEF States
  <2> DEFINE e == [item |-> i, moved |-> moved]
             f == [item |-> j, moved |-> paid]
  <2>2. /\ a1.books = [[s.books EXCEPT ![book] = Append(@, e)] EXCEPT !["liabilities"] = Append(@, f)]
        /\ b1.books = [[s.books EXCEPT !["liabilities"] = Append(@, f)] EXCEPT ![book] = Append(@, e)]
    <3>1. a1.books = [t.books EXCEPT !["liabilities"] = Append(@, f)] /\ t.books = [s.books EXCEPT ![book] = Append(@, e)]
      BY <1>6, <1>9, <1>12 DEF IsPosted, IsServed
    <3>2. b1.books = [r.books EXCEPT ![book] = Append(@, e)] /\ r.books = [s.books EXCEPT !["liabilities"] = Append(@, f)]
      BY <1>11, <1>13 DEF IsPosted, IsServed, paid
    <3> QED BY <3>1, <3>2
  <2>3. book # "liabilities" /\ book \in Books
    OBVIOUS
  <2> DEFINE B == s.books
             V == Seq(Entries(h))
  <2>4. B \in [Books -> V] /\ "liabilities" \in Books
    BY <2>1 DEF Books
  <2> HIDE DEF e, f, B, V
  <2>5. [[B EXCEPT ![book] = Append(@, e)] EXCEPT !["liabilities"] = Append(@, f)]
            = [[B EXCEPT !["liabilities"] = Append(@, f)] EXCEPT ![book] = Append(@, e)]
    BY <2>3, <2>4, ExceptsCommute, ZenonT(60)
  <2> QED BY <2>2, <2>5 DEF B
<1>18. Covered(t, x.from, Due(t, x)) = covered
  <2>1. Covered(t, x.from, due) \in BOOLEAN /\ covered \in BOOLEAN
    BY DEF Covered
  <2>2. Covered(t, x.from, due) = covered
    BY <1>8, <2>1
  <2> QED BY <1>7, <2>2
<1>19. /\ a1.principal = b1.principal /\ a1.owed = b1.owed /\ a1.unpaid = b1.unpaid
       /\ a1.lots = b1.lots /\ a1.satisfied = b1.satisfied /\ a1.failed = b1.failed
       /\ a1.outcomes = b1.outcomes
  <2>1. /\ r.principal = IF covered THEN [s.principal EXCEPT ![x.loan] = @ - due]
                         ELSE s.principal
        /\ r.owed = [s.owed EXCEPT ![x.loan] = IF covered THEN 0 ELSE due]
        /\ r.satisfied = IF covered THEN s.satisfied \cup {x.loan} ELSE s.satisfied
        /\ r.outcomes = Append(s.outcomes, [item |-> j, paid |-> covered])
        /\ r.unpaid = s.unpaid /\ r.lots = s.lots /\ r.failed = s.failed
    BY <1>11 DEF IsServed, due
  <2>2. /\ a1.principal = IF covered THEN [t.principal EXCEPT ![x.loan] = @ - due]
                         ELSE t.principal
        /\ a1.owed = [t.owed EXCEPT ![x.loan] = IF covered THEN 0 ELSE due]
        /\ a1.satisfied = IF covered THEN t.satisfied \cup {x.loan} ELSE t.satisfied
        /\ a1.outcomes = Append(t.outcomes, [item |-> j, paid |-> covered])
        /\ a1.unpaid = t.unpaid /\ a1.lots = t.lots /\ a1.failed = t.failed
    BY <1>7, <1>12, <1>18 DEF IsServed
  <2>3. /\ t.principal = s.principal /\ t.owed = s.owed /\ t.unpaid = s.unpaid
        /\ t.lots = s.lots /\ t.satisfied = s.satisfied /\ t.outcomes = s.outcomes
        /\ t.failed = s.failed
    BY <1>6 DEF IsPosted
  <2>4. /\ b1.principal = r.principal /\ b1.owed = r.owed /\ b1.unpaid = r.unpaid
        /\ b1.lots = r.lots /\ b1.satisfied = r.satisfied /\ b1.outcomes = r.outcomes
        /\ b1.failed = r.failed
    BY <1>13 DEF IsPosted
  <2> HIDE DEF covered
  <2> QED BY <2>1, <2>2, <2>3, <2>4
<1>20. a1 = b1
    BY <1>5, <1>15, <1>16, <1>17, <1>19, SameState DEF Sound
<1> QED BY <1>20 DEF a1, b1, t, r

LEMMA FromTypes ==
    ASSUME NEW h \in Households, NEW i \in DOMAIN h.plan
    PROVE  /\ Len(h.plan[i].from) = Cardinality(Range(h.plan[i].from))
           /\ h.plan[i].kind = "required" => h.plan[i].from # <<>>
           /\ h.plan[i].kind = "transfer" => Len(h.plan[i].from) = 1
    BY HouseholdsAssumption DEF IsHousehold, IsPlan, IsItem

\* Both orders of two works end alike: in one state, or in two that threw.
EndAlike(h, s, i, j) ==
    \/ Step(h, Step(h, s, i), j) = Step(h, Step(h, s, j), i)
    \/ /\ Step(h, Step(h, s, i), j).failed
       /\ Step(h, Step(h, s, j), i).failed

LEMMA FailedStays ==
    ASSUME NEW h, NEW s, s.failed, NEW i
    PROVE  Step(h, s, i) = s
    BY DEF Step, Operate

\* The kinds of work that commute.
LEMMA Doings ==
    ASSUME NEW h, NEW s, ~s.failed, NEW i
    PROVE  /\ h.plan[i].kind = "income" => Step(h, s, i) = Income(s, i, h.plan[i])
           /\ h.plan[i].kind = "transfer" => Step(h, s, i) = Transfer(s, i, h.plan[i])
           /\ h.plan[i].kind = "required" => Step(h, s, i) = Required(s, i, h.plan[i])
    BY DEF Step, Operate

LEMMA FailFails ==
    ASSUME NEW h, NEW s \in States(h) PROVE Fail(s).failed = TRUE
    BY DEF Fail, States

\* An income adds to what the first source of a service can pay in any case.
LEMMA IncomeCommutes ==
    ASSUME NEW h \in Households, NEW s, Sound(h, s), ~s.failed,
           NEW i \in DOMAIN h.plan, h.plan[i].kind = "income",
           NEW j \in DOMAIN h.plan, h.plan[j].kind = "required",
           s.cash[h.plan[j].from[1]] >= Due(s, h.plan[j])
    PROVE  EndAlike(h, s, i, j)
<1> DEFINE x == h.plan[i]
           y == h.plan[j]
           due == Due(s, y)
           moved == Into(x.to, x.amount)
           t == Posted(s, "cash_flow", i, moved)
           r == Required(s, j, y)
<1>1. /\ y.from \in Seq(Accounts) /\ y.from # <<>> /\ due \in Nat /\ s \in States(h)
      /\ s.cash \in [Accounts -> Nat] /\ x.amount \in Nat /\ x.to \in Accounts
    BY ItemTypes, FromTypes, DueIsOwed DEF Sound, States
<1>2. "cash_flow" \in Books /\ "cash_flow" # "liabilities"
    BY DEF Books
<1>3. moved \in [Accounts -> Int] /\ \A a \in Accounts : moved[a] \in Nat /\ s.cash[a] + moved[a] \in Nat
    BY <1>1 DEF Into
<1>4. Step(h, s, i) = t /\ Step(h, s, j) = r
    BY Doings DEF Income
<1> HIDE DEF due, moved
<1>5. IsPosted(t, s, "cash_flow", i, moved)
    BY <1>1, PostedFields
<1>6. Sound(h, t)
    BY <1>2, <1>3, PostedFacts
<1> HIDE DEF t
<1>7. ~t.failed /\ t.cash \in [Accounts -> Nat] /\ t \in States(h) /\ Due(t, y) = due
    BY <1>5, <1>6 DEF IsPosted, Sound, States, Due, due
<1>8. Step(h, t, j) = Required(t, j, y)
    BY <1>7, Doings
<1>9. CASE due = 0
  <2>1. Required(s, j, y) = Fail(s) /\ Required(t, j, y) = Fail(t)
    BY <1>7, <1>9 DEF Required, due
  <2>2. Fail(s).failed = TRUE /\ Fail(t).failed = TRUE
    BY <1>1, <1>7, FailFails
  <2>3. Step(h, r, i) = r
    BY <2>1, <2>2, FailedStays
  <2> QED BY <1>4, <1>8, <2>1, <2>2, <2>3 DEF EndAlike
<1>10. CASE due # 0
  <2>1. due <= s.cash[y.from[1]] /\ due <= t.cash[y.from[1]]
    <3>1. y.from[1] \in Accounts
      BY <1>1
    <3>2. t.cash[y.from[1]] = s.cash[y.from[1]] + moved[y.from[1]]
      BY <1>5, <3>1 DEF IsPosted
    <3>3. s.cash[y.from[1]] \in Nat /\ moved[y.from[1]] \in Nat
      BY <1>1, <1>3, <3>1
    <3>4. due <= s.cash[y.from[1]]
      BY <1>1, <3>3 DEF due
    <3> QED BY <1>1, <3>2, <3>3, <3>4
  <2>2. /\ Covered(s, y.from, due) /\ Covered(t, y.from, due)
        /\ Draw(s, y.from, due) = Draw(t, y.from, due)
    <3> DEFINE f == y.from
    <3>1. /\ f \in Seq(Accounts) /\ f # <<>> /\ due \in Nat /\ due <= s.cash[f[1]]
          /\ due <= t.cash[f[1]] /\ s.cash \in [Accounts -> Nat] /\ t.cash \in [Accounts -> Nat]
      BY <1>1, <1>7, <2>1
    <3> HIDE DEF f
    <3>2. PaysFirst(s, f, due) /\ PaysFirst(t, f, due)
      BY <3>1, FirstPays
    <3>3. Covered(s, f, due) /\ Covered(t, f, due) /\ Draw(s, f, due) = Draw(t, f, due)
      BY <3>2 DEF PaysFirst
    <3> QED BY <3>3 DEF f
  <2>3. \A a \in Accounts : s.cash[a] + Payment(s, y)[a] + moved[a] \in Nat
    <3>1. \A a \in Accounts : s.cash[a] + Out(s, y.from, due)[a] \in Nat
      BY <1>1, Movements
    <3>2. Payment(s, y) = Out(s, y.from, due)
      BY <2>2 DEF Payment, due
    <3> QED BY <1>3, <3>1, <3>2
  <2>4. Required(t, j, y) = Posted(r, "cash_flow", i, moved)
    BY <1>2, <1>3, <1>10, <2>2, <2>3, PostingCommutes DEF t, due
  <2>5. ~r.failed
    <3>1. IsServed(r, s, j, y)
      BY <1>10, RequiredFields DEF due
    <3> HIDE DEF r
    <3> QED BY <3>1 DEF IsServed
  <2>6. Step(h, r, i) = Posted(r, "cash_flow", i, moved)
    BY <2>5, Doings DEF Income, moved
  <2> QED BY <1>4, <1>8, <2>4, <2>6 DEF EndAlike
<1> QED BY <1>9, <1>10

\* A transfer inside a pool that cannot pay a service leaves it so.
LEMMA TransferCommutes ==
    ASSUME NEW h \in Households, NEW s, Sound(h, s), ~s.failed,
           NEW i \in DOMAIN h.plan, h.plan[i].kind = "transfer",
           NEW j \in DOMAIN h.plan, h.plan[j].kind = "required",
           Pool(s, h.plan[j].from) < Due(s, h.plan[j]),
           {h.plan[i].from[1], h.plan[i].to} \subseteq Range(h.plan[j].from)
    PROVE  EndAlike(h, s, i, j)
<1> DEFINE x == h.plan[i]
           y == h.plan[j]
           due == Due(s, y)
           moved == [a \in Accounts |-> Out(s, x.from, x.amount)[a] + Into(x.to, x.amount)[a]]
           t == Posted(s, "investments", i, moved)
           r == Required(s, j, y)
<1>1. /\ y.from \in Seq(Accounts) /\ due \in Nat /\ s \in States(h) /\ s.failed = FALSE
      /\ s.cash \in [Accounts -> Nat] /\ x.amount \in Nat /\ x.to \in Accounts
      /\ x.from \in Seq(Accounts) /\ Len(x.from) = 1
      /\ \A k, m \in DOMAIN y.from : y.from[k] = y.from[m] => k = m
    BY ItemTypes, FromTypes, DueIsOwed, SourcesDistinct DEF Sound, States
<1>2. "investments" \in Books /\ "investments" # "liabilities"
    BY DEF Books
<1>3. Pool(s, y.from) \in Nat
  <2> DEFINE f == y.from
  <2>1. s.cash \in [Accounts -> Nat] /\ f \in Seq(Accounts)
    BY <1>1
  <2> HIDE DEF f
  <2>2. Pool(s, f) \in Nat
    BY <2>1, PoolType
  <2> QED BY <2>2 DEF f
<1>4. due # 0 /\ Pool(s, y.from) < due
    BY <1>1, <1>3
<1> HIDE DEF due
<1>5. ~Covered(s, y.from, due)
  <2> DEFINE f == y.from
  <2>1. /\ f \in Seq(Accounts) /\ \A k, m \in DOMAIN f : f[k] = f[m] => k = m
        /\ ~(due <= Pool(s, f))
    BY <1>1, <1>3, <1>4
  <2> HIDE DEF f
  <2>2. ~Covered(s, f, due)
    BY <1>1, <2>1, CoveredPool
  <2> QED BY <2>2 DEF f
<1>6. Payment(s, y) = Nothing
    BY <1>5 DEF Payment, due
<1>7. IsServed(r, s, j, y) /\ Sound(h, r)
    BY <1>4, RequiredFields, RequiredIsAfter DEF due, After
<1>8. Step(h, s, i) = Transfer(s, i, x) /\ Step(h, s, j) = r
    BY Doings
<1> HIDE DEF r
<1>9. r.cash = s.cash /\ ~r.failed /\ r \in States(h)
  <2>1. r.cash = [a \in Accounts |-> s.cash[a] + 0]
    BY <1>6, <1>7 DEF IsServed, Nothing
  <2>2. r.cash = s.cash
    BY <1>1, <2>1
  <2> QED BY <1>1, <1>7, <2>2 DEF IsServed, Sound
<1>10. /\ Covered(r, x.from, x.amount) <=> Covered(s, x.from, x.amount)
       /\ Out(r, x.from, x.amount) = Out(s, x.from, x.amount)
    BY <1>9, FundingSeesCash, OutIsDraw
<1>11. Step(h, r, i) = Transfer(r, i, x)
    BY <1>9, Doings
<1>12. CASE ~Covered(s, x.from, x.amount)
  <2>1. Transfer(s, i, x) = Fail(s) /\ Transfer(r, i, x) = Fail(r)
    BY <1>10, <1>12 DEF Transfer
  <2>2. Fail(s).failed = TRUE /\ Fail(r).failed = TRUE
    BY <1>1, <1>9, FailFails
  <2>3. Step(h, Fail(s), j) = Fail(s)
    BY <2>2, FailedStays
  <2> QED BY <1>8, <1>11, <2>1, <2>2, <2>3 DEF EndAlike
<1>13. CASE Covered(s, x.from, x.amount)
  <2>1. Transfer(s, i, x) = t /\ Transfer(r, i, x) = Posted(r, "investments", i, moved)
    BY <1>10, <1>13 DEF Transfer
  <2>2. moved \in [Accounts -> Int] /\ \A a \in Accounts : s.cash[a] + moved[a] \in Nat
    <3>1. /\ Out(s, x.from, x.amount) \in [Accounts -> Int]
          /\ \A a \in Accounts : s.cash[a] + Out(s, x.from, x.amount)[a] \in Nat
      BY <1>1, Movements
    <3>2. Into(x.to, x.amount) \in [Accounts -> Nat]
      BY <1>1 DEF Into
    <3> DEFINE o == Out(s, x.from, x.amount)
               e == Into(x.to, x.amount)
    <3>3. moved = [a \in Accounts |-> o[a] + e[a]]
      OBVIOUS
    <3>4. o \in [Accounts -> Int] /\ e \in [Accounts -> Nat] /\ \A a \in Accounts : s.cash[a] + o[a] \in Nat
      BY <3>1, <3>2
    <3> HIDE DEF o, e, moved
    <3>5. \A a \in Accounts : s.cash[a] \in Nat /\ o[a] \in Int /\ e[a] \in Nat /\ moved[a] = o[a] + e[a]
      BY <1>1, <3>3, <3>4
    <3>6. \A a \in Accounts : moved[a] \in Int /\ s.cash[a] + moved[a] \in Nat
      BY <3>4, <3>5
    <3> QED BY <3>3, <3>6
  <2> DEFINE a == x.from[1]
             m == x.amount
  <2>3. a \in Accounts /\ m <= s.cash[a]
    <3> DEFINE f == x.from
    <3>1. a \in Accounts /\ f \in Seq(Accounts) /\ f # <<>> /\ Len(f) = 1 /\ a = f[1]
      BY <1>1
    <3>2. Covered(s, f, m)
      BY <1>13
    <3>3. m \in Nat
      BY <1>1
    <3> HIDE DEF f, m
    <3>4. m <= s.cash[f[1]]
      BY <1>1, <3>1, <3>2, <3>3, SingleCovers
    <3> QED BY <3>1, <3>4
  <2>4. \A b \in Accounts : Out(s, x.from, m)[b] = -(IF b = a THEN m ELSE 0)
    <3>1. x.from # <<>>
      BY <1>1
    <3>2. Draw(s, x.from, m) = [b \in Accounts |-> IF b = a THEN m ELSE 0]
      <4> DEFINE f == x.from
      <4>1. f \in Seq(Accounts) /\ f # <<>> /\ a = f[1] /\ m <= s.cash[f[1]]
        BY <1>1, <2>3, <3>1
      <4> HIDE DEF f, a
      <4>2. Draw(s, f, m) = [b \in Accounts |-> IF b = f[1] THEN m ELSE 0]
        <5>1. PaysFirst(s, f, m)
          BY <1>1, <4>1, FirstPays
        <5> QED BY <5>1 DEF PaysFirst
      <4> QED BY <4>1, <4>2 DEF f
    <3> QED BY <3>2 DEF Out
  <2>5. IsPosted(t, s, "investments", i, moved) /\ Sound(h, t)
    <3> HIDE DEF moved
    <3> QED BY <1>1, <1>2, <2>2, PostedFields, PostedFacts
  <2> HIDE DEF t
  <2>6. /\ t.failed = FALSE /\ t.cash \in [Accounts -> Nat] /\ Due(t, y) = due
        /\ t.cash = [b \in Accounts |-> s.cash[b] + moved[b]]
    BY <1>1, <2>5 DEF IsPosted, Sound, States, Due, due
  <2>7. \A b \in Accounts : t.cash[b] = s.cash[b] - (IF b = a THEN m ELSE 0)
                                                  + (IF b = x.to THEN m ELSE 0)
    <3> TAKE b \in Accounts
    <3> DEFINE d == IF b = a THEN m ELSE 0
               e == IF b = x.to THEN m ELSE 0
               c == s.cash[b]
    <3>1. t.cash[b] = c + (Out(s, x.from, m)[b] + Into(x.to, m)[b])
      BY <2>6
    <3>2. Out(s, x.from, m)[b] = -d /\ Into(x.to, m)[b] = e
      BY <2>4 DEF Into
    <3>3. c \in Nat /\ d \in Nat /\ e \in Nat
      BY <1>1
    <3> HIDE DEF c, d, e, m
    <3>4. t.cash[b] = c + (-d + e)
      BY <3>1, <3>2
    <3>5. t.cash[b] = c - d + e
      BY <3>3, <3>4
    <3> QED BY <3>5 DEF c, d, e, m
  <2>8. Pool(t, y.from) = Pool(s, y.from)
    <3>1. a \in Range(y.from) /\ x.to \in Range(y.from)
      OBVIOUS
    <3> DEFINE f == y.from
               b1 == x.to
    <3>2. f \in Seq(Accounts) /\ a \in Range(f) /\ b1 \in Range(f) /\ m \in Nat
      BY <1>1, <3>1
    <3>3. MovedBetween(s, t, a, b1, m)
      BY <2>7, SMTT(60) DEF MovedBetween
    <3> HIDE DEF a, m, f, b1
    <3>4. s.cash \in [Accounts -> Nat] /\ t.cash \in [Accounts -> Nat]
      BY <1>1, <2>6
    <3>5. Pool(t, f) = Pool(s, f)
      BY <3>2, <3>3, <3>4, PoolConserved
    <3> QED BY <3>5 DEF f
  <2>9. ~Covered(t, y.from, due)
    <3> DEFINE f == y.from
    <3>1. /\ f \in Seq(Accounts) /\ \A k, l \in DOMAIN f : f[k] = f[l] => k = l
          /\ ~(due <= Pool(t, f))
      BY <1>1, <1>3, <1>4, <2>8
    <3> HIDE DEF f
    <3>2. ~Covered(t, f, due)
      BY <1>1, <2>6, <3>1, CoveredPool
    <3> QED BY <3>2 DEF f
  <2>10. \A b \in Accounts : s.cash[b] + Payment(s, y)[b] + moved[b] \in Nat
    <3> TAKE b \in Accounts
    <3> DEFINE c == s.cash[b]
               v == moved[b]
    <3>1. Payment(s, y)[b] = 0
      BY <1>6 DEF Nothing
    <3>2. c \in Nat /\ v \in Int /\ c + v \in Nat
      BY <1>1, <2>2
    <3> HIDE DEF c, v
    <3>3. c + 0 + v \in Nat
      BY <3>2
    <3> QED BY <3>1, <3>3 DEF c, v
  <2>11. Required(t, j, y) = Posted(r, "investments", i, moved)
    <3> HIDE DEF moved, a, m
    <3> QED BY <1>2, <1>4, <1>5, <2>2, <2>9, <2>10, PostingCommutes DEF t, r, due
  <2>12. Step(h, t, j) = Required(t, j, y)
    BY <2>6, Doings
  <2> QED BY <1>8, <1>11, <2>1, <2>11, <2>12 DEF EndAlike
<1> QED BY <1>12, <1>13

-----------------------------------------------------------------------------
(* What a decision settles.                                                  *)

LEMMA SequenceFront ==
    ASSUME NEW T, NEW k \in Nat, NEW o \in Seq(T), Len(o) = k + 1
    PROVE  \E q \in Seq(T) : \E i \in T : Len(q) = k /\ o = Append(q, i)
<1> DEFINE q == [j \in 1..k |-> o[j]]
<1>1. k + 1 \in 1..(k + 1) /\ \A j \in 1..k : j \in 1..(k + 1)
    OBVIOUS
<1>2. \A j \in 1..(k + 1) : o[j] \in T
    OBVIOUS
<1>3. q \in Seq(T) /\ Len(q) = k
    BY <1>1, <1>2
<1>4. o = Append(q, o[k + 1])
    BY <1>1, <1>3
<1> QED BY <1>1, <1>2, <1>3, <1>4

\* After an operation threw nothing is done.
LEMMA FailureStays ==
    ASSUME NEW h \in Households, NEW s \in SoundStates(h), s.failed, NEW o \in Seq(DOMAIN h.plan)
    PROVE  Execute(h, s, o) = s
<1> DEFINE n == Len(o)
           K == {k \in 0..n : \A q \in Seq(DOMAIN h.plan) : Len(q) = k => Execute(h, s, q) = s}
<1>1. n \in Nat
    OBVIOUS
<1> HIDE DEF n
<1>2. 0 \in K
  <2>1. \A q \in Seq(DOMAIN h.plan) : Len(q) = 0 => q = <<>>
    OBVIOUS
  <2> QED BY <1>1, <2>1, ExecuteFacts
<1>3. ASSUME NEW k \in 0..n, k < n, k \in K PROVE k + 1 \in K
  <2>1. ASSUME NEW q \in Seq(DOMAIN h.plan), Len(q) = k + 1 PROVE Execute(h, s, q) = s
    <3> DEFINE D == DOMAIN h.plan
    <3>0. k \in Nat /\ q \in Seq(D)
      BY <1>1
    <3>1. PICK p \in Seq(D) : \E i \in D : Len(p) = k /\ q = Append(p, i)
      <4> HIDE DEF D
      <4> QED BY <2>1, <3>0, SequenceFront
    <3>2. PICK i \in DOMAIN h.plan : Len(p) = k /\ q = Append(p, i)
      BY <3>1
    <3>3. Execute(h, s, p) = s
      BY <1>3, <3>2
    <3>4. Execute(h, s, q) = Step(h, s, i)
      BY <3>2, <3>3, ExecuteFacts
    <3> QED BY <3>4, FailedStays
  <2>2. k + 1 \in 0..n
    BY <1>1, <1>3
  <2> QED BY <2>1, <2>2
<1> HIDE DEF K
<1>4. \A k \in 0..n : k \in K
    BY <1>1, <1>2, <1>3, Induction
<1>5. n \in K
    BY <1>1, <1>4
<1> QED BY <1>5 DEF K, n

\* More dependencies allow fewer orders.
LEMMA FewerOrders ==
    ASSUME NEW S, NEW deps, NEW more, deps \subseteq more
    PROVE  Orders(S, more) \subseteq Orders(S, deps)
<1>1. \A done : Ready(S, more, done) \subseteq Ready(S, deps, done)
    BY DEF Ready
<1> QED BY <1>1 DEF Orders, Admitted

\* The comparison leaves what a state is worth.
LEMMA SignatureKeeps ==
    ASSUME NEW h, NEW tier, NEW s \in States(h)
    PROVE  /\ Signature(h, tier, s).failed = s.failed
           /\ Economics(Signature(h, tier, s)) = Economics(s)
<1> DEFINE t == Signature(h, tier, s)
<1>1. /\ t.failed = s.failed /\ t.cash = s.cash /\ t.principal = s.principal
      /\ t.owed = s.owed /\ t.unpaid = s.unpaid /\ t.lots = s.lots
    BY DEF Signature, States
<1> HIDE DEF t
<1>2. Economics(t) = Economics(s)
    BY <1>1 DEF Economics
<1> QED BY <1>1, <1>2 DEF t

LEMMA AdmittedLast ==
    ASSUME NEW S, IsFiniteSet(S), NEW deps, NEW o \in Admitted(S, deps), Len(o) # 0
    PROVE  \E q \in Admitted(S, deps) : \E i \in Ready(S, deps, Range(q)) :
              Len(q) = Len(o) - 1 /\ o = Append(q, i)
<1> DEFINE k == Len(o) - 1
<1>1. k \in Nat /\ Len(o) = k + 1
    BY AdmittedType
<1> HIDE DEF k
<1>2. \E q \in Admitted(S, deps) : \E i \in Ready(S, deps, Range(q)) :
          Len(q) = k /\ o = Append(q, i)
    BY <1>1, AdmittedFront
<1> QED BY <1>2 DEF k

\* The orders of two works.
LEMMA OrdersOfTwo ==
    ASSUME NEW h \in Households, NEW s \in SoundStates(h),
           NEW i \in DOMAIN h.plan, NEW j \in DOMAIN h.plan, i # j,
           NEW deps, NEW o \in Orders({i, j}, deps)
    PROVE  Execute(h, s, o) \in {Step(h, Step(h, s, i), j), Step(h, Step(h, s, j), i)}
<1> DEFINE S == {i, j}
<1>1. IsFiniteSet(S) /\ Cardinality(S) = 2
  <2>1. IsFiniteSet({i}) /\ Cardinality({i}) = 1
    BY FS_Singleton
  <2>2. S = {i} \cup {j} /\ j \notin {i}
    OBVIOUS
  <2> HIDE DEF S
  <2>3. IsFiniteSet(S) /\ Cardinality(S) = Cardinality({i}) + 1
    BY <2>1, <2>2, FS_AddElement
  <2> QED BY <2>1, <2>3
<1>2. o \in Admitted(S, deps) /\ Len(o) = 2
    BY <1>1 DEF Orders
<1> HIDE DEF S
<1>3. PICK q \in Admitted(S, deps) : \E b \in Ready(S, deps, Range(q)) :
          Len(q) = Len(o) - 1 /\ o = Append(q, b)
  <2>1. Len(o) # 0 /\ o \in Admitted(S, deps) /\ IsFiniteSet(S)
    BY <1>1, <1>2
  <2> QED BY <2>1, AdmittedLast
<1>4. PICK b \in Ready(S, deps, Range(q)) : Len(q) = 1 /\ o = Append(q, b)
    BY <1>2, <1>3
<1>5. PICK p \in Admitted(S, deps) : \E a \in Ready(S, deps, Range(p)) :
          Len(p) = Len(q) - 1 /\ q = Append(p, a)
  <2>1. Len(q) # 0
    BY <1>4
  <2> QED BY <1>1, <2>1, AdmittedLast
<1>6. PICK a \in Ready(S, deps, Range(p)) : Len(p) = 0 /\ q = Append(p, a)
    BY <1>4, <1>5
<1>7. p = <<>>
    BY <1>6, AdmittedType
<1>8. a \in S /\ b \in S /\ a # b
  <2>1. Range(Append(p, a)) = Range(p) \cup {a}
    BY <1>1, ReadyAppended
  <2> QED BY <1>4, <1>6, <2>1 DEF Ready
<1>9. Execute(h, s, o) = Step(h, Step(h, s, a), b)
  <2> DEFINE D == DOMAIN h.plan
  <2>1. a \in D /\ b \in D
    BY <1>8 DEF S
  <2>2. p \in Seq(D) /\ q \in Seq(D)
    <3>1. p \in Seq(D)
      BY <1>7
    <3> HIDE DEF D
    <3>2. Append(p, a) \in Seq(D)
      BY <2>1, <3>1
    <3> QED BY <1>6, <3>1, <3>2
  <2>3. Execute(h, s, p) = s
    BY <1>7, ExecuteFacts
  <2>4. Execute(h, s, Append(p, a)) = Step(h, Execute(h, s, p), a)
    BY <2>1, <2>2, ExecuteFacts
  <2>5. Execute(h, s, Append(q, b)) = Step(h, Execute(h, s, q), b)
    BY <2>1, <2>2, ExecuteFacts
  <2> QED BY <1>4, <1>6, <2>3, <2>4, <2>5
<1> QED BY <1>8, <1>9 DEF S

\* The orders of a finite set are finitely many.
LEMMA OrdersFinite ==
    ASSUME NEW S, IsFiniteSet(S), NEW deps
    PROVE  IsFiniteSet(Orders(S, deps))
<1> DEFINE n == Cardinality(S)
           Long(k) == {o \in Admitted(S, deps) : Len(o) = k}
           K == {k \in 0..n : IsFiniteSet(Long(k))}
<1>1. n \in Nat
    BY FS_CardinalityType
<1> HIDE DEF n
<1>2. 0 \in K
  <2>1. Long(0) \in SUBSET {<<>>}
    BY AdmittedType
  <2>2. IsFiniteSet({<<>>})
    BY FS_Singleton
  <2>3. IsFiniteSet(Long(0))
    BY <2>1, <2>2, FS_Subset
  <2> QED BY <1>1, <2>3
<1>3. ASSUME NEW k \in 0..n, k < n, k \in K PROVE k + 1 \in K
  <2> DEFINE P == Long(k) \X S
             f == [p \in P |-> Append(p[1], p[2])]
             T == {f[p] : p \in P}
  <2>1. IsFiniteSet(P)
    BY <1>3, FS_Product
  <2>2. IsFiniteSet(T)
    <3>1. f \in Surjection(P, T)
      BY DEF Surjection
    <3> HIDE DEF f, T, P
    <3> QED BY <2>1, <3>1, FS_Surjection
  <2>3. Long(k + 1) \in SUBSET T
    <3>1. ASSUME NEW o \in Admitted(S, deps), Len(o) = k + 1 PROVE o \in T
      <4>1. PICK q \in Admitted(S, deps) : \E i \in Ready(S, deps, Range(q)) :
                Len(q) = k /\ o = Append(q, i)
        <5>1. k \in Nat
          BY <1>1
        <5> QED BY <3>1, <5>1, AdmittedFront
      <4>2. PICK i \in Ready(S, deps, Range(q)) : Len(q) = k /\ o = Append(q, i)
        BY <4>1
      <4>3. <<q, i>> \in P
        BY <4>2 DEF Ready
      <4>4. f[<<q, i>>] = o
        BY <4>2, <4>3
      <4> HIDE DEF f, P
      <4> QED BY <4>3, <4>4
    <3> QED BY <3>1
  <2> HIDE DEF T
  <2>4. IsFiniteSet(Long(k + 1))
    BY <2>2, <2>3, FS_Subset
  <2>5. k + 1 \in 0..n
    BY <1>1, <1>3
  <2> QED BY <2>4, <2>5
<1> HIDE DEF K
<1>4. \A k \in 0..n : k \in K
    BY <1>1, <1>2, <1>3, Induction
<1>5. n \in K
    BY <1>1, <1>4
<1> QED BY <1>5 DEF K, Orders, n

\* Members of a set that has at most one.
LEMMA AtMostOne ==
    ASSUME NEW T, IsFiniteSet(T), ~(Cardinality(T) > 1), NEW x \in T, NEW y \in T
    PROVE  x = y
<1> SUFFICES ASSUME x # y PROVE FALSE
    OBVIOUS
<1>1. IsFiniteSet({x}) /\ Cardinality({x}) = 1
    BY FS_Singleton
<1>2. {x, y} = {x} \cup {y} /\ y \notin {x}
    OBVIOUS
<1>3. IsFiniteSet({x} \cup {y}) /\ Cardinality({x} \cup {y}) = Cardinality({x}) + 1
    BY <1>1, <1>2, FS_AddElement
<1>4. {x, y} \in SUBSET T
    OBVIOUS
<1>5. Cardinality({x, y}) <= Cardinality(T)
    BY <1>4, FS_Subset
<1>6. Cardinality(T) \in Nat
    BY FS_CardinalityType
<1> QED BY <1>1, <1>2, <1>3, <1>5, <1>6

\* What the comparison sees of the orders of a group.
LEMMA ComparedIsExact ==
    ASSUME NEW h \in Households, NEW s \in SoundStates(h),
           NEW S \in SUBSET DOMAIN h.plan, NEW group \in SUBSET S, NEW deps, NEW tier
    PROVE  LET Ending(o) == Execute(h, Execute(h, s, o), FirstOrder(S \ group, {}))
           IN  /\ Compared(h, s, S, group, deps, tier)
                     = {Signature(h, tier, Ending(o)) : o \in Orders(group, deps)}
               /\ IsFiniteSet(Compared(h, s, S, group, deps, tier))
<1> DEFINE rest == FirstOrder(S \ group, {})
           O == Orders(group, deps)
           End(o) == Signature(h, tier, Execute(h, Execute(h, s, o), rest))
           f == [o \in O |-> End(o)]
           C == {f[o] : o \in O}
<1>1. group \in SUBSET DOMAIN h.plan /\ IsFiniteSet(group)
  <2>1. group \in SUBSET DOMAIN h.plan
    OBVIOUS
  <2> QED BY <2>1, PlanIsFinite, FS_Subset
<1>2. Outcomes(h, group, deps, s) = {Execute(h, s, o) : o \in O}
    BY <1>1, OutcomesAreExact
<1>3. Compared(h, s, S, group, deps, tier) = {End(o) : o \in O}
    BY <1>2 DEF Compared
<1>4. C = {End(o) : o \in O}
    OBVIOUS
<1>5. IsFiniteSet(C)
  <2>1. IsFiniteSet(O)
    BY <1>1, OrdersFinite
  <2>2. f \in Surjection(O, C)
    BY DEF Surjection
  <2> HIDE DEF f, C, O
  <2> QED BY <2>1, <2>2, FS_Surjection
<1> HIDE DEF C
<1> QED BY <1>3, <1>4, <1>5

\* An order of a group, and the rest of the instant after it, is work of the plan.
LEMMA OrdersExecute ==
    ASSUME NEW h \in Households, NEW s \in SoundStates(h),
           NEW S \in SUBSET DOMAIN h.plan, NEW group \in SUBSET S, NEW deps,
           NEW o \in Orders(group, deps)
    PROVE  /\ o \in Seq(DOMAIN h.plan) /\ FirstOrder(S \ group, {}) \in Seq(DOMAIN h.plan)
           /\ Execute(h, s, o) \in SoundStates(h)
           /\ Execute(h, Execute(h, s, o), FirstOrder(S \ group, {})) \in SoundStates(h)
<1> DEFINE D == DOMAIN h.plan
           R == S \ group
<1>1. R \in SUBSET D /\ group \in SUBSET D
    OBVIOUS
<1>2. IsFiniteSet(D) /\ D \subseteq Nat
    BY PlanIsFinite
<1>3. o \in Seq(D)
  <2>1. o \in Seq(group)
    BY AdmittedType DEF Orders
  <2> HIDE DEF D
  <2> QED BY <1>1, <2>1
<1>4. FirstOrder(R, {}) \in Seq(D)
  <2> HIDE DEF D, R
  <2>1. IsFiniteSet(R) /\ R \in SUBSET Nat
    BY <1>1, <1>2, FS_Subset
  <2>2. FirstOrder(R, {}) \in Seq(R)
    BY <2>1, FirstOrderType
  <2> QED BY <1>1, <2>2
<1>5. Execute(h, s, o) \in SoundStates(h)
    BY <1>3, ExecuteFacts
<1>6. Execute(h, Execute(h, s, o), FirstOrder(R, {})) \in SoundStates(h)
    BY <1>4, <1>5, ExecuteFacts
<1> QED BY <1>3, <1>4, <1>5, <1>6

\* Two works that commute come to one state in both orders, or throw in both.
LEMMA CommutingOrders ==
    ASSUME NEW h \in Households, NEW s \in SoundStates(h),
           NEW group \in SUBSET DOMAIN h.plan, NEW deps,
           NEW o \in Orders(group, deps), NEW p \in Orders(group, deps),
           ~s.failed, Commute(h, s, group)
    PROVE  \/ Execute(h, s, o) = Execute(h, s, p)
           \/ Execute(h, s, o).failed /\ Execute(h, s, p).failed
<1>1. PICK i \in group : \E j \in group :
          /\ group = {i, j} /\ i # j /\ h.plan[j].kind = "required"
          /\ \/ /\ h.plan[i].kind = "income"
                /\ s.cash[h.plan[j].from[1]] >= Due(s, h.plan[j])
             \/ /\ h.plan[i].kind = "transfer"
                /\ Pool(s, h.plan[j].from) < Due(s, h.plan[j])
                /\ {h.plan[i].from[1], h.plan[i].to} \subseteq Range(h.plan[j].from)
    BY DEF Commute
<1>2. PICK j \in group :
          /\ group = {i, j} /\ i # j /\ h.plan[j].kind = "required"
          /\ \/ /\ h.plan[i].kind = "income"
                /\ s.cash[h.plan[j].from[1]] >= Due(s, h.plan[j])
             \/ /\ h.plan[i].kind = "transfer"
                /\ Pool(s, h.plan[j].from) < Due(s, h.plan[j])
                /\ {h.plan[i].from[1], h.plan[i].to} \subseteq Range(h.plan[j].from)
    BY <1>1
<1>3. i \in DOMAIN h.plan /\ j \in DOMAIN h.plan /\ Sound(h, s)
    BY DEF SoundStates
<1>4. EndAlike(h, s, i, j)
    BY <1>2, <1>3, IncomeCommutes, TransferCommutes
<1>5. /\ Execute(h, s, o) \in {Step(h, Step(h, s, i), j), Step(h, Step(h, s, j), i)}
      /\ Execute(h, s, p) \in {Step(h, Step(h, s, i), j), Step(h, Step(h, s, j), i)}
    BY <1>2, <1>3, OrdersOfTwo
<1> QED BY <1>4, <1>5 DEF EndAlike

\* Once a decision about a group is made, the order no longer matters: whichever order
\* its edges allow executes, and the rest of the instant after it, the household ends
\* with the same balances, claims and lots.  It holds of the pairs the code declares
\* commuting and does not compare (r3/commutativity.ts), and of the outcomes it compares
\* (simulation/householdExecution.ts), whose postings differ where the economics may not.
THEOREM SettledOrdersAgree ==
    ASSUME NEW h \in Households, NEW s \in SoundStates(h),
           NEW S \in SUBSET DOMAIN h.plan, NEW group \in SUBSET S, NEW deps, NEW tier,
           Decide(h, s, S, group, deps, tier).refusal = "none",
           NEW o \in Orders(group, deps \cup Decide(h, s, S, group, deps, tier).edges),
           NEW p \in Orders(group, deps \cup Decide(h, s, S, group, deps, tier).edges)
    PROVE  Economics(Execute(h, Execute(h, s, o), FirstOrder(S \ group, {})))
             = Economics(Execute(h, Execute(h, s, p), FirstOrder(S \ group, {})))
<1> DEFINE decision == Decide(h, s, S, group, deps, tier)
           rest == FirstOrder(S \ group, {})
           policy == {e \in group \X group : e[1] # e[2] /\ PolicyPrecedes(h, e[1], e[2])}
           constrained == deps \cup policy
           more == deps \cup decision.edges
           Ending(x) == Execute(h, Execute(h, s, x), rest)
           Seen(fewer) == Compared(h, s, S, group, fewer, tier)
<1>1. /\ Execute(h, s, o) \in SoundStates(h) /\ Execute(h, s, p) \in SoundStates(h)
      /\ Ending(o) \in SoundStates(h) /\ Ending(p) \in SoundStates(h)
      /\ o \in Seq(DOMAIN h.plan) /\ p \in Seq(DOMAIN h.plan) /\ rest \in Seq(DOMAIN h.plan)
    BY OrdersExecute
<1>2. CASE s.failed
  <2>1. Execute(h, s, o) = s /\ Execute(h, s, p) = s
    BY <1>1, <1>2, FailureStays
  <2> QED BY <2>1
<1>3. CASE ~s.failed /\ Commute(h, s, group)
  <2>1. group \in SUBSET DOMAIN h.plan
    OBVIOUS
  <2>2. \/ Execute(h, s, o) = Execute(h, s, p)
        \/ Execute(h, s, o).failed /\ Execute(h, s, p).failed
    BY <1>3, <2>1, CommutingOrders
  <2>3. CASE Execute(h, s, o) = Execute(h, s, p)
    BY <2>3
  <2>4. CASE Execute(h, s, o).failed /\ Execute(h, s, p).failed
    <3>1. Ending(o) = Execute(h, s, o) /\ Ending(p) = Execute(h, s, p)
      BY <1>1, <2>4, FailureStays
    <3> QED BY <2>4, <3>1 DEF Economics
  <2> QED BY <2>2, <2>3, <2>4
<1>4. CASE ~Commute(h, s, group)
  <2>1. \/ Cardinality(Seen(deps)) = 1
        \/ ~(Cardinality(Seen(constrained)) > 1) /\ policy \subseteq decision.edges
    BY <1>4 DEF Decide, Settled, Refused
  <2>2. PICK fewer : fewer \subseteq more /\ ~(Cardinality(Seen(fewer)) > 1)
    BY <2>1
  <2>3. o \in Orders(group, fewer) /\ p \in Orders(group, fewer)
    BY <2>2, FewerOrders
  <2>4. /\ IsFiniteSet(Seen(fewer))
        /\ Signature(h, tier, Ending(o)) \in Seen(fewer)
        /\ Signature(h, tier, Ending(p)) \in Seen(fewer)
    BY <2>3, ComparedIsExact
  <2>5. Signature(h, tier, Ending(o)) = Signature(h, tier, Ending(p))
    BY <2>2, <2>4, AtMostOne
  <2>6. Ending(o) \in States(h) /\ Ending(p) \in States(h)
    BY <1>1 DEF SoundStates
  <2>7. /\ Economics(Signature(h, tier, Ending(o))) = Economics(Ending(o))
        /\ Economics(Signature(h, tier, Ending(p))) = Economics(Ending(p))
    BY <2>6, SignatureKeeps
  <2> QED BY <2>5, <2>7
<1> QED BY <1>2, <1>3, <1>4

-----------------------------------------------------------------------------
(* The invariant.                                                            *)

\* A state in which nothing of the month is posted yet.
Clean(s) == s.satisfied = {} /\ \A b \in Books : s.books[b] = <<>>

Summaries(h) ==
    [month : 1..Months, end : {Economics(s) : s \in States(h)}, books : [Books -> Seq(Entries(h))]]
Roots(h) ==
    {c \in [month : 1..(Months - 1), state : States(h)] : Sound(h, c.state) /\ Clean(c.state)}

Stored ==
    /\ Sound(household, cand) /\ Sound(household, state) /\ Clean(state)
    /\ periods \in Seq(Summaries(household)) /\ forecast \in Seq(Summaries(household))
    /\ checkpoints \in Seq(Roots(household))

\* What is still to be decided and executed belongs to the instant under way.
Pending ==
    /\ phase \notin {"decide", "execute"} => queue = <<>> /\ groups = {} /\ edges = {}
    /\ phase = "decide" => queue = <<>>
    /\ phase = "execute" => groups = {} /\ edges = {} /\ queue \in Seq(InstantWork)

\* The months retained are the ones before the month under way.
Calendar ==
    /\ month <= LastMonth
    /\ mode # "replay" =>
          /\ Len(periods) = IF phase = "completed" THEN month ELSE month - 1
          /\ \A k \in DOMAIN checkpoints : checkpoints[k].month \in DOMAIN periods

\* The book of the loans shows a payment for the service of loan l at instant t.
Service(h, s, l, t) ==
    \E j \in DOMAIN s.books["liabilities"] :
        LET entry == s.books["liabilities"][j]
        IN  /\ entry.moved # Nothing
            /\ h.plan[entry.item].loan = l
            /\ h.plan[entry.item].at = t

Supported(h, s) ==
    \A k \in DOMAIN s.books["additional"] :
        LET x == h.plan[s.books["additional"][k].item]
        IN  x.kind = "extra" => Service(h, s, x.loan, x.at)

Served(h, s, t) == \A l \in s.satisfied : Service(h, s, l, t)

Debts ==
    /\ Supported(household, cand)
    /\ phase \in {"decide", "execute"} => Served(household, cand, instant)

IInv == TypeOK /\ Stored /\ Pending /\ Calendar /\ CommittedHistory /\ Debts

-----------------------------------------------------------------------------
LEMMA OpeningFacts ==
    ASSUME NEW h \in Households
    PROVE  Sound(h, OpeningState(h)) /\ Clean(OpeningState(h))
<1>1. h.cash \in [Accounts -> Nat] /\ h.principal \in [Loans -> Nat]
    BY HouseholdsAssumption DEF IsHousehold
<1>2. \A b \in Books : OpeningState(h).books[b] = <<>>
    BY DEF OpeningState
<1>3. OpeningState(h) \in States(h)
    BY <1>1 DEF OpeningState, States
<1>4. \A l \in Loans : OpeningState(h).owed[l] <= OpeningState(h).principal[l]
    BY <1>1 DEF OpeningState
<1> QED BY <1>2, <1>3, <1>4 DEF Sound, Clean, OpeningState

\* A month that ends leaves the household what it ended with.
LEMMA CarriedFacts ==
    ASSUME NEW h \in Households, NEW s, Sound(h, s)
    PROVE  Sound(h, Carried(s)) /\ Clean(Carried(s)) /\ Economics(Carried(s)) = Economics(s)
<1> DEFINE t == Carried(s)
<1>1. /\ t.satisfied = {} /\ t.books = [b \in Books |-> <<>>] /\ t.outcomes = <<>>
      /\ t.cash = s.cash /\ t.principal = s.principal /\ t.owed = s.owed /\ t.unpaid = s.unpaid
      /\ t.lots = s.lots /\ t.failed = s.failed
      /\ t = [s EXCEPT !.satisfied = t.satisfied, !.books = t.books, !.outcomes = t.outcomes]
    BY DEF Carried, Sound, States
<1> HIDE DEF t
<1>2. t.books \in [Books -> Seq(Entries(h))] /\ t.outcomes \in Seq(FundingOutcomes(h))
    BY <1>1
<1>3. t \in States(h)
    BY <1>1, <1>2 DEF Sound, States
<1>4. Sound(h, t) /\ Clean(t) /\ Economics(t) = Economics(s)
    BY <1>1, <1>3 DEF Sound, Clean, Economics
<1> QED BY <1>4 DEF t

LEMMA OpenedFacts ==
    ASSUME NEW h \in Households, NEW s, Sound(h, s)
    PROVE  Sound(h, Opened(s)) /\ Opened(s).books = s.books /\ Opened(s).satisfied = {}
    BY DEF Opened, Sound, States

\* Services paid and the extra principal they allow are never undone by a posting.
LEMMA DebtsAfter ==
    ASSUME NEW h \in Households, NEW s, Sound(h, s), NEW i \in DOMAIN h.plan, NEW t, After(h, s, i, t),
           Supported(h, s), Served(h, s, h.plan[i].at)
    PROVE  Supported(h, t) /\ Served(h, t, h.plan[i].at)
<1>1. "liabilities" \in Books /\ "additional" \in Books
    BY DEF Books
<1>2. ASSUME NEW l, NEW at, Service(h, s, l, at) PROVE Service(h, t, l, at)
    BY <1>1, <1>2 DEF Service, After, Keeps
<1>3. Served(h, t, h.plan[i].at)
  <2> SUFFICES ASSUME NEW l \in t.satisfied PROVE Service(h, t, l, h.plan[i].at)
    BY DEF Served
  <2>1. CASE l \in s.satisfied
    BY <1>2, <2>1 DEF Served
  <2>2. CASE l \notin s.satisfied
    BY <2>2 DEF After, Service
  <2> QED BY <2>1, <2>2
<1>4. Supported(h, t)
  <2> SUFFICES ASSUME NEW k \in DOMAIN t.books["additional"],
                      h.plan[t.books["additional"][k].item].kind = "extra"
               PROVE  Service(h, t, h.plan[t.books["additional"][k].item].loan,
                              h.plan[t.books["additional"][k].item].at)
    BY DEF Supported
  <2>1. CASE k \in DOMAIN s.books["additional"]
    <3>1. t.books["additional"][k] = s.books["additional"][k]
      BY <1>1, <2>1 DEF After, Keeps
    <3> QED BY <1>2, <2>1, <3>1 DEF Supported
  <2>2. CASE k \notin DOMAIN s.books["additional"]
    <3>1. t.books["additional"][k].item = i /\ h.plan[i].loan \in s.satisfied
      BY <2>2 DEF After
    <3> QED BY <1>2, <3>1 DEF Served
  <2> QED BY <2>1, <2>2, SMTT(60)
<1> QED BY <1>3, <1>4

-----------------------------------------------------------------------------
LEMMA Initially == Init => IInv
<1> SUFFICES ASSUME Init PROVE IInv
    OBVIOUS
<1>1. household \in Households /\ Sound(household, state) /\ Clean(state) /\ cand = state
    BY OpeningFacts DEF Init
<1>2. Months \in Nat /\ Months >= 1 /\ Instants \in Nat /\ Instants >= 1
    BY MonthsAssumption, InstantsAssumption
<1>3. TypeOK
    BY <1>1, <1>2 DEF Init, TypeOK
<1>4. Stored
    BY <1>1 DEF Init, Stored
<1>5. Pending
    BY DEF Init, Pending
<1>6. Calendar
    BY <1>2 DEF Init, Calendar, LastMonth
<1>7. CommittedHistory
    BY DEF Init, CommittedHistory
<1>8. Debts
    BY <1>1 DEF Init, Debts, Supported, Clean, Books
<1> QED BY <1>3, <1>4, <1>5, <1>6, <1>7, <1>8 DEF IInv

\* Steps that leave the months alone keep what is said of them.
LEMMA MonthsKept ==
    ASSUME IInv, UNCHANGED <<household, mode, month, state, periods, forecast, checkpoints, window>>,
           phase' = "completed" <=> phase = "completed"
    PROVE  Calendar' /\ CommittedHistory'
<1>1. Calendar'
    BY DEF IInv, Calendar, LastMonth
<1>2. CommittedHistory'
    BY DEF IInv, CommittedHistory
<1> QED BY <1>1, <1>2

LEMMA PrepareKeeps == ASSUME IInv, Prepare PROVE IInv'
<1>1. household' = household /\ cand' = state /\ work' \subseteq DOMAIN household.plan
      /\ phase' \in {"sequence", "refused"} /\ phase = "prepare"
    BY DEF Prepare, Prepared
<1>2. queue' = <<>> /\ groups' = {} /\ edges' = {}
    BY DEF Prepare, ordering, IInv, Pending
<1>3. TypeOK'
    BY <1>1, <1>2, InstantsAssumption DEF Prepare, IInv, TypeOK
<1>4. Stored'
    BY <1>1 DEF Prepare, IInv, Stored
<1>5. Pending'
    BY <1>1, <1>2 DEF Pending
<1>6. Calendar' /\ CommittedHistory'
    BY <1>1, MonthsKept DEF Prepare
<1>7. Debts'
  <2>1. "additional" \in Books
    BY DEF Books
  <2>2. Supported(household, state)
    BY <2>1 DEF IInv, Stored, Clean, Supported
  <2> QED BY <1>1, <2>2 DEF Debts
<1> QED BY <1>3, <1>4, <1>5, <1>6, <1>7 DEF IInv

LEMMA SeqWithin ==
    ASSUME NEW T, NEW S, S \subseteq T, NEW s \in Seq(S)
    PROVE  s \in Seq(T)
<1>1. \A k \in 1..Len(s) : s[k] \in T
    BY ElementOfSeq
<1>2. s = [k \in 1..Len(s) |-> s[k]] /\ Len(s) \in Nat
    OBVIOUS
<1> QED BY <1>1, <1>2, IsASeq

\* The works of an instant are finitely many.
LEMMA InstantWorkFinite ==
    ASSUME TypeOK PROVE InstantWork \subseteq work /\ InstantWork \in SUBSET Nat /\ IsFiniteSet(InstantWork)
<1>1. household \in Households /\ work \subseteq DOMAIN household.plan
    BY DEF TypeOK
<1>2. IsFiniteSet(DOMAIN household.plan) /\ DOMAIN household.plan \subseteq Nat
    BY <1>1, PlanIsFinite
<1>3. InstantWork \subseteq work
    BY DEF InstantWork, At
<1>4. InstantWork \in SUBSET DOMAIN household.plan
    BY <1>1, <1>3
<1> QED BY <1>2, <1>3, <1>4, FS_Subset

LEMMA SequenceKeeps == ASSUME IInv, Sequence PROVE IInv'
<1> DEFINE contenders == Contenders(household, InstantWork, edges')
<1>1. household \in Households /\ Sound(household, cand)
    BY DEF IInv, TypeOK, Stored
<1>2. /\ Sound(household, Opened(cand)) /\ Opened(cand).books = cand.books
      /\ Opened(cand).satisfied = {}
    BY <1>1, OpenedFacts
<1>3. /\ UNCHANGED <<household, mode, month, instant, work, queue, state, periods, forecast,
                      checkpoints, window, refusal>>
      /\ cand' = Opened(cand) /\ phase = "sequence" /\ phase' = "decide"
      /\ edges' = ExplicitEdges(household, InstantWork)
      /\ groups' = Groups(household, contenders)
    BY DEF Sequence
<1>4. InstantWork \subseteq work /\ contenders \subseteq InstantWork
    BY InstantWorkFinite DEF IInv, Contenders
<1>5. UNION groups' \subseteq work
  <2> HIDE DEF contenders
  <2> QED BY <1>3, <1>4 DEF Groups
<1>6. edges' \subseteq work \X work
    BY <1>3, <1>4, EdgesWithin
<1>7. TypeOK'
    BY <1>3, <1>5, <1>6 DEF IInv, TypeOK
<1>8. Stored'
    BY <1>2, <1>3 DEF IInv, Stored
<1>9. Pending'
    BY <1>3 DEF IInv, Pending
<1>10. Calendar' /\ CommittedHistory'
    BY <1>3, MonthsKept
<1>11. Debts'
  <2>1. Supported(household, cand)
    BY DEF IInv, Debts
  <2>2. cand'.books = cand.books /\ cand'.satisfied = {}
    BY <1>2, <1>3, SMTT(60)
  <2>3. Supported(household, cand') /\ Served(household, cand', instant)
    BY <2>1, <2>2 DEF Supported, Served, Service
  <2> QED BY <1>3, <2>3 DEF Debts
<1> QED BY <1>7, <1>8, <1>9, <1>10, <1>11 DEF IInv

LEMMA DecideKeeps == ASSUME IInv, DecideGroup PROVE IInv'
<1>1. PICK group \in groups :
        LET decision == Decide(household, cand, InstantWork, group, Inside(edges, group), Tier)
        IN  IF decision.refusal = "none"
            THEN /\ groups' = groups \ {group} /\ edges' = edges \cup decision.edges
                 /\ UNCHANGED <<phase, refusal, queue>>
            ELSE Refuse(decision.refusal)
    BY DEF DecideGroup
<1> DEFINE decision == Decide(household, cand, InstantWork, group, Inside(edges, group), Tier)
<1>2. /\ UNCHANGED <<household, mode, month, instant, work, state, cand, periods, forecast,
                      checkpoints, window>>
      /\ phase = "decide"
    BY DEF DecideGroup
<1>3. decision.refusal \in {"none", "failed", "policy_cycle", "unresolved"}
    BY DEF Decide, Settled, Refused
<1>4. decision.edges \subseteq group \X group /\ group \subseteq work
  <2>1. household \in Households /\ work \subseteq DOMAIN household.plan /\ group \subseteq work
    BY DEF IInv, TypeOK
  <2>2. group \in SUBSET DOMAIN household.plan
    BY <2>1
  <2>3. group \in SUBSET Nat /\ IsFiniteSet(group)
    BY <2>1, <2>2, PlanIsFinite, FS_Subset
  <2> QED BY <2>1, <2>3, DecisionWithin
<1> HIDE DEF decision
<1>5. \/ /\ groups' = groups \ {group} /\ edges' = edges \cup decision.edges
         /\ UNCHANGED <<phase, refusal, queue>>
      \/ /\ phase' = "refused" /\ refusal' = decision.refusal /\ groups' = {} /\ edges' = {}
         /\ UNCHANGED queue /\ decision.refusal # "none"
    BY <1>1 DEF decision, Refuse
<1>6. queue = <<>>
    BY <1>2 DEF IInv, Pending
<1>7. edges' \subseteq work \X work /\ UNION groups' \subseteq work
    BY <1>4, <1>5 DEF IInv, TypeOK
<1>8. TypeOK'
    BY <1>2, <1>3, <1>5, <1>6, <1>7 DEF IInv, TypeOK
<1>9. Stored'
    BY <1>2 DEF IInv, Stored
<1>10. Pending'
    BY <1>2, <1>5, <1>6 DEF Pending
<1>11. Calendar' /\ CommittedHistory'
    BY <1>2, <1>5, MonthsKept
<1>12. Debts'
    BY <1>2, <1>5 DEF IInv, Debts
<1> QED BY <1>8, <1>9, <1>10, <1>11, <1>12 DEF IInv

LEMMA OrderKeeps == ASSUME IInv, OrderInstant PROVE IInv'
<1>1. /\ UNCHANGED <<household, mode, month, instant, work, state, cand, periods, forecast,
                      checkpoints, window>>
      /\ phase = "decide" /\ groups = {} /\ queue = <<>>
    BY DEF OrderInstant, IInv, Pending
<1>2. \/ /\ phase' = "execute" /\ queue' = FirstOrder(InstantWork, edges) /\ edges' = {}
         /\ UNCHANGED <<refusal, groups>>
      \/ /\ phase' = "refused" /\ refusal' = "work_cycle" /\ groups' = {} /\ edges' = {}
         /\ UNCHANGED queue
    BY DEF OrderInstant, Refuse
<1>3. InstantWork \subseteq work /\ FirstOrder(InstantWork, edges) \in Seq(InstantWork)
    BY InstantWorkFinite, FirstOrderType DEF IInv
<1>4. InstantWork' = InstantWork
    BY <1>1 DEF InstantWork
<1>5. queue' \in Seq(work)
  <2>1. <<>> \in Seq(InstantWork)
    OBVIOUS
  <2>2. queue' \in Seq(InstantWork)
    BY <1>1, <1>2, <1>3, <2>1
  <2> QED BY <1>3, <2>2, SeqWithin
<1>6. TypeOK'
    BY <1>1, <1>2, <1>5 DEF IInv, TypeOK
<1>7. Stored'
    BY <1>1 DEF IInv, Stored
<1>8. Pending'
    BY <1>1, <1>2, <1>3, <1>4 DEF Pending
<1>9. Calendar' /\ CommittedHistory'
    BY <1>1, <1>2, MonthsKept
<1>10. Debts'
    BY <1>1, <1>2 DEF IInv, Debts
<1> QED BY <1>6, <1>7, <1>8, <1>9, <1>10 DEF IInv

LEMMA ExecuteKeeps == ASSUME IInv, ExecuteOperation PROVE IInv'
<1> DEFINE i == Head(queue)
<1>1. /\ UNCHANGED <<household, mode, month, instant, work, groups, edges, state, periods,
                      forecast, checkpoints, window>>
      /\ phase = "execute" /\ queue # <<>> /\ cand' = Step(household, cand, i)
      /\ groups = {} /\ edges = {} /\ queue \in Seq(InstantWork)
    BY DEF ExecuteOperation, IInv, Pending
<1>2. \/ phase' = "refused" /\ refusal' = "failed" /\ queue' = <<>>
      \/ queue' = Tail(queue) /\ UNCHANGED <<phase, refusal>>
    BY DEF ExecuteOperation
<1>3. i \in InstantWork /\ Tail(queue) \in Seq(InstantWork) /\ InstantWork \subseteq work
    BY <1>1, InstantWorkFinite DEF IInv
<1>4. i \in DOMAIN household.plan /\ household \in Households /\ household.plan[i].at = instant
    BY <1>3 DEF IInv, TypeOK, InstantWork, At
<1>5. After(household, cand, i, cand')
    BY <1>1, <1>4, StepIsAfter DEF IInv, Stored
<1>6. InstantWork' = InstantWork
    BY <1>1 DEF InstantWork
<1> HIDE DEF i
<1>7. queue' \in Seq(work)
  <2>1. <<>> \in Seq(InstantWork)
    OBVIOUS
  <2>2. queue' \in Seq(InstantWork)
    BY <1>2, <1>3, <2>1
  <2> QED BY <1>3, <2>2, SeqWithin
<1>8. TypeOK'
    BY <1>1, <1>2, <1>7 DEF IInv, TypeOK
<1>9. Stored'
    BY <1>1, <1>5 DEF IInv, Stored, After
<1>10. Pending'
    BY <1>1, <1>2, <1>3, <1>6 DEF Pending
<1>11. Calendar' /\ CommittedHistory'
    BY <1>1, <1>2, MonthsKept
<1>12. Debts'
  <2>1. Supported(household, cand) /\ Served(household, cand, instant)
    BY <1>1 DEF IInv, Debts
  <2>2. Supported(household, cand') /\ Served(household, cand', instant)
    BY <1>4, <1>5, <2>1, DebtsAfter DEF IInv, Stored
  <2> QED BY <1>1, <2>2 DEF Debts
<1> QED BY <1>8, <1>9, <1>10, <1>11, <1>12 DEF IInv

LEMMA NextInstantKeeps == ASSUME IInv, NextInstant PROVE IInv'
<1>1. /\ UNCHANGED <<household, mode, refusal, month, work, queue, groups, edges, state, cand,
                      periods, forecast, checkpoints, window>>
      /\ phase = "execute" /\ phase' = "sequence" /\ queue = <<>> /\ groups = {} /\ edges = {}
    BY DEF NextInstant, ordering, IInv, Pending
<1>2. instant' \in 1..Instants
    BY InstantsAssumption DEF NextInstant, IInv, TypeOK
<1>3. TypeOK'
    BY <1>1, <1>2 DEF IInv, TypeOK
<1>4. Stored'
    BY <1>1 DEF IInv, Stored
<1>5. Pending'
    BY <1>1 DEF Pending
<1>6. Calendar' /\ CommittedHistory'
    BY <1>1, MonthsKept
<1>7. Debts'
    BY <1>1 DEF IInv, Debts
<1> QED BY <1>3, <1>4, <1>5, <1>6, <1>7 DEF IInv

LEMMA CommitKeeps == ASSUME IInv, Commit PROVE IInv'
<1> DEFINE summary == Summary(cand)
           root == Checkpoint(state')
           n == Len(periods)
<1>1. /\ UNCHANGED <<household, mode, refusal, instant, work, queue, groups, edges, cand,
                      forecast, window>>
      /\ phase = "execute" /\ queue = <<>> /\ groups = {} /\ edges = {}
      /\ state' = Carried(cand)
      /\ \/ mode = "replay" /\ periods' = periods
         \/ periods' = Append(periods, summary)
      /\ mode # "replay" => periods' = Append(periods, summary)
      /\ \/ checkpoints' = checkpoints
         \/ month < Months /\ checkpoints' = Append(checkpoints, root)
      /\ \/ month = LastMonth /\ phase' = "completed" /\ month' = month
         \/ month # LastMonth /\ phase' = "prepare" /\ month' = month + 1
    BY DEF Commit, ordering, IInv, Pending
<1>2. /\ household \in Households /\ mode \in {"forecast", "detail", "replay"}
      /\ month \in 1..Months /\ Months \in Nat
      /\ LastMonth \in 1..Months /\ month <= LastMonth /\ LastMonth' = LastMonth
  <2>1. LastMonth \in 1..Months
    BY MonthsAssumption DEF IInv, TypeOK, LastMonth
  <2>2. LastMonth' = LastMonth
    BY <1>1 DEF LastMonth
  <2> QED BY <2>1, <2>2, MonthsAssumption DEF IInv, TypeOK, Calendar
<1>3. month' \in 1..Months /\ month' <= LastMonth
    BY <1>1, <1>2
<1>4. /\ Sound(household, state') /\ Clean(state') /\ Economics(state') = Economics(cand)
    BY <1>1, <1>2, CarriedFacts DEF IInv, Stored
<1>5. /\ summary \in Summaries(household) /\ summary.month = month /\ summary.end = Economics(cand)
    BY <1>2 DEF IInv, Stored, Sound, States, Summaries, Summary
<1>6. month < Months => root \in Roots(household) /\ root.month = month /\ root.state = state'
    BY <1>2, <1>4 DEF Roots, Checkpoint, Sound
<1> HIDE DEF summary, root
<1>7. periods \in Seq(Summaries(household)) /\ checkpoints \in Seq(Roots(household))
    BY DEF IInv, Stored
<1>8. periods' \in Seq(Summaries(household)) /\ checkpoints' \in Seq(Roots(household))
  <2>1. Append(periods, summary) \in Seq(Summaries(household))
    BY <1>5, <1>7
  <2>2. month < Months => Append(checkpoints, root) \in Seq(Roots(household))
    BY <1>6, <1>7
  <2>3. periods' \in Seq(Summaries(household))
    BY <1>1, <1>7, <2>1
  <2>4. checkpoints' \in Seq(Roots(household))
    BY <1>1, <1>7, <2>2
  <2> QED BY <2>3, <2>4
<1>9. Stored'
    BY <1>1, <1>4, <1>8 DEF IInv, Stored
<1>10. /\ \A k \in DOMAIN periods' : periods'[k] \in Summaries(household)
       /\ \A k \in DOMAIN checkpoints' : checkpoints'[k] \in Roots(household)
    BY <1>8
<1>11. TypeOK'
  <2>1. TypeOK
    BY DEF IInv
  <2>2. /\ \A k \in DOMAIN periods' : periods'[k].month \in 1..Months
        /\ \A k \in DOMAIN checkpoints' : checkpoints'[k].month \in 1..(Months - 1)
    BY <1>10 DEF Summaries, Roots
  <2>3. phase' \in {"prepare", "sequence", "decide", "execute", "refused"} \cup Ended
    BY <1>1 DEF Ended
  <2>4. queue' \in Seq(work') /\ edges' \subseteq work' \X work' /\ UNION groups' \subseteq work'
    BY <1>1, <2>1 DEF TypeOK
  <2>5. /\ household' \in Households /\ mode' \in {"forecast", "detail", "replay"}
        /\ refusal' \in {"none", "invalid", "failed", "unresolved", "policy_cycle", "work_cycle"}
        /\ instant' \in 1..Instants /\ work' \subseteq DOMAIN household'.plan
        /\ window' \in (1..Months) \X (1..Months)
        /\ \A k \in DOMAIN forecast' : forecast'[k].month \in 1..Months
    BY <1>1, <2>1 DEF TypeOK
  <2> QED BY <1>3, <2>2, <2>3, <2>4, <2>5 DEF TypeOK
<1>12. Pending'
    BY <1>1 DEF Pending
<1>13. ASSUME mode # "replay"
       PROVE  /\ n = month - 1 /\ DOMAIN periods = 1..n /\ DOMAIN periods' = 1..month
              /\ periods' = Append(periods, summary) /\ Len(periods') = month
              /\ \A k \in 1..n : periods'[k] = periods[k]
              /\ periods'[month] = summary
  <2>1. n = month - 1 /\ periods' = Append(periods, summary)
    BY <1>1, <1>13 DEF IInv, Calendar
  <2> QED BY <1>2, <1>5, <1>7, <2>1
<1>14. ASSUME mode # "replay", NEW k \in DOMAIN checkpoints'
       PROVE  /\ checkpoints'[k].month \in DOMAIN periods'
              /\ Economics(checkpoints'[k].state) = periods'[checkpoints'[k].month].end
  <2>1. CASE k \in DOMAIN checkpoints
    <3>1. checkpoints'[k] = checkpoints[k]
      BY <1>1, <1>6, <1>7, <2>1
    <3>2. checkpoints[k].month \in DOMAIN periods
      BY <1>14, <2>1 DEF IInv, Calendar
    <3>3. Economics(checkpoints[k].state) = periods[checkpoints[k].month].end
      BY <1>14, <2>1 DEF IInv, CommittedHistory
    <3>4. checkpoints[k].month \in 1..n /\ n \in Nat
      BY <1>7, <3>2
    <3> QED BY <1>2, <1>13, <1>14, <3>1, <3>3, <3>4
  <2>2. CASE k \notin DOMAIN checkpoints
    <3>1. checkpoints'[k] = root /\ month < Months
      BY <1>1, <1>6, <1>7, <1>14, <2>2
    <3> QED BY <1>2, <1>4, <1>5, <1>6, <1>13, <1>14, <3>1
  <2> QED BY <2>1, <2>2
<1>15. Calendar'
  <2>1. mode # "replay" => Len(periods') = IF phase' = "completed" THEN month' ELSE month' - 1
    BY <1>1, <1>2, <1>13
  <2> QED BY <1>1, <1>2, <1>3, <1>14, <2>1 DEF Calendar
<1>16. CommittedHistory'
  <2> SUFFICES ASSUME mode # "replay" PROVE CommittedHistory'
    BY <1>1 DEF CommittedHistory
  <2>1. periods' # <<>> /\ Last(periods') = summary
    BY <1>2, <1>13 DEF Last
  <2>2. \A k \in DOMAIN periods' : periods'[k].month = k
    BY <1>2, <1>5, <1>13 DEF IInv, CommittedHistory
  <2> QED BY <1>4, <1>5, <1>14, <2>1, <2>2 DEF CommittedHistory
<1>17. Debts'
    BY <1>1 DEF IInv, Debts
<1> QED BY <1>9, <1>11, <1>12, <1>15, <1>16, <1>17 DEF IInv

LEMMA AbortKeeps == ASSUME IInv, Abort PROVE IInv'
<1>1. /\ UNCHANGED <<household, mode, refusal, month, instant, work, queue, groups, edges, state,
                      cand, periods, forecast, checkpoints, window>>
      /\ phase = "refused" /\ phase' = "incomplete"
    BY DEF Abort, ordering
<1>2. TypeOK'
    BY <1>1 DEF IInv, TypeOK, Ended
<1>3. Stored' /\ Pending' /\ Debts'
    BY <1>1 DEF IInv, Stored, Pending, Debts
<1>4. Calendar' /\ CommittedHistory'
    BY <1>1, MonthsKept
<1> QED BY <1>2, <1>3, <1>4 DEF IInv

LEMMA VerifyKeeps == ASSUME IInv, Verify PROVE IInv'
<1>1. /\ UNCHANGED <<household, mode, refusal, month, instant, work, queue, groups, edges, state,
                      cand, periods, forecast, checkpoints, window>>
      /\ mode = "replay" /\ phase \in {"completed", "incomplete"}
      /\ phase' \in {"verified", "mismatched"}
    BY DEF Verify, ordering
<1>2. TypeOK'
    BY <1>1 DEF IInv, TypeOK, Ended
<1>3. Stored' /\ Pending' /\ Debts'
    BY <1>1 DEF IInv, Stored, Pending, Debts
<1>4. Calendar' /\ CommittedHistory'
    BY <1>1 DEF IInv, Calendar, LastMonth, CommittedHistory
<1> QED BY <1>2, <1>3, <1>4 DEF IInv

\* A replay that begins anywhere before its window begins in a clean state.
LEMMA StartedWell ==
    ASSUME IInv, NEW first \in DOMAIN periods, NEW last \in DOMAIN periods, first <= last,
           UNCHANGED <<household, instant, work, queue, groups, edges, cand, checkpoints>>,
           phase \in {"completed", "incomplete"}, phase' = "prepare", mode' = "replay",
           refusal' = "none", forecast' = periods, periods' = <<>>, window' = <<first, last>>,
           DOMAIN periods \subseteq 1..Months, month' \in 1..first,
           Sound(household, state'), Clean(state')
    PROVE  IInv'
<1>1. first \in 1..Months /\ last \in 1..Months /\ Months \in Nat
    BY MonthsAssumption
<1>2. month' \in 1..Months /\ month' <= last
    BY <1>1
<1>3. queue = <<>> /\ groups = {} /\ edges = {}
    BY DEF IInv, Pending
<1>4. TypeOK'
  <2>1. TypeOK
    BY DEF IInv
  <2>2. phase' \in {"prepare", "sequence", "decide", "execute", "refused"} \cup Ended
    OBVIOUS
  <2>3. queue' \in Seq(work') /\ edges' \subseteq work' \X work' /\ UNION groups' \subseteq work'
    BY <1>3
  <2>4. /\ household' \in Households /\ mode' \in {"forecast", "detail", "replay"}
        /\ refusal' \in {"none", "invalid", "failed", "unresolved", "policy_cycle", "work_cycle"}
        /\ instant' \in 1..Instants /\ work' \subseteq DOMAIN household'.plan
        /\ \A k \in DOMAIN checkpoints' : checkpoints'[k].month \in 1..(Months - 1)
    BY <2>1 DEF TypeOK
  <2>5. window' \in (1..Months) \X (1..Months)
    BY <1>1
  <2>6. /\ \A k \in DOMAIN periods' : periods'[k].month \in 1..Months
        /\ \A k \in DOMAIN forecast' : forecast'[k].month \in 1..Months
    BY <2>1 DEF TypeOK
  <2> QED BY <1>2, <2>2, <2>3, <2>4, <2>5, <2>6 DEF TypeOK
<1>5. Stored'
    BY DEF IInv, Stored
<1>6. Pending'
    BY <1>3 DEF Pending
<1>7. Calendar'
  <2>1. LastMonth' = last
    BY DEF LastMonth
  <2> QED BY <1>2, <2>1 DEF Calendar
<1>8. CommittedHistory'
    BY DEF CommittedHistory
<1>9. Debts'
    BY DEF IInv, Debts
<1> QED BY <1>4, <1>5, <1>6, <1>7, <1>8, <1>9 DEF IInv

LEMMA MonthsRetained == ASSUME IInv, mode = "forecast" PROVE DOMAIN periods \subseteq 1..Months
<1>1. month \in 1..Months /\ Months \in Nat
    BY MonthsAssumption DEF IInv, TypeOK
<1>2. Len(periods) = month \/ Len(periods) = month - 1
    BY DEF IInv, Calendar
<1>3. periods \in Seq(Summaries(household))
    BY DEF IInv, Stored
<1>4. DOMAIN periods = 1..Len(periods) /\ Len(periods) \in Nat
    BY <1>3
<1>5. Len(periods) <= Months
    BY <1>1, <1>2
<1>6. \A k \in 1..Len(periods) : k \in 1..Months
    BY <1>1, <1>4, <1>5
<1> QED BY <1>4, <1>6

LEMMA StartReplayKeeps == ASSUME IInv, StartReplay PROVE IInv'
<1>1. PICK first \in DOMAIN periods, last \in DOMAIN periods, roots \in {checkpoints, <<>>} :
        LET usable == Usable(roots, first, last)
            root == roots[Max(usable)]
        IN  /\ first <= last
            /\ window' = <<first, last>>
            /\ IF usable = {}
               THEN month' = 1 /\ state' = OpeningState(household)
               ELSE month' = root.month + 1 /\ state' = root.state
    BY DEF StartReplay
<1> DEFINE usable == Usable(roots, first, last)
           root == roots[Max(usable)]
<1>2. /\ UNCHANGED <<household, instant, work, queue, groups, edges, cand, checkpoints>>
      /\ mode = "forecast" /\ mode' = "replay" /\ phase \in {"completed", "incomplete"}
      /\ phase' = "prepare" /\ refusal' = "none" /\ forecast' = periods /\ periods' = <<>>
    BY DEF StartReplay, ordering
<1>3. DOMAIN periods \subseteq 1..Months
    BY <1>2, MonthsRetained
<1>4. household \in Households /\ checkpoints \in Seq(Roots(household)) /\ Months \in Nat
    BY MonthsAssumption DEF IInv, TypeOK, Stored
<1>5. month' \in 1..first /\ Sound(household, state') /\ Clean(state')
  <2>1. CASE usable = {}
    <3>1. month' = 1 /\ state' = OpeningState(household)
      BY <1>1, <2>1
    <3>2. Sound(household, state') /\ Clean(state')
      BY <1>4, <3>1, OpeningFacts
    <3>3. 1 \in 1..first
      BY <1>1, <1>3
    <3> QED BY <3>1, <3>2, <3>3
  <2>2. CASE usable # {}
    <3>1. month' = root.month + 1 /\ state' = root.state
      BY <1>1, <2>2
    <3>2. roots = checkpoints
      BY <1>1, <2>2 DEF Usable
    <3>3. usable \in SUBSET Nat /\ usable \subseteq 0..Len(checkpoints) /\ Len(checkpoints) \in Nat
      BY <1>4, <3>2 DEF Usable
    <3>4. Max(usable) \in usable
      <4> HIDE DEF usable
      <4> QED BY <2>2, <3>3, MaxIsMember
    <3>5. Max(usable) \in DOMAIN checkpoints /\ root.month < first
      BY <3>2, <3>4 DEF Usable
    <3>6. root \in Roots(household)
      BY <1>4, <3>2, <3>5
    <3> HIDE DEF root
    <3>7. root.month \in 1..(Months - 1) /\ Sound(household, root.state) /\ Clean(root.state)
      BY <3>6 DEF Roots
    <3>8. first \in 1..Months
      BY <1>1, <1>3
    <3>9. root.month + 1 \in 1..first
      BY <1>4, <3>5, <3>7, <3>8
    <3> QED BY <3>1, <3>7, <3>9
  <2> QED BY <2>1, <2>2
<1>6. first <= last /\ window' = <<first, last>>
    BY <1>1
<1> QED BY <1>2, <1>3, <1>5, <1>6, StartedWell

LEMMA Inductive == ASSUME IInv, [Next]_vars PROVE IInv'
<1>1. CASE UNCHANGED vars
  <2>1. UNCHANGED <<household, mode, phase, refusal, month, instant, work, groups, edges, queue,
                    state, cand, periods, forecast, checkpoints, window>>
    BY <1>1 DEF vars
  <2>2. InstantWork' = InstantWork /\ LastMonth' = LastMonth
    BY <2>1 DEF InstantWork, LastMonth
  <2>3. TypeOK'
    BY <2>1 DEF IInv, TypeOK
  <2>4. Stored' /\ Debts'
    BY <2>1 DEF IInv, Stored, Debts
  <2>5. Pending'
    BY <2>1, <2>2 DEF IInv, Pending
  <2>6. Calendar' /\ CommittedHistory'
    BY <2>1, MonthsKept
  <2> QED BY <2>3, <2>4, <2>5, <2>6 DEF IInv
<1>2. CASE Next
    BY <1>2, PrepareKeeps, SequenceKeeps, DecideKeeps, OrderKeeps, ExecuteKeeps, NextInstantKeeps,
       CommitKeeps, AbortKeeps, StartReplayKeeps, VerifyKeeps DEF Next
<1> QED BY <1>1, <1>2

LEMMA Invariance == Spec => []IInv
<1>1. IInv /\ [Next]_vars => IInv'
    BY Inductive
<1> QED BY Initially, <1>1, PTL DEF Spec

-----------------------------------------------------------------------------
(* The paths along edges, and the groups of contenders.                      *)

\* The paths of R and what joins two of them at k.
Through(k, R) == R \cup {<<e[1], f[2]>> : e \in {p \in R : p[2] = k}, f \in {p \in R : p[1] = k}}

\* R has a path wherever two of its paths meet in a member of T.
ClosedAt(R, T) ==
    \A k \in T : \A a, b : <<a, k>> \in R /\ <<k, b>> \in R => <<a, b>> \in R

Symmetric(R) == \A a, b : <<a, b>> \in R => <<b, a>> \in R

LEMMA JoinedPaths ==
    ASSUME NEW U, NEW R \in SUBSET (U \X U), NEW k, NEW a, NEW b
    PROVE  <<a, b>> \in Through(k, R)
             <=> <<a, b>> \in R \/ (<<a, k>> \in R /\ <<k, b>> \in R)
<1>1. ASSUME <<a, b>> \in Through(k, R)
      PROVE  <<a, b>> \in R \/ (<<a, k>> \in R /\ <<k, b>> \in R)
  <2>1. CASE <<a, b>> \in R
    BY <2>1
  <2>2. CASE \E e \in {p \in R : p[2] = k}, f \in {p \in R : p[1] = k} : <<a, b>> = <<e[1], f[2]>>
    <3>1. PICK e \in R, f \in R : e[2] = k /\ f[1] = k /\ a = e[1] /\ b = f[2]
      BY <2>2
    <3>2. e = <<a, k>> /\ f = <<k, b>>
      BY <3>1
    <3> QED BY <3>2
  <2> QED BY <1>1, <2>1, <2>2 DEF Through
<1>2. ASSUME <<a, k>> \in R /\ <<k, b>> \in R PROVE <<a, b>> \in Through(k, R)
  <2>1. <<a, k>> \in {p \in R : p[2] = k} /\ <<k, b>> \in {p \in R : p[1] = k}
    BY <1>2
  <2>2. <<<<a, k>>[1], <<k, b>>[2]>> = <<a, b>>
    OBVIOUS
  <2> QED BY <2>1, <2>2 DEF Through
<1> QED BY <1>1, <1>2 DEF Through

LEMMA ThroughType ==
    ASSUME NEW U, NEW R \in SUBSET (U \X U), NEW k
    PROVE  Through(k, R) \in SUBSET (U \X U)
<1>1. ASSUME NEW e \in R, NEW f \in R PROVE <<e[1], f[2]>> \in U \X U
    OBVIOUS
<1> QED BY <1>1 DEF Through

\* A set of edges is closed at one more place by joining its paths there.
LEMMA ClosedAtOneMore ==
    ASSUME NEW U, NEW R \in SUBSET (U \X U), NEW T, ClosedAt(R, T), NEW k
    PROVE  ClosedAt(Through(k, R), T \cup {k})
<1> DEFINE Q == Through(k, R)
<1>1. \A a, b : <<a, b>> \in Q <=> <<a, b>> \in R \/ (<<a, k>> \in R /\ <<k, b>> \in R)
    BY JoinedPaths
<1> HIDE DEF Q
<1>2. ASSUME NEW m \in T \cup {k}, NEW a, NEW b, <<a, m>> \in Q, <<m, b>> \in Q
      PROVE  <<a, b>> \in Q
  <2>1. CASE m = k
    BY <1>1, <1>2, <2>1
  <2>2. CASE m \in T
    <3>1. \A x, y : <<x, m>> \in R /\ <<m, y>> \in R => <<x, y>> \in R
      BY <2>2 DEF ClosedAt
    <3> QED BY <1>1, <1>2, <3>1
  <2> QED BY <2>1, <2>2
<1> QED BY <1>2 DEF ClosedAt, Q

\* A table of the paths by way of each subset of S, which adds one place C at a time.
PathTable(C, g, deps, S, U) ==
    /\ TakesFrom(C, S) /\ g \in [SUBSET S -> SUBSET (U \X U)]
    /\ g[{}] = deps /\ g[S] = Reaches(deps, S)
    /\ \A T \in SUBSET S : T # {} => g[T] = Through(C[T], g[T \ {C[T]}])

LEMMA ReachesFolds ==
    ASSUME NEW S, IsFiniteSet(S), NEW U, NEW deps \in SUBSET (U \X U)
    PROVE  \E C, g : PathTable(C, g, deps, S, U)
<1> DEFINE C == Some(S)
           V == SUBSET (U \X U)
           F == [p \in S \X V |-> Through(p[1], p[2])]
           Body(f) == [T \in SUBSET S |->
                          IF T = {} THEN deps
                          ELSE Through(CHOOSE x \in T : TRUE, f[T \ {CHOOSE x \in T : TRUE}])]
           c == CHOOSE f : f = Body(f)
<1>1. TakesFrom(C, S) /\ \A T \in SUBSET S : C[T] = CHOOSE x \in T : TRUE
    BY DEF TakesFrom, Some
<1>2. F \in [S \X V -> V]
  <2>1. \A p \in S \X V : Through(p[1], p[2]) \in V
    BY ThroughType
  <2> HIDE DEF V
  <2> QED BY <2>1
<1> HIDE DEF C
<1>3. PICK g \in [SUBSET S -> V] : Folds(g, C, F, deps, S)
  <2>1. deps \in V
    OBVIOUS
  <2> HIDE DEF F, V
  <2> QED BY <1>1, <1>2, <2>1, FoldExists
<1> HIDE DEF V
<1>4. ASSUME NEW T \in SUBSET S, T # {} PROVE g[T] = Through(C[T], g[T \ {C[T]}])
  <2>1. C[T] \in S /\ T \ {C[T]} \in SUBSET S
    BY <1>1, <1>4 DEF TakesFrom
  <2>2. g[T] = F[<<C[T], g[T \ {C[T]}]>>]
    BY <1>3, <1>4 DEF Folds
  <2>3. <<C[T], g[T \ {C[T]}]>> \in S \X V
    BY <2>1
  <2> QED BY <2>2, <2>3
<1>5. g[{}] = deps
    BY <1>3 DEF Folds
<1> HIDE DEF F
<1>6. g = Body(g)
  <2>1. ASSUME NEW T \in SUBSET S
        PROVE  g[T] = IF T = {} THEN deps
                      ELSE Through(CHOOSE x \in T : TRUE, g[T \ {CHOOSE x \in T : TRUE}])
    BY <1>1, <1>4, <1>5
  <2> QED BY <2>1
<1>7. c = Body(c)
    BY <1>6
<1>8. Reaches(deps, S) = c[S]
    BY DEF Reaches, FoldSet, MapThenFoldSet, Through
<1> HIDE DEF c
<1>9. \A T \in SUBSET S : c[T] = IF T = {} THEN deps
                                 ELSE Through(C[T], c[T \ {C[T]}])
    BY <1>1, <1>7
<1> DEFINE P == {T \in SUBSET S : c[T] = g[T]}
<1>10. {} \in P
    BY <1>5, <1>9
<1>11. ASSUME NEW T \in SUBSET S, T # {}, T \ {C[T]} \in P PROVE T \in P
    BY <1>4, <1>9, <1>11
<1> HIDE DEF P
<1>12. \A T \in SUBSET S : T \in P
    BY <1>1, <1>10, <1>11, SubsetInduction
<1>13. c[S] = g[S]
    BY <1>12 DEF P
<1>14. PathTable(C, g, deps, S, U)
    BY <1>1, <1>4, <1>5, <1>8, <1>13 DEF V, PathTable
<1> QED BY <1>14

\* What is said of paths is exact: they contain the edges, have a path wherever two of
\* them meet in S, and every other relation that does has all of them.  This is what
\* orders work of one instant, closes a policy, and connects contenders
\* (r3/ordering.ts, simulation/householdExecution.ts).
THEOREM ReachesIsClosure ==
    ASSUME NEW S, IsFiniteSet(S), NEW U, NEW deps \in SUBSET (U \X U)
    PROVE  /\ Reaches(deps, S) \in SUBSET (U \X U) /\ deps \subseteq Reaches(deps, S)
           /\ ClosedAt(Reaches(deps, S), S)
           /\ \A R \in SUBSET (U \X U) :
                 deps \subseteq R /\ ClosedAt(R, S) => Reaches(deps, S) \subseteq R
           /\ Symmetric(deps) => Symmetric(Reaches(deps, S))
<1>0. PICK C, g : PathTable(C, g, deps, S, U)
    BY ReachesFolds
<1>1. /\ TakesFrom(C, S) /\ g \in [SUBSET S -> SUBSET (U \X U)]
      /\ g[{}] = deps /\ g[S] = Reaches(deps, S)
      /\ \A T \in SUBSET S : T # {} => g[T] = Through(C[T], g[T \ {C[T]}])
    BY <1>0 DEF PathTable
<1>2. ASSUME NEW T \in SUBSET S, T # {}
      PROVE  /\ C[T] \in T /\ T \ {C[T]} \in SUBSET S /\ T = (T \ {C[T]}) \cup {C[T]}
             /\ g[T \ {C[T]}] \in SUBSET (U \X U) /\ g[T] \in SUBSET (U \X U)
             /\ g[T] = Through(C[T], g[T \ {C[T]}])
             /\ g[T \ {C[T]}] \subseteq g[T]
             /\ \A a, b : <<a, b>> \in g[T]
                  <=> \/ <<a, b>> \in g[T \ {C[T]}]
                      \/ <<a, C[T]>> \in g[T \ {C[T]}] /\ <<C[T], b>> \in g[T \ {C[T]}]
  <2> DEFINE k == C[T]
             R == g[T \ {k}]
  <2>1. k \in T /\ T \ {k} \in SUBSET S /\ T = (T \ {k}) \cup {k}
    BY <1>1, <1>2 DEF TakesFrom
  <2>2. R \in SUBSET (U \X U) /\ g[T] \in SUBSET (U \X U)
    BY <1>1, <2>1
  <2>3. g[T] = Through(k, R)
    BY <1>1, <1>2
  <2> HIDE DEF R, k
  <2>4. \A a, b : <<a, b>> \in Through(k, R) <=> <<a, b>> \in R \/ (<<a, k>> \in R /\ <<k, b>> \in R)
    BY <2>2, JoinedPaths
  <2>5. R \subseteq Through(k, R)
    BY DEF Through
  <2> QED BY <2>1, <2>2, <2>3, <2>4, <2>5, ZenonT(60) DEF R, k
<1> DEFINE P == {T \in SUBSET S : deps \subseteq g[T] /\ ClosedAt(g[T], T)}
<1>3. {} \in P
    BY <1>1 DEF ClosedAt
<1>4. ASSUME NEW T \in SUBSET S, T # {}, T \ {C[T]} \in P PROVE T \in P
  <2> DEFINE k == C[T]
             B == T \ {k}
             R == g[B]
  <2>1. /\ R \in SUBSET (U \X U) /\ ClosedAt(R, B) /\ deps \subseteq R
        /\ g[T] = Through(k, R) /\ T = B \cup {k} /\ R \subseteq g[T]
    BY <1>2, <1>4
  <2> HIDE DEF R, B, k
  <2>2. ClosedAt(Through(k, R), B \cup {k})
    BY <2>1, ClosedAtOneMore
  <2> QED BY <2>1, <2>2
<1> HIDE DEF P
<1>5. \A T \in SUBSET S : T \in P
    BY <1>1, <1>3, <1>4, SubsetInduction
<1>6. deps \subseteq g[S] /\ ClosedAt(g[S], S)
    BY <1>5 DEF P
<1>7. ASSUME NEW R \in SUBSET (U \X U), deps \subseteq R, ClosedAt(R, S) PROVE g[S] \subseteq R
  <2> DEFINE Q == {T \in SUBSET S : g[T] \subseteq R}
  <2>1. {} \in Q
    BY <1>1, <1>7
  <2>2. ASSUME NEW T \in SUBSET S, T # {}, T \ {C[T]} \in Q PROVE T \in Q
    <3>1. ASSUME NEW p \in g[T] PROVE p \in R
      <4>0. g[T] \in SUBSET (U \X U)
        BY <1>2, <2>2
      <4>1. PICK a \in U, b \in U : p = <<a, b>>
        BY <3>1, <4>0
      <4>2. C[T] \in S /\ g[T \ {C[T]}] \subseteq R
        BY <1>2, <2>2
      <4>3. \/ <<a, b>> \in g[T \ {C[T]}]
            \/ <<a, C[T]>> \in g[T \ {C[T]}] /\ <<C[T], b>> \in g[T \ {C[T]}]
        BY <1>2, <2>2, <3>1, <4>1
      <4>4. <<a, b>> \in R
        BY <1>7, <4>2, <4>3 DEF ClosedAt
      <4> QED BY <4>1, <4>4
    <3> QED BY <3>1
  <2> HIDE DEF Q
  <2>3. \A T \in SUBSET S : T \in Q
    BY <1>1, <2>1, <2>2, SubsetInduction
  <2> QED BY <2>3 DEF Q
<1>8. ASSUME Symmetric(deps) PROVE Symmetric(g[S])
  <2> DEFINE Q == {T \in SUBSET S : Symmetric(g[T])}
  <2>1. {} \in Q
    BY <1>1, <1>8
  <2>2. ASSUME NEW T \in SUBSET S, T # {}, T \ {C[T]} \in Q PROVE T \in Q
    BY <1>2, <2>2 DEF Symmetric
  <2> HIDE DEF Q
  <2>3. \A T \in SUBSET S : T \in Q
    BY <1>1, <2>1, <2>2, SubsetInduction
  <2> QED BY <2>3 DEF Q
<1>9. g[S] \in SUBSET (U \X U)
    BY <1>1
<1> QED BY <1>1, <1>6, <1>7, <1>8, <1>9

LEMMA SharedBothWays ==
    ASSUME NEW h, NEW i, NEW j, HasShared(h, i, j) PROVE HasShared(h, j, i)
    BY DEF HasShared

\* Contention is decided group by group, and the groups have nothing to decide between
\* them: every contender is in exactly one group, and whoever shares cash with one of a
\* group is in it (simulation/householdExecution.ts).
THEOREM GroupsArePartition ==
    ASSUME NEW h, NEW T, IsFiniteSet(T)
    PROVE  /\ UNION Groups(h, T) = T /\ {} \notin Groups(h, T)
           /\ \A A, B \in Groups(h, T) : A \cap B # {} => A = B
           /\ \A A \in Groups(h, T) : \A i \in A : \A j \in T : HasShared(h, i, j) => j \in A
<1> DEFINE deps == {e \in T \X T : HasShared(h, e[1], e[2])}
           R == Reaches(deps, T)
           Class(i) == {j \in T : j = i \/ <<i, j>> \in R}
<1>1. deps \in SUBSET (T \X T) /\ \A i, j \in T : <<i, j>> \in deps <=> HasShared(h, i, j)
    OBVIOUS
<1>2. Symmetric(deps)
    BY SharedBothWays DEF Symmetric
<1>3. Groups(h, T) = {Class(i) : i \in T}
    BY DEF Groups
<1> HIDE DEF deps
<1>4. R \in SUBSET (T \X T) /\ deps \subseteq R /\ ClosedAt(R, T) /\ Symmetric(R)
    BY <1>1, <1>2, ReachesIsClosure
<1> HIDE DEF R
<1>5. ASSUME NEW i \in T, NEW j \in Class(i) PROVE Class(i) = Class(j)
  <2>1. CASE i = j
    BY <2>1
  <2>2. CASE <<i, j>> \in R
    <3>1. j \in T /\ <<j, i>> \in R
      BY <1>4, <2>2 DEF Symmetric
    <3>2. ASSUME NEW k \in T PROVE k \in Class(i) <=> k \in Class(j)
      <4>1. <<i, k>> \in R => <<j, k>> \in R
        BY <1>4, <3>1 DEF ClosedAt
      <4>2. <<j, k>> \in R => <<i, k>> \in R
        BY <1>4, <2>2, <3>1 DEF ClosedAt
      <4> QED BY <2>2, <3>1, <4>1, <4>2
    <3> QED BY <3>2
  <2> QED BY <2>1, <2>2
<1>6. \A i \in T : i \in Class(i) /\ Class(i) \subseteq T
    OBVIOUS
<1>7. ASSUME NEW i \in T, NEW k \in Class(i), NEW j \in T, HasShared(h, k, j) PROVE j \in Class(i)
  <2>1. Class(i) = Class(k) /\ k \in T
    BY <1>5
  <2>2. <<k, j>> \in R
    BY <1>1, <1>4, <1>7, <2>1
  <2> QED BY <2>1, <2>2
<1> HIDE DEF Class
<1>8. UNION Groups(h, T) = T /\ {} \notin Groups(h, T)
    BY <1>3, <1>6
<1>9. ASSUME NEW A \in Groups(h, T), NEW B \in Groups(h, T), A \cap B # {} PROVE A = B
  <2>1. PICK i \in T, j \in T : A = Class(i) /\ B = Class(j)
    BY <1>3, <1>9
  <2>2. PICK k : k \in Class(i) /\ k \in Class(j)
    BY <1>9, <2>1
  <2> QED BY <1>5, <2>1, <2>2
<1>10. ASSUME NEW A \in Groups(h, T), NEW i \in A, NEW j \in T, HasShared(h, i, j) PROVE j \in A
    BY <1>3, <1>7, <1>10
<1> QED BY <1>8, <1>9, <1>10

-----------------------------------------------------------------------------
(* An instant is a function of the state it begins with.                     *)

\* The first work of an order, and then the others.
LEMMA ExecuteFirst ==
    ASSUME NEW h \in Households, NEW s \in SoundStates(h), NEW o \in Seq(DOMAIN h.plan), o # <<>>
    PROVE  /\ Head(o) \in DOMAIN h.plan /\ Tail(o) \in Seq(DOMAIN h.plan)
           /\ Step(h, s, Head(o)) \in SoundStates(h)
           /\ Execute(h, s, o) = Execute(h, Step(h, s, Head(o)), Tail(o))
<1> DEFINE D == DOMAIN h.plan
           i == Head(o)
           r == Tail(o)
           t == Step(h, s, i)
           n == Len(r)
           K == {k \in 0..n : \A q \in Seq(D) : Len(q) = k =>
                                  Execute(h, s, <<i>> \o q) = Execute(h, t, q)}
<1>1. i \in D /\ r \in Seq(D) /\ o = <<i>> \o r /\ n \in Nat
    OBVIOUS
<1>2. t \in SoundStates(h)
  <2>1. Sound(h, s) /\ i \in DOMAIN h.plan
    BY <1>1 DEF SoundStates
  <2>2. Sound(h, t)
    BY <2>1, StepIsAfter DEF After
  <2> QED BY <2>2 DEF SoundStates, Sound
<1> HIDE DEF i, r, n
<1>3. 0 \in K
  <2>1. ASSUME NEW q \in Seq(D), Len(q) = 0 PROVE Execute(h, s, <<i>> \o q) = Execute(h, t, q)
    <3>1. q = <<>>
      BY <2>1
    <3>2. <<i>> \o <<>> = Append(<<>>, i) /\ <<>> \in Seq(D)
      BY <1>1
    <3>3. Execute(h, s, Append(<<>>, i)) = Step(h, Execute(h, s, <<>>), i)
      BY <1>1, <3>2, ExecuteFacts
    <3>4. Execute(h, s, <<>>) = s /\ Execute(h, t, <<>>) = t
      BY <1>2, ExecuteFacts
    <3> QED BY <3>1, <3>2, <3>3, <3>4
  <2> QED BY <1>1, <2>1
<1>4. ASSUME NEW k \in 0..n, k < n, k \in K PROVE k + 1 \in K
  <2>1. ASSUME NEW q \in Seq(D), Len(q) = k + 1 PROVE Execute(h, s, <<i>> \o q) = Execute(h, t, q)
    <3>0. k \in Nat
      BY <1>1
    <3>1. PICK p \in Seq(D) : \E j \in D : Len(p) = k /\ q = Append(p, j)
      <4> HIDE DEF D
      <4> QED BY <2>1, <3>0, SequenceFront
    <3>2. PICK j \in D : Len(p) = k /\ q = Append(p, j)
      BY <3>1
    <3>3. <<i>> \o q = Append(<<i>> \o p, j) /\ <<i>> \o p \in Seq(D)
      BY <1>1, <3>2
    <3>4. Execute(h, s, <<i>> \o p) = Execute(h, t, p)
      BY <1>4, <3>2
    <3>5. Execute(h, s, Append(<<i>> \o p, j)) = Step(h, Execute(h, s, <<i>> \o p), j)
      BY <3>3, ExecuteFacts
    <3>6. Execute(h, t, Append(p, j)) = Step(h, Execute(h, t, p), j)
      BY <1>2, ExecuteFacts
    <3> QED BY <3>2, <3>3, <3>4, <3>5, <3>6
  <2>2. k + 1 \in 0..n
    BY <1>1, <1>4
  <2> QED BY <2>1, <2>2
<1> HIDE DEF K
<1>5. \A k \in 0..n : k \in K
    BY <1>1, <1>3, <1>4, Induction
<1>6. n \in K
    BY <1>1, <1>5
<1>7. Execute(h, s, <<i>> \o r) = Execute(h, t, r)
    BY <1>1, <1>6 DEF K, n
<1> QED BY <1>1, <1>2, <1>7 DEF i, r

\* The groups of the works S of an instant, and what each tier decides about one.
GroupsOf(h, S) == Groups(h, Contenders(h, S, ExplicitEdges(h, S)))
Decision(h, tier, s, S, group) == Decide(h, s, S, group, Inside(ExplicitEdges(h, S), group), tier)

\* The dependencies of the instant, those of the groups in decided included.
EdgesOf(h, tier, s, S, decided) ==
    ExplicitEdges(h, S) \cup UNION {Decision(h, tier, s, S, group).edges : group \in decided}

\* No group is refused, and what they add up to is no cycle.
Settles(h, tier, s, S) ==
    /\ \A group \in GroupsOf(h, S) : Decision(h, tier, s, S, group).refusal = "none"
    /\ Ordered(S, EdgesOf(h, tier, s, S, GroupsOf(h, S)))

\* How the instant ends, and that it does.
Ending(h, tier, s, S) == Execute(h, s, FirstOrder(S, EdgesOf(h, tier, s, S, GroupsOf(h, S))))
Passes(h, tier, s, S) == Settles(h, tier, s, S) /\ ~Ending(h, tier, s, S).failed

\* What is decided about a group does not depend on the groups decided before.
LEMMA GroupsDecideAlone ==
    ASSUME NEW h \in Households, NEW tier, NEW s, NEW S \in SUBSET DOMAIN h.plan,
           NEW decided \in SUBSET GroupsOf(h, S), NEW group \in GroupsOf(h, S) \ decided
    PROVE  Inside(EdgesOf(h, tier, s, S, decided), group) = Inside(ExplicitEdges(h, S), group)
<1> DEFINE T == Contenders(h, S, ExplicitEdges(h, S))
<1>1. S \in SUBSET Nat /\ IsFiniteSet(S)
    BY PlanIsFinite, FS_Subset
<1>2. T \subseteq S /\ IsFiniteSet(T)
  <2>1. T \subseteq S
    BY DEF Contenders
  <2> QED BY <1>1, <2>1, FS_Subset
<1>3. /\ UNION GroupsOf(h, S) = T
      /\ \A A, B \in GroupsOf(h, S) : A \cap B # {} => A = B
    BY <1>2, GroupsArePartition DEF GroupsOf
<1>4. ASSUME NEW g \in decided PROVE Decision(h, tier, s, S, g).edges \subseteq g \X g /\ g \cap group = {}
  <2>1. g \in SUBSET Nat /\ IsFiniteSet(g)
    <3>1. g \subseteq S
      BY <1>2, <1>3
    <3> QED BY <1>1, <3>1, FS_Subset
  <2>2. Decision(h, tier, s, S, g).edges \subseteq g \X g
    BY <2>1, DecisionWithin DEF Decision
  <2>3. g # group
    OBVIOUS
  <2> QED BY <1>3, <2>2, <2>3
<1>5. ASSUME NEW e \in UNION {Decision(h, tier, s, S, g).edges : g \in decided}
      PROVE  e \notin group \X group
    BY <1>4
<1> QED BY <1>5 DEF Inside, EdgesOf

-----------------------------------------------------------------------------
(* A month under way, whatever the mode: it has a plan, nothing of it threw, and *)
(* the groups decided so far were decided as if alone.                       *)

Middle == phase \in {"sequence", "decide", "execute"}

Planned == Middle => work = Prepared(household, month, state) /\ ~NoPlan(household, work)

Unfailed ==
    /\ ~state.failed
    /\ Middle => ~cand.failed
    /\ \A k \in DOMAIN checkpoints : ~checkpoints[k].state.failed

Deciding ==
    phase = "decide" =>
        LET decided == GroupsOf(household, InstantWork) \ groups
        IN  /\ groups \subseteq GroupsOf(household, InstantWork)
            /\ edges = EdgesOf(household, Tier, cand, InstantWork, decided)
            /\ \A group \in decided :
                  Decision(household, Tier, cand, InstantWork, group).refusal = "none"

MInv == Planned /\ Unfailed /\ Deciding

LEMMA MonthInitially == Init => MInv
<1> SUFFICES ASSUME Init PROVE MInv
    OBVIOUS
<1>1. phase = "prepare" /\ state.failed = FALSE /\ checkpoints = <<>>
    BY DEF Init, OpeningState
<1> QED BY <1>1 DEF MInv, Planned, Unfailed, Deciding, Middle

\* Steps that leave the states alone and no month under way.
LEMMA MonthKept ==
    ASSUME MInv, ~Middle', ~state'.failed, \A k \in DOMAIN checkpoints' : ~checkpoints'[k].state.failed
    PROVE  MInv'
    BY DEF MInv, Planned, Unfailed, Deciding, Middle

LEMMA FailedCarried ==
    ASSUME NEW h, NEW s, Sound(h, s)
    PROVE  (Carried(s).failed = s.failed) /\ (Opened(s).failed = s.failed)
<1>1. Carried(s).failed = s.failed
    BY DEF Carried, Sound, States
<1>2. Opened(s).failed = s.failed
    BY DEF Opened, Sound, States
<1> QED BY <1>1, <1>2

LEMMA RefusedMonth == ASSUME MInv, ~Middle', UNCHANGED <<state, checkpoints>> PROVE MInv'
<1>1. ~state'.failed /\ \A k \in DOMAIN checkpoints' : ~checkpoints'[k].state.failed
    BY DEF MInv, Unfailed
<1> QED BY <1>1, MonthKept

\* The step that decides a group: it was decided as if alone.
LEMMA DecideAlone ==
    ASSUME IInv, MInv, DecideGroup
    PROVE  \E group \in groups :
              LET decision == Decision(household, Tier, cand, InstantWork, group)
              IN  IF decision.refusal = "none"
                  THEN /\ groups' = groups \ {group} /\ edges' = edges \cup decision.edges
                       /\ UNCHANGED <<phase, refusal, queue>>
                  ELSE Refuse(decision.refusal)
<1> DEFINE S == InstantWork
<1>1. PICK group \in groups :
        LET decision == Decide(household, cand, S, group, Inside(edges, group), Tier)
        IN  IF decision.refusal = "none"
            THEN /\ groups' = groups \ {group} /\ edges' = edges \cup decision.edges
                 /\ UNCHANGED <<phase, refusal, queue>>
            ELSE Refuse(decision.refusal)
    BY DEF DecideGroup
<1>2. phase = "decide"
    BY DEF DecideGroup
<1> DEFINE decided == GroupsOf(household, S) \ groups
<1>3. /\ groups \subseteq GroupsOf(household, S)
      /\ edges = EdgesOf(household, Tier, cand, S, decided)
    BY <1>2 DEF MInv, Deciding
<1>4. household \in Households /\ S \in SUBSET DOMAIN household.plan
  <2>1. S \subseteq work
    BY InstantWorkFinite DEF IInv
  <2> QED BY <2>1 DEF IInv, TypeOK
<1>5. Inside(edges, group) = Inside(ExplicitEdges(household, S), group)
  <2>1. decided \in SUBSET GroupsOf(household, S) /\ group \in GroupsOf(household, S) \ decided
    BY <1>3
  <2> HIDE DEF S, decided
  <2> QED BY <1>3, <1>4, <2>1, GroupsDecideAlone
<1>6. Decide(household, cand, S, group, Inside(edges, group), Tier)
        = Decision(household, Tier, cand, S, group)
    BY <1>5 DEF Decision
<1> QED BY <1>1, <1>6

LEMMA DecideKeepsMonth == ASSUME IInv, MInv, DecideGroup PROVE MInv'
<1> DEFINE S == InstantWork
           all == GroupsOf(household, S)
           D(group) == Decision(household, Tier, cand, S, group)
<1>1. PICK group \in groups :
        IF D(group).refusal = "none"
        THEN /\ groups' = groups \ {group} /\ edges' = edges \cup D(group).edges
             /\ UNCHANGED <<phase, refusal, queue>>
        ELSE Refuse(D(group).refusal)
    BY DecideAlone
<1>2. /\ phase = "decide" /\ InstantWork' = S /\ Tier' = Tier
      /\ UNCHANGED <<household, mode, month, instant, work, state, cand, checkpoints>>
    BY DEF DecideGroup, InstantWork, Tier
<1>3. CASE D(group).refusal # "none"
  <2>1. ~Middle'
    BY <1>1, <1>3 DEF Refuse, Middle
  <2> QED BY <1>2, <2>1, RefusedMonth
<1>4. CASE D(group).refusal = "none"
  <2>1. groups' = groups \ {group} /\ edges' = edges \cup D(group).edges /\ phase' = "decide"
    BY <1>1, <1>2, <1>4
  <2>2. /\ groups \subseteq all /\ edges = EdgesOf(household, Tier, cand, S, all \ groups)
        /\ \A g \in all \ groups : D(g).refusal = "none"
    BY <1>2 DEF MInv, Deciding
  <2>3. all \ groups' = (all \ groups) \cup {group}
    BY <2>1, <2>2
  <2>4. edges' = EdgesOf(household, Tier, cand, S, (all \ groups) \cup {group})
    BY <2>1, <2>2 DEF EdgesOf
  <2>5. \A g \in (all \ groups) \cup {group} : D(g).refusal = "none"
    BY <1>4, <2>2
  <2>6. groups' \subseteq all
    BY <2>1, <2>2
  <2>7. Deciding'
    <3> HIDE DEF S
    <3>1. /\ groups' \subseteq GroupsOf(household', InstantWork')
          /\ edges' = EdgesOf(household', Tier', cand', InstantWork',
                              GroupsOf(household', InstantWork') \ groups')
          /\ \A g \in GroupsOf(household', InstantWork') \ groups' :
                Decision(household', Tier', cand', InstantWork', g).refusal = "none"
      BY <1>2, <2>3, <2>4, <2>5, <2>6
    <3> QED BY <3>1 DEF Deciding
  <2>8. Planned' /\ Unfailed'
    BY <1>2, <2>1 DEF MInv, Planned, Unfailed, Middle
  <2> QED BY <2>7, <2>8 DEF MInv
<1> QED BY <1>3, <1>4

LEMMA ExecuteKeepsMonth == ASSUME IInv, MInv, ExecuteOperation PROVE MInv'
<1>1. /\ phase = "execute"
      /\ \/ cand'.failed /\ phase' = "refused"
         \/ ~cand'.failed /\ phase' = "execute"
      /\ UNCHANGED <<household, month, work, state, checkpoints>>
    BY DEF ExecuteOperation
<1>2. CASE phase' = "refused"
  <2>1. ~Middle'
    BY <1>2 DEF Middle
  <2> QED BY <1>1, <2>1, RefusedMonth
<1>3. CASE phase' = "execute"
    BY <1>1, <1>3 DEF MInv, Planned, Unfailed, Deciding, Middle
<1> QED BY <1>1, <1>2, <1>3

LEMMA CommitKeepsMonth == ASSUME IInv, MInv, Commit PROVE MInv'
<1>1. /\ phase = "execute" /\ phase' \in {"prepare", "completed"} /\ state' = Carried(cand)
      /\ checkpoints' \in {checkpoints, Append(checkpoints, Checkpoint(state'))}
    BY DEF Commit
<1>2. ~state'.failed
  <2>1. ~cand.failed /\ Sound(household, cand)
    BY <1>1 DEF MInv, Unfailed, Middle, IInv, Stored
  <2> QED BY <1>1, <2>1, FailedCarried
<1>3. \A k \in DOMAIN checkpoints' : ~checkpoints'[k].state.failed
  <2>1. \A k \in DOMAIN checkpoints : ~checkpoints[k].state.failed
    BY DEF MInv, Unfailed
  <2>2. CASE checkpoints' = checkpoints
    BY <2>1, <2>2
  <2>3. CASE checkpoints' = Append(checkpoints, Checkpoint(state'))
    <3> DEFINE c == Checkpoint(state')
    <3>1. checkpoints \in Seq(Roots(household)) /\ c.state = state'
      BY DEF IInv, Stored, Checkpoint
    <3> HIDE DEF c
    <3>2. \A k \in DOMAIN Append(checkpoints, c) :
              \/ k \in DOMAIN checkpoints /\ Append(checkpoints, c)[k] = checkpoints[k]
              \/ Append(checkpoints, c)[k] = c
      BY <3>1
    <3> QED BY <1>2, <2>1, <2>3, <3>1, <3>2 DEF c
  <2> QED BY <1>1, <2>2, <2>3
<1> QED BY <1>1, <1>2, <1>3, MonthKept DEF Middle

LEMMA StartKeepsMonth == ASSUME IInv, MInv, StartReplay PROVE MInv'
<1>1. PICK first \in DOMAIN periods, end \in DOMAIN periods, roots \in {checkpoints, <<>>} :
        IF Usable(roots, first, end) = {}
        THEN state' = OpeningState(household)
        ELSE state' = roots[Max(Usable(roots, first, end))].state
    BY DEF StartReplay
<1>2. phase' = "prepare" /\ checkpoints' = checkpoints
    BY DEF StartReplay
<1> DEFINE usable == Usable(roots, first, end)
<1>3. ~state'.failed
  <2>1. CASE usable = {}
    BY <1>1, <2>1 DEF OpeningState
  <2>2. CASE usable # {}
    <3>1. roots = checkpoints
      BY <1>1, <2>2 DEF Usable
    <3>2. usable \in SUBSET Nat /\ usable \subseteq 0..Len(checkpoints) /\ Len(checkpoints) \in Nat
      BY <3>1 DEF Usable, IInv, Stored
    <3>3. Max(usable) \in usable
      <4> HIDE DEF usable
      <4> QED BY <2>2, <3>2, MaxIsMember
    <3>4. Max(usable) \in DOMAIN checkpoints
      BY <3>1, <3>3 DEF Usable
    <3>5. state' = checkpoints[Max(usable)].state
      BY <1>1, <2>2, <3>1
    <3> QED BY <3>4, <3>5 DEF MInv, Unfailed
  <2> QED BY <2>1, <2>2
<1> QED BY <1>2, <1>3, MonthKept DEF MInv, Unfailed, Middle

LEMMA MonthInductive == ASSUME IInv, MInv, [Next]_vars PROVE MInv'
<1>1. CASE UNCHANGED vars
  <2>1. UNCHANGED <<household, mode, phase, month, instant, work, groups, edges, state, cand,
                    checkpoints>>
    BY <1>1 DEF vars
  <2>2. InstantWork' = InstantWork /\ Tier' = Tier
    BY <2>1 DEF InstantWork, Tier
  <2>3. Deciding'
    BY <2>1, <2>2 DEF MInv, Deciding
  <2>4. Planned' /\ Unfailed'
    BY <2>1 DEF MInv, Planned, Unfailed, Middle
  <2> QED BY <2>3, <2>4 DEF MInv
<1>2. CASE Prepare
  <2>1. /\ cand' = state /\ work' = Prepared(household, month, state)
        /\ IF NoPlan(household, work') THEN phase' = "refused" ELSE phase' = "sequence"
        /\ UNCHANGED <<household, month, state, checkpoints>>
    BY <1>2 DEF Prepare
  <2> QED BY <2>1 DEF MInv, Planned, Unfailed, Deciding, Middle
<1>3. CASE Sequence
  <2>1. /\ phase = "sequence" /\ phase' = "decide" /\ cand' = Opened(cand)
        /\ edges' = ExplicitEdges(household, InstantWork)
        /\ groups' = GroupsOf(household, InstantWork)
        /\ UNCHANGED <<household, month, work, state, checkpoints>>
        /\ InstantWork' = InstantWork
    BY <1>3 DEF Sequence, GroupsOf, InstantWork
  <2>2. ~cand'.failed
    <3>1. ~cand.failed /\ Sound(household, cand)
      BY <2>1 DEF MInv, Unfailed, Middle, IInv, Stored
    <3> QED BY <2>1, <3>1, FailedCarried
  <2>3. EdgesOf(household, Tier', cand', InstantWork, {}) = ExplicitEdges(household, InstantWork)
    BY DEF EdgesOf
  <2>4. Deciding'
    <3>1. GroupsOf(household', InstantWork') \ groups' = {}
      BY <2>1
    <3>2. edges' = EdgesOf(household', Tier', cand', InstantWork', {})
      BY <2>1, <2>3
    <3> QED BY <2>1, <3>1, <3>2 DEF Deciding
  <2>5. Planned' /\ Unfailed'
    BY <2>1, <2>2 DEF MInv, Planned, Unfailed, Middle
  <2> QED BY <2>4, <2>5 DEF MInv
<1>4. CASE OrderInstant
  <2>1. /\ phase = "decide" /\ phase' \in {"execute", "refused"}
        /\ UNCHANGED <<household, month, work, state, cand, checkpoints>>
    BY <1>4 DEF OrderInstant, Refuse
  <2> QED BY <2>1 DEF MInv, Planned, Unfailed, Deciding, Middle
<1>5. CASE NextInstant
  <2>1. /\ phase = "execute" /\ phase' = "sequence"
        /\ UNCHANGED <<household, month, work, state, cand, checkpoints>>
    BY <1>5 DEF NextInstant
  <2> QED BY <2>1 DEF MInv, Planned, Unfailed, Deciding, Middle
<1>6. CASE Abort \/ Verify
  <2>1. ~Middle' /\ UNCHANGED <<state, checkpoints>>
    BY <1>6 DEF Abort, Verify, Middle
  <2> QED BY <2>1, RefusedMonth
<1> QED BY <1>1, <1>2, <1>3, <1>4, <1>5, <1>6, DecideKeepsMonth, ExecuteKeepsMonth,
       CommitKeepsMonth, StartKeepsMonth DEF Next

-----------------------------------------------------------------------------
(* A month is what its instants make of the state it opens with.             *)

\* The month prepared as w, before its instant k, on state s.
Config(k, w, s) == [instant |-> k, work |-> w, cand |-> s]

\* The instant that follows is reached from how a forecast ends this one.
Onward(h, c) ==
    Config(c.instant + 1, c.work,
           Ending(h, "summary", Opened(c.cand), At(h, c.work, c.instant)))

\* No instant is left, or the forecast refuses the month at this one.
Final(h, c) ==
    c.instant <= Instants => ~Passes(h, "summary", Opened(c.cand), At(h, c.work, c.instant))

\* b is where a forecast comes to from a: it is in every set that holds a and with each
\* member the one that follows it.
ClosedUnder(h, P) == \A c \in P : ~Final(h, c) => Onward(h, c) \in P
Leads(h, a, b) == \A P : a \in P /\ ClosedUnder(h, P) => b \in P

LEMMA LeadsOn ==
    ASSUME NEW h, NEW a, NEW b
    PROVE  /\ Leads(h, a, a)
           /\ Leads(h, a, b) /\ ~Final(h, b) => Leads(h, a, Onward(h, b))
           /\ Leads(h, a, b) /\ ~Final(h, a) /\ Final(h, b) => Leads(h, Onward(h, a), b)
           /\ Leads(h, a, b) /\ Final(h, a) => a = b
<1>1. Leads(h, a, a)
    BY DEF Leads
<1>2. ASSUME Leads(h, a, b), ~Final(h, b) PROVE Leads(h, a, Onward(h, b))
    BY <1>2 DEF Leads, ClosedUnder
<1>3. ASSUME Leads(h, a, b), ~Final(h, a), Final(h, b) PROVE Leads(h, Onward(h, a), b)
  <2> SUFFICES ASSUME NEW P, Onward(h, a) \in P, ClosedUnder(h, P) PROVE b \in P
    BY DEF Leads
  <2> DEFINE Q == P \cup {a}
  <2>1. a \in Q /\ ClosedUnder(h, Q)
    BY DEF ClosedUnder
  <2>2. b \in Q
    <3> HIDE DEF Q
    <3> QED BY <1>3, <2>1 DEF Leads
  <2> QED BY <1>3, <2>2
<1>4. ASSUME Leads(h, a, b), Final(h, a) PROVE a = b
  <2> DEFINE Q == {a}
  <2>1. a \in Q /\ ClosedUnder(h, Q)
    BY <1>4 DEF ClosedUnder
  <2>2. b \in Q
    <3> HIDE DEF Q
    <3> QED BY <1>4, <2>1 DEF Leads
  <2> QED BY <2>2
<1> QED BY <1>1, <1>2, <1>3, <1>4

LEMMA ConfigFacts ==
    ASSUME NEW h, NEW k \in Nat, NEW w, NEW s
    PROVE  LET S == At(h, w, k)
               c == Config(k, w, s)
           IN  /\ Final(h, c) <=> (k <= Instants => ~Passes(h, "summary", Opened(s), S))
               /\ Onward(h, c) = Config(k + 1, w, Ending(h, "summary", Opened(s), S))
    BY SMTT(60) DEF Final, Onward, Config

\* What month m begins with on state s.
Opens(h, m, s) == Config(1, Prepared(h, m, s), s)

\* Month m, opened on state s, completes with e.
Completes(h, m, s, e) ==
    /\ ~NoPlan(h, Prepared(h, m, s))
    /\ Leads(h, Opens(h, m, s), Config(Instants + 1, Prepared(h, m, s), e))

\* Two states differ at most in their listing of funding outcomes.
Like(s, t) == s = [t EXCEPT !.outcomes = s.outcomes]

-----------------------------------------------------------------------------
(* What an operation does depends on nothing that is listed as an outcome.    *)

Fields == {"cash", "principal", "owed", "unpaid", "lots", "satisfied", "books", "outcomes", "failed"}

Twins(s, t) ==
    /\ DOMAIN s = Fields /\ DOMAIN t = Fields
    /\ \A f \in Fields \ {"outcomes"} : s[f] = t[f]

LEMMA PostedAlike ==
    ASSUME NEW s, NEW t, Twins(s, t), NEW book, NEW i, NEW moved
    PROVE  Twins(Posted(s, book, i, moved), Posted(t, book, i, moved))
<1>1. s.cash = t.cash /\ s.books = t.books
    BY DEF Twins, Fields
<1> QED BY <1>1 DEF Twins, Fields, Posted

LEMMA OutcomeAlike ==
    ASSUME NEW s, NEW t, Twins(s, t), NEW i, NEW paid
    PROVE  Twins(Outcome(s, i, paid), Outcome(t, i, paid))
    BY DEF Twins, Fields, Outcome

LEMMA FailAlike == ASSUME NEW s, NEW t, Twins(s, t) PROVE Twins(Fail(s), Fail(t))
    BY DEF Twins, Fields, Fail

LEMMA SeenAlike ==
    ASSUME NEW s, NEW t, Twins(s, t)
    PROVE  /\ s.cash = t.cash /\ s.principal = t.principal /\ s.owed = t.owed
           /\ s.lots = t.lots /\ s.satisfied = t.satisfied /\ s.failed = t.failed
           /\ \A x, amount : /\ Covered(s, x, amount) <=> Covered(t, x, amount)
                             /\ Out(s, x, amount) = Out(t, x, amount)
           /\ \A x : Due(s, x) = Due(t, x)
<1>1. /\ s.cash = t.cash /\ s.principal = t.principal /\ s.owed = t.owed
      /\ s.lots = t.lots /\ s.satisfied = t.satisfied /\ s.failed = t.failed
    BY DEF Twins, Fields
<1>2. \A x, amount : /\ Covered(s, x, amount) <=> Covered(t, x, amount)
                     /\ Out(s, x, amount) = Out(t, x, amount)
    BY <1>1, FundingSeesCash, OutIsDraw
<1>3. \A x : Due(s, x) = Due(t, x)
    BY <1>1 DEF Due
<1> QED BY <1>1, <1>2, <1>3

LEMMA CashWorkAlike ==
    ASSUME NEW s, NEW t, Twins(s, t), NEW i, NEW x
    PROVE  /\ Twins(Income(s, i, x), Income(t, i, x)) /\ Twins(Expense(s, i, x), Expense(t, i, x))
           /\ Twins(Fee(s, i, x), Fee(t, i, x)) /\ Twins(Premium(s, i, x), Premium(t, i, x))
           /\ Twins(Transfer(s, i, x), Transfer(t, i, x))
<1> DEFINE paid == Out(s, x.from, x.amount)
           P(u, m) == Posted(u, "cash_flow", i, m)
<1>1. /\ Covered(s, x.from, x.amount) <=> Covered(t, x.from, x.amount)
      /\ Out(t, x.from, x.amount) = paid
    BY SeenAlike
<1>2. Twins(Income(s, i, x), Income(t, i, x))
    BY PostedAlike DEF Income
<1>3. Twins(Fee(s, i, x), Fee(t, i, x)) /\ Twins(Premium(s, i, x), Premium(t, i, x))
    BY <1>1, PostedAlike, FailAlike DEF Fee, Premium
<1>4. Twins(Transfer(s, i, x), Transfer(t, i, x))
    BY <1>1, PostedAlike, FailAlike DEF Transfer
<1>5. ASSUME NEW u, NEW v, Twins(u, v), NEW amount
      PROVE  Twins([u EXCEPT !.unpaid[i] = @ + amount], [v EXCEPT !.unpaid[i] = @ + amount])
  <2>1. u.unpaid = v.unpaid
    BY <1>5 DEF Twins, Fields
  <2> QED BY <1>5, <2>1 DEF Twins, Fields
<1>6. Twins(Expense(s, i, x), Expense(t, i, x))
  <2>1. Twins(P(s, paid), P(t, paid)) /\ Twins(P(s, Nothing), P(t, Nothing))
    BY PostedAlike
  <2> HIDE DEF paid, P
  <2>2. Twins(Outcome(P(s, paid), i, TRUE), Outcome(P(t, paid), i, TRUE))
    BY <2>1, OutcomeAlike
  <2>3. Twins([P(s, Nothing) EXCEPT !.unpaid[i] = @ + x.amount],
              [P(t, Nothing) EXCEPT !.unpaid[i] = @ + x.amount])
    BY <1>5, <2>1
  <2>4. Twins(Outcome([P(s, Nothing) EXCEPT !.unpaid[i] = @ + x.amount], i, FALSE),
              Outcome([P(t, Nothing) EXCEPT !.unpaid[i] = @ + x.amount], i, FALSE))
    BY <2>3, OutcomeAlike
  <2>5. CASE Covered(s, x.from, x.amount)
    BY <1>1, <2>2, <2>5 DEF Expense, P, paid
  <2>6. CASE ~Covered(s, x.from, x.amount)
    BY <1>1, <2>4, <2>6 DEF Expense, P
  <2> QED BY <2>5, <2>6
<1> QED BY <1>2, <1>3, <1>4, <1>6

LEMMA LotWorkAlike ==
    ASSUME NEW s, NEW t, Twins(s, t), NEW i, NEW x
    PROVE  Twins(Purchase(s, i, x), Purchase(t, i, x)) /\ Twins(Sale(s, i, x), Sale(t, i, x))
<1>1. /\ Covered(s, x.from, x.amount) <=> Covered(t, x.from, x.amount)
      /\ Out(s, x.from, x.amount) = Out(t, x.from, x.amount) /\ s.lots = t.lots
    BY SeenAlike
<1>2. ASSUME NEW u, NEW v, Twins(u, v)
      PROVE  /\ Twins([u EXCEPT !.lots = @ + 1], [v EXCEPT !.lots = @ + 1])
             /\ Twins([u EXCEPT !.lots = @ - 1], [v EXCEPT !.lots = @ - 1])
  <2>1. u.lots = v.lots
    BY <1>2 DEF Twins, Fields
  <2> QED BY <1>2, <2>1 DEF Twins, Fields
<1>3. Twins(Purchase(s, i, x), Purchase(t, i, x))
    BY <1>1, <1>2, PostedAlike, FailAlike DEF Purchase
<1>4. Twins(Sale(s, i, x), Sale(t, i, x))
    BY <1>1, <1>2, PostedAlike, FailAlike DEF Sale
<1> QED BY <1>3, <1>4

LEMMA DebtWorkAlike ==
    ASSUME NEW s, NEW t, Twins(s, t), NEW i, NEW x
    PROVE  Twins(Required(s, i, x), Required(t, i, x)) /\ Twins(Extra(s, i, x), Extra(t, i, x))
<1> DEFINE due == Due(s, x)
           paid == Out(s, x.from, due)
           P(u, m) == Posted(u, "liabilities", i, m)
           S(u) == [P(u, paid) EXCEPT !.principal[x.loan] = @ - due, !.owed[x.loan] = 0,
                                      !.satisfied = @ \cup {x.loan}]
           C(u) == [P(u, Nothing) EXCEPT !.owed[x.loan] = due]
           amount == Min({x.amount, s.principal[x.loan]})
           E(u) == [Posted(u, "additional", i, Out(s, x.from, amount)) EXCEPT
                        !.principal[x.loan] = @ - amount]
<1>1. /\ s.principal = t.principal /\ s.owed = t.owed /\ s.satisfied = t.satisfied
      /\ \A y, n : /\ Covered(s, y, n) <=> Covered(t, y, n)
                   /\ Out(s, y, n) = Out(t, y, n)
      /\ due = Due(t, x)
    BY SeenAlike
<1>2. ASSUME NEW u, NEW v, Twins(u, v), NEW l, NEW n
      PROVE  /\ Twins([u EXCEPT !.principal[l] = @ - n], [v EXCEPT !.principal[l] = @ - n])
             /\ Twins([u EXCEPT !.owed[l] = n], [v EXCEPT !.owed[l] = n])
             /\ Twins([u EXCEPT !.principal[l] = @ - n, !.owed[l] = 0, !.satisfied = @ \cup {l}],
                      [v EXCEPT !.principal[l] = @ - n, !.owed[l] = 0, !.satisfied = @ \cup {l}])
  <2>1. u.principal = v.principal /\ u.owed = v.owed /\ u.satisfied = v.satisfied
    BY <1>2 DEF Twins, Fields
  <2>2. Twins([u EXCEPT !.principal[l] = @ - n], [v EXCEPT !.principal[l] = @ - n])
    BY <1>2, <2>1 DEF Twins, Fields
  <2>3. Twins([u EXCEPT !.owed[l] = n], [v EXCEPT !.owed[l] = n])
    BY <1>2, <2>1 DEF Twins, Fields
  <2>4. Twins([u EXCEPT !.principal[l] = @ - n, !.owed[l] = 0, !.satisfied = @ \cup {l}],
              [v EXCEPT !.principal[l] = @ - n, !.owed[l] = 0, !.satisfied = @ \cup {l}])
    BY <1>2, <2>1 DEF Twins, Fields
  <2> QED BY <2>2, <2>3, <2>4
<1>3. Twins(P(s, paid), P(t, paid)) /\ Twins(P(s, Nothing), P(t, Nothing))
    BY PostedAlike
<1>4. Twins(Outcome(S(s), i, TRUE), Outcome(S(t), i, TRUE))
  <2> HIDE DEF P, due, paid
  <2>1. Twins(S(s), S(t))
    BY <1>2, <1>3
  <2> HIDE DEF S
  <2> QED BY <2>1, OutcomeAlike
<1>5. Twins(Outcome(C(s), i, FALSE), Outcome(C(t), i, FALSE))
  <2> HIDE DEF P, due
  <2>1. Twins(C(s), C(t))
    BY <1>2, <1>3
  <2> HIDE DEF C
  <2> QED BY <2>1, OutcomeAlike
<1>6. Twins(Required(s, i, x), Required(t, i, x))
  <2>1. CASE due = 0
    BY <1>1, <2>1, FailAlike DEF Required
  <2>2. CASE due # 0 /\ Covered(s, x.from, due)
    <3>1. Required(s, i, x) = Outcome(S(s), i, TRUE)
      BY <2>2 DEF Required
    <3>2. Due(t, x) # 0 /\ Covered(t, x.from, Due(t, x)) /\ Out(t, x.from, Due(t, x)) = paid
      BY <1>1, <2>2
    <3>3. Required(t, i, x) = Outcome(S(t), i, TRUE)
      <4>1. Required(t, i, x) =
              Outcome([Posted(t, "liabilities", i, Out(t, x.from, Due(t, x))) EXCEPT
                           !.principal[x.loan] = @ - Due(t, x), !.owed[x.loan] = 0,
                           !.satisfied = @ \cup {x.loan}], i, TRUE)
        BY <3>2 DEF Required
      <4>2. Due(t, x) = due
        BY <1>1
      <4> HIDE DEF due, paid
      <4> QED BY <3>2, <4>1, <4>2
    <3> QED BY <1>4, <3>1, <3>3
  <2>3. CASE due # 0 /\ ~Covered(s, x.from, due)
    <3>1. Required(s, i, x) = Outcome(C(s), i, FALSE)
      BY <2>3 DEF Required
    <3>2. Due(t, x) # 0 /\ ~Covered(t, x.from, Due(t, x))
      BY <1>1, <2>3
    <3>3. Required(t, i, x) = Outcome(C(t), i, FALSE)
      <4>1. Required(t, i, x) =
              Outcome([Posted(t, "liabilities", i, Nothing) EXCEPT !.owed[x.loan] = Due(t, x)],
                      i, FALSE)
        BY <3>2 DEF Required
      <4>2. Due(t, x) = due
        BY <1>1
      <4> HIDE DEF due
      <4> QED BY <4>1, <4>2
    <3> QED BY <1>5, <3>1, <3>3
  <2> QED BY <2>1, <2>2, <2>3
<1>7. Twins(Extra(s, i, x), Extra(t, i, x))
  <2>1. Twins(E(s), E(t))
    <3>1. Twins(Posted(s, "additional", i, Out(s, x.from, amount)),
                Posted(t, "additional", i, Out(s, x.from, amount)))
      BY PostedAlike
    <3> QED BY <1>2, <3>1
  <2> DEFINE skipped(u) == \/ x.loan \notin u.satisfied \/ u.owed[x.loan] > 0
                           \/ amount = 0 \/ ~Covered(u, x.from, amount)
  <2>2. skipped(s) <=> skipped(t)
    BY <1>1
  <2>3. Extra(s, i, x) = IF skipped(s) THEN s ELSE E(s)
    BY DEF Extra
  <2>4. Extra(t, i, x) = IF skipped(t) THEN t ELSE E(t)
    <3>1. amount = Min({x.amount, t.principal[x.loan]}) /\ Out(t, x.from, amount) = Out(s, x.from, amount)
      BY <1>1
    <3> QED BY <3>1 DEF Extra
  <2> HIDE DEF skipped, E
  <2> QED BY <2>1, <2>2, <2>3, <2>4, SMTT(60)
<1> QED BY <1>6, <1>7

LEMMA StepAlike ==
    ASSUME NEW h \in Households, NEW s, NEW t, Twins(s, t), s.failed \in BOOLEAN, NEW i \in DOMAIN h.plan
    PROVE  Twins(Step(h, s, i), Step(h, t, i))
<1> DEFINE x == h.plan[i]
<1>1. s.failed = t.failed
    BY SeenAlike
<1>2. x.kind \in {"expense", "income", "premium", "sale", "fee", "purchase", "transfer",
                  "extra", "required"}
    BY ItemTypes DEF Domain
<1> HIDE DEF x
<1>3. Twins(Operate(s, i, x), Operate(t, i, x))
  <2>1. CASE s.failed
    BY <1>1, <2>1 DEF Operate
  <2>2. CASE ~s.failed /\ x.kind = "expense"
    BY <1>1, <2>2, CashWorkAlike DEF Operate
  <2>3. CASE ~s.failed /\ x.kind = "income"
    BY <1>1, <2>3, CashWorkAlike DEF Operate
  <2>4. CASE ~s.failed /\ x.kind = "premium"
    BY <1>1, <2>4, CashWorkAlike DEF Operate
  <2>5. CASE ~s.failed /\ x.kind = "fee"
    BY <1>1, <2>5, CashWorkAlike DEF Operate
  <2>6. CASE ~s.failed /\ x.kind = "transfer"
    BY <1>1, <2>6, CashWorkAlike DEF Operate
  <2>7. CASE ~s.failed /\ x.kind = "sale"
    BY <1>1, <2>7, LotWorkAlike DEF Operate
  <2>8. CASE ~s.failed /\ x.kind = "purchase"
    BY <1>1, <2>8, LotWorkAlike DEF Operate
  <2>9. CASE ~s.failed /\ x.kind = "required"
    BY <1>1, <2>9, DebtWorkAlike DEF Operate
  <2>10. CASE ~s.failed /\ x.kind = "extra"
    BY <1>1, <2>10, DebtWorkAlike DEF Operate
  <2> QED BY <1>2, <2>1, <2>2, <2>3, <2>4, <2>5, <2>6, <2>7, <2>8, <2>9, <2>10
<1> QED BY <1>3 DEF Step, x

\* Two states of a household are alike in both senses, or in none.
LEMMA LikeIsTwins ==
    ASSUME NEW h, NEW s \in States(h), NEW t \in States(h)
    PROVE  Like(s, t) <=> Twins(s, t)
<1>1. DOMAIN s = Fields /\ DOMAIN t = Fields
    BY DEF States, Fields
<1>2. ASSUME Like(s, t) PROVE Twins(s, t)
    BY <1>1, <1>2 DEF Like, Twins, Fields
<1>3. ASSUME Twins(s, t) PROVE Like(s, t)
  <2> DEFINE o == s.outcomes
             u == [t EXCEPT !.outcomes = o]
  <2>1. o \in Seq(FundingOutcomes(h))
    BY DEF States
  <2> HIDE DEF o
  <2>2. u \in States(h)
    BY <2>1 DEF States
  <2>3. /\ u.cash = t.cash /\ u.principal = t.principal /\ u.owed = t.owed /\ u.unpaid = t.unpaid
        /\ u.lots = t.lots /\ u.satisfied = t.satisfied /\ u.books = t.books
        /\ u.outcomes = o /\ (u.failed = t.failed)
    BY <1>1 DEF Fields
  <2>4. /\ s.cash = t.cash /\ s.principal = t.principal /\ s.owed = t.owed /\ s.unpaid = t.unpaid
        /\ s.lots = t.lots /\ s.satisfied = t.satisfied /\ s.books = t.books
        /\ (s.failed = t.failed)
    BY <1>3 DEF Twins, Fields
  <2> HIDE DEF u
  <2>5. s = u
    BY <2>2, <2>3, <2>4, SameState DEF o
  <2> QED BY <2>5 DEF u, Like, o
<1> QED BY <1>2, <1>3

LEMMA LikeFacts ==
    ASSUME NEW h, NEW s \in States(h), NEW t \in States(h), Like(s, t)
    PROVE  /\ Like(Opened(s), Opened(t))
           /\ Carried(s) = Carried(t) /\ Economics(s) = Economics(t) /\ s.books = t.books
<1>1. /\ s.cash = t.cash /\ s.principal = t.principal /\ s.owed = t.owed /\ s.unpaid = t.unpaid
      /\ s.lots = t.lots /\ s.satisfied = t.satisfied /\ s.books = t.books
      /\ (s.failed = t.failed)
    BY LikeIsTwins DEF Twins, Fields
<1>2. Economics(s) = Economics(t)
    BY <1>1 DEF Economics
<1>3. Carried(s) = Carried(t)
  <2>1. ASSUME NEW u \in States(h)
        PROVE  LET c == Carried(u)
               IN  /\ c \in States(h) /\ c.cash = u.cash /\ c.principal = u.principal
                   /\ c.owed = u.owed /\ c.unpaid = u.unpaid /\ c.lots = u.lots
                   /\ c.satisfied = {} /\ c.books = [b \in Books |-> <<>>]
                   /\ c.outcomes = <<>> /\ (c.failed = u.failed)
    <3> DEFINE c == Carried(u)
    <3>1. /\ c.satisfied = {} /\ c.books = [b \in Books |-> <<>>] /\ c.outcomes = <<>>
          /\ c.cash = u.cash /\ c.principal = u.principal /\ c.owed = u.owed
          /\ c.unpaid = u.unpaid /\ c.lots = u.lots /\ c.failed = u.failed
          /\ c = [u EXCEPT !.satisfied = c.satisfied, !.books = c.books, !.outcomes = c.outcomes]
      BY DEF Carried, States
    <3> HIDE DEF c
    <3>2. c.books \in [Books -> Seq(Entries(h))] /\ c.outcomes \in Seq(FundingOutcomes(h))
      BY <3>1
    <3>3. c \in States(h)
      BY <3>1, <3>2 DEF States
    <3> QED BY <3>1, <3>3 DEF c
  <2> DEFINE c == Carried(s)
             d == Carried(t)
  <2>2. /\ c \in States(h) /\ d \in States(h) /\ c.cash = d.cash /\ c.principal = d.principal
        /\ c.owed = d.owed /\ c.unpaid = d.unpaid /\ c.lots = d.lots /\ c.satisfied = d.satisfied
        /\ c.books = d.books /\ c.outcomes = d.outcomes /\ (c.failed = d.failed)
    BY <1>1, <2>1
  <2> HIDE DEF c, d
  <2>3. c = d
    BY <2>2, SameState
  <2> QED BY <2>3 DEF c, d
<1>4. Like(Opened(s), Opened(t))
  <2>1. Opened(s) \in States(h) /\ Opened(t) \in States(h)
    BY DEF Opened, States
  <2>2. Twins(Opened(s), Opened(t))
    BY LikeIsTwins DEF Twins, Fields, Opened
  <2> QED BY <2>1, <2>2, LikeIsTwins
<1> QED BY <1>1, <1>2, <1>3, <1>4

\* Whatever the summary tier can go through with, the detail tier goes through with too,
\* and to the same end but for the listing of funding outcomes, from every state a replay
\* decides an instant on.
TiersAgree ==
    mode = "replay" /\ phase = "decide" =>
        \A s \in SoundStates(household) :
            Like(s, cand) /\ Passes(household, "summary", s, InstantWork) =>
                /\ Passes(household, "detail", cand, InstantWork)
                /\ Like(Ending(household, "summary", s, InstantWork),
                        Ending(household, "detail", cand, InstantWork))

-----------------------------------------------------------------------------
(* A replay goes through the months of the forecast.                         *)

Shown(m, s) == [month |-> m, end |-> Economics(s), books |-> s.books]

\* The months shown were lived one after the other: month k opened on opening[k], ended
\* with closing[k], and left the opening of the next; the checkpoints are such openings.
Lived(h, shown, roots, opening, closing) ==
    /\ opening[1] = OpeningState(h)
    /\ \A k \in DOMAIN shown :
          /\ Completes(h, k, opening[k], closing[k])
          /\ opening[k + 1] = Carried(closing[k])
          /\ shown[k] = Shown(k, closing[k])
    /\ \A k \in DOMAIN roots :
          roots[k].month \in DOMAIN shown /\ roots[k].state = opening[roots[k].month + 1]

\* How the instant under way ends if the rest of it is executed.
Rest == Execute(household, cand, queue)

\* A forecast is where its instants lead from the committed state.
Forecasting(opening, closing) ==
    LET Came(c) == Leads(household, Opens(household, month, state), c)
    IN  /\ Lived(household, periods, checkpoints, opening, closing)
        /\ opening[Len(periods) + 1] = state
        /\ phase = "sequence" => Came(Config(instant, work, cand))
        /\ phase = "decide" =>
              \E s : Came(Config(instant, work, s)) /\ cand = Opened(s)
        /\ phase = "execute" /\ ~Rest.failed => Came(Config(instant + 1, work, Rest))

\* A replay is on the way to where the forecast came to in the same month.
Replaying(opening, closing) ==
    LET Goes(c) == Leads(household, c, Config(Instants + 1, work, closing[month]))
    IN  /\ Lived(household, forecast, checkpoints, opening, closing)
        /\ window[1] \in 1..window[2] /\ window[2] \in DOMAIN forecast
        /\ phase = "prepare" \/ Middle =>
              /\ month <= window[2] /\ opening[month] = state
              /\ periods = SubSeq(forecast, window[1], month - 1)
        /\ phase = "sequence" =>
              \E s \in SoundStates(household) :
                  Goes(Config(instant, work, s)) /\ Like(s, cand)
        /\ phase = "decide" =>
              \E s \in SoundStates(household) :
                  Goes(Config(instant, work, s)) /\ Like(Opened(s), cand)
        /\ phase = "execute" =>
              /\ ~Rest.failed
              /\ \E s \in SoundStates(household) :
                    Goes(Config(instant + 1, work, s)) /\ Like(s, Rest)
        /\ phase = "completed" => periods = SubSeq(forecast, window[1], window[2])
        /\ phase \notin {"refused", "incomplete", "mismatched"}

RInv ==
    /\ phase = "mismatched" => mode = "replay"
    /\ mode = "forecast" => \E opening, closing : Forecasting(opening, closing)
    /\ mode = "replay" => \E opening, closing : Replaying(opening, closing)

LEMMA ReplayInitially == Init => RInv
<1> SUFFICES ASSUME Init PROVE RInv
    OBVIOUS
<1> DEFINE opening == [k \in Nat |-> OpeningState(household)]
<1>1. opening[1] = OpeningState(household) /\ opening[Len(periods) + 1] = state
    BY DEF Init
<1>2. periods = <<>> /\ checkpoints = <<>> /\ phase = "prepare" /\ mode # "replay"
    BY DEF Init
<1> HIDE DEF opening
<1>3. Forecasting(opening, opening)
    BY <1>1, <1>2 DEF Forecasting, Lived
<1> QED BY <1>2, <1>3 DEF RInv

\* The instant that settles executes to the end the tier decided on.
LEMMA OrderSettles ==
    ASSUME IInv, MInv, OrderInstant
    PROVE  /\ phase = "decide" /\ phase' \in {"execute", "refused"}
           /\ phase' = "execute" => /\ Settles(household, Tier, cand, InstantWork)
                                    /\ Rest' = Ending(household, Tier, cand, InstantWork)
           /\ phase' = "refused" => ~Settles(household, Tier, cand, InstantWork)
           /\ UNCHANGED <<household, mode, month, instant, work, state, cand, periods, forecast,
                          checkpoints, window>>
<1> DEFINE S == InstantWork
           all == GroupsOf(household, S)
           deps == EdgesOf(household, Tier, cand, S, all)
<1>1. /\ phase = "decide" /\ groups = {}
      /\ IF Ordered(S, edges)
         THEN phase' = "execute" /\ queue' = FirstOrder(S, edges)
         ELSE phase' = "refused"
      /\ UNCHANGED <<household, mode, month, instant, work, state, cand, periods, forecast,
                     checkpoints, window>>
    BY DEF OrderInstant, Refuse
<1>2. /\ edges = EdgesOf(household, Tier, cand, S, all \ groups)
      /\ \A group \in all \ groups : Decision(household, Tier, cand, S, group).refusal = "none"
    BY <1>1 DEF MInv, Deciding
<1>3. all \ groups = all
    BY <1>1
<1> HIDE DEF S, all
<1>4. edges = deps /\ \A group \in all : Decision(household, Tier, cand, S, group).refusal = "none"
    BY <1>2, <1>3
<1>5. CASE Ordered(S, edges)
  <2>1. phase' = "execute" /\ Rest' = Execute(household, cand, FirstOrder(S, edges))
    BY <1>1, <1>5 DEF Rest
  <2>2. Settles(household, Tier, cand, S) /\ Rest' = Ending(household, Tier, cand, S)
    BY <1>4, <1>5, <2>1 DEF Settles, Ending, all
  <2> QED BY <1>1, <2>1, <2>2 DEF S
<1>6. CASE ~Ordered(S, edges)
  <2>1. phase' = "refused"
    BY <1>1, <1>6
  <2>2. ~Settles(household, Tier, cand, S)
    BY <1>4, <1>6 DEF Settles, all
  <2> QED BY <1>1, <2>1, <2>2 DEF S
<1> QED BY <1>5, <1>6

\* A work done leaves the rest of the instant to end as it would have.
LEMMA RestKept ==
    ASSUME IInv, ExecuteOperation
    PROVE  /\ phase = "execute" /\ phase' \in {"execute", "refused"}
           /\ phase' = "execute" => Rest' = Rest
           /\ phase' = "refused" => Rest.failed
           /\ UNCHANGED <<household, mode, month, instant, work, state, periods, forecast,
                          checkpoints, window>>
<1> DEFINE s == Step(household, cand, Head(queue))
<1>1. /\ phase = "execute" /\ queue # <<>> /\ cand' = s
      /\ IF s.failed THEN phase' = "refused" ELSE phase' = "execute" /\ queue' = Tail(queue)
      /\ UNCHANGED <<household, mode, month, instant, work, state, periods, forecast,
                     checkpoints, window>>
    BY DEF ExecuteOperation
<1>2. /\ household \in Households /\ cand \in SoundStates(household)
      /\ queue \in Seq(DOMAIN household.plan)
  <2>1. household \in Households /\ work \subseteq DOMAIN household.plan /\ queue \in Seq(work)
    BY DEF IInv, TypeOK
  <2>2. queue \in Seq(DOMAIN household.plan)
    BY <2>1, SeqWithin
  <2> QED BY <2>1, <2>2 DEF IInv, Stored, SoundStates, Sound
<1>3. /\ Tail(queue) \in Seq(DOMAIN household.plan) /\ s \in SoundStates(household)
      /\ Rest = Execute(household, s, Tail(queue))
    BY <1>1, <1>2, ExecuteFirst DEF Rest
<1> HIDE DEF s
<1>4. CASE s.failed
  <2>1. Rest = s
    BY <1>2, <1>3, <1>4, FailureStays
  <2> QED BY <1>1, <1>4, <2>1
<1>5. CASE ~s.failed
  <2>1. Rest' = Rest
    BY <1>1, <1>3, <1>5 DEF Rest
  <2> QED BY <1>1, <1>5, <2>1
<1> QED BY <1>4, <1>5

\* When nothing of the instant is left, the candidate is how it ends.
LEMMA RestDone ==
    ASSUME IInv, MInv, phase = "execute", queue = <<>>
    PROVE  Rest = cand /\ ~Rest.failed
<1>1. household \in Households /\ cand \in SoundStates(household)
    BY DEF IInv, TypeOK, Stored, SoundStates, Sound
<1>2. Rest = cand
    BY <1>1, ExecuteFacts DEF Rest
<1> QED BY <1>2 DEF MInv, Unfailed, Middle

-----------------------------------------------------------------------------
(* A forecast is where its instants lead.                                    *)

LEMMA ForecastContinues ==
    ASSUME IInv, MInv, NEW opening, NEW closing, Forecasting(opening, closing), mode = "forecast",
           Prepare \/ Sequence \/ DecideGroup \/ OrderInstant \/ ExecuteOperation \/ NextInstant
               \/ Abort
    PROVE  Forecasting(opening, closing)'
<1> DEFINE Came(c) == Leads(household, Opens(household, month, state), c)
<1>1. /\ Lived(household, periods, checkpoints, opening, closing)
      /\ opening[Len(periods) + 1] = state
      /\ phase = "sequence" => Came(Config(instant, work, cand))
      /\ phase = "decide" => \E s : Came(Config(instant, work, s)) /\ cand = Opened(s)
      /\ phase = "execute" /\ ~Rest.failed => Came(Config(instant + 1, work, Rest))
    BY DEF Forecasting
<1>2. UNCHANGED <<household, month, state, periods, checkpoints>>
    BY DEF Prepare, Sequence, DecideGroup, OrderInstant, ExecuteOperation, NextInstant, Abort
<1> HIDE DEF Came
<1>3. ASSUME /\ phase' = "sequence" => Came(Config(instant', work', cand'))
             /\ phase' = "decide" => \E s : Came(Config(instant', work', s)) /\ cand' = Opened(s)
             /\ phase' = "execute" /\ ~Rest'.failed => Came(Config(instant' + 1, work', Rest'))
      PROVE  Forecasting(opening, closing)'
    BY <1>1, <1>2, <1>3 DEF Forecasting, Came
<1>4. CASE Prepare
  <2>1. /\ cand' = state /\ instant' = 1 /\ work' = Prepared(household, month, state)
        /\ phase' \in {"sequence", "refused"}
    BY <1>4 DEF Prepare
  <2>2. Config(instant', work', cand') = Opens(household, month, state)
    BY <2>1 DEF Opens
  <2>3. Came(Config(instant', work', cand'))
    BY <2>2, LeadsOn DEF Came
  <2> QED BY <1>3, <2>1, <2>3
<1>5. CASE Sequence
  <2>1. phase = "sequence" /\ phase' = "decide" /\ cand' = Opened(cand) /\ UNCHANGED <<instant, work>>
    BY <1>5 DEF Sequence
  <2> QED BY <1>1, <1>3, <2>1
<1>6. CASE DecideGroup
  <2>1. phase = "decide" /\ phase' \in {"decide", "refused"} /\ UNCHANGED <<instant, work, cand>>
    BY <1>6 DEF DecideGroup, Refuse
  <2> QED BY <1>1, <1>3, <2>1
<1>7. CASE OrderInstant
  <2>1. /\ phase = "decide" /\ phase' \in {"execute", "refused"} /\ UNCHANGED <<instant, work, cand>>
        /\ phase' = "execute" => /\ Settles(household, "summary", cand, InstantWork)
                                 /\ Rest' = Ending(household, "summary", cand, InstantWork)
    BY <1>7, OrderSettles DEF Tier
  <2>2. PICK s : Came(Config(instant, work, s)) /\ cand = Opened(s)
    BY <1>1, <2>1
  <2>3. ASSUME phase' = "execute", ~Rest'.failed
        PROVE  Came(Config(instant + 1, work, Rest'))
    <3>1. Passes(household, "summary", Opened(s), InstantWork)
      BY <2>1, <2>2, <2>3 DEF Passes
    <3>2. instant \in Nat /\ instant <= Instants
      BY InstantsAssumption DEF IInv, TypeOK
    <3>3. /\ ~Final(household, Config(instant, work, s))
          /\ Onward(household, Config(instant, work, s)) = Config(instant + 1, work, Rest')
      BY <2>1, <2>2, <2>3, <3>1, <3>2, ConfigFacts DEF InstantWork
    <3> QED BY <2>2, <3>3, LeadsOn DEF Came
  <2> QED BY <1>3, <2>1, <2>3
<1>8. CASE ExecuteOperation
  <2>1. /\ phase = "execute" /\ phase' \in {"execute", "refused"} /\ UNCHANGED <<instant, work>>
        /\ phase' = "execute" => Rest' = Rest
    BY <1>8, RestKept
  <2> QED BY <1>1, <1>3, <2>1
<1>9. CASE NextInstant
  <2>1. /\ phase = "execute" /\ queue = <<>> /\ phase' = "sequence" /\ instant' = instant + 1
        /\ UNCHANGED <<work, cand>>
    BY <1>9 DEF NextInstant
  <2>2. Rest = cand /\ ~Rest.failed
    BY <2>1, RestDone
  <2> QED BY <1>1, <1>3, <2>1, <2>2
<1>10. CASE Abort
  <2>1. phase' = "incomplete"
    BY <1>10 DEF Abort
  <2> QED BY <1>3, <2>1
<1> QED BY <1>4, <1>5, <1>6, <1>7, <1>8, <1>9, <1>10

-----------------------------------------------------------------------------
(* A replay goes where the forecast went.                                    *)

\* The month a replay is on is one the forecast shows.
LEMMA MonthShown ==
    ASSUME IInv, NEW opening, NEW closing, Replaying(opening, closing), phase = "prepare" \/ Middle
    PROVE  /\ month \in DOMAIN forecast /\ opening[month] = state
           /\ Completes(household, month, state, closing[month])
           /\ opening[month + 1] = Carried(closing[month])
           /\ forecast[month] = Shown(month, closing[month])
<1>1. /\ opening[month] = state /\ month <= window[2] /\ window[2] \in DOMAIN forecast
      /\ DOMAIN forecast = 1..Len(forecast) /\ Len(forecast) \in Nat
    BY DEF Replaying, IInv, Stored
<1>2. month \in Nat /\ month >= 1
    BY DEF IInv, TypeOK
<1>3. month \in DOMAIN forecast
    BY <1>1, <1>2
<1> QED BY <1>1, <1>3 DEF Replaying, Lived

\* An instant the forecast has left behind passed, and its replay is on the way from its end.
LEMMA InstantPassed ==
    ASSUME NEW h, NEW k \in Nat, k <= Instants, NEW w, NEW s, NEW e,
           Leads(h, Config(k, w, s), Config(Instants + 1, w, e))
    PROVE  LET S == At(h, w, k)
           IN  /\ Passes(h, "summary", Opened(s), S)
               /\ Leads(h, Config(k + 1, w, Ending(h, "summary", Opened(s), S)),
                        Config(Instants + 1, w, e))
<1> DEFINE a == Config(k, w, s)
           b == Config(Instants + 1, w, e)
<1>1. Instants \in Nat
    BY InstantsAssumption
<1>2. a # b
  <2>1. a.instant = k /\ b.instant = Instants + 1
    BY DEF Config
  <2> QED BY <1>1, <2>1
<1>3. Final(h, b)
    BY <1>1, ConfigFacts
<1>4. ~Final(h, a)
    BY <1>2, LeadsOn
<1>5. Leads(h, Onward(h, a), b)
    BY <1>3, <1>4, LeadsOn
<1> QED BY <1>4, <1>5, ConfigFacts

LEMMA EndingType ==
    ASSUME IInv, NEW s \in SoundStates(household), NEW tier
    PROVE  Ending(household, tier, s, InstantWork) \in SoundStates(household)
<1> DEFINE o == FirstOrder(InstantWork,
                    EdgesOf(household, tier, s, InstantWork, GroupsOf(household, InstantWork)))
<1>1. household \in Households /\ work \subseteq DOMAIN household.plan
    BY DEF IInv, TypeOK
<1>2. InstantWork \subseteq work /\ InstantWork \in SUBSET Nat /\ IsFiniteSet(InstantWork)
  <2>1. InstantWork \subseteq work /\ IsFiniteSet(InstantWork)
    BY InstantWorkFinite DEF IInv
  <2> QED BY <1>1, <2>1, PlanIsFinite
<1>3. o \in Seq(InstantWork)
    BY <1>2, FirstOrderType
<1>4. o \in Seq(DOMAIN household.plan)
  <2> HIDE DEF o
  <2> QED BY <1>1, <1>2, <1>3, SeqWithin
<1> HIDE DEF o
<1>5. Execute(household, s, o) \in SoundStates(household)
    BY <1>1, <1>4, ExecuteFacts
<1> QED BY <1>5 DEF Ending, o

\* An instant a replay decides goes through, and ends as the forecast's did.
LEMMA DecidedAlike ==
    ASSUME IInv, TiersAgree, mode = "replay", phase = "decide",
           NEW s \in SoundStates(household), NEW e, Like(Opened(s), cand),
           Leads(household, Config(instant, work, s), Config(Instants + 1, work, e))
    PROVE  LET t == Ending(household, "summary", Opened(s), InstantWork)
           IN  /\ t \in SoundStates(household)
               /\ Passes(household, "detail", cand, InstantWork)
               /\ Like(t, Ending(household, "detail", cand, InstantWork))
               /\ Leads(household, Config(instant + 1, work, t), Config(Instants + 1, work, e))
<1>1. instant \in Nat /\ instant <= Instants
    BY InstantsAssumption DEF IInv, TypeOK
<1>2. /\ Passes(household, "summary", Opened(s), InstantWork)
      /\ Leads(household, Config(instant + 1, work, Ending(household, "summary", Opened(s), InstantWork)),
               Config(Instants + 1, work, e))
    BY <1>1, InstantPassed DEF InstantWork
<1>3. household \in Households /\ Opened(s) \in SoundStates(household)
    BY OpenedFacts DEF SoundStates, Sound, IInv, TypeOK
<1>4. Ending(household, "summary", Opened(s), InstantWork) \in SoundStates(household)
    BY <1>3, EndingType
<1> QED BY <1>2, <1>3, <1>4 DEF TiersAgree

LEMMA ReplayContinues ==
    ASSUME IInv, MInv, TiersAgree, NEW opening, NEW closing, Replaying(opening, closing),
           mode = "replay",
           Prepare \/ Sequence \/ DecideGroup \/ OrderInstant \/ ExecuteOperation \/ NextInstant
    PROVE  Replaying(opening, closing)'
<1> DEFINE end == closing[month]
           Goes(w, c) == Leads(household, c, Config(Instants + 1, w, end))
           X == SoundStates(household)
<1>1. /\ Lived(household, forecast, checkpoints, opening, closing)
      /\ window[1] \in 1..window[2] /\ window[2] \in DOMAIN forecast
      /\ phase = "prepare" \/ Middle =>
            /\ month <= window[2] /\ opening[month] = state
            /\ periods = SubSeq(forecast, window[1], month - 1)
      /\ phase = "sequence" =>
            \E s \in X : Goes(work, Config(instant, work, s)) /\ Like(s, cand)
      /\ phase = "decide" =>
            \E s \in X : Goes(work, Config(instant, work, s)) /\ Like(Opened(s), cand)
      /\ phase = "execute" =>
            /\ ~Rest.failed
            /\ \E s \in X : Goes(work, Config(instant + 1, work, s)) /\ Like(s, Rest)
    BY DEF Replaying
<1>2. UNCHANGED <<household, mode, month, state, periods, forecast, checkpoints, window>>
    BY DEF Prepare, Sequence, DecideGroup, OrderInstant, ExecuteOperation, NextInstant
<1>3. phase = "prepare" \/ Middle
    BY DEF Prepare, Sequence, DecideGroup, OrderInstant, ExecuteOperation, NextInstant, Middle
<1>4. ASSUME /\ Middle'
             /\ phase' = "sequence" =>
                   \E s \in X : Goes(work', Config(instant', work', s)) /\ Like(s, cand')
             /\ phase' = "decide" =>
                   \E s \in X : Goes(work', Config(instant', work', s)) /\ Like(Opened(s), cand')
             /\ phase' = "execute" =>
                   /\ ~Rest'.failed
                   /\ \E s \in X : Goes(work', Config(instant' + 1, work', s)) /\ Like(s, Rest')
      PROVE  Replaying(opening, closing)'
  <2>1. phase' \in {"sequence", "decide", "execute"}
    BY <1>4 DEF Middle
  <2>2. closing[month'] = end
    BY <1>2
  <2> QED BY <1>1, <1>2, <1>3, <1>4, <2>1, <2>2 DEF Replaying
<1>5. CASE Prepare
  <2>1. /\ cand' = state /\ instant' = 1 /\ work' = Prepared(household, month, state)
        /\ IF NoPlan(household, work') THEN phase' = "refused" ELSE phase' = "sequence"
    BY <1>5 DEF Prepare
  <2>2. Completes(household, month, state, end)
    BY <1>3, MonthShown
  <2>3. phase' = "sequence" /\ Goes(work', Config(instant', work', state))
    BY <2>1, <2>2 DEF Completes, Opens
  <2>4. state \in X /\ Like(state, cand')
    BY <2>1 DEF Like, IInv, Stored, SoundStates, Sound, States
  <2> HIDE DEF Goes
  <2> QED BY <1>4, <2>3, <2>4 DEF Middle
<1>6. CASE Sequence
  <2>1. phase = "sequence" /\ phase' = "decide" /\ cand' = Opened(cand) /\ UNCHANGED <<instant, work>>
    BY <1>6 DEF Sequence
  <2> HIDE DEF Goes
  <2>2. PICK s \in X : Goes(work, Config(instant, work, s)) /\ Like(s, cand)
    BY <1>1, <2>1
  <2>3. Like(Opened(s), cand')
    <3>1. cand \in States(household) /\ s \in States(household)
      BY <2>2 DEF IInv, Stored, Sound, SoundStates
    <3> QED BY <2>1, <2>2, <3>1, LikeFacts
  <2> QED BY <1>4, <2>1, <2>2, <2>3 DEF Middle
<1>7. CASE DecideGroup
  <2>1. phase = "decide" /\ UNCHANGED <<instant, work, cand>>
    BY <1>7 DEF DecideGroup
  <2>2. PICK s \in X : Goes(work, Config(instant, work, s)) /\ Like(Opened(s), cand)
    BY <1>1, <2>1
  <2>3. Passes(household, "detail", cand, InstantWork)
    BY <2>1, <2>2, DecidedAlike
  <2>4. Tier = "detail"
    BY DEF Tier
  <2>5. PICK group \in groups :
          LET decision == Decision(household, Tier, cand, InstantWork, group)
          IN  decision.refusal = "none" => UNCHANGED <<phase, refusal, queue>>
    BY <1>7, DecideAlone
  <2>6. group \in GroupsOf(household, InstantWork)
    BY <2>1 DEF MInv, Deciding
  <2>7. phase' = "decide"
    BY <2>1, <2>3, <2>4, <2>5, <2>6 DEF Passes, Settles
  <2> HIDE DEF Goes
  <2> QED BY <1>4, <2>1, <2>2, <2>7 DEF Middle
<1>8. CASE OrderInstant
  <2>1. /\ phase = "decide" /\ phase' \in {"execute", "refused"} /\ UNCHANGED <<instant, work, cand>>
        /\ phase' = "execute" => Rest' = Ending(household, "detail", cand, InstantWork)
        /\ phase' = "refused" => ~Settles(household, "detail", cand, InstantWork)
    BY <1>8, OrderSettles DEF Tier
  <2>2. PICK s \in X : Goes(work, Config(instant, work, s)) /\ Like(Opened(s), cand)
    BY <1>1, <2>1
  <2>3. LET t == Ending(household, "summary", Opened(s), InstantWork)
        IN  /\ Passes(household, "detail", cand, InstantWork)
            /\ Like(t, Ending(household, "detail", cand, InstantWork))
            /\ t \in X /\ Goes(work, Config(instant + 1, work, t))
    BY <2>1, <2>2, DecidedAlike
  <2>4. phase' = "execute" /\ ~Rest'.failed
    BY <2>1, <2>3 DEF Passes
  <2> HIDE DEF Goes
  <2> QED BY <1>4, <2>1, <2>3, <2>4 DEF Middle
<1>9. CASE ExecuteOperation
  <2>1. /\ phase = "execute" /\ phase' \in {"execute", "refused"} /\ UNCHANGED <<instant, work>>
        /\ phase' = "execute" => Rest' = Rest
        /\ phase' = "refused" => Rest.failed
    BY <1>9, RestKept
  <2> HIDE DEF Goes
  <2>2. phase' = "execute"
    BY <1>1, <2>1
  <2> QED BY <1>1, <1>4, <2>1, <2>2 DEF Middle
<1>10. CASE NextInstant
  <2>1. /\ phase = "execute" /\ queue = <<>> /\ phase' = "sequence" /\ instant' = instant + 1
        /\ UNCHANGED <<work, cand>>
    BY <1>10 DEF NextInstant
  <2>2. Rest = cand
    BY <2>1, RestDone
  <2> HIDE DEF Goes
  <2> QED BY <1>1, <1>4, <2>1, <2>2 DEF Middle
<1> QED BY <1>5, <1>6, <1>7, <1>8, <1>9, <1>10

\* Month m comes after those shown.
IsNext(ps, m) == m = Len(ps) + 1

\* The checkpoints in more are those in roots and what month m left, ended with e.
Rooted(more, roots, m, e) ==
    \A k \in DOMAIN more :
        \/ k \in DOMAIN roots /\ more[k] = roots[k]
        \/ more[k].month = m /\ more[k].state = Carried(e)

\* The month that a forecast commits was lived after the others.
LEMMA MonthLived ==
    ASSUME NEW h, NEW T, NEW ps \in Seq(T), NEW roots, NEW more, NEW opening, NEW closing,
           Lived(h, ps, roots, opening, closing),
           NEW m, IsNext(ps, m), NEW e, Completes(h, m, opening[m], e),
           Rooted(more, roots, m, e)
    PROVE  \E next, last :
              /\ Lived(h, Append(ps, Shown(m, e)), more, next, last)
              /\ next[m + 1] = Carried(e)
<1> DEFINE qs == Append(ps, Shown(m, e))
           next == [k \in Nat |-> IF k = m + 1 THEN Carried(e) ELSE opening[k]]
           last == [k \in Nat |-> IF k = m THEN e ELSE closing[k]]
<1>1. /\ m \in Nat /\ m >= 1 /\ DOMAIN ps = 1..(m - 1) /\ DOMAIN qs = 1..m /\ qs[m] = Shown(m, e)
      /\ \A k \in 1..(m - 1) : qs[k] = ps[k]
    BY DEF IsNext
<1>2. /\ \A k \in 1..m : next[k] = opening[k]
      /\ \A k \in 1..(m - 1) : last[k] = closing[k]
      /\ next[m + 1] = Carried(e) /\ last[m] = e
    BY <1>1
<1> HIDE DEF next, last, qs
<1>3. next[1] = OpeningState(h)
    BY <1>1, <1>2 DEF Lived
<1>4. ASSUME NEW k \in DOMAIN qs
      PROVE  /\ Completes(h, k, next[k], last[k]) /\ next[k + 1] = Carried(last[k])
             /\ qs[k] = Shown(k, last[k])
  <2>1. CASE k = m
    <3>1. Completes(h, m, next[m], last[m])
      BY <1>1, <1>2
    <3> QED BY <1>1, <1>2, <2>1, <3>1
  <2>2. CASE k # m
    <3>1. k \in 1..(m - 1) /\ k \in DOMAIN ps /\ k \in 1..m /\ k + 1 \in 1..m
      BY <1>1, <1>4, <2>2
    <3>2. /\ Completes(h, k, opening[k], closing[k]) /\ opening[k + 1] = Carried(closing[k])
          /\ ps[k] = Shown(k, closing[k])
      BY <3>1 DEF Lived
    <3> QED BY <1>1, <1>2, <3>1, <3>2
  <2> QED BY <2>1, <2>2
<1>5. ASSUME NEW k \in DOMAIN more
      PROVE  more[k].month \in DOMAIN qs /\ more[k].state = next[more[k].month + 1]
  <2>1. CASE k \in DOMAIN roots /\ more[k] = roots[k]
    <3>1. roots[k].month \in 1..(m - 1) /\ roots[k].state = opening[roots[k].month + 1]
      BY <1>1, <2>1 DEF Lived
    <3>2. roots[k].month \in 1..m /\ roots[k].month + 1 \in 1..m
      BY <1>1, <3>1
    <3> QED BY <1>1, <1>2, <2>1, <3>1, <3>2
  <2>2. CASE more[k].month = m /\ more[k].state = Carried(e)
    BY <1>1, <1>2, <2>2
  <2> QED BY <1>5, <2>1, <2>2 DEF Rooted
<1>6. Lived(h, qs, more, next, last)
    BY <1>3, <1>4, <1>5 DEF Lived
<1> QED BY <1>2, <1>6 DEF qs

\* Nothing is in a window that ends before it begins.
LEMMA WindowEmpty ==
    ASSUME NEW f, NEW a \in Nat, NEW m \in Nat, m < a PROVE SubSeq(f, a, m) = <<>>
<1>1. 1..(m - a + 1) = {}
    OBVIOUS
<1> QED BY <1>1 DEF SubSeq

\* A window that reaches one month further.
LEMMA WindowGrows ==
    ASSUME NEW T, NEW f \in Seq(T), NEW a \in Nat, a >= 1, NEW m \in DOMAIN f
    PROVE  /\ m < a => SubSeq(f, a, m) = SubSeq(f, a, m - 1)
           /\ a <= m => SubSeq(f, a, m) = Append(SubSeq(f, a, m - 1), f[m])
<1>1. m \in Nat /\ m >= 1 /\ m <= Len(f) /\ Len(f) \in Nat
    OBVIOUS
<1>2. ASSUME m < a PROVE SubSeq(f, a, m) = SubSeq(f, a, m - 1)
  <2>1. m - 1 \in Nat /\ m - 1 < a
    BY <1>1, <1>2
  <2> QED BY <1>1, <1>2, <2>1, WindowEmpty
<1>3. ASSUME a <= m PROVE SubSeq(f, a, m) = Append(SubSeq(f, a, m - 1), f[m])
  <2> DEFINE g == SubSeq(f, a, m - 1)
             n == m - a
  <2>1. /\ n \in Nat /\ g \in Seq(T) /\ Len(g) = n /\ \A i \in 1..n : g[i] = f[a + i - 1]
    BY <1>1, <1>3
  <2>2. SubSeq(f, a, m) = [i \in 1..(n + 1) |-> f[a + i - 1]]
    BY <1>1, <1>3
  <2>3. Append(g, f[m]) = [i \in 1..(n + 1) |-> IF i = n + 1 THEN f[m] ELSE g[i]]
    <3> DEFINE e == f[m]
               x == Append(g, e)
    <3>1. e \in T
      OBVIOUS
    <3> HIDE DEF g, n, e
    <3>2. x \in Seq(T) /\ Len(x) = n + 1 /\ x[n + 1] = e /\ \A i \in 1..n : x[i] = g[i]
      BY <2>1, <3>1
    <3>3. \A i \in 1..(n + 1) : i = n + 1 \/ i \in 1..n
      BY <2>1
    <3> HIDE DEF x
    <3>4. x = [i \in 1..(n + 1) |-> x[i]]
      BY <2>1, <3>2
    <3>5. \A i \in 1..(n + 1) : x[i] = IF i = n + 1 THEN e ELSE g[i]
      BY <2>1, <3>2, <3>3
    <3>6. x = [i \in 1..(n + 1) |-> IF i = n + 1 THEN e ELSE g[i]]
      BY <3>4, <3>5
    <3> QED BY <3>6 DEF x, e
  <2>4. \A i \in 1..(n + 1) : f[a + i - 1] = IF i = n + 1 THEN f[m] ELSE g[i]
    <3> TAKE i \in 1..(n + 1)
    <3>1. i = n + 1 => a + i - 1 = m
      BY <1>1
    <3>2. i # n + 1 => i \in 1..n
      BY <2>1
    <3> HIDE DEF g, n
    <3> QED BY <2>1, <3>1, <3>2
  <2> HIDE DEF g, n
  <2>5. SubSeq(f, a, m) = Append(g, f[m])
    BY <2>2, <2>3, <2>4
  <2> QED BY <2>5 DEF g
<1> QED BY <1>2, <1>3

LEMMA CommitKeepsReplay == ASSUME IInv, MInv, RInv, Commit PROVE RInv'
<1>1. /\ phase = "execute" /\ queue = <<>> /\ instant = Instants /\ state' = Carried(cand)
      /\ periods' = IF mode = "replay" /\ month < window[1] THEN periods
                    ELSE Append(periods, Summary(cand))
      /\ checkpoints' = IF /\ mode = "forecast"
                           /\ (Len(periods) + 1) % CheckpointEvery = 0 /\ month < Months
                        THEN Append(checkpoints, Checkpoint(state'))
                        ELSE checkpoints
      /\ IF month = LastMonth
         THEN phase' = "completed" /\ UNCHANGED month
         ELSE phase' = "prepare" /\ month' = month + 1
      /\ UNCHANGED <<household, mode, forecast, window>>
    BY DEF Commit
<1>2. Summary(cand) = Shown(month, cand) /\ Checkpoint(state') = [month |-> month, state |-> state']
    BY DEF Summary, Shown, Checkpoint
<1>3. Rest = cand /\ ~Rest.failed
    BY <1>1, RestDone
<1>4. work = Prepared(household, month, state) /\ ~NoPlan(household, work)
    BY <1>1 DEF MInv, Planned, Middle
<1>5. month \in Nat /\ month >= 1
    BY DEF IInv, TypeOK
<1>6. ASSUME mode = "forecast" PROVE \E opening, closing : Forecasting(opening, closing)'
  <2>1. PICK opening, closing : Forecasting(opening, closing)
    BY <1>6 DEF RInv
  <2>2. /\ Lived(household, periods, checkpoints, opening, closing)
        /\ opening[month] = state /\ month = Len(periods) + 1
        /\ Leads(household, Opens(household, month, state), Config(Instants + 1, work, cand))
    <3>1. Len(periods) = month - 1 /\ periods \in Seq(Summaries(household))
      BY <1>1, <1>6 DEF IInv, Calendar, Stored
    <3>2. month = Len(periods) + 1
      BY <1>5, <3>1
    <3> QED BY <1>1, <1>3, <2>1, <3>2 DEF Forecasting
  <2>3. Completes(household, month, opening[month], cand)
    BY <1>4, <2>2 DEF Completes
  <2>4. \A k \in DOMAIN checkpoints' :
            \/ k \in DOMAIN checkpoints /\ checkpoints'[k] = checkpoints[k]
            \/ checkpoints'[k].month = month /\ checkpoints'[k].state = Carried(cand)
    <3>1. CASE checkpoints' = checkpoints
      BY <3>1
    <3>2. CASE checkpoints' = Append(checkpoints, Checkpoint(state'))
      <4> DEFINE c == Checkpoint(state')
      <4>1. checkpoints \in Seq(Roots(household)) /\ c.month = month /\ c.state = Carried(cand)
        BY <1>1, <1>2 DEF IInv, Stored
      <4> HIDE DEF c
      <4>2. \A k \in DOMAIN Append(checkpoints, c) :
                \/ k \in DOMAIN checkpoints /\ Append(checkpoints, c)[k] = checkpoints[k]
                \/ Append(checkpoints, c)[k] = c
        BY <4>1
      <4> QED BY <3>2, <4>1, <4>2 DEF c
    <3> QED BY <1>1, <3>1, <3>2
  <2>5. periods' = Append(periods, Shown(month, cand))
    BY <1>1, <1>2, <1>6
  <2>6. PICK next, last :
            /\ Lived(household, Append(periods, Shown(month, cand)), checkpoints', next, last)
            /\ next[month + 1] = Carried(cand)
    <3> DEFINE T == Summaries(household)
               more == checkpoints'
               e == cand
               m == month
               ps == periods
    <3>1. ps \in Seq(T)
      BY DEF IInv, Stored
    <3>2. /\ Lived(household, ps, checkpoints, opening, closing) /\ IsNext(ps, m)
          /\ Completes(household, m, opening[m], e)
          /\ Rooted(more, checkpoints, m, e)
      BY <2>2, <2>3, <2>4 DEF IsNext, Rooted
    <3> HIDE DEF T, more, e, m, ps
    <3>3. \E next, last :
              /\ Lived(household, Append(ps, Shown(m, e)), more, next, last)
              /\ next[m + 1] = Carried(e)
      BY <3>1, <3>2, MonthLived
    <3> QED BY <3>3 DEF more, e, m, ps
  <2>7. Len(periods') = month /\ next[Len(periods') + 1] = state'
    <3>1. periods \in Seq(Summaries(household))
      BY DEF IInv, Stored
    <3>2. Len(periods') = Len(periods) + 1
      BY <2>5, <3>1
    <3> QED BY <1>1, <2>2, <2>6, <3>2
  <2>8. Forecasting(next, last)'
    BY <1>1, <2>5, <2>6, <2>7 DEF Forecasting
  <2> QED BY <2>8
<1>7. ASSUME mode = "replay" PROVE \E opening, closing : Replaying(opening, closing)'
  <2>1. PICK opening, closing : Replaying(opening, closing)
    BY <1>7 DEF RInv
  <2>2. /\ month <= window[2] /\ window[1] \in 1..window[2] /\ window[2] \in DOMAIN forecast
        /\ periods = SubSeq(forecast, window[1], month - 1)
        /\ Lived(household, forecast, checkpoints, opening, closing)
        /\ month \in DOMAIN forecast
        /\ opening[month + 1] = Carried(closing[month])
        /\ forecast[month] = Shown(month, closing[month])
    BY <1>1, <2>1, MonthShown DEF Replaying, Middle
  <2>3. window[1] \in Nat /\ window[1] >= 1 /\ window[1] <= window[2] /\ window[2] \in Nat
    <3>1. DOMAIN forecast = 1..Len(forecast) /\ Len(forecast) \in Nat
      BY DEF IInv, Stored
    <3> QED BY <1>5, <2>2, <3>1
  <2>4. closing[month] \in States(household) /\ Like(closing[month], cand)
    <3>1. PICK s \in SoundStates(household) :
              /\ Leads(household, Config(Instants + 1, work, s),
                       Config(Instants + 1, work, closing[month]))
              /\ Like(s, cand)
      BY <1>1, <1>3, <2>1 DEF Replaying
    <3>2. Final(household, Config(Instants + 1, work, s))
      <4>1. Instants \in Nat /\ Instants + 1 \in Nat /\ ~(Instants + 1 <= Instants)
        BY InstantsAssumption
      <4> QED BY <4>1, ConfigFacts
    <3>3. Config(Instants + 1, work, s) = Config(Instants + 1, work, closing[month])
      BY <3>1, <3>2, LeadsOn
    <3>4. s = closing[month]
      <4>1. \A t : Config(Instants + 1, work, t).cand = t
        BY DEF Config
      <4> HIDE DEF Config
      <4> QED BY <3>3, <4>1
    <3> QED BY <3>1, <3>4 DEF SoundStates
  <2>5. forecast[month] = Summary(cand) /\ state' = opening[month + 1]
    <3>1. cand \in States(household)
      BY DEF IInv, Stored, Sound
    <3>2. /\ Carried(closing[month]) = Carried(cand)
          /\ Economics(closing[month]) = Economics(cand) /\ closing[month].books = cand.books
      BY <2>4, <3>1, LikeFacts
    <3> QED BY <1>1, <1>2, <2>2, <3>2 DEF Shown
  <2>6. periods' = SubSeq(forecast, window[1], month)
    <3> DEFINE T == Summaries(household)
               a == window[1]
    <3>1. forecast \in Seq(T) /\ a \in Nat /\ a >= 1
      BY <2>3 DEF IInv, Stored
    <3>2. periods' = IF month < a THEN periods ELSE Append(periods, forecast[month])
      BY <1>1, <1>7, <2>5
    <3>3. periods = SubSeq(forecast, a, month - 1)
      BY <2>2
    <3> HIDE DEF T, a
    <3>4. /\ month < a => SubSeq(forecast, a, month) = SubSeq(forecast, a, month - 1)
          /\ a <= month => SubSeq(forecast, a, month) = Append(SubSeq(forecast, a, month - 1), forecast[month])
      BY <2>2, <3>1, WindowGrows
    <3>5. month < a \/ a <= month
      BY <1>5, <3>1
    <3>6. periods' = SubSeq(forecast, a, month)
      <4>1. CASE month < a
        BY <3>2, <3>3, <3>4, <4>1
      <4>2. CASE ~(month < a)
        BY <3>2, <3>3, <3>4, <3>5, <4>2
      <4> QED BY <4>1, <4>2
    <3> QED BY <3>6 DEF a
  <2>7. LastMonth = window[2]
    BY <1>7 DEF LastMonth
  <2>8. CASE month = window[2]
    <3>1. phase' = "completed" /\ periods' = SubSeq(forecast, window[1], window[2])
      BY <1>1, <2>6, <2>7, <2>8
    <3>2. Lived(household, forecast, checkpoints', opening, closing)
      BY <1>1, <1>7, <2>2
    <3>3. Replaying(opening, closing)'
      BY <1>1, <2>2, <3>1, <3>2 DEF Replaying, Middle
    <3> QED BY <3>3
  <2>9. CASE month # window[2]
    <3>1. /\ phase' = "prepare" /\ month' = month + 1 /\ month' <= window[2]
          /\ month' - 1 = month /\ opening[month'] = state'
      BY <1>1, <1>5, <2>2, <2>3, <2>5, <2>7, <2>9
    <3>2. Lived(household, forecast, checkpoints', opening, closing)
      BY <1>1, <1>7, <2>2
    <3>3. periods' = SubSeq(forecast, window[1], month' - 1)
      BY <2>6, <3>1
    <3>4. Replaying(opening, closing)'
      BY <1>1, <2>2, <3>1, <3>2, <3>3 DEF Replaying
    <3> QED BY <3>4
  <2> QED BY <2>8, <2>9
<1> QED BY <1>1, <1>6, <1>7 DEF RInv

LEMMA VerifyKeepsReplay == ASSUME IInv, RInv, Verify PROVE RInv'
<1>1. /\ mode = "replay" /\ phase \in {"completed", "incomplete"}
      /\ phase' = IF periods = SubSeq(forecast, window[1], window[2]) THEN "verified" ELSE "mismatched"
      /\ UNCHANGED <<household, mode, month, state, periods, forecast, checkpoints, window>>
    BY DEF Verify
<1>2. PICK opening, closing : Replaying(opening, closing)
    BY <1>1 DEF RInv
<1>3. phase' = "verified"
    BY <1>1, <1>2 DEF Replaying
<1>4. Replaying(opening, closing)'
    BY <1>1, <1>2, <1>3 DEF Replaying, Middle
<1> QED BY <1>1, <1>4 DEF RInv

LEMMA StartKeepsReplay == ASSUME IInv, RInv, StartReplay PROVE RInv'
<1>1. PICK first \in DOMAIN periods, end \in DOMAIN periods, roots \in {checkpoints, <<>>} :
        LET usable == Usable(roots, first, end)
            root == roots[Max(usable)]
        IN  /\ first <= end
            /\ window' = <<first, end>>
            /\ IF usable = {}
               THEN month' = 1 /\ state' = OpeningState(household)
               ELSE month' = root.month + 1 /\ state' = root.state
    BY DEF StartReplay
<1> DEFINE usable == Usable(roots, first, end)
           root == roots[Max(usable)]
<1>2. /\ UNCHANGED <<household, checkpoints>>
      /\ mode = "forecast" /\ mode' = "replay" /\ phase' = "prepare"
      /\ forecast' = periods /\ periods' = <<>>
    BY DEF StartReplay
<1>3. PICK opening, closing : Forecasting(opening, closing)
    BY <1>2 DEF RInv
<1>4. Lived(household, periods, checkpoints, opening, closing)
    BY <1>3 DEF Forecasting
<1>5. /\ first \in Nat /\ first >= 1 /\ end \in Nat /\ first <= end /\ end \in DOMAIN periods
      /\ window' = <<first, end>>
  <2>1. DOMAIN periods \subseteq 1..Months
    BY <1>2, MonthsRetained
  <2> QED BY <1>1, <2>1
<1>6. month' \in Nat /\ month' - 1 \in Nat /\ month' <= first /\ opening[month'] = state'
  <2>1. CASE usable = {}
    <3>1. month' = 1 /\ state' = OpeningState(household)
      BY <1>1, <2>1
    <3> QED BY <1>4, <1>5, <3>1 DEF Lived
  <2>2. CASE usable # {}
    <3>1. month' = root.month + 1 /\ state' = root.state
      BY <1>1, <2>2
    <3>2. roots = checkpoints
      BY <1>1, <2>2 DEF Usable
    <3>3. usable \in SUBSET Nat /\ usable \subseteq 0..Len(checkpoints) /\ Len(checkpoints) \in Nat
      BY <3>2 DEF Usable, IInv, Stored
    <3>4. Max(usable) \in usable
      <4> HIDE DEF usable
      <4> QED BY <2>2, <3>3, MaxIsMember
    <3>5. Max(usable) \in DOMAIN checkpoints /\ root.month < first
      BY <3>2, <3>4 DEF Usable
    <3>6. root.month \in Nat /\ root.state = opening[root.month + 1]
      <4>1. checkpoints[Max(usable)].month \in 1..(Months - 1)
        BY <3>5 DEF IInv, TypeOK
      <4>2. checkpoints[Max(usable)].state = opening[checkpoints[Max(usable)].month + 1]
        BY <1>4, <3>5 DEF Lived
      <4> QED BY <3>2, <4>1, <4>2
    <3> HIDE DEF root
    <3>7. root.month + 1 <= first /\ root.month + 1 \in Nat /\ (root.month + 1) - 1 \in Nat
      BY <1>5, <3>5, <3>6
    <3> QED BY <3>1, <3>6, <3>7
  <2> QED BY <2>1, <2>2
<1>7. periods' = SubSeq(forecast', window'[1], month' - 1)
  <2>1. month' - 1 < first
    BY <1>5, <1>6
  <2>2. SubSeq(periods, first, month' - 1) = <<>>
    BY <1>5, <1>6, <2>1, WindowEmpty
  <2> QED BY <1>2, <1>5, <2>2
<1>8. Replaying(opening, closing)'
  <2>1. window'[1] \in 1..window'[2] /\ window'[2] \in DOMAIN forecast' /\ month' <= window'[2]
    BY <1>2, <1>5, <1>6
  <2> QED BY <1>2, <1>4, <1>6, <1>7, <2>1 DEF Replaying, Middle
<1> QED BY <1>2, <1>8 DEF RInv

LEMMA ReplayInductive == ASSUME IInv, MInv, RInv, TiersAgree, [Next]_vars PROVE RInv'
<1>1. CASE UNCHANGED vars
  <2>1. UNCHANGED <<household, mode, phase, month, instant, work, queue, state, cand, periods,
                    forecast, checkpoints, window>>
    BY <1>1 DEF vars
  <2>2. (Middle' <=> Middle) /\ Rest' = Rest
    BY <2>1 DEF Middle, Rest
  <2>3. ASSUME NEW opening, NEW closing, Forecasting(opening, closing)
        PROVE  Forecasting(opening, closing)'
    BY <2>1, <2>2, <2>3 DEF Forecasting
  <2>4. ASSUME NEW opening, NEW closing, Replaying(opening, closing)
        PROVE  Replaying(opening, closing)'
    BY <2>1, <2>2, <2>4 DEF Replaying
  <2> QED BY <2>1, <2>3, <2>4 DEF RInv
<1>2. ASSUME Prepare \/ Sequence \/ DecideGroup \/ OrderInstant \/ ExecuteOperation \/ NextInstant
                 \/ Abort
      PROVE  RInv'
  <2>1. UNCHANGED mode /\ phase' # "mismatched"
    <3>1. CASE DecideGroup
      BY <3>1 DEF DecideGroup, Refuse
    <3> QED BY <1>2, <3>1 DEF Prepare, Sequence, OrderInstant, ExecuteOperation, NextInstant, Abort, Refuse
  <2>2. ASSUME mode = "forecast" PROVE \E opening, closing : Forecasting(opening, closing)'
    <3>1. PICK opening, closing : Forecasting(opening, closing)
      BY <2>2 DEF RInv
    <3>2. Forecasting(opening, closing)'
      BY <1>2, <2>2, <3>1, ForecastContinues
    <3> QED BY <3>2
  <2>3. ASSUME mode = "replay" PROVE \E opening, closing : Replaying(opening, closing)'
    <3>1. PICK opening, closing : Replaying(opening, closing)
      BY <2>3 DEF RInv
    <3>2. ~Abort
      BY <3>1 DEF Abort, Replaying
    <3>3. Replaying(opening, closing)'
      BY <1>2, <2>3, <3>1, <3>2, ReplayContinues
    <3> QED BY <3>3
  <2> QED BY <2>1, <2>2, <2>3 DEF RInv
<1> QED BY <1>1, <1>2, CommitKeepsReplay, StartKeepsReplay, VerifyKeepsReplay DEF Next

\* Wherever the two tiers agree, a replay reproduces what the forecast displayed, to the
\* last balance, claim, lot and posting: from any checkpoint before its window or from the
\* opening, for every window, and with no month of it refused: without the exception that
\* the property makes for works listed together in one tier.
THEOREM ReplayIsExact ==
    Spec /\ []TiersAgree => [](ReplayReproduces /\ phase # "mismatched")
<1>1. IInv /\ MInv /\ [Next]_vars => MInv'
    BY MonthInductive
<1>2. IInv /\ MInv /\ RInv /\ TiersAgree /\ [Next]_vars => RInv'
    BY ReplayInductive
<1>3. RInv => ReplayReproduces /\ phase # "mismatched"
  <2> SUFFICES ASSUME RInv PROVE phase # "mismatched"
    BY DEF ReplayReproduces
  <2>1. CASE mode = "replay"
    BY <2>1 DEF RInv, Replaying
  <2>2. CASE mode # "replay"
    BY <2>2 DEF RInv
  <2> QED BY <2>1, <2>2
<1> QED BY Invariance, MonthInitially, ReplayInitially, <1>1, <1>2, <1>3, PTL DEF Spec

\* And so they stay, whatever is executed on both.
LEMMA ExecuteAlike ==
    ASSUME NEW h \in Households, NEW s \in SoundStates(h), NEW t \in SoundStates(h), Like(s, t),
           NEW o \in Seq(DOMAIN h.plan)
    PROVE  Like(Execute(h, s, o), Execute(h, t, o))
<1> DEFINE D == DOMAIN h.plan
           n == Len(o)
           K == {k \in 0..n : \A q \in Seq(D) : Len(q) = k => Twins(Execute(h, s, q), Execute(h, t, q))}
<1>0. n \in Nat /\ Twins(s, t)
    BY LikeIsTwins DEF SoundStates
<1> HIDE DEF n
<1>1. 0 \in K
  <2>1. \A q \in Seq(D) : Len(q) = 0 => q = <<>>
    OBVIOUS
  <2>2. Execute(h, s, <<>>) = s /\ Execute(h, t, <<>>) = t
    BY ExecuteFacts
  <2> QED BY <1>0, <2>1, <2>2
<1>2. ASSUME NEW k \in 0..n, k < n, k \in K PROVE k + 1 \in K
  <2>1. ASSUME NEW q \in Seq(D), Len(q) = k + 1 PROVE Twins(Execute(h, s, q), Execute(h, t, q))
    <3>0. k \in Nat
      BY <1>0
    <3>1. PICK p \in Seq(D) : \E i \in D : Len(p) = k /\ q = Append(p, i)
      <4> HIDE DEF D
      <4> QED BY <2>1, <3>0, SequenceFront
    <3>2. PICK i \in D : Len(p) = k /\ q = Append(p, i)
      BY <3>1
    <3> DEFINE a == Execute(h, s, p)
               b == Execute(h, t, p)
    <3>3. Twins(a, b)
      BY <1>2, <3>2
    <3>4. a \in SoundStates(h)
      BY ExecuteFacts
    <3>5. a.failed \in BOOLEAN
      BY <3>4 DEF SoundStates, States
    <3> HIDE DEF a, b
    <3>6. Twins(Step(h, a, i), Step(h, b, i))
      BY <3>3, <3>5, StepAlike
    <3> QED BY <3>2, <3>6, ExecuteFacts DEF a, b
  <2>2. k + 1 \in 0..n
    BY <1>0, <1>2
  <2> QED BY <2>1, <2>2
<1> HIDE DEF K
<1>3. \A k \in 0..n : k \in K
    BY <1>0, <1>1, <1>2, Induction
<1>4. n \in K
    BY <1>0, <1>3
<1>5. Twins(Execute(h, s, o), Execute(h, t, o))
    BY <1>4 DEF K, n
<1>6. Execute(h, s, o) \in States(h) /\ Execute(h, t, o) \in States(h)
    BY ExecuteFacts DEF SoundStates
<1> QED BY <1>5, <1>6, LikeIsTwins

\* In an instant that a replay sequences every group of contenders commutes.
CommutingGroups ==
    mode = "replay" /\ phase = "decide" =>
        \A group \in GroupsOf(household, InstantWork) : Commute(household, cand, group)

\* Such groups are decided alike by both tiers: nothing is added to what the works declare.
LEMMA NothingDecided ==
    ASSUME NEW h, NEW S, NEW s, \A group \in GroupsOf(h, S) : Commute(h, s, group), NEW tier
    PROVE  /\ Settles(h, tier, s, S) <=> Ordered(S, ExplicitEdges(h, S))
           /\ Ending(h, tier, s, S) = Execute(h, s, FirstOrder(S, ExplicitEdges(h, S)))
<1>1. \A group \in GroupsOf(h, S) : Decision(h, tier, s, S, group) = Settled({})
    BY DEF Decision, Decide
<1>2. \A group \in GroupsOf(h, S) : /\ Decision(h, tier, s, S, group).edges = {}
                                    /\ Decision(h, tier, s, S, group).refusal = "none"
    BY <1>1 DEF Settled
<1>3. EdgesOf(h, tier, s, S, GroupsOf(h, S)) = ExplicitEdges(h, S)
  <2>1. UNION {Decision(h, tier, s, S, group).edges : group \in GroupsOf(h, S)} = {}
    BY <1>2
  <2> QED BY <2>1 DEF EdgesOf
<1> QED BY <1>2, <1>3 DEF Settles, Ending

\* Whether a group commutes does not depend on the outcomes listed.
LEMMA CommuteAlike ==
    ASSUME NEW h, NEW s, NEW t, Twins(s, t), NEW group
    PROVE  Commute(h, s, group) <=> Commute(h, t, group)
<1>1. s.cash = t.cash /\ \A x : Due(s, x) = Due(t, x)
    BY SeenAlike
<1>2. \A sources : Pool(s, sources) = Pool(t, sources)
    BY <1>1 DEF Pool
<1> QED BY <1>1, <1>2 DEF Commute

\* Where all contention is between works that commute, an income beside a service its
\* source covers or a transfer inside a pool that cannot pay, the replay of a window
\* reproduces what the forecast displayed, with no assumption about the tiers.
THEOREM CommutingReplayIsExact ==
    Spec /\ []CommutingGroups => [](ReplayReproduces /\ phase # "mismatched")
<1>1. IInv /\ CommutingGroups => TiersAgree
  <2> SUFFICES ASSUME IInv, CommutingGroups, mode = "replay", phase = "decide",
                      NEW s \in SoundStates(household), Like(s, cand),
                      Passes(household, "summary", s, InstantWork)
               PROVE  /\ Passes(household, "detail", cand, InstantWork)
                      /\ Like(Ending(household, "summary", s, InstantWork),
                              Ending(household, "detail", cand, InstantWork))
    BY DEF TiersAgree
  <2> DEFINE o == FirstOrder(InstantWork, ExplicitEdges(household, InstantWork))
             all == GroupsOf(household, InstantWork)
  <2>1. household \in Households /\ cand \in SoundStates(household)
    BY DEF IInv, TypeOK, Stored, SoundStates, Sound
  <2>2. Twins(s, cand)
    BY <2>1, LikeIsTwins DEF SoundStates
  <2>3. \A group \in all : Commute(household, cand, group) /\ Commute(household, s, group)
    BY <2>2, CommuteAlike DEF CommutingGroups
  <2>4. /\ Settles(household, "detail", cand, InstantWork)
        /\ Ending(household, "summary", s, InstantWork) = Execute(household, s, o)
        /\ Ending(household, "detail", cand, InstantWork) = Execute(household, cand, o)
    <3>1. \A tier : /\ Settles(household, tier, s, InstantWork)
                          <=> Ordered(InstantWork, ExplicitEdges(household, InstantWork))
                    /\ Ending(household, tier, s, InstantWork) = Execute(household, s, o)
      BY <2>3, NothingDecided
    <3>2. \A tier : /\ Settles(household, tier, cand, InstantWork)
                          <=> Ordered(InstantWork, ExplicitEdges(household, InstantWork))
                    /\ Ending(household, tier, cand, InstantWork) = Execute(household, cand, o)
      BY <2>3, NothingDecided
    <3> QED BY <3>1, <3>2 DEF Passes
  <2>5. o \in Seq(DOMAIN household.plan)
    <3>1. InstantWork \subseteq DOMAIN household.plan /\ IsFiniteSet(InstantWork)
      BY InstantWorkFinite DEF IInv, TypeOK
    <3>2. InstantWork \in SUBSET Nat
      BY <2>1, <3>1, PlanIsFinite
    <3>3. o \in Seq(InstantWork)
      BY <3>1, <3>2, FirstOrderType
    <3> HIDE DEF o
    <3> QED BY <3>1, <3>3, SeqWithin
  <2> HIDE DEF o
  <2>6. Like(Execute(household, s, o), Execute(household, cand, o))
    BY <2>1, <2>5, ExecuteAlike
  <2>7. Execute(household, cand, o) \in States(household)
    BY <2>1, <2>5, ExecuteFacts DEF SoundStates
  <2>8. ~Execute(household, s, o).failed
    BY <2>4 DEF Passes
  <2>9. ~Execute(household, cand, o).failed
    <3>1. Execute(household, s, o) \in States(household)
      BY <2>1, <2>5, ExecuteFacts DEF SoundStates
    <3>2. Twins(Execute(household, s, o), Execute(household, cand, o))
      BY <2>6, <2>7, <3>1, LikeIsTwins
    <3> QED BY <2>8, <3>2, SeenAlike
  <2> QED BY <2>4, <2>6, <2>9 DEF Passes
<1> QED BY Invariance, ReplayIsExact, <1>1, PTL

\* Nothing of an instant that a replay sequences needs the tier: no works contend for the
\* same cash.
Uncontended ==
    mode = "replay" /\ phase = "decide" =>
        Contenders(household, InstantWork, ExplicitEdges(household, InstantWork)) = {}

LEMMA NoGroups ==
    ASSUME NEW h, NEW S, Contenders(h, S, ExplicitEdges(h, S)) = {} PROVE GroupsOf(h, S) = {}
<1>1. IsFiniteSet(Contenders(h, S, ExplicitEdges(h, S)))
    BY FS_EmptySet
<1>2. UNION GroupsOf(h, S) = {} /\ {} \notin GroupsOf(h, S)
    BY <1>1, GroupsArePartition DEF GroupsOf
<1> QED BY <1>2

\* In particular where no works contend.
THEOREM UncontendedReplayIsExact ==
    Spec /\ []Uncontended => [](ReplayReproduces /\ phase # "mismatched")
<1>1. Uncontended => CommutingGroups
    BY NoGroups DEF Uncontended, CommutingGroups
<1> QED BY CommutingReplayIsExact, <1>1, PTL

-----------------------------------------------------------------------------
(* What a work does: its effect on what a state is worth.                    *)

DebtKinds == {"required", "extra"}
PayingIn == {"income", "sale", "transfer"}

\* The cash a work asks for, and whether it is paid.
Asked(s, x) ==
    IF x.kind = "required" THEN Due(s, x)
    ELSE IF x.kind = "extra" THEN Min({x.amount, s.principal[x.loan]})
    ELSE x.amount
Skips(s, x) ==
    x.kind = "extra" /\ (x.loan \notin s.satisfied \/ s.owed[x.loan] > 0 \/ Asked(s, x) = 0)
Pays(s, x) == x.kind \notin {"income", "sale"} /\ ~Skips(s, x) /\ Covered(s, x.from, Asked(s, x))

\* An investment operation or a premium without its cash throws, a sale without a lot,
\* and a service of which nothing is due.
Throws(s, x) ==
    \/ x.kind \in {"fee", "purchase", "transfer", "premium"} /\ ~Pays(s, x)
    \/ x.kind = "sale" /\ s.lots = 0
    \/ x.kind = "required" /\ Due(s, x) = 0

\* What it adds to an account, to a claim and to the lots, what it repays of a loan, what
\* is due on a loan then, and whether the loan's service is satisfied.
Moves(s, x, a) ==
    (IF Pays(s, x) THEN Out(s, x.from, Asked(s, x))[a] ELSE 0)
        + (IF x.kind \in PayingIn THEN Into(x.to, x.amount)[a] ELSE 0)
Claims(s, x) == IF x.kind = "expense" /\ ~Pays(s, x) THEN x.amount ELSE 0
Trades(x) == IF x.kind = "purchase" THEN 1 ELSE IF x.kind = "sale" THEN -1 ELSE 0
Repays(s, x, l) == IF x.kind \in DebtKinds /\ l = x.loan /\ Pays(s, x) THEN Asked(s, x) ELSE 0
Owes(s, x, l) ==
    IF x.kind = "required" /\ l = x.loan THEN IF Pays(s, x) THEN 0 ELSE Due(s, x) ELSE s.owed[l]
Satisfies(s, x, l) == x.kind = "required" /\ l = x.loan /\ Pays(s, x)

HasEffect(h, s, i, t) ==
    LET x == h.plan[i]
    IN  /\ t.failed <=> Throws(s, x)
        /\ ~Throws(s, x) =>
              /\ \A a \in Accounts : t.cash[a] = s.cash[a] + Moves(s, x, a)
              /\ \A l \in Loans : /\ t.principal[l] = s.principal[l] - Repays(s, x, l)
                                  /\ t.owed[l] = Owes(s, x, l)
                                  /\ l \in t.satisfied <=> l \in s.satisfied \/ Satisfies(s, x, l)
              /\ \A k \in DOMAIN h.plan :
                    t.unpaid[k] = s.unpaid[k] + (IF k = i THEN Claims(s, x) ELSE 0)
              /\ t.lots = s.lots + Trades(x)

\* Every account of a payment and of a credit is one.
LEMMA MovedTypes ==
    ASSUME NEW h \in Households, NEW s, Sound(h, s), NEW i \in DOMAIN h.plan
    PROVE  /\ Asked(s, h.plan[i]) \in Nat
           /\ Out(s, h.plan[i].from, Asked(s, h.plan[i])) \in [Accounts -> Int]
           /\ \A a \in Accounts : s.cash[a] + Out(s, h.plan[i].from, Asked(s, h.plan[i]))[a] \in Nat
           /\ Into(h.plan[i].to, h.plan[i].amount) \in [Accounts -> Nat]
           /\ \A a \in Accounts : s.cash[a] \in Nat
<1> DEFINE x == h.plan[i]
<1>1. x.amount \in Nat /\ x.from \in Seq(Accounts)
    BY ItemTypes
<1>2. Asked(s, x) \in Nat
  <2>1. CASE x.kind = "required"
    BY <2>1, DueIsOwed DEF Asked
  <2>2. CASE x.kind = "extra"
    <3>1. x.loan \in Loans
      BY <2>2, ItemTypes
    <3>2. s.principal[x.loan] \in Nat
      BY <3>1 DEF Sound, States
    <3> QED BY <1>1, <2>2, <3>2, MinOfTwo DEF Asked
  <2>3. CASE x.kind # "required" /\ x.kind # "extra"
    BY <1>1, <2>3 DEF Asked
  <2> QED BY <2>1, <2>2, <2>3
<1>3. Out(s, x.from, Asked(s, x)) \in [Accounts -> Int]
    BY <1>1, <1>2, Movements
<1>4. \A a \in Accounts : s.cash[a] + Out(s, x.from, Asked(s, x))[a] \in Nat
    BY <1>1, <1>2, Movements
<1>5. Into(x.to, x.amount) \in [Accounts -> Nat]
    BY <1>1, Credits
<1>6. \A a \in Accounts : s.cash[a] \in Nat
    BY DEF Sound, States
<1> QED BY <1>2, <1>3, <1>4, <1>5, <1>6

\* A state that differs from s in its cash, its claims and its lots alone.
Moved(h, s, i, t, moved, claim, lots) ==
    /\ (t.failed = FALSE) /\ t.principal = s.principal /\ t.owed = s.owed /\ t.satisfied = s.satisfied
    /\ \A a \in Accounts : t.cash[a] = s.cash[a] + moved[a]
    /\ \A k \in DOMAIN h.plan : t.unpaid[k] = s.unpaid[k] + (IF k = i THEN claim ELSE 0)
    /\ t.lots = s.lots + lots

LEMMA MovedHasEffect ==
    ASSUME NEW h \in Households, NEW s, Sound(h, s), NEW i \in DOMAIN h.plan,
           h.plan[i].kind \notin DebtKinds, ~Throws(s, h.plan[i]), NEW t, NEW moved,
           \A a \in Accounts : moved[a] = Moves(s, h.plan[i], a),
           Moved(h, s, i, t, moved, Claims(s, h.plan[i]), Trades(h.plan[i]))
    PROVE  HasEffect(h, s, i, t)
<1> DEFINE x == h.plan[i]
<1>1. \A l \in Loans : /\ Repays(s, x, l) = 0 /\ Owes(s, x, l) = s.owed[l] /\ ~Satisfies(s, x, l)
                       /\ s.principal[l] \in Nat
    BY DEF Repays, Owes, Satisfies, DebtKinds, Sound, States
<1>2. \A l \in Loans : /\ t.principal[l] = s.principal[l] - Repays(s, x, l)
                       /\ t.owed[l] = Owes(s, x, l)
                       /\ l \in t.satisfied <=> l \in s.satisfied \/ Satisfies(s, x, l)
    BY <1>1 DEF Moved
<1>3. ~t.failed
    BY DEF Moved
<1>4. /\ \A a \in Accounts : t.cash[a] = s.cash[a] + Moves(s, x, a)
      /\ \A k \in DOMAIN h.plan : t.unpaid[k] = s.unpaid[k] + (IF k = i THEN Claims(s, x) ELSE 0)
      /\ t.lots = s.lots + Trades(x)
    BY DEF Moved
<1> QED BY <1>2, <1>3, <1>4 DEF HasEffect

LEMMA ThrownHasEffect ==
    ASSUME NEW h \in Households, NEW s, Sound(h, s), NEW i, Throws(s, h.plan[i])
    PROVE  HasEffect(h, s, i, Fail(s))
<1>1. Fail(s).failed
    BY FailFails DEF Sound
<1> QED BY <1>1 DEF HasEffect

\* A posting, and what is changed after it.
LEMMA PostingMoves ==
    ASSUME NEW h \in Households, NEW s, Sound(h, s), ~s.failed, NEW i \in DOMAIN h.plan,
           NEW book \in Books, NEW moved \in [Accounts -> Int],
           \A a \in Accounts : s.cash[a] + moved[a] \in Nat
    PROVE  LET t == Posted(s, book, i, moved)
           IN  /\ Sound(h, t) /\ Moved(h, s, i, t, moved, 0, 0)
               /\ \A paid \in BOOLEAN : Moved(h, s, i, Outcome(t, i, paid), moved, 0, 0)
               /\ \A claim \in Nat : \A paid \in BOOLEAN :
                     Moved(h, s, i, Outcome([t EXCEPT !.unpaid[i] = @ + claim], i, paid),
                           moved, claim, 0)
               /\ Moved(h, s, i, [t EXCEPT !.lots = @ + 1], moved, 0, 1)
               /\ s.lots > 0 => Moved(h, s, i, [t EXCEPT !.lots = @ - 1], moved, 0, -1)
<1> DEFINE t == Posted(s, book, i, moved)
<1>1. Sound(h, t)
    BY PostedFacts
<1>2. IsPosted(t, s, book, i, moved)
    BY PostedFields DEF Sound
<1>3. s \in States(h) /\ t \in States(h) /\ (s.failed = FALSE)
    BY <1>1 DEF Sound, States
<1> HIDE DEF t
<1>4. /\ (t.failed = FALSE) /\ t.principal = s.principal /\ t.owed = s.owed
      /\ t.satisfied = s.satisfied /\ t.lots = s.lots /\ t.unpaid = s.unpaid
      /\ \A a \in Accounts : t.cash[a] = s.cash[a] + moved[a]
    BY <1>2, <1>3 DEF IsPosted
<1>5. s.lots \in Nat /\ s.unpaid \in [DOMAIN h.plan -> Nat]
    BY <1>3 DEF States
<1>6. \A k \in DOMAIN h.plan : t.unpaid[k] = s.unpaid[k] + (IF k = i THEN 0 ELSE 0)
    BY <1>4, <1>5
<1>7. Moved(h, s, i, t, moved, 0, 0)
    BY <1>4, <1>5, <1>6 DEF Moved
<1>8. ASSUME NEW paid \in BOOLEAN PROVE Moved(h, s, i, Outcome(t, i, paid), moved, 0, 0)
  <2> DEFINE o == Outcome(t, i, paid)
  <2>1. /\ (o.failed = t.failed) /\ o.principal = t.principal /\ o.owed = t.owed
        /\ o.satisfied = t.satisfied /\ o.lots = t.lots /\ o.unpaid = t.unpaid /\ o.cash = t.cash
    BY <1>3 DEF Outcome, States
  <2> HIDE DEF o
  <2>2. Moved(h, s, i, o, moved, 0, 0)
    BY <1>4, <1>6, <1>7, <2>1 DEF Moved
  <2> QED BY <2>2 DEF o
<1>9. ASSUME NEW claim \in Nat, NEW paid \in BOOLEAN
      PROVE  Moved(h, s, i, Outcome([t EXCEPT !.unpaid[i] = @ + claim], i, paid), moved, claim, 0)
  <2> DEFINE u == [t EXCEPT !.unpaid[i] = @ + claim]
             o == Outcome(u, i, paid)
  <2>1. /\ (u.failed = t.failed) /\ u.principal = t.principal /\ u.owed = t.owed
        /\ u.satisfied = t.satisfied /\ u.lots = t.lots /\ u.cash = t.cash
        /\ u.unpaid = [t.unpaid EXCEPT ![i] = @ + claim]
        /\ DOMAIN u = Fields
    BY <1>3 DEF States, Fields
  <2> HIDE DEF u
  <2>2. /\ (o.failed = u.failed) /\ o.principal = u.principal /\ o.owed = u.owed
        /\ o.satisfied = u.satisfied /\ o.lots = u.lots /\ o.unpaid = u.unpaid /\ o.cash = u.cash
    BY <2>1 DEF Outcome, Fields
  <2>3. \A k \in DOMAIN h.plan : o.unpaid[k] = s.unpaid[k] + (IF k = i THEN claim ELSE 0)
    BY <1>4, <1>5, <2>1, <2>2
  <2> HIDE DEF o
  <2>4. Moved(h, s, i, o, moved, claim, 0)
    BY <1>4, <1>5, <2>1, <2>2, <2>3 DEF Moved
  <2> QED BY <2>4 DEF o, u
<1>10. Moved(h, s, i, [t EXCEPT !.lots = @ + 1], moved, 0, 1)
  <2> DEFINE u == [t EXCEPT !.lots = @ + 1]
  <2>1. /\ (u.failed = t.failed) /\ u.principal = t.principal /\ u.owed = t.owed
        /\ u.satisfied = t.satisfied /\ u.unpaid = t.unpaid /\ u.cash = t.cash
        /\ u.lots = t.lots + 1
    BY <1>3 DEF States
  <2> HIDE DEF u
  <2>2. Moved(h, s, i, u, moved, 0, 1)
    BY <1>4, <1>7, <2>1 DEF Moved
  <2> QED BY <2>2 DEF u
<1>11. ASSUME s.lots > 0 PROVE Moved(h, s, i, [t EXCEPT !.lots = @ - 1], moved, 0, -1)
  <2> DEFINE u == [t EXCEPT !.lots = @ - 1]
  <2>1. /\ (u.failed = t.failed) /\ u.principal = t.principal /\ u.owed = t.owed
        /\ u.satisfied = t.satisfied /\ u.unpaid = t.unpaid /\ u.cash = t.cash
        /\ u.lots = t.lots - 1
    BY <1>3 DEF States
  <2>0. u.lots = s.lots + (-1)
    BY <1>4, <1>5, <2>1
  <2> HIDE DEF u
  <2>2. Moved(h, s, i, u, moved, 0, -1)
    BY <1>4, <1>7, <2>0, <2>1 DEF Moved
  <2> QED BY <2>2 DEF u
<1> QED BY <1>1, <1>7, <1>8, <1>9, <1>10, <1>11 DEF t

\* Each kind of work has its effect.
LEMMA CashEffects ==
    ASSUME NEW h \in Households, NEW s, Sound(h, s), ~s.failed, NEW i \in DOMAIN h.plan
    PROVE  /\ h.plan[i].kind = "income" => HasEffect(h, s, i, Income(s, i, h.plan[i]))
           /\ h.plan[i].kind = "expense" => HasEffect(h, s, i, Expense(s, i, h.plan[i]))
           /\ h.plan[i].kind = "fee" => HasEffect(h, s, i, Fee(s, i, h.plan[i]))
           /\ h.plan[i].kind = "premium" => HasEffect(h, s, i, Premium(s, i, h.plan[i]))
           /\ h.plan[i].kind = "purchase" => HasEffect(h, s, i, Purchase(s, i, h.plan[i]))
           /\ h.plan[i].kind = "transfer" => HasEffect(h, s, i, Transfer(s, i, h.plan[i]))
           /\ h.plan[i].kind = "sale" => HasEffect(h, s, i, Sale(s, i, h.plan[i]))
<1> DEFINE x == h.plan[i]
           out == Out(s, x.from, x.amount)
           in == Into(x.to, x.amount)
           both == [a \in Accounts |-> out[a] + in[a]]
<1>1. /\ x.amount \in Nat
      /\ Asked(s, x) \in Nat /\ Out(s, x.from, Asked(s, x)) \in [Accounts -> Int]
      /\ \A a \in Accounts : s.cash[a] + Out(s, x.from, Asked(s, x))[a] \in Nat
      /\ in \in [Accounts -> Nat] /\ \A a \in Accounts : s.cash[a] \in Nat
    BY MovedTypes, ItemTypes
<1>2. Nothing \in [Accounts -> Int] /\ \A a \in Accounts : Nothing[a] = 0
    BY DEF Nothing
<1>3. "cash_flow" \in Books /\ "investments" \in Books /\ "additional" \in Books /\ s.lots \in Nat
    BY DEF Books, Sound, States
<1>4. ASSUME x.kind \notin DebtKinds
      PROVE  /\ Asked(s, x) = x.amount /\ out \in [Accounts -> Int]
             /\ \A a \in Accounts : s.cash[a] + out[a] \in Nat
             /\ Pays(s, x) <=> x.kind \notin {"income", "sale"} /\ Covered(s, x.from, x.amount)
             /\ \A a \in Accounts : Moves(s, x, a) = (IF Pays(s, x) THEN out[a] ELSE 0)
                                        + (IF x.kind \in PayingIn THEN in[a] ELSE 0)
  <2>1. Asked(s, x) = x.amount
    BY <1>4 DEF Asked, DebtKinds
  <2>2. out \in [Accounts -> Int] /\ \A a \in Accounts : s.cash[a] + out[a] \in Nat
    BY <1>1, <2>1
  <2>3. Pays(s, x) <=> x.kind \notin {"income", "sale"} /\ Covered(s, x.from, x.amount)
    BY <1>4, <2>1 DEF Pays, Skips, DebtKinds
  <2> QED BY <2>1, <2>2, <2>3 DEF Moves
<1> HIDE DEF out, in
<1>5. CASE x.kind = "income"
  <2>1. x.kind \notin DebtKinds /\ ~Throws(s, x) /\ Claims(s, x) = 0 /\ Trades(x) = 0
    BY <1>5 DEF DebtKinds, Throws, Claims, Trades
  <2>2. \A a \in Accounts : in[a] = Moves(s, x, a)
    BY <1>1, <1>4, <1>5, <2>1 DEF PayingIn
  <2>3. in \in [Accounts -> Int] /\ \A a \in Accounts : s.cash[a] + in[a] \in Nat
    BY <1>1
  <2>4. Moved(h, s, i, Posted(s, "cash_flow", i, in), in, 0, 0)
    BY <1>1, <1>3, <2>3, PostingMoves
  <2>5. HasEffect(h, s, i, Posted(s, "cash_flow", i, in))
    BY <2>1, <2>2, <2>4, MovedHasEffect
  <2> QED BY <1>5, <2>5 DEF Income, in
<1>6. CASE x.kind = "expense"
  <2>1. x.kind \notin DebtKinds /\ ~Throws(s, x) /\ Trades(x) = 0
    BY <1>6 DEF DebtKinds, Throws, Trades
  <2>2. CASE Covered(s, x.from, x.amount)
    <3>1. Pays(s, x) /\ Claims(s, x) = 0
      BY <1>4, <1>6, <2>1, <2>2 DEF Claims
    <3>2. \A a \in Accounts : out[a] = Moves(s, x, a)
      BY <1>4, <1>6, <2>1, <3>1 DEF PayingIn
    <3>3. Moved(h, s, i, Outcome(Posted(s, "cash_flow", i, out), i, TRUE), out, 0, 0)
      BY <1>3, <1>4, <2>1, PostingMoves
    <3>4. HasEffect(h, s, i, Outcome(Posted(s, "cash_flow", i, out), i, TRUE))
      BY <2>1, <3>1, <3>2, <3>3, MovedHasEffect
    <3> QED BY <1>6, <2>2, <3>4 DEF Expense, out
  <2>3. CASE ~Covered(s, x.from, x.amount)
    <3>1. ~Pays(s, x) /\ Claims(s, x) = x.amount
      BY <1>4, <1>6, <2>1, <2>3 DEF Claims
    <3>2. \A a \in Accounts : Nothing[a] = Moves(s, x, a)
      BY <1>2, <1>4, <1>6, <2>1, <3>1 DEF PayingIn
    <3> DEFINE u == Outcome([Posted(s, "cash_flow", i, Nothing) EXCEPT !.unpaid[i] = @ + x.amount],
                            i, FALSE)
    <3>3. \A a \in Accounts : s.cash[a] + Nothing[a] \in Nat
      BY <1>1, <1>2
    <3>4. Moved(h, s, i, u, Nothing, x.amount, 0)
      BY <1>1, <1>2, <1>3, <3>3, PostingMoves
    <3> HIDE DEF u
    <3>5. HasEffect(h, s, i, u)
      BY <2>1, <3>1, <3>2, <3>4, MovedHasEffect
    <3> QED BY <1>6, <2>3, <3>5 DEF Expense, u
  <2> QED BY <2>2, <2>3
<1>7. CASE x.kind \in {"fee", "premium", "purchase", "transfer"} /\ ~Covered(s, x.from, x.amount)
  <2>1. x.kind \notin DebtKinds
    BY <1>7 DEF DebtKinds
  <2>2. Throws(s, x)
    BY <1>4, <1>7, <2>1 DEF Throws
  <2>3. HasEffect(h, s, i, Fail(s))
    BY <2>2, ThrownHasEffect
  <2> QED BY <1>7, <2>3 DEF Fee, Premium, Purchase, Transfer
<1>8. CASE x.kind \in {"fee", "premium", "purchase"} /\ Covered(s, x.from, x.amount)
  <2>1. x.kind \notin DebtKinds /\ Claims(s, x) = 0
    BY <1>8 DEF DebtKinds, Claims
  <2>2. Pays(s, x) /\ ~Throws(s, x)
    BY <1>4, <1>8, <2>1 DEF Throws
  <2>3. \A a \in Accounts : out[a] = Moves(s, x, a)
    BY <1>4, <1>8, <2>1, <2>2 DEF PayingIn
  <2>4. ASSUME NEW book \in Books
        PROVE  /\ Moved(h, s, i, Posted(s, book, i, out), out, 0, 0)
               /\ Moved(h, s, i, [Posted(s, book, i, out) EXCEPT !.lots = @ + 1], out, 0, 1)
    BY <1>4, <2>1, PostingMoves
  <2>5. CASE x.kind \in {"fee", "premium"}
    <3>1. Trades(x) = 0
      BY <2>5 DEF Trades
    <3>2. \A book \in Books : HasEffect(h, s, i, Posted(s, book, i, out))
      BY <2>1, <2>2, <2>3, <2>4, <3>1, MovedHasEffect
    <3> QED BY <1>3, <1>8, <2>5, <3>2 DEF Fee, Premium, out
  <2>6. CASE x.kind = "purchase"
    <3>1. Trades(x) = 1
      BY <2>6 DEF Trades
    <3>2. HasEffect(h, s, i, [Posted(s, "investments", i, out) EXCEPT !.lots = @ + 1])
      BY <1>3, <2>1, <2>2, <2>3, <2>4, <3>1, MovedHasEffect
    <3> QED BY <1>8, <2>6, <3>2 DEF Purchase, out
  <2> QED BY <1>8, <2>5, <2>6
<1>9. CASE x.kind = "transfer" /\ Covered(s, x.from, x.amount)
  <2>1. x.kind \notin DebtKinds /\ Claims(s, x) = 0 /\ Trades(x) = 0
    BY <1>9 DEF DebtKinds, Claims, Trades
  <2>2. Pays(s, x) /\ ~Throws(s, x)
    BY <1>4, <1>9, <2>1 DEF Throws
  <2>3. /\ both \in [Accounts -> Int]
        /\ \A a \in Accounts : both[a] = out[a] + in[a] /\ s.cash[a] + both[a] \in Nat
    BY <1>1, <1>4, <2>1
  <2>4. Transfer(s, i, x) = Posted(s, "investments", i, both)
    BY <1>9 DEF Transfer, out, in
  <2> HIDE DEF both
  <2>5. \A a \in Accounts : both[a] = Moves(s, x, a)
    BY <1>4, <1>9, <2>1, <2>2, <2>3 DEF PayingIn
  <2>6. Moved(h, s, i, Posted(s, "investments", i, both), both, 0, 0)
    BY <1>3, <2>3, PostingMoves
  <2>7. HasEffect(h, s, i, Posted(s, "investments", i, both))
    BY <2>1, <2>2, <2>5, <2>6, MovedHasEffect
  <2> QED BY <1>9, <2>4, <2>7
<1>10. CASE x.kind = "sale"
  <2>1. x.kind \notin DebtKinds /\ Claims(s, x) = 0 /\ Trades(x) = -1
    BY <1>10 DEF DebtKinds, Claims, Trades
  <2>2. CASE s.lots = 0
    <3>1. Throws(s, x)
      BY <1>10, <2>2 DEF Throws
    <3> QED BY <1>10, <2>2, <3>1, ThrownHasEffect DEF Sale
  <2>3. CASE s.lots # 0
    <3>1. ~Throws(s, x) /\ s.lots > 0
      BY <1>3, <1>10, <2>3 DEF Throws
    <3>2. \A a \in Accounts : in[a] = Moves(s, x, a)
      BY <1>1, <1>4, <1>10, <2>1 DEF PayingIn
    <3>3. in \in [Accounts -> Int] /\ \A a \in Accounts : s.cash[a] + in[a] \in Nat
      BY <1>1
    <3>4. Moved(h, s, i, [Posted(s, "additional", i, in) EXCEPT !.lots = @ - 1], in, 0, -1)
      BY <1>1, <1>3, <3>1, <3>3, PostingMoves
    <3>5. HasEffect(h, s, i, [Posted(s, "additional", i, in) EXCEPT !.lots = @ - 1])
      BY <2>1, <3>1, <3>2, <3>4, MovedHasEffect
    <3> QED BY <1>10, <2>3, <3>5 DEF Sale, in
  <2> QED BY <2>2, <2>3
<1> QED BY <1>5, <1>6, <1>7, <1>8, <1>9, <1>10

LEMMA DebtEffects ==
    ASSUME NEW h \in Households, NEW s, Sound(h, s), ~s.failed, NEW i \in DOMAIN h.plan
    PROVE  /\ h.plan[i].kind = "required" => HasEffect(h, s, i, Required(s, i, h.plan[i]))
           /\ h.plan[i].kind = "extra" => HasEffect(h, s, i, Extra(s, i, h.plan[i]))
<1> DEFINE x == h.plan[i]
           asked == Asked(s, x)
           out == Out(s, x.from, asked)
<1>1. /\ asked \in Nat /\ out \in [Accounts -> Int]
      /\ \A a \in Accounts : s.cash[a] + out[a] \in Nat
      /\ \A a \in Accounts : s.cash[a] \in Nat
    BY MovedTypes
<1>2. Nothing \in [Accounts -> Int] /\ \A a \in Accounts : Nothing[a] = 0
    BY DEF Nothing
<1>3. /\ s \in States(h) /\ s.principal \in [Loans -> Nat] /\ s.owed \in [Loans -> Nat]
      /\ s.satisfied \in SUBSET Loans /\ s.unpaid \in [DOMAIN h.plan -> Nat] /\ s.lots \in Nat
      /\ (s.failed = FALSE)
    BY DEF Sound, States
<1>4. ASSUME x.kind \in DebtKinds
      PROVE  /\ x.loan \in Loans /\ Claims(s, x) = 0 /\ Trades(x) = 0
             /\ \A a \in Accounts : Moves(s, x, a) = IF Pays(s, x) THEN out[a] ELSE 0
  <2>1. x.loan \in Loans
    BY <1>4, ItemTypes DEF DebtKinds
  <2>2. Claims(s, x) = 0 /\ Trades(x) = 0 /\ x.kind \notin PayingIn
    BY <1>4 DEF DebtKinds, Claims, Trades, PayingIn
  <2>3. \A a \in Accounts : Moves(s, x, a) = (IF Pays(s, x) THEN out[a] ELSE 0) + 0
    BY <2>2 DEF Moves
  <2> HIDE DEF out
  <2> QED BY <1>1, <2>1, <2>2, <2>3
<1>5. CASE x.kind = "required" /\ asked = 0
  <2>1. Due(s, x) = 0 /\ Throws(s, x)
    BY <1>5 DEF Asked, Throws
  <2> QED BY <1>5, <2>1, ThrownHasEffect DEF Required
<1>6. CASE x.kind = "required" /\ asked # 0
  <2> DEFINE t == Required(s, i, x)
  <2>1. Due(s, x) = asked /\ ~Throws(s, x) /\ x.kind \in DebtKinds
    BY <1>6 DEF Asked, Throws, DebtKinds
  <2>2. IsServed(t, s, i, x)
    BY <1>6, <2>1, RequiredFields
  <2>3. Pays(s, x) <=> Covered(s, x.from, asked)
    BY <1>6 DEF Pays, Skips
  <2>4. Payment(s, x) = IF Pays(s, x) THEN out ELSE Nothing
    BY <2>1, <2>3 DEF Payment
  <2> HIDE DEF t, out
  <2>5. /\ t.cash = [a \in Accounts |-> s.cash[a] + Payment(s, x)[a]]
        /\ t.principal = IF Pays(s, x) THEN [s.principal EXCEPT ![x.loan] = @ - asked]
                         ELSE s.principal
        /\ t.owed = [s.owed EXCEPT ![x.loan] = IF Pays(s, x) THEN 0 ELSE asked]
        /\ t.satisfied = IF Pays(s, x) THEN s.satisfied \cup {x.loan} ELSE s.satisfied
        /\ t.unpaid = s.unpaid /\ t.lots = s.lots /\ ~t.failed
    BY <1>3, <2>1, <2>2, <2>3 DEF IsServed
  <2> HIDE DEF asked
  <2>6. \A a \in Accounts : t.cash[a] = s.cash[a] + Moves(s, x, a)
    BY <1>1, <1>2, <1>4, <2>1, <2>4, <2>5
  <2>7. ASSUME NEW l \in Loans
        PROVE  /\ t.principal[l] = s.principal[l] - Repays(s, x, l)
               /\ t.owed[l] = Owes(s, x, l)
               /\ l \in t.satisfied <=> l \in s.satisfied \/ Satisfies(s, x, l)
    <3>1. Repays(s, x, l) = IF l = x.loan /\ Pays(s, x) THEN asked ELSE 0
      BY <2>1 DEF Repays, asked
    <3>2. Owes(s, x, l) = IF l = x.loan THEN IF Pays(s, x) THEN 0 ELSE asked ELSE s.owed[l]
      BY <1>6, <2>1 DEF Owes
    <3>3. Satisfies(s, x, l) <=> l = x.loan /\ Pays(s, x)
      BY <1>6 DEF Satisfies
    <3>4. t.principal[l] = s.principal[l] - Repays(s, x, l)
      BY <1>1, <1>3, <2>5, <3>1
    <3>5. t.owed[l] = Owes(s, x, l)
      BY <1>3, <2>5, <3>2
    <3>6. l \in t.satisfied <=> l \in s.satisfied \/ Satisfies(s, x, l)
      BY <2>5, <3>3
    <3> QED BY <3>4, <3>5, <3>6
  <2>8. /\ \A k \in DOMAIN h.plan : t.unpaid[k] = s.unpaid[k] + (IF k = i THEN Claims(s, x) ELSE 0)
        /\ t.lots = s.lots + Trades(x)
    BY <1>3, <1>4, <2>1, <2>5
  <2>9. HasEffect(h, s, i, t)
    BY <2>1, <2>5, <2>6, <2>7, <2>8 DEF HasEffect
  <2> QED BY <1>6, <2>9 DEF t
<1>7. CASE x.kind = "extra"
  <2> DEFINE t == Extra(s, i, x)
             p == Posted(s, "additional", i, out)
  <2>1. x.kind \in DebtKinds /\ ~Throws(s, x) /\ asked = Min({x.amount, s.principal[x.loan]})
    BY <1>7 DEF DebtKinds, Throws, Asked
  <2>2. Pays(s, x) <=> ~(\/ x.loan \notin s.satisfied \/ s.owed[x.loan] > 0 \/ asked = 0
                         \/ ~Covered(s, x.from, asked))
    BY <1>7, SMTT(60) DEF Pays, Skips
  <2>3. t = IF Pays(s, x) THEN [p EXCEPT !.principal[x.loan] = @ - asked] ELSE s
    BY <2>1, <2>2 DEF Extra
  <2>4. Sound(h, p) /\ Moved(h, s, i, p, out, 0, 0)
    <3>1. "additional" \in Books
      BY DEF Books
    <3> HIDE DEF out, p
    <3> QED BY <1>1, <3>1, PostingMoves DEF p
  <2>5. p \in States(h)
    BY <2>4 DEF Sound
  <2> HIDE DEF p, out, t
  <2>6. /\ \A a \in Accounts : t.cash[a] = s.cash[a] + Moves(s, x, a)
        /\ t.principal = IF Pays(s, x) THEN [s.principal EXCEPT ![x.loan] = @ - asked] ELSE s.principal
        /\ t.owed = s.owed /\ t.satisfied = s.satisfied /\ t.lots = s.lots + 0
        /\ \A k \in DOMAIN h.plan : t.unpaid[k] = s.unpaid[k] + (IF k = i THEN 0 ELSE 0)
        /\ ~t.failed
    <3>1. CASE Pays(s, x)
      <4>1. /\ t.cash = p.cash /\ t.owed = p.owed /\ t.satisfied = p.satisfied /\ t.lots = p.lots
            /\ t.unpaid = p.unpaid /\ (t.failed = p.failed)
            /\ t.principal = [p.principal EXCEPT ![x.loan] = @ - asked]
        BY <2>3, <2>5, <3>1 DEF States
      <4> QED BY <1>4, <2>1, <2>4, <3>1, <4>1 DEF Moved
    <3>2. CASE ~Pays(s, x)
      <4>1. t = s
        BY <2>3, <3>2
      <4>2. \A a \in Accounts : s.cash[a] = s.cash[a] + Moves(s, x, a)
        BY <1>1, <1>4, <2>1, <3>2
      <4> QED BY <1>3, <3>2, <4>1, <4>2
    <3> QED BY <3>1, <3>2
  <2> HIDE DEF asked
  <2>7. ASSUME NEW l \in Loans
        PROVE  /\ t.principal[l] = s.principal[l] - Repays(s, x, l)
               /\ t.owed[l] = Owes(s, x, l)
               /\ l \in t.satisfied <=> l \in s.satisfied \/ Satisfies(s, x, l)
    <3>1. Repays(s, x, l) = IF l = x.loan /\ Pays(s, x) THEN asked ELSE 0
      BY <2>1 DEF Repays, asked
    <3>2. Owes(s, x, l) = s.owed[l] /\ ~Satisfies(s, x, l)
      BY <1>7 DEF Owes, Satisfies
    <3>3. t.principal[l] = s.principal[l] - Repays(s, x, l)
      BY <1>1, <1>3, <2>6, <3>1, SMTT(60)
    <3> QED BY <2>6, <3>2, <3>3
  <2>8. HasEffect(h, s, i, t)
    BY <1>4, <2>1, <2>6, <2>7 DEF HasEffect
  <2> QED BY <1>7, <2>8 DEF t
<1> QED BY <1>5, <1>6, <1>7

LEMMA StepHasEffect ==
    ASSUME NEW h \in Households, NEW s, Sound(h, s), ~s.failed, NEW i \in DOMAIN h.plan
    PROVE  HasEffect(h, s, i, Step(h, s, i))
<1> DEFINE x == h.plan[i]
<1>1. x.kind \in {"expense", "income", "premium", "sale", "fee", "purchase", "transfer",
                  "extra", "required"}
    BY ItemTypes DEF Domain
<1>2. CASE x.kind = "expense"
  BY <1>2, CashEffects DEF Step, Operate
<1>3. CASE x.kind = "income"
  BY <1>3, CashEffects DEF Step, Operate
<1>4. CASE x.kind = "fee"
  BY <1>4, CashEffects DEF Step, Operate
<1>5. CASE x.kind = "premium"
  BY <1>5, CashEffects DEF Step, Operate
<1>6. CASE x.kind = "purchase"
  BY <1>6, CashEffects DEF Step, Operate
<1>7. CASE x.kind = "transfer"
  BY <1>7, CashEffects DEF Step, Operate
<1>8. CASE x.kind = "sale"
  BY <1>8, CashEffects DEF Step, Operate
<1>9. CASE x.kind = "required"
  BY <1>9, DebtEffects DEF Step, Operate
<1>10. CASE x.kind = "extra"
  BY <1>10, DebtEffects DEF Step, Operate
<1> QED BY <1>1, <1>2, <1>3, <1>4, <1>5, <1>6, <1>7, <1>8, <1>9, <1>10

-----------------------------------------------------------------------------
(* Works that do not depend on each other.                                   *)

\* Neither takes cash from an account of the other, which is what the code asks of works
\* of different domains; neither works on the loan of the other; and a sale does not need
\* the lot of a purchase, or the other way round.
Independent(x, y) ==
    /\ Consumes(x) \cap Accesses(y) = {} /\ Accesses(x) \cap Consumes(y) = {}
    /\ {x.kind, y.kind} \subseteq DebtKinds => x.loan # y.loan
    /\ {x.kind, y.kind} \subseteq {"purchase", "sale"} => x.kind = y.kind

\* Both threw, or both have the same balances, claims, lots and services satisfied.
SameWorth(s, t) ==
    \/ s.failed /\ t.failed
    \/ /\ ~s.failed /\ ~t.failed /\ s.cash = t.cash /\ s.principal = t.principal
       /\ s.owed = t.owed /\ s.unpaid = t.unpaid /\ s.lots = t.lots /\ s.satisfied = t.satisfied

LEMMA SameEconomics ==
    ASSUME NEW s, NEW t, SameWorth(s, t) PROVE Economics(s) = Economics(t)
    BY DEF SameWorth, Economics

\* What a work sees of a state.
SeesAlike(x, s, t) ==
    /\ \A a \in Consumes(x) : s.cash[a] = t.cash[a]
    /\ x.kind \in DebtKinds => /\ s.principal[x.loan] = t.principal[x.loan]
                               /\ s.owed[x.loan] = t.owed[x.loan]
                               /\ x.loan \in s.satisfied <=> x.loan \in t.satisfied
    /\ x.kind = "sale" => (s.lots = 0 <=> t.lots = 0)

Falls(c, left, sources, amount) ==
    /\ left \in [0..Len(sources) -> Nat] /\ left[0] = amount
    /\ \A k \in 1..Len(sources) : left[k] = left[k - 1] - Min({c[sources[k]], left[k - 1]})

LEMMA RemainderTable ==
    ASSUME NEW u, u.cash \in [Accounts -> Nat], NEW sources \in Seq(Accounts), NEW amount \in Nat
    PROVE  Falls(u.cash, Remaining(u, sources, amount), sources, amount)
<1> DEFINE n == Len(sources)
           left == Remaining(u, sources, amount)
<1>1. /\ left \in [0..n -> Nat] /\ left[0] = amount
      /\ \A k \in 1..n : left[k] = left[k - 1] - Min({u.cash[sources[k]], left[k - 1]})
    BY RemainderFalls
<1> HIDE DEF left
<1>2. Falls(u.cash, left, sources, amount)
    BY <1>1, Zenon DEF Falls
<1> QED BY <1>2 DEF left

\* Funding sees the cash of its sources alone.
LEMMA FundingSeesSources ==
    ASSUME NEW s, s.cash \in [Accounts -> Nat], NEW t, t.cash \in [Accounts -> Nat],
           NEW sources \in Seq(Accounts), NEW amount \in Nat,
           \A a \in Range(sources) : s.cash[a] = t.cash[a]
    PROVE  /\ Covered(s, sources, amount) <=> Covered(t, sources, amount)
           /\ Out(s, sources, amount) = Out(t, sources, amount)
<1> DEFINE n == Len(sources)
           f == Remaining(s, sources, amount)
           g == Remaining(t, sources, amount)
           T == {k \in 0..n : f[k] = g[k]}
<1>1. n \in Nat /\ \A k \in 1..n : sources[k] \in Range(sources)
    BY DEF Range
<1>2. /\ f \in [0..n -> Nat] /\ f[0] = amount
      /\ \A k \in 1..n : f[k] = f[k - 1] - Min({s.cash[sources[k]], f[k - 1]})
  <2>1. Falls(s.cash, f, sources, amount)
    BY RemainderTable
  <2> HIDE DEF f
  <2> QED BY <2>1 DEF Falls
<1>3. /\ g \in [0..n -> Nat] /\ g[0] = amount
      /\ \A k \in 1..n : g[k] = g[k - 1] - Min({t.cash[sources[k]], g[k - 1]})
  <2>1. Falls(t.cash, g, sources, amount)
    BY RemainderTable
  <2> HIDE DEF g
  <2> QED BY <2>1 DEF Falls
<1> HIDE DEF n, f, g
<1>4. 0 \in T
    BY <1>1, <1>2, <1>3
<1>5. ASSUME NEW k \in 0..n, k < n, k \in T PROVE k + 1 \in T
  <2>1. k + 1 \in 1..n /\ (k + 1) - 1 = k /\ k + 1 \in 0..n
    BY <1>1, <1>5
  <2>2. s.cash[sources[k + 1]] = t.cash[sources[k + 1]]
    BY <1>1, <2>1
  <2>3. f[k + 1] = f[k] - Min({s.cash[sources[k + 1]], f[k]})
    BY <1>2, <2>1
  <2>4. g[k + 1] = g[k] - Min({t.cash[sources[k + 1]], g[k]})
    BY <1>3, <2>1
  <2> QED BY <1>5, <2>1, <2>2, <2>3, <2>4
<1> HIDE DEF T
<1>6. \A k \in 0..n : k \in T
    BY <1>1, <1>4, <1>5, Induction
<1>7. f = g
  <2>1. \A k \in 0..n : f[k] = g[k]
    BY <1>6 DEF T
  <2>2. f = [k \in 0..n |-> f[k]] /\ g = [k \in 0..n |-> g[k]]
    BY <1>2, <1>3
  <2> QED BY <2>1, <2>2
<1>8. Covered(s, sources, amount) <=> Covered(t, sources, amount)
    BY <1>7 DEF Covered, f, g
<1>9. Draw(s, sources, amount) = Draw(t, sources, amount)
    BY <1>7 DEF Draw, f, g
<1> QED BY <1>8, <1>9, OutIsDraw

\* What a work does depends on what it sees.
LEMMA EffectSeen ==
    ASSUME NEW h \in Households, NEW s, Sound(h, s), NEW t, Sound(h, t), NEW i \in DOMAIN h.plan,
           SeesAlike(h.plan[i], s, t)
    PROVE  LET x == h.plan[i]
           IN  /\ Throws(s, x) <=> Throws(t, x)
               /\ Claims(s, x) = Claims(t, x)
               /\ \A a : Moves(s, x, a) = Moves(t, x, a)
               /\ \A l : Repays(s, x, l) = Repays(t, x, l) /\ (Satisfies(s, x, l) <=> Satisfies(t, x, l))
               /\ x.kind \in DebtKinds => Owes(s, x, x.loan) = Owes(t, x, x.loan)
<1> DEFINE x == h.plan[i]
<1>1. x.from \in Seq(Accounts) /\ Asked(s, x) \in Nat
    BY ItemTypes, MovedTypes
<1>2. x.kind \in DebtKinds => Due(s, x) = Due(t, x)
    BY DEF SeesAlike, Due
<1>3. Asked(s, x) = Asked(t, x) /\ (Skips(s, x) <=> Skips(t, x))
    BY <1>2 DEF SeesAlike, Asked, Skips, DebtKinds
<1>4. x.kind \notin {"income", "sale"} =>
        /\ Covered(s, x.from, Asked(s, x)) <=> Covered(t, x.from, Asked(s, x))
        /\ Out(s, x.from, Asked(s, x)) = Out(t, x.from, Asked(s, x))
  <2> SUFFICES ASSUME x.kind \notin {"income", "sale"}
               PROVE  /\ Covered(s, x.from, Asked(s, x)) <=> Covered(t, x.from, Asked(s, x))
                      /\ Out(s, x.from, Asked(s, x)) = Out(t, x.from, Asked(s, x))
    OBVIOUS
  <2>1. \A a \in Range(x.from) : s.cash[a] = t.cash[a]
    BY DEF SeesAlike, Consumes
  <2>2. s.cash \in [Accounts -> Nat] /\ t.cash \in [Accounts -> Nat]
    BY DEF Sound, States
  <2> QED BY <1>1, <2>1, <2>2, FundingSeesSources
<1>5. /\ Pays(s, x) <=> Pays(t, x)
      /\ Pays(s, x) => Out(s, x.from, Asked(s, x)) = Out(t, x.from, Asked(t, x))
    BY <1>3, <1>4 DEF Pays
<1> HIDE DEF x
<1>6. Throws(s, x) <=> Throws(t, x)
    BY <1>2, <1>5 DEF Throws, SeesAlike, DebtKinds, x
<1>7. Claims(s, x) = Claims(t, x)
    BY <1>5 DEF Claims
<1>8. \A a : Moves(s, x, a) = Moves(t, x, a)
    BY <1>5 DEF Moves
<1>9. \A l : Repays(s, x, l) = Repays(t, x, l) /\ (Satisfies(s, x, l) <=> Satisfies(t, x, l))
    BY <1>3, <1>5 DEF Repays, Satisfies
<1>10. x.kind \in DebtKinds => Owes(s, x, x.loan) = Owes(t, x, x.loan)
    BY <1>2, <1>5 DEF Owes, SeesAlike, x
<1> QED BY <1>6, <1>7, <1>8, <1>9, <1>10 DEF x

\* And it changes what is its own.
LEMMA EffectElsewhere ==
    ASSUME NEW h \in Households, NEW s, Sound(h, s), NEW i \in DOMAIN h.plan
    PROVE  LET x == h.plan[i]
           IN  /\ \A a \in Accounts \ Accesses(x) : Moves(s, x, a) = 0
               /\ \A l \in Loans : ~(x.kind \in DebtKinds /\ l = x.loan) =>
                     Repays(s, x, l) = 0 /\ Owes(s, x, l) = s.owed[l] /\ ~Satisfies(s, x, l)
               /\ x.kind \notin {"purchase", "sale"} => Trades(x) = 0
<1> DEFINE x == h.plan[i]
<1>1. \A l \in Loans : ~(x.kind \in DebtKinds /\ l = x.loan) =>
         Repays(s, x, l) = 0 /\ Owes(s, x, l) = s.owed[l] /\ ~Satisfies(s, x, l)
    BY DEF Repays, Owes, Satisfies, DebtKinds
<1>2. x.kind \notin {"purchase", "sale"} => Trades(x) = 0
    BY DEF Trades
<1>3. ASSUME NEW a \in Accounts \ Accesses(x) PROVE Moves(s, x, a) = 0
  <2>1. Pays(s, x) => Out(s, x.from, Asked(s, x))[a] = 0
    <3>1. Pays(s, x) => a \notin Range(x.from)
      BY DEF Pays, Accesses, Consumes
    <3>2. a \notin Range(x.from) => Draw(s, x.from, Asked(s, x))[a] = 0
      BY DEF Draw
    <3>3. Out(s, x.from, Asked(s, x))[a] = -Draw(s, x.from, Asked(s, x))[a]
      BY DEF Out
    <3> QED BY <3>1, <3>2, <3>3
  <2>2. x.kind \in PayingIn => Into(x.to, x.amount)[a] = 0
    BY DEF PayingIn, Into, Accesses, Produces
  <2> HIDE DEF x
  <2> QED BY <2>1, <2>2 DEF Moves
<1> QED BY <1>1, <1>2, <1>3

LEMMA SameByParts ==
    ASSUME NEW h \in Households, NEW u, Sound(h, u), NEW v, Sound(h, v), u.failed <=> v.failed,
           ~u.failed =>
              /\ \A a \in Accounts : u.cash[a] = v.cash[a]
              /\ \A l \in Loans : /\ u.principal[l] = v.principal[l] /\ u.owed[l] = v.owed[l]
                                  /\ l \in u.satisfied <=> l \in v.satisfied
              /\ \A k \in DOMAIN h.plan : u.unpaid[k] = v.unpaid[k]
              /\ u.lots = v.lots
    PROVE  SameWorth(u, v)
<1>1. CASE u.failed
    BY <1>1 DEF SameWorth
<1>2. CASE ~u.failed
  <2>1. u \in States(h) /\ v \in States(h)
    BY DEF Sound
  <2>2. u.cash \in [Accounts -> Nat] /\ v.cash \in [Accounts -> Nat]
    BY <2>1 DEF States
  <2>3. u.principal \in [Loans -> Nat] /\ v.principal \in [Loans -> Nat]
    BY <2>1 DEF States
  <2>4. u.owed \in [Loans -> Nat] /\ v.owed \in [Loans -> Nat]
    BY <2>1 DEF States
  <2>5. u.unpaid \in [DOMAIN h.plan -> Nat] /\ v.unpaid \in [DOMAIN h.plan -> Nat]
    BY <2>1 DEF States
  <2>6. u.satisfied \subseteq Loans /\ v.satisfied \subseteq Loans
    BY <2>1 DEF States
  <2>7. u.cash = v.cash
    BY <1>2, <2>2
  <2>8. u.principal = v.principal
    BY <1>2, <2>3
  <2>9. u.owed = v.owed
    BY <1>2, <2>4
  <2>10. u.unpaid = v.unpaid
    BY <1>2, <2>5
  <2>11. u.satisfied = v.satisfied
    BY <1>2, <2>6
  <2> QED BY <1>2, <2>7, <2>8, <2>9, <2>10, <2>11 DEF SameWorth
<1> QED BY <1>1, <1>2

LEMMA StepSound ==
    ASSUME NEW h \in Households, NEW s, Sound(h, s), NEW i \in DOMAIN h.plan
    PROVE  Sound(h, Step(h, s, i))
    BY StepIsAfter DEF After

\* States worth the same stay so.
LEMMA StepSameWorth ==
    ASSUME NEW h \in Households, NEW s, Sound(h, s), NEW t, Sound(h, t), SameWorth(s, t),
           NEW i \in DOMAIN h.plan
    PROVE  SameWorth(Step(h, s, i), Step(h, t, i))
<1> DEFINE x == h.plan[i]
           u == Step(h, s, i)
           v == Step(h, t, i)
<1>0. Sound(h, u) /\ Sound(h, v)
    BY StepSound
<1>1. CASE s.failed
  <2>1. t.failed
    BY <1>1 DEF SameWorth
  <2>2. u.failed /\ v.failed
    BY <1>1, <2>1, FailedStays
  <2> QED BY <2>2 DEF SameWorth
<1>2. CASE ~s.failed
  <2>1. /\ ~t.failed /\ s.cash = t.cash /\ s.principal = t.principal /\ s.owed = t.owed
        /\ s.unpaid = t.unpaid /\ s.lots = t.lots /\ s.satisfied = t.satisfied
    BY <1>2 DEF SameWorth
  <2>2. HasEffect(h, s, i, u) /\ HasEffect(h, t, i, v)
    BY <1>2, <2>1, StepHasEffect
  <2>3. SeesAlike(x, s, t)
    BY <2>1 DEF SeesAlike
  <2>4. /\ Throws(s, x) <=> Throws(t, x)
        /\ Claims(s, x) = Claims(t, x)
        /\ \A a : Moves(s, x, a) = Moves(t, x, a)
        /\ \A l : Repays(s, x, l) = Repays(t, x, l) /\ (Satisfies(s, x, l) <=> Satisfies(t, x, l))
        /\ x.kind \in DebtKinds => Owes(s, x, x.loan) = Owes(t, x, x.loan)
    BY <2>3, EffectSeen
  <2>5. \A l \in Loans : Owes(s, x, l) = Owes(t, x, l)
    BY <2>1, <2>4 DEF Owes, DebtKinds
  <2> HIDE DEF x, u, v
  <2>6. u.failed <=> v.failed
    BY <2>2, <2>4 DEF HasEffect, x
  <2>7. ASSUME ~u.failed
        PROVE  /\ \A a \in Accounts : u.cash[a] = v.cash[a]
               /\ \A l \in Loans : /\ u.principal[l] = v.principal[l] /\ u.owed[l] = v.owed[l]
                                   /\ l \in u.satisfied <=> l \in v.satisfied
               /\ \A k \in DOMAIN h.plan : u.unpaid[k] = v.unpaid[k]
               /\ u.lots = v.lots
    <3>1. ~Throws(s, x) /\ ~Throws(t, x)
      BY <2>2, <2>4, <2>7 DEF HasEffect, x
    <3>2. \A a \in Accounts : u.cash[a] = v.cash[a]
      BY <2>1, <2>2, <2>4, <3>1 DEF HasEffect, x
    <3>3. \A l \in Loans : /\ u.principal[l] = v.principal[l] /\ u.owed[l] = v.owed[l]
                           /\ l \in u.satisfied <=> l \in v.satisfied
      BY <2>1, <2>2, <2>4, <2>5, <3>1 DEF HasEffect, x
    <3>4. (\A k \in DOMAIN h.plan : u.unpaid[k] = v.unpaid[k]) /\ u.lots = v.lots
      BY <2>1, <2>2, <2>4, <3>1 DEF HasEffect, x
    <3> QED BY <3>2, <3>3, <3>4
  <2> QED BY <1>0, <2>6, <2>7, SameByParts DEF u, v
<1> QED BY <1>1, <1>2

LEMMA EffectTypes ==
    ASSUME NEW h \in Households, NEW s, Sound(h, s), NEW i \in DOMAIN h.plan
    PROVE  LET x == h.plan[i]
           IN  /\ \A a \in Accounts : s.cash[a] \in Nat /\ Moves(s, x, a) \in Int
               /\ \A l \in Loans : s.principal[l] \in Nat /\ Repays(s, x, l) \in Nat
               /\ Claims(s, x) \in Nat /\ Trades(x) \in Int /\ s.lots \in Nat
               /\ \A k \in DOMAIN h.plan : s.unpaid[k] \in Nat
<1> DEFINE x == h.plan[i]
<1>1. x.amount \in Nat
    BY ItemTypes
<1>2. /\ Asked(s, x) \in Nat
      /\ Out(s, x.from, Asked(s, x)) \in [Accounts -> Int]
      /\ Into(x.to, x.amount) \in [Accounts -> Nat]
      /\ \A a \in Accounts : s.cash[a] \in Nat
    BY MovedTypes
<1>3. /\ s.lots \in Nat /\ \A l \in Loans : s.principal[l] \in Nat
      /\ \A k \in DOMAIN h.plan : s.unpaid[k] \in Nat
    BY DEF Sound, States
<1> HIDE DEF x
<1>4. \A a \in Accounts : Moves(s, x, a) \in Int
    BY <1>2 DEF Moves
<1>5. \A l \in Loans : Repays(s, x, l) \in Nat
    BY <1>2 DEF Repays
<1>6. Claims(s, x) \in Nat /\ Trades(x) \in Int
    BY <1>1 DEF Claims, Trades
<1> QED BY <1>2, <1>3, <1>4, <1>5, <1>6 DEF x

\* A work that did not throw leaves alone what an independent one sees; only a second
\* sale asks whether a lot is left.
LEMMA UnseenBy ==
    ASSUME NEW h \in Households, NEW s, Sound(h, s), NEW i \in DOMAIN h.plan,
           NEW j \in DOMAIN h.plan, Independent(h.plan[i], h.plan[j]),
           ~Throws(s, h.plan[i]), NEW t, HasEffect(h, s, i, t),
           {h.plan[i].kind, h.plan[j].kind} \subseteq {"sale"} => s.lots > 1
    PROVE  SeesAlike(h.plan[j], t, s)
<1> DEFINE x == h.plan[i]
           y == h.plan[j]
<1>1. /\ \A a \in Accounts : t.cash[a] = s.cash[a] + Moves(s, x, a)
      /\ \A l \in Loans : /\ t.principal[l] = s.principal[l] - Repays(s, x, l)
                          /\ t.owed[l] = Owes(s, x, l)
                          /\ l \in t.satisfied <=> l \in s.satisfied \/ Satisfies(s, x, l)
      /\ t.lots = s.lots + Trades(x)
    BY DEF HasEffect
<1>2. /\ \A a \in Accounts \ Accesses(x) : Moves(s, x, a) = 0
      /\ \A l \in Loans : ~(x.kind \in DebtKinds /\ l = x.loan) =>
            Repays(s, x, l) = 0 /\ Owes(s, x, l) = s.owed[l] /\ ~Satisfies(s, x, l)
      /\ x.kind \notin {"purchase", "sale"} => Trades(x) = 0
    BY EffectElsewhere
<1>3. /\ \A a \in Accounts : s.cash[a] \in Nat
      /\ \A l \in Loans : s.principal[l] \in Nat
      /\ s.lots \in Nat
    BY EffectTypes
<1>4. Consumes(y) \subseteq Accounts
  <2>1. y.from \in Seq(Accounts)
    BY ItemTypes
  <2> QED BY <2>1 DEF Consumes, Range
<1>5. y.kind \in DebtKinds => y.loan \in Loans
    BY ItemTypes DEF DebtKinds
<1>6. Consumes(y) \cap Accesses(x) = {}
    BY DEF Independent
<1>7. y.kind \in DebtKinds => ~(x.kind \in DebtKinds /\ y.loan = x.loan)
    BY DEF Independent
<1>8. y.kind = "sale" => x.kind # "purchase"
    BY DEF Independent
<1>9. {x.kind, y.kind} \subseteq {"sale"} => s.lots > 1
    OBVIOUS
<1> HIDE DEF x, y
<1>10. \A a \in Consumes(y) : t.cash[a] = s.cash[a]
    BY <1>1, <1>2, <1>3, <1>4, <1>6
<1>11. y.kind \in DebtKinds => /\ t.principal[y.loan] = s.principal[y.loan]
                               /\ t.owed[y.loan] = s.owed[y.loan]
                               /\ y.loan \in t.satisfied <=> y.loan \in s.satisfied
    BY <1>1, <1>2, <1>3, <1>5, <1>7
<1>12. y.kind = "sale" => (t.lots = 0 <=> s.lots = 0)
  <2>1. CASE x.kind = "sale"
    <3>1. Trades(x) = -1
      BY <2>1 DEF Trades
    <3> QED BY <1>1, <1>3, <1>9, <2>1, <3>1
  <2>2. CASE x.kind # "sale"
    BY <1>1, <1>2, <1>3, <1>8, <2>2
  <2> QED BY <2>1, <2>2
<1> QED BY <1>10, <1>11, <1>12 DEF SeesAlike, y

\* Two works that do not depend on each other do the same in either order, whatever the
\* state: so the order the ids leave them in gives nothing away.
THEOREM IndependentWorksCommute ==
    ASSUME NEW h \in Households, NEW s, Sound(h, s), NEW i \in DOMAIN h.plan,
           NEW j \in DOMAIN h.plan, i # j, Independent(h.plan[i], h.plan[j])
    PROVE  SameWorth(Step(h, Step(h, s, i), j), Step(h, Step(h, s, j), i))
<1> DEFINE x == h.plan[i]
           y == h.plan[j]
           u == Step(h, s, i)
           v == Step(h, s, j)
           p == Step(h, u, j)
           q == Step(h, v, i)
<1>1. Sound(h, u) /\ Sound(h, v)
    BY StepSound
<1>2. Sound(h, p) /\ Sound(h, q)
    BY <1>1, StepSound
<1>3. Independent(y, x)
    BY DEF Independent
<1>4. CASE s.failed
  <2>1. u.failed /\ v.failed
    BY <1>4, FailedStays
  <2>2. p.failed /\ q.failed
    BY <1>1, <2>1, FailedStays
  <2> QED BY <2>2 DEF SameWorth
<1>5. CASE ~s.failed
  <2>1. HasEffect(h, s, i, u) /\ HasEffect(h, s, j, v)
    BY <1>5, StepHasEffect
  <2>2. (u.failed <=> Throws(s, x)) /\ (v.failed <=> Throws(s, y))
    BY <2>1 DEF HasEffect
  <2>3. ~u.failed => HasEffect(h, u, j, p)
    BY <1>1, StepHasEffect
  <2>4. ~v.failed => HasEffect(h, v, i, q)
    BY <1>1, StepHasEffect
  <2>5. ~u.failed => (p.failed <=> Throws(u, y))
    BY <2>3 DEF HasEffect
  <2>6. ~v.failed => (q.failed <=> Throws(v, x))
    BY <2>4 DEF HasEffect
  <2>7. u.failed => p.failed
    BY <1>1, FailedStays
  <2>8. v.failed => q.failed
    BY <1>1, FailedStays
  <2>9. CASE {x.kind, y.kind} \subseteq {"sale"} /\ ~(s.lots > 1)
    <3>1. (Throws(s, x) <=> s.lots = 0) /\ (Throws(s, y) <=> s.lots = 0)
      BY <2>9 DEF Throws
    <3>2. Trades(x) = -1 /\ Trades(y) = -1
      BY <2>9 DEF Trades
    <3>3. s.lots \in Nat
      BY EffectTypes
    <3>4. ~u.failed => u.lots = 0
      BY <2>1, <2>2, <2>9, <3>1, <3>2, <3>3 DEF HasEffect
    <3>5. ~v.failed => v.lots = 0
      BY <2>1, <2>2, <2>9, <3>1, <3>2, <3>3 DEF HasEffect
    <3>6. ~u.failed => Throws(u, y)
      BY <2>9, <3>4 DEF Throws
    <3>7. ~v.failed => Throws(v, x)
      BY <2>9, <3>5 DEF Throws
    <3>8. p.failed /\ q.failed
      BY <2>5, <2>6, <2>7, <2>8, <3>6, <3>7
    <3> QED BY <3>8 DEF SameWorth
  <2>10. CASE {x.kind, y.kind} \subseteq {"sale"} => s.lots > 1
    <3>1. ~Throws(s, x) => SeesAlike(y, u, s)
      BY <2>1, <2>10, UnseenBy
    <3>2. ~Throws(s, y) => SeesAlike(x, v, s)
      BY <1>3, <2>1, <2>10, UnseenBy
    <3>3. ~Throws(s, x) =>
            /\ Throws(u, y) <=> Throws(s, y)
            /\ Claims(u, y) = Claims(s, y)
            /\ \A a : Moves(u, y, a) = Moves(s, y, a)
            /\ \A l : Repays(u, y, l) = Repays(s, y, l) /\ (Satisfies(u, y, l) <=> Satisfies(s, y, l))
            /\ y.kind \in DebtKinds => Owes(u, y, y.loan) = Owes(s, y, y.loan)
      BY <1>1, <3>1, EffectSeen
    <3>4. ~Throws(s, y) =>
            /\ Throws(v, x) <=> Throws(s, x)
            /\ Claims(v, x) = Claims(s, x)
            /\ \A a : Moves(v, x, a) = Moves(s, x, a)
            /\ \A l : Repays(v, x, l) = Repays(s, x, l) /\ (Satisfies(v, x, l) <=> Satisfies(s, x, l))
            /\ x.kind \in DebtKinds => Owes(v, x, x.loan) = Owes(s, x, x.loan)
      BY <1>1, <3>2, EffectSeen
    <3>5. CASE Throws(s, x) \/ Throws(s, y)
      <4>1. p.failed /\ q.failed
        BY <2>2, <2>5, <2>6, <2>7, <2>8, <3>3, <3>4, <3>5
      <4> QED BY <4>1 DEF SameWorth
    <3>6. CASE ~Throws(s, x) /\ ~Throws(s, y)
      <4>1. ~Throws(u, y) /\ ~Throws(v, x) /\ ~u.failed /\ ~v.failed
        BY <2>2, <3>3, <3>4, <3>6
      <4>2. HasEffect(h, u, j, p) /\ HasEffect(h, v, i, q)
        BY <2>3, <2>4, <4>1
      <4>3. ~p.failed /\ ~q.failed
        BY <2>5, <2>6, <4>1
      <4>4. /\ \A a \in Accounts : /\ s.cash[a] \in Nat /\ Moves(s, x, a) \in Int
                                   /\ Moves(s, y, a) \in Int
            /\ \A l \in Loans : /\ s.principal[l] \in Nat /\ Repays(s, x, l) \in Nat
                                /\ Repays(s, y, l) \in Nat
            /\ Claims(s, x) \in Nat /\ Claims(s, y) \in Nat
            /\ Trades(x) \in Int /\ Trades(y) \in Int /\ s.lots \in Nat
            /\ \A k \in DOMAIN h.plan : s.unpaid[k] \in Nat
        BY EffectTypes
      <4>5. \A l \in Loans : ~(x.kind \in DebtKinds /\ l = x.loan) =>
               /\ Owes(s, x, l) = s.owed[l] /\ Owes(v, x, l) = v.owed[l]
        BY <1>1, EffectElsewhere
      <4>6. \A l \in Loans : ~(y.kind \in DebtKinds /\ l = y.loan) =>
               /\ Owes(s, y, l) = s.owed[l] /\ Owes(u, y, l) = u.owed[l]
        BY <1>1, EffectElsewhere
      <4>7. {x.kind, y.kind} \subseteq DebtKinds => x.loan # y.loan
        BY DEF Independent
      <4> HIDE DEF x, y, u, v, p, q
      <4>8. \A a \in Accounts : /\ u.cash[a] = s.cash[a] + Moves(s, x, a)
                                /\ v.cash[a] = s.cash[a] + Moves(s, y, a)
                                /\ p.cash[a] = u.cash[a] + Moves(s, y, a)
                                /\ q.cash[a] = v.cash[a] + Moves(s, x, a)
        BY <2>1, <3>3, <3>4, <3>6, <4>1, <4>2 DEF HasEffect, x, y
      <4>9. \A a \in Accounts : p.cash[a] = q.cash[a]
        BY <4>4, <4>8
      <4>10. \A l \in Loans : /\ u.principal[l] = s.principal[l] - Repays(s, x, l)
                              /\ v.principal[l] = s.principal[l] - Repays(s, y, l)
                              /\ p.principal[l] = u.principal[l] - Repays(s, y, l)
                              /\ q.principal[l] = v.principal[l] - Repays(s, x, l)
        BY <2>1, <3>3, <3>4, <3>6, <4>1, <4>2 DEF HasEffect, x, y
      <4>11. \A l \in Loans : p.principal[l] = q.principal[l]
        BY <4>4, <4>10
      <4>12. \A l \in Loans : /\ u.owed[l] = Owes(s, x, l) /\ v.owed[l] = Owes(s, y, l)
                              /\ p.owed[l] = Owes(u, y, l) /\ q.owed[l] = Owes(v, x, l)
        BY <2>1, <3>6, <4>1, <4>2 DEF HasEffect, x, y
      <4>13. \A l \in Loans : p.owed[l] = q.owed[l]
        <5> SUFFICES ASSUME NEW l \in Loans PROVE p.owed[l] = q.owed[l]
          OBVIOUS
        <5>1. CASE x.kind \in DebtKinds /\ l = x.loan
          <6>1. ~(y.kind \in DebtKinds /\ l = y.loan)
            BY <4>7, <5>1
          <6>2. p.owed[l] = Owes(s, x, l)
            BY <4>6, <4>12, <6>1
          <6>3. q.owed[l] = Owes(s, x, l)
            BY <3>4, <3>6, <4>12, <5>1
          <6> QED BY <6>2, <6>3
        <5>2. CASE y.kind \in DebtKinds /\ l = y.loan
          <6>1. ~(x.kind \in DebtKinds /\ l = x.loan)
            BY <4>7, <5>2
          <6>2. q.owed[l] = Owes(s, y, l)
            BY <4>5, <4>12, <6>1
          <6>3. p.owed[l] = Owes(s, y, l)
            BY <3>3, <3>6, <4>12, <5>2
          <6> QED BY <6>2, <6>3
        <5>3. CASE ~(x.kind \in DebtKinds /\ l = x.loan) /\ ~(y.kind \in DebtKinds /\ l = y.loan)
          BY <4>5, <4>6, <4>12, <5>3
        <5> QED BY <5>1, <5>2, <5>3
      <4>14. \A l \in Loans : l \in p.satisfied <=> l \in q.satisfied
        BY <2>1, <3>3, <3>4, <3>6, <4>1, <4>2 DEF HasEffect, x, y
      <4>15. \A k \in DOMAIN h.plan :
                /\ u.unpaid[k] = s.unpaid[k] + (IF k = i THEN Claims(s, x) ELSE 0)
                /\ v.unpaid[k] = s.unpaid[k] + (IF k = j THEN Claims(s, y) ELSE 0)
                /\ p.unpaid[k] = u.unpaid[k] + (IF k = j THEN Claims(s, y) ELSE 0)
                /\ q.unpaid[k] = v.unpaid[k] + (IF k = i THEN Claims(s, x) ELSE 0)
        BY <2>1, <3>3, <3>4, <3>6, <4>1, <4>2 DEF HasEffect, x, y
      <4>16. \A k \in DOMAIN h.plan : p.unpaid[k] = q.unpaid[k]
        BY <4>4, <4>15
      <4>17. /\ u.lots = s.lots + Trades(x) /\ p.lots = u.lots + Trades(y)
             /\ v.lots = s.lots + Trades(y) /\ q.lots = v.lots + Trades(x)
        BY <2>1, <3>6, <4>1, <4>2 DEF HasEffect, x, y
      <4>18. p.lots = q.lots
        BY <4>4, <4>17
      <4>19. SameWorth(p, q)
        BY <1>2, <4>3, <4>9, <4>11, <4>13, <4>14, <4>16, <4>18, SameByParts
      <4> QED BY <4>19 DEF p, q, u, v
    <3> QED BY <3>5, <3>6
  <2> QED BY <2>9, <2>10
<1> QED BY <1>4, <1>5

-----------------------------------------------------------------------------
(* Orders that differ in works that commute.                                 *)

LEMMA SameWorthJoins ==
    ASSUME NEW r, NEW s, NEW t, SameWorth(r, s), SameWorth(s, t) PROVE SameWorth(r, t)
    BY DEF SameWorth

LEMMA SameWorthItself == ASSUME NEW s PROVE SameWorth(s, s)
    BY DEF SameWorth

LEMMA SameWorthBothWays == ASSUME NEW s, NEW t, SameWorth(s, t) PROVE SameWorth(t, s)
    BY DEF SameWorth

\* The two do the same in either order.
Swappable(h, i, j) ==
    \A s \in SoundStates(h) : SameWorth(Step(h, Step(h, s, i), j), Step(h, Step(h, s, j), i))

\* No work comes twice, and every pair of D comes in its order.
Once(o) == \A j, k \in DOMAIN o : o[j] = o[k] => j = k
Obeys(o, D) == \A j, k \in DOMAIN o : <<o[j], o[k]>> \in D => j < k

\* An order without its m-th work.
Without(o, m) == [k \in 1..(Len(o) - 1) |-> IF k < m THEN o[k] ELSE o[k + 1]]

LEMMA WithoutType ==
    ASSUME NEW D, NEW o \in Seq(D), NEW m \in DOMAIN o
    PROVE  /\ Without(o, m) \in Seq(D) /\ Len(Without(o, m)) = Len(o) - 1
           /\ \A k \in 1..(Len(o) - 1) : Without(o, m)[k] = IF k < m THEN o[k] ELSE o[k + 1]
<1>1. Len(o) \in Nat /\ m \in 1..Len(o) /\ DOMAIN o = 1..Len(o)
    OBVIOUS
<1>2. Len(o) - 1 \in Nat
    BY <1>1
<1>3. \A k \in 1..(Len(o) - 1) : (IF k < m THEN o[k] ELSE o[k + 1]) \in D
    BY <1>1
<1> QED BY <1>2, <1>3 DEF Without

\* Of an order with one work more.
LEMMA WithoutAppended ==
    ASSUME NEW D, NEW o \in Seq(D), NEW i \in D, NEW m \in DOMAIN o
    PROVE  Without(Append(o, i), m) = Append(Without(o, m), i)
<1> DEFINE n == Len(o)
           p == Append(o, i)
           a == Without(p, m)
           w == Without(o, m)
           b == Append(w, i)
<1>1. n \in Nat /\ m \in 1..n /\ DOMAIN o = 1..n
    OBVIOUS
<1>2. /\ p \in Seq(D) /\ Len(p) = n + 1 /\ p[n + 1] = i /\ \A k \in 1..n : p[k] = o[k]
      /\ m \in DOMAIN p
    BY <1>1
<1>3. /\ a \in Seq(D) /\ Len(a) = n
      /\ \A k \in 1..n : a[k] = IF k < m THEN p[k] ELSE p[k + 1]
  <2>1. (n + 1) - 1 = n
    BY <1>1
  <2> HIDE DEF p
  <2>2. /\ a \in Seq(D) /\ Len(a) = Len(p) - 1
        /\ \A k \in 1..(Len(p) - 1) : a[k] = IF k < m THEN p[k] ELSE p[k + 1]
    BY <1>2, WithoutType, Zenon
  <2>3. Len(p) - 1 = n
    BY <1>2, <2>1
  <2> QED BY <2>2, <2>3
<1>4. /\ Without(o, m) \in Seq(D) /\ Len(Without(o, m)) = n - 1
      /\ \A k \in 1..(n - 1) : Without(o, m)[k] = IF k < m THEN o[k] ELSE o[k + 1]
    BY WithoutType
<1>5. /\ b \in Seq(D) /\ Len(b) = n /\ b[n] = i
      /\ \A k \in 1..(n - 1) : b[k] = w[k]
  <2>1. w \in Seq(D) /\ Len(w) = n - 1 /\ n \in Nat
    BY <1>1, <1>4
  <2> HIDE DEF w, n
  <2> QED BY <2>1
<1> HIDE DEF a, b, p, n
<1>6. ASSUME NEW k \in 1..n PROVE a[k] = b[k]
  <2>1. CASE k = n
    <3>1. a[k] = p[k + 1]
      BY <1>1, <1>3, <2>1
    <3> QED BY <1>2, <1>5, <2>1, <3>1
  <2>2. CASE k # n
    <3>1. k \in 1..(n - 1) /\ k \in 1..n /\ k + 1 \in 1..n
      BY <1>1, <2>2
    <3>2. b[k] = IF k < m THEN o[k] ELSE o[k + 1]
      BY <1>4, <1>5, <3>1 DEF n
    <3>3. p[k] = o[k] /\ p[k + 1] = o[k + 1]
      BY <1>2, <3>1
    <3> QED BY <1>3, <3>2, <3>3
  <2> QED BY <2>1, <2>2
<1>7. a = b
  <2>1. a = [k \in 1..n |-> a[k]] /\ b = [k \in 1..n |-> b[k]]
    BY <1>1, <1>3, <1>5
  <2> QED BY <1>6, <2>1
<1> QED BY <1>7 DEF a, b, p

\* The last of an order.
LEMMA WithoutLast ==
    ASSUME NEW D, NEW o \in Seq(D), NEW i \in D
    PROVE  Without(Append(o, i), Len(o) + 1) = o
<1> DEFINE n == Len(o)
           p == Append(o, i)
           a == Without(p, n + 1)
<1>1. n \in Nat /\ p \in Seq(D) /\ Len(p) = n + 1 /\ n + 1 \in DOMAIN p /\ \A k \in 1..n : p[k] = o[k]
    OBVIOUS
<1>2. /\ a \in Seq(D) /\ Len(a) = n
      /\ \A k \in 1..n : a[k] = IF k < n + 1 THEN p[k] ELSE p[k + 1]
  <2>1. (n + 1) - 1 = n
    BY <1>1
  <2> HIDE DEF p
  <2> QED BY <1>1, <2>1, WithoutType, ZenonT(60)
<1> HIDE DEF a, p
<1>3. \A k \in 1..n : a[k] = o[k]
    BY <1>1, <1>2
<1>4. a = [k \in 1..n |-> a[k]] /\ o = [k \in 1..n |-> o[k]]
    BY <1>2
<1> QED BY <1>3, <1>4 DEF a, p

\* A work may be done last if it commutes with all that follow it.
LEMMA DoneLast ==
    ASSUME NEW h \in Households, NEW s \in SoundStates(h), NEW o \in Seq(DOMAIN h.plan),
           NEW m \in DOMAIN o, \A k \in DOMAIN o : m < k => Swappable(h, o[m], o[k])
    PROVE  SameWorth(Execute(h, s, o), Execute(h, s, Append(Without(o, m), o[m])))
<1> DEFINE D == DOMAIN h.plan
           n == Len(o)
           Fits(p, l) == l \in DOMAIN p /\ \A k \in DOMAIN p : l < k => Swappable(h, p[l], p[k])
           K == {k \in 0..n : \A p \in Seq(D) : \A l \in DOMAIN p :
                    Len(p) = k /\ Fits(p, l) =>
                       SameWorth(Execute(h, s, p), Execute(h, s, Append(Without(p, l), p[l])))}
<1>1. n \in Nat
    OBVIOUS
<1> HIDE DEF n
<1>2. 0 \in K
    BY <1>1
<1>3. ASSUME NEW k \in 0..n, k < n, k \in K PROVE k + 1 \in K
  <2>0. k \in Nat /\ k + 1 \in 0..n
    BY <1>1, <1>3
  <2>1. ASSUME NEW p \in Seq(D), NEW l \in DOMAIN p, Len(p) = k + 1, Fits(p, l)
        PROVE  SameWorth(Execute(h, s, p), Execute(h, s, Append(Without(p, l), p[l])))
    <3>1. PICK q \in Seq(D) : \E j \in D : Len(q) = k /\ p = Append(q, j)
      <4> HIDE DEF D
      <4> QED BY <2>0, <2>1, SequenceFront
    <3>2. PICK j \in D : Len(q) = k /\ p = Append(q, j)
      BY <3>1
    <3>3. l \in 1..(k + 1) /\ p[k + 1] = j /\ DOMAIN q = 1..k /\ \A x \in 1..k : p[x] = q[x]
      BY <3>2
    <3>4. CASE l = k + 1
      <4>1. Without(p, l) = q /\ p[l] = j
        BY <3>2, <3>3, <3>4, WithoutLast
      <4> QED BY <3>2, <4>1, SameWorthItself
    <3>5. CASE l # k + 1
      <4> DEFINE i == q[l]
                 r == Without(q, l)
                 e == Execute(h, s, r)
      <4>1. l \in 1..k /\ l \in DOMAIN q /\ p[l] = i
        BY <2>0, <3>3, <3>5
      <4>2. i \in D /\ r \in Seq(D)
        BY <4>1, WithoutType
      <4>3. Swappable(h, i, j)
        BY <2>0, <2>1, <3>2, <3>3, <4>1
      <4>4. Fits(q, l)
        <5>1. ASSUME NEW x \in DOMAIN q, l < x PROVE Swappable(h, q[l], q[x])
          <6>1. x \in DOMAIN p /\ p[x] = q[x]
            BY <3>2, <3>3
          <6> QED BY <2>1, <4>1, <5>1, <6>1
        <5> QED BY <4>1, <5>1
      <4>5. SameWorth(Execute(h, s, q), Execute(h, s, Append(r, i)))
        BY <1>3, <3>2, <4>1, <4>4
      <4>6. Without(p, l) = Append(r, j)
        BY <3>2, <4>1, WithoutAppended
      <4> HIDE DEF r, i
      <4>7. Append(r, i) \in Seq(D) /\ Append(r, j) \in Seq(D)
        <5> HIDE DEF D
        <5> QED BY <4>2
      <4>8. /\ Execute(h, s, p) = Step(h, Execute(h, s, q), j)
            /\ Execute(h, s, Append(r, i)) = Step(h, e, i)
            /\ Execute(h, s, Append(Append(r, j), i)) = Step(h, Step(h, e, j), i)
            /\ e \in SoundStates(h) /\ Execute(h, s, q) \in SoundStates(h)
            /\ Execute(h, s, Append(r, i)) \in SoundStates(h)
        <5>1. \A x \in Seq(D) : Execute(h, s, x) \in SoundStates(h)
          BY ExecuteFacts
        <5>2. \A x \in Seq(D) : \A y \in D :
                 Execute(h, s, Append(x, y)) = Step(h, Execute(h, s, x), y)
          BY ExecuteFacts
        <5> HIDE DEF D
        <5>3. Execute(h, s, p) = Step(h, Execute(h, s, q), j)
          BY <3>2, <5>2
        <5>4. Execute(h, s, Append(r, i)) = Step(h, e, i)
          BY <4>2, <5>2
        <5>5. Execute(h, s, Append(r, j)) = Step(h, e, j)
          BY <3>2, <4>2, <5>2
        <5>6. Execute(h, s, Append(Append(r, j), i)) = Step(h, Execute(h, s, Append(r, j)), i)
          BY <4>2, <4>7, <5>2
        <5> QED BY <4>2, <4>7, <5>1, <5>3, <5>4, <5>5, <5>6
      <4> HIDE DEF e
      <4>9. SameWorth(Step(h, Execute(h, s, q), j), Step(h, Step(h, e, i), j))
        <5>1. Sound(h, Execute(h, s, q)) /\ Sound(h, Execute(h, s, Append(r, i)))
          BY <4>8 DEF SoundStates
        <5> QED BY <4>5, <4>8, <5>1, StepSameWorth
      <4>10. SameWorth(Step(h, Step(h, e, i), j), Step(h, Step(h, e, j), i))
        BY <4>3, <4>8 DEF Swappable
      <4>11. SameWorth(Execute(h, s, p), Execute(h, s, Append(Append(r, j), i)))
        BY <4>8, <4>9, <4>10, SameWorthJoins
      <4> QED BY <4>1, <4>6, <4>11
    <3> QED BY <3>4, <3>5
  <2> QED BY <2>0, <2>1
<1> HIDE DEF K
<1>4. \A k \in 0..n : k \in K
    BY <1>1, <1>2, <1>3, Induction
<1>5. n \in K
    BY <1>1, <1>4
<1> QED BY <1>5 DEF K, n

LEMMA WithoutKeeps ==
    ASSUME NEW D, NEW o \in Seq(D), NEW m \in DOMAIN o, Once(o), NEW deps
    PROVE  /\ Once(Without(o, m)) /\ Range(Without(o, m)) = Range(o) \ {o[m]}
           /\ Obeys(o, deps) => Obeys(Without(o, m), deps)
<1> DEFINE n == Len(o)
           r == Without(o, m)
           At1(k) == IF k < m THEN k ELSE k + 1
<1>1. n \in Nat /\ m \in 1..n /\ DOMAIN o = 1..n
    OBVIOUS
<1>2. /\ r \in Seq(D) /\ DOMAIN r = 1..(n - 1)
      /\ \A k \in 1..(n - 1) : r[k] = IF k < m THEN o[k] ELSE o[k + 1]
  <2>1. /\ r \in Seq(D) /\ Len(r) = n - 1
        /\ \A k \in 1..(n - 1) : r[k] = IF k < m THEN o[k] ELSE o[k + 1]
    BY WithoutType
  <2> HIDE DEF r
  <2> QED BY <2>1
<1> HIDE DEF r, n
<1>3. \A k \in 1..(n - 1) : At1(k) \in 1..n /\ At1(k) # m /\ r[k] = o[At1(k)]
    BY <1>1, <1>2
<1>4. \A j, k \in 1..(n - 1) : (At1(j) = At1(k) => j = k) /\ (At1(j) < At1(k) => j < k)
    BY <1>1
<1>5. \A x \in 1..n : x # m => \E k \in 1..(n - 1) : At1(k) = x
  <2> SUFFICES ASSUME NEW x \in 1..n, x # m PROVE \E k \in 1..(n - 1) : At1(k) = x
    OBVIOUS
  <2>1. CASE x < m
    <3>1. x \in 1..(n - 1) /\ At1(x) = x
      BY <1>1, <2>1
    <3> QED BY <3>1
  <2>2. CASE x > m
    <3>1. x - 1 \in 1..(n - 1) /\ At1(x - 1) = x
      BY <1>1, <2>2
    <3> QED BY <3>1
  <2> QED BY <1>1, <2>1, <2>2
<1> HIDE DEF At1
<1>6. Once(r)
    BY <1>1, <1>2, <1>3, <1>4 DEF Once
<1>7. Obeys(o, deps) => Obeys(r, deps)
    BY <1>1, <1>2, <1>3, <1>4 DEF Obeys
<1>8. Range(r) = Range(o) \ {o[m]}
  <2>1. ASSUME NEW k \in 1..(n - 1) PROVE r[k] \in Range(o) \ {o[m]}
    BY <1>1, <1>3 DEF Range, Once
  <2>2. ASSUME NEW x \in 1..n, o[x] # o[m] PROVE \E k \in 1..(n - 1) : r[k] = o[x]
    BY <1>3, <1>5, <2>2
  <2>3. Range(r) = {r[k] : k \in 1..(n - 1)} /\ Range(o) = {o[k] : k \in 1..n}
    BY <1>1, <1>2 DEF Range
  <2> QED BY <2>1, <2>2, <2>3
<1> QED BY <1>6, <1>7, <1>8 DEF r

\* Two orders of the same works that keep the same dependencies, and the dependencies
\* leave open only what commutes.
Alternatives(h, p, q, deps) ==
    /\ Len(p) = Len(q) /\ Range(p) = Range(q) /\ Once(p) /\ Once(q)
    /\ Obeys(p, deps) /\ Obeys(q, deps)
    /\ \A i, j \in Range(p) :
          i # j => <<i, j>> \in deps \/ <<j, i>> \in deps \/ Swappable(h, i, j)

\* The last work of the one may be done last in the other.
LEMMA AlternativeLast ==
    ASSUME NEW h, NEW D, NEW p \in Seq(D), NEW q \in Seq(D), NEW i \in D, NEW deps,
           Alternatives(h, p, Append(q, i), deps)
    PROVE  \E m \in DOMAIN p : /\ p[m] = i
                               /\ \A k \in DOMAIN p : m < k => Swappable(h, p[m], p[k])
                               /\ Alternatives(h, Without(p, m), q, deps)
<1> DEFINE n == Len(q)
           w == Append(q, i)
<1>1. /\ n \in Nat /\ DOMAIN q = 1..n /\ w \in Seq(D) /\ DOMAIN w = 1..(n + 1) /\ Len(w) = n + 1
      /\ w[n + 1] = i /\ \A k \in 1..n : w[k] = q[k]
    OBVIOUS
<1>2. /\ Len(p) = Len(w) /\ Range(p) = Range(w) /\ Once(p) /\ Once(w)
      /\ Obeys(p, deps) /\ Obeys(w, deps)
    BY DEF Alternatives
<1>3. \A x, y \in Range(p) :
         x # y => <<x, y>> \in deps \/ <<y, x>> \in deps \/ Swappable(h, x, y)
    BY DEF Alternatives
<1> HIDE DEF w, n
<1>4. DOMAIN p = 1..(n + 1) /\ Len(p) = n + 1
    BY <1>1, <1>2
<1>5. n + 1 \in 1..(n + 1)
    BY <1>1
<1>6. i \in Range(w)
    BY <1>1, <1>5 DEF Range
<1>7. PICK m \in DOMAIN p : p[m] = i
    BY <1>2, <1>6 DEF Range
<1>8. ASSUME NEW k \in DOMAIN p, m < k PROVE Swappable(h, p[m], p[k])
  <2>1. p[k] # i
    BY <1>2, <1>4, <1>7, <1>8 DEF Once
  <2>2. p[k] \in Range(p) /\ i \in Range(p)
    BY <1>2, <1>6 DEF Range
  <2>3. PICK x \in 1..(n + 1) : w[x] = p[k]
    BY <1>1, <1>2, <2>2 DEF Range
  <2>4. x # n + 1 /\ x < n + 1
    BY <1>1, <2>1, <2>3
  <2>5. <<i, p[k]>> \notin deps
    <3>1. <<w[n + 1], w[x]>> \in deps => n + 1 < x
      BY <1>1, <1>2, <1>5, <2>3 DEF Obeys
    <3>2. ~(n + 1 < x)
      BY <1>1, <2>4
    <3> QED BY <1>1, <2>3, <3>1, <3>2
  <2>6. <<p[k], i>> \notin deps
    <3>1. <<p[k], p[m]>> \in deps => k < m
      BY <1>2, <1>8 DEF Obeys
    <3>2. ~(k < m)
      BY <1>1, <1>4, <1>8
    <3> QED BY <1>7, <3>1, <3>2
  <2> QED BY <1>3, <1>7, <2>1, <2>2, <2>5, <2>6
<1> DEFINE r == Without(p, m)
<1>9. /\ Once(r) /\ Range(r) = Range(p) \ {i} /\ Obeys(r, deps) /\ Len(r) = n
  <2>1. Once(r) /\ Range(r) = Range(p) \ {i} /\ Obeys(r, deps)
    BY <1>2, <1>7, WithoutKeeps
  <2>2. Len(r) = (n + 1) - 1
    BY <1>4, WithoutType
  <2> QED BY <1>1, <2>1, <2>2
<1> HIDE DEF r
<1>10. Range(q) = Range(w) \ {i}
  <2>1. \A k \in 1..n : w[k] # i
    BY <1>1, <1>2, <1>5 DEF Once
  <2>2. 1..(n + 1) = (1..n) \cup {n + 1}
    BY <1>1
  <2>3. Range(w) = {w[k] : k \in 1..(n + 1)} /\ Range(q) = {q[k] : k \in 1..n}
    BY <1>1 DEF Range
  <2> QED BY <1>1, <2>1, <2>2, <2>3
<1>11. \A k \in 1..n : k \in 1..(n + 1)
    BY <1>1
<1>12. Once(q) /\ Obeys(q, deps)
    BY <1>1, <1>2, <1>11 DEF Once, Obeys
<1>13. \A x, y \in Range(r) :
          x # y => <<x, y>> \in deps \/ <<y, x>> \in deps \/ Swappable(h, x, y)
    BY <1>3, <1>9
<1>14. Alternatives(h, r, q, deps)
    BY <1>1, <1>2, <1>9, <1>10, <1>12, <1>13 DEF Alternatives, n
<1> QED BY <1>7, <1>8, <1>14 DEF r

EndsWith(o, T, k) == \E q \in Seq(T) : \E i \in T : Len(q) = k /\ o = Append(q, i)

LEMMA SequenceEnd ==
    ASSUME NEW T, NEW k \in Nat, NEW o \in Seq(T), Len(o) = k + 1 PROVE EndsWith(o, T, k)
    BY SequenceFront, SMTT(60) DEF EndsWith

\* What the dependencies leave open gives nothing away: every order that keeps them ends
\* in the same balances, claims, lots and services, if they put every two works in order
\* that do not commute.
THEOREM OrdersAgree ==
    ASSUME NEW h \in Households, NEW s \in SoundStates(h), NEW p \in Seq(DOMAIN h.plan),
           NEW q \in Seq(DOMAIN h.plan), NEW deps, Alternatives(h, p, q, deps)
    PROVE  SameWorth(Execute(h, s, p), Execute(h, s, q))
<1> DEFINE D == DOMAIN h.plan
           n == Len(q)
           K == {k \in 0..n : \A x, y \in Seq(D) :
                    Len(y) = k /\ Alternatives(h, x, y, deps) =>
                       SameWorth(Execute(h, s, x), Execute(h, s, y))}
<1>1. n \in Nat
    OBVIOUS
<1> HIDE DEF n
<1>2. 0 \in K
  <2>1. ASSUME NEW x \in Seq(D), NEW y \in Seq(D), Len(y) = 0, Alternatives(h, x, y, deps)
        PROVE  x = y
    <3>1. Len(x) = 0
      BY <2>1 DEF Alternatives
    <3>2. x = <<>> /\ y = <<>>
      BY <2>1, <3>1
    <3> QED BY <3>2
  <2> QED BY <1>1, <2>1, SameWorthItself
<1>3. ASSUME NEW k \in 0..n, k < n, k \in K PROVE k + 1 \in K
  <2>0. k \in Nat /\ k + 1 \in 0..n
    BY <1>1, <1>3
  <2>1. ASSUME NEW x \in Seq(D), NEW y \in Seq(D), Len(y) = k + 1, Alternatives(h, x, y, deps)
        PROVE  SameWorth(Execute(h, s, x), Execute(h, s, y))
    <3>0. y \in Seq(D) /\ Len(y) = k + 1
      BY <2>1
    <3>1. PICK z \in Seq(D) : \E i \in D : Len(z) = k /\ y = Append(z, i)
      <4>1. EndsWith(y, D, k)
        <5> HIDE DEF D, K
        <5> QED BY <2>0, <3>0, SequenceEnd
      <4> QED BY <4>1 DEF EndsWith
    <3>2. PICK i \in D : Len(z) = k /\ y = Append(z, i)
      BY <3>1
    <3>3. PICK m \in DOMAIN x : /\ x[m] = i
                                /\ \A l \in DOMAIN x : m < l => Swappable(h, x[m], x[l])
                                /\ Alternatives(h, Without(x, m), z, deps)
      <4>1. Alternatives(h, x, Append(z, i), deps)
        BY <2>1, <3>2
      <4> HIDE DEF D
      <4> QED BY <4>1, AlternativeLast
    <3> DEFINE r == Without(x, m)
    <3>4. r \in Seq(D)
      BY WithoutType
    <3>5. SameWorth(Execute(h, s, x), Execute(h, s, Append(r, i)))
      BY <3>3, DoneLast
    <3> HIDE DEF r
    <3>6. SameWorth(Execute(h, s, r), Execute(h, s, z))
      BY <1>3, <3>2, <3>3, <3>4 DEF r
    <3>7. SameWorth(Step(h, Execute(h, s, r), i), Step(h, Execute(h, s, z), i))
      <4>1. Sound(h, Execute(h, s, r)) /\ Sound(h, Execute(h, s, z))
        BY <3>4, ExecuteFacts DEF SoundStates
      <4> QED BY <3>6, <4>1, StepSameWorth
    <3>8. /\ Execute(h, s, Append(r, i)) = Step(h, Execute(h, s, r), i)
          /\ Execute(h, s, y) = Step(h, Execute(h, s, z), i)
      BY <3>2, <3>4, ExecuteFacts
    <3> QED BY <3>5, <3>7, <3>8, SameWorthJoins
  <2> QED BY <2>0, <2>1
<1> HIDE DEF K
<1>4. \A k \in 0..n : k \in K
    BY <1>1, <1>2, <1>3, Induction
<1>5. n \in K
    BY <1>1, <1>4
<1> QED BY <1>5 DEF K, n

-----------------------------------------------------------------------------
(* An instant executes what was decided.                                     *)

\* The order the decisions about the groups leave to be executed.
DecidedOrder(h, tier, s, S) == FirstOrder(S, EdgesOf(h, tier, s, S, GroupsOf(h, S)))

\* The works still to execute are the end of the order decided in the state s the instant
\* began with, and the candidate is where the works before them led.
AsDecided(h, tier, S, left, c) ==
    \E s \in SoundStates(h), done \in Seq(S) :
        /\ Settles(h, tier, s, S)
        /\ DecidedOrder(h, tier, s, S) = done \o left
        /\ c = Execute(h, s, done)

ExecutesDecision == phase = "execute" => AsDecided(household, Tier, InstantWork, queue, cand)

LEMMA CandIsSound ==
    ASSUME IInv
    PROVE  /\ household \in Households /\ cand \in SoundStates(household)
           /\ InstantWork \in SUBSET DOMAIN household.plan /\ InstantWork \in SUBSET Nat
           /\ IsFiniteSet(InstantWork)
<1>1. household \in Households /\ cand \in SoundStates(household)
    BY DEF IInv, TypeOK, Stored, SoundStates, Sound
<1>2. InstantWork \subseteq work /\ InstantWork \in SUBSET Nat /\ IsFiniteSet(InstantWork)
    BY InstantWorkFinite DEF IInv
<1>3. work \subseteq DOMAIN household.plan
    BY DEF IInv, TypeOK
<1> QED BY <1>1, <1>2, <1>3

\* The order is fixed while the instant begins to execute.
LEMMA OrderDecides == ASSUME IInv, MInv, OrderInstant PROVE ExecutesDecision'
<1> SUFFICES ASSUME phase' = "execute"
             PROVE  AsDecided(household, Tier, InstantWork, queue, cand)'
    BY DEF ExecutesDecision
<1> DEFINE S == InstantWork
           all == GroupsOf(household, S)
<1>1. /\ phase = "decide" /\ groups = {} /\ queue' = FirstOrder(S, edges)
      /\ UNCHANGED <<household, mode, instant, work, cand>>
    BY DEF OrderInstant, Refuse
<1>2. /\ edges = EdgesOf(household, Tier, cand, S, all \ groups)
    BY <1>1 DEF MInv, Deciding
<1>3. all \ groups = all
    BY <1>1
<1>4. S' = S /\ Tier' = Tier
    BY <1>1 DEF InstantWork, Tier
<1>5. Settles(household, Tier, cand, S)
    BY OrderSettles
<1> HIDE DEF S, all
<1>6. queue' = DecidedOrder(household, Tier, cand, S)
    BY <1>1, <1>2, <1>3 DEF DecidedOrder, all
<1>7. household \in Households /\ cand \in SoundStates(household)
    BY CandIsSound
<1>8. Execute(household, cand, <<>>) = cand
    BY <1>7, ExecuteFacts
<1>9. <<>> \in Seq(S) /\ queue' = <<>> \o queue'
  <2>1. queue' \in Seq(InstantWork)
    BY <1>1, <1>4, OrderKeeps DEF IInv, Pending, S
  <2> QED BY <2>1
<1>10. AsDecided(household, Tier, S, queue', cand)
    BY <1>5, <1>6, <1>7, <1>8, <1>9 DEF AsDecided
<1>11. household' = household /\ Tier' = Tier /\ InstantWork' = S /\ cand' = cand
    BY <1>1, <1>4 DEF S
<1> QED BY <1>10, <1>11

\* And each work is the next of it.
LEMMA ExecuteFollows == ASSUME IInv, ExecutesDecision, ExecuteOperation PROVE ExecutesDecision'
<1> SUFFICES ASSUME phase' = "execute"
             PROVE  AsDecided(household, Tier, InstantWork, queue, cand)'
    BY DEF ExecutesDecision
<1> DEFINE S == InstantWork
           i == Head(queue)
<1>1. /\ phase = "execute" /\ queue # <<>> /\ queue' = Tail(queue)
      /\ cand' = Step(household, cand, i)
      /\ UNCHANGED <<household, mode, instant, work>>
    BY DEF ExecuteOperation
<1>2. S' = S /\ Tier' = Tier
    BY <1>1 DEF InstantWork, Tier
<1>3. PICK s \in SoundStates(household), done \in Seq(S) :
         /\ Settles(household, Tier, s, S)
         /\ DecidedOrder(household, Tier, s, S) = done \o queue
         /\ cand = Execute(household, s, done)
    BY <1>1 DEF ExecutesDecision, AsDecided
<1>4. household \in Households /\ S \in SUBSET DOMAIN household.plan
    BY CandIsSound
<1>5. queue \in Seq(S)
    BY <1>1 DEF IInv, Pending
<1> HIDE DEF S
<1>6. i \in S /\ Tail(queue) \in Seq(S) /\ queue = <<i>> \o Tail(queue)
    BY <1>1, <1>5
<1>7. Append(done, i) \in Seq(S) /\ done \o queue = Append(done, i) \o Tail(queue)
    BY <1>6, SMTT(60)
<1>8. Execute(household, s, Append(done, i)) = cand'
  <2>1. done \in Seq(DOMAIN household.plan) /\ i \in DOMAIN household.plan
    BY <1>4, <1>6, SeqWithin
  <2> QED BY <1>1, <1>3, <1>4, <2>1, ExecuteFacts
<1>9. AsDecided(household, Tier, S, Tail(queue), cand')
    BY <1>3, <1>7, <1>8 DEF AsDecided
<1>10. household' = household /\ Tier' = Tier /\ InstantWork' = S /\ queue' = Tail(queue)
    BY <1>1, <1>2 DEF S
<1> QED BY <1>9, <1>10

LEMMA DecisionInductive ==
    ASSUME IInv, MInv, ExecutesDecision, [Next]_vars PROVE ExecutesDecision'
<1>1. CASE UNCHANGED vars
  <2>1. UNCHANGED <<household, mode, phase, instant, work, queue, cand>>
    BY <1>1 DEF vars
  <2>2. InstantWork' = InstantWork /\ Tier' = Tier
    BY <2>1 DEF InstantWork, Tier
  <2> QED BY <2>1, <2>2 DEF ExecutesDecision
<1>2. CASE DecideGroup
  <2>1. phase = "decide" /\ phase' # "execute"
    BY <1>2 DEF DecideGroup, Refuse
  <2> QED BY <2>1 DEF ExecutesDecision
<1>3. CASE Prepare \/ Sequence \/ NextInstant \/ Commit \/ Abort \/ StartReplay \/ Verify
  <2>1. phase' # "execute"
    BY <1>3 DEF Prepare, Sequence, NextInstant, Commit, Abort, StartReplay, Verify
  <2> QED BY <2>1 DEF ExecutesDecision
<1> QED BY <1>1, <1>2, <1>3, OrderDecides, ExecuteFollows DEF Next

\* An instant executes the order that was decided on the state it began with, each work
\* on the state all those before it left: nothing is decided again on what the works of
\* the instant changed, no work is left out and none is done twice.
THEOREM DecisionIsExecuted == Spec => []ExecutesDecision
<1>1. Init => ExecutesDecision
    BY DEF Init, ExecutesDecision
<1>2. IInv /\ MInv /\ [Next]_vars => MInv'
    BY MonthInductive
<1>3. IInv /\ MInv /\ ExecutesDecision /\ [Next]_vars => ExecutesDecision'
    BY DecisionInductive
<1> QED BY Invariance, MonthInitially, <1>1, <1>2, <1>3, PTL DEF Spec

-----------------------------------------------------------------------------
(* What is left of an instant, and every other order of it.                  *)

\* An order of all of S has each work once, and keeps the dependencies.
LEMMA OrderFacts ==
    ASSUME NEW S \in SUBSET Nat, IsFiniteSet(S), NEW deps, NEW o \in Orders(S, deps)
    PROVE  o \in Seq(S) /\ Len(o) = Cardinality(S) /\ Range(o) = S /\ Once(o) /\ Obeys(o, deps)
<1>1. /\ o \in Seq(S) /\ Cardinality(Range(o)) = Len(o) /\ Len(o) = Cardinality(S)
      /\ \A k \in DOMAIN o : o[k] \in Ready(S, deps, Before(o, k))
    BY DEF Orders, Admitted
<1>2. Range(o) \subseteq S /\ DOMAIN o \subseteq Nat /\ \A k \in DOMAIN o : o[k] \in S
    BY <1>1 DEF Range
<1>3. Range(o) = S
    BY <1>1, <1>2, FS_Subset
<1>4. ASSUME NEW j \in DOMAIN o, NEW k \in DOMAIN o, j < k PROVE o[j] # o[k]
  <2>1. o[j] \in Before(o, k)
    BY <1>4 DEF Before
  <2>2. o[k] \notin Before(o, k)
    BY <1>1 DEF Ready
  <2> QED BY <2>1, <2>2
<1>5. Once(o)
    BY <1>2, <1>4 DEF Once
<1>6. ASSUME NEW j \in DOMAIN o, NEW k \in DOMAIN o, <<o[j], o[k]>> \in deps PROVE j < k
  <2>1. o[j] \in Before(o, k)
    BY <1>1, <1>2, <1>6 DEF Ready
  <2>2. PICK m \in DOMAIN o : m < k /\ o[m] = o[j]
    BY <2>1 DEF Before
  <2>3. m = j
    BY <1>5, <2>2 DEF Once
  <2> QED BY <2>2, <2>3
<1> QED BY <1>1, <1>3, <1>5, <1>6 DEF Obeys

\* The end of such an order keeps them too, and nothing outside it waits for it.
LEMMA EndKeeps ==
    ASSUME NEW S \in SUBSET Nat, IsFiniteSet(S), NEW deps, deps \subseteq S \X S,
           NEW done \in Seq(S), NEW left \in Seq(S), done \o left \in Orders(S, deps)
    PROVE  /\ Once(left) /\ Obeys(left, deps)
           /\ \A e \in deps : e[1] \in Range(left) => e[2] \in Range(left)
<1> DEFINE n == Len(done)
           m == Len(left)
           o == done \o left
<1>1. /\ n \in Nat /\ m \in Nat /\ DOMAIN left = 1..m /\ DOMAIN o = 1..(n + m)
      /\ \A k \in 1..m : o[n + k] = left[k]
    OBVIOUS
<1>2. Range(o) = S /\ Once(o) /\ Obeys(o, deps)
    BY OrderFacts
<1> HIDE DEF o, n, m
<1>3. \A k \in 1..m : n + k \in 1..(n + m)
    BY <1>1
<1>4. Once(left)
  <2>1. ASSUME NEW j \in 1..m, NEW k \in 1..m, left[j] = left[k] PROVE j = k
    <3>1. o[n + j] = o[n + k]
      BY <1>1, <2>1
    <3>2. n + j = n + k
      BY <1>1, <1>2, <1>3, <3>1 DEF Once
    <3> QED BY <1>1, <3>2
  <2> QED BY <1>1, <2>1 DEF Once
<1>5. Obeys(left, deps)
  <2>1. ASSUME NEW j \in 1..m, NEW k \in 1..m, <<left[j], left[k]>> \in deps PROVE j < k
    <3>1. <<o[n + j], o[n + k]>> \in deps
      BY <1>1, <2>1
    <3>2. n + j < n + k
      BY <1>1, <1>2, <1>3, <3>1 DEF Obeys
    <3> QED BY <1>1, <3>2
  <2> QED BY <1>1, <2>1 DEF Obeys
<1>6. ASSUME NEW e \in deps, e[1] \in Range(left) PROVE e[2] \in Range(left)
  <2>1. PICK k \in 1..m : left[k] = e[1]
    BY <1>1, <1>6 DEF Range
  <2>2. PICK x \in 1..(n + m) : o[x] = e[2]
    BY <1>1, <1>2 DEF Range
  <2>3. <<o[n + k], o[x]>> \in deps
    <3>1. e = <<e[1], e[2]>>
      OBVIOUS
    <3> QED BY <1>1, <2>1, <2>2, <3>1
  <2>4. n + k < x
    BY <1>1, <1>2, <1>3, <2>3 DEF Obeys
  <2>5. x - n \in 1..m /\ n + (x - n) = x
    BY <1>1, <2>4
  <2>6. left[x - n] = e[2]
    BY <1>1, <2>2, <2>5
  <2> QED BY <1>1, <2>5, <2>6 DEF Range
<1> QED BY <1>4, <1>5, <1>6

\* An order that keeps dependencies keeps the paths along them.
LEMMA PathsKept ==
    ASSUME NEW S, IsFiniteSet(S), NEW deps, deps \subseteq S \X S, NEW o \in Seq(S),
           Once(o), Obeys(o, deps), \A e \in deps : e[1] \in Range(o) => e[2] \in Range(o)
    PROVE  Obeys(o, Reaches(deps, S))
<1> DEFINE Follows(a, b) == \E j, k \in DOMAIN o : j < k /\ a = o[j] /\ b = o[k]
           R == {e \in S \X S : e[1] \notin Range(o) \/ Follows(e[1], e[2])}
<1>1. R \in SUBSET (S \X S) /\ deps \in SUBSET (S \X S)
    OBVIOUS
<1>2. DOMAIN o \subseteq Nat
    OBVIOUS
<1>3. ASSUME NEW a \in S, NEW b \in S, <<a, b>> \in deps PROVE <<a, b>> \in R
  <2>1. CASE a \notin Range(o)
    BY <2>1
  <2>2. CASE a \in Range(o)
    <3>1. b \in Range(o)
      BY <1>3, <2>2
    <3>2. PICK j \in DOMAIN o, k \in DOMAIN o : a = o[j] /\ b = o[k]
      BY <2>2, <3>1 DEF Range
    <3>3. j < k
      BY <1>3, <3>2 DEF Obeys
    <3> QED BY <3>2, <3>3
  <2> QED BY <2>1, <2>2
<1>4. deps \subseteq R
    BY <1>1, <1>3
<1>5. ASSUME NEW k \in S, NEW a, NEW b, <<a, k>> \in R, <<k, b>> \in R PROVE <<a, b>> \in R
  <2>0. a \in S /\ b \in S
    BY <1>5
  <2>1. CASE a \notin Range(o)
    BY <2>0, <2>1
  <2>2. CASE a \in Range(o)
    <3>1. PICK x \in DOMAIN o, y \in DOMAIN o : x < y /\ a = o[x] /\ k = o[y]
      BY <1>5, <2>2
    <3>2. k \in Range(o)
      BY <3>1 DEF Range
    <3>3. PICK z \in DOMAIN o, w \in DOMAIN o : z < w /\ k = o[z] /\ b = o[w]
      BY <1>5, <3>2
    <3>4. z = y
      BY <3>1, <3>3 DEF Once
    <3>5. x < w
      <4>1. x \in Nat /\ y \in Nat /\ w \in Nat
        BY <1>2, <3>1, <3>3
      <4> QED BY <3>1, <3>3, <3>4, <4>1
    <3> QED BY <2>0, <3>1, <3>3, <3>5
  <2> QED BY <2>1, <2>2
<1>6. ClosedAt(R, S)
    BY <1>5 DEF ClosedAt
<1>7. Reaches(deps, S) \subseteq R
  <2> HIDE DEF R
  <2> QED BY <1>1, <1>4, <1>6, ReachesIsClosure
<1>8. ASSUME NEW j \in DOMAIN o, NEW k \in DOMAIN o, <<o[j], o[k]>> \in Reaches(deps, S)
      PROVE  j < k
  <2>1. <<o[j], o[k]>> \in R /\ o[j] \in Range(o)
    BY <1>7, <1>8 DEF Range
  <2>2. PICK x \in DOMAIN o, y \in DOMAIN o : x < y /\ o[j] = o[x] /\ o[k] = o[y]
    BY <2>1
  <2>3. x = j /\ y = k
    BY <2>2 DEF Once
  <2> QED BY <2>2, <2>3
<1> QED BY <1>8 DEF Obeys

\* The dependencies the works declare are among what the contracts put in order.
LEMMA DependenciesInContract ==
    ASSUME NEW h, NEW S, NEW T
    PROVE  ExplicitEdges(h, S) \cap (T \X T) \subseteq Contract(h, T)
<1> SUFFICES ASSUME NEW i \in T, NEW j \in T, <<i, j>> \in ExplicitEdges(h, S)
             PROVE  <<i, j>> \in Contract(h, T)
    OBVIOUS
<1> DEFINE x == h.plan[i]
           y == h.plan[j]
<1>1. CASE <<i, j>> \in CashEdges(h, S)
  <2>1. /\ Domain[x.kind] = "cash_flow" /\ Domain[y.kind] = "cash_flow" /\ i # j
        /\ CashPrecedes(h, i, j)
    BY <1>1 DEF CashEdges, Consecutive, OfDomain
  <2> QED BY <2>1 DEF Contract
<1>2. CASE <<i, j>> \in InvestmentEdges(h, S)
  <2>1. /\ Domain[x.kind] = "investments" /\ Domain[y.kind] = "investments"
        /\ Range(Targets(x)) \cap Range(Targets(y)) # {}
        /\ x.order < y.order \/ (x.order = y.order /\ i < j)
    <3> DEFINE all == OfDomain(h, S, "investments")
               chain(t) == {k \in all : t \in Range(Targets(h.plan[k]))}
               precedes(k, l) == \/ h.plan[k].order < h.plan[l].order
                                 \/ h.plan[k].order = h.plan[l].order /\ k < l
               links(t) == Consecutive(chain(t), precedes)
               following(l) == {t \in Range(Targets(h.plan[l])) : \E e \in links(t) : e[2] = l}
               kept(l) == CHOOSE t \in following(l) :
                             \A u \in following(l) : Met(h, all, u) <= Met(h, all, t)
    <3>1. InvestmentEdges(h, S) =
              UNION {{e \in links(kept(l)) : e[2] = l} : l \in {k \in all : following(k) # {}}}
      BY DEF InvestmentEdges
    <3>2. ASSUME NEW t, <<i, j>> \in links(t)
          PROVE  /\ Domain[x.kind] = "investments" /\ Domain[y.kind] = "investments"
                 /\ t \in Range(Targets(x)) \cap Range(Targets(y))
                 /\ x.order < y.order \/ (x.order = y.order /\ i < j)
      BY <3>2 DEF Consecutive, OfDomain
    <3>3. PICK t : <<i, j>> \in links(t)
      <4> HIDE DEF links, kept, following, all
      <4> QED BY <1>2, <3>1
    <3> QED BY <3>2, <3>3
  <2> QED BY <2>1 DEF Contract
<1>3. CASE <<i, j>> \in DebtEdges(h, S)
  <2>1. \/ x.kind = "required" /\ y.kind = "extra"
        \/ /\ x.kind = y.kind /\ x.kind \in {"required", "extra"}
           /\ Range(x.from) \cap Range(y.from) # {}
           /\ x.order > y.order \/ (x.order = y.order /\ i < j)
    BY <1>3 DEF DebtEdges, Consecutive, OfKind
  <2> QED BY <2>1, SMTT(60) DEF Contract
<1>4. CASE <<i, j>> \in DomainEdges(h, S)
  <2>1. <<i, j>> \in DomainEdges(h, T)
    BY <1>4 DEF DomainEdges, OfDomain, OfKind
  <2> QED BY <2>1 DEF Contract
<1> QED BY <1>1, <1>2, <1>3, <1>4 DEF ExplicitEdges

LEMMA ContractWithin == ASSUME NEW h, NEW S PROVE Contract(h, S) \subseteq S \X S
<1>1. DomainEdges(h, S) \subseteq S \X S
    BY DEF DomainEdges, OfDomain, OfKind
<1> QED BY <1>1 DEF Contract

LEMMA OnceCounts ==
    ASSUME NEW T, NEW o \in Seq(T), Once(o) PROVE Cardinality(Range(o)) = Len(o)
<1> DEFINE n == Len(o)
<1>1. n \in Nat /\ DOMAIN o = 1..n /\ o \in [1..n -> Range(o)]
    BY DEF Range
<1>2. /\ \A j, k \in 1..n : o[j] = o[k] => j = k
      /\ \A x \in Range(o) : \E k \in 1..n : o[k] = x
    BY <1>1 DEF Once, Range
<1> HIDE DEF n
<1>3. o \in Bijection(1..n, Range(o))
    BY <1>1, <1>2 DEF Bijection, Injection, Surjection, IsInjective
<1>4. Cardinality(Range(o)) = n
    BY <1>1, <1>3, FS_CountingElements DEF ExistsBijection
<1> QED BY <1>4 DEF n

\* Dependencies that the queue keeps and every order by contract, and that leave open only
\* independent works, leave nothing to the ids.
LEMMA NothingByIds ==
    ASSUME IInv, phase = "execute", NEW deps, Once(queue), Obeys(queue, deps),
           \A o \in Orders(Range(queue), Contract(household, Range(queue))) : Obeys(o, deps),
           \A i, j \in Range(queue) :
              i # j => \/ <<i, j>> \in deps \/ <<j, i>> \in deps
                       \/ Independent(household.plan[i], household.plan[j])
    PROVE  AllocationByContract
<1> DEFINE D == DOMAIN household.plan
           left == Range(queue)
           claims == Contract(household, left)
<1>1. /\ household \in Households /\ cand \in SoundStates(household)
      /\ InstantWork \in SUBSET D /\ InstantWork \in SUBSET Nat /\ IsFiniteSet(InstantWork)
    BY CandIsSound
<1>2. queue \in Seq(InstantWork)
    BY DEF IInv, Pending
<1>3. left \subseteq InstantWork
    BY <1>2 DEF Range
<1>4. left \in SUBSET Nat /\ left \in SUBSET D /\ IsFiniteSet(left)
    BY <1>1, <1>3, FS_Subset
<1>5. queue \in Seq(D)
    BY <1>1, <1>2, SeqWithin
<1>6. Len(queue) = Cardinality(left)
    BY <1>2, OnceCounts
<1> HIDE DEF claims
<1>7. ASSUME NEW i \in left, NEW j \in left, i # j,
             Independent(household.plan[i], household.plan[j])
      PROVE  Swappable(household, i, j)
  <2>1. i \in D /\ j \in D
    BY <1>4
  <2>2. \A s \in SoundStates(household) : Sound(household, s)
    BY DEF SoundStates
  <2> QED BY <1>1, <1>7, <2>1, <2>2, IndependentWorksCommute DEF Swappable
<1>8. ASSUME NEW o \in Orders(left, claims)
      PROVE  Economics(Execute(household, cand, o)) = Economics(Execute(household, cand, queue))
  <2>1. o \in Seq(left) /\ Len(o) = Cardinality(left) /\ Range(o) = left /\ Once(o)
    BY <1>4, <1>8, OrderFacts
  <2>2. o \in Seq(D)
    BY <1>4, <2>1, SeqWithin
  <2>3. Obeys(o, deps)
    BY <1>8 DEF claims
  <2>4. \A i, j \in Range(o) :
           i # j => <<i, j>> \in deps \/ <<j, i>> \in deps \/ Swappable(household, i, j)
    BY <1>7, <2>1
  <2>5. Alternatives(household, o, queue, deps)
    BY <1>6, <2>1, <2>3, <2>4 DEF Alternatives
  <2> QED BY <1>1, <1>5, <2>2, <2>5, OrdersAgree, SameEconomics
<1>9. Outcomes(household, left, claims, cand)
         = {Execute(household, cand, o) : o \in Orders(left, claims)}
  <2> HIDE DEF left
  <2> QED BY <1>1, <1>4, OutcomesAreExact
<1> QED BY <1>8, <1>9 DEF AllocationByContract, claims

\* A work still to execute waits for none that was executed, and comes after all those of
\* the queue it depends on.
DependenciesKept ==
    phase = "execute" =>
        LET declared == ExplicitEdges(household, InstantWork)
        IN  /\ Once(queue) /\ Obeys(queue, declared)
            /\ \A e \in declared : e[1] \in Range(queue) => e[2] \in Range(queue)

LEMMA DecisionKeepsDependencies == ASSUME IInv, ExecutesDecision PROVE DependenciesKept
<1> SUFFICES ASSUME phase = "execute"
             PROVE  /\ Once(queue) /\ Obeys(queue, ExplicitEdges(household, InstantWork))
                    /\ \A e \in ExplicitEdges(household, InstantWork) :
                          e[1] \in Range(queue) => e[2] \in Range(queue)
    BY DEF DependenciesKept
<1> DEFINE S == InstantWork
           declared == ExplicitEdges(household, S)
<1>1. household \in Households /\ S \in SUBSET Nat /\ IsFiniteSet(S) /\ S \in SUBSET DOMAIN household.plan
    BY CandIsSound
<1>2. queue \in Seq(S)
    BY DEF IInv, Pending
<1>3. PICK s \in SoundStates(household), done \in Seq(S) :
         Settles(household, Tier, s, S) /\ DecidedOrder(household, Tier, s, S) = done \o queue
    BY DEF ExecutesDecision, AsDecided
<1> DEFINE all == EdgesOf(household, Tier, s, S, GroupsOf(household, S))
<1> HIDE DEF S
<1>4. declared \subseteq all /\ declared \subseteq S \X S
    BY EdgesWithin DEF EdgesOf
<1>5. Ordered(S, all) /\ FirstOrder(S, all) = done \o queue
    BY <1>3 DEF Settles, DecidedOrder
<1> HIDE DEF all, declared
<1>6. done \o queue \in Orders(S, declared)
  <2>1. FirstOrder(S, all) \in Orders(S, all)
    BY <1>1, <1>5, FirstOrderFacts DEF Ordered, Orders
  <2> QED BY <1>4, <1>5, <2>1, FewerOrders
<1>7. /\ Once(queue) /\ Obeys(queue, declared)
      /\ \A e \in declared : e[1] \in Range(queue) => e[2] \in Range(queue)
    BY <1>1, <1>2, <1>4, <1>6, EndKeeps
<1> QED BY <1>7 DEF declared, S

\* No work of an instant is executed before one it depends on, whatever the groups and
\* the policy decided, and none twice: between any two works of the instant, those still to
\* execute wait for none that was executed.
THEOREM WorkWaitsItsTurn == Spec => []DependenciesKept
<1>1. IInv /\ ExecutesDecision => DependenciesKept
    BY DecisionKeepsDependencies
<1> QED BY Invariance, DecisionIsExecuted, <1>1, PTL

\* Every two works of the instant are put in order by the dependencies they declare, or
\* they are independent.
DependenciesSuffice ==
    \A i, j \in InstantWork :
        i # j => LET paths == Reaches(ExplicitEdges(household, InstantWork), InstantWork)
                 IN  \/ <<i, j>> \in paths \/ <<j, i>> \in paths
                     \/ Independent(household.plan[i], household.plan[j])

\* Where the declared dependencies put in order all works that share cash, a loan or a lot,
\* the ids give no cash away: at every point of the instant whatever is left of it ends in
\* the balances, claims and lots in which every order by contract ends, although the ids
\* choose one of many orders.
THEOREM DependenciesDecide == Spec => [](DependenciesSuffice => AllocationByContract)
<1>1. IInv /\ DependenciesKept => (DependenciesSuffice => AllocationByContract)
  <2> SUFFICES ASSUME IInv, DependenciesKept, DependenciesSuffice, phase = "execute"
               PROVE  AllocationByContract
    BY DEF AllocationByContract
  <2> DEFINE S == InstantWork
             declared == ExplicitEdges(household, S)
             paths == Reaches(declared, S)
             left == Range(queue)
  <2>1. IsFiniteSet(S) /\ queue \in Seq(S)
    BY CandIsSound DEF IInv, Pending
  <2>2. left \subseteq S
    BY <2>1 DEF Range
  <2>3. /\ Once(queue) /\ Obeys(queue, declared)
        /\ \A e \in declared : e[1] \in left => e[2] \in left
    BY DEF DependenciesKept
  <2>4. declared \subseteq S \X S
    BY EdgesWithin
  <2>5. \A i, j \in left :
           i # j => \/ <<i, j>> \in paths \/ <<j, i>> \in paths
                    \/ Independent(household.plan[i], household.plan[j])
    BY <2>2 DEF DependenciesSuffice
  <2> HIDE DEF S, declared
  <2>6. Obeys(queue, paths)
    BY <2>1, <2>3, <2>4, PathsKept
  <2>7. ASSUME NEW o \in Orders(left, Contract(household, left)) PROVE Obeys(o, paths)
    <3>1. left \in SUBSET Nat /\ IsFiniteSet(left)
      <4>1. S \in SUBSET Nat
        BY CandIsSound DEF S
      <4> QED BY <2>1, <2>2, <4>1, FS_Subset
    <3>2. o \in Seq(left) /\ Range(o) = left /\ Once(o) /\ Obeys(o, Contract(household, left))
      BY <2>7, <3>1, OrderFacts
    <3>3. declared \cap (left \X left) \subseteq Contract(household, left)
      BY DependenciesInContract DEF declared
    <3>4. Obeys(o, declared)
      <4>1. ASSUME NEW j \in DOMAIN o, NEW k \in DOMAIN o, <<o[j], o[k]>> \in declared
            PROVE  j < k
        <5>1. o[j] \in left /\ o[k] \in left
          BY <3>2
        <5>2. <<o[j], o[k]>> \in Contract(household, left)
          BY <3>3, <4>1, <5>1
        <5> QED BY <3>2, <5>2 DEF Obeys
      <4> QED BY <4>1 DEF Obeys
    <3>5. o \in Seq(S)
      BY <2>2, <3>2, SeqWithin
    <3> HIDE DEF left
    <3> QED BY <2>1, <2>3, <2>4, <3>2, <3>4, <3>5, PathsKept
  <2> HIDE DEF paths
  <2> QED BY <2>3, <2>5, <2>6, <2>7, NothingByIds
<1> QED BY Invariance, WorkWaitsItsTurn, <1>1, PTL

\* What is left of the instant is queued as the contracts put it in order, and they put
\* every two works of it in order that are not independent.
ContractSuffices ==
    LET left == Range(queue)
        paths == Reaches(Contract(household, left), left)
    IN  /\ Obeys(queue, Contract(household, left))
        /\ \A i, j \in left :
              i # j => \/ <<i, j>> \in paths \/ <<j, i>> \in paths
                       \/ Independent(household.plan[i], household.plan[j])

\* With contention: where the queue keeps the household's contracts, its policy between the
\* domains included, and they put every two works in order that are not independent, the
\* ids give no cash away either.
THEOREM ContractDecides == Spec => [](ContractSuffices => AllocationByContract)
<1>1. IInv /\ DependenciesKept => (ContractSuffices => AllocationByContract)
  <2> SUFFICES ASSUME IInv, DependenciesKept, ContractSuffices, phase = "execute"
               PROVE  AllocationByContract
    BY DEF AllocationByContract
  <2> DEFINE left == Range(queue)
             claims == Contract(household, left)
             paths == Reaches(claims, left)
  <2>1. InstantWork \in SUBSET Nat /\ IsFiniteSet(InstantWork) /\ queue \in Seq(InstantWork)
    BY CandIsSound DEF IInv, Pending
  <2>2. left \subseteq InstantWork /\ queue \in Seq(left)
    BY <2>1 DEF Range
  <2>3. left \in SUBSET Nat /\ IsFiniteSet(left)
    BY <2>1, <2>2, FS_Subset
  <2>4. Once(queue)
    BY DEF DependenciesKept
  <2>5. /\ Obeys(queue, claims)
        /\ \A i, j \in left :
              i # j => \/ <<i, j>> \in paths \/ <<j, i>> \in paths
                       \/ Independent(household.plan[i], household.plan[j])
    BY DEF ContractSuffices
  <2>6. claims \subseteq left \X left
    BY ContractWithin
  <2>7. \A e \in claims : e[2] \in left
    BY <2>6
  <2>8. left = Range(queue)
    OBVIOUS
  <2> HIDE DEF claims, left
  <2>9. Obeys(queue, paths)
    BY <2>2, <2>3, <2>4, <2>5, <2>6, <2>7, <2>8, PathsKept
  <2>10. ASSUME NEW o \in Orders(left, claims) PROVE Obeys(o, paths)
    <3>1. o \in Seq(left) /\ Range(o) = left /\ Once(o) /\ Obeys(o, claims)
      BY <2>3, <2>10, OrderFacts
    <3> QED BY <2>3, <2>6, <2>7, <3>1, PathsKept
  <2> HIDE DEF paths
  <2> QED BY <2>4, <2>5, <2>8, <2>9, <2>10, NothingByIds DEF claims, left
<1> QED BY Invariance, WorkWaitsItsTurn, <1>1, PTL

-----------------------------------------------------------------------------
(* A month refused for the order of its works.                               *)

\* What the works declare, and what the policy says of them.
Policied(h, S) == ExplicitEdges(h, S) \cup {e \in S \X S : e[1] # e[2] /\ PolicyPrecedes(h, e[1], e[2])}

\* A cycle within a part, or of fewer dependencies, is a cycle.
LEMMA MoreNotOrdered ==
    ASSUME NEW S \in SUBSET Nat, IsFiniteSet(S), NEW T \in SUBSET S, NEW deps, NEW more,
           deps \subseteq more, ~Ordered(T, deps)
    PROVE  ~Ordered(S, more)
<1>1. T \in SUBSET Nat /\ IsFiniteSet(T)
    BY FS_Subset
<1>2. PICK U \in SUBSET T : Circular(U, deps)
    BY <1>1, FirstOrderIsExact
<1>3. U \in SUBSET S /\ Circular(U, more)
    BY <1>2 DEF Circular
<1> QED BY <1>3, FirstOrderIsExact

\* A policy refused for a cycle contradicts what the works declare or itself.  Without
\* contention only what the works declare can be no order.
RefusalFound ==
    phase = "refused" =>
        /\ refusal = "policy_cycle" => ~Ordered(InstantWork, Policied(household, InstantWork))
        /\ GroupsOf(household, InstantWork) = {} =>
              /\ refusal \notin {"unresolved", "policy_cycle"}
              /\ refusal = "work_cycle" =>
                    ~Ordered(InstantWork, ExplicitEdges(household, InstantWork))

LEMMA DecisionFindsCycle ==
    ASSUME NEW h \in Households, NEW tier, NEW s, NEW S \in SUBSET DOMAIN h.plan,
           NEW group \in GroupsOf(h, S), Decision(h, tier, s, S, group).refusal = "policy_cycle"
    PROVE  ~Ordered(S, Policied(h, S))
<1> DEFINE policy == {e \in group \X group : e[1] # e[2] /\ PolicyPrecedes(h, e[1], e[2])}
           constrained == Inside(ExplicitEdges(h, S), group) \cup policy
<1>1. S \in SUBSET Nat /\ IsFiniteSet(S)
    BY PlanIsFinite, FS_Subset
<1>2. group \in SUBSET S
  <2>1. Contenders(h, S, ExplicitEdges(h, S)) \subseteq S
    BY DEF Contenders
  <2>2. IsFiniteSet(Contenders(h, S, ExplicitEdges(h, S)))
    BY <1>1, <2>1, FS_Subset
  <2>3. UNION GroupsOf(h, S) = Contenders(h, S, ExplicitEdges(h, S))
    BY <2>2, GroupsArePartition DEF GroupsOf
  <2> QED BY <2>1, <2>3
<1>3. ~Ordered(group, constrained)
    BY DEF Decision, Decide, Settled, Refused
<1>4. constrained \subseteq Policied(h, S)
    BY <1>2 DEF Inside, Policied
<1> HIDE DEF constrained
<1> QED BY <1>1, <1>2, <1>3, <1>4, MoreNotOrdered

LEMMA RefusalInductive ==
    ASSUME IInv, MInv, RefusalFound, [Next]_vars PROVE RefusalFound'
<1> SUFFICES ASSUME phase' = "refused"
             PROVE  (/\ refusal = "policy_cycle" =>
                            ~Ordered(InstantWork, Policied(household, InstantWork))
                     /\ GroupsOf(household, InstantWork) = {} =>
                           /\ refusal \notin {"unresolved", "policy_cycle"}
                           /\ refusal = "work_cycle" =>
                                 ~Ordered(InstantWork, ExplicitEdges(household, InstantWork)))'
    BY DEF RefusalFound
<1>1. CASE UNCHANGED vars
  <2>1. UNCHANGED <<household, phase, refusal, instant, work>>
    BY <1>1 DEF vars
  <2>2. InstantWork' = InstantWork
    BY <2>1 DEF InstantWork
  <2> QED BY <2>1, <2>2 DEF RefusalFound
<1>2. CASE Prepare \/ ExecuteOperation
  <2>1. refusal' \in {"invalid", "failed"}
    BY <1>2 DEF Prepare, ExecuteOperation
  <2> QED BY <2>1
<1>3. CASE DecideGroup
  <2> DEFINE S == InstantWork
             D(group) == Decision(household, Tier, cand, S, group)
  <2>1. PICK group \in groups :
          IF D(group).refusal = "none"
          THEN /\ groups' = groups \ {group} /\ edges' = edges \cup D(group).edges
               /\ UNCHANGED <<phase, refusal, queue>>
          ELSE Refuse(D(group).refusal)
    BY <1>3, DecideAlone
  <2>2. phase = "decide" /\ InstantWork' = S /\ household' = household
    BY <1>3 DEF DecideGroup, InstantWork
  <2>3. refusal' = D(group).refusal
    BY <2>1, <2>2 DEF Refuse
  <2>4. group \in GroupsOf(household, S)
    BY <2>2 DEF MInv, Deciding
  <2>5. household \in Households /\ S \in SUBSET DOMAIN household.plan
    BY CandIsSound
  <2> HIDE DEF S
  <2>6. refusal' = "policy_cycle" => ~Ordered(S, Policied(household, S))
    BY <2>3, <2>4, <2>5, DecisionFindsCycle
  <2>7. GroupsOf(household, S) # {}
    BY <2>4
  <2> QED BY <2>2, <2>6, <2>7
<1>4. CASE OrderInstant
  <2> DEFINE S == InstantWork
  <2>1. /\ phase = "decide" /\ groups = {} /\ refusal' = "work_cycle" /\ ~Ordered(S, edges)
        /\ UNCHANGED <<household, instant, work>>
    BY <1>4 DEF OrderInstant, Refuse
  <2>2. edges = EdgesOf(household, Tier, cand, S, GroupsOf(household, S) \ groups)
    BY <2>1 DEF MInv, Deciding
  <2>3. GroupsOf(household, S) = {} => edges = ExplicitEdges(household, S)
    BY <2>1, <2>2 DEF EdgesOf
  <2>4. InstantWork' = S
    BY <2>1 DEF InstantWork
  <2> HIDE DEF S
  <2> QED BY <2>1, <2>3, <2>4
<1>5. CASE Sequence \/ NextInstant \/ Commit \/ Abort \/ StartReplay \/ Verify
  <2>1. phase' # "refused"
    BY <1>5 DEF Sequence, NextInstant, Commit, Abort, StartReplay, Verify
  <2> QED BY <2>1
<1> QED BY <1>1, <1>2, <1>3, <1>4, <1>5 DEF Next

\* A month refused for a policy that is no order of contenders has no order its declared
\* dependencies and its policy allow; and an instant without contention is refused for
\* its order only where the dependencies its works declare allow none: policy and ids
\* refuse nothing there.
THEOREM RefusedForCause ==
    Spec => [](refusal = "policy_cycle" \/ GroupsOf(household, InstantWork) = {}
                  => RefusedOnlyForCause /\ PolicyOnlyIfNeeded)
<1>1. Init => RefusalFound
    BY DEF Init, RefusalFound
<1>2. IInv /\ MInv /\ [Next]_vars => MInv'
    BY MonthInductive
<1>3. IInv /\ MInv /\ RefusalFound /\ [Next]_vars => RefusalFound'
    BY RefusalInductive
<1>4. IInv /\ RefusalFound =>
         (refusal = "policy_cycle" \/ GroupsOf(household, InstantWork) = {}
             => RefusedOnlyForCause /\ PolicyOnlyIfNeeded)
  <2> SUFFICES ASSUME IInv, RefusalFound,
                      refusal = "policy_cycle" \/ GroupsOf(household, InstantWork) = {},
                      phase = "refused", refusal \in {"unresolved", "policy_cycle", "work_cycle"}
               PROVE  ~Ordered(InstantWork, Policied(household, InstantWork))
    BY DEF RefusedOnlyForCause, PolicyOnlyIfNeeded, OrderMatters, Policied
  <2>1. CASE refusal = "policy_cycle"
    BY <2>1 DEF RefusalFound
  <2>2. CASE GroupsOf(household, InstantWork) = {}
    <3>1. ~Ordered(InstantWork, ExplicitEdges(household, InstantWork))
      BY <2>2 DEF RefusalFound
    <3>2. ExplicitEdges(household, InstantWork) \subseteq Policied(household, InstantWork)
      BY DEF Policied
    <3>3. InstantWork \in SUBSET Nat /\ IsFiniteSet(InstantWork)
      BY CandIsSound
    <3> DEFINE S == InstantWork
    <3> HIDE DEF S
    <3>4. S \in SUBSET Nat /\ IsFiniteSet(S) /\ S \in SUBSET S /\ ~Ordered(S, ExplicitEdges(household, S))
          /\ ExplicitEdges(household, S) \subseteq Policied(household, S)
      BY <3>1, <3>2, <3>3 DEF S
    <3>5. ~Ordered(S, Policied(household, S))
      BY <3>4, MoreNotOrdered
    <3> QED BY <3>5 DEF S
  <2> QED BY <2>1, <2>2
<1> QED BY Invariance, MonthInitially, <1>1, <1>2, <1>3, <1>4, PTL DEF Spec

-----------------------------------------------------------------------------
(* The theorems.                                                             *)

\* Whatever a month holds, whether it is committed, refused or replayed, the work, the
\* queue, the dependencies and the months stay what they are declared to be.
THEOREM TypeCorrect == Spec => []TypeOK
<1>1. IInv => TypeOK
    BY DEF IInv
<1> QED BY <1>1, Invariance, PTL

\* The committed state is the one the last retained month ended with, in every run
\* and after every refusal: the candidate of a month never shows before its commit.
THEOREM HistoryIsCommitted == Spec => []CommittedHistory
<1>1. IInv => CommittedHistory
    BY SMTT(60) DEF IInv
<1> QED BY <1>1, Invariance, PTL

\* Whatever order the groups and the policy choose, extra principal is paid only where
\* the service of the same loan was paid at the same instant.
THEOREM ExtraFollowsService == Spec => []ServiceBeforeExtra
<1>1. IInv => ServiceBeforeExtra
    BY DEF IInv, Debts, Supported, Service, ServiceBeforeExtra
<1> QED BY <1>1, Invariance, PTL

\* No account is overdrawn; of a loan nothing negative is due, and no more than is owed on it.
Solvent ==
    \A s \in {cand, state} \cup {checkpoints[k].state : k \in DOMAIN checkpoints} :
        /\ \A a \in Accounts : s.cash[a] >= 0
        /\ \A l \in Loans : 0 <= s.owed[l] /\ s.owed[l] <= s.principal[l]

\* No operation, no refusal and no replay leaves an account overdrawn or more due on a loan
\* than its principal: not in the candidate of a month between two works, not in the
\* committed state, not in a checkpoint a replay resumes.
THEOREM NothingOverdrawn == Spec => []Solvent
<1>1. IInv => Solvent
  <2> SUFFICES ASSUME IInv PROVE Solvent
    OBVIOUS
  <2>1. \A k \in DOMAIN checkpoints : Sound(household, checkpoints[k].state)
    BY DEF IInv, Stored, Roots
  <2>2. \A s : Sound(household, s) =>
            /\ \A a \in Accounts : s.cash[a] >= 0
            /\ \A l \in Loans : 0 <= s.owed[l] /\ s.owed[l] <= s.principal[l]
    BY DEF Sound, States
  <2> QED BY <2>1, <2>2 DEF IInv, Stored, Solvent
<1> QED BY <1>1, Invariance, PTL
=============================================================================
