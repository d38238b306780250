------------------------ MODULE VerticalSlice_proofs ------------------------
(***************************************************************************)
(* The invariants of VerticalSlice, for every set of periods, inputs and   *)
(* settlement requests.  The inductive invariant is the conjunction of the *)
(* checked invariants and the fact that a run's clone extends the caller's *)
(* state: BookOnlyGrows needs it, since a whole run is adopted at once.    *)
(* PostedOnce is proved from it and from the arithmetic of sums over the   *)
(* postings: a posting whose identity is fresh is not there yet, so every  *)
(* sum it enters grows by exactly its value.                               *)
(***************************************************************************)
EXTENDS VerticalSlice, FiniteSetTheorems, NaturalsInduction, WellFoundedInduction, TLAPS

\* What one authoritative state satisfies.
Sound(s) == s \in State /\ Registered(s) /\ Integral(s)

IInv ==
  /\ TypeOK
  /\ IdentityAuthority
  /\ ObligationIntegrity
  /\ run.running => Extends(book, state)
  /\ run.todo # {} => run.running

----------------------------------------------------------------------------
(* Sums.  The library computes a sum by taking one element after another;   *)
(* that the order does not matter is shown by looking at the smallest set   *)
(* for which it would.                                                      *)

\* A nonempty set of natural numbers has a least member.
LEMMA LeastMember ==
  ASSUME NEW T \in SUBSET Nat, T # {}
  PROVE  \E x \in T : \A y \in T : x <= y
<1> DEFINE R == OpToRel(<, Nat)
<1>1. \A x, y \in Nat : <<y, x>> \in R <=> y < x
  BY DEF OpToRel
<1>2. IsWellFoundedOn(R, Nat)
  BY NatLessThanWellFounded
<1> HIDE DEF R
<1>3. PICK x \in T : \A y \in T : ~ (<<y, x>> \in R)
  BY <1>2, WFMin
<1>4. \A y \in T : x <= y
  <2> TAKE y \in T
  <2>1. ~(y < x)
    BY <1>1, <1>3
  <2> QED BY <2>1
<1> QED BY <1>4

\* The element the library takes first, and the sum of T computed from those
\* of smaller sets.
Some(T) == CHOOSE x \in T : TRUE
SumStep(g, f, T) == IF T = {} THEN 0 ELSE f[Some(T)] + g[T \ {Some(T)}]

\* g holds the sum of f over every subset of S.
Sums(g, f, S) == g = [T \in SUBSET S |-> SumStep(g, f, T)]

\* Two tables agree on the subsets of R; any element of a set may come first.
Agree(h, g, R) == \A T \in SUBSET R : h[T] = g[T]
AnyFirst(g, f, S) == \A T \in SUBSET S : \A x \in T : g[T] = f[x] + g[T \ {x}]

\* Total is the value at the whole domain of such a table.
LEMMA TotalIsChosen ==
  ASSUME NEW f
  PROVE  Total(f) = (CHOOSE g : Sums(g, f, DOMAIN f))[DOMAIN f]
BY DEF Total, MapThenSumSet, MapThenFoldSet, Sums, SumStep, Some

\* Taking the first element off a finite set makes it smaller by one.
LEMMA Smaller ==
  ASSUME NEW T, IsFiniteSet(T), NEW x \in T
  PROVE  /\ IsFiniteSet(T \ {x})
         /\ Cardinality(T) \in Nat /\ Cardinality(T \ {x}) \in Nat
         /\ Cardinality(T \ {x}) = Cardinality(T) - 1
BY FS_RemoveElement, FS_CardinalityType

\* Every finite set has a table of sums, and its entries are integers.
LEMMA SumsExist ==
  ASSUME NEW S, IsFiniteSet(S), NEW f \in [S -> Int]
  PROVE  \E g \in [SUBSET S -> Int] : Sums(g, f, S)
<1> DEFINE Upto(k) == \E g \in [SUBSET S -> Int] :
                        \A T \in SUBSET S : Cardinality(T) <= k => g[T] = SumStep(g, f, T)
           Bad == {k \in Nat : ~Upto(k)}
<1>1. \A T \in SUBSET S : IsFiniteSet(T) /\ Cardinality(T) \in Nat
  BY FS_Subset, FS_CardinalityType
<1>2. \A T \in SUBSET S : T # {} => Some(T) \in T
  BY DEF Some
<1>3. \A T \in SUBSET S : T # {} =>
        /\ T \ {Some(T)} \in SUBSET S
        /\ Cardinality(T \ {Some(T)}) = Cardinality(T) - 1
  BY <1>1, <1>2, Smaller
<1>4. \A T \in SUBSET S : \A g \in [SUBSET S -> Int] : SumStep(g, f, T) \in Int
  BY <1>2, <1>3 DEF SumStep
<1>5. Upto(0)
  <2> DEFINE g == [T \in SUBSET S |-> 0]
  <2>1. \A T \in SUBSET S : Cardinality(T) <= 0 => T = {}
    BY <1>1, FS_EmptySet
  <2>2. g \in [SUBSET S -> Int]
    OBVIOUS
  <2>3. \A T \in SUBSET S : Cardinality(T) <= 0 => g[T] = SumStep(g, f, T)
    BY <2>1 DEF SumStep
  <2> QED BY <2>2, <2>3
<1>6. ASSUME NEW k \in Nat, Upto(k) PROVE Upto(k + 1)
  <2>1. PICK g \in [SUBSET S -> Int] :
          \A T \in SUBSET S : Cardinality(T) <= k => g[T] = SumStep(g, f, T)
    BY <1>6
  <2> DEFINE h == [T \in SUBSET S |-> SumStep(g, f, T)]
  <2>2. h \in [SUBSET S -> Int]
    BY <1>4
  <2>3. \A T \in SUBSET S : Cardinality(T) <= k => h[T] = g[T]
    BY <2>1
  <2>4. ASSUME NEW T \in SUBSET S, Cardinality(T) <= k + 1 PROVE h[T] = SumStep(h, f, T)
    <3>1. CASE T = {}
      BY <3>1 DEF SumStep
    <3>2. CASE T # {}
      <4>1. /\ T \ {Some(T)} \in SUBSET S
            /\ Cardinality(T \ {Some(T)}) <= k
        BY <3>2, <1>1, <1>3, <2>4
      <4>2. h[T \ {Some(T)}] = g[T \ {Some(T)}]
        BY <4>1, <2>3
      <4>3. h[T] = SumStep(g, f, T)
        OBVIOUS
      <4> HIDE DEF h
      <4> QED BY <4>2, <4>3, <3>2 DEF SumStep
    <3> QED BY <3>1, <3>2
  <2> HIDE DEF h
  <2> QED BY <2>2, <2>4
<1>7. \A k \in Nat : Upto(k)
  <2> SUFFICES ASSUME Bad # {} PROVE FALSE
    OBVIOUS
  <2>1. PICK k \in Bad : \A j \in Bad : k <= j
    BY LeastMember
  <2>2. k \in Nat /\ ~Upto(k)
    OBVIOUS
  <2> HIDE DEF Upto
  <2>3. k # 0
    BY <2>2, <1>5
  <2>4. k - 1 \in Nat /\ Upto(k - 1)
    BY <2>1, <2>2, <2>3
  <2>5. Upto((k - 1) + 1)
    BY <2>4, <1>6
  <2>6. (k - 1) + 1 = k
    BY <2>2
  <2> QED BY <2>2, <2>5, <2>6
<1>8. PICK g \in [SUBSET S -> Int] :
        \A T \in SUBSET S : Cardinality(T) <= Cardinality(S) => g[T] = SumStep(g, f, T)
  BY <1>1, <1>7
<1>9. \A T \in SUBSET S : Cardinality(T) <= Cardinality(S)
  BY FS_Subset
<1> QED BY <1>8, <1>9 DEF Sums

\* Tables of the same values agree on the sets both have.
LEMMA SumsAgree ==
  ASSUME NEW S, IsFiniteSet(S), NEW R \in SUBSET S, NEW f, NEW e, \A x \in R : e[x] = f[x],
         NEW g, Sums(g, f, S), NEW h, Sums(h, e, R)
  PROVE  Agree(h, g, R)
<1> DEFINE Bad == {T \in SUBSET R : h[T] # g[T]}
           Sizes == {Cardinality(T) : T \in Bad}
<1>1. \A T \in SUBSET R : IsFiniteSet(T) /\ Cardinality(T) \in Nat
  BY FS_Subset, FS_CardinalityType
<1> SUFFICES ASSUME Bad # {} PROVE FALSE
  BY DEF Agree
<1>2. PICK n \in Sizes : \A m \in Sizes : n <= m
  <2>1. Sizes \in SUBSET Nat /\ Sizes # {}
    BY <1>1
  <2> HIDE DEF Sizes
  <2> QED BY <2>1, LeastMember
<1>3. PICK T \in SUBSET R : h[T] # g[T] /\ n = Cardinality(T)
  OBVIOUS
<1>4. /\ h[T] = IF T = {} THEN 0 ELSE e[Some(T)] + h[T \ {Some(T)}]
      /\ g[T] = IF T = {} THEN 0 ELSE f[Some(T)] + g[T \ {Some(T)}]
  BY DEF Sums, SumStep
<1>5. T # {} /\ Some(T) \in T
  BY <1>3, <1>4 DEF Some
<1>6. T \ {Some(T)} \in SUBSET R /\ ~(Cardinality(T) <= Cardinality(T \ {Some(T)}))
  BY <1>1, <1>5, Smaller
<1>7. T \ {Some(T)} \notin Bad
  BY <1>2, <1>3, <1>6
<1>8. h[T \ {Some(T)}] = g[T \ {Some(T)}] /\ e[Some(T)] = f[Some(T)]
  BY <1>5, <1>6, <1>7
<1> QED BY <1>3, <1>4, <1>5, <1>8

\* So a table holds the totals of the restrictions of f.
LEMMA TotalIsSum ==
  ASSUME NEW S, IsFiniteSet(S), NEW f \in [S -> Int],
         NEW g, Sums(g, f, S), NEW T \in SUBSET S
  PROVE  Total([t \in T |-> f[t]]) = g[T]
<1> DEFINE e == [t \in T |-> f[t]]
           c == CHOOSE c : Sums(c, e, T)
<1>1. IsFiniteSet(T) /\ e \in [T -> Int] /\ DOMAIN e = T /\ \A t \in T : e[t] = f[t]
  BY FS_Subset
<1>2. Total(e) = c[T]
  <2>1. Total(e) = (CHOOSE h : Sums(h, e, DOMAIN e))[DOMAIN e]
    BY TotalIsChosen
  <2> HIDE DEF e
  <2> QED BY <1>1, <2>1
<1> HIDE DEF e
<1>3. \E h : Sums(h, e, T)
  BY <1>1, SumsExist
<1>4. Sums(c, e, T)
  BY <1>3
<1> HIDE DEF c
<1>5. Agree(c, g, T)
  BY <1>1, <1>4, SumsAgree
<1> QED BY <1>2, <1>5 DEF e, Agree

\* Any element may be taken off first.
LEMMA TakeAny ==
  ASSUME NEW S, IsFiniteSet(S), NEW f \in [S -> Int], NEW g \in [SUBSET S -> Int], Sums(g, f, S)
  PROVE  AnyFirst(g, f, S)
<1> DEFINE Fine(T) == \A x \in T : g[T] = f[x] + g[T \ {x}]
           Bad == {T \in SUBSET S : ~Fine(T)}
           Sizes == {Cardinality(T) : T \in Bad}
<1>1. \A T \in SUBSET S : IsFiniteSet(T) /\ Cardinality(T) \in Nat
  BY FS_Subset, FS_CardinalityType
<1> SUFFICES ASSUME Bad # {} PROVE FALSE
  BY DEF AnyFirst
<1>2. PICK n \in Sizes : \A m \in Sizes : n <= m
  <2>1. Sizes \in SUBSET Nat /\ Sizes # {}
    BY <1>1
  <2> HIDE DEF Sizes
  <2> QED BY <2>1, LeastMember
<1>3. PICK T \in SUBSET S : ~Fine(T) /\ n = Cardinality(T)
  OBVIOUS
<1>4. ASSUME NEW R \in SUBSET S, Cardinality(R) < Cardinality(T) PROVE Fine(R)
  <2>1. ~(n <= Cardinality(R))
    BY <1>1, <1>3, <1>4
  <2>2. Cardinality(R) \notin Sizes
    BY <1>2, <2>1
  <2> HIDE DEF Fine
  <2> QED BY <2>2
<1>5. PICK x \in T : g[T] # f[x] + g[T \ {x}]
  BY <1>3
<1> HIDE DEF Bad, Sizes
<1> DEFINE c == Some(T)
<1>6. c \in T
  BY <1>5 DEF Some
<1>7. g[T] = f[c] + g[T \ {c}]
  BY <1>6 DEF Sums, SumStep
<1> HIDE DEF c
<1>8. c # x
  BY <1>5, <1>7
<1>9. /\ T \ {c} \in SUBSET S /\ Cardinality(T \ {c}) < Cardinality(T) /\ x \in T \ {c}
      /\ T \ {x} \in SUBSET S /\ Cardinality(T \ {x}) < Cardinality(T) /\ c \in T \ {x}
  BY <1>1, <1>5, <1>6, <1>8, Smaller
<1>10. /\ g[T \ {c}] = f[x] + g[(T \ {c}) \ {x}]
       /\ g[T \ {x}] = f[c] + g[(T \ {x}) \ {c}]
  BY <1>4, <1>9
<1>11. (T \ {c}) \ {x} = (T \ {x}) \ {c}
  OBVIOUS
<1> DEFINE rest == g[(T \ {x}) \ {c}]
           without == g[T \ {x}]
<1>12. f[x] \in Int /\ f[c] \in Int /\ rest \in Int
  BY <1>6
<1>13. g[T] = f[c] + (f[x] + rest) /\ without = f[c] + rest /\ g[T] # f[x] + without
  BY <1>5, <1>7, <1>10, <1>11
<1> HIDE DEF rest, without
<1> QED BY <1>12, <1>13

\* The sum of nothing is nothing.
LEMMA TotalOfNothing == ASSUME NEW f, DOMAIN f = {} PROVE Total(f) = 0
<1> DEFINE g == [T \in SUBSET {} |-> 0]
           c == CHOOSE c : Sums(c, f, DOMAIN f)
<1>1. Total(f) = c[{}]
  BY TotalIsChosen
<1>2. Sums(g, f, DOMAIN f)
  BY DEF Sums, SumStep
<1> HIDE DEF g
<1>3. Sums(c, f, DOMAIN f)
  BY <1>2
<1> HIDE DEF c
<1> QED BY <1>1, <1>3 DEF Sums, SumStep

\* The sum of integers over a finite set is an integer, and one more element
\* adds its value.
LEMMA TotalType ==
  ASSUME NEW S, IsFiniteSet(S), NEW f \in [S -> Int]
  PROVE  Total(f) \in Int
<1>1. PICK g \in [SUBSET S -> Int] : Sums(g, f, S)
  BY SumsExist
<1>2. Total([t \in S |-> f[t]]) = g[S]
  BY <1>1, TotalIsSum
<1>3. [t \in S |-> f[t]] = f
  OBVIOUS
<1> QED BY <1>2, <1>3

LEMMA TotalAdd ==
  ASSUME NEW S, IsFiniteSet(S), NEW x, x \notin S, NEW f \in [S \cup {x} -> Int]
  PROVE  Total(f) = Total([t \in S |-> f[t]]) + f[x]
<1> DEFINE U == S \cup {x}
<1>1. IsFiniteSet(U) /\ U \ {x} = S /\ x \in U
  BY FS_AddElement
<1>2. PICK g \in [SUBSET U -> Int] : Sums(g, f, U)
  BY <1>1, SumsExist
<1>3. g[U] = f[x] + g[S]
  <2>1. f \in [U -> Int]
    OBVIOUS
  <2> HIDE DEF U
  <2>2. AnyFirst(g, f, U)
    BY <1>1, <1>2, <2>1, TakeAny
  <2>3. g[U] = f[x] + g[U \ {x}]
    BY <1>1, <2>2 DEF AnyFirst
  <2> QED BY <1>1, <2>3
<1>4. Total([t \in U |-> f[t]]) = g[U] /\ Total([t \in S |-> f[t]]) = g[S]
  BY <1>1, <1>2, TotalIsSum
<1>5. [t \in U |-> f[t]] = f
  OBVIOUS
<1>6. f[x] \in Int /\ g[S] \in Int
  BY <1>1
<1> QED BY <1>3, <1>4, <1>5, <1>6

----------------------------------------------------------------------------
(* Funding *)

\* The greedy allocation never takes more than an account has, nor more than
\* was requested, and acceptance is what was allocated or nothing.
LEMMA AllocationSound ==
  ASSUME NEW policy \in Policy, NEW amount \in Nat, NEW cash \in [Accounts -> Nat]
  PROVE  /\ Allocation(policy, amount, cash) \in [Accounts -> Nat]
         /\ \A a \in Accounts : Allocation(policy, amount, cash)[a] <= cash[a]
         /\ AcceptedAmount(policy, amount, cash) \in 0..amount
<1> DEFINE al == Allocation(policy, amount, cash)
           first == Min2(cash[policy.first], amount)
<1>1. policy.first \in Accounts BY DEF Policy
<1>2. /\ first \in 0..amount /\ first <= cash[policy.first]
      /\ amount - first \in Nat
  BY <1>1 DEF Min2
<1>3. \A a \in Accounts :
        al[a] = IF a = policy.first THEN first
                ELSE IF a = policy.second THEN Min2(cash[a], amount - first) ELSE 0
  BY DEF Allocation
<1>4. \A a \in Accounts : a # policy.first => al[a] \in 0..(amount - first) /\ al[a] <= cash[a]
  BY <1>2, <1>3 DEF Min2
<1>5. \A a \in Accounts : al[a] \in Nat /\ al[a] <= cash[a]
  BY <1>2, <1>3, <1>4
<1>6. al \in [Accounts -> Nat]
  BY <1>5 DEF Allocation
<1>7. Funded(policy, amount, cash) \in 0..amount
  <2>1. CASE policy.first = "checking"
    BY <2>1, <1>2, <1>3, <1>4 DEF Funded, Accounts
  <2>2. CASE policy.first = "retirement"
    BY <2>2, <1>2, <1>3, <1>4 DEF Funded, Accounts
  <2> QED BY <1>1, <2>1, <2>2 DEF Accounts
<1> HIDE DEF al, first
<1>8. AcceptedAmount(policy, amount, cash) \in 0..amount
  BY <1>7 DEF AcceptedAmount
<1> QED BY <1>5, <1>6, <1>8 DEF al

----------------------------------------------------------------------------
(* The order on states *)

\* Every state extends itself.
LEMMA ExtendsReflexive == ASSUME NEW s \in State PROVE Extends(s, s)
  BY DEF Extends, State, Claim

\* What extends an extension extends the original.
LEMMA ExtendsTransitive ==
  ASSUME NEW s \in State, NEW t \in State, NEW u \in State, Extends(s, t), Extends(t, u)
  PROVE  Extends(s, u)
<1> SUFFICES ASSUME NEW p \in Periods, s.obligations[p].original # 0
             PROVE  /\ u.obligations[p].original = s.obligations[p].original
                    /\ u.obligations[p].recognizedAt = s.obligations[p].recognizedAt
                    /\ u.obligations[p].outstanding <= s.obligations[p].outstanding
                    /\ s.obligations[p].settlementIds \subseteq u.obligations[p].settlementIds
  BY DEF Extends
<1>1. /\ t.obligations[p].original = s.obligations[p].original
      /\ t.obligations[p].recognizedAt = s.obligations[p].recognizedAt
      /\ t.obligations[p].outstanding <= s.obligations[p].outstanding
      /\ s.obligations[p].settlementIds \subseteq t.obligations[p].settlementIds
  BY DEF Extends
<1>2. /\ u.obligations[p].original = t.obligations[p].original
      /\ u.obligations[p].recognizedAt = t.obligations[p].recognizedAt
      /\ u.obligations[p].outstanding <= t.obligations[p].outstanding
      /\ t.obligations[p].settlementIds \subseteq u.obligations[p].settlementIds
  BY <1>1 DEF Extends
<1>3. s.obligations[p] \in Claim /\ t.obligations[p] \in Claim /\ u.obligations[p] \in Claim
  BY DEF State
<1> QED BY <1>1, <1>2, <1>3 DEF Claim

----------------------------------------------------------------------------
(* Posting *)

\* Posting one transaction under fresh identities keeps a state sound and
\* extends it, when the obligations it is posted with are themselves in order.
LEMMA CandidateSound ==
  ASSUME Sound(state),
         NEW identities \in SUBSET Identities, NEW t \in Postings,
         NEW obligations \in [Periods -> Claim],
         t.id \in identities, Fresh(identities), Valid(Candidate(identities, t, obligations)),
         \A p, q \in Periods :
           p # q => obligations[p].settlementIds \cap obligations[q].settlementIds = {},
         \A p \in Periods : \A id \in obligations[p].settlementIds :
           <<"settlement", id>> \in state.ids \cup identities,
         \A p \in Periods : obligations[p].original # 0 =>
           <<"occurrence", <<"tax", p>>>> \in state.ids \cup identities,
         \A p \in Periods : obligations[p].outstanding <= obligations[p].original,
         \A p \in Periods :
           obligations[p].outstanding < obligations[p].original <=> obligations[p].settlementIds # {},
         \A p \in Periods : state.obligations[p].original # 0 =>
           /\ obligations[p].original = state.obligations[p].original
           /\ obligations[p].recognizedAt = state.obligations[p].recognizedAt
           /\ obligations[p].outstanding <= state.obligations[p].outstanding
           /\ state.obligations[p].settlementIds \subseteq obligations[p].settlementIds
  PROVE  /\ Sound(Candidate(identities, t, obligations))
         /\ Extends(state, Candidate(identities, t, obligations))
<1> DEFINE c == Candidate(identities, t, obligations)
<1>0. state \in State BY DEF Sound
<1>1. c \in State
  <2>1. \A a \in Accounts : state.cash[a] + t.cash[a] \in Nat
    BY <1>0 DEF Valid, Candidate, State, Postings
  <2>2. state.payable + t.payable \in Nat
    BY <1>0 DEF Valid, Candidate, State, Postings
  <2> QED BY <1>0, <2>1, <2>2 DEF Candidate, State
<1>2. Registered(c)
  <2>1. \A u \in state.transactions : u.id \notin identities
    BY DEF Sound, Registered, Fresh
  <2>2. \A u, v \in c.transactions : u.id = v.id => u = v
    BY <2>1 DEF Sound, Registered, Candidate
  <2>3. \A u \in c.transactions : u.id \in c.ids
    BY DEF Sound, Registered, Candidate
  <2> QED BY <2>2, <2>3 DEF Registered, Candidate
<1>3. Integral(c) BY DEF Integral, Candidate
<1>4. Extends(state, c) BY DEF Extends, Candidate
<1> QED BY <1>1, <1>2, <1>3, <1>4 DEF Sound

----------------------------------------------------------------------------
(* The outcomes of an action *)

\* A thrown error restores the caller's state, so it preserves the invariant.
LEMMA ThrowStep == ASSUME IInv, Throw PROVE IInv'
<1>1. Idle \in [running : BOOLEAN, period : Periods \cup {0}, input : Inputs \cup {NoInput},
              todo : SUBSET Actions,
              outcomes : SUBSET [action : Actions, requested : Nat, accepted : Nat]]
  BY DEF Idle
<1> QED BY <1>1 DEF IInv, Throw, TypeOK, IdentityAuthority, ObligationIntegrity, Registered,
                Integral, Idle

\* An action that has nothing to do only leaves the plan.
LEMMA SkipStep ==
  ASSUME IInv, NEW action \in run.todo, Skip(action) PROVE IInv'
<1>1. run' \in [running : BOOLEAN, period : Periods \cup {0}, input : Inputs \cup {NoInput},
              todo : SUBSET Actions,
              outcomes : SUBSET [action : Actions, requested : Nat, accepted : Nat]]
  BY DEF Skip, Done, IInv, TypeOK
<1>2. /\ run'.running = run.running /\ run'.period = run.period /\ run'.input = run.input
      /\ book' = book /\ state' = state
  BY DEF Skip, Done, IInv, TypeOK
<1>3. run'.todo # {} => run'.running
  BY <1>2 DEF IInv
<1> QED BY <1>1, <1>2, <1>3 DEF IInv, TypeOK, IdentityAuthority, ObligationIntegrity, Registered,
                          Integral, Extends

\* Posting a transaction preserves the invariant when its candidate is sound.
LEMMA PostStep ==
  ASSUME IInv, run.running,
         NEW action \in run.todo, NEW identities \in SUBSET Identities, NEW t \in Postings,
         NEW obligations, NEW outcomes,
         outcomes \subseteq [action : Actions, requested : Nat, accepted : Nat],
         Fresh(identities) /\ Valid(Candidate(identities, t, obligations)) =>
           /\ Sound(Candidate(identities, t, obligations))
           /\ Extends(state, Candidate(identities, t, obligations)),
         Post(action, identities, t, obligations, outcomes)
  PROVE  IInv'
<1> USE DEF IInv
<1>1. CASE Fresh(identities) /\ Valid(Candidate(identities, t, obligations))
  <2>1. state' = Candidate(identities, t, obligations) /\ Done(action, outcomes) /\ UNCHANGED book
    BY <1>1 DEF Post
  <2>2. Sound(state') /\ Extends(state, state')
    BY <1>1, <2>1
  <2>3. Extends(book, state')
    BY <2>2, ExtendsTransitive DEF Sound, TypeOK
  <2>4. run' \in [running : BOOLEAN, period : Periods \cup {0}, input : Inputs \cup {NoInput},
              todo : SUBSET Actions,
              outcomes : SUBSET [action : Actions, requested : Nat, accepted : Nat]]
    BY <2>1 DEF Done, TypeOK
  <2>5. run'.running => run'.period \in Periods /\ run'.input \in Inputs
    BY <2>1 DEF Done, TypeOK
  <2>6. run'.todo # {} => run'.running
    BY <2>1 DEF Done, TypeOK
  <2> QED BY <2>1, <2>2, <2>3, <2>4, <2>5, <2>6
         DEF Sound, TypeOK, IdentityAuthority, ObligationIntegrity
<1>2. CASE ~(Fresh(identities) /\ Valid(Candidate(identities, t, obligations)))
  BY <1>2, ThrowStep DEF Post
<1> QED BY <1>1, <1>2

----------------------------------------------------------------------------
(* The actions of a run *)

\* Posting beside unchanged obligations keeps the state sound.
LEMMA PlainCandidate ==
  ASSUME Sound(state), NEW identities \in SUBSET Identities, NEW t \in Postings,
         t.id \in identities,
         Fresh(identities), Valid(Candidate(identities, t, state.obligations))
  PROVE  /\ Sound(Candidate(identities, t, state.obligations))
         /\ Extends(state, Candidate(identities, t, state.obligations))
<1> DEFINE o == state.obligations
<1>1. o \in [Periods -> Claim] BY DEF Sound, State
<1>2. /\ \A p, q \in Periods : p # q => o[p].settlementIds \cap o[q].settlementIds = {}
      /\ \A p \in Periods : \A id \in o[p].settlementIds :
           <<"settlement", id>> \in state.ids \cup identities
      /\ \A p \in Periods : o[p].original # 0 =>
           <<"occurrence", <<"tax", p>>>> \in state.ids \cup identities
  BY DEF Sound, Registered
<1>3. /\ \A p \in Periods : o[p].outstanding <= o[p].original
      /\ \A p \in Periods : o[p].outstanding < o[p].original <=> o[p].settlementIds # {}
  BY DEF Sound, Integral
<1>4. \A p \in Periods : o[p].outstanding <= o[p].outstanding
  BY <1>1 DEF Claim
<1> HIDE DEF o
<1> QED BY <1>1, <1>2, <1>3, <1>4, CandidateSound DEF o

\* The identities a generated action registers.
LEMMA GeneratedIdentities ==
  ASSUME IInv, run.running, NEW kind \in Generated
  PROVE  /\ Occurrence(kind) \in SUBSET Identities
         /\ Posting(kind) \in Identities
         /\ Occurrence(kind) \cup {Posting(kind)} \in SUBSET Identities
         /\ run.period \in Periods /\ run.input \in Input
BY SliceAssumption DEF IInv, TypeOK, Identities, Occurrence, Posting

\* The compensation of a period is received at most once.
LEMMA CompensationStep ==
  ASSUME IInv, run.running, NEW action \in run.todo, Compensation(action) PROVE IInv'
<1>1. CASE run.input.gross = 0
  BY <1>1, SkipStep DEF Compensation
<1>2. CASE run.input.gross # 0
  <2> DEFINE ids == Occurrence("compensation") \cup {Posting("compensation")}
             t == Transaction(Posting("compensation"), run.input.gross, 0, 0, 0)
  <2>1. Post(action, ids, t, state.obligations, {})
    BY <1>2 DEF Compensation
  <2>2. ids \in SUBSET Identities /\ t.id \in ids /\ t \in Postings
    BY GeneratedIdentities DEF Generated, Input, Postings, Transaction
  <2>3. Sound(state) BY DEF IInv, TypeOK, IdentityAuthority, ObligationIntegrity, Sound
  <2> HIDE DEF ids, t
  <2> QED BY <2>1, <2>2, <2>3, PlainCandidate, PostStep
<1> QED BY <1>1, <1>2

\* So is the retirement contribution transferred.
LEMMA RetirementStep ==
  ASSUME IInv, run.running, NEW action \in run.todo, Retirement(action) PROVE IInv'
<1> DEFINE amount == run.input.contribution
<1>1. CASE amount = 0
  BY <1>1, SkipStep DEF Retirement
<1>2. CASE amount # 0
  <2> DEFINE ids == Occurrence("retirement") \cup {Posting("retirement")}
             t == Transaction(Posting("retirement"), -amount, amount, 0, 0)
  <2>1. Post(action, ids, t, state.obligations, {})
    BY <1>2 DEF Retirement
  <2>2. ids \in SUBSET Identities /\ t.id \in ids /\ t \in Postings
    BY GeneratedIdentities DEF Generated, Input, Postings, Transaction
  <2>3. Sound(state) BY DEF IInv, TypeOK, IdentityAuthority, ObligationIntegrity, Sound
  <2> HIDE DEF ids, t
  <2> QED BY <2>1, <2>2, <2>3, PlainCandidate, PostStep
<1> QED BY <1>1, <1>2

\* So is the living expense paid.
LEMMA LivingExpenseStep ==
  ASSUME IInv, run.running, NEW action \in run.todo, LivingExpense(action) PROVE IInv'
<1> DEFINE amount == run.input.living
<1>1. CASE amount = 0
  BY <1>1, SkipStep DEF LivingExpense
<1>2. CASE amount # 0
  <2> DEFINE ids == Occurrence("living") \cup {Posting("living")}
             t == Transaction(Posting("living"), -amount, 0, 0, 0)
  <2>1. Post(action, ids, t, state.obligations, {})
    BY <1>2 DEF LivingExpense
  <2>2. ids \in SUBSET Identities /\ t.id \in ids /\ t \in Postings
    BY GeneratedIdentities DEF Generated, Input, Postings, Transaction
  <2>3. Sound(state) BY DEF IInv, TypeOK, IdentityAuthority, ObligationIntegrity, Sound
  <2> HIDE DEF ids, t
  <2> QED BY <2>1, <2>2, <2>3, PlainCandidate, PostStep
<1> QED BY <1>1, <1>2

\* Recognizing a period's tax opens a whole obligation beside the others.
LEMMA TaxRecognitionStep ==
  ASSUME IInv, run.running, NEW action \in run.todo, TaxRecognition(action) PROVE IInv'
<1> DEFINE tax == run.input.tax
           claim == [original |-> tax, outstanding |-> tax, settlementIds |-> {},
                     recognizedAt |-> At(run.period, 2)]
           o == [state.obligations EXCEPT ![run.period] = claim]
           ids == Occurrence("tax") \cup {Posting("tax")}
           t == Transaction(Posting("tax"), 0, 0, tax, 0)
<1>1. CASE tax = 0
  BY <1>1, SkipStep DEF TaxRecognition
<1>2. CASE tax # 0 /\ state.obligations[run.period].original # 0
  BY <1>2, ThrowStep DEF TaxRecognition
<1>3. CASE tax # 0 /\ state.obligations[run.period].original = 0
  <2>1. Post(action, ids, t, o, {})
    BY <1>3 DEF TaxRecognition
  <2>2. run.period \in Periods /\ run.period \in Nat /\ tax \in Nat
    BY GeneratedIdentities, SliceAssumption DEF Generated, Input
  <2>3. ids \in SUBSET Identities /\ t.id \in ids /\ t \in Postings
    BY <2>2, GeneratedIdentities DEF Generated, Postings, Transaction
  <2>4. Sound(state) BY DEF IInv, TypeOK, IdentityAuthority, ObligationIntegrity, Sound
  <2>5. claim \in Claim BY <2>2 DEF Claim, At
  <2>6. /\ o \in [Periods -> Claim] /\ o[run.period] = claim
        /\ \A p \in Periods : p # run.period => o[p] = state.obligations[p]
    BY <2>2, <2>4, <2>5 DEF Sound, State
  <2>7. <<"occurrence", <<"tax", run.period>>>> \in ids BY DEF Occurrence
  <2>8. /\ claim.settlementIds = {} /\ claim.original = tax /\ claim.outstanding = tax
    OBVIOUS
  <2>9. \A p \in Periods : state.obligations[p] \in Claim BY <2>4 DEF Sound, State
  <2> HIDE DEF ids, t, o, claim
  <2>10. /\ \A p, q \in Periods : p # q => o[p].settlementIds \cap o[q].settlementIds = {}
         /\ \A p \in Periods : \A id \in o[p].settlementIds :
              <<"settlement", id>> \in state.ids \cup ids
    BY <2>4, <2>6, <2>8 DEF Sound, Registered
  <2>11. \A p \in Periods : o[p].original # 0 =>
           <<"occurrence", <<"tax", p>>>> \in state.ids \cup ids
    BY <2>4, <2>6, <2>7 DEF Sound, Registered
  <2>12. /\ \A p \in Periods : o[p].outstanding <= o[p].original
         /\ \A p \in Periods : o[p].outstanding < o[p].original <=> o[p].settlementIds # {}
    BY <2>2, <2>4, <2>6, <2>8 DEF Sound, Integral
  <2>13. \A p \in Periods : state.obligations[p].original # 0 =>
           /\ o[p].original = state.obligations[p].original
           /\ o[p].recognizedAt = state.obligations[p].recognizedAt
           /\ o[p].outstanding <= state.obligations[p].outstanding
           /\ state.obligations[p].settlementIds \subseteq o[p].settlementIds
    BY <1>3, <2>6, <2>9 DEF Claim
  <2>14. Fresh(ids) /\ Valid(Candidate(ids, t, o)) =>
           Sound(Candidate(ids, t, o)) /\ Extends(state, Candidate(ids, t, o))
    BY <2>3, <2>4, <2>6, <2>10, <2>11, <2>12, <2>13, CandidateSound
  <2> QED BY <2>1, <2>3, <2>14, PostStep
<1> QED BY <1>1, <1>2, <1>3

\* What settling an obligation is asked of: an existing period, an identity of
\* its own, and provenance identities.
SettlementRequest(request) ==
  /\ request.id \in SettlementIds /\ request.obligation \in Periods
  /\ request.amount \in Nat /\ request.policy \in Policy

\* A settlement attempt that is refused, left unfunded, partly or wholly
\* accepted preserves the invariant: what it takes off the obligation is
\* covered by its outstanding amount, under an identity no obligation holds.
LEMMA SettleStep ==
  ASSUME IInv, run.running, NEW action \in run.todo,
         NEW request, SettlementRequest(request),
         NEW provenance \in SUBSET Identities, Settle(action, request, provenance)
  PROVE  IInv'
<1> DEFINE at == At(run.period, action.slot)
           accepted == AcceptedAmount(request.policy, request.amount, state.cash)
           paid == Allocation(request.policy, request.amount, state.cash)
           id == <<"settlement", request.id>>
           p0 == request.obligation
           before == state.obligations[p0]
           after == ApplySettlement(before, request.id, accepted)
           o == [state.obligations EXCEPT ![p0] = ApplySettlement(@, request.id, accepted)]
           ids == provenance \cup {id}
           t == Transaction(id, -paid["checking"], -paid["retirement"], -accepted, p0)
           outcome == [action |-> action, requested |-> request.amount, accepted |-> accepted]
           refused == ~Fresh(provenance) \/ Refused(request, at, accepted)
<1>1. Sound(state) BY DEF IInv, TypeOK, IdentityAuthority, ObligationIntegrity, Sound
<1>2. /\ state.cash \in [Accounts -> Nat] /\ before \in Claim /\ p0 \in Periods
      /\ state.obligations \in [Periods -> Claim]
  BY <1>1 DEF Sound, State, SettlementRequest
<1>3. /\ accepted \in 0..request.amount /\ request.amount \in Nat
      /\ paid \in [Accounts -> Nat]
  BY <1>2, AllocationSound DEF SettlementRequest
<1>4. outcome \in [action : Actions, requested : Nat, accepted : Nat]
  BY <1>3 DEF IInv, TypeOK
<1>5. CASE refused
  BY <1>5, ThrowStep DEF Settle
<1>6. CASE ~refused /\ accepted = 0
  <2>1. /\ state' = [state EXCEPT !.ids = @ \cup provenance]
        /\ Done(action, {outcome}) /\ UNCHANGED book
    BY <1>6 DEF Settle
  <2>2. state' \in State BY <2>1, <1>1 DEF Sound, State
  <2>3. Registered(state') /\ Integral(state')
    BY <2>1, <1>1 DEF Sound, State, Registered, Integral
  <2>4. Extends(state, state')
    BY <2>1, <1>1, ExtendsReflexive DEF Sound, State, Extends
  <2>5. Extends(book, state')
    BY <1>1, <2>2, <2>4, ExtendsTransitive DEF IInv, TypeOK
  <2>6. /\ run' \in [running : BOOLEAN, period : Periods \cup {0}, input : Inputs \cup {NoInput},
              todo : SUBSET Actions,
              outcomes : SUBSET [action : Actions, requested : Nat, accepted : Nat]]
        /\ run'.running /\ run'.period = run.period /\ run'.input = run.input
    BY <2>1, <1>4 DEF Done, IInv, TypeOK
  <2> HIDE DEF outcome, accepted
  <2> QED BY <2>1, <2>2, <2>3, <2>5, <2>6
         DEF IInv, TypeOK, IdentityAuthority, ObligationIntegrity
<1>7. CASE ~refused /\ accepted # 0
  <2>1. Post(action, ids, t, o, {outcome})
    BY <1>7 DEF Settle
  <2>2. /\ before.original # 0 /\ request.amount <= before.outstanding
        /\ id \notin state.ids
    BY <1>7, <1>2, <1>3 DEF Refused, Claim
  <2>3. id \in Identities BY DEF SettlementRequest, Identities
  <2>4. ids \in SUBSET Identities /\ t.id \in ids /\ t \in Postings
    <3>1. -paid["checking"] \in Int /\ -paid["retirement"] \in Int /\ -accepted \in Int
      <4> HIDE DEF paid, accepted
      <4> QED BY <1>3 DEF Accounts
    <3> HIDE DEF paid, accepted
    <3>2. t \in Postings BY <1>2, <2>3, <3>1 DEF Postings, Transaction
    <3> QED BY <2>3, <3>2 DEF Transaction
  <2>5. /\ after.original = before.original
        /\ after.recognizedAt = before.recognizedAt
        /\ after.outstanding = before.outstanding - accepted
        /\ after.settlementIds = before.settlementIds \cup {request.id}
    BY <1>2 DEF ApplySettlement, Claim
  <2>6. after \in Claim
    <3>1. before.outstanding - accepted \in Nat BY <1>2, <1>3, <2>2 DEF Claim
    <3> QED BY <3>1, <1>2 DEF ApplySettlement, Claim, SettlementRequest
  <2>7. /\ o \in [Periods -> Claim] /\ o[p0] = after
        /\ \A p \in Periods : p # p0 => o[p] = state.obligations[p]
    BY <1>2, <2>6
  <2>8. \A p \in Periods : request.id \notin state.obligations[p].settlementIds
    BY <1>1, <2>2 DEF Sound, Registered
  <2>9. after.outstanding < before.outstanding /\ after.outstanding <= before.original
    BY <1>1, <1>2, <1>3, <1>7, <2>2, <2>5 DEF Sound, Integral, Claim
  <2>10. id \in ids OBVIOUS
  <2> HIDE DEF ids, t, o, after, outcome, accepted
  <2>11. \A p, q \in Periods : p # q => o[p].settlementIds \cap o[q].settlementIds = {}
    BY <1>1, <1>2, <2>5, <2>7, <2>8 DEF Sound, Registered
  <2>12. \A p \in Periods : \A i \in o[p].settlementIds :
           <<"settlement", i>> \in state.ids \cup ids
    BY <1>1, <2>5, <2>7, <2>10 DEF Sound, Registered
  <2>13. \A p \in Periods : o[p].original # 0 =>
           <<"occurrence", <<"tax", p>>>> \in state.ids \cup ids
    BY <1>1, <2>5, <2>7 DEF Sound, Registered
  <2>14. \A p \in Periods : o[p].outstanding <= o[p].original
    BY <1>1, <2>5, <2>7, <2>9 DEF Sound, Integral
  <2>15. \A p \in Periods : o[p].outstanding < o[p].original <=> o[p].settlementIds # {}
    <3>1. after.outstanding < after.original /\ after.settlementIds # {}
      BY <1>1, <1>2, <2>5, <2>6, <2>9 DEF Sound, Integral, Claim
    <3> QED BY <1>1, <2>7, <3>1 DEF Sound, Integral
  <2>16. \A p \in Periods : state.obligations[p].original # 0 =>
           /\ o[p].original = state.obligations[p].original
           /\ o[p].recognizedAt = state.obligations[p].recognizedAt
           /\ o[p].outstanding <= state.obligations[p].outstanding
           /\ state.obligations[p].settlementIds \subseteq o[p].settlementIds
    <3>1. after.outstanding <= before.outstanding
      BY <1>2, <2>6, <2>9 DEF Claim
    <3>2. \A p \in Periods : state.obligations[p].outstanding <= state.obligations[p].outstanding
      BY <1>2 DEF Claim
    <3> QED BY <2>5, <2>7, <3>1, <3>2
  <2>17. Fresh(ids) /\ Valid(Candidate(ids, t, o)) =>
           Sound(Candidate(ids, t, o)) /\ Extends(state, Candidate(ids, t, o))
    BY <1>1, <2>4, <2>7, <2>11, <2>12, <2>13, <2>14, <2>15, <2>16, CandidateSound
  <2> QED BY <1>4, <2>1, <2>4, <2>17, PostStep
<1> HIDE DEF refused, accepted
<1> QED BY <1>5, <1>6, <1>7

\* The tax of the period, settled on request of the household.
LEMMA CurrentSettlementStep ==
  ASSUME IInv, run.running, NEW action \in run.todo, CurrentSettlement(action) PROVE IInv'
<1> DEFINE request == [id |-> <<"current", run.period>>, obligation |-> run.period,
                       amount |-> run.input.tax, policy |-> run.input.policy]
<1>1. CASE run.input.tax = 0 \/ ~run.input.settleCurrentTax
  BY <1>1, SkipStep DEF CurrentSettlement
<1>2. CASE ~(run.input.tax = 0 \/ ~run.input.settleCurrentTax)
  <2>1. Settle(action, request, Occurrence("settlement"))
    BY <1>2 DEF CurrentSettlement
  <2>2. SettlementRequest(request)
    BY GeneratedIdentities DEF Generated, SettlementRequest, SettlementIds, Input
  <2>3. Occurrence("settlement") \in SUBSET Identities
    BY GeneratedIdentities DEF Generated
  <2> HIDE DEF request
  <2> QED BY <2>1, <2>2, <2>3, SettleStep
<1> QED BY <1>1, <1>2

\* A settlement an outside caller requests, with or without an observed fact.
LEMMA ExternalSettlementStep ==
  ASSUME IInv, run.running, NEW action \in run.todo, ExternalSettlement(action) PROVE IInv'
<1> DEFINE provenance == {<<"external", k>> : k \in {action.request.key} \ {NoKey}}
<1>1. action \in Actions /\ action.kind = "external"
  BY DEF ExternalSettlement, IInv, TypeOK
<1>2. action \in ExternalActions(Requests)
  BY <1>1 DEF Actions, GeneratedActions, Action
<1>3. action.request \in Request
  BY <1>2, SliceAssumption DEF ExternalActions, Action
<1>4. SettlementRequest(action.request)
  BY <1>3 DEF Request, SettlementRequest
<1>5. provenance \in SUBSET Identities
  BY <1>3 DEF Request, Identities
<1>6. Settle(action, action.request, provenance)
  BY DEF ExternalSettlement
<1> HIDE DEF provenance
<1> QED BY <1>4, <1>5, <1>6, SettleStep

\* A run starts from a clone of the caller's state.
LEMMA BeginStep ==
  ASSUME IInv, NEW period \in Periods, NEW input \in Inputs,
         NEW requests \in SUBSET Requests, Begin(period, input, requests)
  PROVE  IInv'
<1>1. run' \in [running : BOOLEAN, period : Periods \cup {0}, input : Inputs \cup {NoInput},
              todo : SUBSET Actions,
              outcomes : SUBSET [action : Actions, requested : Nat, accepted : Nat]]
  BY DEF Begin, Actions, ExternalActions
<1>2. run'.running /\ run'.period \in Periods /\ run'.input \in Inputs
  BY DEF Begin
<1>3. book' = book /\ state' = book /\ book \in State
  BY DEF Begin, IInv, TypeOK
<1>4. Extends(book', state')
  BY <1>3, ExtendsReflexive
<1> QED BY <1>1, <1>2, <1>3, <1>4
       DEF IInv, TypeOK, IdentityAuthority, ObligationIntegrity, Registered, Integral

\* A completed run is adopted whole.
LEMMA CompleteStep == ASSUME IInv, Complete PROVE IInv'
<1>1. Idle \in [running : BOOLEAN, period : Periods \cup {0}, input : Inputs \cup {NoInput},
              todo : SUBSET Actions,
              outcomes : SUBSET [action : Actions, requested : Nat, accepted : Nat]]
  BY DEF Idle
<1>2. /\ book' = state /\ state' = state /\ run' = Idle
      /\ ~Idle.running /\ Idle.todo = {}
  BY DEF Complete, Idle
<1> HIDE DEF Idle
<1> QED BY <1>1, <1>2 DEF IInv, TypeOK, IdentityAuthority, ObligationIntegrity, Registered,
                          Integral

----------------------------------------------------------------------------
(* Every amount is explained by what was posted                            *)

\* A state whose postings are finitely many and explain its amounts.
Balanced(s) == IsFiniteSet(s.transactions) /\ Explained(s)
PInv == Balanced(book) /\ Balanced(state)

\* A posting under fresh identities was not there before, so each sum grows by
\* its value; the obligations have to move by what it settles, if anything.
LEMMA CandidateBalanced ==
  ASSUME IInv, Balanced(state), NEW identities, NEW t \in Postings, NEW obligations,
         t.id \in identities, Fresh(identities),
         \A p \in Periods :
           obligations[p].original - obligations[p].outstanding =
             (state.obligations[p].original - state.obligations[p].outstanding)
               + (IF t.settles = p THEN -t.payable ELSE 0)
  PROVE  Balanced(Candidate(identities, t, obligations))
<1> DEFINE c == Candidate(identities, t, obligations)
           before == state.transactions
           after == before \cup {t}
<1>1. /\ c.transactions = after /\ c.payable = state.payable + t.payable
      /\ c.obligations = obligations
      /\ \A a \in Accounts : c.cash[a] = state.cash[a] + t.cash[a]
  BY DEF Candidate
<1>2. before \in SUBSET Postings /\ after \in SUBSET Postings /\ state \in State
  BY DEF IInv, TypeOK, State
<1>3. t \notin before
  BY DEF IInv, IdentityAuthority, Registered, Fresh
<1>4. IsFiniteSet(before) /\ IsFiniteSet(after)
  BY FS_AddElement DEF Balanced
<1> HIDE DEF c, before, after
<1>5. ASSUME NEW a \in Accounts PROVE c.cash[a] = Total([u \in after |-> u.cash[a]])
  <2> DEFINE f == [u \in after |-> u.cash[a]]
             e == [u \in before |-> u.cash[a]]
  <2>1. f \in [before \cup {t} -> Int] /\ f[t] = t.cash[a] /\ e = [u \in before |-> f[u]]
    BY <1>2 DEF Postings, after
  <2>2. state.cash[a] = Total(e)
    BY DEF Balanced, Explained, before
  <2> HIDE DEF f, e
  <2>3. Total(f) = Total(e) + f[t]
    BY <2>1, <1>3, <1>4, TotalAdd
  <2> QED BY <1>1, <2>1, <2>2, <2>3 DEF f
<1>6. c.payable = Total([u \in after |-> u.payable])
  <2> DEFINE f == [u \in after |-> u.payable]
             e == [u \in before |-> u.payable]
  <2>1. f \in [before \cup {t} -> Int] /\ f[t] = t.payable /\ e = [u \in before |-> f[u]]
    BY <1>2 DEF Postings, after
  <2>2. state.payable = Total(e)
    BY DEF Balanced, Explained, before
  <2> HIDE DEF f, e
  <2>3. Total(f) = Total(e) + f[t]
    BY <2>1, <1>3, <1>4, TotalAdd
  <2> QED BY <1>1, <2>1, <2>2, <2>3 DEF f
<1>7. ASSUME NEW p \in Periods
      PROVE  c.obligations[p].original - c.obligations[p].outstanding =
               Total([u \in Settling(c, p) |-> -u.payable])
  <2> DEFINE old == Settling(state, p)
             f == [u \in Settling(c, p) |-> -u.payable]
             e == [u \in old |-> -u.payable]
  <2>1. state.obligations[p].original - state.obligations[p].outstanding = Total(e)
    BY DEF Balanced, Explained
  <2>2. old \subseteq before /\ IsFiniteSet(old) /\ t \notin old
    BY <1>3, <1>4, FS_Subset DEF Settling, before
  <2>3. e \in [old -> Int]
    BY <1>2, <2>2 DEF Postings
  <2>4. CASE t.settles # p
    <3>1. Settling(c, p) = old
      BY <1>1, <2>4 DEF Settling, before, after
    <3>2. Total(e) \in Int
      <4> HIDE DEF e, old
      <4> QED BY <2>2, <2>3, TotalType
    <3> HIDE DEF old
    <3>3. f = e
      BY <3>1
    <3> HIDE DEF e, f
    <3> QED BY <1>1, <2>1, <2>4, <3>2, <3>3 DEF f
  <2>5. CASE t.settles = p
    <3>1. Settling(c, p) = old \cup {t}
      BY <1>1, <2>5 DEF Settling, before, after
    <3> HIDE DEF old
    <3>2. f \in [old \cup {t} -> Int] /\ f[t] = -t.payable /\ e = [u \in old |-> f[u]]
      BY <1>2, <2>2, <3>1 DEF Postings
    <3> HIDE DEF e, f
    <3>3. Total(f) = Total(e) + f[t]
      BY <2>2, <3>2, TotalAdd
    <3> QED BY <1>1, <2>1, <2>5, <3>2, <3>3 DEF f
  <2> QED BY <2>4, <2>5
<1> QED BY <1>1, <1>4, <1>5, <1>6, <1>7 DEF Balanced, Explained, c

\* So posting beside obligations that move by what is settled keeps both sides.
LEMMA PostBalanced ==
  ASSUME IInv, PInv, NEW action, NEW identities, NEW t \in Postings,
         NEW obligations, NEW outcomes, t.id \in identities,
         \A p \in Periods :
           obligations[p].original - obligations[p].outstanding =
             (state.obligations[p].original - state.obligations[p].outstanding)
               + (IF t.settles = p THEN -t.payable ELSE 0),
         Post(action, identities, t, obligations, outcomes)
  PROVE  PInv'
<1>1. CASE Fresh(identities) /\ Valid(Candidate(identities, t, obligations))
  <2>1. state' = Candidate(identities, t, obligations) /\ book' = book
    BY <1>1 DEF Post
  <2>2. Balanced(Candidate(identities, t, obligations))
    BY <1>1, CandidateBalanced DEF PInv
  <2> QED BY <2>1, <2>2 DEF PInv, Balanced, Explained, Settling
<1>2. CASE ~(Fresh(identities) /\ Valid(Candidate(identities, t, obligations)))
  BY <1>2 DEF Post, Throw, PInv, Balanced, Explained, Settling
<1> QED BY <1>1, <1>2

\* What a posting that settles nothing leaves as it was.
LEMMA PlainBalanced ==
  ASSUME IInv, PInv, NEW action, NEW identities, NEW t \in Postings, NEW outcomes,
         t.id \in identities, t.settles = 0,
         Post(action, identities, t, state.obligations, outcomes)
  PROVE  PInv'
<1>1. ASSUME NEW p \in Periods
      PROVE  state.obligations[p].original - state.obligations[p].outstanding =
             (state.obligations[p].original - state.obligations[p].outstanding)
               + (IF t.settles = p THEN -t.payable ELSE 0)
  <2>1. state.obligations[p] \in Claim /\ p # 0
    BY SliceAssumption DEF IInv, TypeOK, State
  <2> QED BY <2>1 DEF Claim
<1> QED BY <1>1, PostBalanced

\* Compensation, the retirement transfer and the living expense settle nothing.
LEMMA GeneratedBalanced ==
  ASSUME IInv, PInv, run.running, NEW action \in run.todo,
         Compensation(action) \/ Retirement(action) \/ LivingExpense(action)
  PROVE  PInv'
<1>1. run.period \in Periods /\ run.input \in Input
  BY SliceAssumption DEF IInv, TypeOK
<1>2. ASSUME Skip(action) PROVE PInv'
  BY <1>2 DEF Skip, PInv, Balanced, Explained, Settling
<1>3. ASSUME NEW kind \in Generated, NEW c \in Int, NEW r \in Int, NEW outcomes,
             Post(action, Occurrence(kind) \cup {Posting(kind)},
                  Transaction(Posting(kind), c, r, 0, 0), state.obligations, outcomes)
      PROVE PInv'
  <2> DEFINE t == Transaction(Posting(kind), c, r, 0, 0)
  <2>1. t \in Postings /\ t.settles = 0 /\ t.id \in Occurrence(kind) \cup {Posting(kind)}
    BY <1>3, GeneratedIdentities DEF Postings, Transaction
  <2> HIDE DEF t
  <2> QED BY <1>3, <2>1, PlainBalanced DEF t
<1>4. CASE Compensation(action)
  <2>1. run.input.gross \in Int /\ 0 \in Int
    BY <1>1 DEF Input
  <2> QED BY <2>1, <1>2, <1>3, <1>4 DEF Compensation, Generated
<1>5. CASE Retirement(action)
  <2>1. run.input.contribution \in Int /\ -run.input.contribution \in Int
    BY <1>1 DEF Input
  <2> QED BY <2>1, <1>2, <1>3, <1>5 DEF Retirement, Generated
<1>6. CASE LivingExpense(action)
  <2>1. -run.input.living \in Int /\ 0 \in Int
    BY <1>1 DEF Input
  <2> QED BY <2>1, <1>2, <1>3, <1>6 DEF LivingExpense, Generated
<1> QED BY <1>4, <1>5, <1>6

\* A recognized obligation opens where none was: nothing is settled of it yet.
LEMMA RecognitionBalanced ==
  ASSUME IInv, PInv, run.running, NEW action \in run.todo, TaxRecognition(action)
  PROVE  PInv'
<1> DEFINE tax == run.input.tax
           claim == [original |-> tax, outstanding |-> tax, settlementIds |-> {},
                     recognizedAt |-> At(run.period, 2)]
           o == [state.obligations EXCEPT ![run.period] = claim]
           ids == Occurrence("tax") \cup {Posting("tax")}
           t == Transaction(Posting("tax"), 0, 0, tax, 0)
<1>1. run.period \in Periods /\ run.period # 0 /\ run.input \in Input /\ tax \in Nat
  BY SliceAssumption DEF IInv, TypeOK, Input
<1>2. CASE tax = 0 \/ state.obligations[run.period].original # 0
  BY <1>2 DEF TaxRecognition, Skip, Throw, PInv, Balanced, Explained, Settling
<1>3. CASE tax # 0 /\ state.obligations[run.period].original = 0
  <2>1. Post(action, ids, t, o, {})
    BY <1>3 DEF TaxRecognition
  <2>2. t \in Postings /\ t.id \in ids /\ t.settles = 0
    BY <1>1, GeneratedIdentities DEF Generated, Postings, Transaction
  <2>3. ASSUME NEW p \in Periods
        PROVE  o[p].original - o[p].outstanding =
                 (state.obligations[p].original - state.obligations[p].outstanding)
                   + (IF t.settles = p THEN -t.payable ELSE 0)
    <3>1. state.obligations \in [Periods -> Claim] /\ state.obligations[p] \in Claim /\ p # 0
      BY SliceAssumption DEF IInv, TypeOK, State
    <3>2. state.obligations[p].outstanding <= state.obligations[p].original
      BY DEF IInv, ObligationIntegrity, Integral
    <3>3. CASE p = run.period
      BY <1>1, <1>3, <2>2, <3>1, <3>2, <3>3 DEF Claim
    <3>4. CASE p # run.period
      BY <1>1, <2>2, <3>1, <3>4 DEF Claim
    <3> QED BY <3>3, <3>4
  <2> HIDE DEF ids, t, o
  <2> QED BY <2>1, <2>2, <2>3, PostBalanced
<1> QED BY <1>2, <1>3

\* A settlement takes off its obligation what its posting takes off the liability.
LEMMA SettleBalanced ==
  ASSUME IInv, PInv, run.running, NEW action \in run.todo,
         NEW request, SettlementRequest(request),
         NEW provenance \in SUBSET Identities, Settle(action, request, provenance)
  PROVE  PInv'
<1> DEFINE at == At(run.period, action.slot)
           accepted == AcceptedAmount(request.policy, request.amount, state.cash)
           paid == Allocation(request.policy, request.amount, state.cash)
           id == <<"settlement", request.id>>
           p0 == request.obligation
           o == [state.obligations EXCEPT ![p0] = ApplySettlement(@, request.id, accepted)]
           ids == provenance \cup {id}
           t == Transaction(id, -paid["checking"], -paid["retirement"], -accepted, p0)
           outcome == [action |-> action, requested |-> request.amount, accepted |-> accepted]
           refused == ~Fresh(provenance) \/ Refused(request, at, accepted)
<1>1. /\ state.cash \in [Accounts -> Nat] /\ p0 \in Periods
      /\ state.obligations \in [Periods -> Claim]
  BY DEF IInv, TypeOK, State, SettlementRequest
<1>2. accepted \in Nat /\ paid \in [Accounts -> Nat]
  BY <1>1, AllocationSound DEF SettlementRequest
<1>3. CASE refused
  BY <1>3 DEF Settle, Throw, PInv, Balanced, Explained, Settling
<1>4. CASE ~refused /\ accepted = 0
  <2>1. state' = [state EXCEPT !.ids = @ \cup provenance] /\ book' = book
    BY <1>4 DEF Settle
  <2>2. /\ state'.cash = state.cash /\ state'.payable = state.payable
        /\ state'.obligations = state.obligations /\ state'.transactions = state.transactions
    BY <2>1 DEF IInv, TypeOK, State
  <2> QED BY <2>1, <2>2 DEF PInv, Balanced, Explained, Settling
<1>5. CASE ~refused /\ accepted # 0
  <2>1. Post(action, ids, t, o, {outcome})
    BY <1>5 DEF Settle
  <2>2. t.id \in ids /\ t.settles = p0 /\ t.payable = -accepted
    BY DEF Transaction
  <2>3. t \in Postings
    <3>1. -paid["checking"] \in Int /\ -paid["retirement"] \in Int /\ -accepted \in Int
      <4> HIDE DEF paid, accepted
      <4> QED BY <1>2 DEF Accounts
    <3>2. id \in Identities
      BY DEF SettlementRequest, Identities
    <3> HIDE DEF paid, accepted
    <3> QED BY <1>1, <3>1, <3>2 DEF Postings, Transaction
  <2>4. ASSUME NEW p \in Periods
        PROVE  o[p].original - o[p].outstanding =
                 (state.obligations[p].original - state.obligations[p].outstanding)
                   + (IF t.settles = p THEN -t.payable ELSE 0)
    <3>1. state.obligations[p] \in Claim
      BY <1>1
    <3>2. /\ p = p0 => /\ o[p].original = state.obligations[p].original
                       /\ o[p].outstanding = state.obligations[p].outstanding - accepted
          /\ p # p0 => o[p] = state.obligations[p]
      BY <1>1, <3>1 DEF ApplySettlement, Claim
    <3> HIDE DEF o, t, accepted
    <3> QED BY <1>2, <2>2, <3>1, <3>2 DEF Claim
  <2> HIDE DEF ids, t, o, outcome, accepted
  <2> QED BY <2>1, <2>2, <2>3, <2>4, PostBalanced
<1> HIDE DEF refused, accepted
<1> QED BY <1>3, <1>4, <1>5

\* The period's own settlement and one an outside caller requests.
LEMMA SettlementsBalanced ==
  ASSUME IInv, PInv, run.running, NEW action \in run.todo,
         CurrentSettlement(action) \/ ExternalSettlement(action)
  PROVE  PInv'
<1>1. CASE CurrentSettlement(action)
  <2> DEFINE request == [id |-> <<"current", run.period>>, obligation |-> run.period,
                         amount |-> run.input.tax, policy |-> run.input.policy]
  <2>1. CASE run.input.tax = 0 \/ ~run.input.settleCurrentTax
    BY <1>1, <2>1 DEF CurrentSettlement, Skip, PInv, Balanced, Explained, Settling
  <2>2. CASE ~(run.input.tax = 0 \/ ~run.input.settleCurrentTax)
    <3>1. Settle(action, request, Occurrence("settlement"))
      BY <1>1, <2>2 DEF CurrentSettlement
    <3>2. SettlementRequest(request)
      BY GeneratedIdentities DEF Generated, SettlementRequest, SettlementIds, Input
    <3>3. Occurrence("settlement") \in SUBSET Identities
      BY GeneratedIdentities DEF Generated
    <3> HIDE DEF request
    <3> QED BY <3>1, <3>2, <3>3, SettleBalanced
  <2> QED BY <2>1, <2>2
<1>2. CASE ExternalSettlement(action)
  <2> DEFINE provenance == {<<"external", k>> : k \in {action.request.key} \ {NoKey}}
  <2>1. action \in Actions /\ action.kind = "external"
    BY <1>2 DEF ExternalSettlement, IInv, TypeOK
  <2>2. action \in ExternalActions(Requests)
    BY <2>1 DEF Actions, GeneratedActions, Action
  <2>3. action.request \in Request
    BY <2>2, SliceAssumption DEF ExternalActions, Action
  <2>4. SettlementRequest(action.request) /\ provenance \in SUBSET Identities
    BY <2>3 DEF Request, SettlementRequest, Identities
  <2>5. Settle(action, action.request, provenance)
    BY <1>2 DEF ExternalSettlement
  <2> HIDE DEF provenance
  <2> QED BY <2>4, <2>5, SettleBalanced
<1> QED BY <1>1, <1>2

\* Nothing is posted in the opening state, and everything in it is zero.
LEMMA InitiallyBalanced == Init => PInv
<1>1. /\ OpeningState.transactions = {} /\ OpeningState.payable = 0
      /\ \A a \in Accounts : OpeningState.cash[a] = 0
      /\ \A p \in Periods : OpeningState.obligations[p].original = 0
                            /\ OpeningState.obligations[p].outstanding = 0
  BY DEF OpeningState, NoClaim
<1>2. \A p \in Periods : Settling(OpeningState, p) = {}
  BY <1>1 DEF Settling
<1>3. \A a \in Accounts : Total([t \in OpeningState.transactions |-> t.cash[a]]) = 0
  BY <1>1, TotalOfNothing
<1>4. Total([t \in OpeningState.transactions |-> t.payable]) = 0
  BY <1>1, TotalOfNothing
<1>5. \A p \in Periods : Total([t \in Settling(OpeningState, p) |-> -t.payable]) = 0
  BY <1>2, TotalOfNothing
<1>6. IsFiniteSet(OpeningState.transactions)
  BY <1>1, FS_EmptySet
<1>7. Balanced(OpeningState)
  <2>1. \A p \in Periods :
          OpeningState.obligations[p].original - OpeningState.obligations[p].outstanding
            = Total([t \in Settling(OpeningState, p) |-> -t.payable])
    BY <1>1, <1>5
  <2>2. \A a \in Accounts :
          OpeningState.cash[a] = Total([t \in OpeningState.transactions |-> t.cash[a]])
    BY <1>1, <1>3
  <2>3. OpeningState.payable = Total([t \in OpeningState.transactions |-> t.payable])
    BY <1>1, <1>4
  <2> QED BY <2>1, <2>2, <2>3, <1>6, Zenon DEF Balanced, Explained
<1> QED BY <1>7 DEF Init, PInv

\* Every step keeps both states explained.
LEMMA StaysBalanced == IInv /\ PInv /\ [Next]_vars => PInv'
<1> SUFFICES ASSUME IInv, PInv, [Next]_vars PROVE PInv'
  OBVIOUS
<1>1. ASSUME NEW action \in run.todo, Execute(action) PROVE PInv'
  <2>1. run.running BY <1>1 DEF IInv
  <2> QED BY <1>1, <2>1, GeneratedBalanced, RecognitionBalanced, SettlementsBalanced DEF Execute
<1>2. ASSUME book' \in {book, state}, state' \in {book, state} PROVE PInv'
  BY <1>2 DEF PInv, Balanced, Explained, Settling
<1>3. CASE UNCHANGED vars
  BY <1>2, <1>3 DEF vars
<1>4. CASE Complete
  BY <1>2, <1>4 DEF Complete
<1>5. CASE \E period \in Periods, input \in Inputs, requests \in SUBSET Requests :
             Begin(period, input, requests)
  BY <1>2, <1>5 DEF Begin
<1> QED BY <1>1, <1>3, <1>4, <1>5 DEF Next

----------------------------------------------------------------------------
(* The theorems *)

\* The state a caller opens with satisfies the inductive invariant.
LEMMA Initially == Init => IInv
<1> SUFFICES ASSUME Init PROVE IInv
  OBVIOUS
<1>1. OpeningState \in State
  BY DEF OpeningState, NoClaim, State, Claim
<1>2. Registered(OpeningState) /\ Integral(OpeningState)
  BY DEF OpeningState, NoClaim, Registered, Integral
<1>3. Idle \in [running : BOOLEAN, period : Periods \cup {0}, input : Inputs \cup {NoInput},
              todo : SUBSET Actions,
              outcomes : SUBSET [action : Actions, requested : Nat, accepted : Nat]]
  BY DEF Idle
<1>4. ~Idle.running /\ Idle.todo = {}
  BY DEF Idle
<1> QED BY <1>1, <1>2, <1>3, <1>4
       DEF Init, IInv, TypeOK, IdentityAuthority, ObligationIntegrity

\* Every step preserves the inductive invariant.
LEMMA Inductive == IInv /\ [Next]_vars => IInv'
<1> SUFFICES ASSUME IInv, [Next]_vars PROVE IInv'
  OBVIOUS
<1>1. ASSUME NEW action \in run.todo, Execute(action) PROVE IInv'
  <2>1. run.running BY <1>1 DEF IInv
  <2> QED BY <1>1, <2>1, CompensationStep, TaxRecognitionStep, CurrentSettlementStep,
             ExternalSettlementStep, RetirementStep, LivingExpenseStep DEF Execute
<1>2. ASSUME UNCHANGED vars PROVE IInv'
  BY <1>2 DEF vars, IInv, TypeOK, IdentityAuthority, ObligationIntegrity, Registered, Integral,
              Extends
<1> QED BY <1>1, <1>2, BeginStep, CompleteStep DEF Next

\* So the inductive invariant holds throughout.
LEMMA Invariance == Spec => []IInv
BY Initially, Inductive, PTL DEF Spec

\* Validation never lets an account or the tax liability go negative, whatever
\* is run, replayed or retried: what the conversions and the funding decide
\* always stays representable.
THEOREM TypeCorrect == Spec => []TypeOK
<1>1. IInv => TypeOK BY DEF IInv
<1> QED BY <1>1, Invariance, PTL

\* The registry is the one authority over identities: no two obligations share
\* a settlement, no two postings an identity, and everything is registered.
THEOREM IdentitiesAreAuthoritative == Spec => []IdentityAuthority
<1>1. IInv => IdentityAuthority BY DEF IInv
<1> QED BY <1>1, Invariance, PTL

\* An obligation stays between zero and its original amount, and is below the
\* original exactly when a settlement stands against it.
THEOREM ObligationsKeepIntegrity == Spec => []ObligationIntegrity
<1>1. IInv => ObligationIntegrity BY DEF IInv
<1> QED BY <1>1, Invariance, PTL

\* The caller's state changes only when a whole run completes, and only grows.
THEOREM GrowsOnly == Spec => BookOnlyGrows
<1>1. IInv /\ [Next]_vars =>
        [book' # book => run.running /\ run.todo = {} /\ Extends(book, book')]_vars
  <2> SUFFICES ASSUME IInv, Next, book' # book
               PROVE  run.running /\ run.todo = {} /\ Extends(book, book')
    BY DEF vars
  <2>1. \A action \in run.todo : ~Execute(action)
    BY DEF Execute, Compensation, TaxRecognition, CurrentSettlement, ExternalSettlement,
           Retirement, LivingExpense, Skip, Settle, Post, Throw
  <2>2. Complete
    BY <2>1 DEF Next, Begin
  <2> QED BY <2>2 DEF Complete, IInv, Extends
<1> QED BY <1>1, Invariance, PTL DEF Spec, BookOnlyGrows

\* Cash, the tax liability and every obligation equal what the postings under
\* distinct identities add up to, in the caller's state and in the clone: no
\* replayed period and no retried settlement is ever posted twice.
THEOREM PostedOncePerIdentity == Spec => []PostedOnce
<1>1. PInv => PostedOnce BY DEF PInv, Balanced, PostedOnce
<1> QED BY <1>1, Invariance, InitiallyBalanced, StaysBalanced, PTL DEF Spec
=============================================================================
