----------------------------- MODULE HouseholdWork -----------------------------
(***************************************************************************)
(* The work items of a household month and what each of them does to the   *)
(* candidate state: the cash settlements of simulation/verticalSlice2.ts,  *)
(* the period-end investment operations of verticalSlice3.ts, the debt     *)
(* service of verticalSlice4.ts and the domain operations of               *)
(* domainMechanics.ts, together with the dependencies each of them         *)
(* declares for the common schedule.                                       *)
(*                                                                         *)
(* A household is a record h: h.plan is the sequence of its work items in  *)
(* the order of their stable ids (an item is known by its position), every *)
(* month the same; h.cashOrder and h.policy are its authored orders.       *)
(* Funding policies are all-or-nothing, with one source or several that    *)
(* are distinct; an investment operation has one account.  Loans bear no   *)
(* interest.  Valuations touch no cash and come before every other         *)
(* investment operation; they are left out.                                *)
(***************************************************************************)
EXTENDS Integers, Sequences, FiniteSetsExt, SequencesExt

CONSTANTS
    Accounts,   \* the cash accounts of the household
    Loans       \* its loans

ASSUME AccountsAssumption == IsFiniteSet(Accounts)

\* The ids of the kinds sort by their prefixes: cash-expense, cash-income, domain (for
\* all domain operations), investment-fee, -purchase, -transfer, liability-extra and
\* liability-required.
IdPrefix == [expense |-> 1, income |-> 2, premium |-> 3, sale |-> 3, fee |-> 4, purchase |-> 5,
             transfer |-> 6, extra |-> 7, required |-> 8]

\* The kinds of work and their domains.
Domain == [expense |-> "cash_flow", income |-> "cash_flow",
           premium |-> "domain_mechanics", sale |-> "domain_mechanics",
           fee |-> "investments", purchase |-> "investments", transfer |-> "investments",
           extra |-> "liabilities", required |-> "liabilities"]

Books == {"cash_flow", "investments", "liabilities", "additional"}

\* kind, instant of the month, authored order or priority, funding sources in
\* order, destination (an account, or the position bought), amount, loan, and
\* the months in which the item is due.
IsItem(x) ==
    /\ DOMAIN x = {"kind", "at", "order", "from", "to", "amount", "loan", "months"}
    /\ x.kind \in DOMAIN Domain /\ x.amount \in Nat
    /\ x.from \in Seq(Accounts) /\ Len(x.from) = Cardinality(Range(x.from))
    /\ x.kind \in {"expense", "extra", "required"} => x.from # <<>>
    /\ x.kind \in {"fee", "purchase", "transfer"} => Len(x.from) = 1
    /\ x.kind \in {"income", "sale", "transfer"} => x.to \in Accounts
    /\ x.kind \in {"extra", "required"} => x.loan \in Loans

\* Ids are unique and sort by their prefixes.
IsPlan(p) ==
    /\ p \in Seq(Range(p))
    /\ \A i \in DOMAIN p : IsItem(p[i])
    /\ \A i, j \in DOMAIN p : i < j => IdPrefix[p[i].kind] <= IdPrefix[p[j].kind]

\* No account is overdrawn when the household is opened.
IsHousehold(h) ==
    IsPlan(h.plan) /\ h.cash \in [Accounts -> Nat] /\ h.principal \in [Loans -> Nat]

Consumes(x) == IF x.kind \in {"income", "sale"} THEN {} ELSE Range(x.from)
Produces(x) == IF x.kind \in {"income", "sale", "transfer"} THEN {x.to} ELSE {}
Accesses(x) == Consumes(x) \cup Produces(x)

-----------------------------------------------------------------------------
(* The candidate state: cash of the accounts, principal and unpaid claims   *)
(* of the loans, unpaid expense claims, lots in the participants' runtime,  *)
(* the debt services satisfied at this instant, the transactions each book  *)
(* posted, the funding outcomes of all books in order, and whether an       *)
(* operation threw.                                                         *)

OpeningState(h) ==
    [cash |-> h.cash, principal |-> h.principal, owed |-> [l \in Loans |-> 0],
     unpaid |-> [i \in DOMAIN h.plan |-> 0], lots |-> 0,
     satisfied |-> {}, books |-> [b \in Books |-> <<>>], outcomes |-> <<>>,
     failed |-> FALSE]

\* What a state is worth to the household, whatever was posted to get there: balances,
\* claims and lots, or nothing at all once an operation threw.
Economics(s) ==
    IF s.failed THEN [failed |-> TRUE]
    ELSE [failed |-> FALSE, cash |-> s.cash, principal |-> s.principal, owed |-> s.owed,
          unpaid |-> s.unpaid, lots |-> s.lots]

Pool(s, sources) == MapThenSumSet(LAMBDA a : s.cash[a], Range(sources))

\* What remains of an amount after each source, in their order, paid what it has.
Remaining(s, sources, amount) ==
    LET left[k \in 0..Len(sources)] ==
            IF k = 0 THEN amount ELSE left[k - 1] - Min({s.cash[sources[k]], left[k - 1]})
    IN  left

Covered(s, sources, amount) == Remaining(s, sources, amount)[Len(sources)] = 0

\* What each account pays of a covered amount.
Draw(s, sources, amount) ==
    [a \in Accounts |->
        IF a \notin Range(sources) THEN 0
        ELSE LET k == SelectInSeq(sources, LAMBDA b : b = a)
                 left == Remaining(s, sources, amount)
             IN  left[k - 1] - left[k]]

\* Variant: all books are one list.
PostedTogether(s, book, i, moved) ==
    [s EXCEPT !.cash = [a \in Accounts |-> @[a] + moved[a]],
              !.books["additional"] = Append(@, [item |-> i, moved |-> moved])]

\* The state in which item i moved cash and its book shows it.
Posted(s, book, i, moved) ==
    [s EXCEPT !.cash = [a \in Accounts |-> @[a] + moved[a]],
              !.books[book] = Append(@, [item |-> i, moved |-> moved])]

Nothing == [a \in Accounts |-> 0]
Into(account, amount) == [a \in Accounts |-> IF a = account THEN amount ELSE 0]
Out(s, sources, amount) == [a \in Accounts |-> -Draw(s, sources, amount)[a]]
Fail(s) == [s EXCEPT !.failed = TRUE]
Outcome(s, i, paid) == [s EXCEPT !.outcomes = Append(@, [item |-> i, paid |-> paid])]

\* Income is credited to its account; an expense is recognized and paid in full
\* or left as a claim.
Income(s, i, x) == Posted(s, "cash_flow", i, Into(x.to, x.amount))
Expense(s, i, x) ==
    IF Covered(s, x.from, x.amount)
    THEN Outcome(Posted(s, "cash_flow", i, Out(s, x.from, x.amount)), i, TRUE)
    ELSE Outcome([Posted(s, "cash_flow", i, Nothing) EXCEPT !.unpaid[i] = @ + x.amount],
                 i, FALSE)

\* Investment operations need their cash: an account may not go negative.
Fee(s, i, x) ==
    IF ~Covered(s, x.from, x.amount) THEN Fail(s)
    ELSE Posted(s, "investments", i, Out(s, x.from, x.amount))
Purchase(s, i, x) ==
    IF ~Covered(s, x.from, x.amount) THEN Fail(s)
    ELSE [Posted(s, "investments", i, Out(s, x.from, x.amount)) EXCEPT !.lots = @ + 1]
Transfer(s, i, x) ==
    IF ~Covered(s, x.from, x.amount) THEN Fail(s)
    ELSE Posted(s, "investments", i,
                [a \in Accounts |-> Out(s, x.from, x.amount)[a] + Into(x.to, x.amount)[a]])

\* Domain operations: a premium needs its cash, a sale a lot that was acquired.
Premium(s, i, x) ==
    IF ~Covered(s, x.from, x.amount) THEN Fail(s)
    ELSE Posted(s, "additional", i, Out(s, x.from, x.amount))
Sale(s, i, x) ==
    IF s.lots = 0 THEN Fail(s)
    ELSE [Posted(s, "additional", i, Into(x.to, x.amount)) EXCEPT !.lots = @ - 1]

\* What the loan's service asks for: the claims outstanding and what newly falls due.
Due(s, x) ==
    s.owed[x.loan] + Min({x.amount, s.principal[x.loan] - s.owed[x.loan]})

\* Required debt service is paid as a whole or becomes a claim as a whole.
Required(s, i, x) ==
    LET due == Due(s, x)
    IN  IF due = 0 THEN Fail(s)
        ELSE IF Covered(s, x.from, due)
        THEN Outcome([Posted(s, "liabilities", i, Out(s, x.from, due)) EXCEPT
                         !.principal[x.loan] = @ - due, !.owed[x.loan] = 0,
                         !.satisfied = @ \cup {x.loan}], i, TRUE)
        ELSE Outcome([Posted(s, "liabilities", i, Nothing) EXCEPT !.owed[x.loan] = due],
                     i, FALSE)

\* Variant: extra principal does not ask for the loan's service of this instant.
ExtraUnguarded(s, i, x) ==
    LET amount == Min({x.amount, s.principal[x.loan]})
    IN  IF amount = 0 \/ ~Covered(s, x.from, amount) THEN s
        ELSE [Posted(s, "additional", i, Out(s, x.from, amount)) EXCEPT
                 !.principal[x.loan] = @ - amount]

\* Extra principal is paid only after the service of its loan was satisfied and
\* while no claim of the loan is outstanding; without the cash it is skipped.
Extra(s, i, x) ==
    LET amount == Min({x.amount, s.principal[x.loan]})
    IN  IF \/ x.loan \notin s.satisfied
           \/ s.owed[x.loan] > 0
           \/ amount = 0
           \/ ~Covered(s, x.from, amount)
        THEN s
        ELSE [Posted(s, "additional", i, Out(s, x.from, amount)) EXCEPT
                 !.principal[x.loan] = @ - amount]

Operate(s, i, x) ==
    CASE s.failed -> s
      [] ~s.failed /\ x.kind = "expense" -> Expense(s, i, x)
      [] ~s.failed /\ x.kind = "income" -> Income(s, i, x)
      [] ~s.failed /\ x.kind = "fee" -> Fee(s, i, x)
      [] ~s.failed /\ x.kind = "purchase" -> Purchase(s, i, x)
      [] ~s.failed /\ x.kind = "transfer" -> Transfer(s, i, x)
      [] ~s.failed /\ x.kind = "premium" -> Premium(s, i, x)
      [] ~s.failed /\ x.kind = "sale" -> Sale(s, i, x)
      [] ~s.failed /\ x.kind = "required" -> Required(s, i, x)
      [] ~s.failed /\ x.kind = "extra" -> Extra(s, i, x)

Step(h, s, i) == Operate(s, i, h.plan[i])

-----------------------------------------------------------------------------
(* The work of a month, and the edges it declares.  A set of edges is a set  *)
(* of pairs <<before, after>> of items.                                      *)

\* Debt work is prepared for a loan with debt, extra principal beside its service.
Serviced(h, m, s, x) ==
    /\ s.principal[x.loan] > 0 \/ s.owed[x.loan] > 0
    /\ x.kind = "extra" =>
          /\ s.principal[x.loan] > 0
          /\ \E j \in DOMAIN h.plan :
                /\ h.plan[j].kind = "required" /\ m \in h.plan[j].months
                /\ h.plan[j].loan = x.loan /\ h.plan[j].at = x.at

\* What is prepared in month m for a state.
Prepared(h, m, s) ==
    {i \in DOMAIN h.plan :
        LET x == h.plan[i]
        IN  m \in x.months /\ (x.kind \in {"required", "extra"} => Serviced(h, m, s, x))}

At(h, work, t) == {i \in work : h.plan[i].at = t}
OfDomain(h, S, d) == {i \in S : Domain[h.plan[i].kind] = d}
OfKind(h, S, k) == {i \in S : h.plan[i].kind = k}

\* The pairs that follow each other directly in a strict order of S.
Consecutive(S, Precedes(_, _)) ==
    {e \in S \X S : /\ Precedes(e[1], e[2])
                    /\ ~\E k \in S : Precedes(e[1], k) /\ Precedes(k, e[2])}

\* Cash settlements of an instant form one chain: the authored order of income
\* and expense, expenses by ascending priority, incomes by id.
CashPrecedes(h, i, j) ==
    LET x == h.plan[i]
        y == h.plan[j]
    IN  IF x.kind # y.kind
        THEN (x.kind = "income") = (h.cashOrder = "income_before_expense")
        ELSE IF x.kind = "expense" THEN x.order < y.order ELSE i < j

CashEdges(h, S) ==
    LET precedes(i, j) == i # j /\ CashPrecedes(h, i, j)
    IN  Consecutive(OfDomain(h, S, "cash_flow"), precedes)

\* The economic targets of an investment operation, in the order of the code.
Targets(x) ==
    CASE x.kind = "fee" -> <<x.from[1]>>
      [] x.kind = "purchase" -> <<x.from[1], x.to>>
      [] x.kind = "transfer" -> <<x.from[1], x.to>>

\* When the map of chains first meets target t: transfers, purchases, then fees.
Met(h, S, t) ==
    LET turn(i) == SelectInSeq(<<"transfer", "purchase", "fee">>,
                               LAMBDA k : k = h.plan[i].kind)
    IN  Min({2 * (turn(i) * Len(h.plan) + i) + SelectInSeq(Targets(h.plan[i]), LAMBDA u : u = t)
             : i \in {k \in S : t \in Range(Targets(h.plan[k]))}})

\* Investment operations with a common target are chained in their authored order.
\* An operation that follows another in several chains keeps one of these
\* dependencies, that of the chain met last: each chain starts again from the
\* descriptor the operation had at first.
InvestmentEdges(h, S) ==
    LET work == OfDomain(h, S, "investments")
        chain(t) == {i \in work : t \in Range(Targets(h.plan[i]))}
        precedes(i, j) == \/ h.plan[i].order < h.plan[j].order
                          \/ h.plan[i].order = h.plan[j].order /\ i < j
        links(t) == Consecutive(chain(t), precedes)
        following(j) == {t \in Range(Targets(h.plan[j])) : \E e \in links(t) : e[2] = j}
        kept(j) == CHOOSE t \in following(j) :
                      \A u \in following(j) : Met(h, work, u) <= Met(h, work, t)
    IN  UNION {{e \in links(kept(j)) : e[2] = j} : j \in {k \in work : following(k) # {}}}

\* Extra principal waits for every required service of the instant.  Within a
\* phase, loans in descending priority: neighbours are chained if they share a source.
DebtEdges(h, S) ==
    LET required == OfKind(h, S, "required")
        extra == OfKind(h, S, "extra")
        precedes(i, j) == \/ h.plan[i].order > h.plan[j].order
                          \/ h.plan[i].order = h.plan[j].order /\ i < j
        sharing(i, j) == Range(h.plan[i].from) \cap Range(h.plan[j].from) # {}
    IN  required \X extra
        \cup {e \in Consecutive(required, precedes) \cup Consecutive(extra, precedes) :
                 sharing(e[1], e[2])}

\* Domain operations wait for those of a lower order, and for all income.
DomainEdges(h, S) ==
    LET work == OfDomain(h, S, "domain_mechanics")
    IN  OfKind(h, S, "income") \X work
        \cup {e \in work \X work : h.plan[e[1]].order < h.plan[e[2]].order}

ExplicitEdges(h, S) ==
    CashEdges(h, S) \cup InvestmentEdges(h, S) \cup DebtEdges(h, S) \cup DomainEdges(h, S)

\* A household whose cash items of one instant have no authored order is refused.
Unordered(h, S) ==
    \/ OfKind(h, S, "income") # {} /\ OfKind(h, S, "expense") # {} /\ h.cashOrder = "none"
    \/ \E i, j \in OfKind(h, S, "expense") : i # j /\ h.plan[i].order = h.plan[j].order
=============================================================================
