------------------------- MODULE MCHouseholdExecution --------------------------
(* Households for HouseholdExecution, each built around one decision.        *)
EXTENDS HouseholdExecution

All == 1..Months

Item(kind, at, order, from, to, amount, loan) ==
    [kind |-> kind, at |-> at, order |-> order, from |-> from, to |-> to,
     amount |-> amount, loan |-> loan, months |-> All]
InMonths(ms, x) == [x EXCEPT !.months = ms]

IncomeOf(at, to, n) == Item("income", at, 0, <<>>, to, n, "none")
ExpenseOf(at, order, from, n) == Item("expense", at, order, from, "none", n, "none")
PremiumOf(at, order, from, n) == Item("premium", at, order, from, "none", n, "none")
SaleOf(at, order, to, n) == Item("sale", at, order, <<>>, to, n, "none")
FeeOf(at, order, from, n) == Item("fee", at, order, <<from>>, "none", n, "none")
PurchaseOf(at, order, from, position, n) ==
    Item("purchase", at, order, <<from>>, position, n, "none")
TransferOf(at, order, from, to, n) == Item("transfer", at, order, <<from>>, to, n, "none")
ExtraOf(at, priority, from, loan, n) == Item("extra", at, priority, from, "none", n, loan)
RequiredOf(at, priority, from, loan, n) == Item("required", at, priority, from, "none", n, loan)

Household(plan, policy, a, b, owing) ==
    [plan |-> plan, cashOrder |-> "income_before_expense", policy |-> policy,
     cash |-> [x \in Accounts |-> IF x = "A" THEN a ELSE b],
     principal |-> [l \in Loans |-> owing]]

DebtFirst == {<<"required", "expense">>, <<"required", "purchase">>, <<"income", "required">>}
DebtLast == {<<"expense", "required">>, <<"purchase", "required">>, <<"income", "required">>}

\* An expense and a service of the same account: the policy gives the cash out.
Scarce(policy) ==
    Household(<<ExpenseOf(1, 1, <<"A">>, 2), InMonths({2}, IncomeOf(2, "A", 3)),
                RequiredOf(1, 1, <<"A">>, "L", 2)>>, policy, 3, 0, 4)

\* Two sources, and extra principal after the service; the last service pays the rest.
Extras ==
    Household(<<ExpenseOf(1, 1, <<"B", "A">>, 1),
                ExtraOf(1, 1, <<"B">>, "L", 1), RequiredOf(1, 1, <<"A", "B">>, "L", 2)>>,
              DebtFirst \cup {<<"extra", "expense">>}, 3, 2, 5)

\* A service that is left unpaid in the first month, and its extra principal with it.
Arrears ==
    Household(<<InMonths({2, 3}, IncomeOf(1, "A", 6)), ExtraOf(1, 1, <<"B">>, "L", 1),
                RequiredOf(1, 1, <<"A">>, "L", 2)>>, DebtFirst, 1, 1, 6)

\* Income that a covered service need not wait for, and a transfer within a pool
\* that cannot pay.
CommutingIncome ==
    Household(<<IncomeOf(1, "A", 1), RequiredOf(1, 1, <<"A", "B">>, "L", 2)>>, {}, 6, 0, 4)
CommutingTransfer ==
    Household(<<TransferOf(1, 1, "A", "B", 1), RequiredOf(1, 1, <<"B", "A">>, "L", 5)>>,
              {}, 3, 0, 5)

\* A purchase competes with a service: one order has no cash for the purchase.
Starving ==
    Household(<<PurchaseOf(1, 1, "A", "P", 2), RequiredOf(1, 1, <<"A">>, "L", 2)>>,
              DebtFirst, 3, 0, 4)

\* Lots bought in one month and sold in a later one, and fees in their order.
Invested ==
    Household(<<InMonths({1}, IncomeOf(1, "A", 4)), InMonths({2, 3}, SaleOf(2, 1, "B", 1)),
                FeeOf(2, 2, "A", 1), InMonths({1, 2}, PurchaseOf(1, 1, "A", "P", 1))>>,
              {}, 2, 0, 0)

\* A month without the cash for its premium, after months that had it.
Lapsing ==
    Household(<<InMonths({1}, IncomeOf(1, "B", 1)), PremiumOf(1, 1, <<"B">>, 1),
                InMonths({1, 2}, TransferOf(2, 1, "A", "B", 1))>>, {}, 2, 0, 0)

\* Policies against the income that premiums wait for, and against the cash chain.
Contradicted ==
    Household(<<IncomeOf(1, "A", 1), PremiumOf(1, 1, <<"A">>, 1)>>,
              {<<"premium", "income">>}, 2, 0, 0)
Circular ==
    Household(<<ExpenseOf(1, 1, <<"A">>, 2), IncomeOf(1, "A", 1),
                RequiredOf(1, 1, <<"A">>, "L", 2)>>,
              {<<"expense", "required">>, <<"required", "income">>}, 2, 0, 4)

\* Two instants, two loans with one source in priority order, transfers between.
Loaded ==
    Household(<<ExpenseOf(2, 1, <<"B">>, 1), InMonths({1, 3}, IncomeOf(1, "B", 2)),
                TransferOf(2, 1, "A", "B", 1), RequiredOf(1, 2, <<"A">>, "L", 1),
                RequiredOf(1, 1, <<"A">>, "M", 1)>>,
              {<<"transfer", "expense">>, <<"transfer", "required">>}, 5, 1, 2)

Unauthored ==
    [Household(<<ExpenseOf(1, 1, <<"A">>, 1), InMonths({2}, IncomeOf(1, "A", 1))>>, {}, 2, 0, 0)
        EXCEPT !.cashOrder = "none"]

\* A work of each kind at one instant; a sale has lots to sell from the second month on.
Template(kind) ==
    CASE kind = "expense" -> ExpenseOf(1, 1, <<"A", "B">>, 2)
      [] kind = "income" -> IncomeOf(1, "A", 2)
      [] kind = "premium" -> PremiumOf(1, 1, <<"A">>, 1)
      [] kind = "sale" -> InMonths({2, 3}, SaleOf(1, 2, "A", 1))
      [] kind = "fee" -> FeeOf(1, 1, "A", 1)
      [] kind = "purchase" -> PurchaseOf(1, 2, "A", "P", 1)
      [] kind = "transfer" -> TransferOf(1, 3, "A", "B", 1)
      [] kind = "extra" -> ExtraOf(1, 1, <<"A">>, "L", 1)
      [] kind = "required" -> RequiredOf(1, 1, <<"B", "A">>, "L", 2)
Acquired == InMonths({1, 2}, PurchaseOf(2, 1, "A", "P", 1))

\* The works of these kinds with what they need to be there: a lot, a debt service.
WorkOf(kinds) ==
    {Template(k) : k \in kinds \cup (IF "extra" \in kinds THEN {"required"} ELSE {})}
    \cup (IF "sale" \in kinds THEN {Acquired} ELSE {})
ById(items) ==
    SetToSortSeq(items, LAMBDA x, y :
        \/ IdPrefix[x.kind] < IdPrefix[y.kind]
        \/ IdPrefix[x.kind] = IdPrefix[y.kind] /\ (x.order < y.order \/ (x.order = y.order /\ x.at < y.at)))

\* Every two kinds, with little cash, with some or with enough, under two policies.
Paired(kinds) ==
    {Household(ById(WorkOf(kinds)), policy, a, 1, 9) : policy \in {{}, DebtLast}, a \in {1, 4, 12}}
Pairs == UNION {Paired(kinds) : kinds \in kSubset(2, DOMAIN Domain)}

\* Three expenses in their authored order, the second from another account: the first
\* and the third contend with the service, the second does not.
Around(policy) ==
    Household(<<ExpenseOf(1, 1, <<"A">>, 1), ExpenseOf(1, 2, <<"B">>, 1),
                ExpenseOf(1, 3, <<"A">>, 1), RequiredOf(1, 1, <<"A">>, "L", 1)>>, policy, 9, 9, 9)

\* A transfer funds a purchase of a higher order.  A service takes cash from both their
\* accounts, or an expense and a service contend for a third one.
Funding(policy, contenders, c) ==
    [Household(<<PurchaseOf(1, 2, "B", "P", 1), TransferOf(1, 1, "A", "B", 4)>> \o contenders,
               policy, 14, 0, 9) EXCEPT !.cash["C"] = c]
FundedTogether ==
    Funding({<<"transfer", "required">>, <<"required", "purchase">>},
            <<RequiredOf(1, 1, <<"B", "A">>, "L", 2)>>, 0)
FundedApart ==
    [Funding(DebtFirst, <<RequiredOf(1, 1, <<"C">>, "L", 1)>>, 9)
        EXCEPT !.plan = <<ExpenseOf(1, 1, <<"C">>, 1)>> \o @]

Catalogue ==
    {Scarce(DebtFirst), Scarce(DebtLast), Scarce({}), Extras, Arrears, CommutingIncome,
     CommutingTransfer, Starving, Invested, Lapsing, Contradicted, Circular, Loaded, Unauthored,
     Around({}), Around(DebtFirst), Around(DebtLast), FundedTogether, FundedApart} \cup Pairs

-----------------------------------------------------------------------------
(* A household for the disagreement between the documents and the code.      *)

\* A transfer and two purchases, in the order of both targets; the second purchase
\* follows another operation in each of its chains and keeps one of them.
Unchained ==
    {Household(<<PurchaseOf(1, 3, "A", "P", 2), PurchaseOf(1, 1, "B", "P", 1),
                 TransferOf(1, 2, "B", "A", 1)>>, {}, 1, 2, 0)}
=============================================================================
