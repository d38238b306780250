---------------------------- MODULE VerticalSlice ----------------------------
(***************************************************************************)
(* The vertical-slice-1 household: runVerticalSlicePeriod of               *)
(* simulation/verticalSlice1.ts with the claim, settlement, funding and    *)
(* accounting operations it calls.                                         *)
(*                                                                         *)
(* A caller owns an authoritative state (book).  A run clones it (state),  *)
(* executes its actions in chronological order on the clone, and returns   *)
(* the clone; the caller adopts it as its next opening state.  Any         *)
(* validation failure throws, and the caller keeps book.  Callers may run  *)
(* any period at any time, replay one, or retry a settlement, so every     *)
(* run is chosen freely from Inputs and Requests.                          *)
(***************************************************************************)
EXTENDS Integers, FiniteSets, FiniteSetsExt

CONSTANTS
  Periods,    \* the calendar periods a caller may run, as numbers
  Externals,  \* identities of externally requested settlements, in stable order
  Keys,       \* idempotency keys of observed facts
  Inputs,     \* household inputs: see Input
  Requests    \* external settlement requests: see Request

Accounts == {"checking", "retirement"}
NoAccount == "no account"
NoKey == "no key"

\* Instants of a period: 0 precedes the generated actions, 1..5 are the last
\* five milliseconds, one for each generated action.
Slots == 0..5
Policy == [first : Accounts, second : Accounts \cup {NoAccount}, allowPartial : BOOLEAN]
Input == [gross : Nat, tax : Nat, settleCurrentTax : BOOLEAN, contribution : Nat,
          living : Nat, policy : Policy]

\* A settlement identity: of the tax settled in its own period, or external.
SettlementIds == ({"current"} \X Periods) \cup ({"external"} \X Externals)
Request == [id : SettlementIds, obligation : Periods, amount : Nat, period : Periods,
            slot : Slots, key : Keys \cup {NoKey}, policy : Policy]

ASSUME SliceAssumption ==
  /\ Periods \subseteq Nat \ {0} /\ Externals \subseteq Nat
  /\ NoKey \notin Keys
  /\ Inputs \subseteq Input /\ Requests \subseteq Request

VARIABLES
  book,   \* the caller's authoritative state
  state,  \* the clone the run works on
  run     \* the run in progress

vars == <<book, state, run>>

\* Identities the registry keeps: generated occurrences, posted transactions,
\* settlements and idempotency keys of observed facts.
Generated == {"compensation", "tax", "settlement", "retirement", "living"}
Identities == ({"occurrence"} \X (Generated \X Periods))
              \cup ({"transaction"} \X (Generated \X Periods))
              \cup ({"settlement"} \X SettlementIds)
              \cup ({"external"} \X Keys)

\* A posted transaction: the signed effect of its legs on cash and the tax
\* liability, and the period whose obligation it settles (0: none).
Transaction(id, checking, retirement, payable, settles) ==
  [id |-> id, cash |-> [a \in Accounts |-> IF a = "checking" THEN checking ELSE retirement],
   payable |-> payable, settles |-> settles]

NoClaim == [original |-> 0, outstanding |-> 0, recognizedAt |-> 0, settlementIds |-> {}]
OpeningState == [cash |-> [a \in Accounts |-> 0], payable |-> 0,
                 obligations |-> [p \in Periods |-> NoClaim], ids |-> {}, transactions |-> {}]

Min2(m, n) == IF m <= n THEN m ELSE n
At(period, slot) == 6 * period + slot

\* Variant: cash is not validated.
ValidLiability(s) == s.payable >= 0

\* validateAuthoritativeState: no negative cash, no negative liability.
Valid(s) == s.payable >= 0 /\ \A a \in Accounts : s.cash[a] >= 0

----------------------------------------------------------------------------
(* Funding: resolveFunding spends the ordered sources greedily.            *)

Allocation(policy, amount, cash) ==
  LET fromFirst == Min2(cash[policy.first], amount)
  IN  [a \in Accounts |->
         IF a = policy.first THEN fromFirst
         ELSE IF a = policy.second THEN Min2(cash[a], amount - fromFirst) ELSE 0]

Funded(policy, amount, cash) ==
  LET allocation == Allocation(policy, amount, cash)
  IN  allocation["checking"] + allocation["retirement"]

AcceptedAmount(policy, amount, cash) ==
  IF Funded(policy, amount, cash) = amount \/ policy.allowPartial
  THEN Funded(policy, amount, cash) ELSE 0

----------------------------------------------------------------------------
(* The actions of a run, sorted by instant and then by stable key          *)

Action(kind, slot, rank, request) == [kind |-> kind, slot |-> slot, rank |-> rank, request |-> request]
NoRequest == [amount |-> 0]
GeneratedActions ==
  {Action("compensation", 1, 0, NoRequest), Action("tax", 2, 0, NoRequest),
   Action("current", 3, 0, NoRequest), Action("retirement", 4, 0, NoRequest),
   Action("living", 5, 0, NoRequest)}
Rank(request) == 1 + request.id[2]
ExternalActions(requests) ==
  {Action("external", request.slot, Rank(request), request) : request \in requests}

Precedes(a, b) == a.slot < b.slot \/ (a.slot = b.slot /\ a.rank < b.rank)
Due(action) == action \in run.todo /\ \A other \in run.todo : ~Precedes(other, action)

NoInput == [gross |-> 0, tax |-> 0, settleCurrentTax |-> FALSE, contribution |-> 0, living |-> 0,
            policy |-> [first |-> "checking", second |-> NoAccount, allowPartial |-> FALSE]]
Idle == [running |-> FALSE, period |-> 0, input |-> NoInput, todo |-> {}, outcomes |-> {}]

Init == book = OpeningState /\ state = OpeningState /\ run = Idle

\* runVerticalSlicePeriod clones the opening state and plans its actions.
\* Requests outside the period are skipped, so only those inside are offered.
Begin(period, input, requests) ==
  /\ ~run.running
  /\ run' = [running |-> TRUE, period |-> period, input |-> input,
             todo |-> GeneratedActions \cup ExternalActions(requests), outcomes |-> {}]
  /\ state' = book
  /\ UNCHANGED book

\* The return value becomes the caller's next opening state.
Complete == /\ run.running /\ run.todo = {}
            /\ book' = state /\ run' = Idle /\ UNCHANGED state

\* Variant: what the failed run had done so far stays in the caller's state.
ThrowKeepingWork == run' = Idle /\ book' = state /\ UNCHANGED state

\* A thrown validation error: the caller still has the opening state.
Throw == run' = Idle /\ state' = book /\ UNCHANGED book

\* An executed action leaves the plan, with the funding outcomes it produced.
Done(action, outcomes) ==
  run' = [run EXCEPT !.todo = @ \ {action}, !.outcomes = @ \cup outcomes]
Skip(action) == Done(action, {}) /\ UNCHANGED <<book, state>>

\* Variant: an identity may be registered twice.
FreshAlways(identities) == TRUE

\* registerAuthoritativeIdentity refuses an identity it already holds.
Fresh(identities) == identities \cap state.ids = {}

\* Variant: the transaction is posted but its identities are not registered.
CandidateUnregistered(identities, transaction, obligations) ==
  [cash |-> [a \in Accounts |-> state.cash[a] + transaction.cash[a]],
   payable |-> state.payable + transaction.payable,
   obligations |-> obligations, ids |-> state.ids,
   transactions |-> state.transactions \cup {transaction}]

\* The isolated candidate applyAccountingTransactionAtomically validates.
Candidate(identities, transaction, obligations) ==
  [cash |-> [a \in Accounts |-> state.cash[a] + transaction.cash[a]],
   payable |-> state.payable + transaction.payable,
   obligations |-> obligations, ids |-> state.ids \cup identities,
   transactions |-> state.transactions \cup {transaction}]

\* Register identities and post a transaction beside the given obligations.
Post(action, identities, transaction, obligations, outcomes) ==
  LET candidate == Candidate(identities, transaction, obligations)
  IN  IF Fresh(identities) /\ Valid(candidate)
      THEN state' = candidate /\ Done(action, outcomes) /\ UNCHANGED book
      ELSE Throw

Occurrence(kind) == {<<"occurrence", <<kind, run.period>>>>}
Posting(kind) == <<"transaction", <<kind, run.period>>>>

Compensation(action) ==
  LET gross == run.input.gross
  IN  /\ Due(action) /\ action.kind = "compensation"
      /\ IF gross = 0 THEN Skip(action)
         ELSE Post(action, Occurrence("compensation") \cup {Posting("compensation")},
                   Transaction(Posting("compensation"), gross, 0, 0, 0), state.obligations, {})

\* Recognizing tax creates its obligation and accrues the liability; the
\* identity of the obligation is that of the period's recognition.
TaxRecognition(action) ==
  LET tax == run.input.tax
      claim == [original |-> tax, outstanding |-> tax, settlementIds |-> {},
                recognizedAt |-> At(run.period, 2)]
  IN  /\ Due(action) /\ action.kind = "tax"
      /\ IF tax = 0 THEN Skip(action)
         ELSE IF state.obligations[run.period].original # 0 THEN Throw
         ELSE Post(action, Occurrence("tax") \cup {Posting("tax")},
                   Transaction(Posting("tax"), 0, 0, tax, 0),
                   [state.obligations EXCEPT ![run.period] = claim], {})

\* What createSettlementProposal, resolveFunding and createSettlement refuse.
Refused(request, at, accepted) ==
  LET claim == state.obligations[request.obligation]
  IN  \/ claim.original = 0
      \/ request.amount = 0 \/ request.amount > claim.outstanding
      \/ at < claim.recognizedAt
      \/ accepted > 0 /\ <<"settlement", request.id>> \in state.ids

\* Variant: the settlement identity is not kept.
ApplyWithoutIdentity(claim, id, amount) == [claim EXCEPT !.outstanding = @ - amount]

ApplySettlement(claim, id, amount) ==
  [claim EXCEPT !.outstanding = @ - amount, !.settlementIds = @ \cup {id}]

\* processTaxSettlement: an unaccepted proposal leaves claim and identity open
\* but its provenance registered; an accepted one reduces the claim and posts.
Settle(action, request, provenance) ==
  LET at == At(run.period, action.slot)
      accepted == AcceptedAmount(request.policy, request.amount, state.cash)
      paid == Allocation(request.policy, request.amount, state.cash)
      id == <<"settlement", request.id>>
      obligations == [state.obligations EXCEPT
                        ![request.obligation] = ApplySettlement(@, request.id, accepted)]
      outcome == [action |-> action, requested |-> request.amount, accepted |-> accepted]
  IN IF ~Fresh(provenance) \/ Refused(request, at, accepted) THEN Throw
     ELSE IF accepted = 0
     THEN /\ state' = [state EXCEPT !.ids = @ \cup provenance]
          /\ Done(action, {outcome}) /\ UNCHANGED book
     ELSE Post(action, provenance \cup {id},
               Transaction(id, -paid["checking"], -paid["retirement"], -accepted, request.obligation),
               obligations, {outcome})

CurrentSettlement(action) ==
  LET request == [id |-> <<"current", run.period>>, obligation |-> run.period,
                  amount |-> run.input.tax, policy |-> run.input.policy]
  IN  /\ Due(action) /\ action.kind = "current"
      /\ IF run.input.tax = 0 \/ ~run.input.settleCurrentTax THEN Skip(action)
         ELSE Settle(action, request, Occurrence("settlement"))

ExternalSettlement(action) ==
  /\ Due(action) /\ action.kind = "external"
  /\ Settle(action, action.request, {<<"external", k>> : k \in {action.request.key} \ {NoKey}})

Retirement(action) ==
  LET amount == run.input.contribution
  IN  /\ Due(action) /\ action.kind = "retirement"
      /\ IF amount = 0 THEN Skip(action)
         ELSE Post(action, Occurrence("retirement") \cup {Posting("retirement")},
                   Transaction(Posting("retirement"), -amount, amount, 0, 0), state.obligations, {})

LivingExpense(action) ==
  LET amount == run.input.living
  IN  /\ Due(action) /\ action.kind = "living"
      /\ IF amount = 0 THEN Skip(action)
         ELSE Post(action, Occurrence("living") \cup {Posting("living")},
                   Transaction(Posting("living"), -amount, 0, 0, 0), state.obligations, {})

Execute(action) ==
  \/ Compensation(action) \/ TaxRecognition(action) \/ CurrentSettlement(action)
  \/ ExternalSettlement(action) \/ Retirement(action) \/ LivingExpense(action)

Next ==
  \/ \E period \in Periods, input \in Inputs, requests \in SUBSET Requests :
       /\ \A request \in requests : request.period = period
       /\ Begin(period, input, requests)
  \/ \E action \in run.todo : Execute(action)
  \/ Complete

Spec == Init /\ [][Next]_vars

----------------------------------------------------------------------------
Actions == GeneratedActions \cup ExternalActions(Requests)
Claim == [original : Nat, outstanding : Nat, recognizedAt : Nat,
          settlementIds : SUBSET SettlementIds]
Postings == [id : Identities, cash : [Accounts -> Int], payable : Int, settles : Periods \cup {0}]
State == [cash : [Accounts -> Nat], payable : Nat, obligations : [Periods -> Claim],
          ids : SUBSET Identities, transactions : SUBSET Postings]

\* Every state a caller can hold is a valid authoritative state: in
\* particular no accepted action ever overdraws an account or the liability.
TypeOK ==
  /\ book \in State /\ state \in State
  /\ run \in [running : BOOLEAN, period : Periods \cup {0}, input : Inputs \cup {NoInput},
              todo : SUBSET Actions,
              outcomes : SUBSET [action : Actions, requested : Nat, accepted : Nat]]
  /\ run.running => run.period \in Periods /\ run.input \in Inputs

\* The identities of a state: obligations share no settlement identity, and
\* every settlement or recognition an obligation rests on is in the registry,
\* which therefore is "the global duplicate authority across claims".
Registered(s) ==
  /\ \A p, q \in Periods :
       p # q => s.obligations[p].settlementIds \cap s.obligations[q].settlementIds = {}
  /\ \A p \in Periods : \A id \in s.obligations[p].settlementIds : <<"settlement", id>> \in s.ids
  /\ \A p \in Periods :
       s.obligations[p].original # 0 => <<"occurrence", <<"tax", p>>>> \in s.ids
  /\ \A t \in s.transactions : t.id \in s.ids
  /\ \A t, u \in s.transactions : t.id = u.id => t = u

IdentityAuthority == Registered(book) /\ Registered(state)

\* "0 <= Outstanding" and never above the original; an obligation nothing was
\* settled against is still whole, and one below its original names a settlement.
Integral(s) ==
  \A p \in Periods :
    LET claim == s.obligations[p]
    IN  /\ claim.outstanding <= claim.original
        /\ claim.outstanding < claim.original <=> claim.settlementIds # {}

ObligationIntegrity == Integral(book) /\ Integral(state)

\* The sum of the values of a function, and the postings that settle a period's
\* obligation.
Total(f) == MapThenSumSet(LAMBDA t : f[t], DOMAIN f)
Settling(s, p) == {t \in s.transactions : t.settles = p}

\* Cash, liability and each obligation are explained by the posted
\* transactions counted once per identity: nothing is posted twice, in one
\* run, by a replayed period or by a retried settlement.
Explained(s) ==
  /\ \A a \in Accounts : s.cash[a] = Total([t \in s.transactions |-> t.cash[a]])
  /\ s.payable = Total([t \in s.transactions |-> t.payable])
  /\ \A p \in Periods :
       s.obligations[p].original - s.obligations[p].outstanding =
         Total([t \in Settling(s, p) |-> -t.payable])
PostedOnce == Explained(book) /\ Explained(state)

\* A failed run leaves the caller's state alone, a completed one only adds to
\* it: no identity, obligation or posted transaction is ever lost or rewritten
\* and no outstanding amount ever grows, over any sequence of runs.
Extends(s, t) ==
  /\ s.ids \subseteq t.ids /\ s.transactions \subseteq t.transactions
  /\ \A p \in Periods :
       s.obligations[p].original # 0 =>
         /\ t.obligations[p].original = s.obligations[p].original
         /\ t.obligations[p].recognizedAt = s.obligations[p].recognizedAt
         /\ t.obligations[p].outstanding <= s.obligations[p].outstanding
         /\ s.obligations[p].settlementIds \subseteq t.obligations[p].settlementIds

BookOnlyGrows ==
  [][book' # book => run.running /\ run.todo = {} /\ Extends(book, book')]_vars
=============================================================================
