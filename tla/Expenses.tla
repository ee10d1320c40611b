------------------------------- MODULE Expenses -------------------------------
(***************************************************************************)
(* Shared expenses of a trip and the settlements that even them out.       *)
(*                                                                         *)
(* An expense and the shares of its participants are written in one        *)
(* transaction, but an update writes back the row it has read before, and  *)
(* replaces the shares only when it changes what they depend on; what is   *)
(* owed is computed from expenses, shares and settlements read by three    *)
(* statements.  Requests of several users interleave between all of these. *)
(*                                                                         *)
(* Money is an integer number of cents of one currency; people are numbers,*)
(* in the order of their ids.                                              *)
(***************************************************************************)
EXTENDS Integers, SequencesExt

CONSTANTS
    People,            \* users with access to the trip
    Spenders,          \* those among them who send requests in the instance
    Amounts,           \* amounts of expenses
    Grain,             \* percentages are counted in parts of 0.01/Grain percent
    Parts,             \* percentages of custom splits, so counted
    SplitTypes,        \* the split types that requests use
    MaxExpenses,       \* bound
    MaxRequests        \* bound: requests ever begun

ASSUME ExpenseAssumption ==
    /\ People \subseteq Nat /\ IsFiniteSet(People) /\ Spenders \subseteq People
    /\ Amounts \subseteq Nat \ {0} /\ Grain \in Nat \ {0} /\ Parts \subseteq Nat
    /\ SplitTypes \subseteq {"selected_equal", "custom_amounts", "custom_percentages"}
    /\ MaxExpenses \in Nat /\ MaxRequests \in Nat

VARIABLES
    expenses,      \* trip_expenses
    shares,        \* trip_expense_participants, by expense
    settlements,   \* trip_settlements
    claims,        \* the request each spender has under way
    requested,     \* requests begun so far
    racedRows,     \* history: expenses written between read and write of an update
    lastPaid       \* history: was the last settlement recorded overtaken

expenseVars == <<expenses, shares, settlements, claims, requested, racedRows, lastPaid>>

settlementTolerance == 1
NoClaim == [phase |-> "none"]
SumOver(f, S) == FoldFunctionOnSet(+, 0, f, S)
SumOf(f) == SumOver(f, DOMAIN f)

-----------------------------------------------------------------------------
(* calculateExpenseParticipants: the shares of an expense.                 *)

Before(id, ids) == Cardinality({other \in ids : other < id})

(* A broken variant, not part of the specification.                        *)
WholeDivision(total, ids) == [id \in ids |-> total \div Cardinality(ids)]

assignEqualShares(total, ids) ==
    LET n == Cardinality(ids) IN
    [id \in ids |-> total \div n + (IF Before(id, ids) < total % n THEN 1 ELSE 0)]

Hundred == 10000 * Grain
Rounded(total, percentage) == (2 * total * percentage + Hundred) \div (2 * Hundred)

(* The loop over the ids spreads what rounding left over, a cent at a      *)
(* time: it visits an id once per round.  A cent too many is taken from an *)
(* id that has one, and forgotten at an id that has none.                  *)
assignPercentageShares(total, percentages) ==
    LET ids == DOMAIN percentages
        rounded == [id \in ids |-> Rounded(total, percentages[id])]
        remainder == total - SumOf(rounded)
        left == IF remainder >= 0 THEN remainder ELSE -remainder
        n == Cardinality(ids)
        visits(id) == left \div n + (IF Before(id, ids) < left % n THEN 1 ELSE 0)
    IN [id \in ids |->
          IF remainder >= 0 THEN rounded[id] + visits(id)
          ELSE IF rounded[id] >= visits(id) THEN rounded[id] - visits(id) ELSE 0]

(* What a participant gets in all may be a fraction of a percent, and the  *)
(* sum may miss 100 percent by 0.01.                                       *)
Percentages == {p \in UNION {[ids -> Parts] : ids \in SUBSET People} :
                  SumOf(p) \in (Hundred - Grain)..(Hundred + Grain)}
CustomAmounts(total) ==
    {f \in UNION {[ids -> 0..total] : ids \in (SUBSET People) \ {{}}} : SumOf(f) = total}

(* equal is selected_equal for all travellers, payer_only for the payer.   *)
SplitsOf(total) ==
    UNION {CASE type = "selected_equal" -> {assignEqualShares(total, ids) : ids \in (SUBSET People) \ {{}}}
             [] type = "custom_amounts" -> CustomAmounts(total)
             [] type = "custom_percentages" -> {assignPercentageShares(total, p) : p \in Percentages} :
           type \in SplitTypes}

-----------------------------------------------------------------------------
(* expenseFinancials: what each one is still owed (or, below 0, owes).     *)

ExpenseIds == 1..Len(expenses)
Active(rows) == {e \in DOMAIN rows : rows[e].status = "active"}
PaidRows(rows) == {s \in DOMAIN rows : rows[s].status = "paid"}

NetBefore(rows, shareRows) ==
    [id \in People |->
        LET paid == SumOver([e \in DOMAIN rows |-> rows[e].amount],
                            {e \in Active(rows) : rows[e].payer = id})
            share == SumOver([e \in DOMAIN shareRows |->
                                IF id \in DOMAIN shareRows[e] THEN shareRows[e][id] ELSE 0],
                             Active(rows) \cap DOMAIN shareRows)
        IN paid - share]

NetOutstanding(net, settlementRows) ==
    [id \in People |->
        LET amounts == [s \in DOMAIN settlementRows |-> settlementRows[s].amount]
            sent == {s \in PaidRows(settlementRows) : settlementRows[s].from = id}
            received == {s \in PaidRows(settlementRows) : settlementRows[s].to = id}
        IN net[id] + SumOver(amounts, sent) - SumOver(amounts, received)]

(* Who is owed, or owes, more than the tolerance, the largest first        *)
(* (sortSides).                                                            *)
Sides(net, owing) ==
    LET size(id) == IF owing THEN -net[id] ELSE net[id]
        users == {id \in People : size(id) > settlementTolerance}
        ahead(id) == {other \in users : size(other) > size(id) \/ (size(other) = size(id) /\ other < id)}
        at(k) == CHOOSE id \in users : Cardinality(ahead(id)) = k - 1
    IN [k \in 1..Cardinality(users) |-> [user |-> at(k), amount |-> size(at(k))]]

(* A broken variant, not part of the specification.                        *)
LargerOf(x, y) == IF x > y THEN x ELSE y

SmallerOf(x, y) == IF x < y THEN x ELSE y

(* A round of settlementSuggestions: the largest debt left goes to the     *)
(* largest claim left, and a side that is even is passed.                  *)
Reduced(sides, amount) ==
    LET left == Head(sides).amount - amount IN
    IF left =< settlementTolerance THEN Tail(sides)
    ELSE [sides EXCEPT ![1].amount = left]

Settle(round) ==
    IF round.debtors = << >> \/ round.creditors = << >> THEN round
    ELSE LET debtor == Head(round.debtors)
             creditor == Head(round.creditors)
             amount == SmallerOf(debtor.amount, creditor.amount)
         IN [debtors |-> Reduced(round.debtors, amount),
             creditors |-> Reduced(round.creditors, amount),
             out |-> IF amount > settlementTolerance
                     THEN Append(round.out, [from |-> debtor.user, to |-> creditor.user, amount |-> amount])
                     ELSE round.out]

(* Every round passes a side, so there are no more rounds than sides.      *)
settlementSuggestions(net) ==
    LET start == [debtors |-> Sides(net, TRUE), creditors |-> Sides(net, FALSE), out |-> << >>]
        last == Len(start.debtors) + Len(start.creditors)
        rounds[n \in 0..last] == IF n = 0 THEN start ELSE Settle(rounds[n - 1])
    IN rounds[last].out

-----------------------------------------------------------------------------
ExpenseInit ==
    /\ expenses = << >>
    /\ shares = << >>
    /\ settlements = << >>
    /\ claims = [u \in Spenders |-> NoClaim]
    /\ requested = 0
    /\ racedRows = {}
    /\ lastPaid = FALSE

Request(u) ==
    /\ claims[u].phase = "none"
    /\ requested < MaxRequests
    /\ requested' = requested + 1

Claim(u, claim) == claims' = [claims EXCEPT ![u] = claim]

(* A write of expense e overtakes the updates that have read it; any write *)
(* overtakes the payments that have begun to read.                         *)
Overtake(u, e) ==
    /\ racedRows' = racedRows \cup
         (IF \E w \in Spenders \ {u} : claims[w].phase = "updating" /\ claims[w].expense = e
          THEN {e} ELSE {})
    /\ claims' = [w \in Spenders |->
         IF w = u THEN NoClaim
         ELSE IF claims[w].phase = "paying" THEN [claims[w] EXCEPT !.raced = TRUE]
         ELSE claims[w]]

CreateTripExpense(u) ==
    /\ Request(u)
    /\ Len(expenses) < MaxExpenses
    /\ \E amount \in Amounts : \E split \in SplitsOf(amount) :
          /\ expenses' = Append(expenses, [amount |-> amount, payer |-> u, status |-> "active"])
          /\ shares' = Append(shares, split)
    /\ Overtake(u, 0)
    /\ UNCHANGED <<settlements, lastPaid>>

(* UpdateTripExpense reads the row and computes the next one from it: a    *)
(* change of the title alone keeps the shares, a change of the amount, the *)
(* payer or the split replaces them.                                       *)
BeginUpdate(u, e) ==
    /\ Request(u)
    /\ expenses[e].status = "active"
    /\ \/ Claim(u, [phase |-> "updating", expense |-> e, next |-> expenses[e],
                    replace |-> FALSE, split |-> << >>])
       \/ \E amount \in Amounts, payer \in Spenders : \E split \in SplitsOf(amount) :
             Claim(u, [phase |-> "updating", expense |-> e,
                       next |-> [expenses[e] EXCEPT !.amount = amount, !.payer = payer],
                       replace |-> TRUE, split |-> split])
    /\ UNCHANGED <<expenses, shares, settlements, racedRows, lastPaid>>

UpdateTripExpenseWithParticipants(u) ==
    /\ claims[u].phase = "updating"
    /\ LET e == claims[u].expense IN
       IF expenses[e].status = "active"
       THEN /\ expenses' = [expenses EXCEPT ![e] = claims[u].next]
            /\ shares' = IF claims[u].replace THEN [shares EXCEPT ![e] = claims[u].split] ELSE shares
            /\ Overtake(u, e)
       ELSE UNCHANGED <<expenses, shares, racedRows>> /\ Claim(u, NoClaim)
    /\ UNCHANGED <<requested, settlements, lastPaid>>

(* A broken variant, not part of the specification.                        *)
DeleteRow(u, e) ==
    /\ Request(u)
    /\ expenses' = SubSeq(expenses, 1, e - 1) \o SubSeq(expenses, e + 1, Len(expenses))
    /\ Overtake(u, e)
    /\ UNCHANGED <<shares, settlements, lastPaid>>

DeleteTripExpense(u, e) ==
    /\ Request(u)
    /\ expenses[e].status = "active"
    /\ expenses' = [expenses EXCEPT ![e].status = "deleted"]
    /\ Overtake(u, e)
    /\ UNCHANGED <<shares, settlements, lastPaid>>

(* MarkTripSettlementPaid of a calculated suggestion: expenses, shares and *)
(* settlements are read one after the other ...                            *)
BeginPayment(u) ==
    /\ Request(u)
    /\ expenses # << >>
    /\ Claim(u, [phase |-> "paying", rows |-> expenses, raced |-> FALSE])
    /\ UNCHANGED <<expenses, shares, settlements, racedRows, lastPaid>>

ReadShares(u) ==
    /\ claims[u].phase = "paying" /\ "rows" \in DOMAIN claims[u]
    /\ Claim(u, [phase |-> "paying", net |-> NetBefore(claims[u].rows, shares),
                 raced |-> claims[u].raced])
    /\ UNCHANGED <<requested, expenses, shares, settlements, racedRows, lastPaid>>

(* A broken variant, not part of the specification.                        *)
ReadNoSettlements(u) ==
    /\ claims[u].phase = "paying" /\ "net" \in DOMAIN claims[u]
    /\ Claim(u, [phase |-> "paying", raced |-> claims[u].raced,
                 suggestions |-> Range(settlementSuggestions(claims[u].net))])
    /\ UNCHANGED <<requested, expenses, shares, settlements, racedRows, lastPaid>>

ReadSettlements(u) ==
    /\ claims[u].phase = "paying" /\ "net" \in DOMAIN claims[u]
    /\ Claim(u, [phase |-> "paying", raced |-> claims[u].raced, suggestions |->
                    Range(settlementSuggestions(NetOutstanding(claims[u].net, settlements)))])
    /\ UNCHANGED <<requested, expenses, shares, settlements, racedRows, lastPaid>>

(* ... and the suggestion that the user was shown is recorded as paid if   *)
(* it is among those that follow from what was read.                       *)
CreateTripSettlement(u) ==
    /\ claims[u].phase = "paying" /\ "suggestions" \in DOMAIN claims[u]
    /\ \E suggestion \in claims[u].suggestions :
          settlements' = Append(settlements,
             [from |-> suggestion.from, to |-> suggestion.to,
              amount |-> suggestion.amount, status |-> "paid"])
    /\ lastPaid' = claims[u].raced
    /\ Overtake(u, 0)
    /\ UNCHANGED <<requested, expenses, shares>>

(* "settlement suggestion is no longer current", or not this user's.       *)
RefusePayment(u) ==
    /\ claims[u].phase = "paying" /\ "suggestions" \in DOMAIN claims[u]
    /\ Claim(u, NoClaim)
    /\ UNCHANGED <<requested, expenses, shares, settlements, racedRows, lastPaid>>

CancelTripSettlement(u, s) ==
    /\ Request(u)
    /\ settlements[s].status # "cancelled"
    /\ settlements' = [settlements EXCEPT ![s].status = "cancelled"]
    /\ Overtake(u, 0)
    /\ UNCHANGED <<expenses, shares, lastPaid>>

ExpenseNext ==
    \E u \in Spenders :
        \/ CreateTripExpense(u) \/ UpdateTripExpenseWithParticipants(u)
        \/ \E e \in ExpenseIds : BeginUpdate(u, e) \/ DeleteTripExpense(u, e)
        \/ BeginPayment(u) \/ ReadShares(u) \/ ReadSettlements(u)
        \/ CreateTripSettlement(u) \/ RefusePayment(u)
        \/ \E s \in DOMAIN settlements : CancelTripSettlement(u, s)

ExpenseSpec == ExpenseInit /\ [][ExpenseNext]_expenseVars

-----------------------------------------------------------------------------
ExpenseTypeOK ==
    /\ expenses \in Seq([amount : Amounts, payer : People, status : {"active", "deleted"}])
    /\ Len(shares) = Len(expenses)
    /\ \A e \in ExpenseIds : DOMAIN shares[e] \subseteq People /\ Range(shares[e]) \subseteq Nat
    /\ settlements \in Seq([from : People, to : People, amount : Nat, status : {"paid", "cancelled"}])
    /\ \A s \in DOMAIN settlements : settlements[s].from # settlements[s].to
    /\ racedRows \subseteq ExpenseIds

ShareSum(e) == SumOf(shares[e])

(* The most cents that the loop of assignPercentageShares can forget at    *)
(* one of n participants: it spreads over them what the percentages have   *)
(* in excess, a ten thousandth of the total, and half a cent of rounding   *)
(* for each of them.                                                       *)
MostForgotten(total, n) == (2 * total + 10000 * n) \div (20000 * n) + 1

(* The shares of an expense that no two updates raced for never miss its   *)
(* amount, and add up to it when every participant has a share.  A         *)
(* participant without one may stand for cents that were taken from no     *)
(* one: a bounded number for each (calculateExpenseParticipants,           *)
(* updateTripExpense).                                                     *)
SharesAddUpUnlessRaced ==
    \A e \in Active(expenses) \ racedRows :
        /\ ShareSum(e) >= expenses[e].amount
        /\ ShareSum(e) =< expenses[e].amount
              + Cardinality({id \in DOMAIN shares[e] : shares[e][id] = 0})
                * MostForgotten(expenses[e].amount, Cardinality(DOMAIN shares[e]))

Magnitude(x) == IF x >= 0 THEN x ELSE -x
Outstanding == NetOutstanding(NetBefore(expenses, shares), settlements)

(* Whatever the expenses, paying all that is suggested evens out what      *)
(* people owe, in fewer payments than there are people, and makes no       *)
(* creditor a debtor: what remains is what the shares miss, and a          *)
(* tolerance per person (settlementSuggestions).                           *)
SuggestionsSettle ==
    LET suggestions == settlementSuggestions(Outstanding)
        after(id) ==
            Outstanding[id]
            + SumOver([k \in DOMAIN suggestions |-> suggestions[k].amount],
                      {k \in DOMAIN suggestions : suggestions[k].from = id})
            - SumOver([k \in DOMAIN suggestions |-> suggestions[k].amount],
                      {k \in DOMAIN suggestions : suggestions[k].to = id})
        missing == Magnitude(SumOf(Outstanding))
    IN /\ \A id \in People :
             /\ Magnitude(after(id)) =< missing + settlementTolerance * (Cardinality(People) - 1)
             /\ after(id) * Outstanding[id] >= 0
       /\ suggestions # << >> => Len(suggestions) < Cardinality(People)

(* A payment is for a debt that exists: recording it brings both sides     *)
(* nearer to zero, unless something else was written since the first of    *)
(* the three reads (MarkTripSettlementPaid).                               *)
PaymentsReduceDebts ==
    [][Len(settlements') > Len(settlements) /\ ~lastPaid' =>
          LET s == settlements'[Len(settlements')] IN
          /\ Outstanding[s.from] + s.amount =< 0
          /\ Outstanding[s.to] - s.amount >= 0]_expenseVars
=============================================================================
