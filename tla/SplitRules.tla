----------------------------- MODULE SplitRules -----------------------------
(***************************************************************************)
(* The arithmetic of a session's bills: who shares a bill, what each       *)
(* sharer owes, and what the pages show of it.  Amounts are whole units of *)
(* the currency, percentages hundredths of a percent.  A bill's scope is   *)
(* the set of participants it names, empty for everyone.                   *)
(***************************************************************************)
EXTENDS Integers, Sequences, FiniteSetsExt

Charges == {"service", "tax"}
Whole == 10000  \* a hundred percent
Percentages == [Charges -> 0..Whole]

HasFees(pct) == \E c \in Charges : pct[c] > 0

\* The sum of f over S.
Sum(f, S) == MapThenSumSet(LAMBDA x : f[x], S)

-----------------------------------------------------------------------------
\* Those of a bill's scope who are present; everyone if none is named or left.
Sharers(scope, present) ==
  IF scope \cap present = {} THEN present ELSE scope \cap present

\* Who may come last among the sharers: the newest participant of a bill for
\* everyone; the participants a bill names are read back in no given order.
LastSharers(scope, present, newest) ==
  IF scope \cap present = {} THEN {newest} ELSE scope \cap present

\* Whole units for each, the remainder for the last.
\* Mutated form: the remainder is dropped.
ShareOfDropped(amount, sharers, last, p) ==
  IF p \notin sharers THEN 0 ELSE amount \div Cardinality(sharers)
ShareOf(amount, sharers, last, p) ==
  IF p \notin sharers THEN 0
  ELSE amount \div Cardinality(sharers)
       + (IF p = last THEN amount % Cardinality(sharers) ELSE 0)

\* A percentage of base, rounded to the nearest unit.
ChargeOn(base, pct) == (2 * base * pct + 10000) \div 20000

\* What p owes for the bills in B, their charges included.
Owed(bill, B, present, last, pct, p) ==
  LET part == [b \in B |-> ShareOf(bill[b].amount, Sharers(bill[b].scope, present), last[b], p)]
      fee  == [c \in Charges |-> ChargeOn(Sum(part, {b \in B : c \in bill[b].charged}), pct[c])]
  IN  Sum(part, B) + Sum(fee, Charges)

\* The charges alone, for all.
FeesOwed(bill, B, present, last, pct) ==
  LET owed == [p \in present |-> Owed(bill, B, present, last, pct, p)]
  IN  Sum(owed, present) - Sum([b \in B |-> bill[b].amount], B)

-----------------------------------------------------------------------------
\* The payment page works its own breakdown out: nobody gets the remainder.
\* Mutated form: shares are rounded up.
PageShareUp(amount, scope, count, p) ==
  IF scope = {} THEN (amount + count - 1) \div count
  ELSE IF p \in scope THEN (amount + Cardinality(scope) - 1) \div Cardinality(scope) ELSE 0
PageShare(amount, scope, count, p) ==
  IF scope = {} THEN amount \div count
  ELSE IF p \in scope THEN amount \div Cardinality(scope) ELSE 0

PageTotal(bill, B, count, pct, p) ==
  LET part == [b \in B |-> PageShare(bill[b].amount, bill[b].scope, count, p)]
      fee  == [c \in Charges |-> ChargeOn(Sum(part, {b \in B : c \in bill[b].charged}), pct[c])]
  IN  Sum(part, B) + Sum(fee, Charges)

=============================================================================
