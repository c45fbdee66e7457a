--------------------------------- MODULE Books ---------------------------------
(***************************************************************************)
(* The payments agencies record and the four places that add them up: the  *)
(* owner's dashboard, his income ledger, the agency's dashboard and the    *)
(* platform's overview.  Money is counted in quarter dollars: some amounts *)
(* round up and some down.  A payment's date is a calendar day without a   *)
(* zone; what is kept of it is its month and whether it is the last day.   *)
(***************************************************************************)
EXTENDS Integers, FiniteSets, FiniteSetsExt, Bags

CONSTANTS Leases, LeaseOwners, LeaseAgencies, OwnerOfLease, AgencyOfLease,
          Amounts,       \* quarter dollars
          YearLength,    \* months in a year
          LastMonth, MaxPayments   \* the bounds of the model

ASSUME BooksAssumption ==
  /\ IsFiniteSet(LeaseOwners) /\ IsFiniteSet(LeaseAgencies)
  /\ OwnerOfLease \in [Leases -> LeaseOwners]
  /\ AgencyOfLease \in [Leases -> LeaseAgencies]
  /\ Amounts \subseteq Nat \ {0}
  /\ {YearLength, LastMonth, MaxPayments} \subseteq Nat \ {0}

VARIABLES
  signed,   \* the leases that were signed
  book,     \* payments
  month,    \* the current month where the server runs
  east      \* does the server's clock run ahead of UTC?

booksVars == <<signed, book, month, east>>

Months == 0 .. LastMonth
Payments == [lease : Leases, amount : Amounts, month : Months, last : BOOLEAN]

BooksInit == signed = {} /\ book = EmptyBag /\ month = 0 /\ east \in BOOLEAN

--------------------------------------------------------------------------------
Room(n) == BagCardinality(book) + n <= MaxPayments

(* A payment of any amount, of any day, for any lease of the agency, over  *)
(* or not.                                                                 *)
LogPayment(l, amount, paid, eve) ==
  /\ l \in signed /\ Room(1)
  /\ book' = book (+) SetToBag({[lease |-> l, amount |-> amount, month |-> paid, last |-> eve]})
  /\ UNCHANGED <<signed, month, east>>

(* close records the deposit and the first rent with the lease.            *)
Close(l, deposit, firstRent, paid, eve) ==
  /\ l \notin signed /\ Room(2)
  /\ signed' = signed \cup {l}
  /\ book' = book (+) SetToBag({[lease |-> l, amount |-> deposit, month |-> paid, last |-> eve]})
                  (+) SetToBag({[lease |-> l, amount |-> firstRent, month |-> paid, last |-> eve]})
  /\ UNCHANGED <<month, east>>

MonthPasses ==
  /\ month < LastMonth
  /\ month' = month + 1
  /\ UNCHANGED <<signed, book, east>>

BooksNext ==
  \/ \E l \in Leases, amount \in Amounts, paid \in Months, eve \in BOOLEAN :
       LogPayment(l, amount, paid, eve)
  \/ \E l \in Leases, deposit, firstRent \in Amounts, paid \in Months, eve \in BOOLEAN :
       Close(l, deposit, firstRent, paid, eve)
  \/ MonthPasses

BooksSpec == BooksInit /\ [][BooksNext]_booksVars

--------------------------------------------------------------------------------
(* THE FIGURES                                                             *)

Money == [p \in BagToSet(book) |-> p.amount * book[p]]
Sum(rows) == SumFunctionOnSet(Money, rows)
Round(quarters) == (quarters + 2) \div 4

Rows(P(_)) == {p \in BagToSet(book) : P(p)}
YearOf(m) == m \div YearLength

(* The month a query counts a payment in.  Its bounds are midnights where  *)
(* the server runs, and a bound is sent as the UTC day it falls on: ahead  *)
(* of UTC that is the day before, and each month begins a day early.       *)
Counted(p) == IF east /\ p.last THEN p.month + 1 ELSE p.month

(* The owner's dashboard: from the first of the month, or year, to the     *)
(* first of the next one.                                                  *)
OwnedBy(o) == Rows(LAMBDA p : OwnerOfLease[p.lease] = o)

(* Mutant: the month has a beginning and no end.                           *)
IncomeThisMonth_NoEnd(o) == Round(Sum({p \in OwnedBy(o) : Counted(p) >= month}))

IncomeThisMonth(o) == Round(Sum({p \in OwnedBy(o) : Counted(p) = month}))
CollectedThisYear(o) == Round(Sum({p \in OwnedBy(o) : YearOf(Counted(p)) = YearOf(month)}))

(* The ledger: the payments of a month by the same bounds, each rounded    *)
(* and then added; and, when all months are asked for, a rounded sum for   *)
(* each month as the payments' own dates name it.                          *)
InLedger(o, m) == {p \in OwnedBy(o) : Counted(p) = m}
Dollars == [p \in BagToSet(book) |-> Round(p.amount) * book[p]]
LedgerTotal(o, m) == SumFunctionOnSet(Dollars, InLedger(o, m))
LedgerRows(o, m) == SumFunctionOnSet(book, InLedger(o, m))
MonthlyTotal(o, m) == Round(Sum({p \in OwnedBy(o) : p.month = m}))

(* The agency's dashboard and the platform's overview: from the first of   *)
(* the month on.                                                           *)
AgencyRent(g) ==
  Round(Sum(Rows(LAMBDA p : AgencyOfLease[p.lease] = g /\ Counted(p) >= month)))
PlatformRent == Round(Sum(Rows(LAMBDA p : Counted(p) >= month)))

--------------------------------------------------------------------------------
(* PROPERTIES                                                              *)

Off(a, b) == IF a > b THEN a - b ELSE b - a
Owners == SumFunction([o \in LeaseOwners |-> IncomeThisMonth(o)])
AgenciesRent == SumFunction([g \in LeaseAgencies |-> AgencyRent(g)])
Undated == \A p \in BagToSet(book) : Counted(p) <= month
ThisYear == {m \in Months : YearOf(m) = YearOf(month)}

(* Whatever is logged, for whatever day, wherever the server runs: an      *)
(* owner's figure of the month is what his ledger adds up for it, but for  *)
(* half a dollar a row and for the sum; the platform's rent is that of the *)
(* agencies, but for half a dollar each and for the sum; and while nobody  *)
(* has dated a payment ahead, owners and agencies see the same money.  On  *)
(* a server that keeps UTC, or runs behind it, the owner's figure is also  *)
(* the bar of the month, and his year the bars of the year.                *)
FiguresAgree ==
  /\ \A o \in LeaseOwners :
       2 * Off(LedgerTotal(o, month), IncomeThisMonth(o)) <= LedgerRows(o, month) + 1
  /\ 2 * Off(AgenciesRent, PlatformRent) <= Cardinality(LeaseAgencies) + 1
  /\ Undated => 2 * Off(Owners, AgenciesRent)
                  <= Cardinality(LeaseOwners) + Cardinality(LeaseAgencies)
  /\ ~east => \A o \in LeaseOwners :
       /\ IncomeThisMonth(o) = MonthlyTotal(o, month)
       /\ 2 * Off(SumFunction([m \in ThisYear |-> MonthlyTotal(o, m)]), CollectedThisYear(o))
            <= Cardinality(ThisYear) + 1

--------------------------------------------------------------------------------
(* WHAT THE TEXTS PROMISE AND THE CODE DOES NOT ALWAYS KEEP.  No run       *)
(* checks these; README.md tells the steps that break each of them.        *)

(* owner.service.ts:14: income is the sum of the payments; the total under *)
(* the ledger is a sum of rounded payments.                                *)
LedgerAddsUp ==
  \A o \in LeaseOwners : LedgerTotal(o, month) = IncomeThisMonth(o)

(* owner/page.tsx:76: the bar of the current month, in lime, is drawn      *)
(* under the income of that month and of the same payments.                *)
BarIsTheFigure ==
  \A o \in LeaseOwners : IncomeThisMonth(o) = MonthlyTotal(o, month)

(* en.json:514 and :777: what the owners of the agencies' homes are told   *)
(* came in this month is what the agencies recorded for it.                *)
SameMonthForAll == 2 * Off(Owners, AgenciesRent)
                     <= Cardinality(LeaseOwners) + Cardinality(LeaseAgencies)
================================================================================
