------------------------------- MODULE Budgets -------------------------------
(***************************************************************************)
(* Fiscal years and their budgets (app/routers/fiscal_years.py): the lines *)
(* of a budget by category, some of them money, and, each with a table of  *)
(* its own, the shares of zones and the control limits.  Amounts are       *)
(* floats, of any sign; here they are numbers of thousandths, so that what *)
(* is rounded to two decimals can differ from what was entered.            *)
(***************************************************************************)
EXTENDS Accounts, Integers

CONSTANTS
  Year,            \* fiscal years that may be entered
  Category,        \* budget categories, zones and metrics
  BudgetLine,      \* those that are lines of the budget
  Monetary,        \* those of them entered in money
  NoLine,          \* no line
  Amount,          \* amounts that may be entered
  Rate,            \* inflation rates that may be given, in percent
  MaxAmount        \* bound on the amounts

ASSUME BudgetsAssumption ==
  /\ BudgetLine \subseteq Category /\ Monetary \subseteq BudgetLine
  /\ Amount \subseteq Int /\ Rate \subseteq Int
  /\ MaxAmount \in Nat /\ NoLine \notin Int

VARIABLES
  years,           \* rows of fiscal_years: those entered
  lines            \* rows of budget_lines, zone shares and SPC limits

NoBudget == [c \in Category |-> NoLine]

BudgetsInit == years = {} /\ lines = [y \in Year |-> NoBudget]

Lines(budget) == {c \in Category : budget[c] # NoLine}
-----------------------------------------------------------------------------
CreateFiscalYear(a, y) ==
  /\ Free
  /\ Admin(a)
  /\ y \notin years
  /\ years' = years \cup {y}
  /\ UNCHANGED <<accounts, lines, req>>

(* upsert_budget_lines, upsert_zone_shares and upsert_spc_limits: items    *)
(* without a value are passed over, the others added or updated.           *)
Upsert(w, a, y, items) ==
  /\ Admin(a)
  /\ y \in years
  /\ Begin(w, [step |-> "lines", year |-> y, overwrite |-> FALSE,
               added |-> {c \in Lines(items) : c \notin Lines(lines[y])}, new |-> items])
  /\ UNCHANGED <<accounts, years, lines>>

(* copy_budget_from: money is raised by the rate, and every line of the    *)
(* budget is rounded to two decimals (a tie, here upwards, falls as the    *)
(* float does); without overwrite, what the target has is left alone.      *)
Nearest(n, d) == (2 * n + d) \div (2 * d)

Percent(c, rate) == IF c \in Monetary THEN 100 + rate ELSE 100

Raised(c, amount, rate) ==
  IF c \in BudgetLine THEN 10 * Nearest(amount * Percent(c, rate), 1000) ELSE amount

Copied(source, target, overwrite) ==
  IF overwrite THEN Lines(source) ELSE Lines(source) \ Lines(target)

CopyBudget(w, a, y, from, rate, overwrite) ==
  LET source == IF overwrite /\ from = y THEN NoBudget ELSE lines[from]
      copied == Copied(source, lines[y], overwrite)
  IN /\ Admin(a)
     /\ {y, from} \subseteq years
     /\ \A c \in copied : Raised(c, source[c], rate) \in -MaxAmount..MaxAmount
     /\ Begin(w, [step |-> "lines", year |-> y, overwrite |-> overwrite, added |-> copied, from |-> from, rate |-> rate,
                  new |-> [c \in Category |-> IF c \in copied THEN Raised(c, source[c], rate) ELSE NoLine]])
     /\ UNCHANGED <<accounts, years, lines>>

(* The unique key of year and category refuses a line added meanwhile, and *)
(* with it the whole request; an overwrite has removed what was there.     *)
RefusedLines(q) == ~q.overwrite /\ \E c \in q.added : c \in Lines(lines[q.year])

CommitLines(w) ==
  LET q == req[w]
      kept == IF q.overwrite THEN NoBudget ELSE lines[q.year]
  IN /\ q.step = "lines"
     /\ lines' = IF RefusedLines(q) THEN lines
                 ELSE [lines EXCEPT ![q.year] =
                        [c \in Category |-> IF c \in Lines(q.new) THEN q.new[c] ELSE kept[c]]]
     /\ Finish(w)
     /\ UNCHANGED <<accounts, years>>

BudgetsNext ==
  \/ \E a \in User, y \in Year : CreateFiscalYear(a, y)
  \/ \E w \in Waiting, a \in User, y \in Year :
       \/ \E items \in [Category -> Amount \cup {NoLine}] : Upsert(w, a, y, items)
       \/ \E from \in Year, rate \in Rate, overwrite \in BOOLEAN : CopyBudget(w, a, y, from, rate, overwrite)
  \/ \E w \in Worker : CommitLines(w)

BudgetsTypeOK == years \subseteq Year /\ lines \in [Year -> [Category -> Int \cup {NoLine}]]
-----------------------------------------------------------------------------
(* Entering or copying a budget goes through, one request at a time, and   *)
(* afterwards the year has every line of the budget it was copied from:    *)
(* money at the rate that was asked for and other lines as they were,      *)
(* either to the nearest hundredth, shares and limits exactly, and the     *)
(* lines it had unless they were to be overwritten (fiscal_years.py:294,   *)
(* 347).  A year that is copied onto itself with overwrite is left out:    *)
(* its lines are deleted before they are read (326, 331).                  *)
BudgetsAreCopiedWhole ==
  \A w \in Worker :
    LET q == req[w]
        source == lines[q.from]
        target == lines[q.year]
    IN Serial /\ q.step = "lines" =>
         /\ ~RefusedLines(q)
         /\ "from" \in DOMAIN q /\ q.from # q.year =>
              \A c \in Lines(source) :
                \/ /\ c \in Lines(q.new)
                   /\ c \notin BudgetLine => q.new[c] = source[c]
                   /\ c \in BudgetLine =>
                        100 * q.new[c] - source[c] * Percent(c, q.rate) \in -500..500
                   /\ q.overwrite \/ c \notin Lines(target)
                \/ ~q.overwrite /\ c \in Lines(target) /\ c \notin Lines(q.new)
=============================================================================
