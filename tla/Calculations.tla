---------------------------- MODULE Calculations ----------------------------
(***************************************************************************)
(* The table of monthly returns and what is computed from it: workbooks    *)
(* are parsed against it and written into it, rows are entered and         *)
(* deleted, and the pages of a window - the panels, the classic reports,   *)
(* the pivots and the alerts - are computed from the rows of the moment.   *)
(* The requests themselves, and their races, are in Returns.               *)
(***************************************************************************)
EXTENDS Analytics, Workbook

CONSTANTS
  Row,             \* the rows that may be entered
  Window,          \* the windows that may be asked for
  Sheet,           \* the sheets that may be uploaded
  Budget,          \* lines of the budget, by fiscal year
  MaxRows          \* bound: rows of the table

(* A figure is a number, a year is not negative; names may be anything.    *)
IsCell(header, cell) ==
  \/ header.column \in {"zone", "scheme"} \/ cell \in {None, Text, Blanks}
  \/ cell \in Int /\ (header.column = "year" => cell >= 0)
IsSheet(sheet) ==
  /\ Len(sheet.headers) \in Nat /\ DOMAIN sheet.headers = 1..Len(sheet.headers)
  /\ Len(sheet.rows) \in Nat /\ DOMAIN sheet.rows = 1..Len(sheet.rows)
  /\ \A n \in DOMAIN sheet.rows :
       /\ Len(sheet.rows[n]) \in Nat /\ DOMAIN sheet.rows[n] = 1..Len(sheet.rows[n])
       /\ \A i \in DOMAIN sheet.headers \intersect DOMAIN sheet.rows[n] : IsCell(sheet.headers[i], sheet.rows[n][i])

ASSUME CalculationsAssumption ==
  /\ \A r \in Row : IsReturn(r)
  /\ \A w \in Window : IsWindow(w)
  /\ \A sheet \in Sheet : IsSheet(sheet)

VARIABLES
  table,           \* the rows of records
  parsed,          \* the sheet last parsed and what the preview has of it
  shown            \* the pages last computed, of which window

calculationVars == <<table, parsed, shown>>

Nothing == [of |-> "nothing"]

CalculationsInit == table = {} /\ parsed = Nothing /\ shown = Nothing

---------------------------------------------------------------------------
BudgetOf(w) == IF w.year \in DOMAIN Budget THEN Budget[w.year] ELSE <<>>

panels(b, rows, w) ==
  [production |-> panel_production(b), wt_ei |-> panel_wt_ei(b), customers |-> panel_customers(b),
   connections |-> panel_connections(b), stuck |-> panel_stuck(b, rows, w), connectivity |-> panel_connectivity(b),
   breakdowns |-> panel_breakdowns(b), pipelines |-> panel_pipelines(b), billed |-> panel_billed(b),
   collections |-> panel_collections(b), charges |-> panel_charges(b), expenses |-> panel_expenses(b),
   debtors |-> panel_debtors(b), segment_revenue |-> panel_segment_revenue(b), workforce |-> panel_workforce(b),
   class_connections |-> panel_class_connections(b), stuck_classes |-> panel_stuck_classes(b),
   pipe_materials |-> panel_pipe_materials(b), nrw |-> panel_nrw(b), metering |-> panel_metering(b),
   profitability |-> panel_profitability(b), disconnections |-> panel_disconnections(b),
   staff_productivity |-> panel_staff_productivity(b), supply_continuity |-> panel_supply_continuity(b)]

reports(b, rows, w) ==
  [board_pack |-> report_board_pack(b, rows, w), operations |-> report_operations(b),
   financial |-> report_financial(b, w, BudgetOf(w)), hra |-> report_hra(b), infrastructure |-> report_infrastructure(b),
   zone_comparison |-> report_zone_comparison(b), nrw_analysis |-> report_nrw_analysis(b),
   scheme_performance |-> report_scheme_performance(b), scorecard |-> report_scorecard(b),
   recommendations |-> report_recommendations(rows, w)]

analytics(rows, w) ==
  [kpi |-> kpi_summary(rows, w), monthly |-> monthly_pivot(rows, w), by_zone |-> by_zone(rows, w),
   by_scheme |-> by_scheme(rows, w), nrw_trend |-> nrw_trend(rows, w), customers |-> customer_pivot(rows, w)]

(* Everything a window shows of the rows of a table.                       *)
Pages(rows, w) ==
  LET b == Base(rows, w)
  IN  [of |-> w, base |-> b, panels |-> panels(b, rows, w), executive |-> panel_executive(b),
       costs |-> cost_split(b), reports |-> reports(b, rows, w), analytics |-> analytics(rows, w)]

(* The pages of one window, opened while nothing is written.  What is      *)
(* looked at, and what is previewed, is kept one at a time.                *)
Ask(w) ==
  /\ shown = Nothing /\ parsed = Nothing /\ table # {}
  /\ shown' = Pages(table, w)
  /\ UNCHANGED <<table, parsed>>

(* create_record: the key of a row is unique.                              *)
Enter(r) ==
  /\ Cardinality(table) < MaxRows
  /\ \A other \in table : KeyOf(other) # KeyOf(r) \/ Lk(other) # Lk(r)
  /\ table' = table \union {r}
  /\ shown' = Nothing /\ parsed' = Nothing

DeleteRow(r) ==
  /\ table' = table \ {r}
  /\ shown' = Nothing /\ parsed' = Nothing

(* The preview of an upload.                                               *)
Parse(sheet) ==
  /\ parsed = Nothing /\ shown = Nothing
  /\ parsed' = [of |-> sheet, result |-> parse(sheet, table)]
  /\ UNCHANGED <<table, shown>>

(* The commit of the preview.                                              *)
Import(mode) ==
  /\ parsed # Nothing /\ parsed.result # None
  /\ table' = execute_commit(table, parsed.result, mode)
  /\ Cardinality(table') <= MaxRows
  /\ shown' = Nothing /\ parsed' = Nothing

CalculationsNext ==
  \/ \E r \in Row : Enter(r)
  \/ \E r \in table : DeleteRow(r)
  \/ \E w \in Window : Ask(w)
  \/ \E sheet \in Sheet : Parse(sheet)
  \/ \E mode \in {"replace", "skip"} : Import(mode)

CalculationsSpec == CalculationsInit /\ [][CalculationsNext]_calculationVars
---------------------------------------------------------------------------
Shown == shown # Nothing
Cards == {p \in DOMAIN shown.panels : shown.panels[p] # None}
Kpi(p) == shown.panels[p].kpi
SumOver(series, f) == MapThenSumSet(LAMBDA k : OrZero(series[k][f]), DOMAIN series)
WindowRows == {r \in table : \E s \in shown.base.rows : KeyOf(r) = KeyOf(s) /\ Lk(r) = Lk(s)}

(* What a page works out in a way of its own: totals that are missing are  *)
(* taken from their parts for each zone or month by itself, and the staff  *)
(* of a zone is added up over the months on the workforce page.            *)
OwnWay(p, f) ==
  \/ f \in {"total_disconnected", "pipe_breakdowns"}
  \/ <<p, f>> \in {<<"workforce", "perm_staff">>, <<"workforce", "temp_staff">>, <<"billed", "amt_billed">>,
                   <<"class_connections", "new_connections">>, <<"metering", "active_customers">>}
ADDITIVE == FLOW_FIELDS \union STOCK_BALANCE_FIELDS
Shared(p, figures, F) == {f \in DOMAIN Kpi(p) \intersect DOMAIN figures \intersect F : ~OwnWay(p, f)}

(* The zones of a page add up to its cards: no row is counted twice or     *)
(* left out, and a balance is that of one month of each scheme, schemes of *)
(* the same name in two zones apart (panels.py:43-78, 202-301).            *)
ZonesAddUp ==
  \A p \in Cards : LET zones == shown.panels[p].by_zone
                   IN  \A z \in DOMAIN zones : \A f \in Shared(p, zones[z], ADDITIVE) : Kpi(p)[f] = SumOver(zones, f)

(* The months add up to the flows of the cards, if every month has a name. *)
MonthsAddUp ==
  (\A r \in shown.base.rows : r.canonical) =>
    LET months == shown.base.monthly
    IN  \A p \in Cards : \A m \in DOMAIN months : \A f \in Shared(p, months[m], FLOW_FIELDS) : Kpi(p)[f] = SumOver(months, f)

(* A figure has one value, whichever page shows it.                        *)
PagesAgree ==
  \A p, q \in Cards : \A f \in Shared(p, Kpi(q), ADDITIVE) : OwnWay(q, f) \/ Kpi(p)[f] = Kpi(q)[f]

(* Reports, pivots and the executive page show the flows of the panels.    *)
ReportsAgree ==
  LET rep == shown.reports
      summaries == <<rep.operations.production_summary, rep.financial.summary, rep.hra.summary,
                     rep.infrastructure.summary, rep.zone_comparison.totals, rep.nrw_analysis.summary,
                     rep.scheme_performance.totals, rep.financial.cost_breakdown, shown.costs>>
                   \o (IF shown.base.rows = {} THEN <<>> ELSE <<rep.board_pack.executive_kpis, shown.executive.financial>>)
                   \o (IF shown.analytics.kpi = None \/ shown.of.quarters # {} THEN <<>> ELSE <<shown.analytics.kpi>>)
  IN  \A i \in DOMAIN summaries : \A p \in Cards : \A f \in Shared(p, summaries[i], FLOW_FIELDS) :
        summaries[i][f] = Kpi(p)[f]

(* What the dashboard says adds up, on a page and from page to page.       *)
FiguresAddUp == Shown => ZonesAddUp /\ MonthsAddUp /\ PagesAgree /\ ReportsAgree

---------------------------------------------------------------------------
InWindow(r, w) ==
  /\ w.zones = {} \/ r.zone \in w.zones
  /\ w.schemes = {} \/ r.scheme \in w.schemes
  /\ w.months = {} \/ (r.canonical /\ r.month_no \in w.months)
  /\ w.year = None \/ fy_end_year(r.year, r.month_no) = w.year
GivenIn(rows, key, f) == \E r \in rows : KeyOf(r) = key /\ OrZero(r.v[f]) # 0

(* Pages are computed from the rows of their window and no others.  Only   *)
(* a balance that no row of the scheme gives in the window may come from   *)
(* elsewhere: from a month of the same scheme of the same zone, of the     *)
(* fiscal year asked for or of the one before (panels.py:583-675).         *)
WindowIsRespected ==
  Shown =>
    LET stored == {r \in table : InWindow(r, shown.of)}
    IN  /\ WindowRows = stored
        /\ Cardinality(shown.base.rows) = Cardinality(stored)
        /\ \A r \in shown.base.rows, s \in stored :
             KeyOf(r) = KeyOf(s) /\ Lk(r) = Lk(s) =>
               \A f \in NUMERIC_COLS : OrZero(r.v[f]) # OrZero(s.v[f]) =>
                  /\ f \in STOCK_BALANCE_FIELDS
                  /\ ~GivenIn(stored, KeyOf(r), f)
                  /\ \E origin \in table : /\ KeyOf(origin) = KeyOf(r)
                                           /\ origin.v[f] = r.v[f]
                                           /\ shown.of.year # None =>
                                                fy_end_year(origin.year, origin.month_no) \in {shown.of.year - 1, shown.of.year}

---------------------------------------------------------------------------
YearOfAlerts(w) == {r \in table : fy_end_year(r.year, r.month_no) = OrElse(w.year, CURRENT_FY)}
Missing(rows, F) == \E r \in rows : \E f \in F : r.v[f] = None

(* A page that assesses a rate shows none when a return of its window      *)
(* leaves out a figure the rate is computed from (assessment.py:12-43):    *)
(* not the share of lost water of the panels, the reports and the          *)
(* executive page, nor the collection rate, operating ratio, margin and    *)
(* days of sales of the board pack and the executive page, nor those of    *)
(* the other reports and of the zones named here; nothing is graded, and   *)
(* no alert of a zone raised, on it.  Some pages do not assess what they   *)
(* show, and are not meant: /collections, /segment-revenue and             *)
(* /profitability (panels.py:1003, 1120, 1499-1502), the collection rate   *)
(* of a month (448) and its trend (report_generator.py:456), the board     *)
(* pack's operating ratio of a zone (249), and the days of sales of the    *)
(* zone comparison's totals and of the scheme report.                      *)
UnknownIsNotZero ==
  Shown =>
    LET rep == shown.reports
        summary == rep.financial.summary
        pack == rep.board_pack
        executive == shown.executive
        lost == {Kpi("nrw").pct_nrw, Kpi("production").nrw_pct, rep.operations.production_summary.nrw_pct,
                 rep.nrw_analysis.summary.nrw_pct, rep.zone_comparison.totals.nrw_pct,
                 pack.executive_kpis.nrw_pct, executive.nrw.nrw_pct}
        collected == {summary.collection_rate, rep.zone_comparison.totals.collection_rate,
                      rep.scheme_performance.totals.collection_rate, pack.executive_kpis.collection_rate,
                      pack.financial_snapshot.collection_rate, executive.financial.collection_rate}
        spent == {summary.op_ratio, pack.executive_kpis.op_ratio, pack.financial_snapshot.op_ratio,
                  pack.financial_snapshot.net_margin_pct, executive.financial.op_ratio, executive.financial.net_margin}
        owed == {summary.dso, pack.executive_kpis.dso, pack.financial_snapshot.dso, executive.financial.dso}
        year == YearOfAlerts(shown.of)
    IN  /\ Missing(WindowRows, {"nrw", "vol_produced"}) => lost = {None}
        /\ Missing(WindowRows, {"cash_collected", "amt_billed"}) => collected = {None}
        /\ Missing(WindowRows, {"op_cost", "amt_billed"}) => spent = {None}
        /\ Missing(WindowRows, {"total_debtors", "amt_billed"}) => owed = {None}
        /\ Missing(WindowRows, {"supply_hours"}) => "supply_continuity" \notin Cards
        /\ \A z \in DOMAIN shown.base.by_zone :
             /\ Missing(RowsIn(WindowRows, z), {"nrw", "vol_produced"}) => shown.base.by_zone[z].nrw_pct = None
             /\ Missing(RowsIn(WindowRows, z), {"cash_collected", "amt_billed"}) =>
                  shown.base.by_zone[z].collection_rate = None
        /\ Missing(WindowRows, REQUIRED) => rep.scorecard.overall_score = None
        /\ \A severity \in DOMAIN rep.recommendations : \A a \in rep.recommendations[severity] :
             a[4] # None =>
               /\ a[3] = "pct_nrw" => ~Missing(RowsIn(year, a[4]), {"nrw", "vol_produced"})
               /\ a[3] = "collection_rate" => ~Missing(RowsIn(year, a[4]), {"cash_collected", "amt_billed"})

---------------------------------------------------------------------------
Previewed == parsed # Nothing /\ parsed.result # None
Importable == {parsed.result.rows[n] : n \in importable_rows(parsed.result)}

(* A row that may be imported says which month of which scheme it is; its  *)
(* totals, if they were blank, are the sums of their parts, whichever part *)
(* was itself a blank total (excel_parser.py:772-935); an amount in        *)
(* another currency is not taken, only worked out from other columns; and  *)
(* the row is shown as a conflict just when the table has a return of that *)
(* month, stored by its name, that a commit would replace.                 *)
ParsedRowsAreSound ==
  Previewed =>
    \A p \in Importable :
      /\ p.zone # None /\ p.scheme # None /\ p.month_no \in 1..12 /\ p.year > 0
      /\ \A c \in DOMAIN TOTALS : Blank(p.metrics, c) => PartsSum(p.metrics, TOTALS[c]) = 0
      /\ \A h \in parsed.result.currency_mismatch_columns :
           \/ Places(parsed.of.headers, h.column) # {} \/ h.column \in WORKED_OUT
           \/ p.metrics[h.column] = None
      /\ (p.conflict # {}) = (\E r \in table : r.canonical /\ KeyOf(r) = <<p.zone, p.scheme>> /\ Lk(r) = Lk(p))
-----------------------------------------------------------------------------
(* The instance of the run: two zones with a scheme of the same name, and  *)
(* one of the zones with a second scheme; months of two fiscal years that  *)
(* begin in April.  Rows differ in every figure, and some leave figures    *)
(* out.                                                                    *)
Some(n) ==
  [f \in NUMERIC_COLS |->
     CASE f \in {"vol_produced", "amt_billed", "total_sales", "total_metered"} -> 100 * n
       [] f \in {"nrw", "cash_collected", "op_cost", "active_customers", "total_debtors"} -> 40 * n + n * n
       [] f = "supply_hours" -> 10 + n
       [] OTHER -> n]
Without(figures, F) == [f \in NUMERIC_COLS |-> IF f \in F THEN None ELSE figures[f]]
Zero(figures, F) == [f \in NUMERIC_COLS |-> IF f \in F THEN 0 ELSE figures[f]]
R(zone, scheme, year, month, figures) ==
  [zone |-> zone, scheme |-> scheme, year |-> year, month_no |-> month, canonical |-> TRUE, v |-> figures, missing |-> {}]

RowDef ==
  {R("north", "s", 2025, 3, Some(7)),
   R("north", "s", 2025, 4, Some(1)),
   R("north", "s", 2025, 5, Without(Zero(Some(2), {"active_customers", "perm_staff"}),
                                    STOCK_BALANCE_FIELDS \ {"active_customers", "perm_staff", "total_metered"})),
   R("south", "s", 2025, 4, Some(3)),
   R("south", "s", 2025, 5, Without(Some(4), {"cash_collected", "supply_hours", "total_debtors", "pump_breakdowns"})),
   R("north", "t", 2025, 4, Zero(Some(5), {"total_disconnected", "pipe_breakdowns", "new_connections"})),
   [R("south", "s", 2025, 6, Some(2)) EXCEPT !.canonical = FALSE]}

W(zones, months, year) == [zones |-> zones, schemes |-> {}, months |-> months, year |-> year, quarters |-> {}]
WindowDef ==
  {W({}, {}, None), W({}, {}, 2026), W({}, {5}, 2026), W({"south"}, {4}, 2026),
   [W({"north"}, {}, 2026) EXCEPT !.schemes = {"s"}, !.quarters = {1}]}

BudgetDef == [y \in {2026} |-> [water_sales |-> 500, op_cost |-> 100]]
ThresholdsDef ==
  [nrw_warn |-> 35, coll_warn |-> 70, coll_good |-> 90, stuck_pct_warn |-> 2, dtc_critical |-> 60, dtc_warn |-> 30,
   mom_nrw_rise |-> 3, mom_coll_drop |-> 5, mom_bd_spike |-> 25, mom_debtors_rise |-> 10, zone_nrw_critical |-> 40,
   zone_coll_warn |-> 80]

H(column) == [column |-> column, currency |-> None]
Dims == <<H("zone"), H("scheme"), H("month"), H("year")>>
SheetDef ==
  {[headers |-> Dims \o <<H("vol_produced"), H("conn_indiv_done_pp"), H("conn_indiv_done_prepaid"), H("pvc_20mm"), H("nrw")>>,
    rows |-> <<<<"north", "s", 4, 25, 100, 2, 1, 3, 20>>, <<"south", "s", Text, 2025, 50, 1>>, <<None, None>>>>],
   [headers |-> Dims \o <<H("vol_produced"), [column |-> "amt_billed", currency |-> "EUR"], H("remarks"), H("vol_produced")>>,
    rows |-> <<<<"south", "s", 6, 2025, 10, 5, Text, Text>>>>],
   [headers |-> Dims \o <<H("vol_produced"), [column |-> "amt_billed", currency |-> "USD"]>>,
    rows |-> <<<<"north", "s", 6, 2025, 5000, Blanks>>, <<"north", "s", 6, 2025, 7, 9>>>>],
   [headers |-> <<H("zone"), H("scheme"), H("year"), H("vol_produced")>>, rows |-> <<<<"north", "s", 2025, 10>>>>]}
=============================================================================
