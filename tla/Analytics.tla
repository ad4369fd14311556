----------------------------- MODULE Analytics -----------------------------
(***************************************************************************)
(* The pivots of the analysis pages.  They read the rows as they are       *)
(* stored, and a balance is that of one row of the scheme: an answer fails *)
(* (None) when a row it reads was never given the figure.                  *)
(***************************************************************************)
EXTENDS ClassicReports

---------------------------------------------------------------------------
AnalyticsRows(table, w) ==
  {r \in Filter(table, w) : w.quarters = {} \/ fy_quarter(r.month_no) \in w.quarters}

Given(rows, F) == \A r \in rows : \A f \in F : r.v[f] # None
Answer(given, answer) == IF given THEN answer ELSE None
HasData(r) == \E f \in {"active_customers", "vol_produced", "amt_billed"} : OrZero(r.v[f]) > 0

(* One row for each scheme: the newest, the newest that was filled in, the *)
(* newest with a debt.                                                     *)
LatestAny(rows) == {Newest(RowsOf(rows, key)) : key \in Keys(rows)}
LatestOf(rows, preferred) ==
  {LET kept == RowsOf(preferred, key)
   IN  Newest(IF kept = {} THEN RowsOf(rows, key) ELSE kept) : key \in Keys(rows)}
LatestData(rows) == LatestOf(rows, {r \in rows : HasData(r)})
LatestDebt(rows) == LatestOf(rows, {r \in rows : OrZero(r.v["total_debtors"]) # 0})

SUMMARY_FLOWS ==
  {"vol_produced", "revenue_water", "nrw", "cash_collected", "amt_billed", "op_cost", "new_connections", "chem_cost",
   "power_cost", "total_sales", "service_charge", "meter_rental"}
kpi_summary(table, w) ==
  LET rows == AnalyticsRows(table, w)
      supplied == {r \in rows : OrZero(r.v["supply_hours"]) > 0}
  IN  Answer(/\ Given(rows, SUMMARY_FLOWS) /\ Given(LatestAny(rows), {"stuck_meters", "pop_supplied"})
             /\ Given(LatestData(rows), {"active_customers"}) /\ Given(LatestDebt(rows), {"total_debtors"}),
        Sums(rows, SUMMARY_FLOWS)
        ++ PositiveSums(LatestData(rows), {"active_customers"}) ++ PositiveSums(LatestDebt(rows), {"total_debtors"})
        ++ PositiveSums(LatestAny(rows), {"stuck_meters", "pop_supplied"})
        ++ [total_records |-> Cardinality(rows),
            nrw_pct |-> Share(NzSum(rows, "nrw"), NzSum(rows, "vol_produced")),
            collection_rate |-> Share(NzSum(rows, "cash_collected"), NzSum(rows, "amt_billed")),
            supply_hours_avg |-> PerUnit(NzSum(supplied, "supply_hours"), Cardinality(supplied))])

PIVOT_FLOWS ==
  (SUMMARY_FLOWS \ {"total_sales"}) \union
  {"power_kwh", "fuel_cost", "staff_costs", "power_fail_hours", "pipe_breakdowns", "pump_breakdowns", "stuck_repaired",
   "stuck_new", "total_sales", "conn_applied", "all_conn_applied"}
PIVOT_STOCKS ==
  {"active_customers", "active_postpaid", "active_prepaid", "perm_staff", "temp_staff", "pop_supplied", "all_conn_cfwd"}
(* A month without production or customers holds placeholders only.        *)
MonthRows(rows, m) == {r \in rows : r.canonical /\ r.month_no = m}
MonthsGiven(rows) == {r.month_no : r \in {s \in rows : s.canonical}}
MonthsFilledIn(rows) ==
  {m \in MonthsGiven(rows) :
     LET mr == MonthRows(rows, m)
     IN  NzSum(mr, "vol_produced") # 0 \/ NzSum(LatestAny(mr), "active_customers") # 0}
monthly_pivot(table, w) ==
  LET rows == AnalyticsRows(table, [w EXCEPT !.months = {}])
  IN  Answer(/\ \A m \in MonthsGiven(rows) :
                  LET mr == MonthRows(rows, m)
                  IN  Given(mr, {"vol_produced"}) /\ Given(LatestAny(mr), {"active_customers"})
             /\ \A m \in MonthsFilledIn(rows) :
                  LET mr == MonthRows(rows, m)
                  IN  /\ Given(mr, PIVOT_FLOWS \union {"supply_hours", "days_to_connect"})
                      /\ Given(LatestAny(mr), PIVOT_STOCKS \union {"stuck_meters", "total_debtors"}),
        [m \in MonthsFilledIn(rows) |->
          LET mr == MonthRows(rows, m)
          IN  Sums(mr, PIVOT_FLOWS) ++ Sums(LatestAny(mr), PIVOT_STOCKS)
              ++ PositiveSums(LatestAny(mr), {"stuck_meters", "total_debtors"})
              ++ [f \in {"supply_hours", "days_to_connect"} |-> NzSum(mr, f) \div Cardinality(mr)]
              ++ [pct_nrw |-> Share(NzSum(mr, "nrw"), NzSum(mr, "vol_produced"))]])

ZONE_PIVOT_FLOWS ==
  {"vol_produced", "nrw", "new_connections", "cash_collected", "amt_billed", "op_cost", "chem_cost", "power_cost",
   "power_kwh", "fuel_cost", "pipe_breakdowns"}
ZONE_PIVOT_STOCKS == {"active_customers", "active_postpaid", "active_prepaid", "perm_staff", "temp_staff"}
by_zone(table, w) ==
  LET rows == AnalyticsRows(table, w)
  IN  Answer(/\ Given(rows, ZONE_PIVOT_FLOWS) /\ Given(LatestDebt(rows), {"total_debtors"})
             /\ Given(LatestData(rows), ZONE_PIVOT_STOCKS \union {"stuck_meters"}),
        [zone \in Zones(rows) |->
          LET zrows == RowsIn(rows, zone)
          IN  Sums(zrows, ZONE_PIVOT_FLOWS) ++ Sums(LatestData(zrows), ZONE_PIVOT_STOCKS)
              ++ PositiveSums(LatestData(zrows), {"stuck_meters"}) ++ PositiveSums(LatestDebt(zrows), {"total_debtors"})
              ++ [schemes |-> Cardinality(Keys(zrows)),
                  nrw_pct |-> Share(NzSum(zrows, "nrw"), NzSum(zrows, "vol_produced"))]])

(* The balance of a scheme is that of the greatest calendar month, of      *)
(* whichever year.                                                         *)
SCHEME_FLOWS ==
  {"vol_produced", "nrw", "new_connections", "cash_collected", "amt_billed", "op_cost", "pipe_breakdowns"}
ByMonthNumber(rows) == CHOOSE r \in rows : \A other \in rows : other.month_no <= r.month_no
by_scheme(table, w) ==
  LET rows == AnalyticsRows(table, w)
      newest == {ByMonthNumber(RowsOf(rows, key)) : key \in Keys(rows)}
  IN  Answer(/\ Given(rows, SCHEME_FLOWS)
             /\ Given(newest, ZONE_PIVOT_STOCKS \union {"stuck_meters", "total_debtors"}),
        [key \in Keys(rows) |->
          LET srows == RowsOf(rows, key)
              latest == {ByMonthNumber(srows)}
          IN  Sums(srows, SCHEME_FLOWS) ++ Sums(latest, ZONE_PIVOT_STOCKS)
              ++ PositiveSums(latest, {"stuck_meters", "total_debtors"})
              ++ [months_reported |-> Cardinality(srows),
                  nrw_pct |-> Share(NzSum(srows, "nrw"), NzSum(srows, "vol_produced"))]])

nrw_trend(table, w) ==
  LET rows == AnalyticsRows(table, [w EXCEPT !.schemes = {}, !.months = {}, !.quarters = {}])
  IN  Answer(Given(rows, {"vol_produced", "nrw"}),
        [zone \in Zones(rows) |->
          [m \in {r.month_no : r \in RowsIn(rows, zone)} |->
            LET mr == {r \in RowsIn(rows, zone) : r.month_no = m}
            IN  Share(NzSum(mr, "nrw"), NzSum(mr, "vol_produced"))]])

customer_pivot(table, w) ==
  LET rows == AnalyticsRows(table, [w EXCEPT !.quarters = {}])
  IN  [m \in MonthsFilledIn(rows) |->
        LET mr == MonthRows(rows, m)
            lv == LatestAny(mr)
            active == NzSum(lv, "active_customers")
        IN  Sums(lv, {"active_customers", "active_postpaid", "active_prepaid", "pop_supplied"})
            ++ Sums(mr, {"new_connections", "amt_billed", "cash_collected", "service_charge", "meter_rental"})
            ++ [postpaid_pct |-> Share(NzSum(lv, "active_postpaid"), active),
                prepaid_pct |-> Share(NzSum(lv, "active_prepaid"), active),
                collection_rate |-> Share(NzSum(mr, "cash_collected"), NzSum(mr, "amt_billed"))]]

-----------------------------------------------------------------------------
(* The alerts raised on the figures of a fiscal year: against thresholds,  *)
(* from one month to the next, zone by zone, and over the year.  An alert  *)
(* is <<severity, category, metric, zone>>; its words are left out.        *)

CONSTANTS
  THRESHOLDS,      \* the thresholds of the tenant, by name
  CURRENT_FY       \* the fiscal year of the day

ASSUME CurrentYearAssumption == CURRENT_FY \in Int

---------------------------------------------------------------------------
(* The stored rows of the year, each figure read as nothing if not given.  *)
YearRows(table, year) == CoerceNumericNulls(apply_fy_filter(table, OrElse(year, CURRENT_FY)))

(* Figures are those of the latest row, given in it or not.                *)
SnapshotSum(rows, f) == PositiveSums(LatestAny(rows), {f})[f]

MonthFigures(rows, m) ==
  LET mr == {r \in rows : r.canonical /\ r.month_no = m}
  IN  [pct_nrw |-> NrwPct(mr), collection_rate |-> CollectionRate(mr),
       pipe_breakdowns |-> NzSum(mr, "pipe_breakdowns"), total_debtors |-> SnapshotSum(mr, "total_debtors")]

MonthsOfYear(rows) ==
  LET given == {fy_month_index(r.month_no) : r \in {s \in rows : s.canonical}}
  IN  [i \in 1..Cardinality(given) |->
        FY_MONTH_NOS[1 + (CHOOSE x \in given : Cardinality({y \in given : y < x}) = i - 1)]]

Alert(condition, severity, category, metric, zone) ==
  IF condition THEN {<<severity, category, metric, zone>>} ELSE {}
Exceeds(value, limit) == value # None /\ value > limit
FallsShort(value, limit) == value # None /\ value < limit

T(name) == THRESHOLDS[name]

Whole(rows) ==
  LET nrw == NrwPct(rows)
      coll == CollectionRate(rows)
      stuck == Share(SnapshotSum(rows, "stuck_meters"), SnapshotSum(rows, "active_customers"))
      days == NzAvg(rows, "days_to_connect", 365)
  IN  Alert(Exceeds(nrw, T("nrw_warn")), "critical", "nrw", "pct_nrw", None)
      \union Alert(Exceeds(nrw, NRW_TARGET_PCT) /\ ~Exceeds(nrw, T("nrw_warn")), "warning", "nrw", "pct_nrw", None)
      \union Alert(FallsShort(coll, T("coll_warn")), "critical", "financial", "collection_rate", None)
      \union Alert(FallsShort(coll, T("coll_good")) /\ ~FallsShort(coll, T("coll_warn")),
                   "warning", "financial", "collection_rate", None)
      \union Alert(stuck > T("stuck_pct_warn"), "warning", "operations", "stuck_meters", None)
      \union Alert(days > T("dtc_critical"), "critical", "service", "days_to_connect", None)
      \union Alert(days > T("dtc_warn") /\ days <= T("dtc_critical"), "warning", "service", "days_to_connect", None)

(* The last month against the one before it.                               *)
MonthOnMonth(rows) ==
  LET months == MonthsOfYear(rows)
      cur == MonthFigures(rows, months[Len(months)])
      prev == MonthFigures(rows, months[Len(months) - 1])
  IN  IF Len(months) < 2 THEN {}
      ELSE Alert(cur.pct_nrw # None /\ prev.pct_nrw # None /\ OrZero(cur.pct_nrw) - OrZero(prev.pct_nrw) > T("mom_nrw_rise"),
                 "warning", "nrw", "pct_nrw", None)
           \union Alert(cur.collection_rate # None /\ Exceeds(prev.collection_rate, 0)
                          /\ OrZero(prev.collection_rate) - OrZero(cur.collection_rate) > T("mom_coll_drop"),
                        "warning", "financial", "collection_rate", None)
           \union Alert(prev.pipe_breakdowns > 0
                          /\ ChangePct(cur.pipe_breakdowns, prev.pipe_breakdowns) > T("mom_bd_spike"),
                        "warning", "operations", "pipe_breakdowns", None)
           \union Alert(prev.total_debtors > 0 /\ ChangePct(cur.total_debtors, prev.total_debtors) > T("mom_debtors_rise"),
                        "warning", "financial", "total_debtors", None)

ZoneAlerts(rows, zone) ==
  LET zrows == RowsIn(rows, zone)
      nrw == NrwPct(zrows)
      coll == CollectionRate(zrows)
      stuck == Share(SnapshotSum(zrows, "stuck_meters"), AtLeastOne(SnapshotSum(zrows, "active_customers")))
  IN  Alert(Exceeds(nrw, T("zone_nrw_critical")), "critical", "nrw", "pct_nrw", zone)
      \union Alert(Exceeds(nrw, NRW_TARGET_PCT) /\ ~Exceeds(nrw, T("zone_nrw_critical")), "warning", "nrw", "pct_nrw", zone)
      \union Alert(FallsShort(coll, T("zone_coll_warn")),
                   IF FallsShort(coll, T("coll_warn")) THEN "critical" ELSE "warning", "financial", "collection_rate", zone)
      \union Alert(2 * stuck > 3 * T("stuck_pct_warn"), "warning", "operations", "stuck_meters", zone)

(* The second half of the year against the first, when every month says.   *)
TrendAlerts(rows) ==
  LET months == MonthsOfYear(rows)
      pct(i) == MonthFigures(rows, months[i]).pct_nrw
      mid == Len(months) \div 2
      late == Len(months) - mid
      total(S) == MapThenSumSet(LAMBDA i : OrZero(pct(i)), S)
      (* The change of the mean, times twice the lengths of both halves.     *)
      change == 2 * (mid * total((mid + 1)..Len(months)) - late * total(1..mid))
  IN  IF Len(months) < 4 \/ \E i \in 1..Len(months) : pct(i) = None THEN {}
      ELSE Alert(change > 3 * mid * late, "warning", "nrw", "trend", None)
             \union Alert(change < -3 * mid * late, "info", "nrw", "trend", None)

generate_alerts(table, year) ==
  LET rows == YearRows(table, year)
  IN  IF MonthsOfYear(rows) = <<>> THEN {}
      ELSE Whole(rows) \union MonthOnMonth(rows) \union (UNION {ZoneAlerts(rows, z) : z \in Zones(rows)})
             \union TrendAlerts(rows)

(* The recommendations are the alerts of the year, by severity; the zones  *)
(* and months that were asked for are not looked at.                       *)
report_recommendations(table, w) ==
  [severity \in {"critical", "warning", "info"} |-> {a \in generate_alerts(table, w.year) : a[1] = severity}]
=============================================================================
