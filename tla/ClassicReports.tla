-------------------------- MODULE ClassicReports --------------------------
(***************************************************************************)
(* Nine reports of the report centre, computed from the same window of     *)
(* rows as the panels; the tenth, its recommendations, are the alerts of   *)
(* module Analytics.  Titles, colours and the texts of the benchmarks are  *)
(* left out; operating ratios are in hundredths like every rate.           *)
(***************************************************************************)
EXTENDS Panels

CONSTANTS
  NRW_WARN         \* a share of lost water still worth watching

---------------------------------------------------------------------------
DataMonths(b) == IF DOMAIN b.monthly = {} THEN 1 ELSE Cardinality(DOMAIN b.monthly)
TrendSeries(b, figures) == [m \in DOMAIN b.monthly |-> [f \in figures \intersect DOMAIN b.monthly[m] |-> b.monthly[m][f]]]
ZonesOf(b, Entry(_, _)) == [z \in DOMAIN b.by_zone |-> Entry(b.by_zone[z], RowsIn(b.rows, z))]
Only(figures, names) == [f \in names |-> figures[f]]
TotalOf(pipe, pump) == OrZero(pipe) + OrZero(pump)
ChangePct(now, before) == IF before = 0 THEN 0 ELSE (100 * (now - before)) \div before
Months(rows) == {Lk(r) : r \in rows}

TotalDebtors(rows) == PositiveSums(LatestNonzero(rows, "total_debtors"), DEBTORS)["total_debtors"]
Dso(rows, debtors, billed, months) ==
  IF Complete(rows, {"total_debtors", "amt_billed"}) THEN DaysOfSales(debtors, billed, months) ELSE None
WholeDso(b) == Dso(b.rows, TotalDebtors(b.rows), NzSum(b.rows, "amt_billed"), DataMonths(b))
ZoneDso(z, zr) == Dso(zr, z["total_debtors"], z["amt_billed"], Cardinality(Months(zr)))
NetMargin(rows) ==
  IF NzSum(rows, "amt_billed") = 0 \/ ~Complete(rows, {"amt_billed", "op_cost"}) THEN None
  ELSE MarginOf(NzSum(rows, "amt_billed"), NzSum(rows, "op_cost"))
CollectionRate(rows) == AssessedRatio(rows, "cash_collected", "amt_billed")
OpRatio(rows) == AssessedRatio(rows, "op_cost", "amt_billed")
NrwPct(rows) == AssessedRatio(rows, "nrw", "vol_produced")
Breakdowns(rows) == NzSum(rows, "pipe_breakdowns") + NzSum(rows, "pump_breakdowns")

---------------------------------------------------------------------------
executive_kpis(b) ==
  LET active == LatestPositive(b.rows, "active_customers")
  IN  Sums(b.rows, {"vol_produced", "cash_collected"})
      ++ [revenue |-> NzSum(b.rows, "amt_billed"),
          collection_rate |-> CollectionRate(b.rows),
          collection_rate_flag |-> Flag(CollectionRate(b.rows), COLL_GOOD, COLL_WARN, FALSE),
          nrw_pct |-> NrwPct(b.rows), nrw_flag |-> Flag(NrwPct(b.rows), NRW_TARGET_PCT, NRW_WARN, TRUE),
          active_customers |-> IF active = 0 THEN 1 ELSE active,
          total_breakdowns |-> Breakdowns(b.rows), supply_hours_avg |-> SupplyDaily(b.rows),
          op_ratio |-> OpRatio(b.rows), op_ratio_flag |-> Flag(OpRatio(b.rows), 80, 100, TRUE),
          dso |-> WholeDso(b), dso_flag |-> Flag(WholeDso(b), 60, 90, TRUE),
          energy_intensity |-> PerUnit(NzSum(b.rows, "power_kwh"), NzSum(b.rows, "vol_produced"))]

financial_snapshot(b) ==
  LET revenue == NzSum(b.rows, "amt_billed")
      opex == NzSum(b.rows, "op_cost")
  IN  [total_revenue |-> revenue, cash_collected |-> NzSum(b.rows, "cash_collected"),
       collection_rate |-> CollectionRate(b.rows), op_costs |-> opex, op_ratio |-> OpRatio(b.rows),
       total_debtors |-> TotalDebtors(b.rows), dso |-> WholeDso(b), net_surplus |-> revenue - opex,
       net_margin_pct |-> NetMargin(b.rows)]

(* The three zones worst off by lost water and debt, of those assessed.    *)
Risk(z, zr) ==
  LET dso == ZoneDso(z, zr)
  IN  [nrw_pct |-> z["nrw_pct"], dso |-> dso, collection_rate |-> z["collection_rate"],
       risk_score |-> IF z["nrw_pct"] = None \/ dso = None THEN None
                      ELSE (100 * z["nrw_pct"]) \div NRW_TARGET_PCT + (100 * dso) \div 90]
zone_risks(b) ==
  LET risks == ZonesOf(b, Risk)
      assessed == {z \in DOMAIN risks : risks[z].risk_score # None}
  IN  {z \in assessed : Cardinality({o \in assessed : risks[o].risk_score > risks[z].risk_score}) < 3}

(* The year before, in the same window.                                    *)
Compared(now, before) == [current |-> now, prior |-> before, change_pct |-> ChangePct(now, before)]
yoy_comparison(b, prior) ==
  IF prior.rows = {} THEN <<>>
  ELSE [f \in {"amt_billed", "cash_collected", "vol_produced", "op_cost"} |->
          Compared(NzSum(b.rows, f), NzSum(prior.rows, f))]
       ++ [nrw_pct |-> [current |-> NrwPct(b.rows), prior |-> NrwPct(prior.rows)]]

report_board_pack(b, table, w) ==
  IF b.rows = {} THEN [executive_kpis |-> <<>>, financial_snapshot |-> <<>>, zone_risks |-> {}, nrw_trend |-> <<>>,
                       yoy_comparison |-> <<>>]
  ELSE
  [executive_kpis |-> executive_kpis(b), financial_snapshot |-> financial_snapshot(b), zone_risks |-> zone_risks(b),
   nrw_trend |-> TrendSeries(b, {"pct_nrw"}),
   yoy_comparison |-> IF w.year = None THEN <<>> ELSE yoy_comparison(b, Base(table, [w EXCEPT !.year = w.year - 1])),
   by_zone |-> ZonesOf(b, LAMBDA z, zr :
     Only(z, {"vol_produced", "nrw_pct", "collection_rate", "active_customers"})
     ++ [op_ratio |-> Share(z["op_cost"], z["amt_billed"])])]

report_operations(b) ==
  [production_summary |->
     Sums(b.rows, {"vol_produced", "revenue_water", "nrw", "power_kwh", "power_cost", "chem_cost", "power_fail_hours",
                   "pipe_breakdowns", "pump_breakdowns", "dev_lines_total"})
     ++ [nrw_pct |-> NrwPct(b.rows), energy_intensity_kwh_m3 |-> NzAvg(b.rows, "power_kwh_per_m3", None),
         chem_cost_per_m3 |-> PerUnit(NzSum(b.rows, "chem_cost"), NzSum(b.rows, "vol_produced")),
         supply_hours_avg_daily |-> SupplyDaily(b.rows)],
   production_by_zone |-> ZonesOf(b, LAMBDA z, zr : Only(z, {"vol_produced", "nrw_pct", "supply_hours"})),
   production_trend |-> TrendSeries(b, {"vol_produced", "pct_nrw", "supply_hours"}),
   nrw_by_zone |-> ZonesOf(b, LAMBDA z, zr :
     Only(z, {"vol_produced", "nrw", "nrw_pct"}) ++ [above_target |-> Above(z["nrw_pct"], NRW_TARGET_PCT)]),
   energy_intensity_by_zone |-> ZonesOf(b, LAMBDA z, zr :
     Only(z, {"power_kwh", "power_cost", "power_kwh_per_m3", "chem_cost", "chlorine_kg_per_m3", "alum_kg_per_m3"})),
   breakdowns_by_zone |-> ZonesOf(b, LAMBDA z, zr :
     Only(z, NULLABLE_SENTINEL_COLS \union {"pump_hours_lost"})
     ++ [total |-> TotalOf(z["pipe_breakdowns"], z["pump_breakdowns"])]),
   pipe_extensions |-> Sums(b.rows, DEV_LINES \union {"dev_lines_total"})]

---------------------------------------------------------------------------
(* Actuals against the budget of the year, when there is one.              *)
Variance(actual, budget) ==
  [actual |-> actual, budget |-> budget, variance |-> actual - budget, variance_pct |-> ChangePct(actual, budget)]
BudgetedFigure == [revenue |-> <<"amt_billed", "water_sales">>, cash_collected |-> <<"cash_collected", "cash_collected">>,
                   op_cost |-> <<"op_cost", "op_cost">>]
budget_variance(b, w, budget) ==
  IF w.year = None \/ DOMAIN budget = {} THEN <<>>
  ELSE [k \in DOMAIN BudgetedFigure |->
          Variance(NzSum(b.rows, BudgetedFigure[k][1]),
                   IF BudgetedFigure[k][2] \in DOMAIN budget THEN budget[BudgetedFigure[k][2]] ELSE 0)]

report_financial(b, w, budget) ==
  [summary |->
     Sums(b.rows, {"cash_collected", "service_charge", "meter_rental", "total_sales"})
     ++ Only(financial_snapshot(b), {"total_revenue", "collection_rate", "op_costs", "op_ratio", "total_debtors", "dso",
                                     "net_surplus"})
     ++ [collection_rate_flag |-> Flag(CollectionRate(b.rows), COLL_GOOD, COLL_WARN, FALSE),
         op_ratio_flag |-> Flag(OpRatio(b.rows), 80, 100, TRUE), dso_flag |-> Flag(WholeDso(b), 60, 90, TRUE)],
   by_zone |-> ZonesOf(b, LAMBDA z, zr :
     Only(z, {"amt_billed", "cash_collected", "collection_rate", "op_cost", "total_debtors"})),
   cost_breakdown |-> Sums(b.rows, COSTS \union {"op_cost", "other_overhead"}),
   debtors_by_zone |-> ZonesOf(b, LAMBDA z, zr :
     Only(z, DEBTORS) ++ [debtors_to_billed_pct |-> Share(z["total_debtors"], z["amt_billed"])]),
   billed_collected_trend |-> TrendSeries(b, {"amt_billed", "cash_collected", "collection_rate"}),
   budget_variance |-> budget_variance(b, w, budget)]

StaffOf(rows) == LatestSum(rows, "perm_staff") + LatestSum(rows, "temp_staff")
AtLeastOne(n) == IF n = 0 THEN 1 ELSE n
(* A month has no distances: the fleet's trend shows none.                 *)
report_hra(b) ==
  LET staff == StaffOf(b.rows)
      active == LatestPositive(b.rows, "active_customers")
      revenue == MapThenSumSet(LAMBDA z : b.by_zone[z]["amt_billed"], DOMAIN b.by_zone)
      payroll == NzSum(b.rows, "staff_costs") + NzSum(b.rows, "wages")
  IN  [summary |->
         Stocks(b.rows, {"perm_staff", "temp_staff"})
         ++ Sums(b.rows, {"wages", "staff_costs", "fuel_used_litres", "fuel_cost", "distances_km", "maintenance"})
         ++ [total_staff |-> staff, active_customers |-> active, staff_per_1000_conn |-> PerUnit(1000 * staff, active),
             staff_per_1000m3_12h |-> NzAvg(b.rows, "staff_per_1000m3_12h", None),
             m3_per_staff |-> NzSum(b.rows, "vol_produced") \div AtLeastOne(staff),
             total_payroll |-> payroll, payroll_cost_ratio |-> Share(payroll, revenue),
             wages_per_staff |-> NzSum(b.rows, "wages") \div AtLeastOne(staff),
             fuel_per_km |-> PerUnit(NzSum(b.rows, "fuel_used_litres"), NzSum(b.rows, "distances_km"))],
       staff_by_zone |-> ZonesOf(b, LAMBDA z, zr :
         Stocks(zr, {"perm_staff", "temp_staff"})
         ++ Only(z, {"wages", "staff_costs", "fuel_used_litres", "fuel_cost", "distances_km"})
         ++ [total_staff |-> StaffOf(zr), m3_per_staff |-> z["vol_produced"] \div AtLeastOne(StaffOf(zr))]),
       staff_trend |-> TrendSeries(b, {"perm_staff", "temp_staff", "wages", "staff_costs"}),
       fuel_trend |-> TrendSeries(b, {"fuel_used_litres", "fuel_cost", "distances_km"})]

report_infrastructure(b) ==
  LET active == LatestPositive(b.rows, "active_customers")
      metered == LatestPositive(b.rows, "total_metered")
  IN  [summary |->
         Sums(b.rows, NULLABLE_SENTINEL_COLS \union
                {"pump_hours_lost", "power_fail_hours", "stuck_new", "stuck_repaired", "dev_lines_total"})
         ++ PositiveStocks(b.rows, {"stuck_meters", "total_metered"})
         ++ [total_breakdowns |-> Breakdowns(b.rows),
             breakdowns_per_1k_customers |-> (1000 * Breakdowns(b.rows)) \div AtLeastOne(active),
             supply_hours_avg_daily |-> SupplyDaily(b.rows),
             stuck_pct |-> Share(LatestPositive(b.rows, "stuck_meters"), metered),
             active_conn_ratio |-> Share(AtLeastOne(active), metered)],
       breakdowns_by_zone |-> ZonesOf(b, LAMBDA z, zr :
         Only(z, NULLABLE_SENTINEL_COLS \union PIPE_MATERIALS \union {"pump_hours_lost"})
         ++ [total_breakdowns |-> TotalOf(z["pipe_breakdowns"], z["pump_breakdowns"])]),
       pipeline_extensions |-> Sums(b.rows, DEV_LINES),
       pvc_breakdowns_by_size |-> Sums(b.rows, PVC_SIZES \ {"pvc_250mm", "pvc_315mm"}),
       infrastructure_trend |->
         TrendSeries(b, NULLABLE_SENTINEL_COLS \union {"supply_hours", "power_fail_hours", "stuck_meters"})]

---------------------------------------------------------------------------
ComparedZone(z, zr) ==
  Only(z, {"vol_produced", "nrw_pct", "collection_rate", "active_customers", "op_cost", "amt_billed", "cash_collected",
           "total_debtors", "staff_per_1000m3_12h"} \union NULLABLE_SENTINEL_COLS)
  ++ [nrw_flag |-> Flag(z["nrw_pct"], NRW_TARGET_PCT, NRW_WARN, TRUE),
      collection_flag |-> Flag(z["collection_rate"], COLL_GOOD, COLL_WARN, FALSE),
      total_breakdowns |-> TotalOf(z["pipe_breakdowns"], z["pump_breakdowns"]),
      dso |-> ZoneDso(z, zr), dso_flag |-> Flag(ZoneDso(z, zr), 60, 90, TRUE),
      op_cost_per_m3 |-> PerUnit(z["op_cost"], z["vol_produced"])]

(* The days of the total are computed without asking whether the figures   *)
(* are complete, here and in the scheme report.                            *)
UnguardedDso(b) == DaysOfSales(TotalDebtors(b.rows), NzSum(b.rows, "amt_billed"), DataMonths(b))
report_zone_comparison(b) ==
  LET vol == MapThenSumSet(LAMBDA z : b.by_zone[z]["vol_produced"], DOMAIN b.by_zone)
  IN  [comparison_table |-> ZonesOf(b, ComparedZone),
       totals |-> Sums(b.rows, {"op_cost", "amt_billed", "cash_collected"} \union NULLABLE_SENTINEL_COLS)
         ++ PositiveStocks(b.rows, {"active_customers"})
         ++ [vol_produced |-> vol, nrw_pct |-> NrwPct(b.rows), collection_rate |-> CollectionRate(b.rows),
             total_breakdowns |-> Breakdowns(b.rows), dso |-> UnguardedDso(b),
             op_cost_per_m3 |-> PerUnit(NzSum(b.rows, "op_cost"), vol), total_debtors |-> TotalDebtors(b.rows)]]

(* Lost water is split three quarters to one into physical and commercial. *)
nrw_components(lost) ==
  LET physical == AtLeastZero((3 * lost) \div 4)
  IN  [total_nrw |-> lost, physical_loss_proxy |-> physical, commercial_loss_proxy |-> AtLeastZero(lost - physical)]

report_nrw_analysis(b) ==
  LET billed == NzSum(b.rows, "total_vol_billed_pp") + NzSum(b.rows, "total_vol_billed_prepaid")
      tariff == PerUnit(NzSum(b.rows, "amt_billed"), billed)
      losses == ZonesOf(b, LAMBDA z, zr : Above(z["nrw_pct"], NRW_TARGET_PCT))
  IN  [summary |-> Sums(b.rows, {"vol_produced", "revenue_water", "nrw"})
         ++ [nrw_pct |-> NrwPct(b.rows), above_target |-> Above(NrwPct(b.rows), NRW_TARGET_PCT),
             nrw_cost_estimate |-> NzSum(b.rows, "nrw") * tariff, avg_tariff |-> tariff, vol_billed |-> billed],
       nrw_by_zone |-> ZonesOf(b, LAMBDA z, zr :
         Only(z, {"vol_produced", "nrw", "nrw_pct"})
         ++ [distance_from_target |-> IF z["nrw_pct"] = None THEN None ELSE z["nrw_pct"] - NRW_TARGET_PCT]),
       zones_above_target |-> {z \in DOMAIN losses : losses[z] = TRUE},
       zones_below_target |-> {z \in DOMAIN losses : losses[z] = FALSE},
       nrw_components |-> nrw_components(NzSum(b.rows, "nrw")),
       nrw_trend |-> TrendSeries(b, {"nrw", "pct_nrw", "vol_produced"})]

SchemeSummary(sr) ==
  Sums(sr, {"vol_produced", "nrw", "amt_billed", "cash_collected", "op_cost"} \union NULLABLE_SENTINEL_COLS)
  ++ PositiveStocks(sr, {"active_customers"}) ++ Stocks(sr, {"perm_staff", "temp_staff"})
  ++ [nrw_pct |-> NrwPct(sr), nrw_flag |-> Flag(NrwPct(sr), NRW_TARGET_PCT, NRW_WARN, TRUE),
      collection_rate |-> CollectionRate(sr), total_debtors |-> TotalDebtors(sr),
      dso |-> DaysOfSales(TotalDebtors(sr), NzSum(sr, "amt_billed"), Cardinality(Months(sr))),
      total_breakdowns |-> Breakdowns(sr), op_cost_per_m3 |-> PerUnit(NzSum(sr, "op_cost"), NzSum(sr, "vol_produced")),
      supply_hours_avg |-> SupplyDaily(sr), months_with_data |-> Cardinality(Months(sr))]
report_scheme_performance(b) ==
  [schemes |-> [key \in Keys(b.rows) |-> SchemeSummary(RowsOf(b.rows, key))],
   totals |-> Sums(b.rows, {"vol_produced", "amt_billed", "cash_collected", "op_cost"})
     ++ PositiveStocks(b.rows, {"active_customers"})
     ++ [scheme_count |-> Cardinality(Keys(b.rows)), nrw_pct |-> NrwPct(b.rows),
         collection_rate |-> CollectionRate(b.rows), total_debtors |-> TotalDebtors(b.rows),
         dso |-> UnguardedDso(b), total_breakdowns |-> Breakdowns(b.rows)]]

---------------------------------------------------------------------------
(* The graded scorecard: nothing is graded on figures that are not known.  *)
REQUIRED ==
  {"nrw", "vol_produced", "amt_billed", "cash_collected", "op_cost", "total_debtors", "supply_hours",
   "active_customers", "total_metered", "pipe_breakdowns", "pump_breakdowns", "stuck_meters", "days_to_connect",
   "perm_staff", "temp_staff"}
Assessable(b) ==
  /\ Complete(b.rows, REQUIRED)
  /\ None \notin {NrwPct(b.rows), CollectionRate(b.rows), OpRatio(b.rows), WholeDso(b), SupplyDaily(b.rows)}
  /\ \A f \in {"active_customers", "total_metered"} : LatestSum(b.rows, f) > 0
  /\ StaffOf(b.rows) > 0

Grade(score) ==
  CASE score >= 85 -> "A" [] score \in 70..84 -> "B" [] score \in 55..69 -> "C" [] score \in 40..54 -> "D" [] OTHER -> "F"
Clamped(score) == AtMost(AtLeastZero(score), 100)
DomainScores(b) ==
  LET active == AtLeastOne(LatestPositive(b.rows, "active_customers"))
      staff == AtLeastOne(StaffOf(b.rows))
      days == NzAvg(b.rows, "days_to_connect", 365)
      coll == Clamped(2 * (OrZero(CollectionRate(b.rows)) - 50))
      nrw == Clamped((100 * (70 - OrZero(NrwPct(b.rows)))) \div 43)
      op == Clamped((100 * (150 - OrZero(OpRatio(b.rows)))) \div 70)
      debt == Clamped((100 * (180 - OrZero(WholeDso(b)))) \div 120)
      supply == Clamped((100 * OrZero(SupplyDaily(b.rows))) \div 24)
      breaks == Clamped((200 - (1000 * Breakdowns(b.rows)) \div active) \div 2)
      stuck == Clamped(5 * (20 - Share(LatestPositive(b.rows, "stuck_meters"), LatestPositive(b.rows, "total_metered"))))
      connect == IF days = 0 THEN 80 ELSE Clamped((100 * (90 - days)) \div 60)
      output == Clamped(AtMost(NzSum(b.rows, "vol_produced") \div staff, 5000) \div 50)
      lean == Clamped((100 * (15 - (1000 * staff) \div active)) \div 12)
  IN  [financial |-> (35 * coll + 35 * op + 30 * debt) \div 100,
       operations |-> (50 * nrw + 30 * supply + 20 * 70) \div 100,
       infrastructure |-> (60 * breaks + 40 * stuck) \div 100,
       service |-> (50 * connect + 50 * AtMost(active \div 1000, 100)) \div 100,
       workforce |-> (50 * output + 50 * lean) \div 100]
report_scorecard(b) ==
  IF ~Assessable(b) THEN [domains |-> <<>>, overall_score |-> None, overall_grade |-> "Not assessed"]
  ELSE LET scores == DomainScores(b)
           overall == Total(scores, DOMAIN scores) \div 5
       IN  [domains |-> [d \in DOMAIN scores |-> [score |-> scores[d], grade |-> Grade(scores[d])]],
            overall_score |-> overall, overall_grade |-> Grade(overall)]
=============================================================================
