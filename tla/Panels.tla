------------------------------ MODULE Panels ------------------------------
(***************************************************************************)
(* The panels of the dashboard: the figures of a window by zone and by     *)
(* month, and the cards of every page.  A panel gives its cards (kpi) and  *)
(* the figures it shows for each zone (by_zone); every panel shows the     *)
(* same monthly series.  Colours and texts are left out, and numbers are   *)
(* whole: a rate is in hundredths and nothing else is rounded.             *)
(***************************************************************************)
EXTENDS RecordRows

CONSTANTS
  NRW_TARGET_PCT,  \* the share of water that may be lost, in per cent
  COLL_GOOD,       \* collection rates that are good, and worth watching
  COLL_WARN

---------------------------------------------------------------------------
Share(part, whole) == IF whole = 0 THEN 0 ELSE (100 * part) \div whole
PerUnit(total, units) == IF units = 0 THEN 0 ELSE total \div units
PartsOf(figures, parts) == MapThenSumSet(LAMBDA p : figures[p], parts)
TotalDisconnected(rows) ==
  LET raw == LatestSum(rows, "total_disconnected")
  IN  IF raw # 0 THEN raw ELSE PartsOf(Stocks(rows, DISCONNECTED_CLASSES), DISCONNECTED_CLASSES)
Counted(rows, f) == IF \E r \in rows : r.v[f] # None THEN NzSum(rows, f) ELSE None

ZONE_STOCKS ==
  {"total_metered", "active_customers", "active_postpaid", "active_prepaid", "active_post_cwp", "active_prep_cwp",
   "pop_supply_area", "pop_supplied"} \union DISCONNECTED_CLASSES \union CONNECTION_STOCK_FIELDS \union STUCK_STOCK_FIELDS
ZONE_FLOWS ==
  (FLOW_FIELDS \ ({"total_vol_billed_pp", "total_vol_billed_prepaid", "algae_floc_litres", "sud_floc_litres", "kmno4_kg",
                   "prepaid_meters_installed", "conn_fully_paid", "queries_received", "stuck_replaced",
                   "other_overhead"} \union DEV_LINES))
    \union WORKFORCE_EFFICIENCY_FIELDS

ByZone(rows) ==
  [zone \in Zones(rows) |->
    LET zrows == RowsIn(rows, zone)
    IN  Sums(zrows, ZONE_FLOWS)
     ++ Stocks(zrows, ZONE_STOCKS)
     ++ Averages(zrows, CHEM_INTENSITY_FIELDS \union {"power_kwh_per_m3", "connection_days", "collection_per_sales"})
     ++ PositiveSums(LatestNonzero(zrows, "total_debtors"), DEBTORS)
     ++ PositiveStocks(zrows, {"stuck_meters"})
     ++ [nrw_pct |-> AssessedRatio(zrows, "nrw", "vol_produced"),
         collection_rate |-> AssessedRatio(zrows, "cash_collected", "amt_billed"),
         total_disconnected |-> TotalDisconnected(zrows),
         pct_pop_supplied |-> Share(LatestSum(zrows, "pop_supplied"), LatestSum(zrows, "pop_supply_area")),
         power_cost_per_m3 |-> PerUnit(NzSum(zrows, "power_cost"), NzSum(zrows, "vol_produced")),
         pipe_breakdowns |-> Counted(zrows, "pipe_breakdowns"),
         pump_breakdowns |-> Counted(zrows, "pump_breakdowns"),
         supply_hours |-> SupplyDaily(zrows)]]

MONTH_STOCKS ==
  {"total_metered", "active_customers", "active_postpaid", "active_prepaid", "pop_supply_area", "pop_supplied",
   "perm_staff", "temp_staff", "all_conn_bfwd", "all_conn_cfwd"}
    \union ACTIVE_CLASSES \union DISCONNECTED_CLASSES \union CONNECTION_STOCK_FIELDS \union STUCK_STOCK_FIELDS
MONTH_FLOWS == (FLOW_FIELDS \ {"distances_km"}) \union NULLABLE_SENTINEL_COLS \union {"connection_days"}

(* The rates of a zone are no columns of a return.                         *)
ASSUME RatesAssumption == {"nrw_pct", "collection_rate"} \intersect NUMERIC_COLS = {}

(* The months with rows, by name: a row without one is in no month.        *)
Monthly(rows) ==
  [month \in {r.month_no : r \in {s \in rows : s.canonical}} |->
    LET mr == {r \in rows : r.canonical /\ r.month_no = month}
        vol == NzSum(mr, "vol_produced")
    IN  Sums(mr, MONTH_FLOWS)
     ++ Stocks(mr, MONTH_STOCKS)
     ++ PositiveStocks(mr, DEBTORS \union {"stuck_meters"})
     ++ Capped(mr, {"days_to_quotation", "days_to_connect", "time_to_resolve", "response_time_avg"})
     ++ Averages(mr, CHEM_INTENSITY_FIELDS \union
          {"power_kwh_per_m3", "staff_per_1000m3_12h", "connectivity_rate", "op_cost_per_m3_produced",
           "op_cost_per_m3_billed", "op_cost_per_sales"})
     ++ [pct_nrw |-> AssessedRatio(mr, "nrw", "vol_produced"),
         chem_cost_per_m3 |-> PerUnit(NzSum(mr, "chem_cost"), vol),
         power_cost_per_m3 |-> PerUnit(NzSum(mr, "power_cost"), vol),
         op_cost_per_m3 |-> PerUnit(NzSum(mr, "op_cost"), vol),
         supply_hours |-> SupplyDaily(mr),
         total_disconnected |-> TotalDisconnected(mr),
         pct_pop_supplied |-> Percentage(LatestSum(mr, "pop_supplied"), LatestSum(mr, "pop_supply_area")),
         prepaid_installed |-> NzSum(mr, "prepaid_meters_installed"),
         collection_rate |-> Share(NzSum(mr, "cash_collected"), NzSum(mr, "amt_billed")),
         sc_mr_ratio |-> PerUnit(NzSum(mr, "service_charge"), NzSum(mr, "meter_rental"))]]

Base(table, w) ==
  LET rows == BaseRows(table, w)
  IN  [rows |-> rows, by_zone |-> ByZone(rows), monthly |-> Monthly(rows)]

---------------------------------------------------------------------------
Panel(b, kpi, figures) ==
  [kpi |-> kpi, by_zone |-> [z \in DOMAIN b.by_zone |-> [f \in figures |-> b.by_zone[z][f]]], monthly |-> b.monthly]

panel_production(b) ==
  LET vol == NzSum(b.rows, "vol_produced")
      pop == LatestSum(b.rows, "pop_supplied")
      active == LatestSum(b.rows, "active_customers")
      months == Cardinality(DOMAIN b.monthly)
      days == IF months = 0 THEN 1 ELSE 30 * months
      rev == NzSum(b.rows, "revenue_water")
  IN  Panel(b, Sums(b.rows, {"vol_produced", "revenue_water", "nrw"})
            ++ [nrw_pct |-> AssessedRatio(b.rows, "nrw", "vol_produced"),
                specific_consumption |-> IF pop = 0 \/ vol = 0 THEN None ELSE (1000 * vol) \div (pop * days),
                rev_water_per_conn |-> IF active = 0 \/ months = 0 \/ rev = 0 THEN None ELSE rev \div (active * months)],
            {"vol_produced", "nrw_pct"})

panel_wt_ei(b) ==
  LET vol == NzSum(b.rows, "vol_produced")
  IN  Panel(b, Sums(b.rows, {"chem_cost", "chlorine_kg", "alum_kg", "soda_ash_kg", "algae_floc_litres",
                             "sud_floc_litres", "kmno4_kg", "power_kwh", "power_cost", "power_fail_hours"})
            ++ Averages(b.rows, CHEM_INTENSITY_FIELDS)
            ++ [chem_per_m3 |-> PerUnit(NzSum(b.rows, "chem_cost"), vol),
                power_per_m3 |-> PerUnit(NzSum(b.rows, "power_cost"), vol),
                power_kwh_per_m3 |-> PerUnit(NzSum(b.rows, "power_kwh"), vol),
                supply_hours_avg |-> SupplyDaily(b.rows)],
            {"chem_cost", "power_cost", "power_kwh", "chlorine_kg", "power_kwh_per_m3", "chlorine_kg_per_m3",
             "alum_kg_per_m3", "soda_ash_kg_per_m3"})

panel_customers(b) ==
  Panel(b, Stocks(b.rows, ZONE_STOCKS \ (CONNECTION_STOCK_FIELDS \union STUCK_STOCK_FIELDS))
        ++ Stocks(b.rows, {"perm_staff", "temp_staff"})
        ++ Sums(b.rows, CUSTOMER_VOLUME_FIELDS)
        ++ [total_disconnected |-> TotalDisconnected(b.rows),
            pct_pop_supplied |-> Share(LatestSum(b.rows, "pop_supplied"), LatestSum(b.rows, "pop_supply_area"))],
        (ZONE_STOCKS \ (CONNECTION_STOCK_FIELDS \union STUCK_STOCK_FIELDS))
          \union {"total_disconnected", "pct_pop_supplied"})

panel_connections(b) ==
  Panel(b, Sums(b.rows, {"new_connections", "conn_applied", "all_conn_applied", "prepaid_meters_installed"})
        ++ Stocks(b.rows, {"all_conn_bfwd", "all_conn_cfwd"})
        ++ [prepaid_installed |-> NzSum(b.rows, "prepaid_meters_installed")],
        {"new_connections", "conn_applied", "all_conn_applied"})

(* The stuck meters brought forward are those of the March before.         *)
panel_stuck(b, table, w) ==
  LET cf == LatestPositive(b.rows, "stuck_meters")
      repaired == NzSum(b.rows, "stuck_repaired")
      active == LatestSum(b.rows, "active_customers")
      march == IF w.year = None THEN {}
               ELSE Loaded(table, [w EXCEPT !.months = {3}, !.year = w.year - 1])
      carried == LatestPositive(march, "stuck_meters")
  IN  Panel(b, Sums(b.rows, {"stuck_new", "stuck_repaired", "stuck_replaced"})
            ++ [stuck_meters |-> cf,
                per_1k_customers |-> (1000 * cf) \div (IF active = 0 THEN 1 ELSE active),
                repair_rate |-> Share(repaired, NzSum(b.rows, "stuck_new") + repaired),
                prev_fy_march_cf |-> IF carried = 0 THEN None ELSE carried],
            {"stuck_meters", "stuck_new", "stuck_repaired"})

panel_connectivity(b) ==
  Panel(b, Sums(b.rows, {"conn_applied", "conn_fully_paid", "paid_up_applicants", "queries_received"})
        ++ Capped(b.rows, {"days_to_quotation", "days_to_connect", "connection_days", "time_to_resolve",
                           "response_time_avg"})
        ++ Averages(b.rows, {"connectivity_rate"}), {})

(* Breakdowns by pipe material stand in for a total that is not given, for *)
(* the whole, for each zone and for each month on its own.                 *)
PipeBreakdowns(figures) ==
  IF OrZero(figures["pipe_breakdowns"]) # 0 \/ PartsOf(figures, PIPE_MATERIALS) = 0 THEN figures["pipe_breakdowns"]
  ELSE PartsOf(figures, PIPE_MATERIALS)
WithBreakdowns(series) == [k \in DOMAIN series |-> [series[k] EXCEPT !["pipe_breakdowns"] = PipeBreakdowns(series[k])]]
panel_breakdowns(b) ==
  LET whole == Sums(b.rows, PIPE_MATERIALS \union NULLABLE_SENTINEL_COLS)
      pipe == PipeBreakdowns(whole)
      pump == whole["pump_breakdowns"]
      active == LatestSum(b.rows, "active_customers")
      filled == [b EXCEPT !.by_zone = WithBreakdowns(@), !.monthly = WithBreakdowns(@)]
  IN  Panel(filled, Sums(b.rows, PVC_SIZES \union {"pump_hours_lost"})
            ++ [pipe_breakdowns |-> pipe, pump_breakdowns |-> pump, total |-> pipe + pump,
                per_1k_customers |-> (1000 * (pipe + pump)) \div (IF active = 0 THEN 1 ELSE active),
                pvc_total |-> whole["pipe_pvc"]],
            NULLABLE_SENTINEL_COLS \union PIPE_MATERIALS \union PVC_SIZES)

panel_pipelines(b) == Panel(b, Sums(b.rows, DEV_LINES \union {"dev_lines_total"}), {"dev_lines_total"})

panel_billed(b) ==
  LET pp == NzSum(b.rows, "amt_billed_pp")
      pre == NzSum(b.rows, "amt_billed_prepaid")
  IN  Panel(b, Sums(b.rows, {"amt_billed_pp", "amt_billed_prepaid", "total_sales"}
                              \union Named("amt_billed_", CLASSES, {"_pp", "_prepaid"}))
            ++ [amt_billed |-> pp + pre, pp_pct |-> Share(pp, pp + pre), prepaid_pct |-> Share(pre, pp + pre)],
            {"amt_billed", "amt_billed_pp", "amt_billed_prepaid"})

panel_collections(b) ==
  LET cash == NzSum(b.rows, "cash_collected")
      billed == NzSum(b.rows, "amt_billed")
  IN  Panel(b, Sums(b.rows, {"cash_collected", "amt_billed", "cash_coll_pp", "cash_coll_prepaid"}
                              \union Named("cash_coll_", CLASSES, {"_pp", "_prepaid"}))
            ++ Averages(b.rows, {"collection_per_sales"})
            ++ [collection_rate |-> Share(cash, billed), billing_gap |-> Distance(billed, cash)],
            {"cash_collected", "amt_billed", "collection_rate"})

panel_charges(b) ==
  LET sc == NzSum(b.rows, "service_charge")
      mr == NzSum(b.rows, "meter_rental")
      sales == NzSum(b.rows, "total_sales")
  IN  Panel(b, Sums(b.rows, {"service_charge", "meter_rental", "total_sales"}
                              \union Named("service_charge_", CLASS_NAMES, {""})
                              \union Named("meter_rental_", CLASS_NAMES, {""}))
            ++ [sc_pct |-> Share(sc, sales), mr_pct |-> Share(mr, sales), sc_mr_ratio |-> PerUnit(sc, mr)],
            {"service_charge", "meter_rental", "total_sales"})

COSTS == {"staff_costs", "wages", "power_cost", "chem_cost", "fuel_cost", "maintenance"}
COST_RATES == {"staff_per_1000m3_12h", "op_cost_per_m3_produced", "op_cost_per_m3_billed", "op_cost_per_sales"}
(* What the operating cost leaves over its named parts is "other".         *)
cost_split(b) ==
  Sums(b.rows, COSTS)
  ++ [other |-> AtLeastZero(NzSum(b.rows, "op_cost") - PartsOf(Sums(b.rows, COSTS), COSTS))]
panel_expenses(b) ==
  Panel(b, Sums(b.rows, COSTS \union {"op_cost", "power_kwh", "distances_km", "fuel_used_litres"})
        ++ Stocks(b.rows, {"perm_staff", "temp_staff"}) ++ Averages(b.rows, COST_RATES),
        {"op_cost", "chem_cost", "power_cost", "fuel_used_litres", "distances_km", "staff_per_1000m3_12h"})

panel_debtors(b) ==
  LET given == PositiveSums(LatestNonzero(b.rows, "total_debtors"), DEBTORS)
  IN  Panel(b, given ++ [private_pct |-> Share(given["private_debtors"], given["total_debtors"]),
                         debtors_to_billed |-> Share(given["total_debtors"], NzSum(b.rows, "amt_billed"))],
            DEBTORS)

panel_segment_revenue(b) ==
  Panel(b, Sums(b.rows, {"amt_billed", "cash_collected", "service_charge", "meter_rental"})
        ++ [collection_rate |-> Share(NzSum(b.rows, "cash_collected"), NzSum(b.rows, "amt_billed"))],
        {"amt_billed", "cash_collected", "service_charge", "meter_rental"})

panel_workforce(b) ==
  Panel(b, Stocks(b.rows, {"perm_staff", "temp_staff"})
        ++ Sums(b.rows, {"fuel_used_litres", "fuel_cost", "distances_km", "maintenance"})
        ++ Averages(b.rows, COST_RATES),
        {"perm_staff", "temp_staff", "fuel_used_litres", "fuel_cost", "distances_km", "maintenance",
         "staff_per_1000m3_12h"})

TOTAL_DONE == Named("conn_", CLASSES, {"_total_done"})
panel_class_connections(b) ==
  LET done == Sums(b.rows, TOTAL_DONE)
  IN  Panel(b, done ++ Sums(b.rows, {"all_conn_applied"}) ++ Stocks(b.rows, Named("conn_", CLASSES, {"_cfwd"}))
            ++ [new_connections |-> PartsOf(done, TOTAL_DONE)],
            TOTAL_DONE)

panel_stuck_classes(b) ==
  Panel(b, Stocks(b.rows, {"all_stuck_cfwd"} \union Named("stuck_", CLASSES, {"_cfwd"}))
        ++ Sums(b.rows, Named("stuck_", CLASSES, {"_repaired"})),
        Named("stuck_", CLASSES, {"_cfwd"}))

panel_pipe_materials(b) ==
  LET whole == Sums(b.rows, PIPE_MATERIALS \union {"pipe_breakdowns"})
  IN  Panel(b, [whole EXCEPT !["pipe_breakdowns"] = PipeBreakdowns(whole)] ++ Sums(b.rows, PIPE_MATERIAL_SIZE_FIELDS),
            PIPE_MATERIALS)

---------------------------------------------------------------------------
(* The executive dashboard.                                                *)
DaysOfSales(debtors, billed, months) ==
  IF billed = 0 \/ months = 0 THEN None ELSE (30 * debtors * months) \div billed
MarginOf(top, cost) == (100 * (top - cost)) \div top

Financial(b) ==
  LET revenue == NzSum(b.rows, "amt_billed")
      opex == NzSum(b.rows, "op_cost")
      active == LatestPositive(b.rows, "active_customers")
      op_ratio == AssessedRatio(b.rows, "op_cost", "amt_billed")
      dso == IF ~Complete(b.rows, {"total_debtors", "amt_billed"}) THEN None
             ELSE DaysOfSales(LatestPositive(b.rows, "total_debtors"), revenue, Cardinality(DOMAIN b.monthly))
      margin == IF revenue = 0 \/ ~Complete(b.rows, {"amt_billed", "op_cost"}) THEN None ELSE MarginOf(revenue, opex)
      rate == AssessedRatio(b.rows, "cash_collected", "amt_billed")
  IN  Sums(b.rows, {"cash_collected", "amt_billed"})
      ++ [op_ratio |-> op_ratio, op_ratio_flag |-> Flag(op_ratio, 80, 100, TRUE),
          dso |-> dso, dso_flag |-> Flag(dso, 60, 90, TRUE),
          rev_per_conn |-> PerUnit(revenue, active),
          net_margin |-> margin, net_margin_flag |-> Flag(margin, 50, 20, FALSE),
          collection_rate |-> rate, collection_rate_flag |-> Flag(rate, COLL_GOOD, COLL_WARN, FALSE)]

NrwIntelligence(b) ==
  LET revenue == NzSum(b.rows, "amt_billed")
      billed == NzSum(b.rows, "total_vol_billed_pp") + NzSum(b.rows, "total_vol_billed_prepaid")
      tariff == PerUnit(revenue, billed)
      cost == NzSum(b.rows, "nrw") * tariff
      months == Cardinality(DOMAIN b.monthly)
  IN  Sums(b.rows, {"vol_produced"})
      ++ [nrw_vol |-> NzSum(b.rows, "nrw"), nrw_pct |-> AssessedRatio(b.rows, "nrw", "vol_produced"),
          nrw_cost |-> cost, avg_tariff |-> tariff,
          nrw_per_conn_yr |-> PerUnit(12 * cost, LatestPositive(b.rows, "active_customers") * (IF months = 0 THEN 1 ELSE months))]

ServiceQuality(b) ==
  LET metered == LatestPositive(b.rows, "total_metered")
      stuck == LatestPositive(b.rows, "stuck_meters")
      complaints == PerUnit(1000 * NzSum(b.rows, "queries_received"), LatestPositive(b.rows, "active_customers"))
  IN  [energy_intensity |-> PerUnit(NzSum(b.rows, "power_kwh"), NzSum(b.rows, "vol_produced")),
       meter_read_rate |-> Share(metered - stuck, metered), stuck_meters |-> stuck, stuck_pct |-> Share(stuck, metered),
       complaints_1000 |-> complaints,
       complaints_flag |-> IF complaints < 30 THEN "LOW" ELSE IF complaints < 60 THEN "MONITOR" ELSE "HIGH",
       supply_hours_avg |-> SupplyDaily(b.rows)]

ZoneSnapshot(b, zone) ==
  LET zr == RowsIn(b.rows, zone)
      z == b.by_zone[zone]
      months == {Lk(r) : r \in zr}
  IN  [schemes |-> Cardinality({r.scheme : r \in zr}),
       nrw_pct |-> z["nrw_pct"], collection_rate |-> z["collection_rate"],
       dso |-> IF Complete(zr, {"total_debtors", "amt_billed"})
               THEN DaysOfSales(z["total_debtors"], z["amt_billed"], Cardinality(months)) ELSE None,
       op_ratio |-> AssessedRatio(zr, "op_cost", "amt_billed"),
       rev_per_conn |-> PerUnit(z["amt_billed"], z["active_customers"]),
       active_customers |-> z["active_customers"],
       breakdowns_total |-> IF z["pipe_breakdowns"] = None THEN None
                            ELSE z["pipe_breakdowns"] + OrZero(z["pump_breakdowns"]),
       nrw_trend |-> [m \in months |-> AssessedRatio({r \in zr : Lk(r) = m}, "nrw", "vol_produced")]]

panel_executive(b) ==
  IF b.rows = {} THEN [financial |-> <<>>, nrw |-> <<>>, service |-> <<>>, zones |-> <<>>, trends |-> <<>>]
  ELSE
  [financial |-> Financial(b), nrw |-> NrwIntelligence(b), service |-> ServiceQuality(b),
   portfolio |-> [active_customers |-> LatestPositive(b.rows, "active_customers"),
                  total_breakdowns |-> IF Counted(b.rows, "pipe_breakdowns") = None THEN None
                                       ELSE NzSum(b.rows, "pipe_breakdowns") + NzSum(b.rows, "pump_breakdowns"),
                  queries_received |-> NzSum(b.rows, "queries_received"),
                  zones_covered |-> Cardinality(DOMAIN b.by_zone),
                  schemes_covered |-> Cardinality(Keys(b.rows)),
                  months_with_data |-> Cardinality(DOMAIN b.monthly)],
   zones |-> [z \in DOMAIN b.by_zone |-> ZoneSnapshot(b, z)],
   trends |-> [m \in DOMAIN b.monthly |->
                 [f \in {"vol_produced", "amt_billed", "cash_collected", "pct_nrw"} |-> b.monthly[m][f]]],
   record_count |-> Cardinality(b.rows)]

---------------------------------------------------------------------------
(* The panels of the departments.                                          *)
panel_nrw(b) ==
  LET sold == NzSum(b.rows, "revenue_water")
      sales == NzSum(b.rows, "total_sales")
      lost == NzSum(b.rows, "nrw")
      pct == AssessedRatio(b.rows, "nrw", "vol_produced")
  IN  Panel(b, Sums(b.rows, {"vol_produced"})
            ++ [water_sold |-> sold, nrw_volume |-> lost, pct_nrw |-> pct,
                gap_to_target |-> IF pct = None THEN None ELSE pct - NRW_TARGET_PCT,
                avg_tariff_per_m3 |-> PerUnit(sales, sold),
                economic_nrw |-> IF lost = 0 \/ sold = 0 \/ sales = 0 THEN None ELSE (lost * sales) \div sold],
            {"nrw_pct", "vol_produced", "nrw"})

panel_metering(b) ==
  LET post == LatestSum(b.rows, "active_postpaid")
      pre == LatestSum(b.rows, "active_prepaid")
      metered == LatestSum(b.rows, "total_metered")
  IN  Panel(b, Stocks(b.rows, ACTIVE_CLASSES \union {"active_postpaid", "active_prepaid", "total_metered"})
            ++ [prepaid_share |-> Share(pre, post + pre),
                prepaid_installed |-> NzSum(b.rows, "prepaid_meters_installed"),
                metering_ratio |-> AtMost(Share(metered, post + pre), 100),
                active_customers |-> post + pre],
            {"active_postpaid", "active_prepaid"})

panel_profitability(b) ==
  LET sales == NzSum(b.rows, "total_sales")
      opex == NzSum(b.rows, "op_cost")
      shown == Panel(b, Sums(b.rows, {"total_sales", "op_cost", "amt_billed", "cash_collected"})
                        ++ [operating_profit |-> sales - opex,
                            op_margin |-> IF sales = 0 THEN 0 ELSE MarginOf(sales, opex),
                            op_ratio |-> Share(opex, sales),
                            collection_rate |-> Share(NzSum(b.rows, "cash_collected"), NzSum(b.rows, "amt_billed"))],
                     {"total_sales", "op_cost"})
  IN  [shown EXCEPT !.by_zone = [z \in DOMAIN @ |-> @[z] ++ [operating_profit |-> @[z]["total_sales"] - @[z]["op_cost"]]]]

panel_disconnections(b) ==
  LET lost == TotalDisconnected(b.rows)
      active == LatestSum(b.rows, "active_customers")
  IN  Panel(b, Stocks(b.rows, DISCONNECTED_CLASSES \union {"active_customers"})
            ++ [total_disconnected |-> lost, disconnection_rate |-> Share(lost, active + lost)],
            {"total_disconnected"})

panel_staff_productivity(b) ==
  LET staff == LatestSum(b.rows, "perm_staff") + LatestSum(b.rows, "temp_staff")
  IN  Panel(b, Stocks(b.rows, {"perm_staff", "temp_staff"})
            ++ [total_staff |-> staff,
                staff_per_1000conn |-> PerUnit(1000 * staff, LatestSum(b.rows, "active_customers")),
                staff_per_1000m3 |-> NzAvg(b.rows, "staff_per_1000m3_12h", None),
                staff_cost |-> NzSum(b.rows, "staff_costs") + NzSum(b.rows, "wages")],
            {"staff_per_1000m3_12h"})

(* Nothing is answered when the hours are not known: the gap to the target *)
(* is computed from them without a look.                                   *)
panel_supply_continuity(b) ==
  LET daily == SupplyDaily(b.rows)
  IN  IF daily = None THEN None
      ELSE Panel(b, Sums(b.rows, {"power_fail_hours"})
                 ++ [supply_hours |-> daily, gap_to_target |-> daily - 21, continuity_pct |-> Share(daily, 24)],
                 {"supply_hours"})
=============================================================================
