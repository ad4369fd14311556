---------------------------- MODULE RecordRows ----------------------------
(***************************************************************************)
(* The monthly returns of the schemes as every panel and report reads      *)
(* them: the rows of a window of zones, schemes, months and fiscal year,   *)
(* with missing figures read as nothing and the balances of other months   *)
(* carried in.                                                             *)
(*                                                                         *)
(* A row is one month of one scheme of one zone; row.v gives its figures   *)
(* by column and row.missing the columns that were never given.  A row is  *)
(* canonical when its month is stored by name, with its fiscal year.       *)
(***************************************************************************)
EXTENDS Amounts

CONSTANTS
  FY_START_MONTH   \* the month a fiscal year starts in

ASSUME FiscalCalendarAssumption == FY_START_MONTH \in 1..12

---------------------------------------------------------------------------
CLASSES == {"indiv", "inst", "comm", "cwp"}
PAYMENT == {"pp", "prepaid"}
CLASS_NAMES == {"individual", "cwp", "institutions", "commercial"}

Named(prefix, middles, suffixes) == {prefix \o m \o s : m \in middles, s \in suffixes}

CHEM_INTENSITY_FIELDS ==
  {"chlorine_kg_per_m3", "alum_kg_per_m3", "soda_ash_kg_per_m3", "algae_floc_per_m3", "sud_floc_per_m3",
   "kmno4_per_m3"}
CUSTOMER_VOLUME_FIELDS == Named("vol_billed_", CLASSES, {"_pp", "_prepaid"})
CONNECTION_FLOW_FIELDS == Named("conn_", CLASSES, {"_applied_pp", "_done_pp", "_done_prepaid", "_total_done"})
CONNECTION_STOCK_FIELDS == Named("conn_", CLASSES, {"_bfwd", "_cfwd"})
STUCK_FLOW_FIELDS == Named("stuck_", CLASSES, {"_new", "_repaired", "_replaced"})
STUCK_STOCK_FIELDS == {"all_stuck_cfwd"} \union Named("stuck_", CLASSES, {"_bfwd", "_cfwd"})
SEGMENT_REVENUE_FIELDS ==
  Named("cash_coll_", CLASSES, {"_pp", "_prepaid"}) \union Named("amt_billed_", CLASSES, {"_pp", "_prepaid"})
    \union Named("service_charge_", CLASS_NAMES, {""}) \union Named("meter_rental_", CLASS_NAMES, {""})
GI_SIZES == Named("gi_", {"15", "20", "25", "40", "50", "75", "100", "150", "200"}, {"mm"})
DI_SIZES == Named("di_", {"150", "200", "250", "300", "350", "525"}, {"mm"})
HDPE_AC_SIZES == Named("hdpe_", {"20", "25", "32", "50"}, {"mm"}) \union Named("ac_", {"50", "75", "100", "150"}, {"mm"})
PIPE_MATERIAL_SIZE_FIELDS == GI_SIZES \union DI_SIZES \union HDPE_AC_SIZES
PVC_SIZES == Named("pvc_", {"20", "25", "32", "40", "50", "63", "75", "90", "110", "160", "200", "250", "315"}, {"mm"})
DEV_LINES == Named("dev_lines_", {"32", "50", "63", "90", "110"}, {"mm"})
WORKFORCE_EFFICIENCY_FIELDS ==
  {"distances_km", "fuel_used_litres", "fuel_cost", "maintenance", "perm_staff", "temp_staff",
   "staff_per_1000m3_12h", "op_cost_per_m3_produced", "op_cost_per_m3_billed", "op_cost_per_sales"}

DISCONNECTED_CLASSES ==
  {"disconnected_individual", "disconnected_inst", "disconnected_commercial", "disconnected_cwp"}
ACTIVE_CLASSES == Named("active_", {"post_", "prep_"}, {"individual", "inst", "commercial", "cwp"})
PIPE_MATERIALS == {"pipe_pvc", "pipe_gi", "pipe_di", "pipe_hdpe_ac"}
DEBTORS == {"private_debtors", "public_debtors", "total_debtors"}

STOCK_BALANCE_FIELDS ==
  {"active_customers", "active_postpaid", "active_prepaid", "total_metered", "total_disconnected", "pop_supply_area",
   "pop_supplied", "perm_staff", "temp_staff", "stuck_meters", "all_conn_bfwd", "all_conn_cfwd"}
    \union ACTIVE_CLASSES \union DISCONNECTED_CLASSES \union DEBTORS
    \union CONNECTION_STOCK_FIELDS \union STUCK_STOCK_FIELDS

(* Rates a month reports; they are averaged where they are not summed.     *)
RATE_FIELDS ==
  CHEM_INTENSITY_FIELDS \union
  {"power_kwh_per_m3", "staff_per_1000m3_12h", "connection_days", "days_to_quotation", "days_to_connect",
   "connectivity_rate", "time_to_resolve", "response_time_avg", "collection_per_sales", "supply_hours",
   "op_cost_per_m3_produced", "op_cost_per_m3_billed", "op_cost_per_sales"}

FLOW_FIELDS ==
  {"vol_produced", "revenue_water", "nrw", "total_vol_billed_pp", "total_vol_billed_prepaid",
   "chlorine_kg", "alum_kg", "soda_ash_kg", "algae_floc_litres", "sud_floc_litres", "kmno4_kg", "chem_cost",
   "power_kwh", "power_cost", "power_fail_hours", "new_connections", "conn_applied", "all_conn_applied",
   "prepaid_meters_installed", "conn_fully_paid", "paid_up_applicants", "queries_received", "stuck_new",
   "stuck_repaired", "stuck_replaced", "pump_hours_lost", "dev_lines_total", "amt_billed", "amt_billed_pp",
   "amt_billed_prepaid", "cash_collected", "cash_coll_pp", "cash_coll_prepaid", "service_charge", "meter_rental",
   "total_sales", "op_cost", "staff_costs", "wages", "fuel_cost", "maintenance", "other_overhead", "distances_km",
   "fuel_used_litres"}
    \union PIPE_MATERIALS \union PVC_SIZES \union DEV_LINES \union CUSTOMER_VOLUME_FIELDS
    \union CONNECTION_FLOW_FIELDS \union STUCK_FLOW_FIELDS \union SEGMENT_REVENUE_FIELDS
    \union PIPE_MATERIAL_SIZE_FIELDS

NULLABLE_SENTINEL_COLS == {"pipe_breakdowns", "pump_breakdowns"}
STORED_RATES == {"pct_nrw", "chem_cost_per_m3", "power_cost_per_m3"}
NUMERIC_COLS == FLOW_FIELDS \union RATE_FIELDS \union STORED_RATES \union STOCK_BALANCE_FIELDS \union NULLABLE_SENTINEL_COLS

(* A row, and a window of them.                                            *)
IsReturn(r) ==
  /\ r = [zone |-> r.zone, scheme |-> r.scheme, year |-> r.year, month_no |-> r.month_no,
          canonical |-> r.canonical, v |-> r.v, missing |-> r.missing]
  /\ r.year \in Int /\ r.month_no \in 1..12 /\ r.canonical \in BOOLEAN /\ DOMAIN r.v = NUMERIC_COLS
IsWindow(w) ==
  /\ w = [zones |-> w.zones, schemes |-> w.schemes, months |-> w.months, year |-> w.year, quarters |-> w.quarters]
  /\ w.year = None \/ w.year \in Int

---------------------------------------------------------------------------
(* The fiscal calendar: a fiscal year is named for the year it ends in.    *)
FY_MONTH_NOS == [i \in 1..12 |-> ((FY_START_MONTH + i - 2) % 12) + 1]
fy_end_year(year, month_no) == IF FY_START_MONTH # 1 /\ month_no >= FY_START_MONTH THEN year + 1 ELSE year
fy_calendar_year(fy, month_no) == IF FY_START_MONTH # 1 /\ month_no >= FY_START_MONTH THEN fy - 1 ELSE fy
fy_month_index(month_no) == (month_no - FY_START_MONTH) % 12
fy_quarter(month_no) == fy_month_index(month_no) \div 3 + 1
apply_fy_filter(rows, year) ==
  {r \in rows : IF FY_START_MONTH = 1 THEN r.year = year
                ELSE \/ r.year = year - 1 /\ r.month_no >= FY_START_MONTH
                     \/ r.year = year /\ r.month_no <= FY_START_MONTH - 1}

(* A window: empty sets and no year filter nothing.                        *)
Filter(rows, w) ==
  LET asked == {r \in rows : /\ w.zones = {} \/ r.zone \in w.zones
                             /\ w.schemes = {} \/ r.scheme \in w.schemes
                             /\ w.months = {} \/ (r.canonical /\ r.month_no \in w.months)}
  IN  IF w.year = None THEN asked ELSE apply_fy_filter(asked, w.year)

Lk(r) == 12 * r.year + r.month_no
Newest(rows) == CHOOSE r \in rows : \A other \in rows : Lk(other) <= Lk(r)
KeyOf(r) == <<r.zone, r.scheme>>
Keys(rows) == {KeyOf(r) : r \in rows}
RowsOf(rows, key) == {r \in rows : KeyOf(r) = key}
Zones(rows) == {r.zone : r \in rows}
RowsIn(rows, zone) == {r \in rows : r.zone = zone}

(* One row per month of a scheme, a canonical one if there is one.         *)
RowScore(r) == IF r.canonical THEN 125 ELSE 5
DedupeRows(rows) ==
  {CHOOSE r \in same : \A other \in same : RowScore(other) <= RowScore(r) :
     same \in {{r \in rows : KeyOf(r) = KeyOf(s) /\ Lk(r) = Lk(s)} : s \in rows}}

CoerceNumericNulls(rows) ==
  {[r EXCEPT !.missing = {f \in NUMERIC_COLS : r.v[f] = None},
             !.v = [f \in NUMERIC_COLS |-> IF f \in NULLABLE_SENTINEL_COLS THEN r.v[f] ELSE OrZero(r.v[f])]] : r \in rows}

---------------------------------------------------------------------------
NzSum(rows, f) == MapThenSumSet(LAMBDA r : OrZero(r.v[f]), rows)
Sums(rows, F) == [f \in F |-> NzSum(rows, f)]

NzAvg(rows, f, cap) ==
  LET counted == {r \in rows : OrZero(r.v[f]) > 0 /\ (cap = None \/ r.v[f] <= cap)}
  IN  IF counted = {} THEN 0 ELSE NzSum(counted, f) \div Cardinality(counted)
Averages(rows, F) == [f \in F |-> NzAvg(rows, f, None)]
Capped(rows, F) == [f \in F |-> NzAvg(rows, f, 365)]

(* A balance stands until another is given: the newest that is not zero.   *)
Latest_AcrossZones(rows, key, f) ==
  LET given == {r \in rows : r.scheme = key[2] /\ OrZero(r.v[f]) # 0}
  IN  Newest(IF given = {} THEN RowsOf(rows, key) ELSE given).v[f]
Latest(rows, key, f) ==
  LET given == {r \in RowsOf(rows, key) : OrZero(r.v[f]) # 0}
  IN  Newest(IF given = {} THEN RowsOf(rows, key) ELSE given).v[f]
LatestSum(rows, f) == MapThenSumSet(LAMBDA key : Latest(rows, key, f), Keys(rows))
LatestPositive(rows, f) == MapThenSumSet(LAMBDA key : AtLeastZero(Latest(rows, key, f)), Keys(rows))
Stocks(rows, F) == [f \in F |-> LatestSum(rows, f)]
PositiveStocks(rows, F) == [f \in F |-> LatestPositive(rows, f)]

(* The whole row in which the field was last given.                        *)
LatestNonzero(rows, field) ==
  {LET given == {r \in RowsOf(rows, key) : OrZero(r.v[field]) # 0}
   IN  Newest(IF given = {} THEN RowsOf(rows, key) ELSE given) : key \in Keys(rows)}
PositiveSums(rows, F) == [f \in F |-> MapThenSumSet(LAMBDA r : AtLeastZero(r.v[f]), rows)]

(* Unknown is not a measured zero: a ratio needs every input of every row. *)
Complete_Anywhere(rows, F) == \E r \in rows : r.missing \intersect F = {}
Complete(rows, F) == rows # {} /\ \A r \in rows : r.missing \intersect F = {}
AssessedRatio(rows, top, bottom) ==
  IF Complete(rows, {top, bottom}) /\ NzSum(rows, bottom) > 0
  THEN (100 * NzSum(rows, top)) \div NzSum(rows, bottom) ELSE None
Flag(value, good, warning, lower) ==
  CASE value = None -> "NOT ASSESSED"
    [] value # None /\ (IF lower THEN value <= good ELSE value >= good) -> "GOOD"
    [] value # None /\ (IF lower THEN value > good /\ value <= warning ELSE value < good /\ value >= warning) -> "WATCH"
    [] OTHER -> "HIGH"
Above(value, target) == IF value = None THEN None ELSE value > target

(* Hours of supply are given by the day or by the month.                   *)
DailyHours(v) == AtMost(IF v > 31 THEN (100 * v) \div 3044 ELSE v, 24)
SupplyDaily(rows) ==
  IF ~Complete(rows, {"supply_hours"}) \/ \E r \in rows : r.v["supply_hours"] < 0 THEN None
  ELSE MapThenSumSet(LAMBDA r : DailyHours(r.v["supply_hours"]), rows) \div Cardinality(rows)

---------------------------------------------------------------------------
(* Balances missing from the window, taken from other rows of the scheme.  *)
HasValue(rows, key, f) == \E r \in RowsOf(rows, key) : OrZero(r.v[f]) # 0
CarriedInto_Overwriting(rows, source) ==
  {IF r # Newest(RowsOf(rows, KeyOf(r))) THEN r
   ELSE [r EXCEPT !.v = [f \in NUMERIC_COLS |->
           IF f \in STOCK_BALANCE_FIELDS /\ HasValue(source, KeyOf(r), f)
           THEN Latest(source, KeyOf(r), f) ELSE r.v[f]]] : r \in rows}
CarriedInto(rows, source) ==
  {IF r # Newest(RowsOf(rows, KeyOf(r))) THEN r
   ELSE [r EXCEPT !.v = [f \in NUMERIC_COLS |->
           IF f \in STOCK_BALANCE_FIELDS /\ ~HasValue(rows, KeyOf(r), f) /\ HasValue(source, KeyOf(r), f)
           THEN Latest(source, KeyOf(r), f) ELSE r.v[f]]] : r \in rows}

Loaded(table, w) == CoerceNumericNulls(DedupeRows(Filter(table, w)))
BackfillStockBalances(rows, table, w) ==
  IF w.months = {} THEN rows ELSE CarriedInto(rows, Loaded(table, [w EXCEPT !.months = {}]))
CrossfyStockBackfill(rows, table, w) ==
  IF w.year = None THEN rows
  ELSE CarriedInto(rows, Loaded(table, [w EXCEPT !.months = {}, !.year = w.year - 1]))
BaseRows(table, w) ==
  CrossfyStockBackfill(BackfillStockBalances(Loaded(table, w), table, w), table, w)
=============================================================================
