------------------------------ MODULE Workbook ------------------------------
(***************************************************************************)
(* The parser of uploaded workbooks: headers are mapped to columns, cells  *)
(* coerced, blank totals and ratios filled in from their parts, and every  *)
(* row checked against the table of returns.                               *)
(*                                                                         *)
(* A sheet has its headers, each the column it names and the currency it   *)
(* is labelled with, and its rows of cells.  A cell is empty (None),       *)
(* blanks, a text, a number or, for a zone or scheme, a name.  A parsed    *)
(* row has all columns: one that the sheet lacks is None.                  *)
(***************************************************************************)
EXTENDS RecordRows

CONSTANTS
  CURRENCY,        \* the currency of the tenant
  Text,            \* a text that is no number
  Blanks           \* a text of nothing but blanks

---------------------------------------------------------------------------
(* Columns and headers.                                                    *)
REQUIRED_DIMS == {"zone", "scheme", "month", "year"}
REQUIRED_METRICS == {"vol_produced"}
COLUMN_MAP == REQUIRED_DIMS \union NUMERIC_COLS

resolve_column(header) ==
  IF header.column \in COLUMN_MAP /\ header.currency \in {None, CURRENCY} THEN header.column ELSE None
foreign_currency_column(header) == header.column \in COLUMN_MAP /\ header.currency \notin {None, CURRENCY}

Places(headers, column) == {i \in DOMAIN headers : resolve_column(headers[i]) = column}
missing_required_columns(headers) == {d \in REQUIRED_DIMS : Places(headers, d) = {}}

(* Of two headers for a column, the last one counts.                       *)
CellOf(headers, cells, column) ==
  LET places == Places(headers, column)
  IN  IF places = {} \/ Max(places \union {0}) > Len(cells) THEN None ELSE cells[Max(places)]

---------------------------------------------------------------------------
(* Coercions of one cell.                                                  *)
coerce_str(cell) == IF cell = Blanks THEN None ELSE cell
coerce_numeric(cell) == IF cell \in {Text, Blanks} THEN None ELSE cell
coerce_month(cell) == IF cell \in {None, Text, Blanks} THEN None ELSE IF cell \in 1..12 THEN cell ELSE None
coerce_year(cell) ==
  IF cell \in {None, Text, Blanks} THEN None ELSE IF cell < 100 THEN 2000 + cell ELSE cell

---------------------------------------------------------------------------
(* Totals and ratios that were left blank (or zero) and can be computed.   *)
PartsSum(m, parts) == MapThenSumSet(LAMBDA p : OrZero(m[p]), parts)
Blank(m, column) == OrZero(m[column]) = 0

MATERIAL_SIZES == [pipe_pvc |-> PVC_SIZES, pipe_gi |-> GI_SIZES, pipe_di |-> DI_SIZES, pipe_hdpe_ac |-> HDPE_AC_SIZES]
FillMaterials(m) ==
  [c \in NUMERIC_COLS |->
     IF c \in DOMAIN MATERIAL_SIZES /\ (m[c] = None \/ PartsSum(m, MATERIAL_SIZES[c]) # 0)
     THEN PartsSum(m, MATERIAL_SIZES[c]) ELSE m[c]]

CLASS_TOTALS ==
  [conn_indiv_total_done |-> Named("conn_indiv_", {"done_pp", "done_prepaid"}, {""}),
   conn_inst_total_done |-> Named("conn_inst_", {"done_pp", "done_prepaid"}, {""}),
   conn_comm_total_done |-> Named("conn_comm_", {"done_pp", "done_prepaid"}, {""}),
   conn_cwp_total_done |-> Named("conn_cwp_", {"done_pp", "done_prepaid"}, {""})]
TOTALS ==
  [pipe_breakdowns |-> PVC_SIZES \union PIPE_MATERIAL_SIZE_FIELDS,
   service_charge |-> Named("service_charge_", CLASS_NAMES, {""}),
   meter_rental |-> Named("meter_rental_", CLASS_NAMES, {""}),
   dev_lines_total |-> DEV_LINES,
   new_connections |-> DOMAIN CLASS_TOTALS,
   all_conn_applied |-> Named("conn_", CLASSES, {"_applied_pp"}),
   total_disconnected |-> DISCONNECTED_CLASSES,
   stuck_meters |-> Named("stuck_", CLASSES, {"_bfwd"}),
   stuck_new |-> Named("stuck_", CLASSES, {"_new"}),
   stuck_repaired |-> Named("stuck_", CLASSES, {"_repaired"}),
   stuck_replaced |-> Named("stuck_", CLASSES, {"_replaced"})]
FillTotals(m, totals) ==
  [c \in NUMERIC_COLS |->
     IF c \in DOMAIN totals /\ Blank(m, c) /\ PartsSum(m, totals[c]) # 0 THEN PartsSum(m, totals[c]) ELSE m[c]]

(* Ratios are in hundredths: <<what is measured, by which>>.               *)
RATIOS ==
  [pct_nrw |-> <<"nrw", "vol_produced">>,
   chem_cost_per_m3 |-> <<"chem_cost", "vol_produced">>, chlorine_kg_per_m3 |-> <<"chlorine_kg", "vol_produced">>,
   alum_kg_per_m3 |-> <<"alum_kg", "vol_produced">>, soda_ash_kg_per_m3 |-> <<"soda_ash_kg", "vol_produced">>,
   algae_floc_per_m3 |-> <<"algae_floc_litres", "vol_produced">>,
   sud_floc_per_m3 |-> <<"sud_floc_litres", "vol_produced">>, kmno4_per_m3 |-> <<"kmno4_kg", "vol_produced">>,
   power_kwh_per_m3 |-> <<"power_kwh", "vol_produced">>, power_cost_per_m3 |-> <<"power_cost", "vol_produced">>,
   op_cost_per_m3_produced |-> <<"op_cost", "vol_produced">>, op_cost_per_m3_billed |-> <<"op_cost", "revenue_water">>,
   op_cost_per_sales |-> <<"op_cost", "total_sales">>]
StaffPerVolume(m) == (100000 * PartsSum(m, {"perm_staff", "temp_staff"})) \div m["vol_produced"]
FillRatios(m) ==
  [c \in NUMERIC_COLS |->
     IF ~Blank(m, c) THEN m[c]
     ELSE IF c \in DOMAIN RATIOS /\ ~Blank(m, RATIOS[c][1]) /\ ~Blank(m, RATIOS[c][2])
          THEN (100 * m[RATIOS[c][1]]) \div m[RATIOS[c][2]]
     ELSE IF c = "staff_per_1000m3_12h" /\ ~Blank(m, "vol_produced") /\ PartsSum(m, {"perm_staff", "temp_staff"}) # 0
          THEN StaffPerVolume(m)
     ELSE m[c]]

(* What is worked out from other columns; no total is a part of a total,   *)
(* and no ratio either.                                                    *)
RATIO_COLS == DOMAIN RATIOS \union {"staff_per_1000m3_12h"}
WORKED_OUT == DOMAIN MATERIAL_SIZES \union DOMAIN CLASS_TOTALS \union DOMAIN TOTALS \union RATIO_COLS
PartsAreColumns(totals) ==
  \A c \in DOMAIN totals : c \in NUMERIC_COLS /\ totals[c] \subseteq NUMERIC_COLS /\ IsFiniteSet(totals[c])

ASSUME ColumnsAssumption ==
  /\ None \notin COLUMN_MAP /\ REQUIRED_DIMS \intersect NUMERIC_COLS = {}
  /\ PartsAreColumns(MATERIAL_SIZES) /\ PartsAreColumns(CLASS_TOTALS) /\ PartsAreColumns(TOTALS)
  /\ \A c \in DOMAIN TOTALS : c \notin RATIO_COLS /\ TOTALS[c] \intersect (DOMAIN TOTALS \union RATIO_COLS) = {}

rollup_metrics_TotalsFirst(m) == FillRatios(FillTotals(FillTotals(FillMaterials(m), TOTALS), CLASS_TOTALS))
rollup_metrics(m) == FillRatios(FillTotals(FillTotals(FillMaterials(m), CLASS_TOTALS), TOTALS))

---------------------------------------------------------------------------
(* One row.  An issue is <<severity, field>>; an error excludes the row.   *)
Status(issues) ==
  CASE \E i \in issues : i[1] = "error" -> "error"
    [] issues = {} -> "ok"
    [] OTHER -> "warning"

(* A volume that is a text is there when it is looked for, and no number   *)
(* when it is stored.                                                      *)
parse_row(headers, cells) ==
  LET raw == [c \in COLUMN_MAP |-> CellOf(headers, cells, c)]
      dims == [zone |-> coerce_str(raw["zone"]), scheme |-> coerce_str(raw["scheme"]),
               month |-> coerce_month(raw["month"]), year |-> coerce_year(raw["year"])]
  IN  [zone |-> dims.zone, scheme |-> dims.scheme, month_no |-> OrElse(dims.month, 0), year |-> OrElse(dims.year, 0),
       metrics |-> rollup_metrics([c \in NUMERIC_COLS |-> coerce_numeric(raw[c])]),
       issues |-> {<<"error", d>> : d \in {x \in REQUIRED_DIMS : dims[x] = None}}
                    \union {<<"error", c>> : c \in {x \in REQUIRED_METRICS : raw[x] = None}}
                    \union {<<"warning", c>> : c \in {x \in NUMERIC_COLS : raw[x] = Text}},
       conflict |-> {}]

---------------------------------------------------------------------------
(* Against the table: the three months before, of whatever kind of row.    *)
ANOMALY_METRICS ==
  {"vol_produced", "active_customers", "pct_nrw", "amt_billed", "cash_collected", "new_connections"}
History(table, p) ==
  LET earlier == {r \in table : KeyOf(r) = <<p.zone, p.scheme>> /\ Lk(r) < Lk(p)}
  IN  {r \in earlier : Cardinality({o \in earlier : Lk(o) > Lk(r)}) < 3}
(* More than three times the mean of the months, or less than a third.     *)
Anomalous(new, history, metric) ==
  LET given == {r \in history : r.v[metric] # None}
      sum == MapThenSumSet(LAMBDA r : r.v[metric], given)
      scaled == new * Cardinality(given) * sum
  IN  new # None /\ sum # 0 /\ (scaled > 3 * sum * sum \/ 100 * scaled < 33 * sum * sum)
detect_anomalies(p, table) ==
  LET history == History(table, p)
  IN  IF Status(p.issues) = "error" \/ Cardinality(history) < 2 THEN p
      ELSE [p EXCEPT !.issues = @ \union
              {<<"warning", f>> : f \in {x \in ANOMALY_METRICS : Anomalous(p.metrics[x], history, x)}}]

(* A row of the same month stands in the way if its month is stored by     *)
(* name: a parsed row has one conflict, or none.                           *)
CONFLICT_FIELDS == {"active_customers", "vol_produced", "pct_nrw", "amt_billed", "cash_collected"}
SameMonth(r, p) == KeyOf(r) = <<p.zone, p.scheme>> /\ Lk(r) = Lk(p)
detect_conflicts(p, table) ==
  LET existing == {r \in table : r.canonical /\ SameMonth(r, p)}
  IN  IF Status(p.issues) = "error" \/ existing = {} THEN p
      ELSE [p EXCEPT !.conflict = {[existing |-> [f \in CONFLICT_FIELDS |-> (CHOOSE r \in existing : TRUE).v[f]],
                                    incoming |-> [f \in CONFLICT_FIELDS |-> p.metrics[f]]]}]

(* The month, or the year, that most rows name.                            *)
Dominant(given) ==
  LET named == {i \in DOMAIN given : given[i] > 0}
      count(v) == Cardinality({i \in named : given[i] = v})
      values == {given[i] : i \in named}
  IN  IF values = {} THEN None ELSE CHOOSE v \in values : \A other \in values : count(other) <= count(v)

(* The whole: nothing (None) if a dimension has no column.  Rows go by     *)
(* their number in the sheet, and those without a cell are passed over.    *)
parse(sheet, table) ==
  LET filled == {n \in DOMAIN sheet.rows : \E i \in DOMAIN sheet.rows[n] : sheet.rows[n][i] # None}
      rows == [n \in filled |->
                 detect_conflicts(detect_anomalies(parse_row(sheet.headers, sheet.rows[n]), table), table)]
      unrecognised == {h \in Range(sheet.headers) : resolve_column(h) = None}
  IN  IF missing_required_columns(sheet.headers) # {} THEN None
      ELSE [rows |-> rows,
            unrecognised_columns |-> unrecognised,
            currency_mismatch_columns |-> {h \in unrecognised : foreign_currency_column(h)},
            period_month |-> Dominant([n \in filled |-> rows[n].month_no]),
            period_year |-> Dominant([n \in filled |-> rows[n].year])]

importable_rows(result) == {n \in DOMAIN result.rows : Status(result.rows[n].issues) # "error"}
conflict_rows(result) == {n \in importable_rows(result) : result.rows[n].conflict # {}}

---------------------------------------------------------------------------
(* The rows written by a commit, one after the other: the figures are      *)
(* those of the workbook, and every column it lacks is empty.              *)
Stored(p) == [zone |-> p.zone, scheme |-> p.scheme, year |-> p.year, month_no |-> p.month_no, canonical |-> TRUE,
              v |-> p.metrics, missing |-> {}]
Written(table, p, mode) ==
  LET existing == {r \in table : SameMonth(r, p)}
  IN  IF existing # {} /\ mode = "skip" THEN table ELSE (table \ existing) \union {Stored(p)}
execute_commit(table, result, mode) ==
  MapThenFoldSet(LAMBDA p, t : Written(t, p, mode), table,
                 LAMBDA n : result.rows[n], LAMBDA rows : Max(rows), importable_rows(result))
=============================================================================
