-------------------------------- MODULE Sync --------------------------------
(***************************************************************************)
(* The integration hub's pipeline (app/integration/pipeline.py, run_sync)  *)
(* for one data source: a run is recorded, the rows changed since the      *)
(* source's watermark are extracted, their keys are translated, the rows   *)
(* of one unit and period are aggregated into one stored value, and the    *)
(* values, the watermark and the end of the run are committed together.    *)
(* Runs are started by the scheduled command, by an administrator and by   *)
(* rows that are sent or uploaded; nothing but the recorded run keeps them *)
(* apart, and a run left behind by a process that died counts for two      *)
(* hours.                                                                  *)
(*                                                                         *)
(* A row of the source system is its latest version: the stamp of its last *)
(* change.  A stored value is abstracted to the set of row versions that   *)
(* were aggregated into it, so that it has no row exactly if it is {}.     *)
(***************************************************************************)
EXTENDS Naturals, FiniteSets, Requests

CONSTANTS
  Row,             \* rows of the source system, each with a key of its own
  Cell,            \* (metric, unit, period) of a stored value
  Unmapped,        \* where a key leads that the catalogue does not know
  MaxStamp,        \* bound on the changes in the source system
  RunId,           \* runs that may be recorded as running at the same time
  MaxEvents,       \* bound on failures, crashes and what administrators do
  MaxRacingEvents  \* the same bound, when requests race

ASSUME SyncAssumption ==
  /\ Unmapped \notin Cell
  /\ MaxStamp \in Nat
  /\ MaxEvents \in Nat
  /\ MaxRacingEvents \in 0..MaxEvents

VARIABLES
  origin,          \* the source system: the stamp of each row, 0 if absent
  crosswalk,       \* key_mappings, and keys that are catalogue codes
  source,          \* data_sources: watermark (0 is none) and enabled
  running,         \* sync_runs of status "running" started within two hours
  values,          \* metric_values of this source
  handled,         \* history: the row versions that a finished run has read
  spare            \* events that may still happen

data == <<origin, crosswalk, source, running, values, handled>>
vars == <<data, spare, req>>

Stamp == 1..MaxStamp
Watermark == 0..MaxStamp
Version == Row \X Stamp

Spend == spare > 0 /\ spare' = spare - 1

Init ==
  /\ origin = [r \in Row |-> 0]
  /\ crosswalk \in [Row -> Cell \cup {Unmapped}]
  /\ source = [watermark |-> 0, enabled |-> TRUE]
  /\ running = {}
  /\ values = [c \in Cell |-> {}]
  /\ handled = {}
  /\ RequestsInit
  /\ spare = IF Serial THEN MaxEvents ELSE MaxRacingEvents
-----------------------------------------------------------------------------
(* The source system adds or changes a row; later changes are stamped      *)
(* later.                                                                  *)
ChangeRow(r) ==
  /\ \E s \in Stamp : /\ \A q \in Row : origin[q] < s
                      /\ origin' = [origin EXCEPT ![r] = s]
  /\ UNCHANGED <<crosswalk, source, running, values, handled, spare, req>>

(* upsert_key_mappings.                                                    *)
MapKey(r, c) ==
  /\ Free
  /\ Spend
  /\ crosswalk' = [crosswalk EXCEPT ![r] = c]
  /\ UNCHANGED <<origin, source, running, values, handled, req>>

(* update_source and disable_source.                                       *)
UpdateSource(reset, enabled) ==
  /\ Free
  /\ Spend
  /\ source' = [watermark |-> IF reset THEN 0 ELSE source.watermark, enabled |-> enabled]
  /\ UNCHANGED <<origin, crosswalk, running, values, handled, req>>
-----------------------------------------------------------------------------
Busy_Unchecked == FALSE
Busy == running # {}

(* run_sync is called: the source is not busy.                             *)
Call(w, pull, rows) ==
  /\ ~Busy
  /\ Begin(w, [step |-> "open", pull |-> pull, rows |-> rows])
  /\ UNCHANGED data

(* The scheduled command, and run_source, pull an enabled source.          *)
Scheduled(w) == source.enabled /\ Call(w, TRUE, {}) /\ UNCHANGED spare

(* The command that names a source pulls it even when it is disabled.      *)
Manual(w) == ~source.enabled /\ Spend /\ Call(w, TRUE, {})

(* upload_to_source: some rows of the source, as they are.                 *)
Upload(w, rows) == Spend /\ Call(w, FALSE, {<<r, origin[r]>> : r \in rows})

Exists(r) == origin[r] # 0

(* A run number nobody holds.                                              *)
Fresh(r) ==
  /\ r \notin running
  /\ \A w \in Worker : req[w].step \in {"extract", "map", "commit"} => req[w].run # r

(* The run is committed, which makes the session load the source again.    *)
Open(w) ==
  /\ req[w].step = "open"
  /\ \E r \in RunId : Fresh(r)
  /\ LET r == CHOOSE r \in RunId : Fresh(r)
     IN /\ running' = running \cup {r}
        /\ req' = [req EXCEPT ![w] = [step |-> "extract", pull |-> req[w].pull, rows |-> req[w].rows,
                                      run |-> r, since |-> source.watermark]]
  /\ UNCHANGED <<origin, crosswalk, source, values, handled, spare>>

(* The rows a pull reads: those changed after the watermark.               *)
Changed(since) == {v \in Version : v[2] = origin[v[1]] /\ v[2] > since}

(* _max_watermark: the latest stamp read, or the watermark there was.      *)
HighWater(n, since, rows) ==
  /\ n >= since /\ \A v \in rows : n >= v[2]
  /\ n = since \/ \E v \in rows : v[2] = n

(* connectors.extract: rows that are handed in leave the watermark alone.  *)
NewWatermark(n, q, rows) == IF q.pull THEN HighWater(n, q.since, rows) ELSE n = q.since

Extract(w) ==
  LET q == req[w]
      rows == IF q.pull THEN Changed(q.since) ELSE q.rows
  IN /\ q.step = "extract"
     /\ \E n \in Watermark :
          /\ NewWatermark(n, q, rows)
          /\ req' = [req EXCEPT ![w] = [step |-> "map", run |-> q.run, since |-> q.since,
                                        rows |-> rows, newest |-> n]]
     /\ UNCHANGED <<data, spare>>

(* map_rows: a row whose key is unknown is rejected, the others are        *)
(* aggregated by the unit and period they belong to.                       *)
Aggregated(rows) ==
  [c \in Cell |-> {v \in rows : crosswalk[v[1]] = c}]

(* _load: the values of this source that there are already.                *)
Existing == values

Map(w) ==
  LET q == req[w]
  IN /\ q.step = "map"
     /\ req' = [req EXCEPT ![w] = [step |-> "commit", run |-> q.run, since |-> q.since,
                                   rows |-> q.rows, newest |-> q.newest,
                                   new |-> Aggregated(q.rows), loaded |-> Existing]]
     /\ UNCHANGED <<data, spare>>

(* uq_metric_value refuses to insert a value that was inserted meanwhile.  *)
Clash(q) == \E c \in Cell : q.new[c] # {} /\ q.loaded[c] = {} /\ values[c] # {}

(* A commit writes the values and the watermark that differ from the       *)
(* loaded ones.                                                            *)
Written(q, c) == q.new[c] # {} /\ q.new[c] # q.loaded[c]

Commit(w) ==
  LET q == req[w]
  IN /\ q.step = "commit"
     /\ ~Clash(q)
     /\ values' = [c \in Cell |-> IF Written(q, c) THEN q.new[c] ELSE values[c]]
     /\ source' = IF q.newest # q.since
                  THEN [watermark |-> q.newest, enabled |-> source.enabled] ELSE source
     /\ handled' = handled \cup q.rows
     /\ running' = running \ {q.run}
     /\ Finish(w)
     /\ UNCHANGED <<origin, crosswalk, spare>>

(* The last commit is outside the try: when the constraint refuses it, the *)
(* request ends and its run stays "running".                               *)
Conflict(w) ==
  /\ req[w].step = "commit"
  /\ Clash(req[w])
  /\ Finish(w)
  /\ UNCHANGED <<data, spare>>

(* Extraction or mapping raises: all is rolled back but the run's failure. *)
AfterFailure_Watermark(q) == IF q.step = "map" THEN q.newest ELSE source.watermark
AfterFailure(q) == source.watermark

Fail(w) ==
  LET q == req[w]
  IN /\ q.step \in {"extract", "map"}
     /\ Spend
     /\ running' = running \ {q.run}
     /\ source' = [watermark |-> AfterFailure(q), enabled |-> source.enabled]
     /\ Finish(w)
     /\ UNCHANGED <<origin, crosswalk, values, handled>>

(* The process dies, or the database refuses a commit: the run, if there   *)
(* is one, stays "running".                                                *)
Crash(w) ==
  /\ InFlight(w)
  /\ Spend
  /\ Finish(w)
  /\ UNCHANGED data

(* Two hours after its start a run no longer counts, dead or only slow.    *)
Age_Never(r) == FALSE /\ UNCHANGED vars
Age(r) ==
  /\ r \in running
  /\ running' = running \ {r}
  /\ UNCHANGED <<origin, crosswalk, source, values, handled, spare, req>>
-----------------------------------------------------------------------------
Proceed(w) == Open(w) \/ Extract(w) \/ Map(w) \/ Commit(w) \/ Conflict(w)

Next ==
  \/ \E r \in Row : ChangeRow(r)
  \/ \E r \in Row, c \in Cell : MapKey(r, c)
  \/ \E reset, enabled \in BOOLEAN : UpdateSource(reset, enabled)
  \/ \E w \in Worker : Scheduled(w) \/ Manual(w) \/ Proceed(w) \/ Fail(w) \/ Crash(w)
  \/ \E w \in Worker, rows \in SUBSET {r \in Row : Exists(r)} : Upload(w, rows)
  \/ \E r \in RunId : Age(r)

(* A process that does not die goes on, time passes, and the scheduler     *)
(* calls the command again and again (every 15 minutes).                   *)
Fairness ==
  /\ \A w \in Worker : WF_vars(Proceed(w))
  /\ \A r \in RunId : WF_vars(Age(r))
  /\ WF_vars(\E w \in Worker : Scheduled(w))

Spec == Init /\ [][Next]_vars /\ Fairness
-----------------------------------------------------------------------------
OpenRequest == [step : {"open"}, pull : BOOLEAN, rows : SUBSET Version]
ExtractRequest == [step : {"extract"}, pull : BOOLEAN, rows : SUBSET Version,
                   run : RunId, since : Watermark]
MapRequest == [step : {"map"}, run : RunId, since : Watermark,
               rows : SUBSET Version, newest : Watermark]
Values == [Cell -> SUBSET Version]
CommitRequest == [step : {"commit"}, run : RunId, since : Watermark, rows : SUBSET Version,
                  newest : Watermark, new : Values, loaded : Values]

(* Types of the stored rows and of what requests carry.                    *)
TypeOK ==
  /\ origin \in [Row -> Watermark]
  /\ crosswalk \in [Row -> Cell \cup {Unmapped}]
  /\ source \in [watermark : Watermark, enabled : BOOLEAN]
  /\ running \subseteq RunId
  /\ values \in Values
  /\ handled \subseteq Version
  /\ spare \in 0..MaxEvents
  /\ req \in [Worker -> {Idle, Off} \cup OpenRequest \cup ExtractRequest
                          \cup MapRequest \cup CommitRequest]

(* However runs race, fail, die or are taken for dead, the watermark       *)
(* passes no version of a row that no finished run has read: the next run  *)
(* starts where the data ends (pipeline.py: "The watermark only advances   *)
(* after a load commits").                                                 *)
NothingPassedOver ==
  \A r \in Row : Exists(r) /\ origin[r] <= source.watermark => <<r, origin[r]>> \in handled

(* Served one after the other, a source has one run at a time, runs that   *)
(* died within two hours included (run_sync's busy check).                 *)
OneRunAtATime == Serial => Cardinality(running) <= 1

(* Served one after the other, a load finds the values that are stored and *)
(* updates them: it never inserts a second one (_load).                    *)
LoadsAreUpserts == Serial => \A w \in Worker : req[w].step = "commit" => ~Clash(req[w])

(* Served one after the other, runs do not get in each other's way.        *)
RunsTakeTurns == OneRunAtATime /\ LoadsAreUpserts

(* Whatever fails, dies or races on the way, every version of a row that   *)
(* stays is read by a run that finishes, unless the source is disabled: no *)
(* run that was left behind blocks its source for good.                    *)
CatchesUp ==
  \A r \in Row :
    Exists(r) ~> (<<r, origin[r]>> \in handled \/ ~source.enabled)

(* docs/INTEGRATION_HUB.md: "Finer data is aggregated to the stored        *)
(* grain".  A load leaves in a stored value the rows of its unit and       *)
(* period that have not changed.                                           *)
LoadsKeepUnchangedRows ==
  [][\A c \in Cell : \A v \in values[c] :
       v[2] = origin[v[1]] /\ crosswalk[v[1]] = c => v \in values'[c]]_vars
=============================================================================
