------------------------------ MODULE Requests ------------------------------
(***************************************************************************)
(* Requests in flight.  Endpoints are plain functions that the server runs *)
(* in a thread pool, each with a session of its own (app/database.py,      *)
(* get_db); the sessions take no locks, so what one request has read may   *)
(* be committed over by another before it commits itself.  A deployment    *)
(* starts as many workers as it likes: with one of them, requests are      *)
(* serial; with two, they race.                                            *)
(***************************************************************************)
EXTENDS Naturals, FiniteSets

CONSTANTS
  Worker           \* threads that serve requests

(* The pool has a size.                                                    *)
ASSUME RequestsAssumption == IsFiniteSet(Worker)

VARIABLES
  req              \* what each worker is doing

Idle == [step |-> "idle"]
Off == [step |-> "off"]

(* A worker is free to take the next request.                              *)
Free == \E w \in Worker : req[w].step = "idle"

Waiting == {w \in Worker : req[w].step = "idle"}

InFlight(w) == req[w].step \notin {"idle", "off"}

(* The deployment serves one request at a time.                            *)
Serial == Cardinality({w \in Worker : req[w].step # "off"}) = 1

RequestsInit == req \in [Worker -> {Idle, Off}] /\ Free

Begin(w, request) == req[w].step = "idle" /\ req' = [req EXCEPT ![w] = request]
Finish(w) == req' = [req EXCEPT ![w] = Idle]
-----------------------------------------------------------------------------
(* What a commit writes.  A handler loads a row, changes attributes of its *)
(* copy and commits; the ORM then writes the columns whose value differs   *)
(* from the loaded one, and leaves the others as other requests may have   *)
(* left them meanwhile (SessionLocal: no version column, no row lock).     *)

(* The row after a handler that loaded "loaded" and left it as "new".      *)
Flush(loaded, new, row) ==
  [c \in DOMAIN row |-> IF new[c] = loaded[c] THEN row[c] ELSE new[c]]

(* Several columns of a row assigned at once; the others stay.             *)
Assign(row, values) ==
  [c \in DOMAIN row |-> IF c \in DOMAIN values THEN values[c] ELSE row[c]]
=============================================================================
