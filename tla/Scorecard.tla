----------------------------- MODULE Scorecard -----------------------------
(***************************************************************************)
(* Scoring schemes and score snapshots (app/modules/scorecard/service.py)  *)
(* for one plan, period and unit.  A strategy manager drafts the versions  *)
(* of a scheme and another one signs them off.  A snapshot freezes the     *)
(* data and the scheme it was computed from; an approver may override its  *)
(* overall rating while it is a draft, and somebody other than the person  *)
(* who took it approves it, which supersedes the one approved before.      *)
(*                                                                         *)
(* As in ReportingCycle a request loads what it checks, and commits later. *)
(***************************************************************************)
EXTENDS Naturals, Sequences, FiniteSets, Workflow, Periods, Requests

CONSTANTS
  User,
  Nobody,
  Manager,         \* accounts that may use the strategy_manager duty
  Reviewer,        \* accounts with at least the reviewer role on the unit
  Approver,        \* those of them with the approver role
  ScorePeriod,     \* the period that is scored
  Bands,           \* sets of bands and settings a scheme may have
  SoundBands,      \* the ones engine.validate_bands accepts
  Jumble,          \* two edits of the bands on top of each other
  Data,            \* states of the published data and targets
  Covered,         \* the ones whose overall score passes the coverage gate
  MaxSchemes,      \* bound on the versions of the scheme
  MaxSnapshots     \* bound on the snapshots taken

ASSUME ScorecardAssumption ==
  /\ Nobody \notin User
  /\ Manager \subseteq User
  /\ Approver \subseteq Reviewer
  /\ Reviewer \subseteq User
  /\ ScorePeriod \in Period
  /\ SoundBands \subseteq Bands
  /\ Jumble \notin Bands
  /\ Covered \subseteq Data
  /\ MaxSchemes \in Nat
  /\ MaxSnapshots \in Nat

Scheme == 1..MaxSchemes
Snapshot == 1..MaxSnapshots

VARIABLES
  live,            \* what gather reads: published values, targets, weights
  schemes,         \* the scoring_schemes rows
  snaps            \* the score_snapshots rows

rows == <<live, schemes, snaps>>
vars == <<locked, rows, req>>
-----------------------------------------------------------------------------
SCHEME_FLOW ==
  [approve |-> Transition({"draft"}, "approved"),
   retire  |-> ReasonedTransition({"approved"}, "retired")]

SNAPSHOT_FLOW ==
  [approve   |-> Transition({"draft"}, "approved"),
   supersede |-> Transition({"approved"}, "superseded")]

NoScheme == [status |-> "absent", bands |-> Jumble, author |-> Nobody, signer |-> Nobody]

NoSnapshot ==
  [status |-> "absent", author |-> Nobody, approver |-> Nobody, scheme |-> 0,
   provisional |-> FALSE, hash |-> [data |-> Jumble, bands |-> Jumble],
   result |-> [data |-> Jumble, bands |-> Jumble, override |-> FALSE], supersedes |-> 0]

Drafted(s) == schemes[s].status # "absent"
Taken(n) == snaps[n].status # "absent"

(* The snapshots approved for the plan, period and unit.                   *)
Approved == {n \in Snapshot : snaps[n].status = "approved"}

(* score_gap: a complete or partial score, or the override of the plan.    *)
Signable(result) == result.data \in Covered \/ result.override

PeriodAccepts_Always == TRUE
PeriodAccepts == IsOpen(ScorePeriod)

Init ==
  /\ PeriodsInit
  /\ live \in Data
  /\ schemes = [s \in Scheme |-> NoScheme]
  /\ snaps = [n \in Snapshot |-> NoSnapshot]
  /\ RequestsInit

(* The published values, targets and weights change under other requests.  *)
DataChanges ==
  /\ Free
  /\ live' \in Data \ {live}
  /\ UNCHANGED <<locked, schemes, snaps, req>>

LockOrReopenPeriod ==
  /\ Free
  /\ \E p \in Period : LockPeriod(p) \/ ReopenPeriod(p)
  /\ UNCHANGED <<rows, req>>
-----------------------------------------------------------------------------
(* Schemes.                                                                *)

(* create_scheme: the next version, a draft with the bands of the version  *)
(* it is made from, or with the default ones.  Of two racing ones the      *)
(* unique (code, version) lets one through.                                *)
CreateScheme ==
  /\ Free
  /\ \E u \in Manager, s \in Scheme :
       /\ ~Drafted(s)
       /\ \A t \in Scheme : t < s => Drafted(t)
       /\ \E b \in SoundBands \cup {schemes[t].bands : t \in {x \in Scheme : Drafted(x)}} :
            schemes' = [schemes EXCEPT ![s] =
              [status |-> "draft", bands |-> b, author |-> u, signer |-> Nobody]]
  /\ UNCHANGED <<locked, live, snaps, req>>

(* update_scheme checks bands it is given against the scheme's cap, but a  *)
(* change of the cap alone is not checked against the bands.               *)
Editable(s) == schemes[s].status = "draft"

BeginUpdateScheme(w, u, s, b) ==
  /\ u \in Manager
  /\ Editable(s)
  /\ Begin(w, [step |-> "update", on |-> s, bands |-> b, loaded |-> schemes[s].bands])
  /\ UNCHANGED <<locked, rows>>

(* The old bands are deleted and the new ones inserted; bands another      *)
(* request put there in between stay beside them.                          *)
EditedBands(r, current) == IF current = r.loaded THEN r.bands ELSE Jumble

CommitUpdateScheme(w) ==
  /\ req[w].step = "update"
  /\ schemes' = [schemes EXCEPT ![req[w].on].bands = EditedBands(req[w], @)]
  /\ Finish(w)
  /\ UNCHANGED <<locked, live, snaps>>

(* transition_scheme.                                                      *)
SignableScheme(u, s) == schemes[s].author # u /\ schemes[s].bands \in SoundBands

BeginTransitionScheme(w, u, s, name, reasoned) ==
  /\ u \in Manager
  /\ Drafted(s)
  /\ name = "approve" => SignableScheme(u, s)
  /\ Permits(SCHEME_FLOW, name, schemes[s].status, reasoned)
  /\ Begin(w, [step |-> "scheme", op |-> name, user |-> u, on |-> s])
  /\ UNCHANGED <<locked, rows>>

CommitTransitionScheme(w) ==
  LET r == req[w]
      row == schemes[r.on]
  IN /\ r.step = "scheme"
     /\ schemes' = [schemes EXCEPT ![r.on] =
          [status |-> TargetOf(SCHEME_FLOW, r.op), bands |-> row.bands, author |-> row.author,
           signer |-> IF r.op = "approve" THEN r.user ELSE row.signer]]
     /\ Finish(w)
     /\ UNCHANGED <<locked, live, snaps>>
-----------------------------------------------------------------------------
(* Snapshots.                                                              *)

(* create_snapshot: any scheme that is not retired may be named, and the   *)
(* default choice is one of them.                                          *)
IsProvisional(s) == schemes[s].status # "approved"

(* gather and evaluate: the data and the scheme as they are now.           *)
Evaluated(s) == [data |-> live, bands |-> schemes[s].bands, override |-> FALSE]

TakenSnapshot(u, s) ==
  [status |-> "draft", author |-> u, approver |-> Nobody, scheme |-> s,
   provisional |-> IsProvisional(s),
   hash |-> [data |-> live, bands |-> schemes[s].bands],
   result |-> Evaluated(s), supersedes |-> 0]

BeginCreateSnapshot(w, u, s) ==
  /\ u \in Manager \cup Reviewer
  /\ PeriodAccepts
  /\ schemes[s].status \in {"draft", "approved"}
  /\ Begin(w, [step |-> "create", row |-> TakenSnapshot(u, s)])
  /\ UNCHANGED <<locked, rows>>

CommitCreateSnapshot(w) ==
  /\ req[w].step = "create"
  /\ \E n \in Snapshot :
       /\ ~Taken(n)
       /\ \A m \in Snapshot : m < n => Taken(m)
       /\ snaps' = [snaps EXCEPT ![n] = req[w].row]
  /\ Finish(w)
  /\ UNCHANGED <<locked, live, schemes>>

(* set_override sets or removes the rating of the plan, with a reason, and *)
(* evaluates the frozen data again, with the scheme as it is now.  The     *)
(* period's lock is not looked at.                                         *)
Reevaluated(n, set) ==
  [data |-> snaps[n].result.data, bands |-> schemes[snaps[n].scheme].bands, override |-> set]

MayOverride_WhateverState(u, n) == u \in Manager \cup Approver
MayOverride(u, n) == snaps[n].status = "draft" /\ u \in Manager \cup Approver

BeginOverride(w, u, n, set) ==
  /\ Taken(n)
  /\ MayOverride(u, n)
  /\ Begin(w, [step |-> "override", on |-> n, result |-> Reevaluated(n, set)])
  /\ UNCHANGED <<locked, rows>>

CommitOverride(w) ==
  /\ req[w].step = "override"
  /\ snaps' = [snaps EXCEPT ![req[w].on].result = req[w].result]
  /\ Finish(w)
  /\ UNCHANGED <<locked, live, schemes>>

(* approve_snapshot.                                                       *)
NotOwnSnapshot_Unchecked(u, n) == TRUE
NotOwnSnapshot(u, n) == snaps[n].author # u

SignedScheme_StatusOnly(n) == schemes[snaps[n].scheme].status = "approved"
SignedScheme(n) ==
  /\ schemes[snaps[n].scheme].status = "approved"
  /\ ~snaps[n].provisional

NoScoreGap(n) == Signable(snaps[n].result)

Previous_EverApproved == {n \in Snapshot : snaps[n].status \in {"approved", "superseded"}}
Previous == Approved

BeginApprove(w, u, n) ==
  /\ Taken(n)
  /\ u \in Approver
  /\ NotOwnSnapshot(u, n)
  /\ SignedScheme(n)
  /\ PeriodAccepts
  /\ Permits(SNAPSHOT_FLOW, "approve", snaps[n].status, FALSE)
  /\ NoScoreGap(n)
  /\ Begin(w, [step |-> "approve", user |-> u, on |-> n, previous |-> Previous])
  /\ UNCHANGED <<locked, rows>>

(* supersedes_id is the last of the rows found approved.                   *)
Superseding(r, row) ==
  IF r.previous = {} THEN {row.supersedes} ELSE r.previous

AsApproved(row, u, old) ==
  [status |-> TargetOf(SNAPSHOT_FLOW, "approve"), author |-> row.author, approver |-> u,
   scheme |-> row.scheme, provisional |-> row.provisional, hash |-> row.hash,
   result |-> row.result, supersedes |-> old]

CommitApprove(w) ==
  LET r == req[w]
      row == snaps[r.on]
  IN /\ r.step = "approve"
     /\ \E old \in Superseding(r, row) :
          snaps' = [m \in Snapshot |->
            IF m = r.on
            THEN AsApproved(row, r.user, old)
            ELSE IF m \in r.previous
            THEN [snaps[m] EXCEPT !.status = TargetOf(SNAPSHOT_FLOW, "supersede")]
            ELSE snaps[m]]
     /\ Finish(w)
     /\ UNCHANGED <<locked, live, schemes>>

(* A request dies before its commit, and its transaction rolls back.       *)
Abort(w) ==
  /\ InFlight(w)
  /\ Finish(w)
  /\ UNCHANGED <<locked, rows>>
-----------------------------------------------------------------------------
Next ==
  \/ DataChanges
  \/ LockOrReopenPeriod
  \/ CreateScheme
  \/ \E w \in Worker :
       \/ \E u \in User, s \in Scheme, b \in Bands : BeginUpdateScheme(w, u, s, b)
       \/ CommitUpdateScheme(w)
       \/ \E u \in User, s \in Scheme, name \in DOMAIN SCHEME_FLOW, reasoned \in BOOLEAN :
            BeginTransitionScheme(w, u, s, name, reasoned)
       \/ CommitTransitionScheme(w)
       \/ \E u \in User, s \in Scheme : BeginCreateSnapshot(w, u, s)
       \/ CommitCreateSnapshot(w)
       \/ \E u \in User, n \in Snapshot, set \in BOOLEAN : BeginOverride(w, u, n, set)
       \/ CommitOverride(w)
       \/ \E u \in User, n \in Snapshot : BeginApprove(w, u, n)
       \/ CommitApprove(w)
       \/ Abort(w)

Spec == Init /\ [][Next]_vars
-----------------------------------------------------------------------------
AnyBands == Bands \cup {Jumble}

SchemeRow(status, signer) ==
  [status : status, bands : AnyBands, author : Manager, signer : signer]

SnapshotRow(status, approver, supersedes) ==
  [status : status, author : User, approver : approver, scheme : Scheme,
   provisional : BOOLEAN, hash : [data : Data, bands : AnyBands],
   result : [data : Data, bands : AnyBands, override : BOOLEAN], supersedes : supersedes]

Decided(n) == snaps[n].status \in {"approved", "superseded"}

(* The rows have the types of their columns; a scheme has a signer and a   *)
(* snapshot an approver exactly once they have left the draft state.       *)
TypeOK ==
  /\ PeriodsTypeOK
  /\ live \in Data
  /\ schemes \in [Scheme -> {NoScheme} \cup SchemeRow({"draft"}, {Nobody})
                               \cup SchemeRow({"approved", "retired"}, Manager)]
  /\ DOMAIN snaps = Snapshot
  /\ \A n \in Snapshot :
       IF Taken(n)
       THEN snaps[n] \in SnapshotRow({"draft"}, {Nobody}, {0})
                           \cup SnapshotRow({"approved", "superseded"}, Approver,
                                            {0} \cup Snapshot)
       ELSE snaps[n] = NoSnapshot
  /\ DOMAIN req = Worker

(* What holds however the requests interleave.                             *)

(* Nobody signs off their own scheme or approves a snapshot they took      *)
(* (transition_scheme, approve_snapshot).                                  *)
FourEyes ==
  /\ \A s \in Scheme : Drafted(s) => schemes[s].signer # schemes[s].author
  /\ \A n \in Snapshot : Taken(n) => snaps[n].approver # snaps[n].author

(* A snapshot calculated with an unsigned scheme is never approved, though *)
(* the scheme be signed off later (approve_snapshot).                      *)
ProvisionalIsNotApproved ==
  \A n \in Snapshot : Decided(n) =>
    ~snaps[n].provisional

-----------------------------------------------------------------------------
(* What holds of serial requests.                                          *)

(* At most one snapshot is approved for a plan, period and unit, and the   *)
(* superseded ones form a chain: each is named by exactly one later        *)
(* approval, the approved one by none.                                     *)
SupersededBy(n) == {m \in Snapshot : snaps[m].supersedes = n}

SupersessionIsAChain ==
  Serial =>
    /\ Cardinality(Approved) <= 1
    /\ \A n \in Snapshot :
         snaps[n].status = "superseded" => Cardinality(SupersededBy(n)) = 1
    /\ \A n \in Approved : SupersededBy(n) = {}

(* What was signed off still is what the hash certifies: the approved      *)
(* score comes from the hashed data and bands, and the bands are those of  *)
(* the scheme that somebody signed off.                                    *)
ApprovedIsCertified ==
  Serial => \A n \in Snapshot : Decided(n) =>
    /\ snaps[n].hash = [data |-> snaps[n].result.data, bands |-> snaps[n].result.bands]
    /\ snaps[n].hash.bands = schemes[snaps[n].scheme].bands
    /\ snaps[n].hash.bands \in SoundBands
    /\ schemes[snaps[n].scheme].signer # Nobody

(* The score in force of a plan, period and unit is one, it is the one that *)
(* was certified, and those before it stay reachable (approve_snapshot).   *)
OneScoreInForce == SupersessionIsAChain /\ ApprovedIsCertified

(* A snapshot is a sealed record: overrides change its result until it is  *)
(* approved by somebody who did not take it, with a score that can be      *)
(* signed off; from then on it can only be superseded.                     *)
SealState ==
  [absent |-> "none", draft |-> "open", approved |-> "sealed", superseded |-> "retired"]

Governed == INSTANCE SealedRecord WITH
  Record <- Snapshot, Actor <- User, Fit <- Signable,
  state <- [n \in Snapshot |-> IF Serial THEN SealState[snaps[n].status] ELSE "none"],
  author <- [n \in Snapshot |-> snaps[n].author],
  content <- [n \in Snapshot |-> snaps[n].result],
  signer <- [n \in Snapshot |-> snaps[n].approver]

ImplementsSealing == Governed!Spec

(* A locked period accepts no new snapshots or approvals; overrides of a   *)
(* snapshot that is still a draft are not refused.                         *)
LockFreezesApprovals ==
  [][Serial /\ Containing(ScorePeriod) \cap locked # {} =>
       \A n \in Snapshot : snaps'[n].status = snaps[n].status]_vars
=============================================================================
