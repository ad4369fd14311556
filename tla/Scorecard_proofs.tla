-------------------------- MODULE Scorecard_proofs --------------------------
(***************************************************************************)
(* Proofs about Scorecard, for any users, schemes, snapshots and number of *)
(* racing requests: nobody signs off their own scheme or snapshot, the     *)
(* inputs of a snapshot never change, and no approved snapshot comes from  *)
(* an unsigned scheme.  They rest on columns that no handler writes after  *)
(* the row was inserted: what a request has checked about them stays true. *)
(*                                                                         *)
(* And of requests served one after the other: what the request in flight  *)
(* loaded is what is stored, so that one score is in force, a locked       *)
(* period takes none, and snapshots implement the sealed record.           *)
(***************************************************************************)
EXTENDS Scorecard, Requests_proofs

(* A snapshot is a calculation on the data of the moment it was taken: no  *)
(* override, approval or later data changes the data it stands on, which   *)
(* the inputs hash certifies (set_override evaluates the frozen inputs).   *)
InputsAreFrozen ==
  [][\A n \in Snapshot : Taken(n) =>
       /\ snaps'[n].hash = snaps[n].hash
       /\ snaps'[n].result.data = snaps[n].hash.data]_snaps

(* What a request has checked about a row is still true when it commits,   *)
(* because it is about columns that never change.                          *)
Checked(r) ==
  /\ r.step = "scheme" =>
       /\ r.op \in DOMAIN SCHEME_FLOW
       /\ r.on \in Scheme
       /\ Drafted(r.on)
       /\ r.op = "approve" => schemes[r.on].author # r.user
  /\ r.step = "create" =>
       /\ r.row.author \in User
       /\ r.row.approver = Nobody
       /\ r.row.status = "draft"
       /\ r.row.result.data = r.row.hash.data
  /\ r.step = "override" =>
       /\ r.on \in Snapshot
       /\ Taken(r.on)
       /\ r.result.data = snaps[r.on].hash.data
  /\ r.step = "approve" =>
       /\ r.on \in Snapshot
       /\ Taken(r.on)
       /\ snaps[r.on].author # r.user
       /\ ~snaps[r.on].provisional
       /\ \A n \in r.previous \cap Snapshot : Decided(n)

InFlightIsTrue == \A w \in Worker : Checked(req[w])

(* The tables have their rows, and a result stands on the hashed data.     *)
TablesAreWhole ==
  /\ DOMAIN schemes = Scheme
  /\ DOMAIN snaps = Snapshot
  /\ DOMAIN req = Worker
  /\ \A s \in Scheme : Drafted(s) => schemes[s].author \in Manager
  /\ \A n \in Snapshot : Taken(n) =>
       snaps[n].author \in User /\ snaps[n].result.data = snaps[n].hash.data

(* The inductive invariant.                                                *)
ScoreInvariant ==
  /\ TablesAreWhole
  /\ InFlightIsTrue
  /\ FourEyes
  /\ ProvisionalIsNotApproved

(* The columns that stay: the author of a scheme, and the author, hash and *)
(* provisional flag of a snapshot, whose approval is never taken back.     *)
SchemesStay ==
  /\ DOMAIN schemes' = Scheme
  /\ \A s \in Scheme : Drafted(s) =>
       Drafted(s)' /\ schemes'[s].author = schemes[s].author

SnapshotsStay ==
  /\ DOMAIN snaps' = Snapshot
  /\ \A n \in Snapshot : Taken(n) =>
       /\ Taken(n)'
       /\ snaps'[n].author = snaps[n].author
       /\ snaps'[n].hash = snaps[n].hash
       /\ snaps'[n].provisional = snaps[n].provisional
       /\ Decided(n) => Decided(n)'

LEMMA CheckedIsInFlight == InFlightIsTrue <=> \A w \in Worker : Checked(req[w])
BY DEF InFlightIsTrue, Checked

(* What was checked stays true while the columns stay.                     *)
LEMMA CheckedStays ==
  ASSUME NEW r, Checked(r), SchemesStay, SnapshotsStay
  PROVE  /\ r.step = "scheme" =>
              /\ r.op \in DOMAIN SCHEME_FLOW
              /\ r.on \in Scheme
              /\ schemes'[r.on].status # "absent"
              /\ r.op = "approve" => schemes'[r.on].author # r.user
         /\ r.step = "create" =>
              /\ r.row.author \in User
              /\ r.row.approver = Nobody
              /\ r.row.status = "draft"
              /\ r.row.result.data = r.row.hash.data
         /\ r.step = "override" =>
              /\ r.on \in Snapshot
              /\ snaps'[r.on].status # "absent"
              /\ r.result.data = snaps'[r.on].hash.data
         /\ r.step = "approve" =>
              /\ r.on \in Snapshot
              /\ snaps'[r.on].status # "absent"
              /\ snaps'[r.on].author # r.user
              /\ ~snaps'[r.on].provisional
              /\ \A n \in r.previous \cap Snapshot :
                   snaps'[n].status \in {"approved", "superseded"}
BY DEF Checked, SchemesStay, SnapshotsStay, Drafted, Taken, Decided

(* A request that finishes leaves the checks of the others standing.       *)
LEMMA OthersStay ==
  ASSUME TablesAreWhole, InFlightIsTrue, SchemesStay, SnapshotsStay, NEW w \in Worker, Finish(w)
  PROVE  InFlightIsTrue'
<1>1. ASSUME NEW v \in Worker
      PROVE  req'[v] = req[v] \/ req'[v] = Idle
  BY DEF Finish, TablesAreWhole
<1>2. \A v \in Worker : Checked(req[v])
  BY CheckedIsInFlight
<1>3. ASSUME NEW v \in Worker, req'[v] = Idle PROVE Checked(req[v])'
  BY <1>3 DEF Checked, Idle
<1>4. ASSUME NEW v \in Worker, req'[v] = req[v] PROVE Checked(req[v])'
  BY <1>2, <1>4, CheckedStays DEF Checked, Decided, Drafted, Taken
<1> QED
  BY <1>1, <1>3, <1>4 DEF InFlightIsTrue

(* A request that begins changes no row.                                   *)
LEMMA BeginKeeps ==
  ASSUME ScoreInvariant, NEW w \in Worker, NEW r, Begin(w, r), Checked(r), UNCHANGED rows
  PROVE  ScoreInvariant'
<1>1. TablesAreWhole'
  BY DEF ScoreInvariant, TablesAreWhole, Begin, rows, Drafted, Taken
<1>2. InFlightIsTrue'
  <2>1. \A v \in Worker : req'[v] = req[v] \/ req'[v] = r
    BY DEF ScoreInvariant, TablesAreWhole, Begin
  <2>2. \A v \in Worker : Checked(req[v])
    BY CheckedIsInFlight DEF ScoreInvariant
  <2> QED
    BY <2>1, <2>2 DEF InFlightIsTrue, Checked, Decided, Drafted, Taken, rows
<1>3. FourEyes' /\ ProvisionalIsNotApproved'
  BY DEF ScoreInvariant, FourEyes, ProvisionalIsNotApproved, rows, Drafted, Taken, Decided
<1> QED
  BY <1>1, <1>2, <1>3 DEF ScoreInvariant

-----------------------------------------------------------------------------
LEMMA InitHolds == ASSUME ScorecardAssumption, Init PROVE ScoreInvariant
<1>1. InFlightIsTrue /\ DOMAIN req = Worker
  <2>1. \A w \in Worker : req[w] = Idle \/ req[w] = Off
    BY DEF Init, RequestsInit
  <2> QED
    BY <2>1 DEF Init, RequestsInit, InFlightIsTrue, Checked, Idle, Off
<1>2. TablesAreWhole
  BY <1>1 DEF Init, TablesAreWhole, NoScheme, NoSnapshot, Drafted, Taken
<1>3. FourEyes /\ ProvisionalIsNotApproved
  BY DEF Init, FourEyes, ProvisionalIsNotApproved, NoScheme, NoSnapshot, Drafted, Taken, Decided
<1> QED
  BY <1>1, <1>2, <1>3 DEF ScoreInvariant

LEMMA BeginSteps ==
  ASSUME ScorecardAssumption, ScoreInvariant, NEW w \in Worker,
         \/ \E u \in User, s \in Scheme, b \in Bands : BeginUpdateScheme(w, u, s, b)
         \/ \E u \in User, s \in Scheme, name \in DOMAIN SCHEME_FLOW, reasoned \in BOOLEAN :
              BeginTransitionScheme(w, u, s, name, reasoned)
         \/ \E u \in User, s \in Scheme : BeginCreateSnapshot(w, u, s)
         \/ \E u \in User, n \in Snapshot, set \in BOOLEAN : BeginOverride(w, u, n, set)
         \/ \E u \in User, n \in Snapshot : BeginApprove(w, u, n)
  PROVE  ScoreInvariant'
<1> USE DEF Checked
<1>1. ASSUME NEW u \in User, NEW s \in Scheme, NEW b \in Bands, BeginUpdateScheme(w, u, s, b)
      PROVE  ScoreInvariant'
  BY <1>1, BeginKeeps DEF BeginUpdateScheme
<1>2. ASSUME NEW u \in User, NEW s \in Scheme, NEW name \in DOMAIN SCHEME_FLOW,
             NEW reasoned \in BOOLEAN, BeginTransitionScheme(w, u, s, name, reasoned)
      PROVE  ScoreInvariant'
  BY <1>2, BeginKeeps DEF BeginTransitionScheme, SignableScheme
<1>3. ASSUME NEW u \in User, NEW s \in Scheme, BeginCreateSnapshot(w, u, s)
      PROVE  ScoreInvariant'
  BY <1>3, BeginKeeps DEF BeginCreateSnapshot, TakenSnapshot, Evaluated
<1>4. ASSUME NEW u \in User, NEW n \in Snapshot, NEW set \in BOOLEAN, BeginOverride(w, u, n, set)
      PROVE  ScoreInvariant'
  BY <1>4, BeginKeeps DEF BeginOverride, Reevaluated, ScoreInvariant, TablesAreWhole
<1>5. ASSUME NEW u \in User, NEW n \in Snapshot, BeginApprove(w, u, n)
      PROVE  ScoreInvariant'
  BY <1>5, BeginKeeps
     DEF BeginApprove, NotOwnSnapshot, SignedScheme, Previous, Approved, Decided
<1> QED
  BY <1>1, <1>2, <1>3, <1>4, <1>5

(* Steps on the schemes.                                                   *)
LEMMA SchemeSteps ==
  ASSUME ScorecardAssumption, ScoreInvariant, NEW w \in Worker,
         CommitUpdateScheme(w) \/ CommitTransitionScheme(w)
  PROVE  ScoreInvariant'
<1>0. Checked(req[w])
  BY CheckedIsInFlight DEF ScoreInvariant
<1>1. CASE CommitUpdateScheme(w)
  <2>1. SchemesStay /\ \A s \in Scheme : schemes'[s].signer = schemes[s].signer
                                        /\ schemes'[s].status = schemes[s].status
                                        /\ schemes'[s].author = schemes[s].author
    BY <1>1 DEF CommitUpdateScheme, SchemesStay, ScoreInvariant, TablesAreWhole, Drafted
  <2>2. SnapshotsStay /\ UNCHANGED snaps /\ Finish(w)
    BY <1>1 DEF CommitUpdateScheme, SnapshotsStay, ScoreInvariant, TablesAreWhole, Taken, Decided
  <2>3. InFlightIsTrue'
    BY <2>1, <2>2, OthersStay DEF ScoreInvariant
  <2> QED
    BY <2>1, <2>2, <2>3
       DEF ScoreInvariant, TablesAreWhole, FourEyes, ProvisionalIsNotApproved, Finish,
           SchemesStay, Drafted, Taken, Decided
<1>2. CASE CommitTransitionScheme(w)
  <2>1. /\ DOMAIN schemes' = Scheme
        /\ \A s \in Scheme : schemes'[s].author = schemes[s].author
        /\ \A s \in Scheme : Drafted(s) <=> schemes'[s].status # "absent"
        /\ \A s \in Scheme : s # req[w].on => schemes'[s] = schemes[s]
    BY <1>0, <1>2
       DEF CommitTransitionScheme, ScoreInvariant, TablesAreWhole, Drafted, Checked, TargetOf,
           SCHEME_FLOW, Transition, ReasonedTransition
  <2>2. schemes'[req[w].on].signer # schemes[req[w].on].author
    BY <1>0, <1>2
       DEF CommitTransitionScheme, ScoreInvariant, TablesAreWhole, Drafted, Checked, FourEyes
  <2>3. SchemesStay
    BY <2>1 DEF SchemesStay, Drafted
  <2>4. SnapshotsStay /\ UNCHANGED snaps /\ Finish(w)
    BY <1>2 DEF CommitTransitionScheme, SnapshotsStay, ScoreInvariant, TablesAreWhole, Taken,
                Decided
  <2>5. InFlightIsTrue'
    BY <2>3, <2>4, OthersStay DEF ScoreInvariant
  <2>6. FourEyes'
    BY <2>1, <2>2, <2>4 DEF FourEyes, ScoreInvariant, Drafted, Taken
  <2> QED
    BY <2>1, <2>4, <2>5, <2>6
       DEF ScoreInvariant, TablesAreWhole, ProvisionalIsNotApproved, Finish, Drafted, Taken,
           Decided
<1> QED
  BY <1>1, <1>2

(* Steps on the snapshots.                                                 *)
LEMMA SnapshotSteps ==
  ASSUME ScorecardAssumption, ScoreInvariant, NEW w \in Worker,
         CommitCreateSnapshot(w) \/ CommitOverride(w) \/ CommitApprove(w)
  PROVE  ScoreInvariant' /\ SnapshotsStay
<1>0. Checked(req[w])
  BY CheckedIsInFlight DEF ScoreInvariant
<1>1. UNCHANGED schemes /\ Finish(w) /\ SchemesStay
  BY DEF CommitCreateSnapshot, CommitOverride, CommitApprove, SchemesStay, ScoreInvariant,
         TablesAreWhole, Drafted
<1>2. CASE CommitCreateSnapshot(w)
  <2>1. PICK n \in Snapshot : ~Taken(n) /\ snaps' = [snaps EXCEPT ![n] = req[w].row]
    BY <1>2 DEF CommitCreateSnapshot
  <2>2. /\ DOMAIN snaps' = Snapshot
        /\ snaps'[n] = req[w].row
        /\ \A m \in Snapshot : m # n => snaps'[m] = snaps[m]
    BY <2>1 DEF ScoreInvariant, TablesAreWhole
  <2>3. SnapshotsStay
    BY <2>1, <2>2 DEF SnapshotsStay, Taken, Decided
  <2>4. /\ snaps'[n].author \in User
        /\ snaps'[n].approver = Nobody
        /\ snaps'[n].status = "draft"
        /\ snaps'[n].result.data = snaps'[n].hash.data
    BY <1>0, <1>2, <2>2 DEF Checked, CommitCreateSnapshot
  <2>5. InFlightIsTrue'
    BY <1>1, <2>3, OthersStay DEF ScoreInvariant
  <2> QED
    BY <1>1, <2>2, <2>3, <2>4, <2>5
       DEF ScoreInvariant, TablesAreWhole, FourEyes, ProvisionalIsNotApproved, Finish, Drafted,
           Taken, ScorecardAssumption, Decided
<1>3. CASE CommitOverride(w)
  <2>1. /\ DOMAIN snaps' = Snapshot
        /\ \A n \in Snapshot :
             /\ snaps'[n].author = snaps[n].author
             /\ snaps'[n].approver = snaps[n].approver
             /\ snaps'[n].status = snaps[n].status
             /\ snaps'[n].provisional = snaps[n].provisional
             /\ snaps'[n].hash = snaps[n].hash
             /\ Taken(n) => snaps'[n].result.data = snaps[n].hash.data
    BY <1>0, <1>3 DEF Checked, CommitOverride, ScoreInvariant, TablesAreWhole
  <2>2. SnapshotsStay
    BY <2>1 DEF SnapshotsStay, Taken, Decided
  <2>3. InFlightIsTrue'
    BY <1>1, <2>2, OthersStay DEF ScoreInvariant
  <2> QED
    BY <1>1, <2>1, <2>2, <2>3
       DEF ScoreInvariant, TablesAreWhole, FourEyes, ProvisionalIsNotApproved, Finish, Drafted,
           Taken, Decided
<1>4. CASE CommitApprove(w)
  <2> DEFINE r == req[w]
  <2>1. PICK old \in Superseding(r, snaps[r.on]) :
          snaps' = [m \in Snapshot |->
            IF m = r.on THEN AsApproved(snaps[m], r.user, old)
            ELSE IF m \in r.previous
            THEN [snaps[m] EXCEPT !.status = TargetOf(SNAPSHOT_FLOW, "supersede")]
            ELSE snaps[m]]
    BY <1>4 DEF CommitApprove
  <2>2. /\ r.on \in Snapshot
        /\ Taken(r.on)
        /\ snaps[r.on].author # r.user
        /\ ~snaps[r.on].provisional
        /\ \A n \in r.previous \cap Snapshot : Decided(n)
    BY <1>0, <1>4 DEF Checked, CommitApprove
  <2>3. /\ snaps'[r.on] = AsApproved(snaps[r.on], r.user, old)
        /\ \A m \in Snapshot \ {r.on} :
             /\ snaps'[m].author = snaps[m].author
             /\ snaps'[m].approver = snaps[m].approver
             /\ snaps'[m].provisional = snaps[m].provisional
             /\ snaps'[m].hash = snaps[m].hash
             /\ snaps'[m].result = snaps[m].result
             /\ \/ snaps'[m].status = snaps[m].status
                \/ Decided(m) /\ snaps'[m].status = "superseded"
    BY <2>1, <2>2 DEF TargetOf, SNAPSHOT_FLOW, Transition
  <2>4. /\ snaps'[r.on].author = snaps[r.on].author
        /\ snaps'[r.on].approver = r.user
        /\ snaps'[r.on].provisional = snaps[r.on].provisional
        /\ snaps'[r.on].hash = snaps[r.on].hash
        /\ snaps'[r.on].result = snaps[r.on].result
        /\ snaps'[r.on].status = "approved"
    BY <2>3 DEF AsApproved, TargetOf, SNAPSHOT_FLOW, Transition
  <2> HIDE DEF r
  <2>5. DOMAIN snaps' = Snapshot
    BY <2>1
  <2>6. SnapshotsStay
    BY <2>2, <2>3, <2>4, <2>5 DEF SnapshotsStay, Taken, Decided
  <2>7. InFlightIsTrue'
    BY <1>1, <2>6, OthersStay DEF ScoreInvariant
  <2>8. TablesAreWhole'
    BY <1>1, <2>2, <2>3, <2>4, <2>5 DEF ScoreInvariant, TablesAreWhole, Finish, Drafted, Taken,
                                        Decided
  <2>9. FourEyes' /\ ProvisionalIsNotApproved'
    BY <1>1, <2>2, <2>3, <2>4
       DEF ScoreInvariant, FourEyes, ProvisionalIsNotApproved, Drafted, Taken, Decided
  <2> QED
    BY <2>6, <2>7, <2>8, <2>9 DEF ScoreInvariant
<1> QED
  BY <1>2, <1>3, <1>4

LEMMA OtherSteps ==
  ASSUME ScorecardAssumption, ScoreInvariant,
         \/ DataChanges
         \/ LockOrReopenPeriod
         \/ CreateScheme
         \/ \E w \in Worker : Abort(w)
  PROVE  ScoreInvariant'
<1>1. CASE DataChanges \/ LockOrReopenPeriod
  BY <1>1 DEF DataChanges, LockOrReopenPeriod, rows, ScoreInvariant, TablesAreWhole,
              InFlightIsTrue, FourEyes, ProvisionalIsNotApproved, Drafted, Taken, Decided,
              Checked
<1>2. CASE CreateScheme
  <2>1. PICK u \in Manager, s \in Scheme :
          /\ ~Drafted(s)
          /\ \E b \in SoundBands \cup {schemes[t].bands : t \in {x \in Scheme : Drafted(x)}} :
               schemes' = [schemes EXCEPT ![s] =
                 [status |-> "draft", bands |-> b, author |-> u, signer |-> Nobody]]
    BY <1>2 DEF CreateScheme
  <2>2. /\ DOMAIN schemes' = Scheme
        /\ schemes'[s].author = u /\ schemes'[s].signer = Nobody
        /\ schemes'[s].status = "draft"
        /\ \A t \in Scheme : t # s => schemes'[t] = schemes[t]
    BY <2>1 DEF ScoreInvariant, TablesAreWhole
  <2>3. u # Nobody
    BY DEF ScorecardAssumption
  <2>4. UNCHANGED <<snaps, req>>
    BY <1>2 DEF CreateScheme
  <2>5. TablesAreWhole'
    BY <2>1, <2>2, <2>4 DEF ScoreInvariant, TablesAreWhole, Drafted, Taken
  <2>6. InFlightIsTrue'
    BY <2>1, <2>2, <2>4 DEF ScoreInvariant, InFlightIsTrue, Checked, Decided, Drafted, Taken
  <2>7. FourEyes'
    BY <2>2, <2>3, <2>4 DEF ScoreInvariant, FourEyes, Drafted, Taken
  <2>8. ProvisionalIsNotApproved'
    BY <2>2, <2>4 DEF ScoreInvariant, ProvisionalIsNotApproved, Decided
  <2> QED
    BY <2>5, <2>6, <2>7, <2>8 DEF ScoreInvariant
<1>3. ASSUME NEW w \in Worker, Abort(w) PROVE ScoreInvariant'
  <2>1. SchemesStay /\ SnapshotsStay /\ Finish(w) /\ UNCHANGED <<schemes, snaps>>
    BY <1>3 DEF Abort, rows, SchemesStay, SnapshotsStay, ScoreInvariant, TablesAreWhole, Drafted,
                Taken, Decided
  <2>2. InFlightIsTrue'
    BY <2>1, OthersStay DEF ScoreInvariant
  <2> QED
    BY <2>1, <2>2
       DEF Finish, ScoreInvariant, TablesAreWhole, FourEyes, ProvisionalIsNotApproved, Drafted,
           Taken, Decided
<1> QED
  BY <1>1, <1>2, <1>3

(* Every step keeps the invariant and the columns of the snapshots.        *)
LEMMA StepHolds ==
  ASSUME ScorecardAssumption, ScoreInvariant, [Next]_vars
  PROVE  ScoreInvariant' /\ SnapshotsStay
<1>1. CASE UNCHANGED vars
  BY <1>1 DEF vars, rows, ScoreInvariant, TablesAreWhole, InFlightIsTrue, Checked, FourEyes,
              ProvisionalIsNotApproved, Drafted, Taken, SnapshotsStay, Decided
<1>2. ASSUME UNCHANGED snaps PROVE SnapshotsStay
  BY <1>2 DEF SnapshotsStay, ScoreInvariant, TablesAreWhole, Taken, Decided
<1>3. CASE Next
  <2>1. CASE DataChanges \/ LockOrReopenPeriod \/ CreateScheme \/ \E w \in Worker : Abort(w)
    BY <1>2, <2>1, OtherSteps DEF DataChanges, LockOrReopenPeriod, CreateScheme, Abort, rows
  <2>2. ASSUME NEW w \in Worker,
               \/ \E u \in User, s \in Scheme, b \in Bands : BeginUpdateScheme(w, u, s, b)
               \/ \E u \in User, s \in Scheme, name \in DOMAIN SCHEME_FLOW, reasoned \in BOOLEAN :
                    BeginTransitionScheme(w, u, s, name, reasoned)
               \/ \E u \in User, s \in Scheme : BeginCreateSnapshot(w, u, s)
               \/ \E u \in User, n \in Snapshot, set \in BOOLEAN : BeginOverride(w, u, n, set)
               \/ \E u \in User, n \in Snapshot : BeginApprove(w, u, n)
        PROVE  ScoreInvariant' /\ SnapshotsStay
    <3>1. UNCHANGED snaps
      BY <2>2 DEF BeginUpdateScheme, BeginTransitionScheme, BeginCreateSnapshot, BeginOverride,
                  BeginApprove, rows
    <3> QED
      BY <1>2, <2>2, <3>1, BeginSteps
  <2>3. ASSUME NEW w \in Worker, CommitUpdateScheme(w) \/ CommitTransitionScheme(w)
        PROVE  ScoreInvariant' /\ SnapshotsStay
    BY <1>2, <2>3, SchemeSteps DEF CommitUpdateScheme, CommitTransitionScheme
  <2>4. ASSUME NEW w \in Worker, CommitCreateSnapshot(w) \/ CommitOverride(w) \/ CommitApprove(w)
        PROVE  ScoreInvariant' /\ SnapshotsStay
    BY <2>4, SnapshotSteps
  <2> QED
    BY <1>3, <2>1, <2>2, <2>3, <2>4 DEF Next
<1> QED
  BY <1>1, <1>3

-----------------------------------------------------------------------------
(* However many requests race, the inductive invariant holds.              *)
THEOREM ScoreInvariantHolds == ASSUME ScorecardAssumption PROVE Spec => []ScoreInvariant
<1>1. Init => ScoreInvariant
  BY InitHolds
<1>2. ScoreInvariant /\ [Next]_vars => ScoreInvariant'
  BY StepHolds
<1> QED
  BY <1>1, <1>2, PTL DEF Spec

(* Nobody signs off their own scheme or approves their own snapshot.       *)
THEOREM FourEyesHolds == ASSUME ScorecardAssumption PROVE Spec => []FourEyes
<1>1. ScoreInvariant => FourEyes
  BY DEF ScoreInvariant
<1> QED
  BY <1>1, ScoreInvariantHolds, PTL

(* No approved snapshot was calculated with an unsigned scheme.            *)
THEOREM ApprovedNotProvisional ==
  ASSUME ScorecardAssumption PROVE Spec => []ProvisionalIsNotApproved
<1>1. ScoreInvariant => ProvisionalIsNotApproved
  BY DEF ScoreInvariant
<1> QED
  BY <1>1, ScoreInvariantHolds, PTL

(* The inputs of a snapshot, and the hash that certifies them, are frozen. *)
THEOREM SnapshotInputsAreFrozen == ASSUME ScorecardAssumption PROVE Spec => InputsAreFrozen
<1>1. ScoreInvariant /\ ScoreInvariant' /\ [Next]_vars
        => [\A n \in Snapshot : Taken(n) =>
              /\ snaps'[n].hash = snaps[n].hash
              /\ snaps'[n].result.data = snaps[n].hash.data]_snaps
  <2> SUFFICES ASSUME ScoreInvariant, ScoreInvariant', [Next]_vars, NEW n \in Snapshot, Taken(n)
               PROVE  /\ snaps'[n].hash = snaps[n].hash
                      /\ snaps'[n].result.data = snaps[n].hash.data
    OBVIOUS
  <2>1. SnapshotsStay
    BY StepHolds
  <2> QED
    BY <2>1 DEF SnapshotsStay, ScoreInvariant, TablesAreWhole, Taken
<1> QED
  BY <1>1, ScoreInvariantHolds, PTL DEF Spec, InputsAreFrozen
-----------------------------------------------------------------------------
(* What holds of serial requests: nothing changes between the check and    *)
(* the commit, so the rows a commit finds are the rows that were checked.  *)

SnapshotColumns ==
  {"status", "author", "approver", "scheme", "provisional", "hash", "result", "supersedes"}

(* A snapshot of a signed scheme is what its hash certifies, and nothing   *)
(* changes the bands of a signed scheme.                                   *)
SoundSnapshot(row) ==
  /\ DOMAIN row = SnapshotColumns
  /\ row.status \in {"absent", "draft", "approved", "superseded"}
  /\ row.status \in {"absent", "draft"} => row.supersedes = 0
  /\ row.status # "absent" =>
       /\ row.scheme \in Scheme
       /\ ~row.provisional =>
            /\ schemes[row.scheme].status \in {"approved", "retired"}
            /\ row.hash = [data |-> row.result.data, bands |-> row.result.bands]
            /\ row.hash.bands = schemes[row.scheme].bands

(* Of every request, what it has found.                                    *)
Found(r) ==
  /\ r.step = "update" => r.on \in Scheme /\ schemes[r.on].status = "draft"
  /\ r.step = "scheme" =>
       /\ r.op \in DOMAIN SCHEME_FLOW
       /\ r.on \in Scheme
       /\ Permits(SCHEME_FLOW, r.op, schemes[r.on].status, TRUE)
       /\ r.op = "approve" => r.user # Nobody /\ schemes[r.on].bands \in SoundBands
  /\ r.step = "create" =>
       /\ PeriodAccepts
       /\ r.row.status = "draft" /\ r.row.supersedes = 0
       /\ SoundSnapshot(r.row)
  /\ r.step = "override" =>
       /\ r.on \in Snapshot
       /\ snaps[r.on].status = "draft"
       /\ r.result.data = snaps[r.on].hash.data
       /\ r.result.bands = schemes[snaps[r.on].scheme].bands
  /\ r.step = "approve" =>
       /\ PeriodAccepts
       /\ r.on \in Snapshot
       /\ snaps[r.on].status = "draft"
       /\ Signable(snaps[r.on].result)
       /\ ~snaps[r.on].provisional
       /\ r.user \in User \ {snaps[r.on].author}
       /\ r.previous = Approved

SchemesAreSound ==
  \A s \in Scheme : schemes[s].status \in {"approved", "retired"} =>
    schemes[s].bands \in SoundBands /\ schemes[s].signer # Nobody

SnapshotsAreSound == \A n \in Snapshot : SoundSnapshot(snaps[n])

(* One snapshot is approved; those superseded are those that are named as  *)
(* the predecessor of one, and of one only.                                *)
SnapshotsAreChained ==
  /\ \A m, n \in Approved : m = n
  /\ \A n \in Snapshot :
       snaps[n].status = "superseded" <=> \E m \in Snapshot : snaps[m].supersedes = n
  /\ \A m, n \in Snapshot : snaps[m].supersedes = snaps[n].supersedes =>
       m = n \/ snaps[m].supersedes = 0

RowsAreSound == SchemesAreSound /\ SnapshotsAreSound /\ SnapshotsAreChained

(* The inductive invariant of serial requests.                             *)
SerialInvariant == Serial => RowsAreSound /\ \A w \in Worker : Found(req[w])

LEMMA BeginIsSerial ==
  ASSUME ScoreInvariant, SerialInvariant, NEW w \in Worker, NEW r, Begin(w, r), r.step # "off",
         Serial => Found(r), UNCHANGED <<locked, rows>>
  PROVE  SerialInvariant' /\ (Serial' <=> Serial)
<1>1. \A v \in Worker : req'[v] = req[v] \/ req'[v] = r
  BY DEF ScoreInvariant, TablesAreWhole, Begin
<1>2. Serial' <=> Serial
  BY SerialStays DEF ScoreInvariant, TablesAreWhole, Begin
<1>3. RowsAreSound => RowsAreSound'
  BY DEF RowsAreSound, SchemesAreSound, SnapshotsAreSound, SnapshotsAreChained, SoundSnapshot,
         Approved, rows
<1>4. \A q : Found(q) => Found(q)'
  <2>1. PeriodAccepts' <=> PeriodAccepts
    BY DEF PeriodAccepts, IsOpen, Containing
  <2>2. Approved' = Approved
    BY DEF Approved, rows
  <2>3. schemes' = schemes /\ snaps' = snaps
    BY DEF rows
  <2>4. ASSUME NEW q, Found(q) PROVE Found(q)'
    BY <2>1, <2>2, <2>3, <2>4 DEF Found, SoundSnapshot
  <2> QED
    BY <2>4
<1>5. Serial => \A v \in Worker : Found(req'[v])
  BY <1>1 DEF SerialInvariant
<1>6. Serial => \A v \in Worker : Found(req[v])'
  BY <1>4, <1>5
<1> QED
  BY <1>2, <1>3, <1>6 DEF SerialInvariant

LEMMA NoneIsFound == ASSUME NEW q, q.step \in {"idle", "off"} PROVE Found(q)
BY DEF Found

(* The only request in flight finishes.                                    *)
LEMMA FinishIsSerial ==
  ASSUME RequestsAssumption, ScoreInvariant, NEW w \in Worker, Finish(w), InFlight(w),
         Serial => RowsAreSound'
  PROVE  SerialInvariant' /\ (Serial' <=> Serial)
<1>1. /\ Serial' <=> Serial
      /\ Serial => \A v \in Worker : req'[v].step \in {"idle", "off"}
  BY SerialFinishes DEF ScoreInvariant, TablesAreWhole
<1>2. Serial => \A v \in Worker : Found(req[v])'
  BY <1>1 DEF Found
<1> QED
  BY <1>1, <1>2 DEF SerialInvariant

(* A step between the requests.                                            *)
LEMMA FreeIsSerial ==
  ASSUME RequestsAssumption, ScoreInvariant, Free, UNCHANGED req, Serial => RowsAreSound'
  PROVE  SerialInvariant' /\ (Serial' <=> Serial)
<1>1. Serial' <=> Serial
  BY DEF Serial
<1>2. Serial => \A v \in Worker : req'[v].step \in {"idle", "off"}
  BY SerialIsAlone DEF InFlight
<1>3. Serial => \A v \in Worker : Found(req[v])'
  BY <1>2 DEF Found
<1> QED
  BY <1>1, <1>3 DEF SerialInvariant

LEMMA SerialInit == ASSUME ScorecardAssumption, Init PROVE SerialInvariant
<1>1. \A w \in Worker : req[w].step \in {"idle", "off"}
  BY DEF Init, RequestsInit, Idle, Off
<1>2. RowsAreSound
  BY DEF Init, NoScheme, NoSnapshot, RowsAreSound, SchemesAreSound, SnapshotsAreSound, SoundSnapshot, SnapshotColumns,
         SnapshotsAreChained, Approved, Snapshot
<1> QED
  BY <1>1, <1>2, NoneIsFound DEF SerialInvariant

LEMMA BeginsAreSerial ==
  ASSUME ScorecardAssumption, ScoreInvariant, SerialInvariant, NEW w \in Worker,
         \/ \E u \in User, s \in Scheme, b \in Bands : BeginUpdateScheme(w, u, s, b)
         \/ \E u \in User, s \in Scheme, name \in DOMAIN SCHEME_FLOW, reasoned \in BOOLEAN :
              BeginTransitionScheme(w, u, s, name, reasoned)
         \/ \E u \in User, s \in Scheme : BeginCreateSnapshot(w, u, s)
         \/ \E u \in User, n \in Snapshot, set \in BOOLEAN : BeginOverride(w, u, n, set)
         \/ \E u \in User, n \in Snapshot : BeginApprove(w, u, n)
  PROVE  SerialInvariant' /\ (Serial' <=> Serial)
<1>1. ASSUME NEW u \in User, NEW s \in Scheme, NEW b \in Bands, BeginUpdateScheme(w, u, s, b)
      PROVE  SerialInvariant' /\ (Serial' <=> Serial)
  <2> DEFINE r == [step |-> "update", on |-> s, bands |-> b, loaded |-> schemes[s].bands]
  <2>1. Found(r)
    BY <1>1 DEF BeginUpdateScheme, Editable, Found
  <2>2. Begin(w, r) /\ r.step # "off"
    BY <1>1 DEF BeginUpdateScheme
  <2> QED
    BY <1>1, <2>1, <2>2, BeginIsSerial DEF BeginUpdateScheme
<1>2. ASSUME NEW u \in User, NEW s \in Scheme, NEW name \in DOMAIN SCHEME_FLOW,
             NEW reasoned \in BOOLEAN, BeginTransitionScheme(w, u, s, name, reasoned)
      PROVE  SerialInvariant' /\ (Serial' <=> Serial)
  <2> DEFINE r == [step |-> "scheme", op |-> name, user |-> u, on |-> s]
  <2>1. Found(r)
    BY <1>2 DEF BeginTransitionScheme, SignableScheme, Permits, Found, ScorecardAssumption
  <2>2. Begin(w, r) /\ r.step # "off"
    BY <1>2 DEF BeginTransitionScheme
  <2> QED
    BY <1>2, <2>1, <2>2, BeginIsSerial DEF BeginTransitionScheme
<1>3. ASSUME NEW u \in User, NEW s \in Scheme, BeginCreateSnapshot(w, u, s)
      PROVE  SerialInvariant' /\ (Serial' <=> Serial)
  <2> DEFINE r == [step |-> "create", row |-> TakenSnapshot(u, s)]
  <2>1. SoundSnapshot(TakenSnapshot(u, s))
    BY <1>3 DEF BeginCreateSnapshot, TakenSnapshot, Evaluated, IsProvisional, SoundSnapshot, SnapshotColumns
  <2>2. Found(r)
    BY <1>3, <2>1 DEF BeginCreateSnapshot, TakenSnapshot, Found
  <2>3. Begin(w, r) /\ r.step # "off"
    BY <1>3 DEF BeginCreateSnapshot
  <2> QED
    BY <1>3, <2>2, <2>3, BeginIsSerial DEF BeginCreateSnapshot
<1>4. ASSUME NEW u \in User, NEW n \in Snapshot, NEW set \in BOOLEAN, BeginOverride(w, u, n, set)
      PROVE  SerialInvariant' /\ (Serial' <=> Serial)
  <2> DEFINE r == [step |-> "override", on |-> n, result |-> Reevaluated(n, set)]
  <2>1. Found(r)
    BY <1>4 DEF BeginOverride, MayOverride, Reevaluated, Found, ScoreInvariant, TablesAreWhole
  <2>2. Begin(w, r) /\ r.step # "off"
    BY <1>4 DEF BeginOverride
  <2> QED
    BY <1>4, <2>1, <2>2, BeginIsSerial DEF BeginOverride
<1>5. ASSUME NEW u \in User, NEW n \in Snapshot, BeginApprove(w, u, n)
      PROVE  SerialInvariant' /\ (Serial' <=> Serial)
  <2> DEFINE r == [step |-> "approve", user |-> u, on |-> n, previous |-> Previous]
  <2>1. snaps[n].status = "draft"
    BY <1>5 DEF BeginApprove, Permits, SNAPSHOT_FLOW, Transition
  <2>2. Found(r)
    BY <1>5, <2>1 DEF BeginApprove, NotOwnSnapshot, SignedScheme, NoScoreGap, Previous, Found
  <2>3. Begin(w, r) /\ r.step # "off"
    BY <1>5 DEF BeginApprove
  <2> QED
    BY <1>5, <2>2, <2>3, BeginIsSerial DEF BeginApprove
<1> QED
  BY <1>1, <1>2, <1>3, <1>4, <1>5

(* The bands of a signed scheme stay, and with them what the hashes of the *)
(* snapshots certify.                                                      *)
SignedSchemesStay ==
  \A s \in Scheme : schemes[s].status \in {"approved", "retired"} =>
    schemes'[s].status \in {"approved", "retired"} /\ schemes'[s].bands = schemes[s].bands

LEMMA SoundSnapshotsStay ==
  ASSUME SnapshotsAreSound, SignedSchemesStay, UNCHANGED snaps
  PROVE  SnapshotsAreSound'
BY DEF SnapshotsAreSound, SoundSnapshot, SignedSchemesStay

LEMMA SerialSchemeSteps ==
  ASSUME ScorecardAssumption, ScoreInvariant, RowsAreSound,
         \/ CreateScheme
         \/ \E w \in Worker :
              Found(req[w]) /\ (CommitUpdateScheme(w) \/ CommitTransitionScheme(w))
  PROVE  RowsAreSound'
<1>1. CASE CreateScheme
  <2>1. PICK u \in Manager, s \in Scheme :
          /\ ~Drafted(s)
          /\ \E b \in SoundBands \cup {schemes[t].bands : t \in {x \in Scheme : Drafted(x)}} :
               schemes' = [schemes EXCEPT ![s] =
                 [status |-> "draft", bands |-> b, author |-> u, signer |-> Nobody]]
    BY <1>1 DEF CreateScheme
  <2>2. /\ schemes'[s].status = "draft" /\ schemes[s].status = "absent"
        /\ \A t \in Scheme : t # s => schemes'[t] = schemes[t]
    BY <2>1 DEF ScoreInvariant, TablesAreWhole, Drafted
  <2>3. SchemesAreSound' /\ SignedSchemesStay /\ UNCHANGED snaps
    BY <1>1, <2>2 DEF CreateScheme, RowsAreSound, SchemesAreSound, SignedSchemesStay
  <2> QED
    BY <2>3, SoundSnapshotsStay DEF RowsAreSound, SnapshotsAreChained, Approved
<1>2. ASSUME NEW w \in Worker, Found(req[w]), CommitUpdateScheme(w) PROVE RowsAreSound'
  <2>1. req[w].on \in Scheme /\ schemes[req[w].on].status = "draft"
    BY <1>2 DEF CommitUpdateScheme, Found
  <2>2. /\ schemes'[req[w].on].status = "draft"
        /\ \A t \in Scheme : t # req[w].on => schemes'[t] = schemes[t]
    BY <1>2, <2>1 DEF CommitUpdateScheme, ScoreInvariant, TablesAreWhole
  <2>3. SchemesAreSound' /\ SignedSchemesStay /\ UNCHANGED snaps
    BY <1>2, <2>1, <2>2 DEF CommitUpdateScheme, RowsAreSound, SchemesAreSound, SignedSchemesStay
  <2> QED
    BY <2>3, SoundSnapshotsStay DEF RowsAreSound, SnapshotsAreChained, Approved
<1>3. ASSUME NEW w \in Worker, Found(req[w]), CommitTransitionScheme(w) PROVE RowsAreSound'
  <2> DEFINE r == req[w]
             row == schemes[r.on]
  <2>1. /\ r.on \in Scheme /\ r.op \in DOMAIN SCHEME_FLOW
        /\ Permits(SCHEME_FLOW, r.op, row.status, TRUE)
        /\ r.op = "approve" => r.user # Nobody /\ row.bands \in SoundBands
    BY <1>3 DEF CommitTransitionScheme, Found
  <2>2. /\ schemes'[r.on] = [status |-> TargetOf(SCHEME_FLOW, r.op), bands |-> row.bands,
                             author |-> row.author,
                             signer |-> IF r.op = "approve" THEN r.user ELSE row.signer]
        /\ \A t \in Scheme : t # r.on => schemes'[t] = schemes[t]
        /\ UNCHANGED snaps
    BY <1>3, <2>1 DEF CommitTransitionScheme, ScoreInvariant, TablesAreWhole
  <2> HIDE DEF r, row
  <2>3. \/ r.op = "approve" /\ row.status = "draft" /\ TargetOf(SCHEME_FLOW, r.op) = "approved"
        \/ r.op = "retire" /\ row.status = "approved" /\ TargetOf(SCHEME_FLOW, r.op) = "retired"
    BY <2>1 DEF Permits, TargetOf, SCHEME_FLOW, Transition, ReasonedTransition
  <2>4. SchemesAreSound' /\ SignedSchemesStay
    BY <2>1, <2>2, <2>3 DEF RowsAreSound, SchemesAreSound, SignedSchemesStay, row
  <2> QED
    BY <2>2, <2>4, SoundSnapshotsStay DEF RowsAreSound, SnapshotsAreChained, Approved
<1> QED
  BY <1>1, <1>2, <1>3

LEMMA SerialCreate ==
  ASSUME ScoreInvariant, RowsAreSound, NEW w \in Worker, Found(req[w]), CommitCreateSnapshot(w)
  PROVE  RowsAreSound'
<1> DEFINE row == req[w].row
<1>1. PICK n \in Snapshot : ~Taken(n) /\ snaps' = [snaps EXCEPT ![n] = row]
  BY DEF CommitCreateSnapshot
<1>2. row.status = "draft" /\ row.supersedes = 0 /\ SoundSnapshot(row)
  BY DEF CommitCreateSnapshot, Found
<1> HIDE DEF row
<1>3. /\ snaps'[n] = row /\ UNCHANGED schemes
      /\ \A m \in Snapshot : m # n => snaps'[m] = snaps[m]
  BY <1>1 DEF CommitCreateSnapshot, ScoreInvariant, TablesAreWhole
<1>4. snaps[n].status = "absent" /\ snaps[n].supersedes = 0
  BY <1>1 DEF Taken, RowsAreSound, SnapshotsAreSound, SoundSnapshot
<1>5. SnapshotsAreSound'
  BY <1>2, <1>3 DEF RowsAreSound, SnapshotsAreSound, SoundSnapshot
<1>6. 0 \notin Snapshot
  BY DEF Snapshot
<1>7. SnapshotsAreChained'
  BY <1>2, <1>3, <1>4, <1>6 DEF RowsAreSound, SnapshotsAreChained, Approved
<1> QED
  BY <1>3, <1>5, <1>7 DEF RowsAreSound, SchemesAreSound

LEMMA SerialOverride ==
  ASSUME ScoreInvariant, RowsAreSound, NEW w \in Worker, Found(req[w]), CommitOverride(w)
  PROVE  RowsAreSound'
<1> DEFINE r == req[w]
           row == snaps[r.on]
           new == snaps'[r.on]
<1>1. /\ r.on \in Snapshot /\ row.status = "draft"
      /\ r.result.data = row.hash.data /\ r.result.bands = schemes[row.scheme].bands
  BY DEF CommitOverride, Found
<1>2. /\ new.status = row.status /\ new.scheme = row.scheme /\ new.provisional = row.provisional
      /\ new.hash = row.hash /\ new.supersedes = row.supersedes /\ new.result = r.result
      /\ DOMAIN new = DOMAIN row
      /\ \A m \in Snapshot : m # r.on => snaps'[m] = snaps[m]
      /\ UNCHANGED schemes
  BY <1>1 DEF CommitOverride, ScoreInvariant, TablesAreWhole
<1> HIDE DEF r, row, new
<1>3. SoundSnapshot(row)
  BY <1>1 DEF RowsAreSound, SnapshotsAreSound, row
<1>4. SoundSnapshot(new)
  BY <1>1, <1>2, <1>3 DEF SoundSnapshot
<1>5. SnapshotsAreSound'
  BY <1>2, <1>4 DEF RowsAreSound, SnapshotsAreSound, SoundSnapshot, new
<1>6. \A m \in Snapshot : /\ snaps'[m].status = snaps[m].status
                          /\ snaps'[m].supersedes = snaps[m].supersedes
  BY <1>2 DEF new, row
<1>7. SnapshotsAreChained'
  BY <1>6 DEF RowsAreSound, SnapshotsAreChained, Approved
<1> QED
  BY <1>2, <1>5, <1>7 DEF RowsAreSound, SchemesAreSound

(* An approval of a draft supersedes the approved snapshot, if there is    *)
(* one.                                                                    *)
LEMMA ApproveLeaves ==
  ASSUME ScoreInvariant, RowsAreSound, NEW w \in Worker, Found(req[w]), CommitApprove(w)
  PROVE  LET a == req[w].on
             previous == req[w].previous
         IN /\ UNCHANGED schemes
            /\ a \in Snapshot \ previous
            /\ snaps[a].status = "draft"
            /\ snaps'[a].status = "approved"
            /\ snaps'[a].approver = req[w].user
            /\ snaps'[a].author = snaps[a].author
            /\ snaps'[a].scheme = snaps[a].scheme
            /\ snaps'[a].provisional = snaps[a].provisional
            /\ snaps'[a].hash = snaps[a].hash
            /\ snaps'[a].result = snaps[a].result
            /\ IF previous = {} THEN snaps'[a].supersedes = 0 ELSE snaps'[a].supersedes \in previous
            /\ \A m \in Snapshot : DOMAIN snaps'[m] = SnapshotColumns
            /\ \A m \in previous :
                 /\ snaps'[m].status = "superseded"
                 /\ snaps'[m].approver = snaps[m].approver
                 /\ snaps'[m].author = snaps[m].author
                 /\ snaps'[m].scheme = snaps[m].scheme
                 /\ snaps'[m].provisional = snaps[m].provisional
                 /\ snaps'[m].hash = snaps[m].hash
                 /\ snaps'[m].result = snaps[m].result
                 /\ snaps'[m].supersedes = snaps[m].supersedes
            /\ \A m \in Snapshot : m # a /\ m \notin previous => snaps'[m] = snaps[m]
<1> DEFINE r == req[w]
           a == r.on
<1>1. PICK old \in Superseding(r, snaps[a]) :
        snaps' = [m \in Snapshot |->
          IF m = a THEN AsApproved(snaps[a], r.user, old)
          ELSE IF m \in r.previous
          THEN [snaps[m] EXCEPT !.status = TargetOf(SNAPSHOT_FLOW, "supersede")]
          ELSE snaps[m]]
  BY DEF CommitApprove
<1>2. /\ a \in Snapshot /\ snaps[a].status = "draft" /\ r.previous = Approved
      /\ UNCHANGED schemes
  BY DEF CommitApprove, Found
<1> HIDE DEF r, a
<1>3. r.previous \subseteq Snapshot /\ a \notin r.previous
  BY <1>2 DEF Approved
<1>4. snaps[a].supersedes = 0
  BY <1>2 DEF RowsAreSound, SnapshotsAreSound, SoundSnapshot
<1>5. IF r.previous = {} THEN old = 0 ELSE old \in r.previous
  BY <1>1, <1>4 DEF Superseding
<1>6. snaps'[a] = AsApproved(snaps[a], r.user, old)
  BY <1>1, <1>2
<1>7. \A m \in r.previous :
        snaps'[m] = [snaps[m] EXCEPT !.status = TargetOf(SNAPSHOT_FLOW, "supersede")]
  BY <1>1, <1>3
<1>8. \A m \in Snapshot : m # a /\ m \notin r.previous => snaps'[m] = snaps[m]
  BY <1>1
<1>9. \A m \in Snapshot : DOMAIN snaps[m] = SnapshotColumns
  BY DEF RowsAreSound, SnapshotsAreSound, SoundSnapshot
<1>10. \A m \in r.previous :
        /\ snaps'[m].status = "superseded"
        /\ snaps'[m].approver = snaps[m].approver
        /\ snaps'[m].author = snaps[m].author
        /\ snaps'[m].scheme = snaps[m].scheme
        /\ snaps'[m].provisional = snaps[m].provisional
        /\ snaps'[m].hash = snaps[m].hash
        /\ snaps'[m].result = snaps[m].result
        /\ snaps'[m].supersedes = snaps[m].supersedes
  <2>1. TargetOf(SNAPSHOT_FLOW, "supersede") = "superseded"
    BY DEF TargetOf, SNAPSHOT_FLOW, Transition
  <2> SUFFICES ASSUME NEW m \in r.previous
               PROVE  /\ snaps'[m].status = "superseded"
                      /\ snaps'[m].approver = snaps[m].approver
                      /\ snaps'[m].author = snaps[m].author
                      /\ snaps'[m].scheme = snaps[m].scheme
                      /\ snaps'[m].provisional = snaps[m].provisional
                      /\ snaps'[m].hash = snaps[m].hash
                      /\ snaps'[m].result = snaps[m].result
                      /\ snaps'[m].supersedes = snaps[m].supersedes
    OBVIOUS
  <2>2. DOMAIN snaps[m] = SnapshotColumns /\ snaps'[m] = [snaps[m] EXCEPT !.status = "superseded"]
    BY <1>3, <1>7, <1>9, <2>1
  <2> QED
    BY <2>2 DEF SnapshotColumns
<1>11. /\ snaps'[a].status = "approved"
       /\ snaps'[a].approver = r.user
       /\ snaps'[a].author = snaps[a].author
       /\ snaps'[a].scheme = snaps[a].scheme
       /\ snaps'[a].provisional = snaps[a].provisional
       /\ snaps'[a].hash = snaps[a].hash
       /\ snaps'[a].result = snaps[a].result
       /\ snaps'[a].supersedes = old
  BY <1>6 DEF AsApproved, TargetOf, SNAPSHOT_FLOW, Transition
<1>12. \A m \in Snapshot : DOMAIN snaps'[m] = SnapshotColumns
  <2>1. DOMAIN snaps'[a] = SnapshotColumns
    BY <1>6 DEF AsApproved, SnapshotColumns
  <2>2. \A m \in r.previous : DOMAIN snaps'[m] = DOMAIN snaps[m]
    BY <1>7
  <2> QED
    BY <1>2, <1>3, <1>8, <1>9, <2>1, <2>2
<1> QED
  BY <1>2, <1>3, <1>5, <1>8, <1>10, <1>11, <1>12 DEF r, a

LEMMA SerialApprove ==
  ASSUME ScoreInvariant, RowsAreSound, NEW w \in Worker, Found(req[w]), CommitApprove(w)
  PROVE  RowsAreSound'
<1> DEFINE a == req[w].on
           previous == req[w].previous
<1>1. previous = Approved /\ a \in Snapshot
  BY DEF CommitApprove, Found
<1>2. 0 \notin Snapshot
  BY DEF Snapshot
<1>3. /\ UNCHANGED schemes
      /\ snaps[a].status = "draft" /\ snaps'[a].status = "approved"
      /\ IF previous = {} THEN snaps'[a].supersedes = 0 ELSE snaps'[a].supersedes \in previous
  BY ApproveLeaves
<1>4. \A m \in Snapshot \ {a} :
        /\ snaps'[m].status = IF m \in previous THEN "superseded" ELSE snaps[m].status
        /\ snaps'[m].supersedes = snaps[m].supersedes
  BY ApproveLeaves
<1>5. \A m \in Snapshot :
        /\ snaps'[m].scheme = snaps[m].scheme
        /\ snaps'[m].provisional = snaps[m].provisional
        /\ snaps'[m].hash = snaps[m].hash
        /\ snaps'[m].result = snaps[m].result
        /\ DOMAIN snaps'[m] = SnapshotColumns
  BY ApproveLeaves
<1>6. \A m \in previous : snaps[m].status = "approved"
  BY <1>1 DEF Approved
<1>7. snaps[a].supersedes = 0
  BY <1>1, <1>3 DEF RowsAreSound, SnapshotsAreSound, SoundSnapshot
<1> HIDE DEF a, previous
<1>8. ASSUME NEW m \in Snapshot PROVE SoundSnapshot(snaps[m])'
  <2>1. SoundSnapshot(snaps[m])
    BY DEF RowsAreSound, SnapshotsAreSound
  <2>2. CASE m = a
    BY <1>3, <1>5, <2>1, <2>2 DEF SoundSnapshot
  <2>3. CASE m # a
    BY <1>3, <1>4, <1>5, <1>6, <2>1, <2>3 DEF SoundSnapshot
  <2> QED
    BY <2>2, <2>3
<1>9. \A m, n \in Approved' : m = n
  BY <1>1, <1>4 DEF Approved
<1>10. \A n \in Snapshot :
         snaps'[n].status = "superseded" <=> \E m \in Snapshot : snaps'[m].supersedes = n
  BY <1>1, <1>2, <1>3, <1>4, <1>6, <1>7 DEF RowsAreSound, SnapshotsAreChained
<1>11. \A m, n \in Snapshot : snaps'[m].supersedes = snaps'[n].supersedes =>
         m = n \/ snaps'[m].supersedes = 0
  BY <1>1, <1>2, <1>3, <1>4, <1>6, <1>7 DEF RowsAreSound, SnapshotsAreChained, Approved
<1> QED
  BY <1>3, <1>8, <1>9, <1>10, <1>11
     DEF RowsAreSound, SchemesAreSound, SnapshotsAreSound, SnapshotsAreChained

(* Of serial requests, every step keeps the rows sound.                    *)
LEMMA SerialStep ==
  ASSUME ScorecardAssumption, RequestsAssumption, ScoreInvariant, SerialInvariant, [Next]_vars
  PROVE  SerialInvariant' /\ (Serial' <=> Serial)
<1>1. CASE UNCHANGED vars
  <2>1. RowsAreSound => RowsAreSound'
    BY <1>1 DEF vars, rows, RowsAreSound, SchemesAreSound, SnapshotsAreSound, SnapshotsAreChained,
                SoundSnapshot, Approved
  <2>2. PeriodAccepts' <=> PeriodAccepts
    BY <1>1 DEF vars, PeriodAccepts, IsOpen, Containing
  <2>3. ASSUME NEW w \in Worker, Found(req[w]) PROVE Found(req[w])'
    BY <1>1, <2>2, <2>3 DEF vars, rows, Found, SoundSnapshot, Approved
  <2>4. Serial' <=> Serial
    BY <1>1 DEF vars, Serial
  <2> QED
    BY <2>1, <2>3, <2>4 DEF SerialInvariant
<1>2. CASE DataChanges \/ LockOrReopenPeriod \/ CreateScheme
  <2>1. Serial => RowsAreSound'
    <3>1. CASE CreateScheme
      BY <3>1, SerialSchemeSteps DEF SerialInvariant
    <3>2. CASE DataChanges \/ LockOrReopenPeriod
      BY <3>2 DEF DataChanges, LockOrReopenPeriod, rows, SerialInvariant, RowsAreSound,
                  SchemesAreSound, SnapshotsAreSound, SnapshotsAreChained, SoundSnapshot, Approved
    <3> QED
      BY <1>2, <3>1, <3>2
  <2> QED
    BY <1>2, <2>1, FreeIsSerial DEF DataChanges, LockOrReopenPeriod, CreateScheme
<1>3. ASSUME NEW w \in Worker, CommitUpdateScheme(w) \/ CommitTransitionScheme(w)
      PROVE  SerialInvariant' /\ (Serial' <=> Serial)
  <2>1. Serial => RowsAreSound'
    BY <1>3, SerialSchemeSteps DEF SerialInvariant
  <2>2. Finish(w) /\ InFlight(w)
    BY <1>3 DEF CommitUpdateScheme, CommitTransitionScheme, InFlight
  <2> QED
    BY <2>1, <2>2, FinishIsSerial
<1>4. ASSUME NEW w \in Worker, CommitCreateSnapshot(w) \/ CommitOverride(w) \/ CommitApprove(w)
      PROVE  SerialInvariant' /\ (Serial' <=> Serial)
  <2>1. Serial => RowsAreSound'
    BY <1>4, SerialCreate, SerialOverride, SerialApprove DEF SerialInvariant
  <2>2. Finish(w) /\ InFlight(w)
    BY <1>4 DEF CommitCreateSnapshot, CommitOverride, CommitApprove, InFlight
  <2> QED
    BY <2>1, <2>2, FinishIsSerial
<1>5. ASSUME NEW w \in Worker, Abort(w) PROVE SerialInvariant' /\ (Serial' <=> Serial)
  <2>1. Serial => RowsAreSound'
    BY <1>5 DEF Abort, rows, SerialInvariant, RowsAreSound, SchemesAreSound, SnapshotsAreSound,
                SnapshotsAreChained, SoundSnapshot, Approved
  <2> QED
    BY <1>5, <2>1, FinishIsSerial DEF Abort
<1> QED
  BY <1>1, <1>2, <1>3, <1>4, <1>5, BeginsAreSerial DEF Next

(* Of serial requests: the invariant above.                                *)
THEOREM SerialInvariantHolds == Spec => [](ScoreInvariant /\ SerialInvariant)
<1>1. Init => ScoreInvariant /\ SerialInvariant
  BY InitHolds, SerialInit, ScorecardAssumption
<1>2. ScoreInvariant /\ SerialInvariant /\ [Next]_vars => (ScoreInvariant /\ SerialInvariant)'
  BY StepHolds, SerialStep, ScorecardAssumption, RequestsAssumption
<1> QED
  BY <1>1, <1>2, PTL DEF Spec

(* Of serial requests there is one score in force for a plan, period and   *)
(* unit, it is what was certified under a scheme somebody signed off, and  *)
(* the scores before it form a chain (approve_snapshot).                   *)
THEOREM OneScoreIsInForce == Spec => []OneScoreInForce
<1>1. ASSUME ScoreInvariant, SerialInvariant PROVE SupersessionIsAChain
  <2> SUFFICES ASSUME Serial, SnapshotsAreChained
               PROVE  /\ Cardinality(Approved) <= 1
                      /\ \A n \in Snapshot :
                           snaps[n].status = "superseded" => Cardinality(SupersededBy(n)) = 1
                      /\ \A n \in Approved : SupersededBy(n) = {}
    BY <1>1 DEF SupersessionIsAChain, SerialInvariant, RowsAreSound
  <2>1. Cardinality(Approved) <= 1
    BY AtMostOne DEF SnapshotsAreChained
  <2>2. ASSUME NEW n \in Snapshot, snaps[n].status = "superseded"
        PROVE  Cardinality(SupersededBy(n)) = 1
    <3>1. n # 0
      BY DEF Snapshot
    <3>2. PICK m \in Snapshot : SupersededBy(n) = {m}
      BY <2>2, <3>1 DEF SupersededBy, SnapshotsAreChained
    <3> QED
      BY <3>2, FS_Singleton
  <2>3. \A n \in Approved : SupersededBy(n) = {}
    BY DEF SupersededBy, SnapshotsAreChained, Approved
  <2> QED
    BY <2>1, <2>2, <2>3
<1>2. ScoreInvariant /\ SerialInvariant => ApprovedIsCertified
  BY DEF ScoreInvariant, ProvisionalIsNotApproved, SerialInvariant, RowsAreSound, SchemesAreSound,
         SnapshotsAreSound, SoundSnapshot, ApprovedIsCertified, Decided
<1> QED
  BY <1>1, <1>2, SerialInvariantHolds, PTL DEF OneScoreInForce
-----------------------------------------------------------------------------
(* What a step does to one snapshot.                                       *)
SealMove(n) ==
  LET row == snaps[n]
      new == snaps'[n]
      Was(status) == row.status = status
      Is(status) == new.status = status
      Same == new.author = row.author /\ new.result = row.result
  IN \/ new = row
     \/ Was("absent") /\ Is("draft")
     \/ Was("draft") /\ Is("draft")
     \/ /\ Was("draft") /\ Is("approved") /\ Same
        /\ Signable(row.result) /\ new.approver \in User \ {row.author}
     \/ Was("approved") /\ Is("superseded") /\ Same /\ new.approver = row.approver

(* Of serial requests, only three steps change a snapshot, and a locked    *)
(* period stands in the way of two of them.                                *)
LEMMA SnapshotsMove ==
  ASSUME ScorecardAssumption, ScoreInvariant, SerialInvariant, Serial, [Next]_vars
  PROVE  /\ \A n \in Snapshot : SealMove(n)
         /\ ~PeriodAccepts => \A n \in Snapshot : snaps'[n].status = snaps[n].status
<1>1. CASE UNCHANGED snaps
  BY <1>1 DEF SealMove
<1>2. ASSUME NEW w \in Worker, CommitCreateSnapshot(w)
      PROVE  PeriodAccepts /\ \A n \in Snapshot : SealMove(n)
  <2> DEFINE row == req[w].row
  <2>1. PICK n \in Snapshot : ~Taken(n) /\ snaps' = [snaps EXCEPT ![n] = row]
    BY <1>2 DEF CommitCreateSnapshot
  <2>2. row.status = "draft" /\ PeriodAccepts
    BY <1>2 DEF SerialInvariant, CommitCreateSnapshot, Found
  <2> HIDE DEF row
  <2>3. /\ snaps'[n].status = "draft" /\ snaps[n].status = "absent"
        /\ \A m \in Snapshot : m # n => snaps'[m] = snaps[m]
    BY <2>1, <2>2 DEF ScoreInvariant, TablesAreWhole, Taken
  <2> QED
    BY <2>2, <2>3 DEF SealMove
<1>3. ASSUME NEW w \in Worker, CommitOverride(w)
      PROVE  \A n \in Snapshot : SealMove(n) /\ snaps'[n].status = snaps[n].status
  <2> DEFINE a == req[w].on
  <2>1. a \in Snapshot /\ snaps[a].status = "draft"
    BY <1>3 DEF SerialInvariant, CommitOverride, Found
  <2>2. /\ snaps'[a].status = snaps[a].status
        /\ \A m \in Snapshot : m # a => snaps'[m] = snaps[m]
    BY <1>3, <2>1 DEF CommitOverride, ScoreInvariant, TablesAreWhole
  <2> QED
    BY <2>1, <2>2 DEF SealMove
<1>4. ASSUME NEW w \in Worker, CommitApprove(w)
      PROVE  PeriodAccepts /\ \A n \in Snapshot : SealMove(n)
  <2>1. /\ PeriodAccepts /\ req[w].previous = Approved
        /\ Signable(snaps[req[w].on].result)
        /\ req[w].user \in User \ {snaps[req[w].on].author}
    BY <1>4 DEF SerialInvariant, CommitApprove, Found
  <2>2. RowsAreSound /\ Found(req[w])
    BY DEF SerialInvariant
  <2>3. SealMove(req[w].on)
    BY <1>4, <2>1, <2>2, ApproveLeaves DEF SealMove
  <2>4. \A m \in req[w].previous : SealMove(m)
    BY <1>4, <2>1, <2>2, ApproveLeaves DEF SealMove, Approved
  <2>5. \A m \in Snapshot : m # req[w].on /\ m \notin req[w].previous => SealMove(m)
    BY <1>4, <2>2, ApproveLeaves DEF SealMove
  <2> QED
    BY <2>1, <2>3, <2>4, <2>5
<1> QED
  BY <1>1, <1>2, <1>3, <1>4
     DEF Next, vars, rows, DataChanges, LockOrReopenPeriod, CreateScheme, BeginUpdateScheme,
         CommitUpdateScheme, BeginTransitionScheme, CommitTransitionScheme, BeginCreateSnapshot,
         BeginOverride, BeginApprove, Abort

(* Of serial requests, a locked period takes no snapshot and approves      *)
(* none (create_snapshot, approve_snapshot).                               *)
THEOREM LocksFreezeApprovals == Spec => LockFreezesApprovals
<1>1. ScoreInvariant /\ SerialInvariant /\ [Next]_vars =>
        [Serial /\ Containing(ScorePeriod) \cap locked # {} =>
           \A n \in Snapshot : snaps'[n].status = snaps[n].status]_vars
  BY SnapshotsMove, ScorecardAssumption DEF PeriodAccepts, IsOpen
<1> QED
  BY <1>1, SerialInvariantHolds, PTL DEF Spec, LockFreezesApprovals

LEMMA SealMovesRefine ==
  ASSUME Serial' <=> Serial, Serial => \A n \in Snapshot : SealMove(n)
  PROVE  Governed!Next
<1> SUFFICES ASSUME NEW r \in Snapshot
             PROVE  \/ Governed!Absent(r) \/ Governed!Draft(r) \/ Governed!Edit(r)
                    \/ Governed!Seal(r) \/ Governed!Retire(r) \/ Governed!Rest(r)
  BY DEF Governed!Next
<1>1. CASE ~Serial
  BY <1>1 DEF Governed!Absent
<1>2. CASE Serial
  BY <1>2 DEF SealMove, SealState, Governed!Rest, Governed!Draft, Governed!Edit, Governed!Seal,
              Governed!Retire
<1> QED
  BY <1>1, <1>2

(* Of serial requests, snapshots implement sealed records: a result may be *)
(* overridden until somebody who did not take it approves it with a score  *)
(* that can be signed off, and never again.                                *)
THEOREM SnapshotsAreSealedRecords == Spec => ImplementsSealing
<1>1. Init => Governed!Init
  BY DEF Init, Governed!Init, NoSnapshot, SealState
<1>2. ScoreInvariant /\ SerialInvariant /\ [Next]_vars => [Governed!Next]_(Governed!vars)
  BY SerialStep, SnapshotsMove, SealMovesRefine, ScorecardAssumption, RequestsAssumption
<1> QED
  BY <1>1, <1>2, SerialInvariantHolds, PTL DEF Spec, ImplementsSealing, Governed!Spec
=============================================================================
