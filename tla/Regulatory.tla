----------------------------- MODULE Regulatory -----------------------------
(***************************************************************************)
(* Regulator packs, returns and league tables                              *)
(* (app/modules/regulatory/service.py), for one regulator and cycle.  A    *)
(* regulatory officer imports a pack as a draft, officers edit it, and     *)
(* another officer approves it when nothing blocks it, which retires the   *)
(* pack approved before.  A return is filled under an approved pack and    *)
(* submitted when every scored indicator has a value; a league table is    *)
(* calculated on an approved pack from a submitted return.                 *)
(*                                                                         *)
(* A request reads what its handler checks, and its write is committed     *)
(* later.  Everybody here is an officer: the duty guards every operation.  *)
(***************************************************************************)
EXTENDS Naturals, FiniteSets, Workflow, Requests

CONSTANTS
  User,
  Nobody,
  Nothing,         \* no value
  Return,
  Content,         \* contents of a pack
  Usable,          \* those engine.blockers finds nothing against
  Indicator,
  InScore,         \* which of the indicators a content scores
  Value,           \* values its validation rules accept
  MaxVersion,      \* bound on the versions of the pack
  MaxRun           \* bound on the league tables saved

ASSUME RegulatoryAssumption ==
  /\ Nobody \notin User
  /\ Nothing \notin Value \cup Content \cup Return
  /\ Usable \subseteq Content
  /\ InScore \in [Content -> SUBSET Indicator]
  /\ MaxVersion \in Nat
  /\ MaxRun \in Nat

VARIABLES
  packs,           \* regulator_packs; a row is known by its version
  editor,          \* who imported or last edited a pack, by the audit trail
  returns,         \* regulatory_returns
  values,          \* the latest return_values row of each indicator
  runs             \* league_table_runs

vars == <<packs, editor, returns, values, runs, req>>
-----------------------------------------------------------------------------
Version == 1..MaxVersion

NoPack == [status |-> "absent", importer |-> Nobody, content |-> Nothing, approver |-> Nobody]
NoReturn == [status |-> "absent", pack |-> 0, submitter |-> Nobody]

Imported == {p \in Version : packs[p].status # "absent"}
Sealed(p) == packs[p].status \in {"approved", "retired"}

(* The return's figures that its pack's score needs and that are missing.  *)
Missing(content, figures) == {i \in InScore[content] : figures[i] = Nothing}

Init ==
  /\ packs = [p \in Version |-> NoPack]
  /\ editor = [p \in Version |-> Nobody]
  /\ returns = [r \in Return |-> NoReturn]
  /\ values = [r \in Return |-> [i \in Indicator |-> Nothing]]
  /\ runs = {}
  /\ RequestsInit

Start(w, request) ==
  /\ Begin(w, request)
  /\ UNCHANGED <<packs, editor, returns, values, runs>>
-----------------------------------------------------------------------------
(* Packs.  Of two imports that take the same version the unique constraint *)
(* lets one commit, so an import is one step.                              *)
NextVersion == Cardinality(Imported) + 1

Import(u, content) ==
  /\ Free
  /\ LET p == NextVersion
     IN /\ p \in Version
        /\ packs' = [packs EXCEPT ![p] = [status |-> "draft", importer |-> u,
                                          content |-> content, approver |-> Nobody]]
        /\ editor' = [editor EXCEPT ![p] = u]
  /\ UNCHANGED <<returns, values, runs, req>>

(* "Only a draft pack can be ...": update_pack and approve_pack.           *)
IsDraft(p) == packs[p].status = "draft"

UpdatePack(w, u, p, content, reasoned) ==
  /\ IsDraft(p)
  /\ reasoned
  /\ Start(w, [step |-> "edit", by |-> u, pack |-> p, loaded |-> packs[p],
               new |-> Assign(packs[p], [content |-> content])])

Uninvolved(u, p) == u \notin {packs[p].importer, editor[p]}

Unblocked_Unchecked(p) == TRUE
Unblocked(p) == packs[p].content \in Usable

Replaced_Nothing(p) == {}
Replaced(p) == {o \in Version : packs[o].status = "approved"}

ApprovePack(w, u, p) ==
  /\ IsDraft(p)
  /\ Uninvolved(u, p)
  /\ Unblocked(p)
  /\ Start(w, [step |-> "approve", by |-> u, pack |-> p, loaded |-> packs[p],
               new |-> Assign(packs[p], [status |-> "approved", approver |-> u]),
               retires |-> Replaced(p)])

CommitPack(w) ==
  LET q == req[w]
  IN /\ \/ /\ q.step = "edit"
           /\ packs' = [packs EXCEPT ![q.pack] = Flush(q.loaded, q.new, @)]
           /\ editor' = [editor EXCEPT ![q.pack] = q.by]
        \/ /\ q.step = "approve"
           /\ packs' = [o \in Version |->
                IF o = q.pack THEN Flush(q.loaded, q.new, packs[o])
                ELSE IF o \in q.retires THEN [packs[o] EXCEPT !.status = "retired"]
                ELSE packs[o]]
           /\ UNCHANGED editor
     /\ Finish(w)
     /\ UNCHANGED <<returns, values, runs>>
-----------------------------------------------------------------------------
(* Returns.  _usable: only an approved pack.                               *)
PackIsUsable(p) == packs[p].status = "approved"

CreateReturn(r, p) ==
  /\ Free
  /\ PackIsUsable(p)
  /\ returns[r].status = "absent"
  /\ returns' = [returns EXCEPT ![r] = Assign(NoReturn, [status |-> "draft", pack |-> p])]
  /\ UNCHANGED <<packs, editor, values, runs, req>>

(* set_value for each figure of a request, committed together; prefill     *)
(* takes the figures from the catalogue and writes them the same way.      *)
MayBeFilled(r) == returns[r].status = "draft"

SetValues(w, r, figures) ==
  /\ MayBeFilled(r)
  /\ Start(w, [step |-> "figures", return |-> r, figures |-> figures])

CommitValues(w) ==
  LET q == req[w]
  IN /\ q.step = "figures"
     /\ values' = [values EXCEPT ![q.return] = Assign(@, q.figures)]
     /\ Finish(w)
     /\ UNCHANGED <<packs, editor, returns, runs>>

SubmitReturn(w, u, r) ==
  /\ returns[r].status = "draft"
  /\ Missing(packs[returns[r].pack].content, values[r]) = {}
  /\ Start(w, [step |-> "submit", return |-> r, loaded |-> returns[r],
               new |-> Assign(returns[r], [status |-> "submitted", submitter |-> u])])

CommitSubmit(w) ==
  LET q == req[w]
  IN /\ q.step = "submit"
     /\ returns' = [returns EXCEPT ![q.return] = Flush(q.loaded, q.new, @)]
     /\ Finish(w)
     /\ UNCHANGED <<packs, editor, values, runs>>
-----------------------------------------------------------------------------
(* A saved league table keeps the figures and the pack it was calculated   *)
(* from; without a return it compares the peers only.                      *)
Comparable_Drafts(r, p) == returns[r].pack = p
Comparable(r, p) == returns[r].status = "submitted" /\ returns[r].pack = p

Table(r, p) ==
  [pack |-> p, content |-> packs[p].content, return |-> r,
   own |-> IF r = Nothing THEN Nothing ELSE values[r]]

RunLeague(w, r, p) ==
  /\ Cardinality(runs) < MaxRun
  /\ PackIsUsable(p)
  /\ r # Nothing => Comparable(r, p)
  /\ Start(w, [step |-> "league", table |-> Table(r, p)])

CommitLeague(w) ==
  LET q == req[w]
  IN /\ q.step = "league"
     /\ runs' = runs \cup {q.table}
     /\ Finish(w)
     /\ UNCHANGED <<packs, editor, returns, values>>

Abort(w) ==
  /\ InFlight(w)
  /\ Finish(w)
  /\ UNCHANGED <<packs, editor, returns, values, runs>>
-----------------------------------------------------------------------------
Figures == UNION {[S -> Value \cup {Nothing}] : S \in SUBSET Indicator \ {{}}}

Next ==
  \/ \E u \in User, content \in Content : Import(u, content)
  \/ \E r \in Return, p \in Version : CreateReturn(r, p)
  \/ \E w \in Worker, u \in User, p \in Version :
       \/ \E content \in Content, reasoned \in BOOLEAN : UpdatePack(w, u, p, content, reasoned)
       \/ ApprovePack(w, u, p)
  \/ \E w \in Worker, r \in Return :
       \/ \E figures \in Figures : SetValues(w, r, figures)
       \/ \E u \in User : SubmitReturn(w, u, r)
  \/ \E w \in Worker, p \in Version, r \in Return \cup {Nothing} : RunLeague(w, r, p)
  \/ \E w \in Worker :
       CommitPack(w) \/ CommitValues(w) \/ CommitSubmit(w) \/ CommitLeague(w) \/ Abort(w)

Spec == Init /\ [][Next]_vars
-----------------------------------------------------------------------------
PackRow ==
  [status : {"absent", "draft", "approved", "retired"}, importer : User \cup {Nobody},
   content : Content \cup {Nothing}, approver : User \cup {Nobody}]

ReturnRow ==
  [status : {"absent", "draft", "submitted"}, pack : 0..MaxVersion,
   submitter : User \cup {Nobody}]

(* The rows have the types of their columns; every pack imported has a     *)
(* content and an editor, and the versions have no gap.                    *)
TypeOK ==
  /\ \A p \in Version : packs[p] \in PackRow
  /\ \E n \in 0..MaxVersion : Imported = 1..n
  /\ \A p \in Imported : packs[p].content # Nothing /\ editor[p] \in User
  /\ \A r \in Return : returns[r] \in ReturnRow
  /\ values \in [Return -> [Indicator -> Value \cup {Nothing}]]
  /\ \A t \in runs : t.pack \in Version /\ t.content \in Content
  /\ DOMAIN req = Worker

(* However the requests interleave:                                        *)

(* Every return, and every saved league table, is of a pack that was       *)
(* approved once; the return a table compares was submitted under that     *)
(* very pack, and stays so.                                                *)
ScoresNeedApproval ==
  /\ \A r \in Return : returns[r].status # "absent" => Sealed(returns[r].pack)
  /\ \A t \in runs :
       /\ Sealed(t.pack)
       /\ t.return \in Return => /\ returns[t.return].status = "submitted"
                                 /\ returns[t.return].pack = t.pack

(* Of serial requests only:                                                *)

(* At most one pack of a regulator and cycle is approved.                  *)
OneApproved ==
  Serial => Cardinality({p \in Version : packs[p].status = "approved"}) <= 1

(* A pack in force, or retired, has no blocker, and was approved by        *)
(* neither its importer nor its last editor.                               *)
SecondOfficer ==
  Serial => \A p \in Version : Sealed(p) =>
    /\ packs[p].content \in Usable
    /\ packs[p].approver \notin {Nobody, packs[p].importer, editor[p]}

(* A submitted return has a figure for everything its pack scores.         *)
SubmittedIsComplete ==
  Serial => \A r \in Return : returns[r].status = "submitted" =>
    \A i \in InScore[packs[returns[r].pack].content] : values[r][i] \in Value

(* A saved league table can be calculated again from the records it names: *)
(* the pack is still the one it was calculated with, and the return too.   *)
LeagueIsReproducible ==
  Serial => \A t \in runs :
    /\ t.content = packs[t.pack].content
    /\ t.return \in Return => t.own = values[t.return]

(* What a return reports and a table compares is vouched for: by one pack  *)
(* in force, approved by an officer who did not write it, every figure it   *)
(* scores given (approve_pack, submit_return, run_league).                 *)
ComparisonsAreVouchedFor == ScoresNeedApproval /\ OneApproved /\ SecondOfficer /\ SubmittedIsComplete

(* A pack is a sealed record, its author the officer who last edited it.   *)
PackState(row) ==
  CASE row.status = "absent" -> "none"
    [] row.status = "draft" -> "open"
    [] row.status = "approved" -> "sealed"
    [] row.status = "retired" -> "retired"

Governed == INSTANCE SealedRecord WITH
  Record <- Version, Actor <- User, Fit <- LAMBDA c : c \in Usable,
  state <- [p \in Version |-> IF Serial THEN PackState(packs[p]) ELSE "none"],
  author <- editor,
  content <- [p \in Version |-> packs[p].content],
  signer <- [p \in Version |-> packs[p].approver]

ImplementsSealing == Governed!Spec
=============================================================================
