-------------------------- MODULE Regulatory_proofs --------------------------
(***************************************************************************)
(* Proofs about Regulatory, for any officers, contents, returns, figures   *)
(* and number of workers: what a return reports and a league table         *)
(* compares is vouched for and can be calculated again, and packs          *)
(* implement sealed records.                                               *)
(***************************************************************************)
EXTENDS Regulatory, Requests_proofs

IsSealed(row) == row.status \in {"approved", "retired"}

(* What the two handlers of a pack make of the row they have loaded.       *)
Edited(row, text) ==
  [status |-> row.status, importer |-> row.importer, content |-> text, approver |-> row.approver]

SignedOff(row, u) ==
  [status |-> "approved", importer |-> row.importer, content |-> row.content, approver |-> u]

(* What the submission makes of a return.                                  *)
Submitted(row, u) == [status |-> "submitted", pack |-> row.pack, submitter |-> u]

(* What is true of a request in flight, whatever was committed since it    *)
(* has read its rows.                                                      *)
Underway(q, packTable, returnTable) ==
  /\ q.step \in {"idle", "off", "edit", "approve", "figures", "submit", "league"}
  /\ q.step = "edit" =>
       /\ q.pack \in Version /\ packTable[q.pack].status # "absent"
       /\ q.by \in User
       /\ q.loaded \in PackRow /\ q.loaded.status = "draft"
       /\ \E text \in Content : q.new = Edited(q.loaded, text)
  /\ q.step = "approve" =>
       /\ q.pack \in Version /\ packTable[q.pack].status # "absent"
       /\ q.by \in User
       /\ q.loaded \in PackRow /\ q.loaded.status = "draft"
       /\ q.new = SignedOff(q.loaded, q.by)
       /\ \A o \in q.retires : o \in Version /\ IsSealed(packTable[o])
  /\ q.step = "figures" => q.return \in Return /\ q.figures \in Figures
  /\ q.step = "submit" =>
       /\ q.return \in Return /\ returnTable[q.return].status # "absent"
       /\ q.loaded \in ReturnRow /\ q.loaded.status = "draft"
       /\ \E u \in User : q.new = Submitted(q.loaded, u)
  /\ q.step = "league" =>
       /\ q.table.pack \in Version /\ q.table.content \in Content
       /\ IsSealed(packTable[q.table.pack])
       /\ q.table.return \in Return =>
            /\ returnTable[q.table.return].status = "submitted"
            /\ returnTable[q.table.return].pack = q.table.pack

InFlightIsTrue ==
  /\ DOMAIN req = Worker
  /\ \A w \in Worker : Underway(req[w], packs, returns)

PacksAreWhole ==
  /\ DOMAIN packs = Version
  /\ DOMAIN editor = Version
  /\ \E n \in 0..MaxVersion : Imported = 1..n
  /\ \A p \in Version :
       /\ packs[p] \in PackRow
       /\ p \in Imported => packs[p].content \in Content /\ editor[p] \in User

ReturnsAreWhole ==
  /\ DOMAIN returns = Return
  /\ values \in [Return -> [Indicator -> Value \cup {Nothing}]]
  /\ \A r \in Return :
       /\ returns[r] \in ReturnRow
       /\ returns[r].status # "absent" => returns[r].pack \in Version
  /\ \A t \in runs : t.pack \in Version /\ t.content \in Content

(* The inductive invariant of requests that race.                          *)
RegulatoryInvariant ==
  /\ InFlightIsTrue
  /\ PacksAreWhole
  /\ ReturnsAreWhole
  /\ ScoresNeedApproval

(* Of serial requests, what a request has found is what its commit finds.  *)
Found(q) ==
  /\ q.step = "edit" => packs[q.pack].status = "draft"
  /\ q.step = "approve" =>
       /\ packs[q.pack].status = "draft" /\ packs[q.pack] = q.loaded
       /\ packs[q.pack].content \in Usable
       /\ q.by \notin {packs[q.pack].importer, editor[q.pack]}
       /\ q.retires = {o \in Version : packs[o].status = "approved"}
  /\ q.step = "figures" => returns[q.return].status = "draft"
  /\ q.step = "submit" =>
       /\ returns[q.return] = q.loaded
       /\ \A i \in InScore[packs[returns[q.return].pack].content] : values[q.return][i] \in Value
  /\ q.step = "league" =>
       /\ q.table.content = packs[q.table.pack].content
       /\ q.table.return \in Return => q.table.own = values[q.table.return]

OnlyOneApproved ==
  \A p, o \in Version : packs[p].status = "approved" /\ packs[o].status = "approved" => p = o

PacksAreSound ==
  \A p \in Version : Sealed(p) =>
    /\ packs[p].content \in Usable
    /\ packs[p].approver \notin {Nobody, packs[p].importer, editor[p]}

ReturnsAreComplete ==
  \A r \in Return : returns[r].status = "submitted" =>
    \A i \in InScore[packs[returns[r].pack].content] : values[r][i] \in Value

RunsAreReproducible ==
  \A t \in runs :
    /\ t.content = packs[t.pack].content
    /\ t.return \in Return => t.own = values[t.return]

RowsAreSound == OnlyOneApproved /\ PacksAreSound /\ ReturnsAreComplete /\ RunsAreReproducible

(* The inductive invariant of serial requests.                             *)
SerialInvariant == Serial => RowsAreSound /\ \A w \in Worker : Found(req[w])
-----------------------------------------------------------------------------
(* Rows.                                                                   *)

LEMMA AssignedPack ==
  ASSUME NEW row \in PackRow, NEW text, NEW u
  PROVE  /\ Assign(row, [content |-> text]) = Edited(row, text)
         /\ Assign(row, [status |-> "approved", approver |-> u]) = SignedOff(row, u)
<1>1. Assign(row, [content |-> text]) = Edited(row, text)
  BY DEF Assign, PackRow, Edited
<1>2. Assign(row, [status |-> "approved", approver |-> u]) = SignedOff(row, u)
  BY DEF Assign, PackRow, SignedOff
<1> QED
  BY <1>1, <1>2

LEMMA AssignedReturn ==
  ASSUME NEW row \in ReturnRow, NEW u
  PROVE  Assign(row, [status |-> "submitted", submitter |-> u]) = Submitted(row, u)
BY DEF Assign, ReturnRow, Submitted

(* A commit of an edit writes the content, that of an approval the state   *)
(* and the approver.                                                       *)
LEMMA FlushedEdit ==
  ASSUME NEW loaded \in PackRow, NEW text, NEW row \in PackRow
  PROVE  Flush(loaded, Edited(loaded, text), row) =
           [status |-> row.status, importer |-> row.importer,
            content |-> IF text = loaded.content THEN row.content ELSE text,
            approver |-> row.approver]
BY DEF Flush, PackRow, Edited

LEMMA FlushedApproval ==
  ASSUME NEW loaded \in PackRow, loaded.status = "draft", NEW u, NEW row \in PackRow
  PROVE  Flush(loaded, SignedOff(loaded, u), row) =
           [status |-> "approved", importer |-> row.importer, content |-> row.content,
            approver |-> IF u = loaded.approver THEN row.approver ELSE u]
BY DEF Flush, PackRow, SignedOff

LEMMA FlushedSubmission ==
  ASSUME NEW loaded \in ReturnRow, loaded.status = "draft", NEW u, NEW row \in ReturnRow
  PROVE  Flush(loaded, Submitted(loaded, u), row) =
           [status |-> "submitted", pack |-> row.pack,
            submitter |-> IF u = loaded.submitter THEN row.submitter ELSE u]
BY DEF Flush, ReturnRow, Submitted

(* A pack once imported stays, a sealed one stays sealed; a return stays   *)
(* with its pack, and submitted.                                           *)
PacksStay(table, table2) ==
  \A p \in Version :
    /\ table[p].status # "absent" => table2[p].status # "absent"
    /\ IsSealed(table[p]) => IsSealed(table2[p])

ReturnsStay(table, table2) ==
  \A r \in Return :
    /\ table[r].status # "absent" => table2[r].status # "absent" /\ table2[r].pack = table[r].pack
    /\ table[r].status = "submitted" => table2[r].status = "submitted"

LEMMA UnderwayStays ==
  ASSUME NEW q, NEW packTable, NEW packTable2, NEW returnTable, NEW returnTable2,
         Underway(q, packTable, returnTable),
         PacksStay(packTable, packTable2), ReturnsStay(returnTable, returnTable2)
  PROVE  Underway(q, packTable2, returnTable2)
BY DEF Underway, PacksStay, ReturnsStay
-----------------------------------------------------------------------------
(* The steps, however requests race.                                       *)

LEMMA InitHolds == ASSUME RegulatoryAssumption, Init PROVE RegulatoryInvariant
<1>1. \A p \in Version : packs[p] = NoPack
  BY DEF Init
<1>2. InFlightIsTrue
  BY DEF Init, RequestsInit, Idle, Off, InFlightIsTrue, Underway
<1>3. \E n \in 0..MaxVersion : Imported = 1..n
  <2>1. Imported = {}
    BY <1>1 DEF Imported, NoPack
  <2>2. 1..0 = {}
    OBVIOUS
  <2> QED
    BY <2>1, <2>2 DEF RegulatoryAssumption
<1>4. PacksAreWhole
  BY <1>1, <1>3 DEF Init, PacksAreWhole, NoPack, PackRow, Imported
<1>5. ReturnsAreWhole
  BY DEF Init, ReturnsAreWhole, NoReturn, ReturnRow, RegulatoryAssumption
<1>6. ScoresNeedApproval
  BY DEF Init, ScoresNeedApproval, NoReturn
<1> QED
  BY <1>2, <1>4, <1>5, <1>6 DEF RegulatoryInvariant

(* Nothing but the requests changes, or nothing at all.                    *)
LEMMA RowsRest ==
  ASSUME RegulatoryInvariant, UNCHANGED <<packs, editor, returns, values, runs>>
  PROVE  PacksAreWhole' /\ ReturnsAreWhole' /\ ScoresNeedApproval'
BY DEF RegulatoryInvariant, PacksAreWhole, ReturnsAreWhole, ScoresNeedApproval, Imported, Sealed

(* The version an import takes is the next one and is free.                *)
LEMMA ImportLeaves ==
  ASSUME RegulatoryAssumption, RegulatoryInvariant, NEW u \in User, NEW text \in Content,
         Import(u, text)
  PROVE  \E p \in Version :
           /\ packs[p].status = "absent"
           /\ packs'[p] = [status |-> "draft", importer |-> u, content |-> text, approver |-> Nobody]
           /\ editor'[p] = u
           /\ \A o \in Version : o # p => packs'[o] = packs[o] /\ editor'[o] = editor[o]
           /\ DOMAIN packs' = Version /\ DOMAIN editor' = Version
           /\ \E n \in 0..MaxVersion : Imported' = 1..n
<1>1. PICK n \in 0..MaxVersion : Imported = 1..n
  BY DEF RegulatoryInvariant, PacksAreWhole
<1>2. NextVersion = n + 1
  <2>1. Cardinality(1..n) = n
    BY FS_Interval
  <2> QED
    BY <1>1, <2>1 DEF NextVersion
<1>3. n + 1 \in Version /\ n + 1 \notin Imported
  BY <1>1, <1>2 DEF Import
<1>4. /\ packs' = [packs EXCEPT ![n + 1] = [status |-> "draft", importer |-> u,
                                            content |-> text, approver |-> Nobody]]
      /\ editor' = [editor EXCEPT ![n + 1] = u]
  BY <1>2 DEF Import
<1>5. Imported' = Imported \cup {n + 1}
  BY <1>3, <1>4 DEF Imported, RegulatoryInvariant, PacksAreWhole
<1>6. Imported' = 1..(n + 1) /\ n + 1 \in 0..MaxVersion
  BY <1>1, <1>3, <1>5 DEF Version, RegulatoryAssumption
<1> QED
  BY <1>3, <1>4, <1>6 DEF Imported, RegulatoryInvariant, PacksAreWhole

LEMMA ImportKeeps ==
  ASSUME RegulatoryAssumption, RegulatoryInvariant, NEW u \in User, NEW text \in Content,
         Import(u, text)
  PROVE  RegulatoryInvariant'
<1>1. PICK p \in Version :
        /\ packs[p].status = "absent"
        /\ packs'[p] = [status |-> "draft", importer |-> u, content |-> text, approver |-> Nobody]
        /\ editor'[p] = u
        /\ \A o \in Version : o # p => packs'[o] = packs[o] /\ editor'[o] = editor[o]
        /\ DOMAIN packs' = Version /\ DOMAIN editor' = Version
        /\ \E n \in 0..MaxVersion : Imported' = 1..n
  BY ImportLeaves
<1>2. UNCHANGED <<returns, values, runs, req>>
  BY DEF Import
<1>3. PacksStay(packs, packs') /\ ReturnsStay(returns, returns')
  BY <1>1, <1>2 DEF PacksStay, ReturnsStay, IsSealed
<1>4. InFlightIsTrue'
  BY <1>2, <1>3, UnderwayStays DEF RegulatoryInvariant, InFlightIsTrue
<1>5. PacksAreWhole'
  BY <1>1 DEF RegulatoryInvariant, PacksAreWhole, PackRow, Imported
<1>6. ReturnsAreWhole'
  BY <1>2 DEF RegulatoryInvariant, ReturnsAreWhole
<1>7. ScoresNeedApproval'
  BY <1>2, <1>3 DEF RegulatoryInvariant, ReturnsAreWhole, ScoresNeedApproval, PacksStay, Sealed, IsSealed
<1> QED
  BY <1>4, <1>5, <1>6, <1>7 DEF RegulatoryInvariant

LEMMA CreateReturnKeeps ==
  ASSUME RegulatoryAssumption, RegulatoryInvariant, NEW r \in Return, NEW p \in Version,
         CreateReturn(r, p)
  PROVE  RegulatoryInvariant'
<1>1. NoReturn \in ReturnRow
  BY DEF NoReturn, ReturnRow, RegulatoryAssumption
<1>2. returns'[r] = [status |-> "draft", pack |-> p, submitter |-> Nobody]
  BY DEF CreateReturn, RegulatoryInvariant, ReturnsAreWhole, NoReturn, Assign
<1>3. /\ \A s \in Return : s # r => returns'[s] = returns[s]
      /\ DOMAIN returns' = Return /\ returns[r].status = "absent"
      /\ UNCHANGED <<packs, editor, values, runs, req>>
      /\ Sealed(p)
  BY DEF CreateReturn, RegulatoryInvariant, ReturnsAreWhole, PackIsUsable, Sealed
<1>4. PacksStay(packs, packs') /\ ReturnsStay(returns, returns')
  BY <1>2, <1>3 DEF PacksStay, ReturnsStay
<1>5. InFlightIsTrue'
  BY <1>3, <1>4, UnderwayStays DEF RegulatoryInvariant, InFlightIsTrue
<1>6. PacksAreWhole'
  BY <1>3 DEF RegulatoryInvariant, PacksAreWhole, Imported
<1>7. ReturnsAreWhole'
  BY <1>2, <1>3 DEF RegulatoryInvariant, ReturnsAreWhole, ReturnRow, Version
<1>8. ScoresNeedApproval'
  BY <1>2, <1>3 DEF RegulatoryInvariant, ScoresNeedApproval, Sealed
<1> QED
  BY <1>5, <1>6, <1>7, <1>8 DEF RegulatoryInvariant

LEMMA StartKeeps ==
  ASSUME RegulatoryInvariant, NEW w \in Worker, NEW q, Start(w, q), Underway(q, packs, returns)
  PROVE  RegulatoryInvariant'
<1>1. \A v \in Worker : req'[v] = q \/ req'[v] = req[v]
  BY DEF Start, Begin, RegulatoryInvariant, InFlightIsTrue
<1>2. InFlightIsTrue'
  BY <1>1 DEF Start, Begin, RegulatoryInvariant, InFlightIsTrue
<1> QED
  BY <1>2, RowsRest DEF Start, RegulatoryInvariant

(* What each handler starts is a request that is true.                     *)
Starts(w) ==
  \/ \E u \in User, p \in Version :
       \/ \E content \in Content, reasoned \in BOOLEAN : UpdatePack(w, u, p, content, reasoned)
       \/ ApprovePack(w, u, p)
  \/ \E r \in Return :
       \/ \E figures \in Figures : SetValues(w, r, figures)
       \/ \E u \in User : SubmitReturn(w, u, r)
  \/ \E p \in Version, r \in Return \cup {Nothing} : RunLeague(w, r, p)

LEMMA StartsAreTrue ==
  ASSUME RegulatoryAssumption, RegulatoryInvariant, NEW w \in Worker, Starts(w)
  PROVE  \E q : Start(w, q) /\ q.step # "off" /\ Underway(q, packs, returns) /\ (Serial => Found(q))
<1>1. ASSUME NEW u \in User, NEW p \in Version, NEW text \in Content, NEW reasoned \in BOOLEAN,
             UpdatePack(w, u, p, text, reasoned)
      PROVE  \E q : Start(w, q) /\ q.step # "off" /\ Underway(q, packs, returns) /\ (Serial => Found(q))
  <2> DEFINE q == [step |-> "edit", by |-> u, pack |-> p, loaded |-> packs[p],
                   new |-> Assign(packs[p], [content |-> text])]
  <2>1. packs[p] \in PackRow /\ packs[p].status = "draft"
    BY <1>1 DEF UpdatePack, IsDraft, RegulatoryInvariant, PacksAreWhole
  <2>2. q.new = Edited(packs[p], text)
    BY <2>1, AssignedPack
  <2>3. Underway(q, packs, returns) /\ Found(q)
    BY <2>1, <2>2 DEF Underway, Found
  <2> QED
    BY <1>1, <2>3 DEF UpdatePack
<1>2. ASSUME NEW u \in User, NEW p \in Version, ApprovePack(w, u, p)
      PROVE  \E q : Start(w, q) /\ q.step # "off" /\ Underway(q, packs, returns) /\ (Serial => Found(q))
  <2> DEFINE q == [step |-> "approve", by |-> u, pack |-> p, loaded |-> packs[p],
                   new |-> Assign(packs[p], [status |-> "approved", approver |-> u]),
                   retires |-> Replaced(p)]
  <2>1. packs[p] \in PackRow /\ packs[p].status = "draft"
    BY <1>2 DEF ApprovePack, IsDraft, RegulatoryInvariant, PacksAreWhole
  <2>2. q.new = SignedOff(packs[p], u)
    BY <2>1, AssignedPack
  <2>3. Underway(q, packs, returns)
    BY <2>1, <2>2 DEF Underway, Replaced, IsSealed
  <2>4. Found(q)
    BY <1>2, <2>1 DEF ApprovePack, Unblocked, Uninvolved, Replaced, Found
  <2> QED
    BY <1>2, <2>3, <2>4 DEF ApprovePack
<1>3. ASSUME NEW r \in Return, NEW figures \in Figures, SetValues(w, r, figures)
      PROVE  \E q : Start(w, q) /\ q.step # "off" /\ Underway(q, packs, returns) /\ (Serial => Found(q))
  BY <1>3 DEF SetValues, MayBeFilled, Underway, Found
<1>4. ASSUME NEW r \in Return, NEW u \in User, SubmitReturn(w, u, r)
      PROVE  \E q : Start(w, q) /\ q.step # "off" /\ Underway(q, packs, returns) /\ (Serial => Found(q))
  <2> DEFINE q == [step |-> "submit", return |-> r, loaded |-> returns[r],
                   new |-> Assign(returns[r], [status |-> "submitted", submitter |-> u])]
             pack == returns[r].pack
  <2>1. returns[r] \in ReturnRow /\ returns[r].status = "draft" /\ pack \in Version
    BY <1>4 DEF SubmitReturn, RegulatoryInvariant, ReturnsAreWhole
  <2>2. q.new = Submitted(returns[r], u)
    BY <2>1, AssignedReturn
  <2>3. Underway(q, packs, returns)
    BY <2>1, <2>2 DEF Underway
  <2>4. packs[pack].content \in Content
    BY <2>1 DEF RegulatoryInvariant, ScoresNeedApproval, PacksAreWhole, Imported, Sealed
  <2>5. InScore[packs[pack].content] \subseteq Indicator
    BY <2>4 DEF RegulatoryAssumption
  <2>6. \A i \in InScore[packs[pack].content] : values[r][i] \in Value
    BY <1>4, <2>5 DEF SubmitReturn, Missing, RegulatoryInvariant, ReturnsAreWhole
  <2>7. Found(q)
    BY <2>6 DEF Found
  <2> QED
    BY <1>4, <2>3, <2>7 DEF SubmitReturn
<1>5. ASSUME NEW p \in Version, NEW r \in Return \cup {Nothing}, RunLeague(w, r, p)
      PROVE  \E q : Start(w, q) /\ q.step # "off" /\ Underway(q, packs, returns) /\ (Serial => Found(q))
  <2> DEFINE q == [step |-> "league", table |-> Table(r, p)]
  <2>1. packs[p].status = "approved" /\ packs[p].content \in Content
    BY <1>5 DEF RunLeague, PackIsUsable, RegulatoryInvariant, PacksAreWhole, Imported
  <2>2. r \in Return => returns[r].status = "submitted" /\ returns[r].pack = p /\ r # Nothing
    BY <1>5 DEF RunLeague, Comparable, RegulatoryAssumption
  <2>3. Underway(q, packs, returns) /\ Found(q)
    BY <2>1, <2>2 DEF Underway, Found, Table, IsSealed
  <2> QED
    BY <1>5, <2>3 DEF RunLeague
<1> QED
  BY <1>1, <1>2, <1>3, <1>4, <1>5 DEF Starts

LEMMA EditLeaves ==
  ASSUME RegulatoryInvariant, NEW w \in Worker, CommitPack(w), req[w].step = "edit"
  PROVE  LET p == req[w].pack
         IN /\ p \in Version /\ packs[p].status # "absent"
            /\ \E text \in Content : packs'[p] = Edited(packs[p], text)
            /\ editor'[p] \in User
            /\ \A o \in Version : o # p => packs'[o] = packs[o] /\ editor'[o] = editor[o]
            /\ DOMAIN packs' = Version /\ DOMAIN editor' = Version
<1> DEFINE q == req[w]
           p == q.pack
<1>1. /\ p \in Version /\ packs[p].status # "absent" /\ q.by \in User
      /\ q.loaded \in PackRow
      /\ \E text \in Content : q.new = Edited(q.loaded, text)
  BY DEF RegulatoryInvariant, InFlightIsTrue, Underway
<1>2. /\ packs' = [packs EXCEPT ![p] = Flush(q.loaded, q.new, @)]
      /\ editor' = [editor EXCEPT ![p] = q.by]
  BY DEF CommitPack
<1>3. packs[p] \in PackRow /\ packs[p].content \in Content
  BY <1>1 DEF RegulatoryInvariant, PacksAreWhole, Imported
<1>4. PICK text \in Content : q.new = Edited(q.loaded, text)
  BY <1>1
<1>5. packs'[p] = Flush(q.loaded, Edited(q.loaded, text), packs[p])
  BY <1>1, <1>2, <1>4 DEF RegulatoryInvariant, PacksAreWhole
<1> HIDE DEF q, p
<1>6. packs'[p] = Edited(packs[p], IF text = q.loaded.content THEN packs[p].content ELSE text)
  BY <1>1, <1>3, <1>5, FlushedEdit DEF Edited
<1> QED
  BY <1>1, <1>2, <1>3, <1>6 DEF q, p, RegulatoryInvariant, PacksAreWhole

LEMMA ApprovalLeaves ==
  ASSUME RegulatoryInvariant, NEW w \in Worker, CommitPack(w), req[w].step = "approve"
  PROVE  LET p == req[w].pack
         IN /\ p \in Version /\ packs[p].status # "absent"
            /\ \E u \in User \cup {Nobody} :
                 /\ packs'[p] = SignedOff(packs[p], u)
                 /\ packs[p] = req[w].loaded => u = req[w].by
            /\ \A o \in req[w].retires \ {p} :
                 /\ o \in Version /\ IsSealed(packs[o])
                 /\ packs'[o] = [packs[o] EXCEPT !.status = "retired"]
            /\ \A o \in Version \ req[w].retires : o # p => packs'[o] = packs[o]
            /\ DOMAIN packs' = Version
            /\ UNCHANGED editor
<1> DEFINE q == req[w]
           p == q.pack
<1>1. /\ p \in Version /\ packs[p].status # "absent" /\ q.by \in User
      /\ q.loaded \in PackRow /\ q.loaded.status = "draft"
      /\ q.new = SignedOff(q.loaded, q.by)
      /\ \A o \in q.retires : o \in Version /\ IsSealed(packs[o])
  BY DEF RegulatoryInvariant, InFlightIsTrue, Underway
<1>2. /\ packs' = [o \in Version |->
           IF o = p THEN Flush(q.loaded, q.new, packs[o])
           ELSE IF o \in q.retires THEN [packs[o] EXCEPT !.status = "retired"]
           ELSE packs[o]]
      /\ UNCHANGED editor
  BY DEF CommitPack
<1>3. packs[p] \in PackRow
  BY <1>1 DEF RegulatoryInvariant, PacksAreWhole
<1>4. packs'[p] = Flush(q.loaded, SignedOff(q.loaded, q.by), packs[p])
  BY <1>1, <1>2
<1> HIDE DEF q, p
<1>5. packs'[p] = SignedOff(packs[p], IF q.by = q.loaded.approver THEN packs[p].approver ELSE q.by)
  BY <1>1, <1>3, <1>4, FlushedApproval DEF SignedOff
<1>6. packs[p].approver \in User \cup {Nobody}
  BY <1>3 DEF PackRow
<1> QED
  BY <1>1, <1>2, <1>5, <1>6 DEF q, p

(* However it raced, a commit leaves packs that are whole.                 *)
LEMMA CommitPackLeaves ==
  ASSUME RegulatoryInvariant, NEW w \in Worker, CommitPack(w)
  PROVE  PacksAreWhole' /\ PacksStay(packs, packs')
<1>1. CASE req[w].step = "edit"
  <2> DEFINE p == req[w].pack
  <2>1. PICK text \in Content : packs'[p] = Edited(packs[p], text)
    BY <1>1, EditLeaves
  <2>2. /\ packs'[p].status = packs[p].status /\ packs'[p].content \in Content
        /\ packs'[p] \in PackRow
    BY <1>1, <2>1, EditLeaves DEF Edited, RegulatoryInvariant, PacksAreWhole, PackRow
  <2>3. Imported' = Imported
    BY <1>1, <2>2, EditLeaves DEF Imported
  <2>4. PacksStay(packs, packs')
    BY <1>1, <2>2, EditLeaves DEF PacksStay, IsSealed
  <2> QED
    BY <1>1, <2>2, <2>3, <2>4, EditLeaves DEF RegulatoryInvariant, PacksAreWhole, Imported
<1>2. CASE req[w].step = "approve"
  <2> DEFINE p == req[w].pack
  <2>1. PICK u \in User \cup {Nobody} : packs'[p] = SignedOff(packs[p], u)
    BY <1>2, ApprovalLeaves
  <2>2. /\ p \in Imported
        /\ packs'[p].status = "approved" /\ packs'[p].content = packs[p].content
        /\ packs'[p] \in PackRow
    BY <1>2, <2>1, ApprovalLeaves DEF SignedOff, RegulatoryInvariant, PacksAreWhole, PackRow, Imported
  <2>3. ASSUME NEW o \in Version \ {p}
        PROVE  /\ packs'[o].content = packs[o].content
               /\ packs'[o] \in PackRow
               /\ packs'[o].status = "absent" <=> packs[o].status = "absent"
               /\ IsSealed(packs[o]) => IsSealed(packs'[o])
    <3>1. packs[o] \in PackRow
      BY DEF RegulatoryInvariant, PacksAreWhole
    <3>2. CASE o \in req[w].retires
      <4>1. packs'[o] = [packs[o] EXCEPT !.status = "retired"] /\ IsSealed(packs[o])
        BY <1>2, <3>2, ApprovalLeaves
      <4> QED
        BY <3>1, <4>1 DEF PackRow, IsSealed
    <3>3. CASE o \notin req[w].retires
      BY <1>2, <3>1, <3>3, ApprovalLeaves
    <3> QED
      BY <3>2, <3>3
  <2> HIDE DEF p
  <2>4. Imported' = Imported
    BY <2>2, <2>3 DEF Imported
  <2>5. PacksStay(packs, packs')
    BY <2>2, <2>3 DEF PacksStay, IsSealed, Imported
  <2>6. DOMAIN packs' = Version /\ UNCHANGED editor
    BY <1>2, ApprovalLeaves
  <2>7. \A o \in Version : packs'[o] \in PackRow /\ packs'[o].content = packs[o].content
    BY <2>2, <2>3
  <2> QED
    BY <2>4, <2>5, <2>6, <2>7 DEF RegulatoryInvariant, PacksAreWhole
<1> QED
  BY <1>1, <1>2 DEF CommitPack

LEMMA CommitValuesLeaves ==
  ASSUME RegulatoryInvariant, NEW w \in Worker, CommitValues(w)
  PROVE  /\ req[w].return \in Return
         /\ \A r \in Return : r # req[w].return => values'[r] = values[r]
         /\ values' \in [Return -> [Indicator -> Value \cup {Nothing}]]
<1> DEFINE q == req[w]
<1>1. q.return \in Return /\ q.figures \in Figures
  BY DEF CommitValues, RegulatoryInvariant, InFlightIsTrue, Underway
<1>2. PICK S \in SUBSET Indicator : q.figures \in [S -> Value \cup {Nothing}]
  BY <1>1 DEF Figures
<1>3. values[q.return] \in [Indicator -> Value \cup {Nothing}]
  BY <1>1 DEF RegulatoryInvariant, ReturnsAreWhole
<1>4. Assign(values[q.return], q.figures) \in [Indicator -> Value \cup {Nothing}]
  BY <1>2, <1>3 DEF Assign
<1> QED
  BY <1>1, <1>4 DEF CommitValues, RegulatoryInvariant, ReturnsAreWhole

LEMMA CommitSubmitLeaves ==
  ASSUME RegulatoryInvariant, NEW w \in Worker, CommitSubmit(w)
  PROVE  LET r == req[w].return
         IN /\ r \in Return /\ returns[r].status # "absent"
            /\ returns'[r].status = "submitted" /\ returns'[r].pack = returns[r].pack
            /\ returns'[r] \in ReturnRow
            /\ \A s \in Return : s # r => returns'[s] = returns[s]
            /\ DOMAIN returns' = Return
<1> DEFINE q == req[w]
           r == q.return
<1>1. /\ r \in Return /\ returns[r].status # "absent"
      /\ q.loaded \in ReturnRow /\ q.loaded.status = "draft"
      /\ \E u \in User : q.new = Submitted(q.loaded, u)
  BY DEF CommitSubmit, RegulatoryInvariant, InFlightIsTrue, Underway
<1>2. PICK u \in User : q.new = Submitted(q.loaded, u)
  BY <1>1
<1>3. returns[r] \in ReturnRow
  BY <1>1 DEF RegulatoryInvariant, ReturnsAreWhole
<1>4. returns'[r] = Flush(q.loaded, Submitted(q.loaded, u), returns[r])
  BY <1>1, <1>2 DEF CommitSubmit, RegulatoryInvariant, ReturnsAreWhole
<1>5. /\ \A s \in Return : s # r => returns'[s] = returns[s]
      /\ DOMAIN returns' = Return
  BY <1>1 DEF CommitSubmit, RegulatoryInvariant, ReturnsAreWhole
<1> HIDE DEF q, r
<1>6. returns'[r] = [status |-> "submitted", pack |-> returns[r].pack,
                     submitter |-> IF u = q.loaded.submitter THEN returns[r].submitter ELSE u]
  BY <1>1, <1>3, <1>4, FlushedSubmission
<1>7. returns'[r] \in ReturnRow
  BY <1>3, <1>6 DEF ReturnRow
<1> QED
  BY <1>1, <1>5, <1>6, <1>7 DEF q, r

Commits(w) == CommitPack(w) \/ CommitValues(w) \/ CommitSubmit(w) \/ CommitLeague(w) \/ Abort(w)

LEMMA CommitsKeep ==
  ASSUME RequestsAssumption, RegulatoryInvariant, NEW w \in Worker, Commits(w)
  PROVE  RegulatoryInvariant' /\ InFlight(w) /\ Finish(w)
<1>0. InFlight(w) /\ Finish(w)
  BY DEF Commits, CommitPack, CommitValues, CommitSubmit, CommitLeague, Abort, InFlight
<1>1. ASSUME PacksStay(packs, packs'), ReturnsStay(returns, returns')
      PROVE  InFlightIsTrue'
  <2>1. \A v \in Worker : req'[v] = Idle \/ req'[v] = req[v]
    BY <1>0 DEF Finish, RegulatoryInvariant, InFlightIsTrue
  <2>2. Underway(Idle, packs', returns')
    BY DEF Underway, Idle
  <2> QED
    BY <1>0, <1>1, <2>1, <2>2, UnderwayStays DEF Finish, RegulatoryInvariant, InFlightIsTrue
<1>2. CASE CommitPack(w)
  <2>1. UNCHANGED <<returns, values, runs>> /\ PacksStay(packs, packs') /\ ReturnsStay(returns, returns')
    BY <1>2, CommitPackLeaves DEF CommitPack, ReturnsStay
  <2>2. ReturnsAreWhole' /\ ScoresNeedApproval'
    BY <2>1 DEF RegulatoryInvariant, ReturnsAreWhole, ScoresNeedApproval, PacksStay, Sealed, IsSealed
  <2> QED
    BY <1>0, <1>1, <1>2, <2>1, <2>2, CommitPackLeaves DEF RegulatoryInvariant
<1>3. CASE CommitValues(w)
  <2>1. UNCHANGED <<packs, editor, returns, runs>> /\ PacksStay(packs, packs') /\ ReturnsStay(returns, returns')
    BY <1>3 DEF CommitValues, ReturnsStay, PacksStay
  <2>2. PacksAreWhole' /\ ScoresNeedApproval'
    BY <2>1 DEF RegulatoryInvariant, PacksAreWhole, Imported, ScoresNeedApproval, Sealed
  <2>3. ReturnsAreWhole'
    BY <1>3, <2>1, CommitValuesLeaves DEF RegulatoryInvariant, ReturnsAreWhole
  <2> QED
    BY <1>0, <1>1, <2>1, <2>2, <2>3 DEF RegulatoryInvariant
<1>4. CASE CommitSubmit(w)
  <2>1. UNCHANGED <<packs, editor, values, runs>> /\ PacksStay(packs, packs') /\ ReturnsStay(returns, returns')
    BY <1>4, CommitSubmitLeaves DEF CommitSubmit, ReturnsStay, PacksStay
  <2>2. PacksAreWhole'
    BY <2>1 DEF RegulatoryInvariant, PacksAreWhole, Imported
  <2>3. ReturnsAreWhole' /\ ScoresNeedApproval'
    BY <1>4, <2>1, CommitSubmitLeaves
       DEF RegulatoryInvariant, ReturnsAreWhole, ScoresNeedApproval, Sealed
  <2> QED
    BY <1>0, <1>1, <2>1, <2>2, <2>3 DEF RegulatoryInvariant
<1>5. CASE CommitLeague(w)
  <2>1. UNCHANGED <<packs, editor, returns, values>> /\ PacksStay(packs, packs') /\ ReturnsStay(returns, returns')
    BY <1>5 DEF CommitLeague, ReturnsStay, PacksStay
  <2>2. PacksAreWhole'
    BY <2>1 DEF RegulatoryInvariant, PacksAreWhole, Imported
  <2>3. ReturnsAreWhole' /\ ScoresNeedApproval'
    BY <1>5, <2>1 DEF CommitLeague, RegulatoryInvariant, InFlightIsTrue, Underway, ReturnsAreWhole,
                      ScoresNeedApproval, Sealed, IsSealed
  <2> QED
    BY <1>0, <1>1, <2>1, <2>2, <2>3 DEF RegulatoryInvariant
<1>6. CASE Abort(w)
  <2>1. PacksStay(packs, packs') /\ ReturnsStay(returns, returns')
    BY <1>6 DEF Abort, ReturnsStay, PacksStay
  <2> QED
    BY <1>0, <1>1, <1>6, <2>1, RowsRest DEF Abort, RegulatoryInvariant
<1> QED
  BY <1>0, <1>2, <1>3, <1>4, <1>5, <1>6 DEF Commits

LEMMA StepKeeps ==
  ASSUME RegulatoryAssumption, RequestsAssumption, RegulatoryInvariant, [Next]_vars
  PROVE  RegulatoryInvariant'
<1>1. CASE UNCHANGED vars
  <2>1. InFlightIsTrue'
    BY <1>1 DEF vars, RegulatoryInvariant, InFlightIsTrue
  <2> QED
    BY <1>1, <2>1, RowsRest DEF vars, RegulatoryInvariant
<1>2. ASSUME NEW w \in Worker, Starts(w) PROVE RegulatoryInvariant'
  BY <1>2, StartsAreTrue, StartKeeps
<1>3. CASE Next
  BY <1>2, <1>3, ImportKeeps, CreateReturnKeeps, CommitsKeep DEF Next, Starts, Commits
<1> QED
  BY <1>1, <1>3
-----------------------------------------------------------------------------
(* The steps of serial requests.                                           *)

(* What a step does to one pack, as a sealed record.                       *)
SealMove(p) ==
  LET row == packs[p]
      new == packs'[p]
      Was(status) == row.status = status
      Is(status) == new.status = status
      Same == new.content = row.content /\ editor'[p] = editor[p]
  IN \/ new = row /\ editor'[p] = editor[p]
     \/ Was("absent") /\ Is("draft")
     \/ Was("draft") /\ Is("draft")
     \/ /\ Was("draft") /\ Is("approved") /\ Same
        /\ row.content \in Usable /\ new.approver \in User \ {editor[p]}
     \/ Was("approved") /\ Is("retired") /\ Same /\ new.approver = row.approver

PacksMove == \A p \in Version : SealMove(p)

(* What is reported and compared stands on sealed packs, which keep their  *)
(* content.                                                                *)
LEMMA PacksMoveSoundly ==
  ASSUME RegulatoryInvariant, RowsAreSound, PacksMove, OnlyOneApproved', PacksAreSound',
         UNCHANGED <<returns, values, runs>>
  PROVE  RowsAreSound'
<1>1. \A p \in Version : Sealed(p) => packs'[p].content = packs[p].content
  BY DEF PacksMove, SealMove, Sealed
<1> QED
  BY <1>1 DEF RegulatoryInvariant, ReturnsAreWhole, ScoresNeedApproval, RowsAreSound,
              ReturnsAreComplete, RunsAreReproducible

LEMMA SerialImport ==
  ASSUME RegulatoryAssumption, RegulatoryInvariant, RowsAreSound, NEW u \in User, NEW text \in Content,
         Import(u, text)
  PROVE  RowsAreSound' /\ PacksMove
<1>1. PICK p \in Version :
        /\ packs[p].status = "absent"
        /\ packs'[p] = [status |-> "draft", importer |-> u, content |-> text, approver |-> Nobody]
        /\ \A o \in Version : o # p => packs'[o] = packs[o] /\ editor'[o] = editor[o]
  BY ImportLeaves
<1>2. PacksMove
  BY <1>1 DEF PacksMove, SealMove
<1>3. OnlyOneApproved' /\ PacksAreSound'
  BY <1>1 DEF RowsAreSound, OnlyOneApproved, PacksAreSound, Sealed
<1> QED
  BY <1>2, <1>3, PacksMoveSoundly DEF Import

LEMMA SerialEdit ==
  ASSUME RegulatoryInvariant, RowsAreSound, NEW w \in Worker, Found(req[w]), CommitPack(w),
         req[w].step = "edit"
  PROVE  RowsAreSound' /\ PacksMove
<1> DEFINE p == req[w].pack
<1>1. packs[p].status = "draft" /\ p \in Version
  BY EditLeaves DEF Found
<1>2. packs'[p].status = "draft"
  <2>1. PICK text \in Content : packs'[p] = Edited(packs[p], text)
    BY EditLeaves
  <2> QED
    BY <1>1, <2>1 DEF Edited
<1>3. \A o \in Version : o # p => packs'[o] = packs[o] /\ editor'[o] = editor[o]
  BY EditLeaves
<1> HIDE DEF p
<1>4. PacksMove
  BY <1>1, <1>2, <1>3 DEF PacksMove, SealMove
<1>5. OnlyOneApproved' /\ PacksAreSound'
  BY <1>1, <1>2, <1>3 DEF RowsAreSound, OnlyOneApproved, PacksAreSound, Sealed
<1> QED
  BY <1>4, <1>5, PacksMoveSoundly DEF CommitPack

LEMMA SerialApproval ==
  ASSUME RegulatoryAssumption, RegulatoryInvariant, RowsAreSound, NEW w \in Worker, Found(req[w]),
         CommitPack(w), req[w].step = "approve"
  PROVE  RowsAreSound' /\ PacksMove
<1> DEFINE q == req[w]
           p == q.pack
<1>1. /\ packs[p].status = "draft" /\ packs[p] = q.loaded
      /\ packs[p].content \in Usable
      /\ q.by \notin {packs[p].importer, editor[p]}
      /\ q.retires = {o \in Version : packs[o].status = "approved"}
  BY DEF Found
<1>2. p \in Version /\ q.by \in User /\ q.by # Nobody
  BY DEF RegulatoryInvariant, InFlightIsTrue, Underway, RegulatoryAssumption
<1>3. packs'[p] = SignedOff(packs[p], q.by) /\ UNCHANGED editor
  BY <1>1, ApprovalLeaves
<1>4. \A o \in q.retires : packs'[o] = [packs[o] EXCEPT !.status = "retired"]
  BY <1>1, ApprovalLeaves
<1>5. \A o \in Version : o # p /\ o \notin q.retires => packs'[o] = packs[o]
  BY ApprovalLeaves
<1> HIDE DEF q, p
<1>6. /\ packs'[p].status = "approved" /\ packs'[p].content = packs[p].content
      /\ packs'[p].importer = packs[p].importer /\ packs'[p].approver = q.by
  BY <1>3 DEF SignedOff
<1>7. ASSUME NEW o \in q.retires
      PROVE  /\ packs'[o].status = "retired" /\ packs'[o].content = packs[o].content
             /\ packs'[o].importer = packs[o].importer /\ packs'[o].approver = packs[o].approver
  <2>1. packs[o] \in PackRow
    BY <1>1 DEF RegulatoryInvariant, PacksAreWhole
  <2>2. packs'[o] = [packs[o] EXCEPT !.status = "retired"]
    BY <1>4
  <2> QED
    BY <2>1, <2>2 DEF PackRow
<1>8. PacksMove
  BY <1>1, <1>2, <1>3, <1>5, <1>6, <1>7 DEF PacksMove, SealMove
<1>9. OnlyOneApproved'
  BY <1>1, <1>5, <1>7 DEF OnlyOneApproved
<1>10. PacksAreSound'
  BY <1>1, <1>2, <1>3, <1>5, <1>6, <1>7 DEF RowsAreSound, PacksAreSound, Sealed
<1> QED
  BY <1>8, <1>9, <1>10, PacksMoveSoundly DEF CommitPack

LEMMA SerialCommits ==
  ASSUME RegulatoryAssumption, RegulatoryInvariant, RowsAreSound, NEW w \in Worker, Found(req[w]),
         Commits(w)
  PROVE  RowsAreSound' /\ PacksMove
<1>1. CASE CommitPack(w)
  BY <1>1, SerialEdit, SerialApproval DEF CommitPack
<1>2. ASSUME UNCHANGED <<packs, editor>> PROVE PacksMove /\ (RowsAreSound => OnlyOneApproved' /\ PacksAreSound')
  BY <1>2 DEF PacksMove, SealMove, RowsAreSound, OnlyOneApproved, PacksAreSound, Sealed
<1>3. CASE CommitValues(w)
  <2>1. UNCHANGED <<packs, editor, returns, runs>> /\ returns[req[w].return].status = "draft"
    BY <1>3 DEF CommitValues, Found
  <2>2. \A r \in Return : returns[r].status = "submitted" => values'[r] = values[r]
    BY <1>3, <2>1, CommitValuesLeaves
  <2>3. ReturnsAreComplete' /\ RunsAreReproducible'
    BY <2>1, <2>2 DEF RowsAreSound, ReturnsAreComplete, RunsAreReproducible, RegulatoryInvariant,
                      ScoresNeedApproval
  <2> QED
    BY <1>2, <2>1, <2>3 DEF RowsAreSound
<1>4. CASE CommitSubmit(w)
  <2>1. UNCHANGED <<packs, editor, values, runs>>
    BY <1>4 DEF CommitSubmit
  <2>2. ReturnsAreComplete'
    BY <1>4, <2>1, CommitSubmitLeaves DEF RowsAreSound, ReturnsAreComplete, CommitSubmit, Found
  <2>3. RunsAreReproducible'
    BY <2>1 DEF RowsAreSound, RunsAreReproducible
  <2> QED
    BY <1>2, <2>1, <2>2, <2>3 DEF RowsAreSound
<1>5. CASE CommitLeague(w)
  <2>1. UNCHANGED <<packs, editor, returns, values>>
    BY <1>5 DEF CommitLeague
  <2>2. RunsAreReproducible'
    BY <1>5, <2>1 DEF RowsAreSound, RunsAreReproducible, CommitLeague, Found
  <2> QED
    BY <1>2, <2>1, <2>2 DEF RowsAreSound, ReturnsAreComplete
<1>6. CASE Abort(w)
  BY <1>2, <1>6 DEF Abort, RowsAreSound, ReturnsAreComplete, RunsAreReproducible
<1> QED
  BY <1>1, <1>3, <1>4, <1>5, <1>6 DEF Commits

LEMMA FreeIsSerial ==
  ASSUME RequestsAssumption, RegulatoryInvariant, Free, UNCHANGED req, Serial => RowsAreSound'
  PROVE  SerialInvariant' /\ (Serial' <=> Serial)
<1>1. Serial' <=> Serial
  BY DEF Serial
<1>2. Serial => \A v \in Worker : req'[v].step \in {"idle", "off"}
  BY SerialIsAlone DEF InFlight
<1> QED
  BY <1>1, <1>2 DEF SerialInvariant, Found

LEMMA StartIsSerial ==
  ASSUME RegulatoryAssumption, RequestsAssumption, RegulatoryInvariant, SerialInvariant,
         NEW w \in Worker, Starts(w)
  PROVE  SerialInvariant' /\ (Serial' <=> Serial) /\ PacksMove
<1>1. PICK q : Start(w, q) /\ q.step # "off" /\ (Serial => Found(q))
  BY StartsAreTrue
<1>2. /\ Serial' <=> Serial
      /\ req'[w] = q
      /\ Serial => \A v \in Worker : v # w => req'[v].step = "off"
  BY <1>1, SerialBegins DEF Start, RegulatoryInvariant, InFlightIsTrue
<1>3. UNCHANGED <<packs, editor, returns, values, runs>>
  BY <1>1 DEF Start
<1>4. Serial => RowsAreSound'
  BY <1>3 DEF SerialInvariant, RowsAreSound, OnlyOneApproved, PacksAreSound, Sealed,
              ReturnsAreComplete, RunsAreReproducible
<1>5. Serial => \A v \in Worker : Found(req[v])'
  BY <1>1, <1>2, <1>3 DEF Found
<1> QED
  BY <1>2, <1>3, <1>4, <1>5 DEF SerialInvariant, PacksMove, SealMove

LEMMA StepIsSerial ==
  ASSUME RegulatoryAssumption, RequestsAssumption, RegulatoryInvariant, SerialInvariant, [Next]_vars
  PROVE  SerialInvariant' /\ (Serial' <=> Serial) /\ (Serial => PacksMove)
<1>1. CASE UNCHANGED vars
  BY <1>1 DEF vars, Serial, SerialInvariant, RowsAreSound, OnlyOneApproved, PacksAreSound, Sealed,
              ReturnsAreComplete, RunsAreReproducible, Found, PacksMove, SealMove
<1>2. ASSUME NEW u \in User, NEW text \in Content, Import(u, text)
      PROVE  SerialInvariant' /\ (Serial' <=> Serial) /\ (Serial => PacksMove)
  BY <1>2, SerialImport, FreeIsSerial DEF Import, SerialInvariant
<1>3. ASSUME NEW r \in Return, NEW p \in Version, CreateReturn(r, p)
      PROVE  SerialInvariant' /\ (Serial' <=> Serial) /\ (Serial => PacksMove)
  <2>1. /\ UNCHANGED <<packs, editor, values, runs>> /\ Free /\ UNCHANGED req
        /\ returns'[r].status = "draft" /\ \A s \in Return : s # r => returns'[s] = returns[s]
    BY <1>3 DEF CreateReturn, RegulatoryInvariant, ReturnsAreWhole, NoReturn, Assign
  <2>2. RowsAreSound => RowsAreSound'
    BY <2>1 DEF RowsAreSound, OnlyOneApproved, PacksAreSound, Sealed, ReturnsAreComplete,
                RunsAreReproducible
  <2> QED
    BY <2>1, <2>2, FreeIsSerial DEF SerialInvariant, PacksMove, SealMove
<1>4. ASSUME NEW w \in Worker, Commits(w)
      PROVE  SerialInvariant' /\ (Serial' <=> Serial) /\ (Serial => PacksMove)
  <2>1. InFlight(w) /\ Finish(w)
    BY <1>4, CommitsKeep
  <2>2. /\ Serial' <=> Serial
        /\ Serial => \A v \in Worker : req'[v].step \in {"idle", "off"}
    BY <2>1, SerialFinishes DEF RegulatoryInvariant, InFlightIsTrue
  <2>3. Serial => RowsAreSound' /\ PacksMove
    BY <1>4, SerialCommits DEF SerialInvariant
  <2> QED
    BY <2>2, <2>3 DEF SerialInvariant, Found
<1> QED
  BY <1>1, <1>2, <1>3, <1>4, StartIsSerial DEF Next, Starts, Commits
-----------------------------------------------------------------------------
(* However many requests race, the first invariant holds; of serial ones   *)
(* the second does too.                                                    *)
THEOREM RegulatoryInvariantHolds == Spec => [](RegulatoryInvariant /\ SerialInvariant)
<1>1. Init => RegulatoryInvariant /\ SerialInvariant
  <2>1. Init => SerialInvariant
    <3>1. Init => \A w \in Worker : req[w].step \in {"idle", "off"}
      BY DEF Init, RequestsInit, Idle, Off
    <3>2. Init => RowsAreSound
      BY DEF Init, NoPack, NoReturn, RowsAreSound, OnlyOneApproved, PacksAreSound, Sealed,
             ReturnsAreComplete, RunsAreReproducible
    <3> QED
      BY <3>1, <3>2 DEF SerialInvariant, Found
  <2> QED
    BY <2>1, InitHolds, RegulatoryAssumption
<1>2. RegulatoryInvariant /\ SerialInvariant /\ [Next]_vars => (RegulatoryInvariant /\ SerialInvariant)'
  BY StepKeeps, StepIsSerial, RegulatoryAssumption, RequestsAssumption
<1> QED
  BY <1>1, <1>2, PTL DEF Spec

(* Rows have the types of their columns, and versions have no gap.         *)
THEOREM RegulatoryTypeCorrect == Spec => []TypeOK
<1>1. ASSUME RegulatoryInvariant PROVE TypeOK
  <2>1. \A p \in Imported : packs[p].content # Nothing /\ editor[p] \in User
    BY <1>1, RegulatoryAssumption DEF RegulatoryInvariant, PacksAreWhole, Imported, RegulatoryAssumption
  <2> QED
    BY <1>1, <2>1 DEF RegulatoryInvariant, InFlightIsTrue, PacksAreWhole, ReturnsAreWhole, TypeOK
<1> QED
  BY <1>1, RegulatoryInvariantHolds, PTL

(* Returns and league tables are vouched for: always by a pack that was    *)
(* approved, and of serial requests by the one in force, approved by an    *)
(* officer who did not write it and with every figure it scores            *)
(* (approve_pack, submit_return, run_league).                              *)
THEOREM ComparisonsVouchedFor == Spec => []ComparisonsAreVouchedFor
<1>1. ASSUME RegulatoryInvariant, SerialInvariant PROVE OneApproved
  BY <1>1, AtMostOne DEF SerialInvariant, RowsAreSound, OnlyOneApproved, OneApproved
<1>2. RegulatoryInvariant /\ SerialInvariant => ScoresNeedApproval /\ SecondOfficer /\ SubmittedIsComplete
  BY DEF RegulatoryInvariant, SerialInvariant, RowsAreSound, PacksAreSound, ReturnsAreComplete,
         SecondOfficer, SubmittedIsComplete
<1> QED
  BY <1>1, <1>2, RegulatoryInvariantHolds, PTL DEF ComparisonsAreVouchedFor

(* Of serial requests, a saved league table can be calculated again from   *)
(* the pack and the return it names (run_league).                          *)
THEOREM LeaguesAreReproducible == Spec => []LeagueIsReproducible
<1>1. RegulatoryInvariant /\ SerialInvariant => LeagueIsReproducible
  BY DEF SerialInvariant, RowsAreSound, RunsAreReproducible, LeagueIsReproducible
<1> QED
  BY <1>1, RegulatoryInvariantHolds, PTL

LEMMA PacksMoveRefines ==
  ASSUME Serial' <=> Serial, Serial => PacksMove
  PROVE  Governed!Next
<1> SUFFICES ASSUME NEW r \in Version
             PROVE  \/ Governed!Absent(r) \/ Governed!Draft(r) \/ Governed!Edit(r)
                    \/ Governed!Seal(r) \/ Governed!Retire(r) \/ Governed!Rest(r)
  BY DEF Governed!Next
<1>1. CASE ~Serial
  BY <1>1 DEF Governed!Absent
<1>2. CASE Serial
  <2> DEFINE row == packs[r]
             new == packs'[r]
  <2>1. CASE new = row /\ editor'[r] = editor[r]
    BY <1>2, <2>1 DEF Governed!Rest
  <2>2. CASE row.status = "absent" /\ new.status = "draft"
    BY <1>2, <2>2 DEF PackState, Governed!Draft
  <2>3. CASE row.status = "draft" /\ new.status = "draft"
    BY <1>2, <2>3 DEF PackState, Governed!Edit
  <2>4. CASE /\ row.status = "draft" /\ new.status = "approved"
             /\ new.content = row.content /\ editor'[r] = editor[r]
             /\ row.content \in Usable /\ new.approver \in User \ {editor[r]}
    BY <1>2, <2>4 DEF PackState, Governed!Seal
  <2>5. CASE /\ row.status = "approved" /\ new.status = "retired"
             /\ new.content = row.content /\ editor'[r] = editor[r] /\ new.approver = row.approver
    BY <1>2, <2>5 DEF PackState, Governed!Retire
  <2> QED
    BY <1>2, <2>1, <2>2, <2>3, <2>4, <2>5 DEF PacksMove, SealMove
<1> QED
  BY <1>1, <1>2

(* Of serial requests, packs implement sealed records: the content of one  *)
(* may change until an officer who did not write it approves it, free of   *)
(* blockers, and never again.                                              *)
THEOREM PacksAreSealedRecords == Spec => ImplementsSealing
<1>1. Init => Governed!Init
  BY DEF Init, Governed!Init, NoPack, PackState
<1>2. RegulatoryInvariant /\ SerialInvariant /\ [Next]_vars => [Governed!Next]_(Governed!vars)
  BY StepIsSerial, PacksMoveRefines, RegulatoryAssumption, RequestsAssumption
<1> QED
  BY <1>1, <1>2, RegulatoryInvariantHolds, PTL DEF Spec, ImplementsSealing, Governed!Spec
=============================================================================
