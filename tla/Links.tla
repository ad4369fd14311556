-------------------------------- MODULE Links --------------------------------
(***************************************************************************)
(* Links between records (app/platform/links.py, app/platform/entities.py) *)
(* of any module: a link may be pinned to a version of what it points to.  *)
(* Who adds or removes one may change the record it starts from and see    *)
(* the one it points to; a listing leaves out what its reader may not see. *)
(***************************************************************************)
EXTENDS Access, SequencesExt

CONSTANTS
  Entity,          \* records of a registered type
  UnitOf,          \* the unit that governs each
  VersionNo,       \* version numbers a link may be pinned to
  Unpinned,        \* no version
  Evidence,        \* pairs of records linked as evidence; the others, as something else
  MaxLink          \* bound on the links of one kind

ASSUME LinksAssumption ==
  /\ UnitOf \in [Entity -> Unit]
  /\ Evidence \subseteq Entity \X Entity
  /\ Unpinned \notin VersionNo
  /\ MaxLink \in Nat

VARIABLES
  links,           \* how many rows of entity_links there are of each kind
  comments         \* who commented on each record

Pin == VersionNo \cup {Unpinned}
Link == {l \in [from : Entity, to : Entity, pin : Pin] : l.from # l.to}

LinksInit == links = [l \in Link |-> 0] /\ comments = [e \in Entity |-> {}]

MadeLinks == {l \in Link : links[l] > 0}

(* entities.load: the record, to somebody who sees it and holds the role.  *)
load(s, e, role) == can_see(s, UnitOf[e]) /\ (role # "viewer" => can(s, UnitOf[e], role))

Scope(u) == resolve_scope(u)

LoadLinks(w, request) == Begin(w, request) /\ UNCHANGED <<accounts, units, grants, duties, links, comments>>
-----------------------------------------------------------------------------
(* add_link: looked up first.                                              *)
AddLink(w, u, l) ==
  /\ MayUse(u)
  /\ load(Scope(u), l.from, "contributor")
  /\ load(Scope(u), l.to, "viewer")
  /\ l \notin MadeLinks
  /\ LoadLinks(w, [step |-> "link", link |-> l])

(* uq_entity_link refuses a second row, unless the version is NULL: to the *)
(* database two NULLs differ.                                              *)
Refused(l) == l.pin # Unpinned /\ l \in MadeLinks

CommitLink(w) ==
  LET l == req[w].link
  IN /\ req[w].step = "link"
     /\ links' = IF Refused(l) \/ links[l] = MaxLink THEN links ELSE [links EXCEPT ![l] = @ + 1]
     /\ Finish(w)
     /\ UNCHANGED <<accounts, units, grants, duties, comments>>

(* remove_link: of pinned evidence, with a reason.                         *)
RemoveLink(w, u, l, reasoned) ==
  /\ MayUse(u)
  /\ l \in MadeLinks
  /\ load(Scope(u), l.from, "contributor")
  /\ l.pin # Unpinned /\ <<l.from, l.to>> \in Evidence => reasoned
  /\ LoadLinks(w, [step |-> "unlink", link |-> l])

CommitUnlink(w) ==
  LET l == req[w].link
  IN /\ req[w].step = "unlink"
     /\ links' = IF links[l] = 0 THEN links ELSE [links EXCEPT ![l] = @ - 1]
     /\ Finish(w)
     /\ UNCHANGED <<accounts, units, grants, duties, comments>>

(* add_comment: by whoever sees the record and is not read-only.           *)
AddComment(u, e) ==
  /\ Free
  /\ MayUse(u)
  /\ load(Scope(u), e, "viewer")
  /\ ~ReadOnly(Scope(u))
  /\ comments' = [comments EXCEPT ![e] = @ \cup {u}]
  /\ UNCHANGED <<accounts, units, grants, duties, links, req>>

(* links_for: the links of a record whose other end the reader sees; the   *)
(* others are only counted.                                                *)
Touching(e) == {l \in MadeLinks : e \in {l.from, l.to}}
Listed(s, e) == {l \in Touching(e) : \A o \in {l.from, l.to} \ {e} : load(s, o, "viewer")}
Hidden(s, e) == Touching(e) \ Listed(s, e)

LinksNext ==
  \/ \E u \in User, l \in Link : \E w \in Waiting :
       AddLink(w, u, l) \/ \E reasoned \in BOOLEAN : RemoveLink(w, u, l, reasoned)
  \/ \E u \in User, e \in Entity : AddComment(u, e)
  \/ \E w \in Worker : CommitLink(w) \/ CommitUnlink(w)

LinksTypeOK == links \in [Link -> 0..MaxLink] /\ comments \in [Entity -> SUBSET User]
-----------------------------------------------------------------------------
(* There is one link of a kind between two records, and a pinned one also  *)
(* when two requests add it at once (links.py:35); of links without a      *)
(* version the constraint takes any number, so there it needs serial       *)
(* requests.  A reader who is sent a link may open both of its ends.       *)
LinksAreMadeOnce ==
  /\ \A l \in Link : l.pin # Unpinned \/ Serial => links[l] <= 1
  /\ \A u \in Account :
       LET s == Scope(u)
       IN \A e \in Entity : load(s, e, "viewer") =>
            \A l \in Listed(s, e) : can_see(s, UnitOf[l.from]) /\ can_see(s, UnitOf[l.to])
=============================================================================
