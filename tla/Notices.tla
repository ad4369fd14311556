------------------------------- MODULE Notices -------------------------------
(***************************************************************************)
(* Notices and the reminder job (app/platform/notifications.py, and the    *)
(* producers that the modules register): once a day a command looks for    *)
(* items that are overdue or due soon and leaves their owners a notice.    *)
(* The command may be run again, and two of them at once.                  *)
(*                                                                         *)
(* An item is an action, an assignment, a controlled document or a risk:   *)
(* something with an owner and a due day while it is open.                 *)
(***************************************************************************)
EXTENDS Accounts

CONSTANTS
  Item,            \* items with a due day
  MaxDay,          \* bound on the days
  Soon             \* days before the due day that a notice is due

ASSUME NoticesAssumption == MaxDay \in Nat /\ Soon \in Nat

VARIABLES
  today,           \* the date
  items,           \* the rows of the items: owner, due day, open
  notices,         \* how many rows of notifications there are of each kind
  unread,          \* how many of them are without read_at
  reminded         \* history: what the last run that finished found due

Day == 0..MaxDay

(* A row by what its dedupe key is made of: the owner, the item, and of an *)
(* overdue item the day it was sent, of one due soon the day it is due.    *)
Notice == [user : User, item : Item, kind : {"overdue", "due_soon"}, day : Day]

NoticesInit ==
  /\ today = 0
  /\ items = [i \in Item |-> [owner |-> DefaultAdmin, due |-> MaxDay, open |-> FALSE]]
  /\ notices = [n \in Notice |-> 0]
  /\ unread = notices
  /\ reminded = {}

Kinds(i) ==
  IF ~items[i].open THEN {}
  ELSE CASE items[i].due < today -> {"overdue"}
         [] items[i].due \in today..(today + Soon) -> {"due_soon"}
         [] OTHER -> {}

(* What the producers find, for owners whose account is active.            *)
Reminder(i, kind) ==
  [user |-> items[i].owner, item |-> i, kind |-> kind,
   day |-> IF kind = "overdue" THEN today ELSE items[i].due]

Due == UNION {{Reminder(i, kind) : kind \in Kinds(i)} : i \in {j \in Item : SignedIn(items[j].owner)}}

(* notify: not what was sent already.                                      *)
Sent(n) == notices[n] > 0

OneMore(rows, batch) == [n \in Notice |-> IF n \in batch THEN rows[n] + 1 ELSE rows[n]]
-----------------------------------------------------------------------------
(* What the other modules do to their items, and the passing of days.      *)
SetItem(i, owner, due, open) ==
  /\ Free
  /\ items' = [items EXCEPT ![i] = [owner |-> owner, due |-> due, open |-> open]]
  /\ UNCHANGED <<accounts, today, notices, unread, reminded, req>>

NextDay ==
  /\ today < MaxDay
  /\ today' = today + 1
  /\ UNCHANGED <<accounts, items, notices, unread, reminded, req>>

(* run_reminders: one transaction for all that is to be sent.              *)
RunReminders(w) ==
  /\ Begin(w, [step |-> "remind", due |-> Due, batch |-> {n \in Due : ~Sent(n)}])
  /\ UNCHANGED <<accounts, today, items, notices, unread, reminded>>

(* uq_notification_dedupe: another run has sent one of them meanwhile, and *)
(* nothing of this one is kept.                                            *)
AlreadySent_Never(batch) == FALSE
AlreadySent(batch) == \E n \in batch : Sent(n)

CommitReminders(w) ==
  LET q == req[w]
  IN /\ q.step = "remind"
     /\ IF AlreadySent(q.batch) THEN UNCHANGED <<notices, unread, reminded>>
        ELSE /\ notices' = OneMore(notices, q.batch)
             /\ unread' = OneMore(unread, q.batch)
             /\ reminded' = q.due
     /\ Finish(w)
     /\ UNCHANGED <<accounts, today, items>>

(* read_notification and read_all.                                         *)
ReadNotice(n) ==
  /\ Free
  /\ MayUse(n.user)
  /\ unread[n] > 0
  /\ unread' = [unread EXCEPT ![n] = @ - 1]
  /\ UNCHANGED <<accounts, today, items, notices, reminded, req>>

ReadAll(u) ==
  /\ Free
  /\ MayUse(u)
  /\ unread' = [n \in Notice |-> IF n.user = u THEN 0 ELSE unread[n]]
  /\ UNCHANGED <<accounts, today, items, notices, reminded, req>>

NoticesNext ==
  \/ \E i \in Item, o \in Account, due \in Day, open \in BOOLEAN : SetItem(i, o, due, open)
  \/ NextDay
  \/ \E w \in Worker : RunReminders(w) \/ CommitReminders(w)
  \/ \E n \in Notice : ReadNotice(n)
  \/ \E u \in User : ReadAll(u)

NoticesTypeOK ==
  /\ today \in Day
  /\ items \in [Item -> [owner : User, due : Day, open : BOOLEAN]]
  /\ \A n \in Notice : unread[n] \in 0..notices[n]
-----------------------------------------------------------------------------
(* When the command has finished, every owner has the notices of that day: *)
(* of what is overdue one dated that day, of what is due soon one for that *)
(* due date; and nobody has two rows for the same day or due date, however *)
(* often or at once it is run (notifications.py:62: "Safe to run           *)
(* repeatedly").  Two runs at once both find it not sent yet, so this is   *)
(* owed to the unique key (models.py:198): the run that loses the race     *)
(* keeps nothing, and its notices are left to the next one.                *)
RemindersAreDailyAndOnce ==
  /\ \A n \in reminded : Sent(n)
  /\ \A n \in Notice : notices[n] <= 1
=============================================================================
