---------------------------- MODULE LiveChannel ----------------------------
(***************************************************************************)
(* The notifications that follow the CEO through the application: rows     *)
(* written by lib/notify.ts and marked read by app/actions/notifications,  *)
(* the stream app/api/work/live/stream (its notifications-only form), and  *)
(* the provider components/notifications/live-notifications-provider.tsx   *)
(* with lib/live-notification-surfacing.ts.                                *)
(*                                                                         *)
(* Notifications are numbered in order of creation.  Backoffs, heartbeat   *)
(* comments and the dismissal of a toast are left out.                     *)
(***************************************************************************)
EXTENDS Naturals, FiniteSets

CONSTANTS
    MaxRows,    (* bound on the notifications                               *)
    Limit,      (* DEFAULT_NOTIFICATION_LIMIT                               *)
    MaxDrops    (* bound on the connections lost                            *)

VARIABLES
    kinds,     (* the notifications written: urgent ones raise a toast      *)
    unread,    (* those not read                                            *)
    hidden,    (* document.hidden                                           *)
    link,      (* [open, sent]: the stream and its last frame               *)
    badge,     (* the provider's unreadCount                                *)
    seen,      (* seenRef                                                   *)
    toasted,   (* how often each notification has raised a toast            *)
    drops      (* connections lost so far                                   *)

vars == <<kinds, unread, hidden, link, badge, seen, toasted, drops>>

Ids == 1 .. MaxRows

Written == {i \in Ids : kinds[i] # "none"}

(* lastSent = "": what no frame equals.                                    *)
Nothing == [list |-> {}, count |-> MaxRows + 1]

Closed == [open |-> FALSE, sent |-> Nothing]

(* The page is rendered on the server with what is unread then.            *)
Init ==
    /\ \E n \in 0 .. MaxRows : \E early \in [1 .. n -> {"urgent", "quiet"}] :
        /\ kinds = [i \in Ids |-> IF i <= n THEN early[i] ELSE "none"]
        /\ unread = 1 .. n
        /\ badge = n
        /\ seen = {i \in 1 .. n : n - i < Limit}
    /\ hidden = FALSE
    /\ link = Closed
    /\ toasted = [i \in Ids |-> 0]
    /\ drops = 0

---------------------------------------------------------------------------
Notify(kind) ==
    /\ Written # Ids
    /\ LET i == Cardinality(Written) + 1
       IN  kinds' = [kinds EXCEPT ![i] = kind] /\ unread' = unread \cup {i}
    /\ UNCHANGED <<hidden, link, badge, seen, toasted, drops>>

(* markNotificationRead, and markAllRead.                                  *)
MarkRead(is) ==
    /\ is # {} /\ is \subseteq unread
    /\ unread' = unread \ is
    /\ UNCHANGED <<kinds, hidden, link, badge, seen, toasted, drops>>

(* loadLiveNotifications: the newest unread ones and the count of them all.*)
Newest == {i \in unread : Cardinality({j \in unread : j > i}) < Limit}
Frame == [list |-> Newest, count |-> Cardinality(unread)]

(* Mutated form: only a change of the list is sent.                        *)
ListChanged(frame) == link.sent = Nothing \/ link.sent.list # frame.list

(* json !== lastSent                                                       *)
Changed(frame) == link.sent # frame

(* seenRef.current, seeded from the server render and never emptied.       *)
SeenBefore == seen

(* surfaceNotifications                                                    *)
Fresh(frame) == {i \in frame.list \ SeenBefore : kinds[i] = "urgent"}

(* The route's tick and the provider's applyFrame.                         *)
Tick ==
    /\ link.open
    /\ Changed(Frame)
    /\ link' = [link EXCEPT !.sent = Frame]
    /\ badge' = Frame.count
    /\ toasted' = [i \in Ids |-> IF i \in Fresh(Frame) THEN toasted[i] + 1 ELSE toasted[i]]
    /\ seen' = SeenBefore \cup Frame.list
    /\ UNCHANGED <<kinds, unread, hidden, drops>>

(* open(): on mount, when the tab comes back, after a reconnect delay.     *)
Open ==
    /\ ~hidden /\ ~link.open
    /\ link' = [open |-> TRUE, sent |-> Nothing]
    /\ UNCHANGED <<kinds, unread, hidden, badge, seen, toasted, drops>>

(* The link breaks, or the route sends "fatal" after its failures.         *)
Drop ==
    /\ link.open /\ drops < MaxDrops
    /\ link' = Closed
    /\ drops' = drops + 1
    /\ UNCHANGED <<kinds, unread, hidden, badge, seen, toasted>>

(* sync(): a hidden tab closes its stream.                                 *)
VisibilityChange ==
    /\ hidden' = ~hidden
    /\ link' = IF hidden' THEN Closed ELSE [open |-> TRUE, sent |-> Nothing]
    /\ UNCHANGED <<kinds, unread, badge, seen, toasted, drops>>

Next ==
    \/ \E kind \in {"urgent", "quiet"} : Notify(kind)
    \/ \E is \in {unread} \cup {{i} : i \in unread} : MarkRead(is)
    \/ Tick \/ Open \/ Drop \/ VisibilityChange

Spec == Init /\ [][Next]_vars

(* The route polls and the provider reconnects.                            *)
Fairness == WF_vars(Tick) /\ WF_vars(Open)

LiveSpec == Spec /\ Fairness

---------------------------------------------------------------------------
TypeOK ==
    /\ kinds \in [Ids -> {"none", "urgent", "quiet"}]
    /\ unread \subseteq Written
    /\ hidden \in BOOLEAN
    /\ link.open \in BOOLEAN
    /\ link.sent \in [list : SUBSET Ids, count : 0 .. MaxRows + 1]
    /\ badge \in 0 .. MaxRows
    /\ seen \subseteq Written
    /\ toasted \in [Ids -> Nat]
    /\ drops \in 0 .. MaxDrops

(* A tab that stays in view ends up with the true count, also when it      *)
(* exceeds the list that is sent (live-pipeline-data.ts, "true count of    *)
(* all unread notifications").                                             *)
BadgeCatchesUp == <>[](~hidden) => <>[](badge = Cardinality(unread))
============================================================================
