----------------------------- MODULE LogStream -----------------------------
(***************************************************************************)
(* The live output of one execution session, from the agent to the         *)
(* browser: the worker's batching writer (worker/session-log-streamer.ts), *)
(* the SessionLogChunk rows, the server-sent-event route that tails them   *)
(* (app/api/work/sessions/[sessionId]/stream/route.ts) and the hook that   *)
(* collects them (lib/agent-stream/use-session-stream.ts).                 *)
(*                                                                         *)
(* An event is its sequence number.  A frame reaches the browser as it is  *)
(* sent, or the connection is lost before it.  Backoffs and heartbeat      *)
(* comments are left out.                                                  *)
(***************************************************************************)
EXTENDS Naturals, FiniteSets

CONSTANTS
    MaxEvents,   (* bound on what the agent prints                          *)
    Cap,         (* AGENT_STREAM_MAX_EVENTS_PER_SESSION                     *)
    PageSize,    (* READ_PAGE_SIZE                                          *)
    MaxReads,    (* MAX_CONSECUTIVE_FAILURES                                *)
    MaxFaults    (* bound on failed flushes, failed reads and lost links    *)

VARIABLES
    agent,      (* "running", "ended", or "lost" with its worker            *)
    printed,    (* events the agent has printed                             *)
    seq,        (* the writer's last sequence number                        *)
    truncated,  (* the writer has put in its truncation marker              *)
    buffer,     (* accepted, not yet sent to the database                   *)
    batches,    (* batches under way to the database                        *)
    stored,     (* the rows                                                 *)
    session,    (* status of the session: "running" or "terminal"           *)
    link,       (* the route's connection: [open, at, last, status, fails]  *)
    client,     (* the hook: "watching" or "finished"                       *)
    seen,       (* the events it shows                                      *)
    faults      (* faults so far                                            *)

writer == <<agent, printed, seq, truncated, buffer, batches, stored, session>>
reader == <<link, client, seen>>
vars == <<writer, reader, faults>>

Closed == [open |-> FALSE, at |-> "read", last |-> 0, status |-> "running", fails |-> 0]

Init ==
    /\ agent = "running" /\ printed = 0
    /\ seq = 0 /\ truncated = FALSE
    /\ buffer = {} /\ batches = {} /\ stored = {}
    /\ session = "running"
    /\ link = Closed /\ client = "watching" /\ seen = {}
    /\ faults = 0

Fault == faults < MaxFaults /\ faults' = faults + 1

---------------------------------------------------------------------------
(* The worker.                                                             *)

(* handler: the event, the marker, or nothing once the marker is in.       *)
Emit ==
    /\ agent = "running" /\ printed < MaxEvents
    /\ printed' = printed + 1
    /\ IF truncated THEN UNCHANGED <<seq, buffer, truncated>>
       ELSE /\ seq' = seq + 1
            /\ buffer' = buffer \cup {seq + 1}
            /\ truncated' = (seq >= Cap)
    /\ UNCHANGED <<agent, batches, stored, session, reader, faults>>

(* Mutated form: a flush starts while another is under way.                *)
MayFlushOverlapping == buffer # {}

(* flush: one at a time.                                                   *)
MayFlush == buffer # {} /\ batches = {}

(* The interval timer, and stop() at the end.                              *)
Flush ==
    /\ agent # "lost"
    /\ MayFlush
    /\ batches' = batches \cup {buffer}
    /\ buffer' = {}
    /\ UNCHANGED <<agent, printed, seq, truncated, stored, session, reader, faults>>

(* appendSessionLogEvents commits.                                         *)
Append(b) ==
    /\ b \in batches
    /\ stored' = stored \cup b
    /\ batches' = batches \ {b}
    /\ UNCHANGED <<agent, printed, seq, truncated, buffer, session, reader, faults>>

(* It fails: the batch is dropped.                                         *)
DropBatch(b) ==
    /\ b \in batches
    /\ Fault
    /\ batches' = batches \ {b}
    /\ UNCHANGED <<agent, printed, seq, truncated, buffer, stored, session, reader>>

AgentEnds ==
    /\ agent = "running"
    /\ agent' = "ended"
    /\ UNCHANGED <<printed, seq, truncated, buffer, batches, stored, session, reader, faults>>

(* The worker dies, and what it had buffered with it.                      *)
WorkerDies ==
    /\ agent # "lost"
    /\ Fault
    /\ agent' = "lost" /\ buffer' = {}
    /\ UNCHANGED <<printed, seq, truncated, batches, stored, session, reader>>

(* The result is recorded, or the reaper closes the session.  The worker   *)
(* stops its writer only after that.                                       *)
EndSession ==
    /\ agent \in {"ended", "lost"}
    /\ session' = "terminal"
    /\ UNCHANGED <<agent, printed, seq, truncated, buffer, batches, stored, reader, faults>>

---------------------------------------------------------------------------
(* The route and the hook.                                                 *)

(* GET: a tail from the first event, with the status of this moment.       *)
Connect ==
    /\ client = "watching" /\ ~link.open
    /\ link' = [Closed EXCEPT !.open = TRUE, !.status = session]
    /\ UNCHANGED <<writer, client, seen, faults>>

Unread == {e \in stored : e > link.last}

Page == {e \in Unread : Cardinality({d \in Unread : d < e}) < PageSize}

Highest(es) == CHOOSE e \in es : \A d \in es : d <= e

(* onmessage: whether the hook stops listening.                            *)
Finishes(payload) == payload.done \/ payload.status = "terminal"

(* A frame: the hook adds what it had not seen and may close for good.     *)
Push(payload) ==
    /\ seen' = seen \cup payload.events
    /\ client' = IF Finishes(payload) THEN "finished" ELSE client

(* tick, with events after the cursor: they are pushed with the status as  *)
(* last known.                                                             *)
TailEvents ==
    /\ link.open /\ link.at = "read" /\ Unread # {}
    /\ Push([events |-> Page, status |-> link.status, done |-> FALSE])
    /\ link' = IF Finishes([events |-> Page, status |-> link.status, done |-> FALSE])
               THEN Closed
               ELSE [link EXCEPT !.last = Highest(Page), !.fails = 0]
    /\ UNCHANGED <<writer, faults>>

(* tick, with none: on to the status.                                      *)
TailQuiet ==
    /\ link.open /\ link.at = "read" /\ Unread = {}
    /\ link' = [link EXCEPT !.at = "status"]
    /\ UNCHANGED <<writer, client, seen, faults>>

(* getSessionStreamMeta.                                                   *)
FreshStatus == session

TailStatus ==
    /\ link.open /\ link.at = "status"
    /\ IF FreshStatus = "terminal"
       THEN /\ Push([events |-> {}, status |-> "terminal", done |-> TRUE])
            /\ link' = Closed
       ELSE /\ link' = [link EXCEPT !.at = "read", !.status = FreshStatus, !.fails = 0]
            /\ UNCHANGED <<client, seen>>
    /\ UNCHANGED <<writer, faults>>

(* A read fails; after MaxReads in a row the route gives up.               *)
ReadFails ==
    /\ link.open
    /\ Fault
    /\ link' = IF link.fails + 1 >= MaxReads THEN Closed
               ELSE [link EXCEPT !.at = "read", !.fails = @ + 1]
    /\ UNCHANGED <<writer, client, seen>>

(* The connection breaks; the browser or scheduleReconnect opens another.  *)
Disconnect ==
    /\ link.open
    /\ Fault
    /\ link' = Closed
    /\ UNCHANGED <<writer, client, seen>>

---------------------------------------------------------------------------
Next ==
    \/ Emit \/ Flush \/ AgentEnds \/ WorkerDies \/ EndSession
    \/ \E b \in batches : Append(b) \/ DropBatch(b)
    \/ Connect \/ TailEvents \/ TailQuiet \/ TailStatus \/ ReadFails \/ Disconnect

Fairness ==
    /\ WF_vars(Flush) /\ WF_vars(\E b \in batches : Append(b))
    /\ WF_vars(Connect) /\ WF_vars(TailEvents \/ TailQuiet \/ TailStatus)

Spec == Init /\ [][Next]_vars

LiveSpec == Spec /\ Fairness

---------------------------------------------------------------------------
TypeOK ==
    /\ agent \in {"running", "ended", "lost"}
    /\ printed \in 0 .. MaxEvents
    /\ seq \in 0 .. Cap + 1
    /\ truncated \in BOOLEAN
    /\ buffer \subseteq 1 .. seq /\ stored \subseteq 1 .. seq
    /\ batches \subseteq SUBSET (1 .. seq)
    /\ session \in {"running", "terminal"}
    /\ link \in [open : BOOLEAN, at : {"read", "status"}, last : 0 .. seq,
                 status : {"running", "terminal"}, fails : 0 .. MaxReads]
    /\ client \in {"watching", "finished"}
    /\ seen \subseteq stored
    /\ faults \in 0 .. MaxFaults

(* The cursor never passes an event that is stored behind it: batches      *)
(* reach the table in order of their numbers, so "greater than the last    *)
(* one sent" misses nothing, whatever was dropped, and however often the   *)
(* link broke (flush's in-flight guard, readSessionLogEvents).             *)
NothingSkipped == link.open => {e \in stored : e <= link.last} \subseteq seen

============================================================================
