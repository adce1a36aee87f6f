------------------------------ MODULE Tracker ------------------------------
(***************************************************************************)
(* apps/web/src/tracker.ts, class Tracker: the browser's queue of events.  *)
(* Impressions wait for a timer or a full queue, actions leave at once and *)
(* take the queue with them.  Events are the numbers they were made in.    *)
(***************************************************************************)
EXTENDS Naturals, Sequences

CONSTANT FlushMax      \* FLUSH_MAX

ASSUME FlushMaxAssumption == FlushMax \in Nat \ {0}

VARIABLES
    queue,        \* events made and not yet handed to fetch
    handle,       \* this.timer is not null
    ticking,      \* time-outs that are set
    sent          \* the batches handed to fetch

trackerVars == <<queue, handle, ticking, sent>>

InitTracker ==
    /\ queue = <<>>
    /\ handle = FALSE
    /\ ticking = 0
    /\ sent = <<>>

(* Wrong on purpose: the handle of a cleared timer is kept.                *)
FlushKeepsHandle(events) ==
    /\ ticking' = IF handle /\ ticking > 0 THEN ticking - 1 ELSE ticking
    /\ handle' = handle
    /\ queue' = <<>>
    /\ sent' = IF events = <<>> THEN sent ELSE Append(sent, events)

(* flush, on a queue of these events.                                      *)
Flush(events) ==
    /\ ticking' = IF handle /\ ticking > 0 THEN ticking - 1 ELSE ticking
    /\ handle' = FALSE
    /\ queue' = <<>>
    /\ sent' = IF events = <<>> THEN sent ELSE Append(sent, events)

Impression(e) ==
    LET events == Append(queue, e)
    IN  \/ /\ Len(events) >= FlushMax
           /\ Flush(events)
        \/ /\ Len(events) < FlushMax
           /\ queue' = events
           /\ handle' = TRUE
           /\ ticking' = IF handle THEN ticking ELSE ticking + 1
           /\ UNCHANGED sent

(* Wrong on purpose: the action leaves at once, the queue stays.           *)
ActionAlone(e) ==
    /\ sent' = Append(sent, <<e>>)
    /\ UNCHANGED <<queue, handle, ticking>>

Action(e) == Flush(Append(queue, e))

(* The time-out is over, or the tab is hidden.                             *)
TimerFires ==
    /\ ticking > 0
    /\ Flush(queue)

Hide == Flush(queue)

-----------------------------------------------------------------------------
(* The queue is below its limit, and one time-out is set exactly as long   *)
(* as an event waits in it: a flush leaves no timer behind that would cut  *)
(* the next batch short, and no event waits without one.                   *)
QueueIsServed ==
    /\ Len(queue) < FlushMax
    /\ handle <=> queue # <<>>
    /\ ticking = IF queue # <<>> THEN 1 ELSE 0
=============================================================================
