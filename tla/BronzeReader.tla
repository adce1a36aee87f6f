---------------------------- MODULE BronzeReader ----------------------------
(***************************************************************************)
(* apps/pipelines/bronze.py: iter_events pages through events_raw by id    *)
(* while the sink goes on inserting.                                       *)
(*                                                                         *)
(* The id of a row is taken from a sequence when its INSERT runs, and the  *)
(* row is seen by others when the INSERT commits; two consumers of the     *)
(* sink can be inserting at once (BronzeSink.tla: an evicted one finishes  *)
(* the record in its hands), so rows may appear in another order than that *)
(* of their ids.  Each page is a query of its own and sees what is         *)
(* committed by then.                                                      *)
(***************************************************************************)
EXTENDS Paging

CONSTANTS
    Writers,      \* sessions that may be inserting at the same time
    BatchSize,    \* rows per page
    Rescan,       \* TRUE: a pass starts at id 0, as run_label's does;
                  \* FALSE: it resumes after the last id of the pass before
    MaxId         \* bound: ids handed out

ASSUME ReaderAssumption ==
    /\ BatchSize \in Nat \ {0}
    /\ Rescan \in BOOLEAN
    /\ MaxId \in Nat

VARIABLES
    lastId,       \* the sequence of events_raw.id
    open,         \* per writer: the id of its uncommitted row, 0 if none
    visible,      \* ids of the committed rows
    broken,       \* ids whose payload parse_event rejects
    pc,           \* the reader: "idle" between passes, or "reading"
    after,        \* after_id
    yielded,      \* ids handed to the caller, in any pass
    skipped,      \* ids reported to on_skip, in any pass
    atStart       \* what was visible when the pass began

writerVars == <<lastId, open, visible, broken>>
readerVars == <<pc, after, yielded, skipped, atStart>>
vars == <<writerVars, readerVars>>

Init ==
    /\ lastId = 0
    /\ open = [w \in Writers |-> 0]
    /\ visible = {}
    /\ broken = {}
    /\ pc = "idle"
    /\ after = 0
    /\ yielded = {}
    /\ skipped = {}
    /\ atStart = {}

-----------------------------------------------------------------------------
(* The writers.  A row whose payload breaks the contract of py_common may  *)
(* come from before the contract, or pass Kotlin's parser and not this one.*)

BeginInsert(w) ==
    /\ open[w] = 0
    /\ lastId < MaxId
    /\ lastId' = lastId + 1
    /\ open' = [open EXCEPT ![w] = lastId + 1]
    /\ broken' \in {broken, broken \cup {lastId + 1}}
    /\ UNCHANGED <<visible, readerVars>>

Commit(w) ==
    /\ open[w] # 0
    /\ visible' = visible \cup {open[w]}
    /\ open' = [open EXCEPT ![w] = 0]
    /\ UNCHANGED <<lastId, broken, readerVars>>

(* ON CONFLICT DO NOTHING, or a rollback: the id is used up all the same.  *)
NoRow(w) ==
    /\ open[w] # 0
    /\ open' = [open EXCEPT ![w] = 0]
    /\ UNCHANGED <<lastId, visible, broken, readerVars>>

-----------------------------------------------------------------------------
StartPass ==
    /\ pc = "idle"
    /\ pc' = "reading"
    /\ after' = IF Rescan THEN 0 ELSE after
    /\ atStart' = visible
    /\ UNCHANGED <<writerVars, yielded, skipped>>

(* Wrong on purpose: after_id is set after the row is parsed, so a page of *)
(* broken rows is fetched again.                                           *)
ReadPageSetsAfterLate ==
    LET page == Page(visible, after, BatchSize)
        good == page \ broken
    IN  /\ pc = "reading"
        /\ page # {}
        /\ after' = IF good = {} THEN after
                    ELSE CHOOSE i \in good : \A j \in good : j <= i
        /\ yielded' = yielded \cup good
        /\ skipped' = skipped \cup (page \cap broken)
        /\ UNCHANGED <<writerVars, pc, atStart>>

(* Wrong on purpose: broken rows go to the caller as well.                 *)
ReadPageWithoutSkip ==
    LET page == Page(visible, after, BatchSize)
    IN  /\ pc = "reading"
        /\ page # {}
        /\ after' \in page
        /\ \A i \in page : i <= after'
        /\ yielded' = yielded \cup page
        /\ skipped' = skipped \cup (page \cap broken)
        /\ UNCHANGED <<writerVars, pc, atStart>>

(* One page and the loop over its rows: after_id moves on for every row,   *)
(* the broken ones included.                                               *)
ReadPage ==
    LET page == Page(visible, after, BatchSize)
    IN  /\ pc = "reading"
        /\ page # {}
        /\ after' \in page
        /\ \A i \in page : i <= after'
        /\ yielded' = yielded \cup (page \ broken)
        /\ skipped' = skipped \cup (page \cap broken)
        /\ UNCHANGED <<writerVars, pc, atStart>>

EndPass ==
    /\ pc = "reading"
    /\ Page(visible, after, BatchSize) = {}
    /\ pc' = "idle"
    /\ UNCHANGED <<writerVars, after, yielded, skipped, atStart>>

-----------------------------------------------------------------------------
Write(w) == BeginInsert(w) \/ Commit(w) \/ NoRow(w)
Read == ReadPage \/ EndPass

Next == (\E w \in Writers : Write(w)) \/ StartPass \/ Read

Spec == Init /\ [][Next]_vars

(* A pass, once begun, runs on; whether another is begun is up to whoever  *)
(* calls the batch.                                                        *)
FairSpec == Spec /\ WF_vars(Read)

-----------------------------------------------------------------------------
TypeOK ==
    /\ lastId \in 0..MaxId
    /\ open \in [Writers -> 0..lastId]
    /\ visible \subseteq 1..lastId
    /\ broken \subseteq 1..lastId
    /\ pc \in {"idle", "reading"}
    /\ after \in 0..lastId
    /\ yielded \subseteq visible \ broken
    /\ skipped \subseteq visible \cap broken
    /\ atStart \subseteq visible

Handled == yielded \cup skipped

(* However rows appear while a pass is under way, the pass hands over or   *)
(* reports every row that was there when it began: no gap between ids, no  *)
(* broken row and no page boundary hides one.                              *)
PassCoversItsStart ==
    /\ pc = "idle" => atStart \subseteq Handled
    /\ pc = "reading" => {i \in atStart : i <= after} \subseteq Handled

(* bronze.py says a pass may resume after the last id of the pass before:  *)
(* then no committed row at or below after_id may be one that no pass has  *)
(* handled, because no later pass would ask for it.                        *)
NothingLeftBehind == {i \in visible : i <= after} \subseteq Handled

(* Within a pass after_id only grows, so no row is handed over twice.      *)
EachRowOncePerPass ==
    [][ \/ after' > after
        \/ after' = after /\ yielded' = yielded /\ skipped' = skipped
        \/ pc = "idle" /\ pc' = "reading" ]_vars

(* A pass comes to an end, broken rows and gaps notwithstanding, once no   *)
(* more rows arrive.                                                       *)
PassEnds == (pc = "reading") ~> (pc = "idle")
=============================================================================
