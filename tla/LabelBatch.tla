----------------------------- MODULE LabelBatch -----------------------------
(***************************************************************************)
(* apps/pipelines/label.py: runs of `reco-pipelines label`.  A run reads   *)
(* the whole of events_raw page by page, builds a label row for every      *)
(* impression it can join, and upserts the rows into impression_label in   *)
(* chunks, each a transaction; a chunk that fails is retried row by row.   *)
(* Nothing keeps two runs from overlapping, and rows arrive meanwhile.     *)
(*                                                                         *)
(* Which outcome is credited is Attribution.tla's subject: here all rows   *)
(* have one attribution key and a label row is the set of outcomes it was  *)
(* computed from.  A purchase that is credited puts its amount into the    *)
(* row; one whose amount the table refuses is credited wherever it is      *)
(* seen, so no row of a run that saw it fits.                              *)
(***************************************************************************)
EXTENDS Paging

CONSTANTS
    Runs,         \* processes that may run the batch
    Payloads,     \* the kinds of rows that reach bronze, out of Kinds
    BatchSize,    \* batch_size of iter_events
    ChunkSize,    \* _UPSERT_CHUNK
    MaxId,        \* bound: rows of events_raw
    MaxErrors,    \* bound: database errors that are not the row's fault
    MaxCrashes    \* bound: runs that die with their connection

(* "impression": has its key, and impression_label takes it                *)
(* "oversized":  has its key, but a value does not fit its column          *)
(* "partial":    an impression without session, request or item            *)
(* "outcome":    click, cart or purchase                                   *)
(* "costly":     a purchase whose amount the sink's Event takes and the    *)
(*               column of impression_label does not, as the empty string  *)
(* "broken":     parse_event raises ValueError or TypeError                *)
(* "fatal":      parsing or bucketing it raises anything else              *)
Kinds == {"impression", "oversized", "partial", "outcome", "costly",
          "broken", "fatal"}

ASSUME LabelAssumption ==
    /\ Payloads \subseteq Kinds
    /\ BatchSize \in Nat \ {0}
    /\ ChunkSize \in Nat \ {0}
    /\ MaxId \in Nat
    /\ MaxErrors \in Nat
    /\ MaxCrashes \in Nat

VARIABLES
    row,          \* events_raw: the kind of each committed row, else "none"
    labels,       \* impression_label: what each row was computed from
    run,          \* the runs
    atStart,      \* per run: the rows that were there when it began
    overlapped,   \* per run: another run was active during it
    errors,       \* database errors so far
    crashes       \* crashes so far

historyVars == <<atStart, overlapped>>
vars == <<row, labels, run, historyVars, errors, crashes>>

Ids == 1..MaxId
NoRow == "none"
Unlabelled == {0}     \* no set of row ids

Visible == {i \in Ids : row[i] # NoRow}
Of(S, kinds) == {i \in S : row[i] \in kinds}

(* Impressions that build_label_rows keeps, and what a run knows of them.  *)
Joinable(S) == Of(S, {"impression", "oversized"})
Evidence(S) == Of(S, {"outcome", "costly"})

Fresh(state) ==
    [pc |-> state, after |-> 0, events |-> {}, skippedBronze |-> 0,
     skippedImpression |-> 0, todo |-> {}, retry |-> {}, labeled |-> 0,
     failed |-> 0, errors |-> 0]

Active(r) == run[r].pc \in {"reading", "writing"}

Init ==
    /\ row = [i \in Ids |-> NoRow]
    /\ labels = [i \in Ids |-> Unlabelled]
    /\ run = [r \in Runs |-> Fresh("idle")]
    /\ atStart = [r \in Runs |-> {}]
    /\ overlapped = [r \in Runs |-> FALSE]
    /\ errors = 0
    /\ crashes = 0

-----------------------------------------------------------------------------
(* The sink commits a row.  Ids need not become visible in order: see      *)
(* BronzeReader.tla.                                                       *)
Store(i, kind) ==
    /\ row[i] = NoRow
    /\ row' = [row EXCEPT ![i] = kind]
    /\ UNCHANGED <<labels, run, historyVars, errors, crashes>>

-----------------------------------------------------------------------------
(* run_label: reading and building.                                        *)

Start(r) ==
    /\ ~Active(r)
    /\ run' = [run EXCEPT ![r] = Fresh("reading")]
    /\ atStart' = [atStart EXCEPT ![r] = Visible]
    /\ overlapped' = [q \in Runs |->
          IF q = r THEN \E p \in Runs \ {r} : Active(p)
                   ELSE overlapped[q] \/ Active(q)]
    /\ UNCHANGED <<row, labels, errors, crashes>>

NextPage(r) == Page(Visible, run[r].after, BatchSize)

(* Wrong on purpose: a caller's own on_skip replaces the counting one.     *)
ReadPageUncounted(r) ==
    LET page == NextPage(r)
    IN  /\ run[r].pc = "reading"
        /\ page # {}
        /\ Of(page, {"fatal"}) = {}
        /\ \E last \in page :
              /\ \A i \in page : i <= last
              /\ run' = [run EXCEPT
                    ![r].after = last,
                    ![r].events = @ \cup Joinable(page) \cup Evidence(page)]
        /\ UNCHANGED <<row, labels, historyVars, errors, crashes>>

(* One page of iter_events and the loop of build_label_rows over it, with  *)
(* the counting callbacks of run_label.                                    *)
ReadPage(r) ==
    LET page == NextPage(r)
    IN  /\ run[r].pc = "reading"
        /\ page # {}
        /\ Of(page, {"fatal"}) = {}
        /\ \E last \in page :
              /\ \A i \in page : i <= last
              /\ run' = [run EXCEPT
                    ![r].after = last,
                    ![r].events = @ \cup Joinable(page) \cup Evidence(page),
                    ![r].skippedBronze = @ + Cardinality(Of(page, {"broken"})),
                    ![r].skippedImpression =
                        @ + Cardinality(Of(page, {"partial"}))]
        /\ UNCHANGED <<row, labels, historyVars, errors, crashes>>

(* An exception that iter_events does not catch ends the process.          *)
DieReading(r) ==
    /\ run[r].pc = "reading"
    /\ Of(NextPage(r), {"fatal"}) # {}
    /\ run' = [run EXCEPT ![r] = Fresh("dead")]
    /\ UNCHANGED <<row, labels, historyVars, errors, crashes>>

(* Wrong on purpose: rows are built before the last page is read.          *)
BuildEarly(r) ==
    /\ run[r].pc = "reading"
    /\ run' = [run EXCEPT ![r].pc = "writing",
                          ![r].todo = Joinable(run[r].events)]
    /\ UNCHANGED <<row, labels, historyVars, errors, crashes>>

(* Bronze is exhausted; the second pass of build_label_rows.               *)
Build(r) ==
    /\ run[r].pc = "reading"
    /\ NextPage(r) = {}
    /\ run' = [run EXCEPT ![r].pc = "writing",
                          ![r].todo = Joinable(run[r].events)]
    /\ UNCHANGED <<row, labels, historyVars, errors, crashes>>

-----------------------------------------------------------------------------
(* _upsert_rows: todo holds the rows of the chunks to come, retry those of *)
(* the chunk that is being retried row by row.                             *)

Fits(i, r) == row[i] # "oversized" /\ Of(run[r].events, {"costly"}) = {}

NextChunk(r) == Page(run[r].todo, 0, ChunkSize)
NextRow(r) == Page(run[r].retry, 0, 1)

(* Wrong on purpose: DO NOTHING, as in the sink.                           *)
UpsertDoNothing(S, r) ==
    labels' = [i \in Ids |-> IF i \in S /\ labels[i] = Unlabelled
                             THEN Evidence(run[r].events) ELSE labels[i]]

(* ON CONFLICT (impression_id) DO UPDATE: the last writer wins.            *)
Upsert(S, r) ==
    labels' = [i \in Ids |-> IF i \in S THEN Evidence(run[r].events)
                                        ELSE labels[i]]

(* executemany and commit.                                                 *)
UpsertChunk(r) ==
    /\ run[r].pc = "writing"
    /\ run[r].retry = {}
    /\ run[r].todo # {}
    /\ \A i \in NextChunk(r) : Fits(i, r)
    /\ Upsert(NextChunk(r), r)
    /\ run' = [run EXCEPT ![r].todo = @ \ NextChunk(r),
                          ![r].labeled = @ + Cardinality(NextChunk(r))]
    /\ UNCHANGED <<row, historyVars, errors, crashes>>

(* psycopg.Error: a value that does not fit, or an error that is not the   *)
(* rows' fault and leaves the connection usable.                           *)
Fails(S, r) ==
    \/ /\ \E i \in S : ~Fits(i, r)
       /\ UNCHANGED errors
    \/ /\ errors < MaxErrors
       /\ errors' = errors + 1

(* Wrong on purpose: a chunk that fails is dropped as a whole.             *)
ChunkDropped(r) ==
    /\ run[r].pc = "writing"
    /\ run[r].retry = {}
    /\ run[r].todo # {}
    /\ Fails(NextChunk(r), r)
    /\ run' = [run EXCEPT ![r].todo = @ \ NextChunk(r),
                          ![r].failed = @ + Cardinality(NextChunk(r)),
                          ![r].errors = @ + errors' - errors]
    /\ UNCHANGED <<row, labels, historyVars, crashes>>

(* rollback, and the chunk goes row by row.                                *)
ChunkFails(r) ==
    /\ run[r].pc = "writing"
    /\ run[r].retry = {}
    /\ run[r].todo # {}
    /\ Fails(NextChunk(r), r)
    /\ run' = [run EXCEPT ![r].todo = @ \ NextChunk(r),
                          ![r].retry = NextChunk(r),
                          ![r].errors = @ + errors' - errors]
    /\ UNCHANGED <<row, labels, historyVars, crashes>>

UpsertRow(r) ==
    /\ run[r].pc = "writing"
    /\ run[r].retry # {}
    /\ \A i \in NextRow(r) : Fits(i, r)
    /\ Upsert(NextRow(r), r)
    /\ run' = [run EXCEPT ![r].retry = @ \ NextRow(r),
                          ![r].labeled = @ + 1]
    /\ UNCHANGED <<row, historyVars, errors, crashes>>

(* Wrong on purpose: the row is tried again until it succeeds.             *)
RowRetried(r) ==
    /\ run[r].pc = "writing"
    /\ run[r].retry # {}
    /\ Fails(NextRow(r), r)
    /\ run' = [run EXCEPT ![r].errors = @ + errors' - errors]
    /\ UNCHANGED <<row, labels, historyVars, crashes>>

RowFails(r) ==
    /\ run[r].pc = "writing"
    /\ run[r].retry # {}
    /\ Fails(NextRow(r), r)
    /\ run' = [run EXCEPT ![r].retry = @ \ NextRow(r),
                          ![r].failed = @ + 1,
                          ![r].errors = @ + errors' - errors]
    /\ UNCHANGED <<row, labels, historyVars, crashes>>

(* run_label returns its LabelReport.                                      *)
Report(r) ==
    /\ run[r].pc = "writing"
    /\ run[r].retry = {}
    /\ run[r].todo = {}
    /\ run' = [run EXCEPT ![r].pc = "done"]
    /\ UNCHANGED <<row, labels, historyVars, errors, crashes>>

(* The process is killed, or its connection is lost, in which case the     *)
(* rollback raises as well; what was committed stays.                      *)
Crash(r) ==
    /\ Active(r)
    /\ crashes < MaxCrashes
    /\ crashes' = crashes + 1
    /\ run' = [run EXCEPT ![r] = Fresh("idle")]
    /\ UNCHANGED <<row, labels, historyVars, errors>>

-----------------------------------------------------------------------------
Step(r) ==
    \/ ReadPage(r)
    \/ DieReading(r)
    \/ Build(r)
    \/ UpsertChunk(r)
    \/ ChunkFails(r)
    \/ UpsertRow(r)
    \/ RowFails(r)
    \/ Report(r)

Next ==
    \/ \E i \in Ids, kind \in Payloads : Store(i, kind)
    \/ \E r \in Runs : Start(r) \/ Step(r) \/ Crash(r)

Spec == Init /\ [][Next]_vars

(* A run that has begun goes on; nobody has to begin one.                  *)
FairSpec == Spec /\ \A r \in Runs : WF_vars(Step(r))

-----------------------------------------------------------------------------
TypeOK ==
    /\ row \in [Ids -> Payloads \cup {NoRow}]
    /\ labels \in [Ids -> (SUBSET Ids) \cup {Unlabelled}]
    /\ run \in [Runs ->
          [pc : {"idle", "reading", "writing", "done", "dead"},
           after : 0..MaxId, events : SUBSET Ids,
           skippedBronze : Nat, skippedImpression : Nat,
           todo : SUBSET Ids, retry : SUBSET Ids,
           labeled : Nat, failed : Nat, errors : 0..MaxErrors]]
    /\ atStart \in [Runs -> SUBSET Ids]
    /\ overlapped \in [Runs -> BOOLEAN]
    /\ errors \in 0..MaxErrors
    /\ crashes \in 0..MaxCrashes
    /\ \A i \in Ids : labels[i] # Unlabelled =>
          /\ row[i] = "impression"
          /\ labels[i] \subseteq Evidence(Visible)

Done(r) == run[r].pc = "done"

(* LabelReport: labels must not go missing in silence.  A run that had the *)
(* table to itself and reports no failure has left, for every impression   *)
(* that was in bronze when it began, a label computed from at least the    *)
(* outcomes that were there, whatever was committed while it ran, whatever *)
(* chunks were retried and whatever earlier runs died in the middle.       *)
NoSilentLoss ==
    \A r \in Runs : Done(r) /\ ~overlapped[r] /\ run[r].failed = 0 =>
        \A i \in Joinable(atStart[r]) :
            /\ labels[i] # Unlabelled
            /\ Evidence(atStart[r]) \subseteq labels[i]

(* The numbers of the report are those of the table: every impression read *)
(* is either labelled or failed, and every row that was there at the start *)
(* and did not end up as a label or as an outcome is in a skip count.      *)
ReportCountsEveryLoss ==
    \A r \in Runs : Done(r) =>
        /\ atStart[r] \subseteq 1..run[r].after
        /\ run[r].labeled + run[r].failed
              = Cardinality(Joinable(run[r].events))
        /\ Cardinality(Of(atStart[r], {"broken"})) <= run[r].skippedBronze
        /\ Cardinality(Of(atStart[r], {"partial"})) <= run[r].skippedImpression
        /\ Cardinality(Of(atStart[r], {"oversized"})) <= run[r].failed

(* _upsert_rows: a chunk that fails costs only its bad rows.  Unless the   *)
(* database itself failed, a run fails exactly on the rows that do not     *)
(* fit, and all the others are labelled.                                   *)
PoisonRowIsolated ==
    \A r \in Runs : Done(r) /\ run[r].errors = 0 =>
        LET rows == Joinable(run[r].events)
        IN  /\ run[r].failed = Cardinality({i \in rows : ~Fits(i, r)})
            /\ \A i \in rows : Fits(i, r) => labels[i] # Unlabelled

(* Unless runs overlap, a label never loses an outcome it was computed     *)
(* from: reruns, crashes between chunks and late rows only add to it.      *)
LabelsKeepEvidence ==
    [][ (\A r \in Runs : Active(r) => ~overlapped[r]) =>
          \A i \in Ids : labels[i] # Unlabelled =>
            labels'[i] # Unlabelled /\ labels[i] \subseteq labels'[i] ]_vars

(* A run ends, however many of its rows the table refuses.                 *)
RunEnds == \A r \in Runs : Active(r) ~> ~Active(r)
=============================================================================
