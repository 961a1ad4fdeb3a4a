----------------------------- MODULE RunOutputs -----------------------------
(***************************************************************************)
(* What one attempt leaves on disk: the particle database, the provenance  *)
(* bundle and the run manifest, from the first write of the runner to its  *)
(* closeout, its failure paths, a crash between any two writes, the report *)
(* of the worker to the job catalog and the recovery by a later daemon.    *)
(* The rows of the database are counted, not modelled (see RunLog); a      *)
(* digest is the content it is taken of.                                   *)
(***************************************************************************)
EXTENDS Naturals, FiniteSets

CONSTANTS MaxSamples,   \* bound: events written by the simulation
          MaxFaults     \* bound: failures (I/O, clock, simulation, busy reader) in one run

ASSUME OutputsAssumption == MaxSamples \in Nat /\ MaxFaults \in Nat

NoFile   == [absent |-> TRUE]
NoRows   == [unknown |-> TRUE]
Success  == {"complete", "completed_with_particle_errors", "cancelled"}
Terminal == Success \union {"failed", "interrupted"}
Scratch  == {"spool", "run", "tmp"}      \* files the bundle builder works in

VARIABLES step,      \* where the runner is in its closeout
          manifest,  \* run-manifest.json
          db,        \* particles.sqlite: committed samples, status of the run row, frames left in the WAL
          writer,    \* the open sink: rows of the open transaction, row counts, bundle identity
          bundle,    \* the builder: held or not, samples in its spool, finalized or not
          scratch,   \* scratch files present
          tmp,       \* provenance-bundle.json.tmp
          final,     \* provenance-bundle.json
          particles, \* what the simulation has seen: abnormal terminations, a safe cancel
          reader,    \* a result command holds a read snapshot of the database
          faults,    \* steps that failed, and "reader" if a reader held up the checkpoint
          reported   \* the terminal state the catalog was told

vars == <<step, manifest, db, writer, bundle, scratch, tmp, final, particles, reader, faults, reported>>
files == <<manifest, db, scratch, tmp, final>>
rest == <<particles, reader, reported>>

Goes(to)  == step' = to /\ UNCHANGED faults
Breaks(steps, to) ==
    /\ Cardinality(faults \union steps) <= MaxFaults
    /\ faults' = faults \union steps /\ step' = to
Fails(to) == Breaks({step}, to)

NoSink    == [open |-> FALSE, pending |-> 0, rows |-> NoRows, identity |-> NoFile]
NoBuilder == [held |-> FALSE, spooled |-> 0]

---------------------------------------------------------------------------
(* The manifest.                                                           *)

RunningManifest ==
    [status |-> "running", finished |-> "unset", failure |-> FALSE,
     abnormal |-> FALSE, rows |-> NoRows, provenance |-> NoFile]

\* RunManifest::validate, the lifecycle rules.
Valid(m) ==
    /\ m.status = "running" => m.finished = "unset" /\ ~m.failure /\ m.provenance = NoFile
    /\ m.status \in Success => m.finished # "unset" /\ ~m.failure /\ m.provenance # NoFile
    /\ m.status \in {"failed", "interrupted"} =>
          m.finished # "unset" /\ m.failure /\ m.provenance = NoFile
    /\ m.status = "complete" => ~m.abnormal
    /\ m.status = "completed_with_particle_errors" => m.abnormal
    /\ m.finished # "early"       \* before started_at

\* Natural ends are told apart by the terminations in memory.
EndStatus == IF particles.cancelled THEN "cancelled"
             ELSE IF particles.abnormal THEN "completed_with_particle_errors"
             ELSE "complete"

TerminalManifest(finished) ==
    [status |-> EndStatus, finished |-> finished, failure |-> FALSE,
     abnormal |-> particles.abnormal, rows |-> writer.rows, provenance |-> writer.identity]

\* An early or missing clock reading is replaced by started_at.
FailedManifest(finished) ==
    [status |-> "failed", finished |-> IF finished = "early" THEN "legal" ELSE finished,
     failure |-> TRUE, abnormal |-> particles.abnormal, rows |-> writer.rows,
     provenance |-> NoFile]

---------------------------------------------------------------------------
(* The simulation.                                                         *)

PersistRunning ==
    /\ step = "persist"
    /\ \/ manifest' = RunningManifest /\ Goes("begin")
       \/ manifest' = manifest /\ Fails("err")
    /\ UNCHANGED <<db, writer, bundle, scratch, tmp, final, rest>>

FreshDb == [samples |-> 0, run |-> "running", abnormal |-> FALSE, wal |-> TRUE]

BeginOutputs ==
    /\ step = "begin"
    /\ \/ /\ db' = FreshDb
          /\ writer' = [NoSink EXCEPT !.open = TRUE]
          /\ bundle' = [held |-> TRUE, spooled |-> 0]
          /\ scratch' = {"spool"}
          /\ Goes("loop")
       \/ \* the database could not be created, or the spool could not
          /\ db' \in {db, FreshDb}
          /\ writer' = [NoSink EXCEPT !.open = (db' = FreshDb)]
          /\ UNCHANGED <<bundle, scratch>>
          /\ Fails("abort")
    /\ UNCHANGED <<manifest, tmp, final, rest>>

\* One event of the simulation.  Births and terminations are batched in an open
\* transaction; an ordinary event commits it.  The spool is not transactional.
SampleEvent ==
    /\ step = "loop" /\ db.samples + writer.pending < MaxSamples
    /\ \E abnormal \in BOOLEAN, ordinary \in BOOLEAN :
          /\ particles' = [particles EXCEPT !.abnormal = @ \/ abnormal]
          /\ IF ordinary
             THEN /\ db' = [db EXCEPT !.samples = @ + writer.pending + 1,
                                      !.abnormal = particles'.abnormal, !.wal = TRUE]
                  /\ writer' = [writer EXCEPT !.pending = 0]
             ELSE /\ writer' = [writer EXCEPT !.pending = @ + 1]
                  /\ UNCHANGED db
    /\ bundle' = [bundle EXCEPT !.spooled = @ + 1]
    /\ UNCHANGED <<step, manifest, scratch, tmp, final, reader, faults, reported>>

\* An event that fails half way may leave a row without a spool line.
SampleFails ==
    /\ step = "loop" /\ Fails("abort")
    /\ \E row \in 0..1 : writer' = [writer EXCEPT !.pending = @ + row]
    /\ UNCHANGED <<files, bundle, rest>>

LoopEnds ==
    /\ step = "loop" /\ Goes("commit")
    /\ \E cancelled \in BOOLEAN : particles' = [particles EXCEPT !.cancelled = cancelled]
    /\ UNCHANGED <<files, writer, bundle, reader, reported>>

---------------------------------------------------------------------------
(* Closeout of the database: ParticleStateSqliteSink::finish.              *)

CommitRows ==
    /\ step = "commit"
    /\ \/ /\ db' = [db EXCEPT !.samples = @ + writer.pending,
                              !.abnormal = particles.abnormal, !.wal = TRUE]
          /\ writer' = [writer EXCEPT !.pending = 0]
          /\ Goes("settle")
       \/ UNCHANGED <<db, writer>> /\ Fails("abort")
    /\ UNCHANGED <<manifest, bundle, scratch, tmp, final, rest>>

SettleRunRow ==
    /\ step = "settle"
    /\ \/ /\ db' = [db EXCEPT !.wal = TRUE,
                 !.run = IF db.abnormal THEN "completed_with_particle_errors" ELSE "complete"]
          /\ Goes("checkpoint")
       \/ UNCHANGED db /\ Fails("abort")
    /\ UNCHANGED <<manifest, writer, bundle, scratch, tmp, final, rest>>

\* Mutation of Checkpoint: the counters that wal_checkpoint returns are not read.
CheckpointUnread ==
    /\ step = "checkpoint" /\ Goes("audit")
    /\ db' = [db EXCEPT !.wal = reader]
    /\ UNCHANGED <<manifest, writer, bundle, scratch, tmp, final, rest>>

\* TRUNCATE waits for readers until its busy timeout, then reports them.
Checkpoint ==
    /\ step = "checkpoint"
    /\ \/ ~reader /\ db' = [db EXCEPT !.wal = FALSE] /\ Goes("audit")
       \/ reader /\ UNCHANGED db /\ Breaks({"reader"}, "abort")
       \/ UNCHANGED db /\ Fails("abort")
    /\ UNCHANGED <<manifest, writer, bundle, scratch, tmp, final, rest>>

\* Pragmas, integrity, row counts, digest of the rows; then the writer closes.
AuditDatabase ==
    /\ step = "audit"
    /\ \/ /\ writer' = [writer EXCEPT !.rows = db.samples, !.open = FALSE]
          /\ Goes("sort")
       \/ UNCHANGED writer /\ Fails("abort")
    /\ UNCHANGED <<files, bundle, rest>>

---------------------------------------------------------------------------
(* Closeout of the bundle: finalize_after_sqlite.  A failure leaves it to  *)
(* step "abort", with the builder still held.                              *)

SortSpool ==
    /\ step = "sort"
    /\ \/ Goes("write") \/ Fails("abort")
    /\ scratch' = scratch \union {"run"}
    /\ UNCHANGED <<manifest, db, writer, bundle, tmp, final, rest>>

\* The bundle names the bytes of the database it was checked against.
Content == [samples |-> bundle.spooled, sqlite |-> db]

WriteBundle ==
    /\ step = "write"
    /\ \/ bundle.spooled = db.samples /\ Goes("rename")     \* in lockstep with the rows
       \/ Fails("abort")
    /\ tmp' = Content /\ scratch' = scratch \union {"tmp"}
    /\ UNCHANGED <<manifest, db, writer, bundle, final, rest>>

RenameBundle ==
    /\ step = "rename"
    /\ tmp' = NoFile /\ scratch' = scratch \ {"tmp"}
    /\ \/ final' = tmp /\ Goes("identify")
       \/ UNCHANGED final /\ Fails("abort")
    /\ UNCHANGED <<manifest, db, writer, bundle, rest>>

\* Hash the published file, drop the scratch files, hand over the identity.
IdentifyBundle ==
    /\ step = "identify"
    /\ \/ /\ writer' = [writer EXCEPT !.identity = final]
          /\ bundle' = NoBuilder
          /\ scratch' = {}
          /\ Goes("publish")
       \/ UNCHANGED <<writer, bundle, scratch>> /\ Fails("abort")
    /\ UNCHANGED <<manifest, db, tmp, final, rest>>

---------------------------------------------------------------------------
(* Success: finalize_terminal.  The clock may fail or have been set back.  *)

PublishResult ==
    /\ step = "publish"
    /\ \/ /\ Valid(TerminalManifest("legal"))
          /\ manifest' = TerminalManifest("legal") /\ Goes("ok")
       \/ UNCHANGED manifest /\ Fails("quarantine")
    /\ UNCHANGED <<db, writer, bundle, scratch, tmp, final, rest>>

\* The builder is gone, so the sink renames what lies at the formal path.
Quarantine ==
    /\ step = "quarantine"
    /\ \/ /\ final' = NoFile /\ Goes("publish_failed")
          /\ writer' = [writer EXCEPT !.identity = NoFile]
       \/ UNCHANGED <<final, writer>> /\ Fails("publish_failed")
    /\ UNCHANGED <<manifest, db, bundle, scratch, tmp, rest>>

PublishFailed ==
    /\ step = "publish_failed"
    /\ \E finished \in {"early", "legal"} :
          \/ Valid(FailedManifest(finished)) /\ manifest' = FailedManifest(finished) /\ Goes("err")
          \/ ~Valid(FailedManifest(finished)) /\ UNCHANGED manifest /\ Goes("err")
          \/ UNCHANGED manifest /\ Fails("err")
    /\ UNCHANGED <<db, writer, bundle, scratch, tmp, final, rest>>

\* Failure before the end: roll back, close, and let the builder clean up.  A
\* builder whose abort fails is dropped and tries once more.
AbortOutputs ==
    /\ step = "abort"
    /\ writer' = [writer EXCEPT !.open = FALSE, !.pending = 0]
    /\ bundle' = NoBuilder
    /\ scratch' = IF bundle.held THEN {} ELSE scratch
    /\ tmp' = IF bundle.held THEN NoFile ELSE tmp
    /\ \/ final' = (IF bundle.held THEN NoFile ELSE final) /\ Goes("publish_failed")
       \/ /\ bundle.held /\ final # NoFile /\ UNCHANGED final
          /\ Breaks({"abort", "drop"}, "publish_failed")
    /\ UNCHANGED <<manifest, db, rest>>

---------------------------------------------------------------------------
(* The process around the runner, and the readers.                         *)

Returned == step \in {"ok", "err"}

ReportOutcome ==
    /\ Returned /\ reported = "nothing"
    /\ reported' = IF step = "ok" THEN EndStatus ELSE "failed"
    /\ UNCHANGED <<step, files, writer, bundle, particles, reader, faults>>

\* An open transaction is gone with its process; what was committed stays.
WorkerDies ==
    /\ step # "dead" /\ reported = "nothing"
    /\ step' = "dead" /\ writer' = NoSink /\ bundle' = NoBuilder
    /\ UNCHANGED <<files, rest, faults>>

InterruptedManifest ==
    [manifest EXCEPT !.status = "interrupted", !.finished = "legal", !.failure = TRUE,
                     !.provenance = NoFile]

\* A later daemon: a running manifest is interrupted, a terminal one adopted.
Recover ==
    /\ step = "dead" /\ reported = "nothing"
    /\ IF manifest # NoFile /\ manifest.status # "running"
       THEN reported' = manifest.status /\ UNCHANGED manifest
       ELSE /\ reported' = "interrupted"
            /\ manifest' = IF manifest = NoFile THEN NoFile ELSE InterruptedManifest
    /\ UNCHANGED <<step, db, writer, bundle, scratch, tmp, final, particles, reader, faults>>

\* A result command streams rows of a live database.
ReaderComes ==
    /\ ~reader /\ db # NoFile /\ writer.open /\ reader' = TRUE
    /\ UNCHANGED <<step, files, writer, bundle, particles, faults, reported>>
ReaderGoes ==
    /\ reader /\ reader' = FALSE
    /\ UNCHANGED <<step, files, writer, bundle, particles, faults, reported>>

Init ==
    /\ step = "persist" /\ manifest = NoFile /\ db = NoFile /\ writer = NoSink
    /\ bundle = NoBuilder /\ scratch = {} /\ tmp = NoFile /\ final = NoFile
    /\ particles = [abnormal |-> FALSE, cancelled |-> FALSE]
    /\ reader = FALSE /\ faults = {} /\ reported = "nothing"

RunnerStep ==
    \/ PersistRunning \/ BeginOutputs \/ SampleEvent \/ SampleFails \/ LoopEnds
    \/ CommitRows \/ SettleRunRow \/ Checkpoint \/ AuditDatabase
    \/ SortSpool \/ WriteBundle \/ RenameBundle \/ IdentifyBundle
    \/ PublishResult \/ Quarantine \/ AbortOutputs \/ PublishFailed

Next ==
    RunnerStep \/ ReportOutcome \/ WorkerDies \/ Recover \/ ReaderComes \/ ReaderGoes

Spec == Init /\ [][Next]_vars

---------------------------------------------------------------------------
(* Properties.                                                             *)

Contents == [samples : 0..MaxSamples,
             sqlite : [samples : 0..MaxSamples, run : Success \union {"running"},
                       abnormal : BOOLEAN, wal : BOOLEAN]]

\* Type invariant.
TypeOK ==
    /\ step \in {"persist", "begin", "loop", "commit", "settle", "checkpoint", "audit", "sort",
                 "write", "rename", "identify", "publish", "quarantine", "abort",
                 "publish_failed", "ok", "err", "dead"}
    /\ manifest = NoFile \/ manifest.status \in Terminal \union {"running"}
    /\ db = NoFile \/ db \in [samples : 0..MaxSamples, run : Success \union {"running"},
                              abnormal : BOOLEAN, wal : BOOLEAN]
    /\ writer.open \in BOOLEAN /\ writer.pending \in 0..MaxSamples + 1
    /\ bundle \in [held : BOOLEAN, spooled : 0..MaxSamples]
    /\ scratch \subseteq Scratch
    /\ tmp = NoFile \/ tmp \in Contents
    /\ final = NoFile \/ final \in Contents
    /\ particles \in [abnormal : BOOLEAN, cancelled : BOOLEAN]
    /\ reader \in BOOLEAN /\ Cardinality(faults) <= MaxFaults
    /\ reported \in Terminal \union {"nothing"}

\* verify_run_directory, the quick mode, against what is on disk.
Verifies ==
    /\ manifest # NoFile /\ Valid(manifest) /\ manifest.status \in Success
    /\ db # NoFile /\ ~db.wal /\ manifest.rows = db.samples
    /\ db.run = IF manifest.abnormal THEN "completed_with_particle_errors" ELSE "complete"
    /\ final # NoFile /\ manifest.provenance = final
    /\ final.sqlite = db /\ final.samples = db.samples

\* A manifest that claims success is the last binding record: whatever the
\* crash or fault, the artifacts it names are closed, complete and identical to
\* what it identifies, and stay so.
SuccessVerifies ==
    manifest # NoFile => (manifest.status \in Success => Verifies)

\* The catalog is told of success only for a result that proves it.
ReportedIsProved ==
    reported \in Success => Verifies /\ manifest.status = reported

\* A runner that returns an error leaves no file at the formal bundle path,
\* unless renaming it failed on top of the first failure.
NoFormalBundleOnFailure ==
    step = "err" /\ Cardinality(faults) <= 1 => final = NoFile

\* A runner that returned leaves no scratch file of the bundle behind.
NoScratchAfterReturn == Returned => scratch = {} /\ tmp = NoFile

\* A single failure anywhere in the run is recorded: the manifest on disk says
\* failed (or was never written).  Only a second failure can leave it running.
SingleFailureRecorded ==
    step = "err" /\ Cardinality(faults) <= 1 => manifest = NoFile \/ manifest.status = "failed"

\* A terminal manifest is never rewritten, not by the failure paths of the
\* runner nor by recovery.
TerminalManifestStays ==
    manifest # NoFile /\ manifest.status \in Terminal => manifest' = manifest
TerminalManifestFinal == [][TerminalManifestStays]_vars

(***************************************************************************)
(* Whatever step fails or is cut off: a manifest of success names closed,  *)
(* complete and identical artifacts; the catalog hears of success only     *)
(* then; a failed run leaves no formal bundle and no scratch file, and one *)
(* failure is always recorded.                                             *)
(***************************************************************************)
ClosedIsHonest ==
    /\ TypeOK
    /\ SuccessVerifies /\ ReportedIsProved
    /\ NoFormalBundleOnFailure /\ NoScratchAfterReturn
    /\ SingleFailureRecorded

\* What the operations guide says of a result command on a live run: it has no
\* part in the closeout, so a run without any failure does not end as failed.
ReadersHaveNoPart == step = "err" => faults # {"reader"}
=============================================================================
