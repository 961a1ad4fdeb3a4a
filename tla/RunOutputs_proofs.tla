------------------------- MODULE RunOutputs_proofs -------------------------
(***************************************************************************)
(* Proofs about what one attempt writes.  About RunOutputs, for any number *)
(* of samples and of faults: what it leaves on disk is honest, whatever    *)
(* fails and wherever the worker is killed.  And about RunLog, for any     *)
(* particles, length and schedule of a run: its rows tell their lives.     *)
(***************************************************************************)
EXTENDS RunOutputs, RunLog, FiniteSetTheorems, TLAPS

Steps == {"persist", "begin", "loop", "commit", "settle", "checkpoint", "audit", "sort", "write",
          "rename", "identify", "publish", "quarantine", "abort", "publish_failed", "ok", "err",
          "dead"}

Databases == [samples : 0..MaxSamples, run : Success \union {"running"}, abnormal : BOOLEAN,
              wal : BOOLEAN]

Manifests == [status : Terminal \union {"running"}, finished : {"unset", "legal", "early"},
              failure : BOOLEAN, abnormal : BOOLEAN, rows : (0..MaxSamples) \union {NoRows},
              provenance : Contents \union {NoFile}]

Sinks == [open : BOOLEAN, pending : 0..MaxSamples + 1, rows : (0..MaxSamples) \union {NoRows},
          identity : Contents \union {NoFile}]

\* The shape of every file, with the fields that TypeOK leaves open.
Shapes ==
    /\ step \in Steps
    /\ manifest \in Manifests \union {NoFile}
    /\ db \in Databases \union {NoFile}
    /\ writer \in Sinks
    /\ bundle \in [held : BOOLEAN, spooled : 0..MaxSamples]
    /\ scratch \subseteq Scratch
    /\ tmp \in Contents \union {NoFile} /\ final \in Contents \union {NoFile}
    /\ particles \in [abnormal : BOOLEAN, cancelled : BOOLEAN]
    /\ reader \in BOOLEAN
    /\ reported \in Terminal \union {"nothing"}

FaultsCounted == IsFiniteSet(faults) /\ Cardinality(faults) <= MaxFaults

(***************************************************************************)
(* The rows.  Until the commit every sample is a row of the database or of *)
(* the open transaction; after it the database has them all, and each      *)
(* later step of the closeout has settled one thing more.                  *)
(***************************************************************************)
Settling   == {"settle", "checkpoint", "audit"}
Bundling   == {"sort", "write", "rename", "identify"}
Audited    == Bundling \union {"publish"}

RowsCounted ==
    /\ step \in {"loop", "commit"} =>
          db \in Databases /\ bundle.held /\ db.samples + writer.pending = bundle.spooled
    /\ step \in Settling \union Audited =>
          db \in Databases /\ db.abnormal = particles.abnormal
    /\ step \in Settling \union Bundling => bundle.held

RunRowOf(d) == IF d.abnormal THEN "completed_with_particle_errors" ELSE "complete"

Closing ==
    /\ step \in {"checkpoint", "audit"} \union Audited => db.run = RunRowOf(db)
    /\ step \in {"audit"} \union Audited => ~db.wal
    /\ step \in Audited => writer.rows = db.samples

\* What the bundle says once it agrees with the database.
Agreed == [samples |-> db.samples, sqlite |-> db]

BundleClosing ==
    /\ step = "rename" => tmp = Agreed
    /\ step = "identify" => tmp = NoFile /\ final = Agreed
    /\ step = "publish" => final = Agreed /\ writer.identity = final

(***************************************************************************)
(* The manifest says running until the runner returns or dies, and what it *)
(* says afterwards is what it was made to say.                             *)
(***************************************************************************)
Unended == Steps \ {"persist", "ok", "err", "dead"}

ManifestFollows ==
    /\ step = "persist" => manifest = NoFile
    /\ step \in Unended => manifest = RunningManifest
    /\ step = "ok" => manifest \in Manifests /\ manifest.status = EndStatus
    /\ manifest \in Manifests /\ manifest.status \in Success =>
          step \in {"ok", "dead"} /\ Verifies
    /\ reported # "nothing" => step \in {"ok", "err", "dead"}
    /\ reported \in Success => manifest \in Manifests /\ manifest.status = reported

(***************************************************************************)
(* The failures.  A step that fails notes itself, so the paths of failure  *)
(* know that something other than their own last write has failed.         *)
(***************************************************************************)
Twice == \E a, b \in faults : a # b

Failures ==
    /\ step \in {"abort", "quarantine", "publish_failed"} => \E f \in faults : f # "publish_failed"
    /\ step = "quarantine" => "publish" \in faults
    /\ step = "publish_failed" => final = NoFile \/ Twice
    /\ step = "err" => /\ final = NoFile \/ Twice
                       /\ manifest = NoFile \/ Twice \/ manifest.status = "failed"

\* Who holds no builder has nothing left of it.
Emptied ==
    /\ step \in {"persist", "begin"} => final = NoFile
    /\ step \in {"persist", "begin", "publish", "quarantine", "publish_failed", "ok", "err"} =>
          scratch = {} /\ tmp = NoFile
    /\ step = "abort" /\ ~bundle.held => scratch = {} /\ tmp = NoFile /\ final = NoFile

OutputsInv ==
    /\ Shapes /\ FaultsCounted /\ RowsCounted /\ Closing /\ BundleClosing
    /\ ManifestFollows /\ Failures /\ Emptied

---------------------------------------------------------------------------

\* A file is not the absence of one.
LEMMA Sorts == NoFile \notin Databases /\ NoFile \notin Manifests /\ NoFile \notin Contents
PROOF
<1>1. \A d \in Databases : "samples" \in DOMAIN d
  BY DEF Databases
<1>2. \A m \in Manifests : "status" \in DOMAIN m
  BY DEF Manifests
<1>3. \A c \in Contents : "samples" \in DOMAIN c
  BY DEF Contents
<1>4. DOMAIN NoFile = {"absent"}
  BY DEF NoFile
<1> QED
  BY <1>1, <1>2, <1>3, <1>4

LEMMA BreaksCounted ==
    ASSUME FaultsCounted, NEW fs, IsFiniteSet(fs), NEW to, Breaks(fs, to)
    PROVE  FaultsCounted'
  BY FS_Union DEF FaultsCounted, Breaks

LEMMA FaultsStay == ASSUME OutputsInv, Next PROVE FaultsCounted'
PROOF
<1>1. FaultsCounted
  BY DEF OutputsInv
<1>2. IsFiniteSet({step}) /\ IsFiniteSet({"reader"}) /\ IsFiniteSet({"abort", "drop"})
  <2>1. IsFiniteSet({step}) /\ IsFiniteSet({"reader"})
    BY FS_Singleton
  <2>2. IsFiniteSet({"abort"}) /\ IsFiniteSet({"drop"})
    BY FS_Singleton
  <2>3. IsFiniteSet({"abort"} \union {"drop"})
    BY <2>2, FS_Union
  <2>4. {"abort"} \union {"drop"} = {"abort", "drop"}
    OBVIOUS
  <2> QED
    BY <2>1, <2>3, <2>4
<1>3. CASE \E to : Fails(to)
  BY <1>1, <1>2, <1>3, BreaksCounted DEF Fails
<1>4. CASE \E to : Breaks({"reader"}, to) \/ Breaks({"abort", "drop"}, to)
  BY <1>1, <1>2, <1>4, BreaksCounted
<1>5. CASE UNCHANGED faults
  BY <1>1, <1>5 DEF FaultsCounted
<1>6. UNCHANGED faults \/ (\E to : Fails(to))
        \/ \E to : Breaks({"reader"}, to) \/ Breaks({"abort", "drop"}, to)
  BY DEF Next, RunnerStep, PersistRunning, BeginOutputs, SampleEvent, SampleFails, LoopEnds,
     CommitRows, SettleRunRow, Checkpoint, AuditDatabase, SortSpool, WriteBundle, RenameBundle,
     IdentifyBundle, PublishResult, Quarantine, PublishFailed, AbortOutputs, ReportOutcome,
     WorkerDies, Recover, ReaderComes, ReaderGoes, Goes
<1> QED
  BY <1>3, <1>4, <1>5, <1>6

LEMMA Made ==
    /\ RunningManifest \in Manifests /\ FreshDb \in Databases /\ NoSink \in Sinks
    /\ NoBuilder \in [held : BOOLEAN, spooled : 0..MaxSamples]
PROOF
<1>1. 0 \in 0..MaxSamples /\ 0 \in 0..MaxSamples + 1
  BY OutputsAssumption
<1>2. FreshDb \in Databases
  BY <1>1 DEF FreshDb, Databases
<1>3. NoSink \in Sinks
  BY <1>1 DEF NoSink, Sinks
<1>4. NoBuilder \in [held : BOOLEAN, spooled : 0..MaxSamples]
  BY <1>1 DEF NoBuilder
<1>5. RunningManifest \in Manifests
  BY DEF RunningManifest, Manifests
<1> QED
  BY <1>2, <1>3, <1>4, <1>5

LEMMA Opened ==
    ASSUME NEW w \in Sinks, NEW open \in BOOLEAN
    PROVE  [w EXCEPT !.open = open] \in Sinks /\ [w EXCEPT !.open = open, !.pending = 0] \in Sinks
PROOF
<1>1. 0 \in 0..MaxSamples + 1
  BY OutputsAssumption
<1>2. [w EXCEPT !.open = open] \in Sinks
  BY DEF Sinks
<1>3. [w EXCEPT !.open = open, !.pending = 0] \in Sinks
  BY <1>1 DEF Sinks
<1> QED
  BY <1>2, <1>3

LEMMA EndStatusIs == Shapes => EndStatus \in Success
  BY DEF EndStatus, Success

LEMMA Terminated == Shapes => TerminalManifest("legal") \in Manifests
PROOF
<1> SUFFICES ASSUME Shapes PROVE TerminalManifest("legal") \in Manifests
  OBVIOUS
<1>1. EndStatus \in Terminal \union {"running"}
  BY EndStatusIs DEF Terminal
<1>2. writer.rows \in (0..MaxSamples) \union {NoRows} /\ writer.identity \in Contents \union {NoFile}
  BY DEF Shapes, Sinks
<1>3. particles.abnormal \in BOOLEAN
  BY DEF Shapes
<1> QED
  BY <1>1, <1>2, <1>3 DEF TerminalManifest, Manifests

LEMMA FailedIs ==
    ASSUME Shapes, NEW finished \in {"early", "legal"}
    PROVE  /\ FailedManifest(finished) \in Manifests
           /\ FailedManifest(finished).status = "failed"
           /\ Valid(FailedManifest(finished))
PROOF
<1>1. "failed" \in Terminal \union {"running"} /\ "failed" \notin Success
  BY DEF Terminal, Success
<1>2. writer.rows \in (0..MaxSamples) \union {NoRows}
  BY DEF Shapes, Sinks
<1>3. particles.abnormal \in BOOLEAN
  BY DEF Shapes
<1>4. PICK m : m = FailedManifest(finished)
  OBVIOUS
<1>5. /\ m.status = "failed" /\ m.failure = TRUE /\ m.provenance = NoFile
      /\ m.finished = "legal"
  BY <1>4 DEF FailedManifest
<1>6. FailedManifest(finished) \in Manifests
  BY <1>1, <1>2, <1>3 DEF FailedManifest, Manifests
<1>7. Valid(m)
  BY <1>1, <1>5 DEF Valid
<1> QED
  BY <1>4, <1>5, <1>6, <1>7

LEMMA InterruptedIs ==
    manifest \in Manifests => InterruptedManifest \in Manifests
                              /\ InterruptedManifest.status = "interrupted"
PROOF
<1>1. "interrupted" \in Terminal \union {"running"}
  BY DEF Terminal
<1> QED
  BY <1>1 DEF InterruptedManifest, Manifests

LEMMA Settled ==
    ASSUME NEW d \in Databases, NEW e, e = [d EXCEPT !.wal = TRUE, !.run = RunRowOf(d)]
    PROVE  e \in Databases /\ e.samples = d.samples /\ e.abnormal = d.abnormal /\ e.run = RunRowOf(e)
PROOF
<1>1. RunRowOf(d) \in Success \union {"running"}
  BY DEF RunRowOf, Success
<1>2. e \in Databases /\ e.samples = d.samples /\ e.abnormal = d.abnormal /\ e.run = RunRowOf(d)
  BY <1>1 DEF Databases
<1> QED
  BY <1>2 DEF RunRowOf

---------------------------------------------------------------------------
(* The steps that take more than their definitions.                        *)

LEMMA BeginShapes == ASSUME OutputsInv, BeginOutputs PROVE Shapes'
PROOF
<1>1. step' \in Steps
  BY DEF BeginOutputs, Goes, Fails, Breaks, Steps
<1>2. db' \in Databases \union {NoFile}
  BY Made DEF OutputsInv, Shapes, BeginOutputs
<1>3. \A open \in BOOLEAN : [NoSink EXCEPT !.open = open] \in Sinks
  BY Made, Opened
<1>4. (db' = FreshDb) \in BOOLEAN
  OBVIOUS
<1>5. writer' \in Sinks
  BY <1>3, <1>4 DEF BeginOutputs
<1>6. [held |-> TRUE, spooled |-> 0] \in [held : BOOLEAN, spooled : 0..MaxSamples]
  BY OutputsAssumption
<1>7. bundle' \in [held : BOOLEAN, spooled : 0..MaxSamples]
  BY <1>6 DEF BeginOutputs, OutputsInv, Shapes
<1>8. scratch' \subseteq Scratch
  BY DEF BeginOutputs, OutputsInv, Shapes, Scratch
<1> QED
  BY <1>1, <1>2, <1>5, <1>7, <1>8 DEF BeginOutputs, rest, OutputsInv, Shapes

LEMMA SettleDoes ==
    ASSUME OutputsInv, SettleRunRow
    PROVE  /\ db \in Databases /\ db' \in Databases /\ db'.abnormal = db.abnormal
           /\ step' = "checkpoint" => db'.run = RunRowOf(db')
           /\ step' \in {"checkpoint", "abort"}
PROOF
<1>1. db \in Databases
  BY DEF OutputsInv, RowsCounted, Settling, SettleRunRow
<1>2. CASE Goes("checkpoint") /\ db' = [db EXCEPT !.wal = TRUE, !.run = RunRowOf(db)]
  BY <1>1, <1>2, Settled DEF Goes
<1>3. CASE Fails("abort") /\ UNCHANGED db
  BY <1>1, <1>3 DEF Fails, Breaks
<1> QED
  BY <1>2, <1>3 DEF SettleRunRow, RunRowOf

LEMMA SettleRows == ASSUME OutputsInv, SettleRunRow PROVE RowsCounted'
PROOF
<1>1. db.abnormal = particles.abnormal /\ bundle.held
  BY DEF OutputsInv, RowsCounted, Settling, SettleRunRow
<1> QED
  BY <1>1, SettleDoes DEF RowsCounted, SettleRunRow, rest

LEMMA SettleClosing == ASSUME OutputsInv, SettleRunRow PROVE Closing'
  BY SettleDoes DEF Closing, Audited, Bundling

LEMMA BeginRows == ASSUME OutputsInv, BeginOutputs PROVE RowsCounted'
PROOF
<1>1. CASE step' = "loop"
  <2>1. db' = FreshDb /\ writer' = [NoSink EXCEPT !.open = TRUE]
         /\ bundle' = [held |-> TRUE, spooled |-> 0]
    BY <1>1 DEF BeginOutputs, Goes, Fails, Breaks
  <2>2. db'.samples = 0 /\ writer'.pending = 0 /\ bundle'.spooled = 0 /\ bundle'.held
    BY <2>1 DEF FreshDb, NoSink
  <2> QED
    BY <1>1, <2>1, <2>2, Made DEF RowsCounted, Settling, Audited, Bundling
<1>2. CASE step' = "abort"
  BY <1>2 DEF RowsCounted, Settling, Audited, Bundling
<1> QED
  BY <1>1, <1>2 DEF BeginOutputs, Goes, Fails, Breaks

LEMMA SampleDoes ==
    ASSUME OutputsInv, SampleEvent
    PROVE  /\ db' \in Databases
           /\ db'.samples + writer'.pending = bundle'.spooled /\ bundle'.held
           /\ bundle'.spooled \in 0..MaxSamples
PROOF
<1>1. PICK abnormal \in BOOLEAN, ordinary \in BOOLEAN :
          /\ particles' = [particles EXCEPT !.abnormal = @ \/ abnormal]
          /\ IF ordinary
             THEN /\ db' = [db EXCEPT !.samples = @ + writer.pending + 1,
                                      !.abnormal = particles'.abnormal, !.wal = TRUE]
                  /\ writer' = [writer EXCEPT !.pending = 0]
             ELSE /\ writer' = [writer EXCEPT !.pending = @ + 1]
                  /\ UNCHANGED db
  BY DEF SampleEvent
<1>2. /\ db \in Databases /\ db.samples + writer.pending < MaxSamples
      /\ bundle.held /\ db.samples + writer.pending = bundle.spooled
  BY DEF SampleEvent, OutputsInv, RowsCounted
<1>3. db.samples \in Nat /\ writer.pending \in Nat /\ writer \in Sinks
  BY <1>2, OutputsAssumption DEF OutputsInv, Shapes, Databases, Sinks
<1>4. particles'.abnormal \in BOOLEAN
  BY <1>1 DEF OutputsInv, Shapes
<1>5. db.samples + writer.pending + 1 \in 0..MaxSamples
  BY <1>2, <1>3, OutputsAssumption
<1>6. bundle'.held /\ bundle'.spooled = bundle.spooled + 1
  BY <1>2 DEF SampleEvent, OutputsInv, Shapes
<1>7. CASE ordinary
  <2>1. PICK n \in 0..MaxSamples : n = db.samples + writer.pending + 1
    BY <1>5
  <2>2. PICK b \in BOOLEAN : b = particles'.abnormal
    BY <1>4
  <2>3. db' = [db EXCEPT !.samples = n, !.abnormal = b, !.wal = TRUE]
    BY <1>1, <1>7, <2>1, <2>2
  <2>4. db' \in Databases /\ db'.samples = n
    BY <1>2, <2>1, <2>2, <2>3 DEF Databases
  <2>5. writer'.pending = 0
    BY <1>1, <1>3, <1>7 DEF Sinks
  <2> QED
    BY <1>2, <1>3, <1>5, <1>6, <2>1, <2>4, <2>5
<1>8. CASE ~ordinary
  <2>1. UNCHANGED db /\ writer'.pending = writer.pending + 1
    BY <1>1, <1>3, <1>8 DEF Sinks
  <2> QED
    BY <1>2, <1>3, <1>5, <1>6, <2>1
<1> QED
  BY <1>7, <1>8

LEMMA SampleRows == ASSUME OutputsInv, SampleEvent PROVE RowsCounted'
  BY SampleDoes DEF SampleEvent, RowsCounted, Settling, Audited, Bundling

LEMMA CommitDoes ==
    ASSUME OutputsInv, CommitRows
    PROVE  db' \in Databases /\ (step' = "settle" => db'.abnormal = particles.abnormal)
PROOF
<1>1. /\ db \in Databases /\ db.samples + writer.pending = bundle.spooled
      /\ bundle.spooled \in 0..MaxSamples /\ particles.abnormal \in BOOLEAN
  BY DEF CommitRows, OutputsInv, RowsCounted, Shapes
<1>2. CASE UNCHANGED db /\ Fails("abort")
  BY <1>1, <1>2 DEF Fails, Breaks
<1>3. CASE db' = [db EXCEPT !.samples = @ + writer.pending,
                            !.abnormal = particles.abnormal, !.wal = TRUE]
  <2>1. PICK n \in 0..MaxSamples : n = db.samples + writer.pending
    BY <1>1
  <2>2. PICK b \in BOOLEAN : b = particles.abnormal
    BY <1>1
  <2>3. db' = [db EXCEPT !.samples = n, !.abnormal = b, !.wal = TRUE]
    BY <1>3, <2>1, <2>2
  <2> QED
    BY <1>1, <2>1, <2>2, <2>3 DEF Databases
<1> QED
  BY <1>2, <1>3 DEF CommitRows

LEMMA CommitRowsCounted == ASSUME OutputsInv, CommitRows PROVE RowsCounted'
  BY CommitDoes DEF OutputsInv, CommitRows, RowsCounted, Settling, Audited, Bundling, Goes,
     Fails, Breaks, rest

LEMMA ReportFollows == ASSUME OutputsInv, ReportOutcome PROVE ManifestFollows'
PROOF
<1>1. step \in {"ok", "err"} /\ UNCHANGED <<step, manifest, db, final, particles>>
      /\ reported' = IF step = "ok" THEN EndStatus ELSE "failed"
  BY DEF ReportOutcome, Returned, files
<1>2. Verifies' = Verifies /\ EndStatus' = EndStatus
  BY <1>1 DEF Verifies, Valid, EndStatus
<1>3. "failed" \notin Success
  BY DEF Success
<1>4. ManifestFollows
  BY DEF OutputsInv
<1> QED
  BY <1>1, <1>2, <1>3, <1>4 DEF ManifestFollows, Unended

LEMMA PublishFailedFailures == ASSUME OutputsInv, PublishFailed PROVE Failures'
PROOF
<1>1. /\ step = "publish_failed" /\ step' = "err" /\ UNCHANGED final
      /\ final = NoFile \/ Twice
      /\ \E f \in faults : f # "publish_failed"
  BY DEF PublishFailed, OutputsInv, Failures, Goes, Fails, Breaks
<1>2. Twice => Twice'
  BY DEF PublishFailed, Goes, Fails, Breaks, Twice
<1>3. manifest'.status = "failed" \/ Twice'
  <2>1. ASSUME NEW finished \in {"early", "legal"}, manifest' = FailedManifest(finished)
        PROVE  manifest'.status = "failed"
    BY <2>1, FailedIs DEF OutputsInv
  <2>2. ASSUME NEW finished \in {"early", "legal"}, ~Valid(FailedManifest(finished))
        PROVE  FALSE
    BY <2>2, FailedIs DEF OutputsInv
  <2>3. ASSUME Fails("err") PROVE Twice'
    BY <1>1, <2>3 DEF Fails, Breaks, Twice
  <2> QED
    BY <2>1, <2>2, <2>3 DEF PublishFailed
<1> QED
  BY <1>1, <1>2, <1>3 DEF Failures

LEMMA PublishFollows == ASSUME OutputsInv, PublishResult PROVE ManifestFollows'
PROOF
<1>1. CASE step' = "ok"
  <2>1. /\ Valid(TerminalManifest("legal")) /\ manifest' = TerminalManifest("legal")
        /\ UNCHANGED <<db, writer, final, rest>>
    BY <1>1 DEF PublishResult, Goes, Fails, Breaks
  <2>2. manifest' \in Manifests /\ manifest'.status = EndStatus /\ Valid(manifest')
        /\ manifest'.abnormal = particles.abnormal /\ manifest'.rows = writer.rows
        /\ manifest'.provenance = writer.identity
    BY <2>1, Terminated DEF OutputsInv, TerminalManifest
  <2>3. /\ db \in Databases /\ db.abnormal = particles.abnormal /\ db.run = RunRowOf(db)
        /\ ~db.wal /\ writer.rows = db.samples /\ final = Agreed /\ writer.identity = final
    BY DEF PublishResult, OutputsInv, RowsCounted, Closing, BundleClosing, Audited
  <2>4. Agreed \in Contents /\ Agreed.sqlite = db /\ Agreed.samples = db.samples
    BY <2>3 DEF Agreed, Contents, Databases
  <2>5. EndStatus \in Success /\ EndStatus' = EndStatus
    BY <2>1, EndStatusIs DEF OutputsInv, EndStatus, rest
  <2>6. Verifies'
    BY <2>1, <2>2, <2>3, <2>4, <2>5, Sorts DEF Verifies, RunRowOf
  <2>7. reported' = "nothing"
    BY <2>1 DEF PublishResult, OutputsInv, ManifestFollows, rest
  <2> QED
    BY <1>1, <2>2, <2>5, <2>6, <2>7 DEF ManifestFollows, Unended, Success
<1>2. CASE step' = "quarantine"
  <2>1. manifest' = RunningManifest /\ reported' = "nothing"
    BY <1>2 DEF PublishResult, OutputsInv, ManifestFollows, Unended, Steps, rest, Goes
  <2>2. manifest'.status = "running" /\ "running" \notin Success /\ "nothing" \notin Success
    BY <2>1 DEF RunningManifest, Success
  <2> QED
    BY <1>2, <2>1, <2>2 DEF ManifestFollows
<1> QED
  BY <1>1, <1>2 DEF PublishResult, Goes, Fails, Breaks

LEMMA PublishFailedFollows == ASSUME OutputsInv, PublishFailed PROVE ManifestFollows'
PROOF
<1>1. step = "publish_failed" /\ step' = "err" /\ reported' = reported /\ reported = "nothing"
  BY DEF PublishFailed, OutputsInv, ManifestFollows, rest, Goes, Fails, Breaks
<1>2. manifest = RunningManifest
  BY <1>1 DEF OutputsInv, ManifestFollows, Unended, Steps
<1>3. manifest' = RunningManifest \/ \E finished \in {"early", "legal"} : manifest' = FailedManifest(finished)
  BY <1>2 DEF PublishFailed
<1>4. manifest'.status \in {"running", "failed"}
  BY <1>3, FailedIs DEF OutputsInv, RunningManifest
<1>5. manifest'.status \notin Success /\ "nothing" \notin Success
  BY <1>4 DEF Success
<1> QED
  BY <1>1, <1>5 DEF ManifestFollows, Unended

LEMMA RecoverFollows == ASSUME OutputsInv, Recover PROVE ManifestFollows'
PROOF
<1>1. /\ step = "dead" /\ step' = "dead" /\ reported = "nothing"
      /\ UNCHANGED <<db, final>> /\ ManifestFollows /\ Shapes
  BY DEF Recover, OutputsInv
<1>2. CASE manifest # NoFile /\ manifest.status # "running"
  <2>1. reported' = manifest.status /\ UNCHANGED manifest
    BY <1>2 DEF Recover
  <2>2. Verifies' = Verifies
    BY <1>1, <2>1 DEF Verifies, Valid
  <2>3. manifest \in Manifests
    BY <1>1, <1>2 DEF Shapes
  <2> QED
    BY <1>1, <2>1, <2>2, <2>3 DEF ManifestFollows, Unended
<1>3. CASE ~(manifest # NoFile /\ manifest.status # "running")
  <2>1. reported' = "interrupted" /\ manifest' = IF manifest = NoFile THEN NoFile ELSE InterruptedManifest
    BY <1>3 DEF Recover
  <2>2. manifest' = NoFile \/ manifest'.status = "interrupted"
    BY <1>1, <2>1, InterruptedIs DEF Shapes
  <2>3. "interrupted" \notin Success
    BY DEF Success
  <2> QED
    BY <1>1, <2>1, <2>2, <2>3, Sorts DEF ManifestFollows, Unended
<1> QED
  BY <1>2, <1>3

---------------------------------------------------------------------------
(* Every action keeps the invariant.                                       *)

LEMMA PersistRunningKeeps == ASSUME OutputsInv, PersistRunning PROVE OutputsInv'
PROOF
<1>1. FaultsCounted'
  BY FaultsStay DEF Next, RunnerStep
<1>2. Shapes'
  <2>1. step' \in Steps
    BY DEF OutputsInv, PersistRunning, Breaks, Goes, Fails, Steps
  <2>2. manifest' \in Manifests \union {NoFile}
    BY Made DEF PersistRunning, OutputsInv, Shapes
  <2> QED
    BY <2>1, <2>2 DEF OutputsInv, Shapes, PersistRunning, Breaks, Goes, Fails, rest
<1>3. RowsCounted'
  BY DEF OutputsInv, RowsCounted, PersistRunning, Breaks, Goes, Fails, Settling, Bundling,
     Audited
<1>4. Closing'
  BY DEF OutputsInv, Closing, PersistRunning, Breaks, Goes, Fails, Bundling, Audited
<1>5. BundleClosing'
  BY DEF OutputsInv, BundleClosing, PersistRunning, Breaks, Goes, Fails
<1>6. ManifestFollows'
  BY DEF OutputsInv, ManifestFollows, PersistRunning, Breaks, Goes, Fails, rest, Unended,
     RunningManifest, Success
<1>7. Failures'
  BY DEF OutputsInv, ManifestFollows, Failures, Emptied, PersistRunning, Breaks, Goes, Fails
<1>8. Emptied'
  BY DEF OutputsInv, Emptied, PersistRunning, Breaks, Goes, Fails
<1> QED
  BY <1>1, <1>2, <1>3, <1>4, <1>5, <1>6, <1>7, <1>8 DEF OutputsInv

LEMMA BeginOutputsKeeps == ASSUME OutputsInv, BeginOutputs PROVE OutputsInv'
PROOF
<1>1. FaultsCounted'
  BY FaultsStay DEF Next, RunnerStep
<1>2. Shapes'
  BY BeginShapes
<1>3. RowsCounted'
  BY BeginRows
<1>4. Closing'
  BY DEF OutputsInv, Closing, BeginOutputs, Breaks, Goes, Fails, Bundling, Audited
<1>5. BundleClosing'
  BY DEF OutputsInv, BundleClosing, BeginOutputs, Breaks, Goes, Fails
<1>6. ManifestFollows'
  BY DEF OutputsInv, ManifestFollows, BeginOutputs, Breaks, Goes, Fails, rest, Unended, Steps
<1>7. Failures'
  BY DEF OutputsInv, Failures, BeginOutputs, Breaks, Goes, Fails
<1>8. Emptied'
  BY DEF OutputsInv, Emptied, BeginOutputs, Breaks, Goes, Fails
<1> QED
  BY <1>1, <1>2, <1>3, <1>4, <1>5, <1>6, <1>7, <1>8 DEF OutputsInv

LEMMA SampleEventKeeps == ASSUME OutputsInv, SampleEvent PROVE OutputsInv'
PROOF
<1>1. FaultsCounted'
  BY FaultsStay DEF Next, RunnerStep
<1>2. Shapes'
  <2>1. particles' \in [abnormal : BOOLEAN, cancelled : BOOLEAN]
    BY OutputsAssumption DEF OutputsInv, Shapes, SampleEvent, Shapes
  <2>2. db' \in Databases \union {NoFile}
    <3>1. PICK abnormal \in BOOLEAN, ordinary \in BOOLEAN :
              /\ particles' = [particles EXCEPT !.abnormal = @ \/ abnormal]
              /\ IF ordinary
                 THEN /\ db' = [db EXCEPT !.samples = @ + writer.pending + 1,
                                          !.abnormal = particles'.abnormal, !.wal = TRUE]
                      /\ writer' = [writer EXCEPT !.pending = 0]
                 ELSE /\ writer' = [writer EXCEPT !.pending = @ + 1]
                      /\ UNCHANGED db
      BY DEF SampleEvent
    <3>2. db \in Databases /\ db.samples + writer.pending < MaxSamples
      BY DEF SampleEvent, OutputsInv, RowsCounted
    <3>3. db.samples \in Nat /\ writer.pending \in Nat
      BY <3>2, OutputsAssumption DEF OutputsInv, Shapes, Databases, Sinks
    <3>4. particles'.abnormal \in BOOLEAN
      BY <3>1 DEF OutputsInv, Shapes
    <3>5. db.samples + writer.pending + 1 \in 0..MaxSamples
      BY <3>2, <3>3, OutputsAssumption
    <3>6. \A n \in 0..MaxSamples, b \in BOOLEAN :
            [db EXCEPT !.samples = n, !.abnormal = b, !.wal = TRUE] \in Databases
      BY <3>2 DEF Databases
    <3> QED
      BY <3>1, <3>2, <3>4, <3>5, <3>6
  <2>3. writer' \in Sinks
    BY OutputsAssumption DEF OutputsInv, Shapes, SampleEvent, Sinks, Databases, RowsCounted
  <2>4. bundle' \in [held : BOOLEAN, spooled : 0..MaxSamples]
    BY OutputsAssumption DEF OutputsInv, Shapes, SampleEvent, RowsCounted
  <2> QED
    BY <2>1, <2>2, <2>3, <2>4 DEF OutputsInv, Shapes, SampleEvent
<1>3. RowsCounted'
  BY SampleRows
<1>4. Closing'
  BY DEF OutputsInv, Closing, SampleEvent, Bundling, Audited
<1>5. BundleClosing'
  BY DEF OutputsInv, BundleClosing, SampleEvent
<1>6. ManifestFollows'
  BY DEF OutputsInv, ManifestFollows, SampleEvent
<1>7. Failures'
  BY DEF OutputsInv, Failures, SampleEvent
<1>8. Emptied'
  BY DEF OutputsInv, Emptied, SampleEvent
<1> QED
  BY <1>1, <1>2, <1>3, <1>4, <1>5, <1>6, <1>7, <1>8 DEF OutputsInv

LEMMA SampleFailsKeeps == ASSUME OutputsInv, SampleFails PROVE OutputsInv'
PROOF
<1>1. FaultsCounted'
  BY FaultsStay DEF Next, RunnerStep
<1>2. Shapes'
  <2>1. step' \in Steps
    BY DEF OutputsInv, SampleFails, Breaks, Fails, Steps
  <2>2. writer' \in Sinks
    BY OutputsAssumption DEF OutputsInv, Shapes, SampleFails, Breaks, Fails, Sinks, Databases,
       RowsCounted
  <2> QED
    BY <2>1, <2>2 DEF OutputsInv, Shapes, SampleFails, Breaks, Fails, files, rest
<1>3. RowsCounted'
  BY DEF OutputsInv, RowsCounted, SampleFails, Breaks, Fails, Settling, Bundling, Audited
<1>4. Closing'
  BY DEF OutputsInv, Closing, SampleFails, Breaks, Fails, Bundling, Audited
<1>5. BundleClosing'
  BY DEF OutputsInv, BundleClosing, SampleFails, Breaks, Fails
<1>6. ManifestFollows'
  BY DEF OutputsInv, ManifestFollows, SampleFails, Breaks, Fails, files, rest, Unended, Steps
<1>7. Failures'
  BY DEF OutputsInv, Failures, SampleFails, Breaks, Fails
<1>8. Emptied'
  BY DEF OutputsInv, RowsCounted, Emptied, SampleFails, Breaks, Fails
<1> QED
  BY <1>1, <1>2, <1>3, <1>4, <1>5, <1>6, <1>7, <1>8 DEF OutputsInv

LEMMA LoopEndsKeeps == ASSUME OutputsInv, LoopEnds PROVE OutputsInv'
PROOF
<1>1. FaultsCounted'
  BY FaultsStay DEF Next, RunnerStep
<1>2. Shapes'
  BY DEF OutputsInv, Shapes, LoopEnds, Goes, files, Steps
<1>3. RowsCounted'
  BY DEF OutputsInv, RowsCounted, LoopEnds, Goes, files, Settling, Bundling, Audited
<1>4. Closing'
  BY DEF OutputsInv, Closing, LoopEnds, Goes, Bundling, Audited
<1>5. BundleClosing'
  BY DEF OutputsInv, BundleClosing, LoopEnds, Goes
<1>6. ManifestFollows'
  BY DEF OutputsInv, ManifestFollows, LoopEnds, Goes, files, Unended, Steps
<1>7. Failures'
  BY DEF OutputsInv, Failures, LoopEnds, Goes
<1>8. Emptied'
  BY DEF OutputsInv, Emptied, LoopEnds, Goes
<1> QED
  BY <1>1, <1>2, <1>3, <1>4, <1>5, <1>6, <1>7, <1>8 DEF OutputsInv

LEMMA CommitRowsKeeps == ASSUME OutputsInv, CommitRows PROVE OutputsInv'
PROOF
<1>1. FaultsCounted'
  BY FaultsStay DEF Next, RunnerStep
<1>2. Shapes'
  <2>1. step' \in Steps
    BY DEF OutputsInv, CommitRows, Breaks, Goes, Fails, Steps
  <2>2. db' \in Databases \union {NoFile}
    BY DEF OutputsInv, Shapes, CommitRows, Breaks, Goes, Fails, Databases, RowsCounted
  <2>3. writer' \in Sinks
    BY OutputsAssumption DEF OutputsInv, Shapes, CommitRows, Breaks, Goes, Fails, Sinks
  <2> QED
    BY <2>1, <2>2, <2>3 DEF OutputsInv, Shapes, CommitRows, Breaks, Goes, Fails, rest
<1>3. RowsCounted'
  BY CommitRowsCounted
<1>4. Closing'
  BY DEF OutputsInv, Closing, CommitRows, Breaks, Goes, Fails, Bundling, Audited
<1>5. BundleClosing'
  BY DEF OutputsInv, BundleClosing, CommitRows, Breaks, Goes, Fails
<1>6. ManifestFollows'
  BY DEF OutputsInv, ManifestFollows, CommitRows, Breaks, Goes, Fails, rest, Unended, Steps
<1>7. Failures'
  BY DEF OutputsInv, Failures, CommitRows, Breaks, Goes, Fails
<1>8. Emptied'
  BY DEF OutputsInv, RowsCounted, Emptied, CommitRows, Breaks, Goes, Fails
<1> QED
  BY <1>1, <1>2, <1>3, <1>4, <1>5, <1>6, <1>7, <1>8 DEF OutputsInv

LEMMA SettleRunRowKeeps == ASSUME OutputsInv, SettleRunRow PROVE OutputsInv'
PROOF
<1>1. FaultsCounted'
  BY FaultsStay DEF Next, RunnerStep
<1>2. Shapes'
  <2>1. step' \in Steps
    BY DEF OutputsInv, SettleRunRow, Breaks, Goes, Fails, Steps
  <2>2. db' \in Databases \union {NoFile}
    BY DEF OutputsInv, SettleRunRow, Breaks, Goes, Fails, Databases, Success, RowsCounted,
       Settling
  <2> QED
    BY <2>1, <2>2 DEF OutputsInv, Shapes, SettleRunRow, Breaks, Goes, Fails, rest
<1>3. RowsCounted'
  BY SettleRows
<1>4. Closing'
  BY SettleClosing
<1>5. BundleClosing'
  BY DEF OutputsInv, BundleClosing, SettleRunRow, Breaks, Goes, Fails
<1>6. ManifestFollows'
  BY DEF OutputsInv, ManifestFollows, SettleRunRow, Breaks, Goes, Fails, rest, Unended, Steps
<1>7. Failures'
  BY DEF OutputsInv, Failures, SettleRunRow, Breaks, Goes, Fails
<1>8. Emptied'
  BY DEF OutputsInv, RowsCounted, Emptied, SettleRunRow, Breaks, Goes, Fails, Settling
<1> QED
  BY <1>1, <1>2, <1>3, <1>4, <1>5, <1>6, <1>7, <1>8 DEF OutputsInv

LEMMA CheckpointKeeps == ASSUME OutputsInv, Checkpoint PROVE OutputsInv'
PROOF
<1>1. FaultsCounted'
  BY FaultsStay DEF Next, RunnerStep
<1>2. Shapes'
  <2>1. step' \in Steps
    BY DEF OutputsInv, Checkpoint, Goes, Breaks, Fails, Steps
  <2>2. db' \in Databases \union {NoFile}
    BY DEF OutputsInv, Checkpoint, Goes, Breaks, Fails, Databases, RowsCounted, Settling
  <2> QED
    BY <2>1, <2>2 DEF OutputsInv, Shapes, Checkpoint, Goes, Breaks, Fails, rest
<1>3. RowsCounted'
  BY DEF OutputsInv, RowsCounted, Checkpoint, Goes, Breaks, Fails, rest, Settling, Databases
<1>4. Closing'
  BY DEF OutputsInv, RowsCounted, Closing, Checkpoint, Goes, Breaks, Fails, Settling, Bundling,
     Audited, RunRowOf, Databases
<1>5. BundleClosing'
  BY DEF OutputsInv, BundleClosing, Checkpoint, Goes, Breaks, Fails
<1>6. ManifestFollows'
  BY DEF OutputsInv, ManifestFollows, Checkpoint, Goes, Breaks, Fails, rest, Unended, Steps
<1>7. Failures'
  BY DEF OutputsInv, Failures, Checkpoint, Goes, Breaks, Fails
<1>8. Emptied'
  BY DEF OutputsInv, RowsCounted, Emptied, Checkpoint, Goes, Breaks, Fails, Settling
<1> QED
  BY <1>1, <1>2, <1>3, <1>4, <1>5, <1>6, <1>7, <1>8 DEF OutputsInv

LEMMA AuditDatabaseKeeps == ASSUME OutputsInv, AuditDatabase PROVE OutputsInv'
PROOF
<1>1. FaultsCounted'
  BY FaultsStay DEF Next, RunnerStep
<1>2. Shapes'
  <2>1. step' \in Steps
    BY DEF OutputsInv, AuditDatabase, Breaks, Goes, Fails, Steps
  <2>2. writer' \in Sinks
    BY DEF OutputsInv, Shapes, AuditDatabase, Breaks, Goes, Fails, Sinks, Databases, RowsCounted,
       Settling
  <2> QED
    BY <2>1, <2>2 DEF OutputsInv, Shapes, AuditDatabase, Breaks, Goes, Fails, files, rest
<1>3. RowsCounted'
  BY DEF OutputsInv, RowsCounted, AuditDatabase, Breaks, Goes, Fails, files, rest, Settling
<1>4. Closing'
  BY DEF OutputsInv, Shapes, Closing, AuditDatabase, Breaks, Goes, Fails, files, Bundling,
     Audited, Sinks
<1>5. BundleClosing'
  BY DEF OutputsInv, BundleClosing, AuditDatabase, Breaks, Goes, Fails
<1>6. ManifestFollows'
  BY DEF OutputsInv, ManifestFollows, AuditDatabase, Breaks, Goes, Fails, files, rest, Unended,
     Steps
<1>7. Failures'
  BY DEF OutputsInv, Failures, AuditDatabase, Breaks, Goes, Fails
<1>8. Emptied'
  BY DEF OutputsInv, RowsCounted, Emptied, AuditDatabase, Breaks, Goes, Fails, Settling
<1> QED
  BY <1>1, <1>2, <1>3, <1>4, <1>5, <1>6, <1>7, <1>8 DEF OutputsInv

LEMMA SortSpoolKeeps == ASSUME OutputsInv, SortSpool PROVE OutputsInv'
PROOF
<1>1. FaultsCounted'
  BY FaultsStay DEF Next, RunnerStep
<1>2. Shapes'
  BY DEF OutputsInv, Shapes, SortSpool, Breaks, Goes, Fails, rest, Scratch, Steps
<1>3. RowsCounted'
  BY DEF OutputsInv, RowsCounted, SortSpool, Breaks, Goes, Fails, rest, Bundling, Audited
<1>4. Closing'
  BY DEF OutputsInv, Closing, SortSpool, Breaks, Goes, Fails, Bundling, Audited
<1>5. BundleClosing'
  BY DEF OutputsInv, BundleClosing, SortSpool, Breaks, Goes, Fails
<1>6. ManifestFollows'
  BY DEF OutputsInv, ManifestFollows, SortSpool, Breaks, Goes, Fails, rest, Unended, Steps
<1>7. Failures'
  BY DEF OutputsInv, Failures, SortSpool, Breaks, Goes, Fails
<1>8. Emptied'
  BY DEF OutputsInv, RowsCounted, Emptied, SortSpool, Breaks, Goes, Fails, Bundling
<1> QED
  BY <1>1, <1>2, <1>3, <1>4, <1>5, <1>6, <1>7, <1>8 DEF OutputsInv

LEMMA WriteBundleKeeps == ASSUME OutputsInv, WriteBundle PROVE OutputsInv'
PROOF
<1>1. FaultsCounted'
  BY FaultsStay DEF Next, RunnerStep
<1>2. Shapes'
  <2>1. step' \in Steps
    BY DEF OutputsInv, WriteBundle, Breaks, Goes, Fails, Steps
  <2>2. tmp' \in Contents \union {NoFile}
    BY DEF OutputsInv, Shapes, WriteBundle, Breaks, Goes, Fails, Contents, Content, Databases,
       RowsCounted, Audited, Bundling
  <2>3. scratch' \subseteq Scratch
    BY DEF OutputsInv, Shapes, WriteBundle, Breaks, Goes, Fails, Scratch
  <2> QED
    BY <2>1, <2>2, <2>3 DEF OutputsInv, Shapes, WriteBundle, Breaks, Goes, Fails, rest
<1>3. RowsCounted'
  BY DEF OutputsInv, RowsCounted, WriteBundle, Breaks, Goes, Fails, rest, Bundling, Audited
<1>4. Closing'
  BY DEF OutputsInv, Closing, WriteBundle, Breaks, Goes, Fails, Bundling, Audited
<1>5. BundleClosing'
  BY DEF OutputsInv, BundleClosing, WriteBundle, Breaks, Goes, Fails, Agreed, Content
<1>6. ManifestFollows'
  BY DEF OutputsInv, ManifestFollows, WriteBundle, Breaks, Goes, Fails, rest, Unended, Steps
<1>7. Failures'
  BY DEF OutputsInv, Failures, WriteBundle, Breaks, Goes, Fails
<1>8. Emptied'
  BY DEF OutputsInv, RowsCounted, Emptied, WriteBundle, Breaks, Goes, Fails, Bundling
<1> QED
  BY <1>1, <1>2, <1>3, <1>4, <1>5, <1>6, <1>7, <1>8 DEF OutputsInv

LEMMA RenameBundleKeeps == ASSUME OutputsInv, RenameBundle PROVE OutputsInv'
PROOF
<1>1. FaultsCounted'
  BY FaultsStay DEF Next, RunnerStep
<1>2. Shapes'
  BY DEF OutputsInv, Shapes, RenameBundle, Breaks, Goes, Fails, rest, Steps
<1>3. RowsCounted'
  BY DEF OutputsInv, RowsCounted, RenameBundle, Breaks, Goes, Fails, rest, Bundling, Audited
<1>4. Closing'
  BY DEF OutputsInv, Closing, RenameBundle, Breaks, Goes, Fails, Bundling, Audited
<1>5. BundleClosing'
  BY DEF OutputsInv, BundleClosing, RenameBundle, Breaks, Goes, Fails, Agreed
<1>6. ManifestFollows'
  BY DEF OutputsInv, ManifestFollows, RenameBundle, Breaks, Goes, Fails, rest, Unended, Steps
<1>7. Failures'
  BY DEF OutputsInv, Failures, RenameBundle, Breaks, Goes, Fails
<1>8. Emptied'
  BY DEF OutputsInv, RowsCounted, Emptied, RenameBundle, Breaks, Goes, Fails, Bundling
<1> QED
  BY <1>1, <1>2, <1>3, <1>4, <1>5, <1>6, <1>7, <1>8 DEF OutputsInv

LEMMA IdentifyBundleKeeps == ASSUME OutputsInv, IdentifyBundle PROVE OutputsInv'
PROOF
<1>1. FaultsCounted'
  BY FaultsStay DEF Next, RunnerStep
<1>2. Shapes'
  <2>1. step' \in Steps
    BY DEF OutputsInv, IdentifyBundle, Breaks, Goes, Fails, Steps
  <2>2. writer' \in Sinks
    BY DEF OutputsInv, Shapes, IdentifyBundle, Breaks, Goes, Fails, Sinks
  <2>3. bundle' \in [held : BOOLEAN, spooled : 0..MaxSamples]
    BY Made DEF IdentifyBundle, OutputsInv, Shapes
  <2>4. scratch' \subseteq Scratch
    BY DEF OutputsInv, Shapes, IdentifyBundle, Breaks, Goes, Fails, Scratch
  <2> QED
    BY <2>1, <2>2, <2>3, <2>4 DEF OutputsInv, Shapes, IdentifyBundle, Breaks, Goes, Fails, rest
<1>3. RowsCounted'
  BY DEF OutputsInv, RowsCounted, IdentifyBundle, Breaks, Goes, Fails, rest, Settling, Bundling,
     Audited
<1>4. Closing'
  BY DEF OutputsInv, Shapes, Closing, IdentifyBundle, Breaks, Goes, Fails, Bundling, Audited,
     Sinks
<1>5. BundleClosing'
  BY DEF OutputsInv, Shapes, BundleClosing, IdentifyBundle, Breaks, Goes, Fails, Agreed, Sinks
<1>6. ManifestFollows'
  BY DEF OutputsInv, ManifestFollows, IdentifyBundle, Breaks, Goes, Fails, rest, Unended, Steps
<1>7. Failures'
  BY DEF OutputsInv, Failures, IdentifyBundle, Breaks, Goes, Fails
<1>8. Emptied'
  BY DEF OutputsInv, RowsCounted, BundleClosing, Emptied, IdentifyBundle, Breaks, Goes, Fails,
     Bundling
<1> QED
  BY <1>1, <1>2, <1>3, <1>4, <1>5, <1>6, <1>7, <1>8 DEF OutputsInv

LEMMA PublishResultKeeps == ASSUME OutputsInv, PublishResult PROVE OutputsInv'
PROOF
<1>1. FaultsCounted'
  BY FaultsStay DEF Next, RunnerStep
<1>2. Shapes'
  <2>1. step' \in Steps
    BY DEF OutputsInv, PublishResult, Breaks, Goes, Fails, Steps
  <2>2. manifest' \in Manifests \union {NoFile}
    BY Terminated DEF PublishResult, OutputsInv, Shapes
  <2> QED
    BY <2>1, <2>2 DEF OutputsInv, Shapes, PublishResult, Breaks, Goes, Fails, rest
<1>3. RowsCounted'
  BY DEF OutputsInv, RowsCounted, PublishResult, Breaks, Goes, Fails, Settling, Bundling, Audited
<1>4. Closing'
  BY DEF OutputsInv, Closing, PublishResult, Breaks, Goes, Fails, Audited
<1>5. BundleClosing'
  BY DEF OutputsInv, BundleClosing, PublishResult, Breaks, Goes, Fails
<1>6. ManifestFollows'
  BY PublishFollows
<1>7. Failures'
  BY DEF OutputsInv, Failures, PublishResult, Breaks, Goes, Fails
<1>8. Emptied'
  BY DEF OutputsInv, Emptied, PublishResult, Breaks, Goes, Fails
<1> QED
  BY <1>1, <1>2, <1>3, <1>4, <1>5, <1>6, <1>7, <1>8 DEF OutputsInv

LEMMA QuarantineKeeps == ASSUME OutputsInv, Quarantine PROVE OutputsInv'
PROOF
<1>1. FaultsCounted'
  BY FaultsStay DEF Next, RunnerStep
<1>2. Shapes'
  BY DEF OutputsInv, Shapes, Quarantine, Breaks, Goes, Fails, rest, Sinks, Steps
<1>3. RowsCounted'
  BY DEF OutputsInv, RowsCounted, Quarantine, Breaks, Goes, Fails, Settling, Bundling, Audited
<1>4. Closing'
  BY DEF OutputsInv, Closing, Quarantine, Breaks, Goes, Fails, Bundling, Audited
<1>5. BundleClosing'
  BY DEF OutputsInv, BundleClosing, Quarantine, Breaks, Goes, Fails
<1>6. ManifestFollows'
  BY DEF OutputsInv, ManifestFollows, Quarantine, Breaks, Goes, Fails, rest, Unended, Steps
<1>7. Failures'
  BY DEF OutputsInv, Failures, Quarantine, Breaks, Goes, Fails, Twice
<1>8. Emptied'
  BY DEF OutputsInv, Emptied, Quarantine, Breaks, Goes, Fails
<1> QED
  BY <1>1, <1>2, <1>3, <1>4, <1>5, <1>6, <1>7, <1>8 DEF OutputsInv

LEMMA AbortOutputsKeeps == ASSUME OutputsInv, AbortOutputs PROVE OutputsInv'
PROOF
<1>1. FaultsCounted'
  BY FaultsStay DEF Next, RunnerStep
<1>2. Shapes'
  <2>1. step' \in Steps
    BY DEF OutputsInv, AbortOutputs, Goes, Breaks, Steps
  <2>2. writer' \in Sinks
    BY Opened DEF AbortOutputs, OutputsInv, Shapes
  <2>3. bundle' \in [held : BOOLEAN, spooled : 0..MaxSamples]
    BY OutputsAssumption DEF OutputsInv, AbortOutputs, Goes, Breaks, NoBuilder
  <2>4. scratch' \subseteq Scratch
    BY DEF OutputsInv, Shapes, AbortOutputs, Goes, Breaks, Scratch
  <2>5. tmp' \in Contents \union {NoFile}
    BY DEF OutputsInv, Shapes, AbortOutputs, Goes, Breaks, Contents
  <2>6. final' \in Contents \union {NoFile}
    BY DEF OutputsInv, Shapes, AbortOutputs, Goes, Breaks, Contents
  <2> QED
    BY <2>1, <2>2, <2>3, <2>4, <2>5, <2>6 DEF OutputsInv, Shapes, AbortOutputs, Goes, Breaks,
       rest
<1>3. RowsCounted'
  BY DEF OutputsInv, RowsCounted, AbortOutputs, Goes, Breaks, Settling, Bundling, Audited
<1>4. Closing'
  BY DEF OutputsInv, Closing, AbortOutputs, Goes, Breaks, Bundling, Audited
<1>5. BundleClosing'
  BY DEF OutputsInv, BundleClosing, AbortOutputs, Goes, Breaks
<1>6. ManifestFollows'
  BY DEF OutputsInv, ManifestFollows, AbortOutputs, Goes, Breaks, rest, Unended, Steps
<1>7. Failures'
  BY DEF OutputsInv, Failures, Emptied, AbortOutputs, Goes, Breaks, Twice
<1>8. Emptied'
  BY DEF OutputsInv, Emptied, AbortOutputs, Goes, Breaks
<1> QED
  BY <1>1, <1>2, <1>3, <1>4, <1>5, <1>6, <1>7, <1>8 DEF OutputsInv

LEMMA PublishFailedKeeps == ASSUME OutputsInv, PublishFailed PROVE OutputsInv'
PROOF
<1>1. FaultsCounted'
  BY FaultsStay DEF Next, RunnerStep
<1>2. Shapes'
  <2>1. step' \in Steps
    BY DEF OutputsInv, PublishFailed, Breaks, Goes, Fails, Steps
  <2>2. manifest' \in Manifests \union {NoFile}
    BY FailedIs DEF PublishFailed, OutputsInv, Shapes
  <2> QED
    BY <2>1, <2>2 DEF OutputsInv, Shapes, PublishFailed, Breaks, Goes, Fails, rest
<1>3. RowsCounted'
  BY DEF OutputsInv, RowsCounted, PublishFailed, Breaks, Goes, Fails, Settling, Bundling, Audited
<1>4. Closing'
  BY DEF OutputsInv, Closing, PublishFailed, Breaks, Goes, Fails, Bundling, Audited
<1>5. BundleClosing'
  BY DEF OutputsInv, BundleClosing, PublishFailed, Breaks, Goes, Fails
<1>6. ManifestFollows'
  BY PublishFailedFollows
<1>7. Failures'
  BY PublishFailedFailures
<1>8. Emptied'
  BY DEF OutputsInv, Emptied, PublishFailed, Breaks, Goes, Fails
<1> QED
  BY <1>1, <1>2, <1>3, <1>4, <1>5, <1>6, <1>7, <1>8 DEF OutputsInv

LEMMA ReportOutcomeKeeps == ASSUME OutputsInv, ReportOutcome PROVE OutputsInv'
PROOF
<1>1. FaultsCounted'
  BY FaultsStay DEF Next, RunnerStep
<1>2. Shapes'
  <2>1. reported' \in Terminal \union {"nothing"}
    BY DEF OutputsInv, ReportOutcome, Terminal, Success, EndStatus
  <2> QED
    BY <2>1 DEF OutputsInv, Shapes, ReportOutcome, files
<1>3. RowsCounted'
  BY DEF OutputsInv, RowsCounted, ReportOutcome, files
<1>4. Closing'
  BY DEF OutputsInv, Closing, ReportOutcome, files
<1>5. BundleClosing'
  BY DEF OutputsInv, BundleClosing, ReportOutcome, files, Agreed
<1>6. ManifestFollows'
  BY ReportFollows
<1>7. Failures'
  BY DEF OutputsInv, Failures, ReportOutcome, files, Twice
<1>8. Emptied'
  BY DEF OutputsInv, Emptied, ReportOutcome, files
<1> QED
  BY <1>1, <1>2, <1>3, <1>4, <1>5, <1>6, <1>7, <1>8 DEF OutputsInv

LEMMA WorkerDiesKeeps == ASSUME OutputsInv, WorkerDies PROVE OutputsInv'
PROOF
<1>1. FaultsCounted'
  BY FaultsStay DEF Next, RunnerStep
<1>2. Shapes'
  <2>1. step' \in Steps
    BY DEF OutputsInv, WorkerDies, Steps
  <2>2. writer' \in Sinks
    BY OutputsAssumption DEF OutputsInv, WorkerDies, Sinks, NoSink
  <2>3. bundle' \in [held : BOOLEAN, spooled : 0..MaxSamples]
    BY OutputsAssumption DEF OutputsInv, WorkerDies, NoBuilder
  <2> QED
    BY <2>1, <2>2, <2>3 DEF OutputsInv, Shapes, WorkerDies, files, rest
<1>3. RowsCounted'
  BY DEF OutputsInv, RowsCounted, WorkerDies, Settling, Bundling, Audited
<1>4. Closing'
  BY DEF OutputsInv, Closing, WorkerDies, Bundling, Audited
<1>5. BundleClosing'
  BY DEF OutputsInv, BundleClosing, WorkerDies
<1>6. ManifestFollows'
  BY DEF OutputsInv, ManifestFollows, WorkerDies, files, rest, Unended, Verifies
<1>7. Failures'
  BY DEF OutputsInv, Failures, WorkerDies
<1>8. Emptied'
  BY DEF OutputsInv, Emptied, WorkerDies
<1> QED
  BY <1>1, <1>2, <1>3, <1>4, <1>5, <1>6, <1>7, <1>8 DEF OutputsInv

LEMMA RecoverKeeps == ASSUME OutputsInv, Recover PROVE OutputsInv'
PROOF
<1>1. FaultsCounted'
  BY FaultsStay DEF Next, RunnerStep
<1>2. Shapes'
  <2>1. reported' \in Terminal \union {"nothing"}
    BY DEF OutputsInv, Shapes, Recover, Manifests, Terminal
  <2>2. manifest' \in Manifests \union {NoFile}
    BY InterruptedIs DEF Recover, OutputsInv, Shapes
  <2> QED
    BY <2>1, <2>2 DEF OutputsInv, Shapes, Recover
<1>3. RowsCounted'
  BY DEF OutputsInv, RowsCounted, Recover
<1>4. Closing'
  BY DEF OutputsInv, Closing, Recover
<1>5. BundleClosing'
  BY DEF OutputsInv, BundleClosing, Recover
<1>6. ManifestFollows'
  BY RecoverFollows
<1>7. Failures'
  BY DEF OutputsInv, Failures, Recover
<1>8. Emptied'
  BY DEF OutputsInv, Emptied, Recover
<1> QED
  BY <1>1, <1>2, <1>3, <1>4, <1>5, <1>6, <1>7, <1>8 DEF OutputsInv

LEMMA ReaderComesKeeps == ASSUME OutputsInv, ReaderComes PROVE OutputsInv'
PROOF
<1>1. FaultsCounted'
  BY FaultsStay DEF Next, RunnerStep
<1>2. Shapes'
  BY DEF OutputsInv, Shapes, ReaderComes, files
<1>3. RowsCounted'
  BY DEF OutputsInv, RowsCounted, ReaderComes, files
<1>4. Closing'
  BY DEF OutputsInv, Closing, ReaderComes, files
<1>5. BundleClosing'
  BY DEF OutputsInv, BundleClosing, ReaderComes, files, Agreed
<1>6. ManifestFollows'
  BY DEF OutputsInv, ManifestFollows, ReaderComes, files, Verifies, EndStatus
<1>7. Failures'
  BY DEF OutputsInv, Failures, ReaderComes, files, Twice
<1>8. Emptied'
  BY DEF OutputsInv, Emptied, ReaderComes, files
<1> QED
  BY <1>1, <1>2, <1>3, <1>4, <1>5, <1>6, <1>7, <1>8 DEF OutputsInv

LEMMA ReaderGoesKeeps == ASSUME OutputsInv, ReaderGoes PROVE OutputsInv'
PROOF
<1>1. FaultsCounted'
  BY FaultsStay DEF Next, RunnerStep
<1>2. Shapes'
  <2>1. reader' \in BOOLEAN
    BY OutputsAssumption DEF OutputsInv, Shapes, ReaderGoes, files, Shapes
  <2> QED
    BY <2>1 DEF OutputsInv, Shapes, ReaderGoes, files
<1>3. RowsCounted'
  BY DEF OutputsInv, RowsCounted, ReaderGoes, files
<1>4. Closing'
  BY DEF OutputsInv, Closing, ReaderGoes, files
<1>5. BundleClosing'
  BY DEF OutputsInv, BundleClosing, ReaderGoes, files, Agreed
<1>6. ManifestFollows'
  BY DEF OutputsInv, ManifestFollows, ReaderGoes, files, Verifies, EndStatus
<1>7. Failures'
  BY DEF OutputsInv, Failures, ReaderGoes, files, Twice
<1>8. Emptied'
  BY DEF OutputsInv, Emptied, ReaderGoes, files
<1> QED
  BY <1>1, <1>2, <1>3, <1>4, <1>5, <1>6, <1>7, <1>8 DEF OutputsInv

---------------------------------------------------------------------------
(* The theorems.                                                           *)

LEMMA InvStarts == Init => OutputsInv
PROOF
<1> SUFFICES ASSUME Init PROVE OutputsInv
  OBVIOUS
<1>1. Shapes
  BY Made DEF Init, Shapes, Steps, Scratch
<1>2. FaultsCounted
  BY FS_EmptySet, OutputsAssumption DEF Init, FaultsCounted
<1>3. RowsCounted /\ Closing /\ BundleClosing
  BY DEF Init, RowsCounted, Closing, BundleClosing, Settling, Audited, Bundling
<1>4. ManifestFollows
  BY Sorts DEF Init, ManifestFollows, Unended, Success
<1>5. Failures /\ Emptied
  BY DEF Init, Failures, Emptied, NoBuilder
<1> QED
  BY <1>1, <1>2, <1>3, <1>4, <1>5 DEF OutputsInv

LEMMA StillInv == OutputsInv /\ UNCHANGED vars => OutputsInv'
  BY DEF OutputsInv, vars, Shapes, FaultsCounted, RowsCounted, Closing, BundleClosing, Agreed,
     ManifestFollows, EndStatus, Verifies, Failures, Twice, Emptied

LEMMA NotTwice == ASSUME FaultsCounted, Cardinality(faults) <= 1 PROVE ~Twice
PROOF
<1>1. Cardinality(faults) \in Nat /\ IsFiniteSet(faults)
  BY FS_CardinalityType DEF FaultsCounted
<1>2. CASE Cardinality(faults) = 0
  BY <1>1, <1>2, FS_EmptySet DEF Twice
<1>3. CASE Cardinality(faults) = 1
  <2>1. \E x : faults = {x}
    BY <1>1, <1>3, FS_Singleton
  <2> QED
    BY <2>1 DEF Twice
<1> QED
  BY <1>1, <1>2, <1>3

LEMMA InvTells == OutputsInv => ClosedIsHonest
PROOF
<1> SUFFICES ASSUME OutputsInv PROVE ClosedIsHonest
  OBVIOUS
<1>1. TypeOK
  <2>1. manifest = NoFile \/ manifest.status \in Terminal \union {"running"}
    BY DEF OutputsInv, Shapes, Manifests
  <2>2. writer.open \in BOOLEAN /\ writer.pending \in 0..MaxSamples + 1
    BY DEF OutputsInv, Shapes, Sinks
  <2>3. Cardinality(faults) <= MaxFaults
    BY DEF OutputsInv, FaultsCounted
  <2> QED
    BY <2>1, <2>2, <2>3 DEF TypeOK, OutputsInv, Shapes, Steps, Databases
<1>2. SuccessVerifies
  BY DEF SuccessVerifies, OutputsInv, Shapes, ManifestFollows
<1>3. ReportedIsProved
  BY DEF ReportedIsProved, OutputsInv, ManifestFollows
<1>4. NoFormalBundleOnFailure
  BY NotTwice DEF NoFormalBundleOnFailure, OutputsInv, Failures
<1>5. NoScratchAfterReturn
  BY DEF NoScratchAfterReturn, Returned, OutputsInv, Emptied
<1>6. SingleFailureRecorded
  BY NotTwice DEF SingleFailureRecorded, OutputsInv, Failures
<1> QED
  BY <1>1, <1>2, <1>3, <1>4, <1>5, <1>6 DEF ClosedIsHonest

LEMMA StepKeeps == OutputsInv /\ Next => OutputsInv'
  BY PersistRunningKeeps, BeginOutputsKeeps, SampleEventKeeps, SampleFailsKeeps, LoopEndsKeeps,
     CommitRowsKeeps, SettleRunRowKeeps, CheckpointKeeps, AuditDatabaseKeeps, SortSpoolKeeps,
     WriteBundleKeeps, RenameBundleKeeps, IdentifyBundleKeeps, PublishResultKeeps,
     QuarantineKeeps, AbortOutputsKeeps, PublishFailedKeeps, ReportOutcomeKeeps,
     WorkerDiesKeeps, RecoverKeeps, ReaderComesKeeps, ReaderGoesKeeps
     DEF Next, RunnerStep

LEMMA OutputsInvHolds == Spec => []OutputsInv
PROOF
<1>1. OutputsInv /\ [Next]_vars => OutputsInv'
  BY StepKeeps, StillInv
<1> QED
  BY InvStarts, <1>1, PTL DEF Spec

(***************************************************************************)
(* Whatever fails and wherever the worker is killed, what an attempt       *)
(* leaves on disk is honest: success is claimed, in the manifest or to the *)
(* catalog, only of closed, complete and identical artifacts, and a run    *)
(* that failed leaves neither a formal bundle nor a scratch file, and says *)
(* that it failed (run_with_control, finalize_terminal and the sinks).     *)
(***************************************************************************)
THEOREM OutputsHonest == Spec => []ClosedIsHonest
PROOF
<1>1. OutputsInv => ClosedIsHonest
  BY InvTells
<1> QED
  BY OutputsInvHolds, <1>1, PTL

LEMMA TerminalKept == ASSUME OutputsInv, [Next]_vars PROVE TerminalManifestStays
PROOF
<1> SUFFICES ASSUME manifest # NoFile, manifest.status \in Terminal PROVE manifest' = manifest
  BY DEF TerminalManifestStays
<1>1. CASE UNCHANGED manifest
  BY <1>1
<1>2. step # "persist" /\ step \notin Unended
  BY DEF OutputsInv, ManifestFollows, RunningManifest, Terminal, Success
<1>3. CASE PersistRunning \/ PublishResult \/ PublishFailed
  BY <1>2, <1>3 DEF PersistRunning, PublishResult, PublishFailed, Unended, Steps
<1>4. CASE Recover
  BY <1>4 DEF Recover, Terminal, Success
<1>5. UNCHANGED manifest \/ PersistRunning \/ PublishResult \/ PublishFailed \/ Recover
  BY DEF vars, Next, RunnerStep, BeginOutputs, SampleEvent, SampleFails, LoopEnds, CommitRows,
     SettleRunRow, Checkpoint, AuditDatabase, SortSpool, WriteBundle, RenameBundle,
     IdentifyBundle, Quarantine, AbortOutputs, ReportOutcome, WorkerDies, ReaderComes,
     ReaderGoes, files
<1> QED
  BY <1>1, <1>3, <1>4, <1>5

(***************************************************************************)
(* A terminal manifest is never rewritten: not by the failure paths of the *)
(* runner, and not by the recovery of a later daemon.                      *)
(***************************************************************************)
THEOREM TerminalManifestsStay == Spec => TerminalManifestFinal
PROOF
<1>1. OutputsInv /\ [Next]_vars => [TerminalManifestStays]_vars
  BY TerminalKept
<1> QED
  BY OutputsInvHolds, <1>1, PTL DEF Spec, TerminalManifestFinal

-----------------------------------------------------------------------------
(* The rows (RunLog).  What holds of the events and of the rows of one     *)
(* particle at every moment, and what the loop knows of them in each of    *)
(* its phases.                                                             *)

Events == [time : Span, kind : Kinds]
Rows   == [event : Nat, time : Span, status : {"alive", "terminated"}]

\* There is one event for an instant.
OneAnInstant(events) ==
    \A i, j \in 1..Len(events) : events[i].time = events[j].time => i = j

\* The rows of a particle that was born at b and may have died at d: they pass the audit, tell
\* its life, and as long as there may be more of them, whatever event is later is behind them.
RowsOk(events, rows, b, d) ==
    /\ rows \in Seq(Rows)
    /\ Audits(events, rows, b)
    /\ \A k \in 1..Len(rows) : /\ b <= rows[k].time /\ rows[k].time <= d
                               /\ rows[k].status = "terminated" => rows[k].time = d
    /\ ~ Closed(rows) =>
          \A k \in 1..Len(rows), e \in 1..Len(events) :
              rows[k].time < events[e].time => rows[k].event < e

StoreOk ==
    /\ OneAnInstant(log.events)
    /\ \A p \in Particles : RowsOk(log.events, log.rows[p], birth[p], death[p])
    /\ \A p \in Particles : Dead(p) => birth[p] <= death[p]

\* Before anything is written.
Beginning ==
    /\ log = Empty /\ now = 0 /\ stepEnd = 0 /\ calls = {}
    /\ death = [p \in Particles |-> Never]
    /\ emitted = IF phase = "begin" THEN {} ELSE {p \in Particles : birth[p] = 0}

\* The scheduled samples up to an instant have been taken.
Covered(t) == t \in schedule =>
    \A p \in Particles : birth[p] <= t /\ t <= death[p] => HasTime(log.rows[p], t)

\* Between two steps every birth, every death and every event is written.
AtRest ==
    /\ now = stepEnd /\ calls = {} /\ emitted = {p \in Particles : birth[p] <= now}
    /\ \A p \in Particles : /\ log.rows[p] # <<>> <=> birth[p] <= now
                            /\ Closed(log.rows[p]) <=> Dead(p)
                            /\ \A t \in Span : HasTime(log.rows[p], t) => t <= now
    /\ \A t \in Span : HasTime(log.events, t) => t <= now
    /\ \A t \in 0..now : Covered(t)

InStep ==
    /\ now < stepEnd /\ emitted = {p \in Particles : birth[p] <= stepEnd}
    /\ \A t \in schedule : ~ (now < t /\ t < stepEnd)
    /\ \A t \in 0..now : Covered(t)
    /\ \A t \in Span : HasTime(log.events, t) => t < stepEnd

\* The births inside the step are written in the order of time.
InBirths ==
    /\ InStep
    /\ \A g \in calls : /\ now < g.time /\ g.time < stepEnd
                        /\ g.particles = {p \in Particles : birth[p] = g.time}
                        /\ \A t \in Span : HasTime(log.events, t) => t < g.time
    /\ \A p \in Particles :
          /\ log.rows[p] # <<>> <=> \/ birth[p] <= now
                                    \/ birth[p] < stepEnd /\ \A g \in calls : g.time # birth[p]
          /\ Closed(log.rows[p]) <=> Dead(p)
          /\ \A t \in Span : HasTime(log.rows[p], t) => t <= now \/ t = birth[p]

\* Then the deaths inside the step.
InDeaths ==
    /\ InStep
    /\ \A g \in calls :
          /\ now <= g.time /\ g.time < stepEnd
          /\ \A p \in g.particles : death[p] = g.time /\ ~ Closed(log.rows[p])
          /\ \A h \in calls : h.time = g.time => h = g
    /\ \A p \in Particles :
          /\ log.rows[p] # <<>> <=> birth[p] < stepEnd
          /\ \A t \in Span : HasTime(log.rows[p], t) => t < stepEnd
          /\ Dead(p) => /\ birth[p] < stepEnd
                        /\ \/ Closed(log.rows[p]) \/ death[p] = stepEnd
                           \/ \E g \in calls : p \in g.particles

\* What is left is the instant that the step ends at.
InSample ==
    /\ now = stepEnd /\ calls = {} /\ emitted = {p \in Particles : birth[p] <= now}
    /\ \A p \in Particles :
          /\ log.rows[p] # <<>> <=> birth[p] < now
          /\ \A t \in Span : HasTime(log.rows[p], t) => t < now
          /\ Dead(p) => Closed(log.rows[p]) \/ death[p] = now
    /\ \A t \in Span : HasTime(log.events, t) => t < now
    /\ \A t \in 0..now - 1 : Covered(t)

Progress ==
    /\ phase \in {"begin", "snapshot"} => Beginning
    /\ phase \in {"poll", "plan", "finish"} => AtRest
    /\ phase = "births" => InBirths
    /\ phase = "deaths" => InDeaths
    /\ phase = "sample" => InSample

\* What is not committed: fewer instants than the open transaction has events.
Loss ==
    /\ Extends(log, disk)
    /\ IsFiniteSet(Lost(log, disk)) /\ Cardinality(Lost(log, disk)) <= unsaved
    /\ \A k \in 1..Len(log.events) :
          log.events[k].kind \notin Lifecycle => log.events[k].time \notin Lost(log, disk)

RowsInv ==
    /\ LogTypeOK /\ ~ refused
    /\ StoreOk /\ SnapshotAudits /\ Progress /\ Loss /\ SuccessIsComplete

-----------------------------------------------------------------------------
(* The events.                                                             *)

\* The events `ev' are those of `later' but for what was written at t: event s, of the kind
\* given or of a higher one.
EventWritten(ev, later, s, t, kind) ==
    /\ later \in Seq(Events) /\ OneAnInstant(later)
    /\ Len(later) \in {Len(ev), Len(ev) + 1}
    /\ \A k \in 1..Len(ev) : /\ later[k].time = ev[k].time
                             /\ Priority(later[k].kind) >= Priority(ev[k].kind)
                             /\ ev[k].time # t => later[k] = ev[k]
    /\ \A k \in 1..Len(later) : k > Len(ev) => later[k].time = t
    /\ s \in 1..Len(later) /\ later[s].time = t
    /\ Priority(later[s].kind) >= Priority(kind)

LEMMA KindsRanked ==
    ASSUME NEW kind \in Kinds
    PROVE  /\ Priority(kind) \in 0..4
           /\ Priority(kind) >= 3 => kind \in Lifecycle
           /\ kind \in Lifecycle => Priority(kind) >= 3
           /\ Priority(kind) >= 4 <=> kind = "birth"
PROOF
  BY DEF Kinds, Lifecycle, Priority

\* One event stays the event of its instant, and gets the higher kind.
LEMMA EventAtWrites ==
    ASSUME NEW ev \in Seq(Events), OneAnInstant(ev), NEW t \in Span, NEW kind \in Kinds
    PROVE  EventWritten(ev, EventAt(ev, t, kind), EventSequence(EventAt(ev, t, kind), t), t, kind)
PROOF
  <1> DEFINE later == EventAt(ev, t, kind)
             s == EventSequence(later, t)
             new == [time |-> t, kind |-> kind]
  <1>1. new \in Events
    BY DEF Events
  <1>2. CASE HasTime(ev, t)
    <2>1. later = [k \in 1..Len(ev) |->
                     IF ev[k].time = t /\ Priority(kind) > Priority(ev[k].kind)
                     THEN new ELSE ev[k]]
      BY <1>2 DEF EventAt
    <2>2. Len(ev) \in Nat /\ \A k \in 1..Len(ev) : ev[k] \in Events
      OBVIOUS
    <2>3. later \in Seq(Events) /\ Len(later) = Len(ev)
      BY <1>1, <2>1, <2>2
    <2>4. \A k \in 1..Len(ev) : /\ later[k].time = ev[k].time
                                /\ Priority(later[k].kind) >= Priority(ev[k].kind)
                                /\ ev[k].time # t => later[k] = ev[k]
                                /\ ev[k].time = t => Priority(later[k].kind) >= Priority(kind)
      <3>. TAKE k \in 1..Len(ev)
      <3>1. ev[k].kind \in Kinds /\ later[k] \in {ev[k], new}
        BY <2>1, <2>2 DEF Events
      <3>2. Priority(ev[k].kind) \in Int /\ Priority(kind) \in Int
        BY <3>1, KindsRanked
      <3>3. CASE ev[k].time = t /\ Priority(kind) > Priority(ev[k].kind)
        <4>1. later[k] = new
          BY <2>1, <3>3
        <4>. QED
          BY <3>2, <3>3, <4>1
      <3>4. CASE ~ (ev[k].time = t /\ Priority(kind) > Priority(ev[k].kind))
        <4>1. later[k] = ev[k]
          BY <2>1, <3>4
        <4>. QED
          BY <3>2, <3>4, <4>1
      <3>. QED
        BY <3>3, <3>4
    <2>5. OneAnInstant(later)
      BY <2>3, <2>4 DEF OneAnInstant
    <2>6. s \in 1..Len(later) /\ later[s].time = t
      BY <1>2, <2>3, <2>4 DEF HasTime, EventSequence
    <2>. QED
      BY <2>2, <2>3, <2>4, <2>5, <2>6 DEF EventWritten
  <1>3. CASE ~ HasTime(ev, t)
    <2>1. later = Append(ev, new)
      BY <1>3 DEF EventAt
    <2>2. /\ Len(ev) \in Nat /\ later \in Seq(Events) /\ Len(later) = Len(ev) + 1
          /\ \A k \in 1..Len(ev) : later[k] = ev[k] /\ ev[k] \in Events
          /\ later[Len(ev) + 1] = new
      BY <1>1, <2>1
    <2>3. \A k \in 1..Len(later) : k \in 1..Len(ev) \/ k = Len(ev) + 1
      BY <2>2
    <2>4. \A k \in 1..Len(ev) : later[k].time # t
      BY <1>3, <2>2 DEF HasTime
    <2>5. OneAnInstant(later)
      BY <2>2, <2>3, <2>4 DEF OneAnInstant
    <2>6. s = Len(ev) + 1
      BY <2>2, <2>3, <2>4 DEF EventSequence
    <2>7. \A k \in 1..Len(ev) : Priority(later[k].kind) >= Priority(ev[k].kind)
      <3>. TAKE k \in 1..Len(ev)
      <3>1. Priority(ev[k].kind) \in Int /\ later[k] = ev[k]
        BY <2>2, KindsRanked DEF Events
      <3>. QED
        BY <3>1
    <2>8. Priority(kind) \in Int
      BY KindsRanked
    <2>. QED
      BY <2>2, <2>3, <2>5, <2>6, <2>7, <2>8 DEF EventWritten
  <1>. QED
    BY <1>2, <1>3

-----------------------------------------------------------------------------
(* The rows of one particle.                                               *)

LEMMA SequenceIn ==
    ASSUME NEW S, NEW seq \in Seq(S)
    PROVE  Len(seq) \in Nat /\ \A k \in 1..Len(seq) : seq[k] \in S
PROOF
  OBVIOUS

\* A new event disturbs no row: an appended one is behind every row there is.
LEMMA RowsKept ==
    ASSUME NEW ev \in Seq(Events), NEW later, NEW s, NEW t, NEW kind \in Kinds,
           EventWritten(ev, later, s, t, kind),
           NEW R, NEW b, NEW d, RowsOk(ev, R, b, d)
    PROVE  RowsOk(later, R, b, d)
PROOF
  <1>1. /\ Len(ev) \in Nat /\ Len(later) \in Nat /\ Len(R) \in Nat
        /\ \A k \in 1..Len(R) : R[k] \in Rows
        /\ \A k \in 1..Len(ev) : ev[k] \in Events
        /\ \A k \in 1..Len(later) : later[k] \in Events
    BY SequenceIn DEF EventWritten, RowsOk
  <1>2. \A k \in 1..Len(ev) : k \in 1..Len(later) /\ later[k].time = ev[k].time
    BY <1>1 DEF EventWritten
  <1>3. \A k \in 1..Len(later) : k \in 1..Len(ev) \/ k = Len(ev) + 1
    BY <1>1 DEF EventWritten
  <1>4. \A k \in 1..Len(ev) : ev[k].kind = "birth" => later[k].kind = "birth"
    <2>. SUFFICES ASSUME NEW k \in 1..Len(ev), ev[k].kind = "birth"
                  PROVE  later[k].kind = "birth"
      OBVIOUS
    <2>1. ev[k].kind \in Kinds /\ later[k].kind \in Kinds
      BY <1>1, <1>2 DEF Events
    <2>2. Priority(later[k].kind) >= Priority(ev[k].kind)
      BY DEF EventWritten
    <2>. QED
      BY <2>1, <2>2, KindsRanked
  <1>5. Audits(later, R, b)
    <2>. SUFFICES ASSUME NEW k \in 1..Len(R)
                  PROVE  /\ R[k].event \in 1..Len(later) /\ later[R[k].event].time = R[k].time
                         /\ k = 1 => R[k].time = b /\ later[R[k].event].kind = "birth"
                         /\ \A j \in 1..k - 1 :
                               /\ R[j].event < R[k].event /\ R[j].time < R[k].time
                               /\ R[j].status = "alive"
      BY DEF Audits
    <2>1. /\ R[k].event \in 1..Len(ev) /\ ev[R[k].event].time = R[k].time
          /\ k = 1 => R[k].time = b /\ ev[R[k].event].kind = "birth"
          /\ \A j \in 1..k - 1 : /\ R[j].event < R[k].event /\ R[j].time < R[k].time
                                 /\ R[j].status = "alive"
      BY DEF RowsOk, Audits
    <2>. QED
      BY <1>2, <1>4, <2>1
  <1>6. ASSUME ~ Closed(R), NEW k \in 1..Len(R), NEW e \in 1..Len(later),
               R[k].time < later[e].time
        PROVE  R[k].event < e
    <2>1. R[k].event \in 1..Len(ev)
      BY DEF RowsOk, Audits
    <2>2. CASE e \in 1..Len(ev)
      BY <1>2, <1>6, <2>2 DEF RowsOk
    <2>3. CASE e = Len(ev) + 1
      BY <1>1, <2>1, <2>3
    <2>. QED
      BY <1>3, <2>2, <2>3
  <1>. QED
    BY <1>5, <1>6 DEF RowsOk

\* What a write at t to the rows R of a particle makes of them.
RowWritten(R, Q, t, status) ==
    /\ Closed(Q) <=> Closed(R) \/ status = "terminated"
    /\ Q # <<>> /\ Len(Q) \in {Len(R), Len(R) + 1}
    /\ \A k \in 1..Len(R) : \/ Q[k] = R[k]
                            \/ Q[k].time = t /\ Q[k] = [R[k] EXCEPT !.status = "terminated"]
    /\ \A k \in 1..Len(Q) : k > Len(R) => Q[k].time = t
    /\ ~ Closed(R) => HasTime(Q, t)

\* The sink may be given a particle at t whose end it has written, or else one that lives at t
\* and has not died before, for the first time at its birth and always in the order of time.
MayWrite(later, s, R, b, d, t, status) ==
    /\ status = "alive" => ~ Closed(R)
    /\ ~ Closed(R) =>
          /\ b <= t /\ t <= d
          /\ status = "terminated" => d = t
          /\ \A k \in 1..Len(R) : R[k].time <= t
          /\ R = <<>> => b = t /\ later[s].kind = "birth"
          /\ status = "alive" => \A e \in 1..Len(later) : later[e].time <= t

LEMMA RowAtWrites ==
    ASSUME NEW later \in Seq(Events), OneAnInstant(later), NEW t \in Span,
           NEW s \in 1..Len(later), later[s].time = t,
           NEW R, NEW b \in Int, NEW d \in Int, RowsOk(later, R, b, d),
           NEW status \in {"alive", "terminated"}, MayWrite(later, s, R, b, d, t, status)
    PROVE  LET Q == RowAt(R, s, t, status)
           IN  RowsOk(later, Q, b, d) /\ RowWritten(R, Q, t, status)
PROOF
  <1> DEFINE Q == RowAt(R, s, t, status)
             new == [event |-> s, time |-> t, status |-> status]
             done(k) == [event |-> R[k].event, time |-> t, status |-> status]
  <1>1. /\ R \in Seq(Rows) /\ Len(R) \in Nat /\ Len(later) \in Nat /\ t \in Int
        /\ \A k \in 1..Len(R) : R[k] \in Rows
        /\ \A k \in 1..Len(later) : later[k].time \in Int
    <2>1. \A k \in 1..Len(later) : later[k] \in Events
      OBVIOUS
    <2>2. Span \subseteq Int
      BY RunLogAssumption DEF Span
    <2>3. \A k \in 1..Len(later) : later[k].time \in Span
      BY <2>1 DEF Events
    <2>4. R \in Seq(Rows)
      BY DEF RowsOk
    <2>5. Len(R) \in Nat /\ Len(later) \in Nat /\ \A k \in 1..Len(R) : R[k] \in Rows
      BY <2>4
    <2>6. t \in Int /\ \A k \in 1..Len(later) : later[k].time \in Int
      BY <2>2, <2>3
    <2>. QED
      BY <2>4, <2>5, <2>6
  <1>2. \A k \in 1..Len(R) : R[k].time \in Int /\ R[k].event \in Nat
    <2>1. Span \subseteq Int
      BY RunLogAssumption DEF Span
    <2>2. \A k \in 1..Len(R) : R[k].time \in Span /\ R[k].event \in Nat
      BY <1>1 DEF Rows
    <2>. QED
      BY <2>1, <2>2
  <1>3. /\ Audits(later, R, b)
        /\ \A k \in 1..Len(R) : /\ b <= R[k].time /\ R[k].time <= d
                                /\ R[k].status = "terminated" => R[k].time = d
    BY DEF RowsOk
  <1>4. \A k \in 1..Len(R) :
           /\ R[k].event \in 1..Len(later) /\ later[R[k].event].time = R[k].time
           /\ k = 1 => R[k].time = b /\ later[R[k].event].kind = "birth"
           /\ \A j \in 1..k - 1 : /\ R[j].event < R[k].event /\ R[j].time < R[k].time
                                  /\ R[j].status = "alive"
    BY <1>3 DEF Audits
  \* The end of the particle is there already.
  <1>5. CASE Closed(R)
    <2>1. status = "terminated"
      BY <1>5 DEF MayWrite
    <2>2. Q = R
      BY <1>5, <2>1 DEF RowAt
    <2>3. R # <<>>
      BY <1>1, <1>5 DEF Closed
    <2>. QED
      BY <1>1, <1>5, <2>1, <2>2, <2>3 DEF RowWritten
  \* There is a row of the instant: it is the last one.
  <1>6. CASE ~ Closed(R) /\ HasTime(R, t)
    <2>1. Q = [k \in 1..Len(R) |-> IF R[k].time = t /\ status = "terminated"
                                   THEN done(k) ELSE R[k]]
      BY <1>6 DEF RowAt
    <2>2. \A k \in 1..Len(R) : done(k) \in Rows
      BY <1>1 DEF Rows
    <2>3. Q \in Seq(Rows) /\ Len(Q) = Len(R)
      BY <1>1, <2>1, <2>2
    <2>4. \A k \in 1..Len(R) : Q[k].time = R[k].time /\ Q[k].event = R[k].event
      BY <2>1
    <2>5. PICK l \in 1..Len(R) : R[l].time = t
      BY <1>6 DEF HasTime
    <2>6. \A k \in 1..Len(R) : R[k].time = t => k = Len(R)
      <3>. SUFFICES ASSUME NEW k \in 1..Len(R), R[k].time = t, k # Len(R)
                    PROVE  FALSE
        OBVIOUS
      <3>1. Len(R) \in 1..Len(R) /\ k \in 1..Len(R) - 1
        BY <1>1
      <3>2. R[k].time < R[Len(R)].time
        BY <1>4, <3>1
      <3>3. R[Len(R)].time <= t
        BY <1>6, <3>1 DEF MayWrite
      <3>. QED
        BY <1>1, <1>2, <3>1, <3>2, <3>3
    <2>7. \A k \in 1..Len(R) : k < Len(R) => Q[k] = R[k]
      BY <1>1, <2>1, <2>6
    <2>8. Audits(later, Q, b)
      <3>. SUFFICES ASSUME NEW k \in 1..Len(Q)
                    PROVE  /\ Q[k].event \in 1..Len(later) /\ later[Q[k].event].time = Q[k].time
                           /\ k = 1 => Q[k].time = b /\ later[Q[k].event].kind = "birth"
                           /\ \A j \in 1..k - 1 :
                                 /\ Q[j].event < Q[k].event /\ Q[j].time < Q[k].time
                                 /\ Q[j].status = "alive"
        BY DEF Audits
      <3>1. k \in 1..Len(R)
        BY <2>3
      <3>2. \A j \in 1..k - 1 : j \in 1..Len(R) /\ Q[j] = R[j]
        BY <1>1, <2>7, <3>1
      <3>. QED
        BY <1>4, <2>4, <3>1, <3>2
    <2>9. \A k \in 1..Len(Q) : /\ b <= Q[k].time /\ Q[k].time <= d
                               /\ Q[k].status = "terminated" => Q[k].time = d
      BY <1>3, <1>6, <2>1, <2>3, <2>4 DEF MayWrite
    <2>10. Closed(Q) <=> status = "terminated"
      <3>1. Q[l].status = IF status = "terminated" THEN status ELSE R[l].status
        BY <2>1, <2>5
      <3>2. \A k \in 1..Len(R) : status # "terminated" => Q[k] = R[k]
        BY <2>1
      <3>. QED
        BY <1>6, <2>3, <3>1, <3>2 DEF Closed
    <2>11. ~ Closed(Q) => \A k \in 1..Len(Q), e \in 1..Len(later) :
                             Q[k].time < later[e].time => Q[k].event < e
      BY <1>6, <2>3, <2>4 DEF RowsOk
    <2>12. HasTime(Q, t)
      BY <2>3, <2>4, <2>5 DEF HasTime
    <2>13. \A k \in 1..Len(R) : \/ Q[k] = R[k]
                                \/ Q[k].time = t /\ Q[k] = [R[k] EXCEPT !.status = "terminated"]
      <3>. SUFFICES ASSUME NEW k \in 1..Len(R), Q[k] # R[k]
                    PROVE  Q[k].time = t /\ Q[k] = [R[k] EXCEPT !.status = "terminated"]
        OBVIOUS
      <3>1. R[k].time = t /\ status = "terminated" /\ Q[k] = done(k)
        BY <2>1
      <3>2. R[k] \in Rows
        BY <1>1
      <3>3. [R[k] EXCEPT !.status = "terminated"] =
                [event |-> R[k].event, time |-> R[k].time, status |-> "terminated"]
        BY <3>2 DEF Rows
      <3>. QED
        BY <3>1, <3>3
    <2>14. Q # <<>>
      BY <2>3, <2>5
    <2>15. RowsOk(later, Q, b, d)
      BY <2>3, <2>8, <2>9, <2>11 DEF RowsOk
    <2>16. \A k \in 1..Len(Q) : ~ (k > Len(R))
      BY <1>1, <2>3
    <2>17. RowWritten(R, Q, t, status)
      BY <1>6, <2>3, <2>10, <2>12, <2>13, <2>14, <2>16 DEF RowWritten
    <2>. QED
      BY <2>15, <2>17
  \* It is new, and behind all others.
  <1>7. CASE ~ Closed(R) /\ ~ HasTime(R, t)
    <2>1. Q = Append(R, new)
      BY <1>7 DEF RowAt
    <2>2. new \in Rows
      BY <1>1 DEF Rows
    <2>3. /\ Q \in Seq(Rows) /\ Len(Q) = Len(R) + 1 /\ Q[Len(R) + 1] = new
          /\ \A k \in 1..Len(R) : Q[k] = R[k]
          /\ new.event = s /\ new.time = t /\ new.status = status
      BY <1>1, <2>1, <2>2
    <2>4. \A k \in 1..Len(Q) : k \in 1..Len(R) \/ k = Len(R) + 1
      BY <1>1, <2>3
    <2>5. \A k \in 1..Len(R) : /\ R[k].time < t /\ R[k].event < s /\ R[k].status = "alive"
      <3>. TAKE k \in 1..Len(R)
      <3>1. R[k].time < t
        BY <1>1, <1>2, <1>7 DEF MayWrite, HasTime
      <3>2. R[k].event < s
        BY <1>7, <3>1 DEF RowsOk
      <3>3. R[k].status = "alive"
        BY <1>1, <1>7 DEF Closed, Rows
      <3>. QED
        BY <3>1, <3>2, <3>3
    <2>6. Len(R) = 0 => b = t /\ later[s].kind = "birth"
      BY <1>1, <1>7 DEF MayWrite
    <2>7. Audits(later, Q, b)
      <3>. SUFFICES ASSUME NEW k \in 1..Len(Q)
                    PROVE  /\ Q[k].event \in 1..Len(later) /\ later[Q[k].event].time = Q[k].time
                           /\ k = 1 => Q[k].time = b /\ later[Q[k].event].kind = "birth"
                           /\ \A j \in 1..k - 1 :
                                 /\ Q[j].event < Q[k].event /\ Q[j].time < Q[k].time
                                 /\ Q[j].status = "alive"
        BY DEF Audits
      <3>1. \A j \in 1..k - 1 : j \in 1..Len(R) /\ Q[j] = R[j]
        BY <1>1, <2>3, <2>4
      <3>2. CASE k \in 1..Len(R)
        BY <1>4, <2>3, <3>1, <3>2
      <3>3. CASE k = Len(R) + 1
        <4>1. Q[k].event = s /\ Q[k].time = t
          BY <2>3, <3>3
        <4>2. \A j \in 1..k - 1 : /\ Q[j].event < s /\ Q[j].time < t
                                  /\ Q[j].status = "alive"
          BY <2>5, <3>1
        <4>3. k = 1 => b = t /\ later[s].kind = "birth"
          BY <1>1, <2>6, <3>3
        <4>. QED
          BY <4>1, <4>2, <4>3
      <3>. QED
        BY <2>4, <3>2, <3>3
    <2>8. \A k \in 1..Len(Q) : /\ b <= Q[k].time /\ Q[k].time <= d
                               /\ Q[k].status = "terminated" => Q[k].time = d
      BY <1>3, <1>7, <2>3, <2>4 DEF MayWrite
    <2>9. Closed(Q) <=> status = "terminated"
      <3>1. Len(R) + 1 \in 1..Len(Q) /\ 1..Len(R) \subseteq 1..Len(Q)
        BY <1>1, <2>3
      <3>2. Q[Len(R) + 1].status = status
        BY <2>3
      <3>3. \A k \in 1..Len(R) : Q[k].status # "terminated"
        BY <2>3, <2>5
      <3>4. \A k \in 1..Len(Q) : Q[k].status = "terminated" => status = "terminated"
        BY <2>4, <3>2, <3>3
      <3>5. Closed(Q) => status = "terminated"
        BY <3>4 DEF Closed
      <3>6. status = "terminated" => Closed(Q)
        BY <3>1, <3>2 DEF Closed
      <3>. QED
        BY <3>5, <3>6
    <2>10. ~ Closed(Q) => \A k \in 1..Len(Q), e \in 1..Len(later) :
                             Q[k].time < later[e].time => Q[k].event < e
      <3>. SUFFICES ASSUME ~ Closed(Q), NEW k \in 1..Len(Q), NEW e \in 1..Len(later),
                           Q[k].time < later[e].time
                    PROVE  Q[k].event < e
        OBVIOUS
      <3>1. CASE k \in 1..Len(R)
        BY <1>7, <2>3, <3>1 DEF RowsOk
      <3>2. CASE k = Len(R) + 1
        <4>1. status = "alive"
          BY <2>9
        <4>2. later[e].time <= t /\ Q[k].time = t
          BY <1>7, <2>3, <3>2, <4>1 DEF MayWrite
        <4>. QED
          BY <1>1, <4>2
      <3>. QED
        BY <2>4, <3>1, <3>2
    <2>11. HasTime(Q, t)
      BY <1>1, <2>3 DEF HasTime
    <2>12. \A k \in 1..Len(Q) : k > Len(R) => Q[k].time = t
      BY <1>1, <2>3, <2>4
    <2>13. Q # <<>>
      BY <1>1, <2>3
    <2>. QED
      BY <1>7, <2>3, <2>7, <2>8, <2>9, <2>10, <2>11, <2>12, <2>13 DEF RowsOk, RowWritten
  <1>. QED
    BY <1>5, <1>6, <1>7

-----------------------------------------------------------------------------
(* What is not committed.                                                  *)

LEMMA RowsStayExtended ==
    ASSUME NEW R \in Seq(Rows), NEW Q \in Seq(Rows), NEW D \in Seq(Rows), NEW t, NEW status,
           RowWritten(R, Q, t, status), RowsExtend(R, D)
    PROVE  RowsExtend(Q, D)
PROOF
  <1>1. /\ Len(R) \in Nat /\ Len(Q) \in Nat /\ Len(D) \in Nat
        /\ \A k \in 1..Len(D) : D[k] \in Rows
    OBVIOUS
  <1>2. Len(D) <= Len(R) /\ Len(R) <= Len(Q)
    BY <1>1 DEF RowsExtend, RowWritten
  <1>3. ASSUME NEW k \in 1..Len(D)
        PROVE  Q[k] = D[k] \/ Q[k] = [D[k] EXCEPT !.status = "terminated"]
    <2>1. k \in 1..Len(R)
      BY <1>1, <1>2
    <2>2. R[k] = D[k] \/ R[k] = [D[k] EXCEPT !.status = "terminated"]
      BY DEF RowsExtend
    <2>3. Q[k] = R[k] \/ Q[k] = [R[k] EXCEPT !.status = "terminated"]
      BY <2>1 DEF RowWritten
    <2>4. D[k] \in Rows
      BY <1>1
    <2>5. CASE R[k] = [D[k] EXCEPT !.status = "terminated"]
      <3>1. [R[k] EXCEPT !.status = "terminated"] = R[k]
        BY <2>4, <2>5 DEF Rows
      <3>. QED
        BY <2>3, <2>5, <3>1
    <2>. QED
      BY <2>2, <2>3, <2>5
  <1>. QED
    BY <1>1, <1>2, <1>3 DEF RowsExtend

LEMMA EventsStayExtended ==
    ASSUME NEW ev \in Seq(Events), NEW later, NEW D \in Seq(Events), NEW s, NEW t, NEW kind,
           EventWritten(ev, later, s, t, kind), EventsExtend(ev, D)
    PROVE  EventsExtend(later, D)
PROOF
  <1>1. /\ Len(ev) \in Nat /\ Len(later) \in Nat /\ Len(D) \in Nat
        /\ later \in Seq(Events)
    BY DEF EventWritten
  <1>2. Len(D) <= Len(ev) /\ Len(ev) <= Len(later)
    BY <1>1 DEF EventsExtend, EventWritten
  <1>3. ASSUME NEW k \in 1..Len(D)
        PROVE  later[k].time = D[k].time /\ Priority(later[k].kind) >= Priority(D[k].kind)
    <2>1. k \in 1..Len(ev) /\ k \in 1..Len(later)
      BY <1>1, <1>2
    <2>2. ev[k].time = D[k].time /\ Priority(ev[k].kind) >= Priority(D[k].kind)
      BY DEF EventsExtend
    <2>3. later[k].time = ev[k].time /\ Priority(later[k].kind) >= Priority(ev[k].kind)
      BY <2>1 DEF EventWritten
    <2>4. ev[k].kind \in Kinds /\ D[k].kind \in Kinds /\ later[k].kind \in Kinds
      <3>1. ev[k] \in Events /\ D[k] \in Events /\ later[k] \in Events
        BY <1>1, <2>1
      <3>. QED
        BY <3>1 DEF Events
    <2>5. /\ Priority(ev[k].kind) \in Int /\ Priority(D[k].kind) \in Int
          /\ Priority(later[k].kind) \in Int
      BY <2>4, KindsRanked
    <2>. QED
      BY <2>2, <2>3, <2>5
  <1>. QED
    BY <1>1, <1>2, <1>3 DEF EventsExtend

\* A write at t makes no other instant differ.
LEMMA UnlikeGrows ==
    ASSUME NEW R \in Seq(Rows), NEW Q \in Seq(Rows), NEW D \in Seq(Rows), NEW t, NEW status,
           RowWritten(R, Q, t, status)
    PROVE  Unlike(Q, D) \subseteq Unlike(R, D) \union {t}
PROOF
  <1>. SUFFICES ASSUME NEW u \in Unlike(Q, D), u # t
                PROVE  u \in Unlike(R, D)
    OBVIOUS
  <1>1. PICK k \in 1..Len(Q) : u = Q[k].time /\ (k > Len(D) \/ Q[k] # D[k])
    BY DEF Unlike
  <1>2. Len(R) \in Nat /\ Len(Q) \in Nat
    OBVIOUS
  <1>3. k \in 1..Len(R)
    BY <1>1, <1>2 DEF RowWritten
  <1>4. Q[k] = R[k]
    BY <1>1, <1>3 DEF RowWritten
  <1>. QED
    BY <1>1, <1>3, <1>4 DEF Unlike

LEMMA NothingLost ==
    ASSUME NEW store \in Stores
    PROVE  Lost(store, store) = {} /\ Extends(store, store)
PROOF
  <1>1. /\ store.events \in Seq(Events)
        /\ \A p \in Particles : store.rows[p] \in Seq(Rows)
    BY DEF Stores, Events, Rows
  <1>2. Len(store.events) \in Nat
    BY <1>1
  <1>3. ASSUME NEW p \in Particles
        PROVE  Unlike(store.rows[p], store.rows[p]) = {}
                 /\ RowsExtend(store.rows[p], store.rows[p])
    <2>1. Len(store.rows[p]) \in Nat
      BY <1>1
    <2>. QED
      BY <2>1 DEF Unlike, RowsExtend
  <1>4. \A k \in 1..Len(store.events) : Priority(store.events[k].kind) \in Int
    <2>. TAKE k \in 1..Len(store.events)
    <2>1. store.events[k] \in Events
      BY <1>1
    <2>2. store.events[k].kind \in Kinds
      BY <2>1 DEF Events
    <2>. QED
      BY <2>2, KindsRanked
  <1>5. Lost(store, store) = {}
    <2>1. Len(store.events) + 1..Len(store.events) = {}
      BY <1>2
    <2>2. {Unlike(store.rows[p], store.rows[p]) : p \in Particles} \subseteq {{}}
      BY <1>3
    <2>. QED
      BY <2>1, <2>2 DEF Lost
  <1>6. Extends(store, store)
    BY <1>2, <1>3, <1>4 DEF Extends, EventsExtend
  <1>. QED
    BY <1>5, <1>6

\* What a write at t changes of a store.
StoreWritten(store, later, t) ==
    /\ EventsExtend(later.events, store.events)
    /\ \A k \in 1..Len(later.events) :
          \/ k \in 1..Len(store.events) /\ later.events[k].time = store.events[k].time
          \/ k > Len(store.events) /\ later.events[k].time = t
    /\ \A p \in Particles, D \in Seq(Rows) :
          /\ Unlike(later.rows[p], D) \subseteq Unlike(store.rows[p], D) \union {t}
          /\ RowsExtend(store.rows[p], D) => RowsExtend(later.rows[p], D)

LEMMA LossGrows ==
    ASSUME NEW store \in Stores, NEW later \in Stores, NEW saved \in Stores, NEW t,
           StoreWritten(store, later, t)
    PROVE  Lost(later, saved) \subseteq Lost(store, saved) \union {t}
PROOF
  <1>. SUFFICES ASSUME NEW u \in Lost(later, saved), u # t
                PROVE  u \in Lost(store, saved)
    OBVIOUS
  <1>1. /\ Len(later.events) \in Nat /\ Len(store.events) \in Nat /\ Len(saved.events) \in Nat
        /\ \A p \in Particles : saved.rows[p] \in Seq(Rows)
    <2>1. /\ later.events \in Seq(Events) /\ store.events \in Seq(Events)
          /\ saved.events \in Seq(Events) /\ saved.rows \in [Particles -> Seq(Rows)]
      BY DEF Stores, Rows, Events
    <2>. QED
      BY <2>1
  <1>2. CASE u \in {later.events[k].time : k \in Len(saved.events) + 1..Len(later.events)}
    <2>1. PICK k \in Len(saved.events) + 1..Len(later.events) : u = later.events[k].time
      BY <1>2
    <2>2. k \in 1..Len(later.events)
      BY <1>1
    <2>3. k \in 1..Len(store.events) /\ u = store.events[k].time
      BY <2>1, <2>2 DEF StoreWritten
    <2>4. k \in Len(saved.events) + 1..Len(store.events)
      BY <1>1, <2>3
    <2>. QED
      BY <2>3, <2>4 DEF Lost
  <1>3. CASE u \in UNION {Unlike(later.rows[p], saved.rows[p]) : p \in Particles}
    <2>1. PICK p \in Particles : u \in Unlike(later.rows[p], saved.rows[p])
      BY <1>3
    <2>2. u \in Unlike(store.rows[p], saved.rows[p])
      BY <1>1, <2>1 DEF StoreWritten
    <2>. QED
      BY <2>2 DEF Lost
  <1>. QED
    BY <1>2, <1>3 DEF Lost

-----------------------------------------------------------------------------
(* write_event.                                                            *)

\* The particles that a write at t is given: those whose end is not written live at t and
\* have not died before it, appear for the first time at their birth, and in the order of time.
Acceptable(t, P) ==
    \A p \in P : ~ Closed(log.rows[p]) =>
        /\ birth[p] <= t /\ t <= death[p] /\ (Dead(p) => death[p] = t)
        /\ \A u \in Span : HasTime(log.rows[p], u) => u <= t
        /\ log.rows[p] = <<>> => birth[p] = t
        /\ ~ Dead(p) => \A u \in Span : HasTime(log.events, u) => u <= t

\* What the loop knows after such a write.
Wrote(t, P) ==
    /\ ~ refused' /\ log' \in Stores /\ disk' \in Stores /\ unsaved' \in 0..MaxBatch - 1
    /\ OneAnInstant(log'.events)
    /\ \A p \in Particles : RowsOk(log'.events, log'.rows[p], birth[p], death[p])
    /\ \A p \in Particles : p \notin P => log'.rows[p] = log.rows[p]
    /\ \A p \in P : /\ Closed(log'.rows[p]) <=> Dead(p)
                    /\ log'.rows[p] # <<>>
                    /\ ~ Closed(log.rows[p]) => HasTime(log'.rows[p], t)
    /\ \A p \in Particles, u \in Span :
          /\ HasTime(log.rows[p], u) => HasTime(log'.rows[p], u)
          /\ HasTime(log'.rows[p], u) => HasTime(log.rows[p], u) \/ (u = t /\ p \in P)
    /\ \A u \in Span : HasTime(log'.events, u) => HasTime(log.events, u) \/ u = t

\* And of what is committed.
Saved ==
    /\ Extends(log', disk') /\ Extends(disk', disk)
    /\ IsFiniteSet(Lost(log', disk')) /\ Cardinality(Lost(log', disk')) <= unsaved'
    /\ \A k \in 1..Len(log'.events) :
          log'.events[k].kind \notin Lifecycle => log'.events[k].time \notin Lost(log', disk')
    /\ \A p \in Particles : Audits(disk'.events, disk'.rows[p], birth[p])

LEMMA ConstantsTyped ==
    ASSUME LogTypeOK
    PROVE  /\ LastInstant \in Nat /\ Never = LastInstant + 1 /\ Span = 0..LastInstant
           /\ \A p \in Particles : birth[p] \in 0..LastInstant /\ death[p] \in 0..LastInstant + 1
           /\ log.events \in Seq(Events) /\ disk.events \in Seq(Events)
           /\ log.rows \in [Particles -> Seq(Rows)] /\ disk.rows \in [Particles -> Seq(Rows)]
PROOF
  <1>1. LastInstant \in Nat /\ Never = LastInstant + 1 /\ Span = 0..LastInstant
    BY RunLogAssumption DEF Never, Span
  <1>2. log.events \in Seq(Events) /\ disk.events \in Seq(Events)
          /\ log.rows \in [Particles -> Seq(Rows)] /\ disk.rows \in [Particles -> Seq(Rows)]
    BY DEF LogTypeOK, Stores, Events, Rows
  <1>3. ASSUME NEW p \in Particles PROVE birth[p] \in 0..LastInstant /\ death[p] \in 0..LastInstant + 1
    BY <1>1 DEF LogTypeOK
  <1>. QED
    BY <1>1, <1>2, <1>3

\* Only the dead have an end among their rows.
LEMMA ClosedIsDead ==
    ASSUME LogTypeOK, StoreOk, NEW p \in Particles, Closed(log.rows[p])
    PROVE  Dead(p) /\ HasTime(log.rows[p], death[p]) /\ death[p] \in Span
PROOF
  <1>1. PICK k \in 1..Len(log.rows[p]) : log.rows[p][k].status = "terminated"
    BY DEF Closed
  <1>2. log.rows[p][k].time = death[p] /\ log.rows[p] \in Seq(Rows)
    BY <1>1 DEF StoreOk, RowsOk
  <1>3. log.rows[p][k] \in Rows
    BY <1>2
  <1>4. death[p] \in Span
    BY <1>2, <1>3 DEF Rows
  <1>5. death[p] # Never
    BY <1>4, ConstantsTyped
  <1>. QED
    BY <1>2, <1>4, <1>5 DEF Dead, HasTime

LEMMA WriteAccepted ==
    ASSUME LogTypeOK, StoreOk, NEW t \in Span, NEW P \in SUBSET Particles, Acceptable(t, P),
           NEW later, NEW s, NEW kind \in Kinds, EventWritten(log.events, later, s, t, kind)
    PROVE  ~ Refuses(t, P, s)
PROOF
  <1>1. \A p \in NewlyTerminated(P) : death[p] = t
    BY DEF NewlyTerminated, Acceptable
  <1>2. ASSUME NEW p \in P, NEW k \in 1..Len(log.rows[p]), log.rows[p][k].time = t
        PROVE  log.rows[p][k].event = s /\ (log.rows[p][k].status = "terminated" => Dead(p))
    <2>1. RowsOk(log.events, log.rows[p], birth[p], death[p]) /\ log.events \in Seq(Events)
      BY ConstantsTyped DEF StoreOk
    <2>2. RowsOk(later, log.rows[p], birth[p], death[p])
      BY <2>1, RowsKept
    <2>3. log.rows[p][k].event \in 1..Len(later) /\ later[log.rows[p][k].event].time = t
      BY <1>2, <2>2 DEF RowsOk, Audits
    <2>4. log.rows[p][k].event = s
      BY <2>3 DEF EventWritten, OneAnInstant
    <2>5. log.rows[p][k].status = "terminated" => Closed(log.rows[p])
      BY DEF Closed
    <2>. QED
      BY <2>4, <2>5, ClosedIsDead
  <1>. QED
    BY <1>1, <1>2 DEF Refuses

LEMMA MayWriteEach ==
    ASSUME LogTypeOK, StoreOk, NEW t \in Span, NEW P \in SUBSET Particles, Acceptable(t, P),
           NEW later, NEW s, NEW kind \in Kinds, EventWritten(log.events, later, s, t, kind),
           (\E p \in P : birth[p] = t) => kind = "birth", NEW p \in P
    PROVE  MayWrite(later, s, log.rows[p], birth[p], death[p], t, Status(p))
PROOF
  <1>1. Status(p) = "alive" => ~ Closed(log.rows[p])
    BY ClosedIsDead DEF Status
  <1>2. ASSUME ~ Closed(log.rows[p])
        PROVE  /\ birth[p] <= t /\ t <= death[p]
               /\ Status(p) = "terminated" => death[p] = t
               /\ \A k \in 1..Len(log.rows[p]) : log.rows[p][k].time <= t
    <2>1. /\ birth[p] <= t /\ t <= death[p] /\ (Dead(p) => death[p] = t)
          /\ \A u \in Span : HasTime(log.rows[p], u) => u <= t
      BY <1>2 DEF Acceptable
    <2>2. ASSUME NEW k \in 1..Len(log.rows[p]) PROVE log.rows[p][k].time <= t
      <3>1. log.rows[p] \in Seq(Rows)
        BY ConstantsTyped
      <3>2. log.rows[p][k] \in Rows
        BY <3>1
      <3>3. log.rows[p][k].time \in Span
        BY <3>2 DEF Rows
      <3>. QED
        BY <2>1, <3>3 DEF HasTime
    <2>. QED
      BY <2>1, <2>2 DEF Status
  <1>3. ASSUME ~ Closed(log.rows[p]), log.rows[p] = <<>>
        PROVE  birth[p] = t /\ later[s].kind = "birth"
    <2>1. birth[p] = t /\ kind = "birth"
      BY <1>3 DEF Acceptable
    <2>2. later[s] \in Events /\ Priority(later[s].kind) >= Priority(kind)
      BY DEF EventWritten
    <2>3. later[s].kind \in Kinds
      BY <2>2 DEF Events
    <2>4. Priority(kind) = 4
      BY <2>1 DEF Priority
    <2>5. Priority(later[s].kind) >= 4
      BY <2>2, <2>4
    <2>. QED
      BY <2>1, <2>3, <2>5, KindsRanked
  <1>4. ASSUME ~ Closed(log.rows[p]), Status(p) = "alive", NEW e \in 1..Len(later)
        PROVE  later[e].time <= t
    <2>1. ~ Dead(p)
      BY <1>4 DEF Status
    <2>2. \A u \in Span : HasTime(log.events, u) => u <= t
      BY <1>4, <2>1 DEF Acceptable
    <2>3. later \in Seq(Events) /\ log.events \in Seq(Events)
      BY ConstantsTyped DEF EventWritten
    <2>4. CASE e \in 1..Len(log.events)
      <3>1. later[e].time = log.events[e].time
        BY <2>4 DEF EventWritten
      <3>2. log.events[e] \in Events
        BY <2>3, <2>4
      <3>3. log.events[e].time \in Span
        BY <3>2 DEF Events
      <3>. QED
        BY <2>2, <2>4, <3>1, <3>3 DEF HasTime
    <2>5. CASE e > Len(log.events)
      <3>1. later[e].time = t
        BY <2>5 DEF EventWritten
      <3>. QED
        BY <3>1, ConstantsTyped
    <2>6. Len(log.events) \in Nat /\ Len(later) \in Nat
      BY <2>3
    <2>. QED
      BY <2>4, <2>5, <2>6
  <1>. QED
    BY <1>1, <1>2, <1>3, <1>4 DEF MayWrite

\* An accepted write keeps the log in order, and loses at most its own instant.
LEMMA WriteWrites ==
    ASSUME LogTypeOK, ~ refused, StoreOk, SnapshotAudits, Loss, NEW t \in Span,
           NEW P \in SUBSET Particles, Acceptable(t, P), WriteEvent(t, P)
    PROVE  Wrote(t, P) /\ Saved
PROOF
  <1> DEFINE kind == InferEventKind(t, NewlyTerminated(P) # {}, \E p \in P : birth[p] = t)
             later == EventAt(log.events, t, kind)
             s == EventSequence(later, t)
             commits == kind \notin Lifecycle \/ PendingLifecycle >= MaxBatch
             rows == [p \in Particles |-> IF p \in P THEN RowAt(log.rows[p], s, t, Status(p))
                                          ELSE log.rows[p]]
             store == [events |-> later, rows |-> rows]
  <1>1. kind \in Kinds /\ ((\E p \in P : birth[p] = t) => kind = "birth")
    BY DEF InferEventKind, Kinds
  <1>2. /\ log \in Stores /\ disk \in Stores
        /\ log.events \in Seq(Events) /\ OneAnInstant(log.events)
        /\ \A p \in Particles : /\ log.rows[p] \in Seq(Rows)
                                /\ RowsOk(log.events, log.rows[p], birth[p], death[p])
                                /\ birth[p] \in Int /\ death[p] \in Int
    BY ConstantsTyped DEF LogTypeOK, StoreOk
  <1>3. EventWritten(log.events, later, s, t, kind)
    BY <1>1, <1>2, EventAtWrites
  <1>4. ~ Refuses(t, P, s)
    BY <1>1, <1>3, WriteAccepted
  <1>5. /\ log' = store /\ refused' = refused
        /\ unsaved' = IF commits THEN 0 ELSE PendingLifecycle
        /\ disk' = IF commits THEN store ELSE disk
    <2>. HIDE DEF kind
    <2>. QED
      BY <1>4 DEF WriteEvent, kind
  <1>. HIDE DEF kind, s, later
  <1>6. later \in Seq(Events) /\ OneAnInstant(later) /\ s \in 1..Len(later) /\ later[s].time = t
    BY <1>3 DEF EventWritten
  <1>7. ASSUME NEW p \in P
        PROVE  /\ RowsOk(later, rows[p], birth[p], death[p])
               /\ RowWritten(log.rows[p], rows[p], t, Status(p))
    <2>1. rows[p] = RowAt(log.rows[p], s, t, Status(p))
      OBVIOUS
    <2>2. RowsOk(later, log.rows[p], birth[p], death[p])
      BY <1>1, <1>2, <1>3, RowsKept
    <2>3. MayWrite(later, s, log.rows[p], birth[p], death[p], t, Status(p))
      BY <1>1, <1>3, MayWriteEach
    <2>4. Status(p) \in {"alive", "terminated"} /\ birth[p] \in Int /\ death[p] \in Int
      BY <1>2 DEF Status
    <2>. QED
      BY <1>6, <2>1, <2>2, <2>3, <2>4, RowAtWrites
  <1>8. ASSUME NEW p \in Particles, p \notin P
        PROVE  RowsOk(later, rows[p], birth[p], death[p]) /\ rows[p] = log.rows[p]
    BY <1>1, <1>2, <1>3, <1>8, RowsKept
  <1>9. \A p \in Particles : RowsOk(later, rows[p], birth[p], death[p]) /\ rows[p] \in Seq(Rows)
    BY <1>7, <1>8 DEF RowsOk
  <1>. HIDE DEF rows
  <1>10. store \in Stores
    <2>1. rows \in [Particles -> Seq(Rows)]
      BY <1>9 DEF rows
    <2>. QED
      BY <1>6, <2>1 DEF Stores, Rows, Events
  <1>11. Wrote(t, P)
    <2>1. unsaved' \in 0..MaxBatch - 1
      <3>1. unsaved \in 0..MaxBatch - 1 /\ MaxBatch \in Nat \ {0}
        BY RunLogAssumption DEF LogTypeOK
      <3>. QED
        BY <1>5, <3>1 DEF PendingLifecycle
    <2>2. disk' \in Stores /\ log' \in Stores
      BY <1>2, <1>5, <1>10
    <2>3. log'.events = later /\ log'.rows = rows
      BY <1>5
    <2>4. ASSUME NEW p \in P
          PROVE  /\ Closed(rows[p]) <=> Dead(p)
                 /\ rows[p] # <<>>
                 /\ ~ Closed(log.rows[p]) => HasTime(rows[p], t)
      <3>1. Closed(rows[p]) <=> Closed(log.rows[p]) \/ Status(p) = "terminated"
        BY <1>7 DEF RowWritten
      <3>2. Status(p) = "terminated" <=> Dead(p)
        BY DEF Status
      <3>3. Closed(log.rows[p]) => Dead(p)
        BY ClosedIsDead
      <3>. QED
        BY <1>7, <3>1, <3>2, <3>3 DEF RowWritten
    <2>5. ASSUME NEW p \in P, NEW u \in Span
          PROVE  /\ HasTime(log.rows[p], u) => HasTime(rows[p], u)
                 /\ HasTime(rows[p], u) => HasTime(log.rows[p], u) \/ u = t
      <3>1. log.rows[p] \in Seq(Rows) /\ rows[p] \in Seq(Rows)
        BY <1>2, <1>9
      <3>2. Len(log.rows[p]) \in Nat /\ Len(rows[p]) \in Nat
        BY <3>1
      <3>3. \A k \in 1..Len(log.rows[p]) : k \in 1..Len(rows[p])
        BY <1>7, <3>2 DEF RowWritten
      <3>4. \A k \in 1..Len(log.rows[p]) : rows[p][k].time = log.rows[p][k].time
        <4>. TAKE k \in 1..Len(log.rows[p])
        <4>1. log.rows[p][k] \in Rows
          BY <3>1
        <4>2. \/ rows[p][k] = log.rows[p][k]
              \/ rows[p][k] = [log.rows[p][k] EXCEPT !.status = "terminated"]
          BY <1>7 DEF RowWritten
        <4>. QED
          BY <4>1, <4>2 DEF Rows
      <3>5. \A k \in 1..Len(rows[p]) : k \in 1..Len(log.rows[p]) \/ rows[p][k].time = t
        BY <1>7, <3>2 DEF RowWritten
      <3>. QED
        BY <3>3, <3>4, <3>5 DEF HasTime
    <2>6. ASSUME NEW u \in Span, HasTime(later, u) PROVE HasTime(log.events, u) \/ u = t
      <3>1. PICK k \in 1..Len(later) : later[k].time = u
        BY <2>6 DEF HasTime
      <3>2. CASE k \in 1..Len(log.events)
        BY <1>3, <3>1, <3>2 DEF EventWritten, HasTime
      <3>3. CASE k > Len(log.events)
        BY <1>3, <3>1, <3>3 DEF EventWritten
      <3>4. Len(log.events) \in Nat /\ Len(later) \in Nat
        BY <1>2, <1>6
      <3>. QED
        BY <3>2, <3>3, <3>4
    <2>. QED
      BY <1>5, <1>6, <1>8, <1>9, <2>1, <2>2, <2>3, <2>4, <2>5, <2>6 DEF Wrote
  <1>12. StoreWritten(log, store, t)
    <2>1. Len(log.events) \in Nat /\ Len(later) \in Nat
      BY <1>2, <1>6
    <2>2. EventsExtend(later, log.events)
      BY <1>2, <1>3, NothingLost, EventsStayExtended DEF Extends
    <2>3. \A k \in 1..Len(later) :
             \/ k \in 1..Len(log.events) /\ later[k].time = log.events[k].time
             \/ k > Len(log.events) /\ later[k].time = t
      BY <1>3, <2>1 DEF EventWritten
    <2>4. ASSUME NEW p \in Particles, NEW D \in Seq(Rows)
          PROVE  /\ Unlike(rows[p], D) \subseteq Unlike(log.rows[p], D) \union {t}
                 /\ RowsExtend(log.rows[p], D) => RowsExtend(rows[p], D)
      <3>1. CASE p \in P
        BY <1>2, <1>7, <1>9, <3>1, UnlikeGrows, RowsStayExtended
      <3>2. CASE p \notin P
        BY <1>8, <3>2
      <3>. QED
        BY <3>1, <3>2
    <2>. QED
      BY <2>2, <2>3, <2>4 DEF StoreWritten
  <1>13. Extends(store, disk)
    <2>1. EventsExtend(later, disk.events)
      BY <1>2, <1>3, ConstantsTyped, EventsStayExtended DEF Loss, Extends
    <2>2. \A p \in Particles : RowsExtend(rows[p], disk.rows[p])
      BY <1>12, ConstantsTyped DEF StoreWritten, Loss, Extends
    <2>. QED
      BY <2>1, <2>2 DEF Extends
  <1>14. CASE commits
    <2>1. log' = store /\ disk' = store /\ unsaved' = 0
      BY <1>5, <1>14
    <2>2. Lost(store, store) = {} /\ Extends(store, store)
      BY <1>10, NothingLost
    <2>3. IsFiniteSet({}) /\ Cardinality({}) = 0
      BY FS_EmptySet
    <2>4. \A p \in Particles : Audits(store.events, store.rows[p], birth[p])
      BY <1>9 DEF RowsOk
    <2>. HIDE DEF store
    <2>5. Saved
      BY <1>13, <2>1, <2>2, <2>3, <2>4 DEF Saved
    <2>. QED
      BY <1>11, <2>5
  <1>15. CASE ~ commits
    <2>1. log' = store /\ disk' = disk /\ unsaved' = unsaved + 1 /\ unsaved \in Nat
      BY <1>5, <1>15, RunLogAssumption DEF PendingLifecycle, LogTypeOK
    <2>2. Lost(store, disk) \subseteq Lost(log, disk) \union {t}
      BY <1>2, <1>10, <1>12, LossGrows
    <2>3. IsFiniteSet(Lost(log, disk)) /\ Cardinality(Lost(log, disk)) <= unsaved
      BY DEF Loss
    <2>4. /\ IsFiniteSet(Lost(log, disk) \union {t})
          /\ Cardinality(Lost(log, disk) \union {t}) \in Nat
          /\ Cardinality(Lost(log, disk) \union {t}) <= unsaved + 1
      <3>1. Cardinality(Lost(log, disk)) \in Nat
        BY <2>3, FS_CardinalityType
      <3>2. /\ IsFiniteSet(Lost(log, disk) \union {t})
            /\ Cardinality(Lost(log, disk) \union {t}) =
                 IF t \in Lost(log, disk) THEN Cardinality(Lost(log, disk))
                 ELSE Cardinality(Lost(log, disk)) + 1
        BY <2>3, FS_AddElement
      <3>. QED
        BY <2>1, <2>3, <3>1, <3>2
    <2>5. /\ IsFiniteSet(Lost(store, disk))
          /\ Cardinality(Lost(store, disk)) <= Cardinality(Lost(log, disk) \union {t})
          /\ Cardinality(Lost(store, disk)) \in Nat
      BY <2>2, <2>4, FS_Subset, FS_CardinalityType
    <2>6. Cardinality(Lost(store, disk)) <= unsaved'
      BY <2>1, <2>4, <2>5
    <2>7. ASSUME NEW k \in 1..Len(later), later[k].kind \notin Lifecycle
          PROVE  later[k].time \notin Lost(store, disk)
      <3>1. later[k].time # t
        <4>. SUFFICES ASSUME later[k].time = t PROVE FALSE
          OBVIOUS
        <4>1. k = s
          BY <1>6 DEF OneAnInstant
        <4>2. later[k] \in Events
          BY <1>6
        <4>3. later[k].kind \in Kinds
          BY <4>2 DEF Events
        <4>4. kind \in Lifecycle
          BY <1>15
        <4>5. Priority(later[k].kind) >= Priority(kind)
          BY <1>3, <4>1 DEF EventWritten
        <4>6. Priority(later[k].kind) \in Int /\ Priority(kind) \in Int /\ Priority(kind) >= 3
          BY <1>1, <4>3, <4>4, KindsRanked
        <4>7. Priority(later[k].kind) >= 3
          BY <4>5, <4>6
        <4>. QED
          BY <2>7, <4>3, <4>7, KindsRanked
      <3>2. k \in 1..Len(log.events) /\ later[k] = log.events[k]
        <4>1. k \in 1..Len(log.events)
          BY <1>12, <3>1 DEF StoreWritten
        <4>2. later[k].time = log.events[k].time
          BY <1>3, <4>1 DEF EventWritten
        <4>. QED
          BY <1>3, <3>1, <4>1, <4>2 DEF EventWritten
      <3>3. later[k].time \notin Lost(log, disk)
        BY <2>7, <3>2 DEF Loss
      <3>. QED
        BY <2>2, <3>1, <3>3
    <2>8. store.events = later
      OBVIOUS
    <2>9. Extends(disk, disk)
      BY <1>2, NothingLost
    <2>. HIDE DEF store
    <2>10. Saved
      BY <1>13, <2>1, <2>5, <2>6, <2>7, <2>8, <2>9 DEF Saved, SnapshotAudits
    <2>. QED
      BY <1>11, <2>10
  <1>. QED
    BY <1>14, <1>15

-----------------------------------------------------------------------------
(* The steps of the loop that write.                                       *)

\* A step leaves what is written in order, and nothing that is committed is gone.
SinkKept == /\ ~ refused' /\ StoreOk' /\ SnapshotAudits' /\ Loss'
            /\ Extends(disk', disk)

LEMMA NothingWritten ==
    ASSUME NEW t
    PROVE  ~ Closed(<<>>) /\ ~ HasTime(<<>>, t)
PROOF
  BY DEF Closed, HasTime

LEMMA SinkStays ==
    ASSUME RowsInv, UNCHANGED <<log, unsaved, refused, disk, birth, death>>
    PROVE  SinkKept
PROOF
  <1>1. (~ refused)' /\ Loss' /\ Extends(disk', disk)
    BY NothingLost DEF RowsInv, Loss, LogTypeOK
  <1>2. StoreOk' /\ SnapshotAudits'
    BY DEF RowsInv, StoreOk, SnapshotAudits, Dead
  <1>. QED
    BY <1>1, <1>2 DEF SinkKept

LEMMA SinkWrites ==
    ASSUME RowsInv, NEW t \in Span, NEW P \in SUBSET Particles, Acceptable(t, P),
           WriteEvent(t, P), birth' = birth, death' = death
    PROVE  Wrote(t, P) /\ SinkKept
PROOF
  <1>1. Wrote(t, P) /\ Saved
    BY WriteWrites DEF RowsInv
  <1>2. StoreOk'
    BY <1>1 DEF Wrote, StoreOk, RowsInv, Dead
  <1>3. SnapshotAudits' /\ Loss' /\ (~ refused)' /\ Extends(disk', disk)
    BY <1>1 DEF Wrote, Saved, SnapshotAudits, Loss
  <1>. QED
    BY <1>1, <1>2, <1>3 DEF SinkKept

LEMMA FirstSnapshotKeeps ==
    ASSUME RowsInv, FirstSnapshot
    PROVE  RowsInv' /\ Extends(disk', disk)
PROOF
  <1>1. /\ phase = "snapshot" /\ WriteEvent(0, emitted) /\ phase' = "poll" /\ Beginning
        /\ UNCHANGED <<given, death, emitted, now, stepEnd, calls, cancelled>>
    BY DEF FirstSnapshot, RowsInv, Progress
  <1>2. /\ LastInstant \in Nat /\ Never = LastInstant + 1 /\ Span = 0..LastInstant
        /\ \A p \in Particles : birth[p] \in 0..LastInstant
    BY ConstantsTyped DEF RowsInv
  <1>3. /\ emitted = {p \in Particles : birth[p] = 0}
        /\ \A p \in Particles : log.rows[p] = <<>> /\ ~ Dead(p) /\ death[p] = Never
        /\ log.events = <<>> /\ now = 0 /\ stepEnd = 0 /\ calls = {}
    BY <1>1 DEF Beginning, Empty, Dead
  <1>4. \A p \in Particles, t \in Span : ~ Closed(log.rows[p]) /\ ~ HasTime(log.rows[p], t)
    BY <1>3, NothingWritten
  <1>5. \A t \in Span : ~ HasTime(log.events, t)
    BY <1>3, NothingWritten
  <1>6. Acceptable(0, emitted)
    BY <1>2, <1>3, <1>4, <1>5 DEF Acceptable
  <1>7. 0 \in Span /\ emitted \in SUBSET Particles
    BY <1>2, <1>3
  <1>8. Wrote(0, emitted) /\ SinkKept
    BY <1>1, <1>6, <1>7, SinkWrites DEF given
  <1>9. LogTypeOK'
    BY <1>1, <1>8 DEF RowsInv, LogTypeOK, Wrote, Phases, given
  <1>10. AtRest'
    <2>1. (now = stepEnd /\ calls = {} /\ emitted = {p \in Particles : birth[p] <= now})'
      BY <1>1, <1>2, <1>3 DEF given
    <2>2. ASSUME NEW p \in Particles
          PROVE  /\ log'.rows[p] # <<>> <=> birth[p] <= 0
                 /\ Closed(log'.rows[p]) <=> Dead(p)
                 /\ \A t \in Span : HasTime(log'.rows[p], t) => t <= 0
                 /\ birth[p] <= 0 => HasTime(log'.rows[p], 0)
      <3>1. CASE p \in emitted
        <4>1. birth[p] = 0 /\ log.rows[p] = <<>> /\ 0 \in Span
          BY <1>3, <1>7, <3>1
        <4>2. ~ Closed(log.rows[p]) /\ \A t \in Span : ~ HasTime(log.rows[p], t)
          BY <4>1, NothingWritten
        <4>3. /\ log'.rows[p] # <<>> /\ (Closed(log'.rows[p]) <=> Dead(p))
              /\ HasTime(log'.rows[p], 0)
          BY <1>8, <3>1, <4>2 DEF Wrote
        <4>4. \A t \in Span : HasTime(log'.rows[p], t) => t = 0
          BY <1>8, <4>2 DEF Wrote
        <4>. QED
          BY <1>2, <4>1, <4>3, <4>4
      <3>2. CASE p \notin emitted
        <4>1. log'.rows[p] = <<>> /\ ~ (birth[p] <= 0) /\ ~ Dead(p)
          BY <1>2, <1>3, <1>8, <3>2 DEF Wrote
        <4>. QED
          BY <4>1, NothingWritten
      <3>. QED
        BY <3>1, <3>2
    <2>3. \A t \in Span : HasTime(log'.events, t) => t <= 0
      BY <1>5, <1>8 DEF Wrote
    <2>4. (\A t \in 0..now : Covered(t))'
      <3>. SUFFICES ASSUME NEW t \in 0..0, NEW p \in Particles, birth[p] <= t
                    PROVE  HasTime(log'.rows[p], t)
        BY <1>1, <1>3 DEF Covered, given
      <3>1. t = 0
        OBVIOUS
      <3>. QED
        BY <2>2, <3>1
    <2>5. now' = 0 /\ birth' = birth /\ (\A p \in Particles : Dead(p)' <=> Dead(p))
      BY <1>1, <1>3 DEF given, Dead
    <2>. QED
      BY <2>1, <2>2, <2>3, <2>4, <2>5 DEF AtRest
  <1>11. Progress' /\ SuccessIsComplete'
    BY <1>1, <1>10 DEF Progress, SuccessIsComplete
  <1>. QED
    BY <1>8, <1>9, <1>11 DEF RowsInv, SinkKept

LEMMA SampleBirthsKeeps ==
    ASSUME RowsInv, SampleBirths
    PROVE  RowsInv' /\ Extends(disk', disk)
PROOF
  <1>1. PICK g \in calls : Earliest(g) /\ WriteEvent(g.time, g.particles) /\ calls' = calls \ {g}
    BY DEF SampleBirths
  <1>2. /\ phase = "births" /\ phase' = phase /\ InBirths
        /\ UNCHANGED <<given, death, emitted, now, stepEnd, phase, cancelled>>
    BY DEF SampleBirths, RowsInv, Progress
  <1>3. /\ LastInstant \in Nat /\ Never = LastInstant + 1 /\ Span = 0..LastInstant
        /\ now \in 0..LastInstant /\ stepEnd \in 0..LastInstant
        /\ \A p \in Particles : birth[p] \in 0..LastInstant /\ death[p] \in 0..LastInstant + 1
    BY ConstantsTyped DEF RowsInv, LogTypeOK
  <1>. DEFINE t == g.time
              P == g.particles
  <1>4. /\ t \in Span /\ P \in SUBSET Particles /\ calls \subseteq [time : Span, particles : SUBSET Particles]
        /\ now < t /\ t < stepEnd /\ P = {p \in Particles : birth[p] = t}
        /\ \A u \in Span : HasTime(log.events, u) => u < t
    BY <1>2 DEF RowsInv, LogTypeOK, InBirths
  <1>5. \A p \in P : log.rows[p] = <<>> /\ ~ Closed(log.rows[p]) /\ ~ Dead(p)
    <2>. TAKE p \in P
    <2>1. ~ (birth[p] <= now) /\ birth[p] = t
      BY <1>3, <1>4
    <2>2. log.rows[p] = <<>>
      BY <1>2, <1>4, <2>1 DEF InBirths
    <2>. QED
      BY <1>2, <1>4, <2>2, NothingWritten DEF InBirths
  <1>6. Acceptable(t, P)
    <2>. SUFFICES ASSUME NEW p \in P
                  PROVE  /\ birth[p] = t /\ t <= death[p] /\ ~ Dead(p)
                         /\ \A u \in Span : ~ HasTime(log.rows[p], u)
                         /\ \A u \in Span : HasTime(log.events, u) => u <= t
      BY <1>3, <1>4 DEF Acceptable
    <2>1. birth[p] = t /\ ~ Dead(p) /\ log.rows[p] = <<>>
      BY <1>4, <1>5
    <2>2. t <= death[p]
      BY <1>3, <1>4, <2>1 DEF Dead
    <2>. QED
      BY <1>3, <1>4, <2>1, <2>2, NothingWritten
  <1>7. Wrote(t, P) /\ SinkKept
    BY <1>1, <1>2, <1>4, <1>6, SinkWrites DEF given
  <1>8. LogTypeOK'
    BY <1>1, <1>2, <1>7 DEF RowsInv, LogTypeOK, Wrote, given
  <1>9. InStep'
    <2>1. (now < stepEnd /\ emitted = {p \in Particles : birth[p] <= stepEnd})'
      BY <1>2 DEF InBirths, InStep, given
    <2>2. (\A u \in schedule : ~ (now < u /\ u < stepEnd))'
      BY <1>2 DEF InBirths, InStep, given
    <2>3. (\A u \in 0..now : Covered(u))'
      <3>. SUFFICES ASSUME NEW u \in 0..now, u \in schedule, NEW p \in Particles,
                           birth[p] <= u, u <= death[p]
                    PROVE  HasTime(log'.rows[p], u)
        BY <1>2 DEF Covered, given
      <3>1. HasTime(log.rows[p], u) /\ u \in Span
        BY <1>2, <1>3 DEF InBirths, InStep, Covered
      <3>. QED
        BY <1>7, <3>1 DEF Wrote
    <2>4. (\A u \in Span : HasTime(log.events, u) => u < stepEnd)'
      BY <1>2, <1>4, <1>7 DEF InBirths, InStep, Wrote
    <2>. QED
      BY <2>1, <2>2, <2>3, <2>4 DEF InStep
  <1>10. \A h \in calls : h # g => t < h.time
    <2>. SUFFICES ASSUME NEW h \in calls, h # g PROVE t < h.time
      OBVIOUS
    <2>1. t <= h.time /\ h.time \in Span /\ h.particles = {p \in Particles : birth[p] = h.time}
      BY <1>1, <1>2, <1>4 DEF Earliest, InBirths
    <2>2. h = [time |-> h.time, particles |-> h.particles] /\ g = [time |-> t, particles |-> P]
      BY <1>4
    <2>3. h.time # t
      BY <1>4, <2>1, <2>2
    <2>. QED
      BY <1>3, <1>4, <2>1, <2>3
  <1>11. InBirths'
    <2>1. ASSUME NEW h \in calls'
          PROVE  /\ now < h.time /\ h.time < stepEnd
                 /\ h.particles = {p \in Particles : birth[p] = h.time}
                 /\ \A u \in Span : HasTime(log'.events, u) => u < h.time
      <3>1. h \in calls /\ t < h.time /\ h.time \in Span
        BY <1>1, <1>4, <1>10
      <3>. QED
        BY <1>2, <1>7, <3>1 DEF InBirths, Wrote
    <2>2. ASSUME NEW p \in Particles
          PROVE  /\ log'.rows[p] # <<>> <=>
                       \/ birth[p] <= now
                       \/ birth[p] < stepEnd /\ \A h \in calls' : h.time # birth[p]
                 /\ Closed(log'.rows[p]) <=> Dead(p)
                 /\ \A u \in Span : HasTime(log'.rows[p], u) => u <= now \/ u = birth[p]
      <3>1. CASE p \in P
        <4>1. birth[p] = t /\ birth[p] < stepEnd /\ \A h \in calls' : h.time # birth[p]
          BY <1>1, <1>3, <1>4, <1>10, <3>1
        <4>2. log'.rows[p] # <<>> /\ (Closed(log'.rows[p]) <=> Dead(p))
          BY <1>7, <3>1 DEF Wrote
        <4>3. \A u \in Span : HasTime(log'.rows[p], u) => u = t
          BY <1>5, <1>7, <3>1, NothingWritten DEF Wrote
        <4>. QED
          BY <4>1, <4>2, <4>3
      <3>2. CASE p \notin P
        <4>1. log'.rows[p] = log.rows[p] /\ birth[p] # t
          BY <1>4, <1>7, <3>2 DEF Wrote
        <4>2. (\A h \in calls' : h.time # birth[p]) <=> (\A h \in calls : h.time # birth[p])
          BY <1>1, <4>1
        <4>. QED
          BY <1>2, <4>1, <4>2 DEF InBirths
      <3>. QED
        BY <3>1, <3>2
    <2>3. now' = now /\ stepEnd' = stepEnd /\ birth' = birth /\ (\A p \in Particles : Dead(p)' <=> Dead(p))
      BY <1>2 DEF given, Dead
    <2>. QED
      BY <1>9, <2>1, <2>2, <2>3 DEF InBirths
  <1>12. Progress' /\ SuccessIsComplete'
    BY <1>2, <1>11 DEF Progress, SuccessIsComplete
  <1>. QED
    BY <1>7, <1>8, <1>12 DEF RowsInv, SinkKept


\* The times of the rows of a particle are of its life.
LEMMA RowsOfALife ==
    ASSUME LogTypeOK, StoreOk, NEW p \in Particles, NEW u, HasTime(log.rows[p], u)
    PROVE  birth[p] <= u /\ u <= death[p]
PROOF
  BY DEF HasTime, StoreOk, RowsOk

LEMMA SampleTerminationsKeeps ==
    ASSUME RowsInv, SampleTerminations
    PROVE  RowsInv' /\ Extends(disk', disk)
PROOF
  <1>1. PICK g \in calls : Earliest(g) /\ WriteEvent(g.time, g.particles) /\ calls' = calls \ {g}
    BY DEF SampleTerminations
  <1>2. /\ phase = "deaths" /\ phase' = phase /\ InDeaths /\ LogTypeOK /\ StoreOk
        /\ UNCHANGED <<given, death, emitted, now, stepEnd, phase, cancelled>>
    BY DEF SampleTerminations, RowsInv, Progress
  <1>3. /\ LastInstant \in Nat /\ Never = LastInstant + 1 /\ Span = 0..LastInstant
        /\ now \in 0..LastInstant /\ stepEnd \in 0..LastInstant
        /\ \A p \in Particles : birth[p] \in 0..LastInstant /\ death[p] \in 0..LastInstant + 1
    BY ConstantsTyped DEF RowsInv, LogTypeOK
  <1>. DEFINE t == g.time
              P == g.particles
  <1>4. /\ t \in Span /\ P \in SUBSET Particles /\ now <= t /\ t < stepEnd
        /\ calls \subseteq [time : Span, particles : SUBSET Particles]
        /\ \A p \in P : death[p] = t /\ ~ Closed(log.rows[p])
        /\ \A h \in calls : h.time = t => h = g
    BY <1>2 DEF RowsInv, LogTypeOK, InDeaths
  <1>5. Acceptable(t, P)
    <2>. SUFFICES ASSUME NEW p \in P
                  PROVE  /\ birth[p] <= t /\ t <= death[p] /\ Dead(p) /\ death[p] = t
                         /\ \A u \in Span : HasTime(log.rows[p], u) => u <= t
                         /\ log.rows[p] # <<>>
      BY DEF Acceptable
    <2>1. p \in Particles /\ death[p] = t
      BY <1>4
    <2>2. Dead(p)
      BY <1>3, <1>4, <2>1 DEF Dead
    <2>3. birth[p] <= death[p]
      BY <1>2, <2>1, <2>2 DEF StoreOk
    <2>4. log.rows[p] # <<>>
      BY <1>2, <2>1, <2>2 DEF InDeaths
    <2>5. \A u \in Span : HasTime(log.rows[p], u) => u <= t
      BY <1>2, <2>1, RowsOfALife
    <2>. QED
      BY <1>3, <2>1, <2>2, <2>3, <2>4, <2>5
  <1>6. Wrote(t, P) /\ SinkKept
    BY <1>1, <1>2, <1>4, <1>5, SinkWrites DEF given
  <1>7. LogTypeOK'
    BY <1>1, <1>2, <1>6 DEF LogTypeOK, Wrote, given
  <1>8. InStep'
    <2>1. (now < stepEnd /\ emitted = {p \in Particles : birth[p] <= stepEnd})'
      BY <1>2 DEF InDeaths, InStep, given
    <2>2. (\A u \in schedule : ~ (now < u /\ u < stepEnd))'
      BY <1>2 DEF InDeaths, InStep, given
    <2>3. (\A u \in 0..now : Covered(u))'
      <3>. SUFFICES ASSUME NEW u \in 0..now, u \in schedule, NEW p \in Particles,
                           birth[p] <= u, u <= death[p]
                    PROVE  HasTime(log'.rows[p], u)
        BY <1>2 DEF Covered, given
      <3>1. HasTime(log.rows[p], u) /\ u \in Span
        BY <1>2, <1>3 DEF InDeaths, InStep, Covered
      <3>. QED
        BY <1>6, <3>1 DEF Wrote
    <2>4. (\A u \in Span : HasTime(log.events, u) => u < stepEnd)'
      BY <1>2, <1>4, <1>6 DEF InDeaths, InStep, Wrote
    <2>. QED
      BY <2>1, <2>2, <2>3, <2>4 DEF InStep
  <1>9. InDeaths'
    <2>1. ASSUME NEW h \in calls'
          PROVE  /\ now <= h.time /\ h.time < stepEnd
                 /\ \A p \in h.particles : death[p] = h.time /\ ~ Closed(log'.rows[p])
                 /\ \A i \in calls' : i.time = h.time => i = h
      <3>1. h \in calls /\ h # g /\ h.time # t
        BY <1>1, <1>4
      <3>2. \A p \in h.particles : p \in Particles /\ death[p] = h.time /\ ~ Closed(log.rows[p])
        BY <1>2, <1>4, <3>1 DEF InDeaths
      <3>3. \A p \in h.particles : p \notin P
        BY <1>4, <3>1, <3>2
      <3>4. \A p \in h.particles : log'.rows[p] = log.rows[p]
        BY <1>6, <3>2, <3>3 DEF Wrote
      <3>5. \A p \in h.particles : ~ Closed(log'.rows[p])
        BY <3>2, <3>4
      <3>. QED
        BY <1>1, <1>2, <3>1, <3>2, <3>5 DEF InDeaths
    <2>2. ASSUME NEW p \in Particles
          PROVE  /\ log'.rows[p] # <<>> <=> birth[p] < stepEnd
                 /\ \A u \in Span : HasTime(log'.rows[p], u) => u < stepEnd
                 /\ Dead(p) => /\ birth[p] < stepEnd
                               /\ \/ Closed(log'.rows[p]) \/ death[p] = stepEnd
                                  \/ \E h \in calls' : p \in h.particles
      <3>1. \A u \in Span : HasTime(log'.rows[p], u) => u < stepEnd
        BY <1>2, <1>4, <1>6 DEF InDeaths, Wrote
      <3>2. CASE p \in P
        <4>1. death[p] = t /\ Dead(p)
          BY <1>3, <1>4, <3>2 DEF Dead
        <4>2. birth[p] < stepEnd
          BY <1>2, <4>1 DEF InDeaths
        <4>3. log'.rows[p] # <<>> /\ Closed(log'.rows[p])
          BY <1>6, <3>2, <4>1 DEF Wrote
        <4>. QED
          BY <3>1, <4>2, <4>3
      <3>3. CASE p \notin P
        <4>1. log'.rows[p] = log.rows[p]
          BY <1>6, <3>3 DEF Wrote
        <4>2. \A h \in calls : p \in h.particles => h \in calls'
          BY <1>1, <3>3
        <4>. QED
          BY <1>2, <3>1, <4>1, <4>2 DEF InDeaths
      <3>. QED
        BY <3>2, <3>3
    <2>3. now' = now /\ stepEnd' = stepEnd /\ birth' = birth /\ death' = death
            /\ (\A p \in Particles : Dead(p)' <=> Dead(p))
      BY <1>2 DEF given, Dead
    <2>. QED
      BY <1>8, <2>1, <2>2, <2>3 DEF InDeaths
  <1>10. Progress' /\ SuccessIsComplete'
    BY <1>2, <1>9 DEF Progress, SuccessIsComplete
  <1>. QED
    BY <1>6, <1>7, <1>10 DEF RowsInv, SinkKept

LEMMA SampleEndKeeps ==
    ASSUME RowsInv, SampleEnd
    PROVE  RowsInv' /\ Extends(disk', disk)
PROOF
  <1>1. /\ phase = "sample" /\ InSample /\ LogTypeOK /\ StoreOk
        /\ phase' \in {"plan", "finish"}
        /\ UNCHANGED <<given, death, emitted, now, stepEnd, calls, cancelled>>
        /\ now = stepEnd /\ calls = {} /\ emitted = {p \in Particles : birth[p] <= now}
    BY DEF SampleEnd, RowsInv, Progress, InSample
  <1>2. /\ LastInstant \in Nat /\ Never = LastInstant + 1 /\ Span = 0..LastInstant /\ now \in 0..LastInstant /\ stepEnd \in 0..LastInstant
        /\ \A p \in Particles : birth[p] \in 0..LastInstant /\ death[p] \in 0..LastInstant + 1
    BY ConstantsTyped DEF RowsInv, LogTypeOK
  <1> DEFINE P == IF FullSnapshot \/ AtThisInstant # {} THEN Sampled ELSE {}
  <1>3. P \subseteq emitted /\ AtThisInstant \subseteq P /\ (FullSnapshot => P = emitted)
    BY DEF Sampled, AtThisInstant
  <1>4. Acceptable(now, P)
    <2>. SUFFICES ASSUME NEW p \in P, ~ Closed(log.rows[p])
                  PROVE  /\ birth[p] <= now /\ now <= death[p] /\ (Dead(p) => death[p] = now)
                         /\ \A u \in Span : HasTime(log.rows[p], u) => u <= now
                         /\ log.rows[p] = <<>> => birth[p] = now
                         /\ ~ Dead(p) => \A u \in Span : HasTime(log.events, u) => u <= now
      BY DEF Acceptable
    <2>1. p \in Particles /\ birth[p] <= now
      BY <1>1, <1>3
    <2>2. Dead(p) => death[p] = now
      BY <1>1, <2>1 DEF InSample
    <2>3. now <= death[p]
      BY <1>2, <2>1, <2>2 DEF Dead
    <2>4. ASSUME NEW u \in Span, HasTime(log.rows[p], u) PROVE u <= now
      <3>1. u < now
        BY <1>1, <2>1, <2>4 DEF InSample
      <3>. QED
        BY <1>2, <3>1
    <2>5. ASSUME NEW u \in Span, HasTime(log.events, u) PROVE u <= now
      <3>1. u < now
        BY <1>1, <2>5 DEF InSample
      <3>. QED
        BY <1>2, <3>1
    <2>6. log.rows[p] = <<>> => birth[p] = now
      BY <1>1, <1>2, <2>1 DEF InSample
    <2>. QED
      BY <2>1, <2>2, <2>3, <2>4, <2>5, <2>6
  <1>5. now \in Span /\ P \in SUBSET Particles
    BY <1>1, <1>2, <1>3
  <1>6. Wrote(now, P) /\ SinkKept
    <2>1. CASE FullSnapshot \/ AtThisInstant # {}
      <3>1. WriteEvent(now, P)
        BY <2>1 DEF SampleEnd
      <3>. HIDE DEF P
      <3>. QED
        BY <1>1, <1>4, <1>5, <3>1, SinkWrites DEF given
    <2>2. CASE ~ (FullSnapshot \/ AtThisInstant # {})
      <3>1. P = {} /\ UNCHANGED sink
        BY <2>2 DEF SampleEnd
      <3>2. UNCHANGED <<log, unsaved, refused, disk, birth, death>>
        BY <1>1, <3>1 DEF sink, given
      <3>3. SinkKept
        BY <3>2, SinkStays
      <3>4. Wrote(now, {})
        BY <1>1, <3>2 DEF Wrote, RowsInv, LogTypeOK, StoreOk
      <3>. QED
        BY <3>1, <3>3, <3>4
    <2>. QED
      BY <2>1, <2>2
  <1>. HIDE DEF P
  <1>7. LogTypeOK'
    BY <1>1, <1>6 DEF LogTypeOK, Wrote, Phases, given
  <1>8. ASSUME NEW p \in Particles, p \notin P PROVE birth[p] # now /\ death[p] # now
    <2>1. p \notin AtThisInstant
      BY <1>3, <1>8
    <2>2. birth[p] # now
      BY <1>1, <1>2, <2>1 DEF AtThisInstant
    <2>3. ASSUME death[p] = now PROVE FALSE
      <3>1. Dead(p)
        BY <1>2, <2>3 DEF Dead
      <3>2. birth[p] <= now
        BY <1>1, <2>3, <3>1 DEF StoreOk
      <3>. QED
        BY <1>1, <2>1, <2>3, <3>2 DEF AtThisInstant
    <2>. QED
      BY <2>2, <2>3
  <1>9. AtRest'
    <2>1. ASSUME NEW p \in Particles
          PROVE  /\ log'.rows[p] # <<>> <=> birth[p] <= now
                 /\ Closed(log'.rows[p]) <=> Dead(p)
                 /\ \A u \in Span : HasTime(log'.rows[p], u) => u <= now
      <3>1. \A u \in Span : HasTime(log'.rows[p], u) => u <= now
        BY <1>1, <1>2, <1>6 DEF InSample, Wrote
      <3>2. CASE p \in P
        <4>1. birth[p] <= now
          BY <1>1, <1>3, <3>2
        <4>. QED
          BY <1>6, <3>1, <3>2, <4>1 DEF Wrote
      <3>3. CASE p \notin P
        <4>1. log'.rows[p] = log.rows[p] /\ birth[p] # now /\ death[p] # now
          BY <1>6, <1>8, <3>3 DEF Wrote
        <4>2. log.rows[p] # <<>> <=> birth[p] <= now
          BY <1>1, <1>2, <4>1 DEF InSample
        <4>3. Closed(log.rows[p]) => Dead(p)
          BY <1>1, ClosedIsDead
        <4>4. Dead(p) => Closed(log.rows[p])
          BY <1>1, <4>1 DEF InSample
        <4>. QED
          BY <3>1, <4>1, <4>2, <4>3, <4>4
      <3>. QED
        BY <3>2, <3>3
    <2>2. \A u \in Span : HasTime(log'.events, u) => u <= now
      BY <1>1, <1>2, <1>6 DEF InSample, Wrote
    <2>3. ASSUME NEW u \in 0..now, u \in schedule, NEW p \in Particles,
                 birth[p] <= u, u <= death[p]
          PROVE  HasTime(log'.rows[p], u)
      <3>1. CASE u < now
        <4>1. u \in 0..now - 1 /\ u \in Span
          BY <1>2, <3>1
        <4>2. HasTime(log.rows[p], u)
          BY <1>1, <2>3, <4>1 DEF InSample, Covered
        <4>. QED
          BY <1>6, <4>1, <4>2 DEF Wrote
      <3>2. CASE u = now
        <4>1. FullSnapshot /\ p \in emitted
          BY <1>1, <2>3, <3>2 DEF FullSnapshot
        <4>2. p \in P
          BY <1>3, <4>1
        <4>3. ~ Closed(log.rows[p])
          <5>. SUFFICES ASSUME Closed(log.rows[p]) PROVE FALSE
            OBVIOUS
          <5>1. HasTime(log.rows[p], death[p]) /\ death[p] \in Span
            BY <1>1, ClosedIsDead
          <5>2. death[p] < now
            BY <1>1, <5>1 DEF InSample
          <5>. QED
            BY <1>2, <2>3, <3>2, <5>2
        <4>. QED
          BY <1>6, <3>2, <4>2, <4>3 DEF Wrote
      <3>. QED
        BY <1>2, <3>1, <3>2
    <2>4. (\A u \in 0..now : Covered(u))'
      BY <1>1, <2>3 DEF Covered, given
    <2>5. /\ now' = now /\ stepEnd' = stepEnd /\ birth' = birth /\ calls' = calls /\ emitted' = emitted
          /\ \A p \in Particles : Dead(p)' <=> Dead(p)
      BY <1>1 DEF given, Dead
    <2>. QED
      BY <1>1, <2>1, <2>2, <2>4, <2>5 DEF AtRest
  <1>10. Progress' /\ SuccessIsComplete'
    BY <1>1, <1>9 DEF Progress, SuccessIsComplete
  <1>. QED
    BY <1>6, <1>7, <1>10 DEF RowsInv, SinkKept

-----------------------------------------------------------------------------
(* The other steps.                                                        *)

LEMMA InitializeKeeps ==
    ASSUME RowsInv, Initialize
    PROVE  RowsInv' /\ Extends(disk', disk)
PROOF
  <1>1. SinkKept
    BY SinkStays DEF Initialize, given, sink
  <1>2. LogTypeOK'
    BY DEF RowsInv, LogTypeOK, Initialize, given, sink, Phases
  <1>3. Progress' /\ SuccessIsComplete'
    BY DEF RowsInv, Progress, Beginning, SuccessIsComplete, Initialize, given, sink
  <1>. QED
    BY <1>1, <1>2, <1>3 DEF RowsInv, SinkKept

\* A step begins: its births are sorted by their instants.
LEMMA PlanStepKeeps ==
    ASSUME RowsInv, PlanStep
    PROVE  RowsInv' /\ Extends(disk', disk)
PROOF
  <1>1. PICK to \in now + 1..LastInstant :
           /\ \A t \in schedule : ~ (now < t /\ t < to)
           /\ stepEnd' = to
           /\ emitted' = emitted \union {p \in Particles : now < birth[p] /\ birth[p] <= to}
           /\ calls' = InteriorBirths(to)
    BY DEF PlanStep
  <1>2. /\ AtRest /\ phase' = "births"
        /\ UNCHANGED <<given, death, now, cancelled, sink>>
    BY DEF PlanStep, RowsInv, Progress
  <1>3. /\ LastInstant \in Nat /\ Never = LastInstant + 1 /\ Span = 0..LastInstant
        /\ now \in 0..LastInstant
        /\ \A p \in Particles : birth[p] \in 0..LastInstant
    BY ConstantsTyped DEF RowsInv, LogTypeOK
  <1>4. to \in Span /\ to \in Int /\ now < to
    BY <1>1, <1>3
  <1>5. SinkKept
    BY <1>2, SinkStays DEF given, sink
  <1>6. ASSUME NEW g \in calls'
        PROVE  /\ g \in [time : Span, particles : SUBSET Particles]
               /\ now < g.time /\ g.time < to
               /\ g.particles = {p \in Particles : birth[p] = g.time}
    <2> DEFINE S == {p \in Particles : now < birth[p] /\ birth[p] < to}
    <2>1. PICK q \in S : g = [time |-> birth[q], particles |-> {p \in S : birth[p] = birth[q]}]
      BY <1>1 DEF InteriorBirths, Groups
    <2>2. g.time = birth[q] /\ g.particles = {p \in S : birth[p] = birth[q]}
      BY <2>1
    <2>3. {p \in S : birth[p] = birth[q]} = {p \in Particles : birth[p] = birth[q]}
      OBVIOUS
    <2>4. birth[q] \in Span
      BY <1>3
    <2>. QED
      BY <2>1, <2>2, <2>3, <2>4
  <1>7. ASSUME NEW p \in Particles, now < birth[p], birth[p] < to
        PROVE  \E g \in calls' : g.time = birth[p]
    <2> DEFINE S == {q \in Particles : now < birth[q] /\ birth[q] < to}
               g == [time |-> birth[p], particles |-> {q \in S : birth[q] = birth[p]}]
    <2>1. p \in S
      BY <1>7
    <2>2. g \in calls'
      BY <1>1, <2>1 DEF InteriorBirths, Groups
    <2>. QED
      BY <2>2
  <1>8. emitted' = {p \in Particles : birth[p] <= to}
    BY <1>1, <1>2, <1>3, <1>4 DEF AtRest
  <1>9. LogTypeOK'
    BY <1>1, <1>2, <1>4, <1>6, <1>8 DEF RowsInv, LogTypeOK, given, sink, Phases
  <1>10. InStep'
    <2>1. (\A t \in 0..now : Covered(t))'
      BY <1>2 DEF AtRest, Covered, given, sink
    <2>2. (\A t \in Span : HasTime(log.events, t) => t < to)
      BY <1>2, <1>3, <1>4 DEF AtRest
    <2>. QED
      BY <1>1, <1>2, <1>4, <1>8, <2>1, <2>2 DEF InStep, given, sink
  <1>11. InBirths'
    <2>1. ASSUME NEW g \in calls', NEW t \in Span, HasTime(log.events, t) PROVE t < g.time
      <3>1. t <= now /\ now < g.time /\ g.time \in Span
        BY <1>2, <1>6, <2>1 DEF AtRest
      <3>. QED
        BY <1>3, <3>1
    <2>2. ASSUME NEW p \in Particles
          PROVE  /\ log.rows[p] # <<>> <=> \/ birth[p] <= now
                                           \/ birth[p] < to /\ \A g \in calls' : g.time # birth[p]
                 /\ Closed(log.rows[p]) <=> Dead(p)
                 /\ \A t \in Span : HasTime(log.rows[p], t) => t <= now \/ t = birth[p]
      BY <1>2, <1>3, <1>7 DEF AtRest
    <2>3. /\ now' = now /\ stepEnd' = to /\ birth' = birth /\ log' = log
          /\ \A p \in Particles : Dead(p)' <=> Dead(p)
      BY <1>1, <1>2 DEF given, sink, Dead
    <2>. QED
      BY <1>6, <1>10, <2>1, <2>2, <2>3 DEF InBirths
  <1>12. Progress' /\ SuccessIsComplete'
    BY <1>2, <1>11 DEF Progress, SuccessIsComplete
  <1>. QED
    BY <1>5, <1>9, <1>12 DEF RowsInv, SinkKept

\* Particles die at or after what is written of them.
LEMMA IntegrateKeeps ==
    ASSUME RowsInv, Integrate
    PROVE  RowsInv' /\ Extends(disk', disk)
PROOF
  <1> DEFINE dies(new, ends) ==
               /\ \A p \in new : birth[p] <= ends[p]
               /\ death' = [p \in Particles |-> IF p \in new THEN ends[p] ELSE death[p]]
               /\ calls' = InteriorTerminations(new, ends)
  <1>0. PICK new \in SUBSET {p \in Particles : birth[p] < stepEnd /\ ~ Dead(p)} :
           \E ends \in [new -> now..stepEnd] : dies(new, ends)
    BY DEF Integrate
  <1>1. PICK ends \in [new -> now..stepEnd] : dies(new, ends)
    BY <1>0
  <1>2. /\ LogTypeOK /\ StoreOk /\ InBirths /\ InStep /\ calls = {} /\ phase' = "deaths"
        /\ UNCHANGED <<given, emitted, now, stepEnd, cancelled, sink>>
    BY DEF Integrate, RowsInv, Progress, InBirths
  <1>3. /\ LastInstant \in Nat /\ Never = LastInstant + 1 /\ Span = 0..LastInstant
        /\ now \in 0..LastInstant /\ stepEnd \in 0..LastInstant
        /\ \A p \in Particles : birth[p] \in 0..LastInstant /\ death[p] \in 0..LastInstant + 1
    BY ConstantsTyped DEF RowsInv, LogTypeOK
  <1>4. now < stepEnd
    BY <1>2 DEF InStep
  <1>5. ASSUME NEW p \in Particles
        PROVE  /\ log.rows[p] # <<>> <=> birth[p] < stepEnd
               /\ Closed(log.rows[p]) <=> Dead(p)
               /\ \A t \in Span : HasTime(log.rows[p], t) => t <= now \/ t = birth[p]
    BY <1>2, <1>3, <1>4 DEF InBirths
  <1>6. ASSUME NEW p \in new
        PROVE  /\ p \in Particles /\ birth[p] < stepEnd /\ death[p] = Never /\ ~ Closed(log.rows[p])
               /\ ends[p] \in now..stepEnd /\ ends[p] \in Span /\ death'[p] = ends[p]
               /\ birth[p] <= ends[p] /\ Dead(p)'
    <2>1. p \in Particles /\ birth[p] < stepEnd /\ ~ Dead(p)
      BY <1>1
    <2>2. ends[p] \in now..stepEnd /\ death'[p] = ends[p] /\ birth[p] <= ends[p]
      BY <1>1, <2>1
    <2>3. ends[p] \in Span
      BY <1>3, <2>2
    <2>4. ends[p] # Never
      BY <1>3, <2>3
    <2>5. Dead(p)'
      BY <1>3, <2>2, <2>4 DEF Dead, Never
    <2>. QED
      BY <1>5, <2>1, <2>2, <2>3, <2>5 DEF Dead
  <1>7. \A p \in Particles : p \notin new => death'[p] = death[p] /\ (Dead(p)' <=> Dead(p))
    BY <1>1 DEF Dead
  <1>8. birth' = birth /\ log' = log /\ disk' = disk /\ unsaved' = unsaved /\ refused' = refused
          /\ now' = now /\ stepEnd' = stepEnd /\ schedule' = schedule
    BY <1>2 DEF given, sink
  <1>9. StoreOk'
    <2>1. ASSUME NEW p \in Particles
          PROVE  /\ RowsOk(log.events, log.rows[p], birth[p], death'[p])
                 /\ Dead(p)' => birth[p] <= death'[p]
      <3>1. RowsOk(log.events, log.rows[p], birth[p], death[p])
        BY <1>2 DEF StoreOk
      <3>2. CASE p \in new
        <4>1. ASSUME NEW k \in 1..Len(log.rows[p])
              PROVE  /\ birth[p] <= log.rows[p][k].time /\ log.rows[p][k].time <= ends[p]
                     /\ log.rows[p][k].status # "terminated"
          <5>1. log.rows[p][k].time \in Span /\ birth[p] <= log.rows[p][k].time
            <6>1. log.rows[p] \in Seq(Rows) /\ birth[p] <= log.rows[p][k].time
              BY <3>1 DEF RowsOk
            <6>2. log.rows[p][k] \in Rows
              BY <6>1
            <6>. QED
              BY <6>1, <6>2 DEF Rows
          <5>2. HasTime(log.rows[p], log.rows[p][k].time)
            BY DEF HasTime
          <5>3. log.rows[p][k].time <= now \/ log.rows[p][k].time = birth[p]
            BY <1>5, <5>1, <5>2
          <5>4. log.rows[p][k].status # "terminated"
            BY <1>6, <3>2 DEF Closed
          <5>. QED
            BY <1>3, <1>6, <3>2, <5>1, <5>3, <5>4
        <4>2. RowsOk(log.events, log.rows[p], birth[p], ends[p])
          BY <3>1, <4>1 DEF RowsOk
        <4>. QED
          BY <1>6, <3>2, <4>2
      <3>3. CASE p \notin new
        BY <1>2, <1>7, <3>1, <3>3 DEF StoreOk
      <3>. QED
        BY <3>2, <3>3
    <2>2. OneAnInstant(log.events)
      BY <1>2 DEF StoreOk
    <2>. QED
      BY <1>8, <2>1, <2>2 DEF StoreOk
  <1>10. SinkKept
    <2>1. SnapshotAudits'
      BY <1>8 DEF RowsInv, SnapshotAudits
    <2>2. Loss' /\ ~ refused' /\ Extends(disk', disk)
      BY <1>8, NothingLost DEF RowsInv, Loss, LogTypeOK
    <2>. QED
      BY <1>9, <2>1, <2>2 DEF SinkKept
  <1>11. ASSUME NEW g \in calls'
         PROVE  /\ g \in [time : Span, particles : SUBSET Particles]
                /\ now <= g.time /\ g.time < stepEnd
                /\ \A p \in g.particles : p \in new /\ ends[p] = g.time
                /\ \A h \in calls' : h.time = g.time => h = g
    <2> DEFINE S == {p \in new : ends[p] # stepEnd}
               group(q) == [time |-> ends[q], particles |-> {p \in S : ends[p] = ends[q]}]
    <2>1. \A h \in calls' : \E q \in S : h = group(q)
      BY <1>1 DEF InteriorTerminations, Groups
    <2>2. PICK q \in S : g = group(q)
      BY <2>1
    <2>3. g.time = ends[q] /\ g.particles = {p \in S : ends[p] = ends[q]}
      BY <2>2
    <2>4. ends[q] \in now..stepEnd /\ ends[q] # stepEnd /\ ends[q] \in Span
      BY <1>6
    <2>5. ASSUME NEW h \in calls', h.time = g.time PROVE h = g
      <3>1. PICK r \in S : h = group(r)
        BY <2>1
      <3>2. ends[r] = ends[q]
        BY <2>3, <2>5, <3>1
      <3>. QED
        BY <2>2, <3>1, <3>2
    <2>6. S \subseteq Particles
      BY <1>1
    <2>. QED
      BY <1>3, <2>2, <2>3, <2>4, <2>5, <2>6
  <1>12. ASSUME NEW p \in new, ends[p] # stepEnd
         PROVE  \E g \in calls' : p \in g.particles
    <2> DEFINE S == {q \in new : ends[q] # stepEnd}
               g == [time |-> ends[p], particles |-> {q \in S : ends[q] = ends[p]}]
    <2>1. p \in S
      BY <1>12
    <2>2. g \in calls'
      BY <1>1, <2>1 DEF InteriorTerminations, Groups
    <2>. QED
      BY <2>1, <2>2
  <1>13. LogTypeOK'
    <2>1. death' \in [Particles -> Span \union {Never}]
      BY <1>1, <1>2, <1>6 DEF LogTypeOK
    <2>2. calls' \subseteq [time : Span, particles : SUBSET Particles]
      BY <1>11
    <2>. QED
      BY <1>2, <1>8, <2>1, <2>2 DEF LogTypeOK, Phases, Never
  <1>14. InStep'
    <2>1. ASSUME NEW u \in 0..now, u \in schedule, NEW p \in Particles, birth[p] <= u, u <= death'[p]
          PROVE  HasTime(log.rows[p], u)
      <3>1. u <= death[p]
        BY <1>3, <1>6, <1>7, <2>1
      <3>. QED
        BY <1>2, <2>1, <3>1 DEF InStep, Covered
    <2>2. (\A u \in 0..now : Covered(u))'
      BY <1>8, <2>1 DEF Covered
    <2>. QED
      BY <1>2, <1>8, <2>2 DEF InStep
  <1>15. InDeaths'
    <2>1. ASSUME NEW g \in calls'
          PROVE  /\ now <= g.time /\ g.time < stepEnd
                 /\ \A p \in g.particles : death'[p] = g.time /\ ~ Closed(log.rows[p])
                 /\ \A h \in calls' : h.time = g.time => h = g
      BY <1>6, <1>11
    <2>2. ASSUME NEW p \in Particles
          PROVE  /\ log.rows[p] # <<>> <=> birth[p] < stepEnd
                 /\ \A t \in Span : HasTime(log.rows[p], t) => t < stepEnd
                 /\ Dead(p)' => /\ birth[p] < stepEnd
                                /\ \/ Closed(log.rows[p]) \/ death'[p] = stepEnd
                                   \/ \E g \in calls' : p \in g.particles
      <3>1. ASSUME NEW t \in Span, HasTime(log.rows[p], t) PROVE t < stepEnd
        <4>1. log.rows[p] # <<>>
          BY <3>1, NothingWritten
        <4>2. birth[p] < stepEnd /\ (t <= now \/ t = birth[p])
          BY <1>5, <3>1, <4>1
        <4>. QED
          BY <1>3, <1>4, <4>2
      <3>2. ASSUME Dead(p)'
            PROVE  /\ birth[p] < stepEnd
                   /\ \/ Closed(log.rows[p]) \/ death'[p] = stepEnd
                      \/ \E g \in calls' : p \in g.particles
        <4>1. CASE p \in new
          BY <1>6, <1>12, <4>1
        <4>2. CASE p \notin new
          <5>1. Closed(log.rows[p])
            BY <1>5, <1>7, <3>2, <4>2
          <5>2. log.rows[p] # <<>>
            BY <5>1, NothingWritten
          <5>. QED
            BY <1>5, <5>1, <5>2
        <4>. QED
          BY <4>1, <4>2
      <3>. QED
        BY <1>5, <3>1, <3>2
    <2>. QED
      BY <1>8, <1>14, <2>1, <2>2 DEF InDeaths
  <1>16. Progress' /\ SuccessIsComplete'
    BY <1>2, <1>15 DEF Progress, SuccessIsComplete
  <1>. QED
    BY <1>10, <1>13, <1>16 DEF RowsInv, SinkKept

LEMMA PollKeeps ==
    ASSUME RowsInv, Poll
    PROVE  RowsInv' /\ Extends(disk', disk)
PROOF
  <1>1. SinkKept /\ LogTypeOK /\ StoreOk
    BY SinkStays DEF Poll, given, sink, RowsInv
  <1>2. /\ UNCHANGED <<given, death, emitted, stepEnd, calls, sink>>
        /\ \A p \in Particles : Dead(p)' <=> Dead(p)
    BY DEF Poll, given, Dead
  <1>3. CASE phase = "poll" /\ phase' \in {"finish", "plan"} /\ UNCHANGED now
    <2>1. LogTypeOK'
      BY <1>1, <1>2, <1>3 DEF LogTypeOK, given, sink, Phases
    <2>2. AtRest'
      BY <1>2, <1>3 DEF RowsInv, Progress, AtRest, Covered, given, sink
    <2>3. Progress' /\ SuccessIsComplete'
      BY <1>3, <2>2 DEF Progress, SuccessIsComplete
    <2>. QED
      BY <1>1, <2>1, <2>3 DEF RowsInv, SinkKept
  <1>4. CASE phase = "deaths" /\ calls = {} /\ phase' = "sample" /\ now' = stepEnd
    <2>1. LogTypeOK'
      BY <1>1, <1>2, <1>4 DEF LogTypeOK, given, sink, Phases
    <2>2. InDeaths /\ InStep
      BY <1>4 DEF RowsInv, Progress, InDeaths
    <2>3. /\ LastInstant \in Nat /\ Span = 0..LastInstant /\ now \in 0..LastInstant /\ stepEnd \in 0..LastInstant
          /\ schedule \subseteq Span
      BY <1>1, ConstantsTyped DEF LogTypeOK
    <2>4. (\A t \in 0..now - 1 : Covered(t))'
      <3>. SUFFICES ASSUME NEW t \in 0..stepEnd - 1, t \in schedule, NEW p \in Particles,
                           birth[p] <= t, t <= death[p]
                    PROVE  HasTime(log.rows[p], t)
        BY <1>2, <1>4 DEF Covered, given, sink
      <3>1. t <= now
        BY <2>2, <2>3 DEF InStep
      <3>2. t \in 0..now
        BY <2>3, <3>1
      <3>. QED
        BY <2>2, <3>2 DEF InStep, Covered
    <2>5. ASSUME NEW p \in Particles
          PROVE  /\ log.rows[p] # <<>> <=> birth[p] < stepEnd
                 /\ \A t \in Span : HasTime(log.rows[p], t) => t < stepEnd
                 /\ Dead(p) => Closed(log.rows[p]) \/ death[p] = stepEnd
      BY <1>4, <2>2 DEF InDeaths
    <2>6. (\A p \in Particles :
            /\ log.rows[p] # <<>> <=> birth[p] < now
            /\ \A t \in Span : HasTime(log.rows[p], t) => t < now
            /\ Dead(p) => Closed(log.rows[p]) \/ death[p] = now)'
      BY <1>2, <1>4, <2>5 DEF given, sink
    <2>7. InSample'
      BY <1>2, <1>4, <2>2, <2>4, <2>6 DEF InSample, InStep, given, sink
    <2>8. Progress' /\ SuccessIsComplete'
      BY <1>4, <2>7 DEF Progress, SuccessIsComplete
    <2>. QED
      BY <1>1, <2>1, <2>8 DEF RowsInv, SinkKept
  <1>. QED
    BY <1>3, <1>4 DEF Poll

\* The last transaction is closed, or its contents are gone with it.
LEMMA FinishKeeps ==
    ASSUME RowsInv, Finish
    PROVE  RowsInv' /\ Extends(disk', disk)
PROOF
  <1>1. /\ phase = "finish" /\ phase' \in {"failed", "cancelled", "completed"}
        /\ phase' # "failed" => emitted = Particles
        /\ disk' = Committed[phase'] /\ ~ refused
        /\ UNCHANGED <<given, death, emitted, now, stepEnd, calls, cancelled, log, unsaved, refused>>
    BY DEF Finish
  <1>2. LogTypeOK /\ StoreOk /\ SnapshotAudits /\ Loss /\ AtRest
    BY <1>1 DEF RowsInv, Progress
  <1>3. disk' = IF phase' = "failed" THEN disk ELSE log
    BY <1>1 DEF Committed
  <1>4. log \in Stores /\ disk \in Stores /\ unsaved \in Nat
    BY <1>2, RunLogAssumption DEF LogTypeOK
  <1>5. LogTypeOK'
    BY <1>1, <1>2, <1>3 DEF LogTypeOK, given, Phases, Outcomes
  <1>6. StoreOk'
    BY <1>1, <1>2 DEF StoreOk, given, Dead
  <1>7. Progress'
    BY <1>1 DEF Progress
  <1>8. CASE phase' = "failed"
    <2>1. disk' = disk
      BY <1>3, <1>8
    <2>2. SnapshotAudits' /\ Loss' /\ SuccessIsComplete' /\ Extends(disk', disk)
      BY <1>1, <1>2, <1>4, <1>8, <2>1, NothingLost
         DEF SnapshotAudits, Loss, SuccessIsComplete, given
    <2>. QED
      BY <1>1, <1>5, <1>6, <1>7, <2>2 DEF RowsInv
  <1>9. CASE phase' # "failed"
    <2>1. disk' = log /\ log' = log /\ unsaved' = unsaved /\ emitted = Particles
      BY <1>1, <1>3, <1>9
    <2>2. SnapshotAudits'
      BY <1>1, <1>2, <2>1 DEF SnapshotAudits, StoreOk, RowsOk, given
    <2>3. Loss'
      <3>1. Lost(log, log) = {} /\ Extends(log, log)
        BY <1>4, NothingLost
      <3>2. IsFiniteSet({}) /\ Cardinality({}) = 0
        BY FS_EmptySet
      <3>. QED
        BY <1>4, <2>1, <3>1, <3>2 DEF Loss
    <2>4. SuccessIsComplete'
      <3>1. \A p \in Particles : /\ Closed(log.rows[p]) <=> Dead(p)
                                 /\ log.rows[p] # <<>> <=> p \in emitted
        BY <1>2 DEF AtRest
      <3>2. emitted' = emitted /\ \A p \in Particles : Dead(p)' <=> Dead(p)
        BY <1>1 DEF Dead
      <3>. QED
        BY <2>1, <3>1, <3>2 DEF SuccessIsComplete
    <2>5. Extends(disk', disk)
      BY <1>2, <2>1 DEF Loss
    <2>. QED
      BY <1>1, <1>5, <1>6, <1>7, <2>2, <2>3, <2>4, <2>5 DEF RowsInv
  <1>. QED
    BY <1>8, <1>9

\* A crash ends the run where it is, and a request only stands.
LEMMA OtherKeeps ==
    ASSUME RowsInv, Fail \/ RequestCancel \/ Crash \/ Ended \/ UNCHANGED logVars
    PROVE  RowsInv' /\ Extends(disk', disk)
PROOF
  <1>1. ~ Fail
    BY DEF Fail, RowsInv
  <1>2. /\ UNCHANGED <<schedule, lives, now, stepEnd, calls, cancelled, sink>>
        /\ \/ Crash /\ phase' = "crashed"
           \/ UNCHANGED phase
    BY <1>1 DEF RequestCancel, Crash, Ended, given, lives, logVars
  <1>3. SinkKept
    BY <1>2, SinkStays DEF lives, sink
  <1>4. LogTypeOK'
    BY <1>2 DEF RowsInv, LogTypeOK, lives, sink, Phases, Outcomes
  <1>5. CASE phase' = "crashed"
    <2>1. Progress' /\ SuccessIsComplete'
      BY <1>5 DEF Progress, SuccessIsComplete
    <2>. QED
      BY <1>3, <1>4, <2>1 DEF RowsInv, SinkKept
  <1>6. CASE UNCHANGED phase
    <2>1. Beginning' <=> Beginning
      BY <1>2, <1>6 DEF Beginning, lives, sink
    <2>2. AtRest' <=> AtRest
      BY <1>2 DEF AtRest, Covered, Dead, lives, sink
    <2>3. (InStep' <=> InStep) /\ \A p \in Particles : Dead(p)' <=> Dead(p)
      BY <1>2 DEF InStep, Covered, Dead, lives, sink
    <2>4. InBirths' <=> InBirths
      BY <1>2, <2>3 DEF InBirths, lives, sink
    <2>5. InDeaths' <=> InDeaths
      BY <1>2, <2>3 DEF InDeaths, lives, sink
    <2>6. InSample' <=> InSample
      BY <1>2 DEF InSample, Covered, Dead, lives, sink
    <2>7. SuccessIsComplete' <=> SuccessIsComplete
      BY <1>2, <1>6, <2>3 DEF SuccessIsComplete, lives, sink
    <2>8. Progress' /\ SuccessIsComplete'
      BY <1>6, <2>1, <2>2, <2>4, <2>5, <2>6, <2>7 DEF RowsInv, Progress
    <2>. QED
      BY <1>3, <1>4, <2>8 DEF RowsInv, SinkKept
  <1>. QED
    BY <1>2, <1>5, <1>6

LEMMA LogInitKeeps == LogInit => RowsInv
PROOF
  <1>. SUFFICES ASSUME LogInit PROVE RowsInv
    OBVIOUS
  <1>1. LastInstant \in Nat /\ MaxBatch \in Nat \ {0} /\ Span = 0..LastInstant
    BY RunLogAssumption DEF Span
  <1>2. Empty \in Stores
    BY DEF Empty, Stores
  <1>3. LogTypeOK
    BY <1>1, <1>2 DEF LogInit, LogTypeOK, Phases
  <1>4. \A p \in Particles : log.rows[p] = <<>> /\ disk.rows[p] = <<>> /\ ~ Dead(p)
    BY DEF LogInit, Empty, Dead
  <1>5. StoreOk
    <2>1. OneAnInstant(log.events)
      BY DEF LogInit, Empty, OneAnInstant
    <2>2. ASSUME NEW p \in Particles PROVE RowsOk(log.events, <<>>, birth[p], death[p])
      BY DEF RowsOk, Audits
    <2>. QED
      BY <1>4, <2>1, <2>2 DEF StoreOk
  <1>6. SnapshotAudits
    BY <1>4 DEF SnapshotAudits, Audits
  <1>7. Loss
    <2>1. Lost(log, disk) = {} /\ Extends(log, disk)
      BY <1>2, NothingLost DEF LogInit
    <2>2. IsFiniteSet({}) /\ Cardinality({}) = 0
      BY FS_EmptySet
    <2>. QED
      BY <2>1, <2>2 DEF Loss, LogInit
  <1>8. Progress /\ SuccessIsComplete
    BY DEF LogInit, Progress, Beginning, SuccessIsComplete
  <1>. QED
    BY <1>3, <1>5, <1>6, <1>7, <1>8 DEF RowsInv, LogInit

LEMMA LogNextKeeps ==
    ASSUME RowsInv, [LogNext]_logVars
    PROVE  RowsInv' /\ Extends(disk', disk)
PROOF
  BY InitializeKeeps, FirstSnapshotKeeps, PollKeeps, PlanStepKeeps, SampleBirthsKeeps,
     IntegrateKeeps, SampleTerminationsKeeps, SampleEndKeeps, FinishKeeps, OtherKeeps
     DEF LogNext, Run

LEMMA RowsInvTells == RowsInv => RowsTellLives
PROOF
  <1>. SUFFICES ASSUME RowsInv PROVE RowsTellLives
    OBVIOUS
  <1>1. LogTypeOK /\ StoreOk /\ SnapshotAudits /\ Loss /\ SuccessIsComplete /\ Progress /\ ~ refused
    BY DEF RowsInv
  <1>2. /\ LastInstant \in Nat /\ Span = 0..LastInstant /\ Never = LastInstant + 1 /\ now \in 0..LastInstant
        /\ schedule \subseteq Span /\ emitted \subseteq Particles
    BY <1>1, ConstantsTyped DEF LogTypeOK
  <1>3. ScheduledCoverage
    <2>. SUFFICES ASSUME phase \in {"plan", "births", "deaths", "finish"},
                         NEW t \in schedule, NEW p \in emitted,
                         t <= now, birth[p] <= t, t <= death[p]
                  PROVE  HasTime(log.rows[p], t)
      BY DEF ScheduledCoverage
    <2>1. \A u \in 0..now : Covered(u)
      BY <1>1 DEF Progress, AtRest, InBirths, InDeaths, InStep
    <2>2. t \in 0..now /\ p \in Particles
      BY <1>2
    <2>. QED
      BY <2>1, <2>2 DEF Covered
  <1>4. RowsTruthful
    <2>. SUFFICES ASSUME NEW p \in Particles, NEW k \in 1..Len(log.rows[p])
                  PROVE  LET row == log.rows[p][k]
                         IN  /\ birth[p] <= row.time /\ row.time <= death[p]
                             /\ row.status = "terminated" => row.time = death[p]
                             /\ phase \in {"plan", "finish"} /\ row.time = death[p] =>
                                   row.status = "terminated"
      BY DEF RowsTruthful
    <2>1. RowsOk(log.events, log.rows[p], birth[p], death[p])
      BY <1>1 DEF StoreOk
    <2>2. ASSUME phase \in {"plan", "finish"}, log.rows[p][k].time = death[p]
          PROVE  log.rows[p][k].status = "terminated"
      <3>1. log.rows[p] \in Seq(Rows) /\ Len(log.rows[p]) \in Nat
        BY <2>1 DEF RowsOk
      <3>2. \A i \in 1..Len(log.rows[p]) : log.rows[p][i] \in Rows
        BY <3>1
      <3>3. \A i \in 1..Len(log.rows[p]) : log.rows[p][i].time \in Int
        BY <1>2, <3>2 DEF Rows
      <3>4. log.rows[p][k].time \in Span
        BY <3>2 DEF Rows
      <3>5. Dead(p)
        BY <1>2, <2>2, <3>4 DEF Dead
      <3>6. Closed(log.rows[p])
        BY <1>1, <2>2, <3>5 DEF Progress, AtRest
      <3>7. PICK i \in 1..Len(log.rows[p]) : log.rows[p][i].status = "terminated"
        BY <3>6 DEF Closed
      <3>8. log.rows[p][i].time = death[p]
        BY <2>1, <3>7 DEF RowsOk
      <3>9. \A a \in 1..Len(log.rows[p]) : \A b \in 1..a - 1 :
               log.rows[p][b].time < log.rows[p][a].time
        BY <2>1 DEF RowsOk, Audits
      <3>10. ~ (i < k) /\ ~ (k < i)
        <4>1. i \in Int /\ k \in Int /\ i >= 1 /\ k >= 1
          BY <3>1
        <4>2. i < k => i \in 1..k - 1
          BY <4>1
        <4>3. k < i => k \in 1..i - 1
          BY <4>1
        <4>. QED
          BY <2>2, <3>3, <3>8, <3>9, <4>2, <4>3
      <3>11. i = k
        BY <3>1, <3>10
      <3>. QED
        BY <3>7, <3>11
    <2>. QED
      BY <2>1, <2>2 DEF RowsOk
  <1>5. LossBounded
    <2>1. Cardinality(Lost(log, disk)) \in Nat /\ Cardinality(Lost(log, disk)) <= unsaved
      BY <1>1, FS_CardinalityType DEF Loss
    <2>2. unsaved \in 0..MaxBatch - 1 /\ MaxBatch \in Nat
      BY <1>1, RunLogAssumption DEF LogTypeOK
    <2>. QED
      BY <1>1, <2>1, <2>2 DEF LossBounded, Loss
  <1>. QED
    BY <1>1, <1>3, <1>4, <1>5 DEF RowsTellLives, WritesAccepted

\* The rows tell the particles' lives, for every number of particles, length of run, schedule
\* and batch: no event is refused, whatever a result command opens passes the lifecycle rules,
\* every scheduled sample covers whoever is alive, a run that succeeds has every birth and
\* death on disk, and a crash loses less than a batch.
THEOREM RowsSound == LogSpec => []RowsTellLives
PROOF
  <1>1. RowsInv /\ [LogNext]_logVars => RowsInv'
    BY LogNextKeeps
  <1>. QED
    BY LogInitKeeps, <1>1, RowsInvTells, PTL DEF LogSpec

\* What has been committed stays: a row only becomes the end of its particle, and an event
\* only rises in kind.
THEOREM CommittedRowsStay == LogSpec => CommittedStays
PROOF
  <1>1. RowsInv /\ [LogNext]_logVars => RowsInv' /\ [Extends(disk', disk)]_disk
    BY LogNextKeeps
  <1>. QED
    BY LogInitKeeps, <1>1, PTL DEF LogSpec, CommittedStays
=============================================================================
