-------------------------- MODULE ProvenanceBundle --------------------------
(***************************************************************************)
(* The provenance bundle of a run, from the rows the sink writes to the    *)
(* published document (trajecta-core, output/provenance_bundle.rs): the    *)
(* dictionaries of records and field sets, the spool of sample lines, the  *)
(* bounded external sort, the pass in lockstep with the database, and the  *)
(* re-reading of what was written.  A digest is the content it is taken    *)
(* of, so a dictionary sorted by digests is a set; the files, their faults *)
(* and their quarantine are in RunOutputs.                                 *)
(***************************************************************************)
EXTENDS Naturals, Integers, SequencesExt

CONSTANTS Particles,     \* particle numbers
          MaxSamples,    \* bound: rows of a run
          Looks,         \* what a row of query output can look like, a function from some slots
          Limits,        \* [chunk, fanIn, records, sets]: lines of a sorted run, runs merged at once, caps of the dictionaries
          MaxRounds      \* merge rounds (64 in the code)


Wind == {"u", "v", "w"}
Slots == Wind \cup {"p", "T"}
Absent == -1
Worst(qualities) == CHOOSE q \in qualities : \A r \in qualities : r <= q

VARIABLES
  stage,      \* "writing", "sorting", "merging", "lockstep", "reading", then "published" or "failed"
  limits,
  rows,       \* particle_state: what the row of a (particle, sequence) shows
  spool,      \* the sample lines in the order they were written
  records, sets, \* the dictionaries
  runs, next, out, round,  \* the runs still to merge, those of the next round, the run being written
  sorted, doc,   \* the sorted lines, and the samples of the document written so far
  tampered, why  \* the database was changed behind the writer's back; what a failure was about

vars == <<stage, limits, rows, spool, records, sets, runs, next, out, round, sorted, doc, tampered, why>>
dictionaries == <<spool, records, sets>>
sorting == <<runs, next, out, round>>

Fail(about) == stage' = "failed" /\ why' = about
Goes(to) == stage' = to /\ UNCHANGED why

----------------------------------------------------------------------------
(* A row: a look gives a slot its quality, whether its value is there and  *)
(* the order of its record's parameters, which the record's digest drops.  *)

Sha(slot, part) == [slot |-> slot, quality |-> part.quality]
RecordsOf(look) == {Sha(slot, look[slot]) : slot \in DOMAIN look}
SetOf(look) == [slot \in DOMAIN look |-> Sha(slot, look[slot])]

WorstOf(look, slots) ==
  LET seen == {look[slot].quality : slot \in DOMAIN look \cap slots}
  IN IF seen = {} THEN Absent ELSE Worst(seen)

Validity(shown, slots) ==
  IF slots \subseteq shown THEN "ok" ELSE IF slots \cap shown = {} THEN "missing" ELSE "partial"

\* meteorology_columns: the values that are there, and validity and quality of wind, pressure and temperature.
RowOf(look) ==
  LET shown == {slot \in DOMAIN look : look[slot].shown}
  IN [shown |-> shown,
      wind |-> [validity |-> Validity(shown, Wind), quality |-> WorstOf(look, Wind)],
      p |-> [validity |-> Validity(shown, {"p"}), quality |-> WorstOf(look, {"p"})],
      T |-> [validity |-> Validity(shown, {"T"}), quality |-> WorstOf(look, {"T"})]]

KeysOf(lines) == {line.key : line \in lines}
NextSequence(p) == Cardinality({key \in DOMAIN rows : key[1] = p}) + 1

\* push_sample_refs: intern the records, then the field set, then spool the line; the sink inserts the row of the same sample.
Push(p, look) ==
  /\ stage = "writing" /\ Len(spool) < MaxSamples
  /\ LET key == <<p, NextSequence(p)>>
         known == records \cup RecordsOf(look)
         shapes == sets \cup {SetOf(look)}
     IN IF Cardinality(known) > limits.records \/ Cardinality(shapes) > limits.sets
        THEN Fail("cap") /\ UNCHANGED <<rows, spool, records, sets>>
        ELSE /\ records' = known /\ sets' = shapes
             /\ spool' = Append(spool, [key |-> key, set |-> SetOf(look)])
             /\ rows' = (key :> RowOf(look)) @@ rows
             /\ UNCHANGED <<stage, why>>
  /\ UNCHANGED <<limits, sorting, sorted, doc, tampered>>

\* finalize_after_sqlite: the spool is closed; the reading of it starts.
Close ==
  /\ stage = "writing" /\ Goes("sorting")
  /\ UNCHANGED <<limits, rows, dictionaries, sorting, sorted, doc, tampered>>

\* Somebody else writes the database after the sink has closed it and before the sorted lines meet it: a row goes, a value appears, or a quality changes or is deleted.
Tamper ==
  /\ stage = "sorting" /\ runs = <<>> /\ ~tampered /\ tampered' = TRUE
  /\ \E key \in DOMAIN rows :
       rows' \in {[other \in DOMAIN rows \ {key} |-> rows[other]],
                  [rows EXCEPT ![key].shown = Slots],
                  [rows EXCEPT ![key].p.quality = 1], [rows EXCEPT ![key].p.quality = Absent],
                  [rows EXCEPT ![key].wind.quality = Absent]}
  /\ UNCHANGED <<stage, why, limits, dictionaries, sorting, sorted, doc>>

----------------------------------------------------------------------------
(* The external sort.                                                      *)

Before(a, b) ==
  \/ a.key[1] < b.key[1]
  \/ a.key[1] = b.key[1] /\ a.key[2] < b.key[2]

Repeats(lines) == \E i, j \in DOMAIN lines : i # j /\ lines[i].key = lines[j].key

LeftToRead == SubSeq(spool, Len(FlattenSeq(runs)) + 1, Len(spool))

\* Mutation of Chunk: a run takes its lines from the next one on.
ChunkSkips(lines, size) == SubSeq(lines, IF Len(lines) > size THEN 2 ELSE 1, IF Len(lines) < size THEN Len(lines) ELSE size)

Chunk(lines, size) == SubSeq(lines, 1, IF Len(lines) < size THEN Len(lines) ELSE size)

\* flush_sorted_run: the next lines of the spool, sorted; the same sample twice in a run is refused.
CutRun ==
  /\ stage = "sorting" /\ LeftToRead # <<>>
  /\ LET chunk == Chunk(LeftToRead, limits.chunk)
     IN IF Repeats(chunk) THEN Fail("duplicate") /\ UNCHANGED runs
        ELSE runs' = Append(runs, SortSeq(chunk, Before)) /\ UNCHANGED <<stage, why>>
  /\ UNCHANGED <<limits, rows, dictionaries, next, out, round, sorted, doc, tampered>>

\* One run, or none, is the sorted file as it stands.
EndCut ==
  /\ stage = "sorting" /\ LeftToRead = <<>>
  /\ IF Len(runs) > 1 THEN Goes("merging") /\ UNCHANGED <<runs, sorted>>
     ELSE Goes("lockstep") /\ sorted' = FlattenSeq(runs) /\ runs' = <<>>
  /\ UNCHANGED <<limits, rows, dictionaries, next, out, round, doc, tampered>>

Group == 1 .. (IF Len(runs) < limits.fanIn THEN Len(runs) ELSE limits.fanIn)
Alone == Cardinality(Group) = 1 /\ out = <<>>
Heads == {i \in Group : runs[i] # <<>>}
First == CHOOSE i \in Heads : \A j \in Heads \ {i} :
           Before(Head(runs[i]), Head(runs[j])) \/ (Head(runs[i]).key = Head(runs[j]).key /\ i < j)

\* kway_merge_runs: the least head of the group goes to the run being written; the same sample twice in a row is refused.
Pop ==
  /\ stage = "merging" /\ runs # <<>> /\ ~Alone /\ Heads # {}
  /\ LET line == Head(runs[First])
     IN IF out # <<>> /\ ~Before(Last(out), line) THEN Fail("duplicate") /\ UNCHANGED <<runs, out>>
        ELSE /\ out' = Append(out, line) /\ runs' = [runs EXCEPT ![First] = Tail(@)]
             /\ UNCHANGED <<stage, why>>
  /\ UNCHANGED <<limits, rows, dictionaries, next, round, sorted, doc, tampered>>

\* A group is merged, or is one run that passes as it is.
EndGroup ==
  /\ stage = "merging" /\ runs # <<>> /\ (Alone \/ Heads = {})
  /\ next' = Append(next, IF Alone THEN runs[1] ELSE out)
  /\ out' = <<>> /\ runs' = SubSeq(runs, Cardinality(Group) + 1, Len(runs))
  /\ UNCHANGED <<stage, why, limits, rows, dictionaries, round, sorted, doc, tampered>>

TooManyRounds(n) == n > MaxRounds

EndRound ==
  /\ stage = "merging" /\ runs = <<>>
  /\ round' = IF round > MaxRounds THEN round ELSE round + 1
  /\ next' = <<>>
  /\ IF TooManyRounds(round + 1) THEN Fail("rounds") /\ runs' = next /\ UNCHANGED sorted
     ELSE IF Len(next) > 1 THEN runs' = next /\ UNCHANGED <<stage, why, sorted>>
     ELSE Goes("lockstep") /\ sorted' = next[1] /\ UNCHANGED runs
  /\ UNCHANGED <<limits, rows, dictionaries, out, doc, tampered>>

----------------------------------------------------------------------------
(* The pass in lockstep with the database, and the re-reading.             *)

\* check_nn, check_slot_quality and check_wind_quality: pressure and temperature may have no quality in the row, the wind may not.
RowAgrees(row, set) ==
  /\ row.shown \subseteq DOMAIN set
  /\ \A slot \in {"p", "T"} \cap DOMAIN set : row[slot].quality \in {Absent, set[slot].quality}
  /\ Wind \cap DOMAIN set # {} => row.wind.quality = Worst({set[slot].quality : slot \in Wind \cap DOMAIN set})

SlotsMatch(set, known) == \A slot \in DOMAIN set : set[slot].slot = slot /\ set[slot] \in known

\* ORDER BY particle_id, sample_sequence.
ByRow(a, b) == a.key[1] < b.key[1] \/ (a.key[1] = b.key[1] /\ a.key[2] < b.key[2])

\* The rows the cursor returns, by particle and sequence.
Cursor == SortSeq(SetToSeq({[key |-> key, row |-> rows[key]] : key \in DOMAIN rows}), ByRow)

\* There is a row and a line at this place of both, with one key.
Paired(cursor, i) == i <= Len(cursor) /\ i <= Len(sorted) /\ cursor[i].key = sorted[i].key

\* lockstep_write_samples: row and line at a time, until both are over.
Lockstep ==
  /\ stage = "lockstep"
  /\ LET i == Len(doc) + 1
         cursor == Cursor
     IN IF i > Len(cursor) /\ i > Len(sorted)
        THEN (IF Len(doc) = Len(spool) THEN Goes("reading") ELSE Fail("count")) /\ UNCHANGED doc
        ELSE IF Paired(cursor, i) /\ sorted[i].set \in sets /\ SlotsMatch(sorted[i].set, records)
                /\ RowAgrees(cursor[i].row, sorted[i].set)
        THEN doc' = Append(doc, sorted[i]) /\ UNCHANGED <<stage, why>>
        ELSE Fail("mismatch") /\ UNCHANGED doc
  /\ UNCHANGED <<limits, rows, dictionaries, sorting, sorted, tampered>>

Ascends(lines) == \A i \in 1 .. Len(lines) - 1 : ByRow(lines[i], lines[i + 1])

\* validate_bundle_file_semantics_loose: what any reader of the document checks, by itself.
Audited(document) ==
  /\ \A set \in document.sets : SlotsMatch(set, document.records)
  /\ Ascends(document.samples)
  /\ \A i \in DOMAIN document.samples : document.samples[i].set \in document.sets

Document == [records |-> records, sets |-> sets, samples |-> doc]

\* validate_bundle_file_semantics: the same, and the counts the builder knows; then the rename.
ReadBack ==
  /\ stage = "reading"
  /\ IF Audited(Document) /\ Len(doc) = Len(spool) THEN Goes("published") ELSE Fail("reread")
  /\ UNCHANGED <<limits, rows, dictionaries, sorting, sorted, doc, tampered>>

Init ==
  /\ stage = "writing" /\ limits \in Limits
  /\ rows = <<>> /\ spool = <<>> /\ records = {} /\ sets = {}
  /\ runs = <<>> /\ next = <<>> /\ out = <<>> /\ round = 0
  /\ sorted = <<>> /\ doc = <<>> /\ tampered = FALSE /\ why = "none"

Finalize == CutRun \/ EndCut \/ Pop \/ EndGroup \/ EndRound \/ Lockstep \/ ReadBack

Next == (\E p \in Particles, look \in Looks : Push(p, look)) \/ Close \/ Tamper \/ Finalize

\* Finalization is straight-line code of one thread.
Spec == Init /\ [][Next]_vars /\ WF_vars(Finalize)

----------------------------------------------------------------------------
\* A published document has one sample for every row of the database and no other, and each row's values have a record, of the row's own quality where the row has one, whoever wrote the rows (lockstep_write_samples).
PublishedMirrors ==
  stage = "published" =>
    /\ KeysOf(Range(doc)) = DOMAIN rows /\ Len(doc) = Cardinality(DOMAIN rows)
    /\ \A i \in DOMAIN doc :
         LET row == rows[doc[i].key] IN
           /\ row.shown \subseteq DOMAIN doc[i].set
           /\ \A slot \in {"p", "T"} \cap row.shown : row[slot].quality \in {Absent, doc[i].set[slot].quality}
           /\ \A slot \in Wind \cap row.shown : doc[i].set[slot].quality <= row.wind.quality

\* Each shown pressure and temperature has its record's quality in the row. The code does not promise it: a quality deleted from the row is not compared (check_slot_quality).
PublishedQualities ==
  stage = "published" =>
    \A i \in DOMAIN doc : LET row == rows[doc[i].key] IN
      \A slot \in {"p", "T"} \cap row.shown : row[slot].quality = doc[i].set[slot].quality

\* However the spool is cut into runs and merged, no line is lost, repeated or changed on the way (external_sort_sample_spool).
SortKeepsLines ==
  stage \in {"merging", "lockstep", "reading", "published"} =>
    LET held == runs \o next \o <<out>> \o (IF stage = "merging" THEN <<>> ELSE <<sorted>>)
    IN /\ Range(FlattenSeq(held)) = Range(spool)
       /\ Len(FlattenSeq(held)) = Len(spool)

\* The lines that meet the database ascend strictly by particle and sequence, as its cursor does (kway_merge_runs against LOCKSTEP_PARTICLE_STATE_SQL).
SortedAscends ==
  /\ Ascends(sorted) /\ Ascends(out)
  /\ \A i \in DOMAIN runs : Ascends(runs[i])

\* What the sink writes always passes its own finalization: a run is refused only for a full dictionary, a changed database or a merge that cannot shrink.
HonestRunsPublish ==
  stage = "failed" => why = "cap" \/ tampered \/ (why = "rounds" /\ limits.fanIn = 1)

\* verify_quality_fields: values, validity and quality of a row agree in the later audit of the result.
QualityFieldsValid(row) ==
  /\ LET count == Cardinality(row.shown \cap Wind)
     IN CASE row.wind.validity = "missing" -> count = 0
          [] row.wind.validity = "partial" -> count \in 1 .. 2 /\ row.wind.quality # Absent
          [] OTHER -> count = 3 /\ row.wind.quality # Absent
  /\ \A slot \in {"p", "T"} :
       IF slot \in row.shown THEN row[slot].validity # "missing" /\ row[slot].quality # Absent
       ELSE row[slot].validity = "missing"

\* A run that publishes passes the audit of its rows later: what the sink calls missing, partial or ok is what the auditor counts (meteorology_columns against verify_quality_fields).
PublishedPassesAudit ==
  stage = "published" /\ ~tampered => \A key \in DOMAIN rows : QualityFieldsValid(rows[key])

\* Once the spool is closed, finalization ends: with a document or with an error.
FinalizationEnds == (stage = "sorting") ~> (stage \in {"published", "failed"})
=============================================================================
