----------------------------- MODULE PointBatches -----------------------------
(***************************************************************************)
(* A batch of points from the caller to its answers: every point is placed  *)
(* in a cell of the grid or refused (`grid/mod.rs'), the placed ones are     *)
(* grouped by cell and cut into chunks that fit a budget                     *)
(* (`query/layout.rs'), the points of a chunk are sampled by some workers,   *)
(* and the samples are scattered back into the caller's order                *)
(* (`query/engine.rs', one loop for each kind of batch).                     *)
(*                                                                         *)
(* Positions are integers: longitudes in units of which Circle go round,     *)
(* latitudes up to a Pole.  What a sample is depends on the point alone:     *)
(* Sampled names the points with a local status or a fatal error.            *)
(***************************************************************************)
EXTENDS Naturals, Integers, Sequences, SequencesExt, FiniteSets, FiniteSetsExt

CONSTANTS Grids,      \* regular grids: [lon0, dlon, nx, lat0, dlat, ny, periodic, halo]
          Circle, Pole,
          Batches,    \* sequences of points [lon, lat, kind], a kind one of Kinds
          Budgets,    \* bytes; a prepared batch takes Fixed, a point PerPoint more
          Fixed, PerPoint, Preferred,
          Workers     \* the worker counts of an execution context

Kinds == {"fine", "local", "fatal"}

-----------------------------------------------------------------------------
\* The grid.

\* DomainGeometry::validate.
ValidGrid(g) ==
    /\ g.nx >= 2 /\ g.ny >= 2 /\ g.dlon > 0 /\ g.dlat # 0
    /\ {g.lat0, g.lat0 + g.dlat * (g.ny - 1)} \subseteq -Pole .. Pole
    /\ g.periodic => g.dlon * g.nx = Circle
    /\ g.ny >= 2 * g.halo + 2 /\ (g.periodic \/ g.nx >= 2 * g.halo + 2)

Refused(why) == [ok |-> FALSE, why |-> why, x0 |-> 0, x1 |-> 0, y0 |-> 0, y1 |-> 0, fx |-> 0, fy |-> 0]

\* Along an axis: the lower index of the cell, and the offset in it in units of the spacing,
\* counted in the direction of the spacing.
Along(offset, spacing) == IF spacing > 0 THEN offset ELSE -offset
Magnitude(n) == IF n < 0 THEN -n ELSE n

\* safe_cell_fraction: the last point of the safe region belongs to the last cell.
SafeCell(offset, size, count, halo) ==
    IF offset < halo * size \/ offset > (count - halo - 1) * size THEN [ok |-> FALSE, lower |-> 0, part |-> 0]
    ELSE IF offset = (count - halo - 1) * size THEN [ok |-> TRUE, lower |-> count - halo - 2, part |-> size]
    ELSE [ok |-> TRUE, lower |-> offset \div size, part |-> offset % size]

\* The columns of the cell: on a circle the one after the last is the first.
Column(g, lon) ==
    IF g.periodic
      THEN LET delta == (lon - g.lon0) % Circle
               x0 == (delta \div g.dlon) % g.nx
           IN  [ok |-> TRUE, x0 |-> x0, x1 |-> (x0 + 1) % g.nx, part |-> delta % g.dlon]
      ELSE LET cell == SafeCell(lon - g.lon0, g.dlon, g.nx, g.halo)
           IN  [ok |-> cell.ok, x0 |-> cell.lower, x1 |-> cell.lower + 1, part |-> cell.part]

Row(g, lat) == SafeCell(Along(lat - g.lat0, g.dlat), Magnitude(g.dlat), g.ny, g.halo)

\* locate_fractional.
Locate(g, point) ==
    IF Magnitude(point.lat) > Pole THEN Refused("out_of_domain")
    ELSE IF Magnitude(point.lat) = Pole THEN Refused("polar_singularity")
    ELSE LET column == Column(g, point.lon)
             row == Row(g, point.lat)
         IN  IF ~ column.ok \/ ~ row.ok THEN Refused("out_of_domain")
             ELSE [ok |-> TRUE, why |-> "none", x0 |-> column.x0, x1 |-> column.x1, fx |-> column.part,
                   y0 |-> row.lower, y1 |-> row.lower + 1, fy |-> row.part]

\* encode_cell.
CellId(g, cell) == cell.y0 * g.nx + cell.x0

\* horizontal_weights: the corners in storage order, weights in units of a cell's area.
HorizontalWeights(g, cell) ==
    LET dlat == Magnitude(g.dlat)
    IN  << [x |-> cell.x0, y |-> cell.y0, w |-> (g.dlon - cell.fx) * (dlat - cell.fy)],
           [x |-> cell.x1, y |-> cell.y0, w |-> cell.fx * (dlat - cell.fy)],
           [x |-> cell.x0, y |-> cell.y1, w |-> (g.dlon - cell.fx) * cell.fy],
           [x |-> cell.x1, y |-> cell.y1, w |-> cell.fx * cell.fy] >>

-----------------------------------------------------------------------------
\* The layout.

\* locate_points: the placed points with their cells, and the status of each point.
Placed(g, batch) == {k \in DOMAIN batch : Locate(g, batch[k]).ok}
InitialStatus(g, batch) ==
    [k \in DOMAIN batch |-> IF k \in Placed(g, batch) THEN "ok" ELSE Locate(g, batch[k]).why]

\* BatchLayout::build: sorted by cell, in the caller's order within one.
Forward(g, batch) ==
    LET cell(k) == CellId(g, Locate(g, batch[k]))
    IN  SetToSortSeq(Placed(g, batch), LAMBDA j, k : cell(j) < cell(k) \/ (cell(j) = cell(k) /\ j < k))

\* ChunkPlan::build, when one point fits: chunks of one size and a rest.
Boundaries(count, budget) ==
    IF count = 0 THEN <<0>>
    ELSE LET size == Min({(budget - Fixed) \div PerPoint, Preferred, count})
         IN  [k \in 1 .. (count + size - 1) \div size + 1 |-> Min({(k - 1) * size, count})]

Insufficient(count, budget) == Fixed > budget \/ (count > 0 /\ (budget - Fixed) \div PerPoint = 0)

-----------------------------------------------------------------------------
VARIABLES grid, batch, budget, workers,
          phase,      \* "new", "running", "done", or the error that ended it
          forward, chunks,
          chunk,      \* the chunk that is being sampled
          found,      \* its samples so far, by internal index
          status, values

vars == <<grid, batch, budget, workers, phase, forward, chunks, chunk, found, status, values>>
Given == <<grid, batch, budget, workers>>

\* The sample of a point: a status of its own, or an error for the whole batch.
Sampled(k) == batch[k].kind
NoValue == 0
ValueOf(k) == 1 + batch[k].lon + Circle * (batch[k].lat + Pole)

Init ==
    /\ grid \in Grids /\ batch \in Batches /\ budget \in Budgets /\ workers \in Workers
    /\ ValidGrid(grid)
    /\ phase = "new" /\ forward = <<>> /\ chunks = <<>> /\ chunk = 0 /\ found = <<>>
    /\ status = <<>> /\ values = <<>>

\* QueryBatch::validate: one latitude beyond a pole refuses the whole batch.
OnTheGlobe(points) == \A k \in DOMAIN points : Magnitude(points[k].lat) <= Pole

\* prepare_*_batch.
Prepare ==
    /\ phase = "new"
    /\ IF ~ OnTheGlobe(batch)
         THEN phase' = "refused" /\ UNCHANGED <<forward, chunks, chunk, found, status, values>>
       ELSE IF Insufficient(Cardinality(Placed(grid, batch)), budget)
         THEN phase' = "insufficient_memory" /\ UNCHANGED <<forward, chunks, chunk, found, status, values>>
         ELSE /\ phase' = "running" /\ forward' = Forward(grid, batch)
              /\ chunks' = Boundaries(Len(forward'), budget)
              /\ chunk' = 1 /\ found' = <<>> /\ status' = InitialStatus(grid, batch)
              /\ values' = [k \in DOMAIN batch |-> NoValue]
    /\ UNCHANGED Given

InChunk == IF chunk < Len(chunks) THEN chunks[chunk] + 1 .. chunks[chunk + 1] ELSE {}
Pending == InChunk \ DOMAIN found

\* sample_*_chunk: one worker goes through the chunk, several take its points in any order.
SamplePoint(i) ==
    /\ phase = "running" /\ i \in Pending
    /\ workers = 1 => i = Min(Pending)
    /\ found' = [j \in DOMAIN found \union {i} |-> IF j = i THEN Sampled(forward[i]) ELSE found[j]]
    /\ UNCHANGED <<Given, phase, forward, chunks, chunk, status, values>>

\* Mutation of Scattered: samples are stored in the order of the layout.
ScatteredInPlace(i) == i

\* Where a sample goes (permutation.forward).
Scattered(i) == forward[i]

\* The first fatal error of the chunk ends the batch; otherwise its samples are scattered.
EndChunk ==
    /\ phase = "running" /\ InChunk # {} /\ Pending = {}
    /\ LET of == {Scattered(i) : i \in InChunk}
           sample(k) == found[CHOOSE i \in InChunk : Scattered(i) = k]
       IN  IF \E i \in InChunk : found[i] = "fatal"
             THEN phase' = "failed" /\ UNCHANGED <<chunk, found, status, values>>
             ELSE /\ chunk' = chunk + 1 /\ found' = <<>> /\ UNCHANGED phase
                  /\ status' = [k \in DOMAIN status |->
                        IF k \in of /\ sample(k) = "local" THEN "invalid_column" ELSE status[k]]
                  /\ values' = [k \in DOMAIN values |->
                        IF k \in of /\ sample(k) = "fine" THEN ValueOf(forward[CHOOSE i \in InChunk : Scattered(i) = k])
                        ELSE values[k]]
    /\ UNCHANGED <<Given, forward, chunks>>

\* The columns are complete.
Finish ==
    /\ phase = "running" /\ chunk = Len(chunks) /\ phase' = "done"
    /\ UNCHANGED <<Given, forward, chunks, chunk, found, status, values>>

Next == Prepare \/ (\E i \in Pending : SamplePoint(i)) \/ EndChunk \/ Finish
Spec == Init /\ [][Next]_vars

-----------------------------------------------------------------------------
\* A point lies in the cell it is placed in: the corners' positions, weighted, are its own,
\* also across the seam of a circle; and no corner is in the halo.
PositionOf(k) ==
    LET cell == Locate(grid, batch[k])
        w == HorizontalWeights(grid, cell)
        area == grid.dlon * Magnitude(grid.dlat)
        seam == IF cell.x1 < cell.x0 THEN Circle ELSE 0
        lon(c) == grid.lon0 + grid.dlon * c.x + (IF c.x = cell.x1 THEN seam ELSE 0)
        lat(c) == grid.lat0 + grid.dlat * c.y
        total(f(_)) == f(w[1]) * w[1].w + f(w[2]) * w[2].w + f(w[3]) * w[3].w + f(w[4]) * w[4].w
    IN  /\ total(lat) = area * batch[k].lat
        /\ IF grid.periodic THEN (total(lon) - area * batch[k].lon) % (area * Circle) = 0
                            ELSE total(lon) = area * batch[k].lon
        /\ {c.y : c \in Range(w)} \subseteq grid.halo .. grid.ny - 1 - grid.halo
        /\ grid.periodic \/ {c.x : c \in Range(w)} \subseteq grid.halo .. grid.nx - 1 - grid.halo
        /\ {c.x : c \in Range(w)} \subseteq 0 .. grid.nx - 1
PlacedInside == \A k \in Placed(grid, batch) : PositionOf(k)

\* Every answer is the answer of its own point, whatever the chunks and the workers: as if
\* the point had been asked alone.
AloneStatus(k) ==
    IF ~ Locate(grid, batch[k]).ok THEN Locate(grid, batch[k]).why
    ELSE IF batch[k].kind = "local" THEN "invalid_column" ELSE "ok"
AsIfAlone ==
    phase = "done" => \A k \in DOMAIN batch :
        status[k] = AloneStatus(k) /\ values[k] = IF status[k] = "ok" THEN ValueOf(k) ELSE NoValue

\* And a batch fails exactly when one of its placed points does.
FailsWithAPoint ==
    phase \in {"done", "failed"} =>
        (phase = "failed" <=> \E k \in Placed(grid, batch) : batch[k].kind = "fatal")

\* No chunk outgrows the budget, and together they are all the placed points.
ChunksFit ==
    phase \notin {"new", "refused", "insufficient_memory"} =>
        /\ chunks[1] = 0 /\ chunks[Len(chunks)] = Cardinality(Placed(grid, batch))
        /\ \A i \in 1 .. Len(chunks) - 1 :
              /\ chunks[i] < chunks[i + 1] /\ chunks[i + 1] - chunks[i] <= Preferred
              /\ Fixed + PerPoint * (chunks[i + 1] - chunks[i]) <= budget
=============================================================================
