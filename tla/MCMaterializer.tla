--------------------------- MODULE MCMaterializer ---------------------------
(* Small instances of Materializer for TLC. *)
EXTENDS Materializer

Plain == [views |-> {"default"}, batchSize |-> 2, top |-> 0, orderShown |-> TRUE,
          desc |-> FALSE, placed |-> TRUE, resolved |-> TRUE, fromMap |-> FALSE,
          builds |-> 2]

\* over a directory of records, the default view in batches; over a map file, the
\* default view with a foreign key that leads nowhere; a named view downwards
\* and partitions; a named view upwards, which shows the column it is ordered by
\* or hides it; and partitions that share a path
OfMap(views) == [Plain EXCEPT !.views = views, !.top = 2, !.fromMap = TRUE,
                              !.builds = 1]
DirectoryAndMap ==
  {Plain, [OfMap({"default"}) EXCEPT !.resolved = FALSE],
   [OfMap({"named", "partitioned"}) EXCEPT !.desc = TRUE],
   OfMap({"named"}), [OfMap({"named"}) EXCEPT !.orderShown = FALSE],
   [OfMap({"partitioned"}) EXCEPT !.placed = FALSE]}
=============================================================================
