----------------------------- MODULE QueryCache -----------------------------
(* The cache of server answers the pages of the web client read (the          *)
(* @tanstack/react-query library, external, from how the hooks use it).  A    *)
(* query is what a page shows, its failure, and the fetch that may be under   *)
(* way: "asked" before and "read" after the server looked at its data.        *)
CONSTANT NoData

(* The page with the query is opened.                                         *)
Opened == [data |-> NoData, failed |-> FALSE, fetch |-> "asked", seen |-> NoData]

(* invalidateQueries of a mounted query, and refetch: a fetch under way is    *)
(* given up for a new one, unless the query has no data yet.                  *)
Refetch(q) ==
  IF q.fetch # "idle" /\ q.data = NoData THEN q
  ELSE [q EXCEPT !.fetch = "asked", !.seen = NoData,
                 !.failed = @ /\ q.data # NoData]

RefetchAll(c, keys) == [k \in DOMAIN c |-> IF k \in keys THEN Refetch(c[k]) ELSE c[k]]

(* setQueryData leaves a fetch under way alone.                               *)
SetData(c, keys, d) ==
  [k \in DOMAIN c |-> IF k \in keys THEN [c[k] EXCEPT !.data = d, !.failed = FALSE]
                      ELSE c[k]]

Asked(q) == q.fetch = "asked"
Reads(q, d) == [q EXCEPT !.fetch = "read", !.seen = d]

Answered(q) == q.fetch = "read"
Shows(q) == [data |-> q.seen, failed |-> FALSE, fetch |-> "idle", seen |-> NoData]

(* The retries are used up; the data of an earlier fetch stays.               *)
Misses(q) == [q EXCEPT !.fetch = "idle", !.seen = NoData, !.failed = TRUE]

Settled(q) == q.fetch = "idle" /\ ~q.failed
=============================================================================
