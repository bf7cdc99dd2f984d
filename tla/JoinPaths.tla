-------------------------------- MODULE JoinPaths --------------------------------
(***************************************************************************)
(* The searches of JoinGraph (backend/app/schema/joins.py) for ways to     *)
(* join two tables along foreign keys, in either direction: shortest_path, *)
(* a breadth-first search, and all_paths, a depth-first one that stops     *)
(* when it has enough.                                                     *)
(*                                                                         *)
(* A step is one foreign key, followed from one table to the other.        *)
(***************************************************************************)
EXTENDS Schema, Naturals, Sequences, SequencesExt, FiniteSets

CONSTANTS
  Keys,      \* the foreign keys in the order of the schema: from and to
  Hops,      \* the values of max_hops
  Enough     \* max_paths

ASSUME JoinPathsAssumption ==
  /\ Keys \in Seq([from : Tables, to : Tables])
  /\ Hops \subseteq Nat /\ Enough \in Nat \ {0}

VARIABLES
  search,        \* "none", "shortest" or "all"
  source, target, maxHops,
  open,          \* the queue or stack: paths, as their steps
  visited,       \* the tables shortest_path has met
  paths,         \* what was found
  over

joinVars == <<search, source, target, maxHops, open, visited, paths, over>>

Step(key, from, to) == [key |-> key, from |-> from, to |-> to]

\* The steps in the order the constructor appends them, two for each key.  The
\* adjacency list of a table has those that leave it, in this order.
Steps ==
  [i \in 1..(2 * Len(Keys)) |->
    LET k == (i + 1) \div 2
    IN  IF i % 2 = 1 THEN Step(k, Keys[k].from, Keys[k].to)
                     ELSE Step(k, Keys[k].to, Keys[k].from)]

EndOf(path) == IF path = << >> THEN source ELSE Last(path).to
TablesOn(path) == {source} \cup {path[i].to : i \in DOMAIN path}

-----------------------------------------------------------------------------

JoinInit ==
  /\ search = "none"
  /\ source = CHOOSE t \in Tables : TRUE
  /\ target = CHOOSE t \in Tables : TRUE
  /\ maxHops = 0 /\ open = << >> /\ visited = {} /\ paths = << >> /\ over = FALSE

JoinIdle == search = "none"

\* A search starts; from a table to itself there is the empty path.
Search ==
  /\ search = "none"
  /\ search' \in {"shortest", "all"} /\ source' \in Tables /\ target' \in Tables
  /\ maxHops' \in Hops
  /\ open' = << << >> >> /\ visited' = {source'}
  /\ over' = (source' = target')
  /\ paths' = IF source' = target' THEN << << >> >> ELSE << >>

FaultyMeet(s, path, step) ==
  IF s.paths # << >> \/ step.from # EndOf(path) \/ step.to \in s.visited THEN s
  ELSE IF step.to = target
  THEN [open |-> s.open, visited |-> s.visited, paths |-> <<Append(path, step)>>]
  ELSE [open |-> <<Append(path, step)>> \o s.open,
        visited |-> s.visited \cup {step.to}, paths |-> << >>]

\* What shortest_path makes of one step; only those that leave the end of the
\* path are in its adjacency list.
Meet(s, path, step) ==
  IF s.paths # << >> \/ step.from # EndOf(path) \/ step.to \in s.visited THEN s
  ELSE IF step.to = target
  THEN [open |-> s.open, visited |-> s.visited, paths |-> <<Append(path, step)>>]
  ELSE [open |-> Append(s.open, Append(path, step)),
        visited |-> s.visited \cup {step.to}, paths |-> << >>]

\* ... and of all that leave it.
Breadth(path) ==
  LET met[i \in 0..Len(Steps)] ==
        IF i = 0 THEN [open |-> Tail(open), visited |-> visited, paths |-> << >>]
        ELSE Meet(met[i - 1], path, Steps[i])
  IN  met[Len(Steps)]

\* One turn of the loop of shortest_path: the oldest path is extended.
Shortest ==
  /\ search = "shortest" /\ ~over /\ open # << >>
  /\ LET path == Head(open)
         next == IF Len(path) >= maxHops
                 THEN [open |-> Tail(open), visited |-> visited, paths |-> << >>] ELSE Breadth(path)
     IN  /\ open' = next.open /\ visited' = next.visited /\ paths' = next.paths
         /\ over' = (next.paths # << >> \/ next.open = << >>)
  /\ UNCHANGED <<search, source, target, maxHops>>

\* What all_paths makes of one step, ...
Follow(s, path, step) ==
  IF Len(s.paths) = Enough \/ step.from # EndOf(path) \/ step.to \in TablesOn(path) THEN s
  ELSE IF step.to = target THEN [open |-> s.open, paths |-> Append(s.paths, Append(path, step))]
  ELSE [open |-> Append(s.open, Append(path, step)), paths |-> s.paths]

\* ... and of all that leave the end of the path.
Depth(path) ==
  LET followed[i \in 0..Len(Steps)] ==
        IF i = 0 THEN [open |-> Front(open), paths |-> paths]
        ELSE Follow(followed[i - 1], path, Steps[i])
  IN  followed[Len(Steps)]

\* The paths by length, those of the same length in the order they were found.
ByLength(found) ==
  LET before(i, j) == Len(found[i]) < Len(found[j]) \/ (Len(found[i]) = Len(found[j]) /\ i <= j)
      rank(j) == Cardinality({i \in DOMAIN found : before(i, j)})
  IN  [n \in DOMAIN found |-> found[CHOOSE j \in DOMAIN found : rank(j) = n]]

\* One turn of the loop of all_paths: the newest path is extended; at the end
\* the paths are sorted by length.
All ==
  /\ search = "all" /\ ~over /\ open # << >>
  /\ LET path == Last(open)
         next == IF Len(path) >= maxHops THEN [open |-> Front(open), paths |-> paths]
                 ELSE Depth(path)
         ends == next.open = << >> \/ Len(next.paths) = Enough
     IN  /\ open' = next.open
         /\ paths' = IF ends THEN ByLength(next.paths) ELSE next.paths
         /\ over' = ends
  /\ UNCHANGED <<search, source, target, maxHops, visited>>

JoinNext == Search \/ Shortest \/ All

JoinSpec == JoinInit /\ [][JoinNext]_joinVars

-----------------------------------------------------------------------------

\* The tables n joins away from the source or less.
Near == LET near[n \in Nat] ==
              IF n = 0 THEN {source}
              ELSE near[n - 1] \cup
                 {Steps[i].to : i \in {j \in DOMAIN Steps : Steps[j].from \in near[n - 1]}}
        IN  near

Connects(path) ==
  /\ \A i \in DOMAIN path : path[i].from = IF i = 1 THEN source ELSE path[i - 1].to
  /\ EndOf(path) = target /\ Len(path) <= maxHops
  /\ Cardinality(TablesOn(path)) = Len(path) + 1

\* Every path found joins the two tables in at most max_hops joins, through no
\* table twice, and no path is found twice; shortest_path finds one exactly when
\* there is one, and no other is shorter; all_paths finds one exactly when there
\* is one (joins.py:97-166).
PathsRight ==
  over =>
    /\ \A i \in DOMAIN paths : Connects(paths[i])
    /\ IsInjective(paths)
    /\ paths # << >> <=> target \in Near[maxHops]
    /\ search = "shortest" =>
         \A i \in DOMAIN paths :
           i = 1 /\ \A n \in 0..Len(paths[i]) : n < Len(paths[i]) => target \notin Near[n]
    /\ search = "all" =>
         /\ Len(paths) <= Enough
         /\ \A i, j \in DOMAIN paths : i < j => Len(paths[i]) <= Len(paths[j])
================================================================================
