--------------------------- MODULE KnowledgeGraph ---------------------------
(***************************************************************************)
(* Who owns which code path: knowledge_graph/ingest_github.py writes the   *)
(* claims of CODEOWNERS files and runbooks into the graph, one transaction *)
(* for a file, and owning_team of query.py answers from what is committed. *)
(* Every name is one entity, whether a team bears it or a code path.       *)
(*                                                                         *)
(* How a pattern relates to a path, and the length of a pattern, are given *)
(* as tables: the module says nothing about characters.                    *)
(***************************************************************************)
EXTENDS Integers, Sequences, FiniteSets

CONSTANTS
  Source,         \* the files that are ingested
  Text,           \* what a file may say: sequences of lines
  Name,           \* the names of teams and the patterns of code paths
  Path,           \* the paths that are asked about
  Rule,           \* by which rule a path matches a pattern, if it does
  Length          \* how long a pattern is

Line == [pattern : Name, owner : Name]

ASSUME KnowledgeGraphAssumption ==
  /\ Text \subseteq Seq(Line)
  /\ Rule \in [Path \X Name -> {"exact", "prefix", "inside", "glob", "none"}]
  /\ Length \in [Name -> Nat]

NoSource == "no source"
ASSUME NoSourceAssumption == NoSource \notin Source

(* None, which is nobody's name. *)
Nobody == "nobody"
ASSUME NobodyAssumption == Nobody \notin Name

Edge == [from : Name, to : Name]

(* The tables: the type of every entity, the edges of type owns, and which *)
(* of two rows has the smaller rowid.                                      *)
Graph == [type : [Name -> {"absent", "team", "codepath"}],
          edges : SUBSET Edge, older : SUBSET (Edge \X Edge)]

VARIABLES
  text,           \* what each file says now
  db,             \* the committed graph
  work,           \* the graph as the transaction in progress sees it
  ingesting,      \* the file that is being ingested
  reading,        \* its text as it was read
  written,        \* how many lines of that are written
  claimed         \* the lines of every text that was ingested to the end

vars == <<text, db, work, ingesting, reading, written, claimed>>

EmptyGraph == [type |-> [n \in Name |-> "absent"], edges |-> {}, older |-> {}]

Lines(s) == {s[i] : i \in 1 .. Len(s)}

Init ==
  /\ text \in [Source -> Text]
  /\ db = EmptyGraph
  /\ work = EmptyGraph
  /\ ingesting = NoSource
  /\ reading = <<>>
  /\ written = 0
  /\ claimed = {}

-----------------------------------------------------------------------------
(* Mutant: INSERT OR REPLACE. *)
replace_entity(type, name, entity_type) == [type EXCEPT ![name] = entity_type]

(* _upsert_entity: INSERT OR IGNORE on the unique name. *)
upsert_entity(type, name, entity_type) ==
  IF type[name] = "absent" THEN [type EXCEPT ![name] = entity_type] ELSE type

(* _upsert_edge: INSERT OR REPLACE takes the old row out and adds a row at *)
(* the end.                                                                *)
upsert_edge(g, e) ==
  [type |-> g.type, edges |-> g.edges \cup {e},
   older |-> {p \in g.older : p[1] # e /\ p[2] # e}
             \cup {<<f, e>> : f \in g.edges \ {e}}]

Written(g, line) ==
  LET typed == [g EXCEPT !.type =
                  upsert_entity(upsert_entity(@, line.owner, "team"),
                                line.pattern, "codepath")]
  IN  upsert_edge(typed, [from |-> line.owner, to |-> line.pattern])

(* Somebody edits a file. *)
Edit(source) ==
  /\ \E t \in Text : text' = [text EXCEPT ![source] = t]
  /\ UNCHANGED <<db, work, ingesting, reading, written, claimed>>

(* ingest_codeowners, ingest_runbook: the text is read and parsed, *)
Begin(source) ==
  /\ ingesting = NoSource
  /\ ingesting' = source
  /\ reading' = text[source]
  /\ written' = 0
  /\ work' = db
  /\ UNCHANGED <<text, db, claimed>>

(* Mutant: its lines are written and committed one by one. *)
WriteAndCommitLine ==
  /\ ingesting # NoSource
  /\ written < Len(reading)
  /\ work' = Written(work, reading[written + 1])
  /\ db' = work'
  /\ written' = written + 1
  /\ UNCHANGED <<text, ingesting, reading, claimed>>

(* its lines are written, *)
WriteLine ==
  /\ ingesting # NoSource
  /\ written < Len(reading)
  /\ work' = Written(work, reading[written + 1])
  /\ written' = written + 1
  /\ UNCHANGED <<text, db, ingesting, reading, claimed>>

(* and committed together.  `claimed' is a history variable. *)
Commit ==
  /\ ingesting # NoSource
  /\ written = Len(reading)
  /\ db' = work
  /\ claimed' = claimed \cup Lines(reading)
  /\ ingesting' = NoSource
  /\ reading' = <<>>
  /\ written' = 0
  /\ UNCHANGED <<text, work>>

(* The process ends before it has committed. *)
Crash ==
  /\ ingesting # NoSource
  /\ work' = db
  /\ ingesting' = NoSource
  /\ reading' = <<>>
  /\ written' = 0
  /\ UNCHANGED <<text, db, claimed>>

Next ==
  \/ WriteLine \/ Commit \/ Crash
  \/ \E source \in Source : Edit(source) \/ Begin(source)

Spec == Init /\ [][Next]_vars
-----------------------------------------------------------------------------
(* _matches *)
Matches(path, pattern) == Rule[<<path, pattern>>] # "none"

(* owning_team: among the owns rows of teams whose path matches, the first *)
(* of those with the longest path, in the order of the rows.               *)
Claims(g, path) ==
  {e \in g.edges : g.type[e.from] = "team" /\ Matches(path, e.to)}

(* Mutant: the first row that matches. *)
First(g, path) ==
  CHOOSE e \in Claims(g, path) :
    \A f \in Claims(g, path) \ {e} : <<e, f>> \in g.older

Best(g, path) ==
  CHOOSE e \in Claims(g, path) :
    \A f \in Claims(g, path) \ {e} :
      \/ Length[f.to] < Length[e.to]
      \/ Length[f.to] = Length[e.to] /\ <<e, f>> \in g.older

owning_team(path) == IF Claims(db, path) = {} THEN Nobody ELSE Best(db, path).from

-----------------------------------------------------------------------------
TypeOK ==
  /\ text \in [Source -> Text]
  /\ db \in Graph
  /\ work \in Graph
  /\ ingesting \in Source \cup {NoSource}
  /\ reading \in Seq(Line)
  /\ written \in 0 .. Len(reading)
  /\ claimed \subseteq Line

EdgeOf(line) == [from |-> line.owner, to |-> line.pattern]

(* Ingesting a file is all or nothing: whatever crashes and whatever is    *)
(* edited meanwhile, the committed edges are the lines of the texts that   *)
(* were ingested to the end, with no half of a file among them.            *)
FileIsWhole == db.edges = {EdgeOf(line) : line \in claimed}

(* Ingesting a file again makes no second row of an edge, and the rows are *)
(* always in one order, so that every question has one answer.             *)
RowsAreOrdered ==
  \A e, f \in db.edges :
    IF e = f THEN <<e, f>> \notin db.older
    ELSE (<<e, f>> \in db.older) # (<<f, e>> \in db.older)

(* A path is nobody's only when no text that was ingested claims it for a  *)
(* team, and otherwise it belongs to one whose claim is among the longest. *)
OwnerHasALongestClaim ==
  \A path \in Path :
    LET fit == {line \in claimed :
                  Matches(path, line.pattern) /\ db.type[line.owner] = "team"}
    IN  IF fit = {} THEN owning_team(path) = Nobody
        ELSE \E line \in fit :
               /\ owning_team(path) = line.owner
               /\ \A other \in fit : Length[other.pattern] <= Length[line.pattern]

(* Once somebody owns a path, nothing that is ingested makes it nobody's.  *)
NeverDisowned ==
  [][\A path \in Path : owning_team(path) # Nobody => owning_team(path)' # Nobody]_vars

(* "Both produce (team_entity) --owns--> (codepath_entity) edges".  Not    *)
(* kept: a name is one entity with the type it got first.                  *)
TeamsOwnCodepaths ==
  \A e \in db.edges : db.type[e.from] = "team" /\ db.type[e.to] = "codepath"

(* "Matching rules (applied in priority order)": exact, prefix, glob.  Not *)
(* kept: only the length of the pattern counts (instance: Glob... of the   *)
(* MC module).                                                             *)
Priority == [exact |-> 1, prefix |-> 2, glob |-> 3, inside |-> 4]

RulesInPriorityOrder ==
  \A path \in Path : Claims(db, path) # {} =>
    \A e \in Claims(db, path) :
      Priority[Rule[path, Best(db, path).to]] <= Priority[Rule[path, e.to]]
=============================================================================
