------------------------ MODULE KnowledgeGraphProofs ------------------------
(***************************************************************************)
(* Proofs about KnowledgeGraph, for any files, any names and any rule of   *)
(* matching.                                                               *)
(***************************************************************************)
EXTENDS KnowledgeGraph, WellFoundedInduction, TLAPS

(* The rows of a graph are in one order. *)
Ordered(g) ==
  \A e, f \in g.edges :
    IF e = f THEN <<e, f>> \notin g.older
    ELSE (<<e, f>> \in g.older) # (<<f, e>> \in g.older)

Typed(g, line) ==
  upsert_entity(upsert_entity(g.type, line.owner, "team"), line.pattern, "codepath")

(* What writing a line makes of each table. *)
LEMMA WrittenFields ==
  ASSUME NEW g \in Graph, NEW line \in Line
  PROVE  LET e == EdgeOf(line) IN
         Written(g, line) =
           [type |-> Typed(g, line),
            edges |-> g.edges \cup {e},
            older |-> {p \in g.older : p[1] # e /\ p[2] # e}
                      \cup {<<f, e>> : f \in g.edges \ {e}}]
  <1> DEFINE e == EdgeOf(line)
             typed == [g EXCEPT !.type =
                         upsert_entity(upsert_entity(@, line.owner, "team"),
                                       line.pattern, "codepath")]
  <1>1. g = [type |-> g.type, edges |-> g.edges, older |-> g.older]
    BY DEF Graph
  <1>2. typed = [type |-> Typed(g, line), edges |-> g.edges, older |-> g.older]
    BY <1>1 DEF Typed
  <1>3. Written(g, line) = upsert_edge(typed, e)
    BY DEF Written, EdgeOf
  <1> QED
    BY <1>2, <1>3 DEF upsert_edge

LEMMA TypedTypes ==
  ASSUME NEW g \in Graph, NEW line \in Line
  PROVE  Typed(g, line) \in [Name -> {"absent", "team", "codepath"}]
  BY DEF Typed, upsert_entity, Graph, Line

LEMMA WrittenGraph ==
  ASSUME NEW g \in Graph, NEW line \in Line
  PROVE  Written(g, line) \in Graph
  <1> DEFINE e == EdgeOf(line)
  <1>1. e \in Edge /\ g.edges \subseteq Edge
    BY DEF EdgeOf, Edge, Line, Graph
  <1>2. g.edges \cup {e} \in SUBSET Edge
    BY <1>1
  <1>3. {p \in g.older : p[1] # e /\ p[2] # e} \cup {<<f, e>> : f \in g.edges \ {e}}
          \in SUBSET (Edge \X Edge)
    BY <1>1 DEF Graph
  <1> QED
    BY <1>2, <1>3, WrittenFields, TypedTypes DEF Graph

(* A line adds its edge, *)
LEMMA WrittenEdges ==
  ASSUME NEW g \in Graph, NEW line \in Line
  PROVE  Written(g, line).edges = g.edges \cup {EdgeOf(line)}
  BY WrittenFields

(* behind all the others. *)
LEMMA WrittenOrdered ==
  ASSUME NEW g \in Graph, NEW line \in Line, Ordered(g)
  PROVE  Ordered(Written(g, line))
  <1> DEFINE e == EdgeOf(line)
             h == Written(g, line)
  <1>1. /\ h.edges = g.edges \cup {e}
        /\ h.older = {p \in g.older : p[1] # e /\ p[2] # e}
                     \cup {<<f, e>> : f \in g.edges \ {e}}
    BY WrittenFields
  <1> HIDE DEF e, h
  <1>2. ASSUME NEW a \in h.edges, NEW b \in h.edges
        PROVE  IF a = b THEN <<a, b>> \notin h.older
               ELSE (<<a, b>> \in h.older) # (<<b, a>> \in h.older)
    <2>1. CASE a # e /\ b # e
      <3>1. a \in g.edges /\ b \in g.edges
        BY <1>1, <2>1
      <3>2. /\ <<a, b>> \in h.older <=> <<a, b>> \in g.older
            /\ <<b, a>> \in h.older <=> <<b, a>> \in g.older
        BY <1>1, <2>1
      <3> QED
        BY <3>1, <3>2 DEF Ordered
    <2>2. CASE a = e /\ b = e
      BY <1>1, <2>2
    <2>3. CASE a = e /\ b # e
      BY <1>1, <2>3
    <2>4. CASE a # e /\ b = e
      BY <1>1, <2>4
    <2> QED
      BY <2>1, <2>2, <2>3, <2>4
  <1> QED
    BY <1>2 DEF Ordered, h

-----------------------------------------------------------------------------
LEMMA NextTypes ==
  ASSUME TypeOK, [Next]_vars
  PROVE  TypeOK'
  <1> USE DEF TypeOK
  <1>1. CASE UNCHANGED vars
    BY <1>1 DEF vars
  <1>2. ASSUME NEW source \in Source, Edit(source)
        PROVE  TypeOK'
    BY <1>2 DEF Edit
  <1>3. ASSUME NEW source \in Source, Begin(source)
        PROVE  TypeOK'
    <2>1. text[source] \in Seq(Line)
      BY KnowledgeGraphAssumption
    <2> QED
      BY <1>3, <2>1 DEF Begin
  <1>4. CASE WriteLine
    <2>1. reading[written + 1] \in Line /\ written + 1 \in 0 .. Len(reading)
      BY <1>4 DEF WriteLine
    <2>2. Written(work, reading[written + 1]) \in Graph
      BY <2>1, WrittenGraph
    <2> QED
      BY <1>4, <2>1, <2>2 DEF WriteLine
  <1>5. CASE Commit
    <2>1. Lines(reading) \subseteq Line
      BY DEF Lines
    <2> QED
      BY <1>5, <2>1 DEF Commit
  <1>6. CASE Crash
    BY <1>6 DEF Crash
  <1> QED
    BY <1>1, <1>2, <1>3, <1>4, <1>5, <1>6 DEF Next

(* The graph, committed or not, refers to names of the tables only. *)
THEOREM Typing == Spec => []TypeOK
  <1>1. Init => TypeOK
    BY KnowledgeGraphAssumption DEF Init, TypeOK, EmptyGraph, Graph
  <1> QED
    BY <1>1, NextTypes, PTL DEF Spec

-----------------------------------------------------------------------------
(* The inductive invariant: what the transaction sees beyond the committed *)
(* edges are the lines that it has written, and both graphs are in order.  *)
EdgesOf(lines) == {EdgeOf(line) : line \in lines}

WrittenLines == {reading[i] : i \in 1 .. written}

WholeInv ==
  /\ FileIsWhole
  /\ ingesting # NoSource => work.edges = EdgesOf(claimed \cup WrittenLines)
  /\ Ordered(db)
  /\ Ordered(work)

LEMMA InitWhole == Init => WholeInv
  BY NoSourceAssumption DEF Init, WholeInv, FileIsWhole, EmptyGraph, Ordered

LEMMA NextWhole ==
  ASSUME TypeOK, WholeInv, [Next]_vars
  PROVE  WholeInv'
  <1> USE DEF WholeInv
  <1>1. CASE UNCHANGED vars
    BY <1>1 DEF vars, FileIsWhole, WrittenLines, Ordered
  <1>2. ASSUME NEW source \in Source, Edit(source)
        PROVE  WholeInv'
    BY <1>2 DEF Edit, FileIsWhole, WrittenLines, Ordered
  <1>3. ASSUME NEW source \in Source, Begin(source)
        PROVE  WholeInv'
    <2>1. WrittenLines' = {}
      BY <1>3 DEF Begin, WrittenLines
    <2>2. work'.edges = EdgesOf(claimed' \cup WrittenLines')
      BY <1>3, <2>1 DEF Begin, FileIsWhole, EdgesOf
    <2> QED
      BY <1>3, <2>2 DEF Begin, FileIsWhole, Ordered
  <1>4. CASE WriteLine
    <2> DEFINE line == reading[written + 1]
    <2>1. line \in Line /\ work \in Graph /\ written \in Nat
      BY <1>4 DEF WriteLine, TypeOK
    <2>2. work'.edges = work.edges \cup {EdgeOf(line)} /\ Ordered(work)'
      BY <1>4, <2>1, WrittenEdges, WrittenOrdered DEF WriteLine, Ordered
    <2>3. WrittenLines' = WrittenLines \cup {line}
      BY <1>4, <2>1 DEF WriteLine, WrittenLines
    <2>4. work'.edges = EdgesOf(claimed \cup WrittenLines')
      BY <1>4, <2>2, <2>3 DEF WriteLine, EdgesOf
    <2> QED
      BY <1>4, <2>2, <2>4 DEF WriteLine, FileIsWhole, Ordered
  <1>5. CASE Commit
    <2>1. WrittenLines = Lines(reading)
      BY <1>5 DEF Commit, WrittenLines, Lines
    <2>2. FileIsWhole'
      BY <1>5, <2>1 DEF Commit, FileIsWhole, EdgesOf
    <2> QED
      BY <1>5, <2>2 DEF Commit, Ordered
  <1>6. CASE Crash
    BY <1>6 DEF Crash, FileIsWhole, Ordered
  <1> QED
    BY <1>1, <1>2, <1>3, <1>4, <1>5, <1>6 DEF Next

(* Ingestion is all or nothing for every file, wherever it is cut off. *)
THEOREM WholeFiles == Spec => []FileIsWhole
  <1>1. Spec => []WholeInv
    BY InitWhole, NextWhole, Typing, PTL DEF Spec
  <1>2. WholeInv => FileIsWhole
    BY DEF WholeInv
  <1> QED
    BY <1>1, <1>2, PTL

(* However often files are ingested again, each edge has one row and the   *)
(* rows one order.                                                         *)
THEOREM OrderedRows == Spec => []RowsAreOrdered
  <1>1. Spec => []WholeInv
    BY InitWhole, NextWhole, Typing, PTL DEF Spec
  <1>2. WholeInv => RowsAreOrdered
    BY DEF WholeInv, RowsAreOrdered, Ordered
  <1> QED
    BY <1>1, <1>2, PTL

-----------------------------------------------------------------------------
(* The rows of a graph can be numbered in their order, and there is a      *)
(* longest pattern.                                                        *)
Ranks(g, row, bound) ==
  /\ \A e \in g.edges : row[e] <= bound /\ Length[e.to] <= bound
  /\ \A e, f \in g.edges : /\ row[e] = row[f] => e = f
                           /\ <<e, f>> \in g.older <=> row[e] < row[f]

Ranked(g) == \E row \in [Edge -> Nat] : \E bound \in Nat : Ranks(g, row, bound)

LEMMA SmallestExists ==
  ASSUME NEW S \in SUBSET Nat, S # {}
  PROVE  \E x \in S : \A y \in S : x <= y
  <1> DEFINE R == {p \in Nat \X Nat : p[1] < p[2]}
  <1>1. IsWellFoundedOn(R, Nat)
    BY NatLessThanWellFounded DEF OpToRel
  <1>2. PICK x \in S : \A y \in S : <<y, x>> \notin R
    BY <1>1, WFMin
  <1>3. ASSUME NEW y \in S PROVE x <= y
    <2> HIDE DEF R
    <2>1. <<y, x>> \notin R
      BY <1>2
    <2>2. <<y, x>> \in Nat \X Nat /\ ~(<<y, x>>[1] < <<y, x>>[2])
      BY <2>1 DEF R
    <2> QED
      BY <2>2
  <1> QED
    BY <1>2, <1>3

(* The row of a line, new or moved to the end, gets the next number. *)
LEMMA WrittenRanked ==
  ASSUME NEW g \in Graph, NEW line \in Line, Ranked(g)
  PROVE  Ranked(Written(g, line))
  <1> DEFINE e == EdgeOf(line)
             h == Written(g, line)
  <1>1. PICK row \in [Edge -> Nat], bound \in Nat : Ranks(g, row, bound)
    BY DEF Ranked
  <1>2. /\ h.edges = g.edges \cup {e}
        /\ h.older = {p \in g.older : p[1] # e /\ p[2] # e}
                     \cup {<<f, e>> : f \in g.edges \ {e}}
    BY WrittenFields
  <1>3. e \in Edge /\ g.edges \subseteq Edge /\ e.to \in Name
    BY DEF EdgeOf, Edge, Line, Graph
  <1>4. Length[e.to] \in Nat
    BY <1>3, KnowledgeGraphAssumption
  <1> HIDE DEF e, h
  <1> DEFINE next  == [row EXCEPT ![e] = bound + 1]
             above == bound + 1 + Length[e.to]
  <1>5. /\ next \in [Edge -> Nat] /\ above \in Nat
        /\ \A f \in Edge : next[f] = IF f = e THEN bound + 1 ELSE row[f]
    BY <1>3, <1>4
  <1>6. \A f \in g.edges : row[f] \in Nat /\ row[f] <= bound
    BY <1>1, <1>3 DEF Ranks
  <1>7. ASSUME NEW f \in h.edges
        PROVE  next[f] <= above /\ Length[f.to] <= above
    <2>1. CASE f = e
      BY <1>3, <1>4, <1>5, <2>1
    <2>2. CASE f # e
      <3>1. f \in g.edges /\ f \in Edge /\ f.to \in Name
        BY <1>2, <1>3, <2>2 DEF Edge
      <3>2. Length[f.to] \in Nat /\ Length[f.to] <= bound
        BY <1>1, <3>1, KnowledgeGraphAssumption DEF Ranks
      <3> QED
        BY <1>4, <1>5, <1>6, <2>2, <3>1, <3>2
    <2> QED
      BY <2>1, <2>2
  <1>8. ASSUME NEW a \in h.edges, NEW b \in h.edges
        PROVE  /\ next[a] = next[b] => a = b
               /\ <<a, b>> \in h.older <=> next[a] < next[b]
    <2>1. a \in Edge /\ b \in Edge
      BY <1>2, <1>3
    <2>2. CASE a # e /\ b # e
      <3>1. a \in g.edges /\ b \in g.edges /\ next[a] = row[a] /\ next[b] = row[b]
        BY <1>2, <1>5, <2>1, <2>2
      <3>2. <<a, b>> \in h.older <=> <<a, b>> \in g.older
        BY <1>2, <2>2
      <3> QED
        BY <1>1, <3>1, <3>2 DEF Ranks
    <2>3. CASE a = e
      <3>1. <<a, b>> \notin h.older
        BY <1>2, <2>3
      <3>2. b # e => b \in g.edges
        BY <1>2
      <3>3. next[a] = bound + 1 /\ next[b] \in Nat /\ (b # e => next[b] <= bound)
        BY <1>5, <1>6, <2>1, <2>3, <3>2
      <3> QED
        BY <2>3, <3>1, <3>3
    <2>4. CASE a # e /\ b = e
      <3>1. a \in g.edges
        BY <1>2, <2>4
      <3>2. <<a, b>> \in h.older
        BY <1>2, <2>4, <3>1
      <3>3. next[b] = bound + 1 /\ next[a] \in Nat /\ next[a] <= bound
        BY <1>5, <1>6, <2>1, <2>4, <3>1
      <3> QED
        BY <2>4, <3>2, <3>3
    <2> QED
      BY <2>2, <2>3, <2>4
  <1> HIDE DEF next, above
  <1>9. Ranks(h, next, above)
    BY <1>7, <1>8 DEF Ranks
  <1> QED
    BY <1>5, <1>9 DEF Ranked, h

(* So among the claims to a path there is a best one, which is longest. *)
LEMMA BestExists ==
  ASSUME NEW g \in Graph, Ranked(g), NEW path, Claims(g, path) # {}
  PROVE  /\ Best(g, path) \in Claims(g, path)
         /\ \A f \in Claims(g, path) : Length[f.to] <= Length[Best(g, path).to]
  <1> DEFINE C == Claims(g, path)
  <1>1. PICK row \in [Edge -> Nat], bound \in Nat : Ranks(g, row, bound)
    BY DEF Ranked
  <1>2. \A f \in C : /\ f \in g.edges /\ f \in Edge /\ row[f] \in Nat
                     /\ Length[f.to] \in Nat /\ Length[f.to] <= bound
    BY <1>1, KnowledgeGraphAssumption DEF Claims, Graph, Edge, Ranks
  <1> DEFINE Short == {bound - Length[f.to] : f \in C}
  <1>3. Short \in SUBSET Nat /\ Short # {}
    BY <1>2
  <1>4. PICK short \in Short : \A y \in Short : short <= y
    BY <1>3, SmallestExists
  <1> DEFINE Longest == {f \in C : bound - Length[f.to] = short}
             Rows == {row[f] : f \in Longest}
  <1>5. Rows \in SUBSET Nat /\ Rows # {}
    BY <1>2, <1>4
  <1>6. PICK first \in Rows : \A y \in Rows : first <= y
    BY <1>5, SmallestExists
  <1>7. PICK e \in Longest : row[e] = first
    BY <1>6
  <1>8. ASSUME NEW f \in C
        PROVE  /\ Length[f.to] <= Length[e.to]
               /\ f # e /\ Length[f.to] = Length[e.to] => <<e, f>> \in g.older
    <2>1. short <= bound - Length[f.to] /\ bound - Length[e.to] = short /\ e \in C
      BY <1>4, <1>7
    <2>2. Length[f.to] <= Length[e.to]
      BY <1>2, <2>1
    <2>3. ASSUME f # e, Length[f.to] = Length[e.to] PROVE <<e, f>> \in g.older
      <3>1. f \in Longest
        BY <2>1, <2>3
      <3>2. row[e] <= row[f]
        BY <1>6, <1>7, <3>1
      <3>3. row[e] # row[f]
        BY <1>1, <1>2, <2>1, <2>3 DEF Ranks
      <3>4. row[e] < row[f]
        BY <1>2, <2>1, <3>2, <3>3
      <3> QED
        BY <1>1, <1>2, <2>1, <3>4 DEF Ranks
    <2> QED
      BY <2>2, <2>3
  <1>9. e \in C /\ \A f \in C \ {e} : \/ Length[f.to] < Length[e.to]
                                      \/ /\ Length[f.to] = Length[e.to]
                                         /\ <<e, f>> \in g.older
    BY <1>2, <1>7, <1>8
  <1> DEFINE best == Best(g, path)
  <1>10. best \in C /\ \A f \in C \ {best} : \/ Length[f.to] < Length[best.to]
                                             \/ /\ Length[f.to] = Length[best.to]
                                                /\ <<best, f>> \in g.older
    <2> HIDE DEF C
    <2> QED
      BY <1>9 DEF Best, C
  <1> HIDE DEF best
  <1>11. ASSUME NEW f \in C PROVE Length[f.to] <= Length[best.to]
    <2>1. Length[f.to] \in Nat /\ Length[best.to] \in Nat
      BY <1>2, <1>10
    <2>2. CASE f = best
      BY <2>1, <2>2
    <2>3. CASE f # best
      <3> HIDE DEF C
      <3>1. f \in C \ {best}
        BY <2>3
      <3>2. Length[f.to] < Length[best.to] \/ Length[f.to] = Length[best.to]
        BY <1>10, <3>1
      <3> QED
        BY <2>1, <3>2
    <2> QED
      BY <2>2, <2>3
  <1> QED
    BY <1>10, <1>11 DEF best

-----------------------------------------------------------------------------
(* A graph that has gone on from another: no edge is gone, and no name has *)
(* lost its type.                                                          *)
GoesOn(g, h) ==
  /\ g.edges \subseteq h.edges
  /\ \A n \in Name : g.type[n] # "absent" => h.type[n] = g.type[n]

LEMMA WrittenGoesOn ==
  ASSUME NEW g \in Graph, NEW h \in Graph, NEW line \in Line, GoesOn(g, h)
  PROVE  GoesOn(g, Written(h, line))
  <1>1. Written(h, line).edges = h.edges \cup {EdgeOf(line)}
        /\ Written(h, line).type = Typed(h, line)
    BY WrittenFields
  <1>2. \A n \in Name : h.type[n] # "absent" => Typed(h, line)[n] = h.type[n]
    BY DEF Typed, upsert_entity, Graph, Line
  <1> QED
    BY <1>1, <1>2 DEF GoesOn

RankInv ==
  /\ Ranked(db) /\ Ranked(work)
  /\ ingesting # NoSource => GoesOn(db, work)

LEMMA InitRank == Init => RankInv
  <1> SUFFICES ASSUME Init PROVE RankInv
    OBVIOUS
  <1>1. [e \in Edge |-> 0] \in [Edge -> Nat] /\ 0 \in Nat
        /\ Ranks(EmptyGraph, [e \in Edge |-> 0], 0)
    BY DEF Ranks, EmptyGraph
  <1>2. Ranked(EmptyGraph)
    BY <1>1 DEF Ranked
  <1> QED
    BY <1>2 DEF Init, RankInv

LEMMA NextRank ==
  ASSUME TypeOK, RankInv, [Next]_vars
  PROVE  RankInv' /\ (db' = db \/ GoesOn(db, db'))
  <1>1. CASE UNCHANGED <<db, work, ingesting>>
    BY <1>1 DEF RankInv, Ranked, GoesOn
  <1>2. ASSUME NEW source \in Source, Begin(source)
        PROVE  RankInv' /\ db' = db
    BY <1>2 DEF Begin, RankInv, Ranked, GoesOn
  <1>3. CASE WriteLine
    <2>1. reading[written + 1] \in Line /\ work \in Graph /\ db \in Graph
      BY <1>3 DEF WriteLine, TypeOK
    <2>2. /\ work' = Written(work, reading[written + 1])
          /\ UNCHANGED <<db, ingesting>> /\ GoesOn(db, work) /\ Ranked(work) /\ Ranked(db)
      BY <1>3 DEF WriteLine, RankInv
    <2>3. Ranked(Written(work, reading[written + 1]))
          /\ GoesOn(db, Written(work, reading[written + 1]))
      BY <2>1, <2>2, WrittenRanked, WrittenGoesOn
    <2>4. Ranked(work)' /\ Ranked(db)' /\ GoesOn(db, work)'
      BY <2>2, <2>3 DEF Ranked, GoesOn
    <2> QED
      BY <2>2, <2>4 DEF RankInv
  <1>4. CASE Commit
    <2>1. /\ db' = work /\ work' = work /\ ingesting' = NoSource
          /\ GoesOn(db, work) /\ Ranked(work)
      BY <1>4 DEF Commit, RankInv
    <2>2. Ranked(work)' /\ Ranked(db)'
      BY <2>1 DEF Ranked
    <2> QED
      BY <2>1, <2>2 DEF RankInv
  <1>5. CASE Crash
    BY <1>5 DEF Crash, RankInv, Ranked
  <1> QED
    BY <1>1, <1>2, <1>3, <1>4, <1>5 DEF Next, vars, Edit

LEMMA RankHolds == Spec => []RankInv
  BY InitRank, NextRank, Typing, PTL DEF Spec

(* owning_team has an answer whenever a team claims the path, and it is a  *)
(* team with one of the longest claims, whatever was ingested and however  *)
(* often rows were replaced.                                               *)
THEOREM LongestClaim == Spec => []OwnerHasALongestClaim
  <1>1. TypeOK /\ FileIsWhole /\ RankInv => OwnerHasALongestClaim
    <2> SUFFICES ASSUME TypeOK, FileIsWhole, RankInv, NEW path \in Path
                 PROVE  LET fit == {line \in claimed :
                                      /\ Matches(path, line.pattern)
                                      /\ db.type[line.owner] = "team"}
                        IN  IF fit = {} THEN owning_team(path) = Nobody
                            ELSE \E line \in fit :
                                   /\ owning_team(path) = line.owner
                                   /\ \A other \in fit :
                                        Length[other.pattern] <= Length[line.pattern]
      BY DEF OwnerHasALongestClaim
    <2> DEFINE fit == {line \in claimed :
                         Matches(path, line.pattern) /\ db.type[line.owner] = "team"}
    <2>1. db \in Graph /\ Ranked(db) /\ db.edges = {EdgeOf(line) : line \in claimed}
      BY DEF TypeOK, RankInv, FileIsWhole
    <2>2. Claims(db, path) = {EdgeOf(line) : line \in fit}
      BY <2>1 DEF Claims, EdgeOf
    <2>3. CASE fit = {}
      BY <2>2, <2>3 DEF owning_team
    <2>4. CASE fit # {}
      <3>1. /\ Claims(db, path) # {}
            /\ Best(db, path) \in Claims(db, path)
            /\ \A f \in Claims(db, path) : Length[f.to] <= Length[Best(db, path).to]
        BY <2>1, <2>2, <2>4, BestExists
      <3>2. PICK line \in fit : Best(db, path) = EdgeOf(line)
        BY <2>2, <3>1
      <3>3. owning_team(path) = line.owner /\ Best(db, path).to = line.pattern
        BY <3>1, <3>2 DEF owning_team, EdgeOf
      <3>4. ASSUME NEW other \in fit
            PROVE  Length[other.pattern] <= Length[line.pattern]
        <4>1. EdgeOf(other) \in Claims(db, path) /\ EdgeOf(other).to = other.pattern
          BY <2>2 DEF EdgeOf
        <4> QED
          BY <3>1, <3>3, <4>1
      <3> QED
        BY <2>4, <3>3, <3>4
    <2> QED
      BY <2>3, <2>4
  <1> QED
    BY <1>1, Typing, WholeFiles, RankHolds, PTL

(* Nothing that is ingested leaves an owned path to nobody: edges stay, a  *)
(* name keeps the type it got first, and among the claims there is always  *)
(* a best one.                                                             *)
THEOREM StaysOwned == Spec => NeverDisowned
  <1>1. TypeOK /\ TypeOK' /\ RankInv /\ RankInv' /\ [Next]_vars =>
          [\A path \in Path : owning_team(path) # Nobody => owning_team(path)' # Nobody]_vars
    <2> SUFFICES ASSUME TypeOK, TypeOK', RankInv, RankInv', [Next]_vars,
                        NEW path \in Path, owning_team(path) # Nobody
                 PROVE  owning_team(path)' # Nobody
      OBVIOUS
    <2>1. db \in Graph /\ Claims(db, path) # {}
      BY DEF TypeOK, owning_team
    <2>2. CASE db' = db
      BY <2>2 DEF owning_team, Claims, Best
    <2>3. CASE GoesOn(db, db')
      <3>1. \A e \in db.edges : e.from \in Name
        BY <2>1 DEF Graph, Edge
      <3>2. Claims(db, path) \subseteq Claims(db', path)
        BY <2>3, <3>1 DEF Claims, GoesOn
      <3>3. db' \in Graph /\ Ranked(db')
        BY DEF TypeOK, RankInv, Ranked
      <3>4. Claims(db', path) # {}
        BY <2>1, <3>2
      <3>5. Best(db', path) \in Claims(db', path)
        BY <3>3, <3>4, BestExists
      <3>6. Best(db', path).from \in Name
        BY <3>3, <3>5 DEF Claims, Graph, Edge
      <3>7. owning_team(path)' = Best(db', path).from
        BY <3>4 DEF owning_team, Claims, Best
      <3> QED
        BY <3>6, <3>7, NobodyAssumption
    <2> QED
      BY <2>2, <2>3, NextRank
  <1> QED
    BY <1>1, Typing, RankHolds, PTL DEF Spec, NeverDisowned

=============================================================================
