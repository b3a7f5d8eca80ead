---------------------------- MODULE GatewayProofs ----------------------------
(***************************************************************************)
(* Proofs about Gateway, for any requests, whatever they ask for, and any  *)
(* number of threads.                                                      *)
(***************************************************************************)
EXTENDS Gateway, TLAPS

(* What each step of a handler needs of the run so far, and leaves of it.  *)
Phase(r) ==
  /\ at[r] \in {"new", "refused", "lost"} => status[r] = "none" /\ ~worker[r]
  /\ at[r] \in {"built", "registered"} => status[r] = "running" /\ ~worker[r]
  /\ at[r] = "crashed" => ~worker[r]
  /\ at[r] \in {"started", "answered"} =>
       worker[r] = (status[r] = "running") /\ status[r] # "none"

Places == {"new", "refused", "built", "registered", "started", "answered",
           "crashed", "lost"}

PhaseInv ==
  /\ at \in [Request -> Places]
  /\ status \in [Request -> {"none", "running", "done", "error"}]
  /\ worker \in [Request -> BOOLEAN]
  /\ \A r \in Request : Phase(r)

LEMMA InitPhase == Init => PhaseInv
  BY DEF Init, PhaseInv, Phase, Places

(* A step that only moves r, from one phase to the next. *)
LEMMA NextPhase ==
  ASSUME PhaseInv, [Next]_vars
  PROVE  PhaseInv'
  <1> USE DEF PhaseInv, Places
  <1>1. CASE List \/ UNCHANGED vars
    BY <1>1 DEF List, ListBegin, ListNext, ListEnd, vars, Phase
  <1>2. CASE Restart
    BY <1>2 DEF Restart, Phase
  <1>3. ASSUME NEW r \in Request, Refuse(r) \/ NewRun(r) \/ Register(r) \/ Answer(r)
        PROVE  PhaseInv'
    <2>1. CASE Refuse(r)
      BY <2>1 DEF Refuse, Phase
    <2>2. CASE NewRun(r)
      BY <2>2 DEF NewRun, Phase
    <2>3. CASE Register(r)
      <3>1. at[r] = "built" /\ at' = [at EXCEPT ![r] = "registered"]
        BY <2>3 DEF Register
      <3>2. UNCHANGED <<status, worker>>
        BY <2>3 DEF Register
      <3> QED
        BY <3>1, <3>2 DEF Phase
    <2>4. CASE Answer(r)
      BY <2>4 DEF Answer, Phase
    <2> QED
      BY <1>3, <2>1, <2>2, <2>3, <2>4
  <1>4. ASSUME NEW r \in Request, Start(r)
        PROVE  PhaseInv'
    <2>1. CASE Cardinality(Workers) < MaxThreads
      BY <1>4, <2>1 DEF Start, Phase
    <2>2. CASE ~(Cardinality(Workers) < MaxThreads)
      BY <1>4, <2>2 DEF Start, Phase
    <2> QED
      BY <2>1, <2>2
  <1>5. ASSUME NEW r \in Request, Execute(r)
        PROVE  PhaseInv'
    <2>1. at[r] \in {"started", "answered"}
      BY <1>5 DEF Execute, Phase
    <2>2. UNCHANGED at /\ worker' = [worker EXCEPT ![r] = FALSE]
      BY <1>5 DEF Execute
    <2>3. \/ status' = [status EXCEPT ![r] = "done"]
          \/ status' = [status EXCEPT ![r] = "error"]
      BY <1>5 DEF Execute
    <2> QED
      BY <2>1, <2>2, <2>3 DEF Phase
  <1> QED
    BY <1>1, <1>2, <1>3, <1>4, <1>5 DEF Next, Handle

-----------------------------------------------------------------------------
(* No request enters its run while the table is being listed. *)
THEOREM SafeListing == Spec => ListingIsSafe
  <1>1. ASSUME [Next]_vars
        PROVE  [lock = Lister /\ lock' = Lister => table' = table]_vars
    BY <1>1 DEF Next, Handle, List, Refuse, NewRun, Register, Start, Answer, Execute,
       ListBegin, ListNext, ListEnd, Restart, vars, Lister, Nobody
  <1> QED
    BY <1>1, PTL DEF Spec, ListingIsSafe

-----------------------------------------------------------------------------
LEMMA FirstHit ==
  ASSUME NEW words, Hits(words) # {}
  PROVE  \E i \in Hits(words) : \A j \in Hits(words) : i <= j
  <1>1. Len(Mapping) = 5
    BY DEF Mapping
  <1>2. Hits(words) \subseteq {1, 2, 3, 4, 5}
    BY <1>1 DEF Hits
  <1> QED
    BY <1>2

(* Whatever its labels, components and custom field are. *)
LEMMA JiraTeam ==
  ASSUME NEW words, NEW custom
  PROVE  team_from_jira_fields(words, custom) \in IMPLEMENTED
  <1>1. CASE Hits(words) = {}
    BY <1>1 DEF team_from_jira_fields, IMPLEMENTED
  <1>2. CASE Hits(words) # {}
    <2> DEFINE first == CHOOSE i \in Hits(words) : \A j \in Hits(words) : i <= j
    <2>1. first \in Hits(words)
      BY <1>2, FirstHit
    <2>2. first \in {1, 2, 3, 4, 5}
      <3>1. Len(Mapping) = 5
        BY DEF Mapping
      <3> QED
        BY <2>1, <3>1 DEF Hits
    <2>3. Mapping[first][1] \in IMPLEMENTED
      <3> HIDE DEF first
      <3> QED
        BY <2>2 DEF Mapping, IMPLEMENTED
    <2> QED
      BY <1>2, <2>3 DEF team_from_jira_fields
  <1> QED
    BY <1>1, <1>2

JiraInv ==
  /\ ask \in [Request -> Ask]
  /\ failed \in [Request -> {"no", "run", "team"}]
  /\ JiraFindsAnAgent

(* A run fails for want of an agent only if its request named a team. *)
LEMMA NamedTeam ==
  ASSUME ask \in [Request -> Ask], NEW r \in Request, TeamOf(r) \notin IMPLEMENTED,
         TeamOf(r) # ""
  PROVE  ask[r].kind # "demo" /\ ask[r].team # ""
  <1>1. ask[r].kind \in {"ticket", "demo", "jira"}
    BY GatewayAssumption
  <1>2. ask[r].kind # "demo"
    BY DEF TeamOf, IMPLEMENTED
  <1>3. CASE ask[r].kind = "ticket"
    BY <1>2, <1>3 DEF TeamOf
  <1>4. CASE ask[r].kind = "jira"
    BY <1>2, <1>4, JiraTeam DEF TeamOf
  <1> QED
    BY <1>1, <1>2, <1>3, <1>4

LEMMA ExecuteJira ==
  ASSUME JiraInv, NEW r \in Request, Execute(r), TeamOf(r) # ""
  PROVE  JiraInv'
  <1> USE DEF JiraInv, JiraFindsAnAgent
  <1>1. UNCHANGED ask
    BY DEF Execute
  <1>2. UNCHANGED failed \/ \E why \in {"run", "team"} :
                              /\ failed' = [failed EXCEPT ![r] = why]
                              /\ why = "team" => TeamOf(r) \notin IMPLEMENTED
    BY DEF Execute
  <1>3. CASE UNCHANGED failed
    BY <1>1, <1>3
  <1>4. ASSUME NEW why \in {"run", "team"},
               failed' = [failed EXCEPT ![r] = why],
               why = "team" => TeamOf(r) \notin IMPLEMENTED
        PROVE  JiraInv'
    <2>1. why = "team" => ask[r].kind # "demo" /\ ask[r].team # ""
      BY <1>4, NamedTeam
    <2> QED
      BY <1>1, <1>4, <2>1
  <1> QED
    BY <1>2, <1>3, <1>4

-----------------------------------------------------------------------------
(* A worker runs for a request that was not refused. *)
HasTeam == \A r \in Request : at[r] \notin {"new", "refused", "lost"} => TeamOf(r) # ""

LEMMA NextJira ==
  ASSUME PhaseInv, HasTeam, JiraInv, [Next]_vars
  PROVE  HasTeam' /\ JiraInv'
  <1>1. UNCHANGED ask
    BY DEF Next, Handle, List, Refuse, NewRun, Register, Start, Answer, Execute,
       ListBegin, ListNext, ListEnd, Restart, vars
  <1>2. \A r \in Request : TeamOf(r)' = TeamOf(r)
    BY <1>1 DEF TeamOf
  <1>3. HasTeam'
    <2>1. ASSUME NEW r \in Request, at'[r] \notin {"new", "refused", "lost"},
                 TeamOf(r) = ""
          PROVE  FALSE
      <3>1. at[r] \in {"new", "refused", "lost"}
        BY <2>1 DEF HasTeam
      <3>2. CASE List \/ UNCHANGED vars
        BY <2>1, <3>1, <3>2 DEF List, ListBegin, ListNext, ListEnd, vars
      <3>3. CASE Restart
        BY <2>1, <3>1, <3>3 DEF Restart
      <3>4. ASSUME NEW s \in Request, Handle(s)
            PROVE  FALSE
        BY <2>1, <3>1, <3>4 DEF PhaseInv, Handle, Refuse, NewRun, Register, Start, Answer
      <3>5. ASSUME NEW s \in Request, Execute(s)
            PROVE  FALSE
        BY <2>1, <3>1, <3>5 DEF Execute
      <3> QED
        BY <3>2, <3>3, <3>4, <3>5 DEF Next
    <2> QED
      BY <1>2, <2>1 DEF HasTeam
  <1>4. JiraInv'
    <2>1. CASE List \/ UNCHANGED vars
      BY <2>1 DEF List, ListBegin, ListNext, ListEnd, vars, JiraInv, JiraFindsAnAgent
    <2>2. CASE Restart
      BY <1>1, <2>2 DEF Restart, JiraInv, JiraFindsAnAgent
    <2>3. ASSUME NEW r \in Request, Handle(r)
          PROVE  JiraInv'
      BY <2>3 DEF Handle, Refuse, NewRun, Register, Start, Answer, JiraInv, JiraFindsAnAgent
    <2>4. ASSUME NEW r \in Request, Execute(r)
          PROVE  JiraInv'
      <3>1. at[r] \notin {"new", "refused", "lost"}
        BY <2>4 DEF Execute, PhaseInv, Phase
      <3> QED
        BY <2>4, <3>1, ExecuteJira DEF HasTeam
    <2> QED
      BY <2>1, <2>2, <2>3, <2>4 DEF Next
  <1> QED
    BY <1>3, <1>4

(* An issue that names no team is run by an agent, whatever its labels,    *)
(* components and fields say.                                              *)
THEOREM JiraHasAnAgent == Spec => []JiraFindsAnAgent
  <1>1. Init => HasTeam /\ JiraInv
    BY DEF Init, HasTeam, JiraInv, JiraFindsAnAgent
  <1>2. JiraInv => JiraFindsAnAgent
    BY DEF JiraInv
  <1> QED
    BY <1>1, <1>2, InitPhase, NextPhase, NextJira, PTL DEF Spec

-----------------------------------------------------------------------------
(* A run in the table was entered, under its own id, and the ids of the    *)
(* requests that have entered a run are never taken out of the table.      *)
Entering == {"registered", "started", "answered", "crashed"}

Named ==
  /\ ask \in [Request -> Ask]
  /\ ticket = [r \in Request |-> ticket[r]]
  /\ \A r \in Request : at[r] \notin {"new", "refused"} => ticket[r] = IdOf(r)
  /\ \A r \in Request : at[r] \in Entering => ticket[r] \in DOMAIN table
  /\ \A id \in DOMAIN table :
       /\ table[id] \in Request /\ at[table[id]] \in Entering
       /\ ticket[table[id]] = id

LEMMA NextNamed ==
  ASSUME PhaseInv, Named, [Next]_vars
  PROVE  Named'
  <1>1. UNCHANGED ask /\ \A r \in Request : IdOf(r)' = IdOf(r)
    BY DEF Next, Handle, List, Refuse, NewRun, Register, Start, Answer, Execute,
       ListBegin, ListNext, ListEnd, Restart, vars, IdOf, uuid4
  <1>2. CASE UNCHANGED <<at, ticket, table>>
    BY <1>1, <1>2 DEF Named
  <1>3. CASE Restart
    <2>1. DOMAIN table' = {}
      BY <1>3 DEF Restart
    <2>2. /\ UNCHANGED ticket
          /\ \A r \in Request : at'[r] = IF at[r] \in {"new", "refused"} THEN at[r] ELSE "lost"
      BY <1>3 DEF Restart
    <2> QED
      BY <1>1, <2>1, <2>2 DEF Named, Entering
  <1>4. ASSUME NEW r \in Request, NewRun(r)
        PROVE  Named'
    <2>1. at[r] = "new" /\ UNCHANGED table
      BY <1>4 DEF NewRun
    <2>2. ticket' = [ticket EXCEPT ![r] = IdOf(r)] /\ at' = [at EXCEPT ![r] = "built"]
      BY <1>4 DEF NewRun
    <2>3. \A s \in Request : ticket'[s] = IF s = r THEN IdOf(r) ELSE ticket[s]
      BY <2>2 DEF Named
    <2>4. \A s \in Request : at'[s] = IF s = r THEN "built" ELSE at[s]
      BY <2>2 DEF PhaseInv
    <2>5. ticket' = [s \in Request |-> ticket'[s]]
      BY <2>2 DEF Named
    <2>6. \A s \in Request : at'[s] \notin {"new", "refused"} => ticket'[s] = IdOf(s)
      BY <2>3, <2>4 DEF Named
    <2>7. \A s \in Request : at'[s] \in Entering => ticket'[s] \in DOMAIN table
      BY <2>3, <2>4 DEF Named, Entering
    <2>8. ASSUME NEW id \in DOMAIN table PROVE table[id] # r
      BY <2>1, <2>8 DEF Named, Entering
    <2>9. \A id \in DOMAIN table :
            /\ table[id] \in Request /\ at'[table[id]] \in Entering
            /\ ticket'[table[id]] = id
      BY <2>3, <2>4, <2>8 DEF Named
    <2> QED
      BY <1>1, <2>1, <2>5, <2>6, <2>7, <2>9 DEF Named
  <1>5. ASSUME NEW r \in Request, Register(r)
        PROVE  Named'
    <2>1. /\ at[r] = "built" /\ at' = [at EXCEPT ![r] = "registered"]
          /\ UNCHANGED ticket /\ table' = Entered(r)
      BY <1>5 DEF Register
    <2>2. \A s \in Request : at'[s] = IF s = r THEN "registered" ELSE at[s]
      BY <2>1 DEF PhaseInv
    <2>3. DOMAIN table' = DOMAIN table \cup {ticket[r]}
      BY <2>1 DEF Entered
    <2>4. ASSUME NEW id \in DOMAIN table'
          PROVE  \/ id = ticket[r] /\ table'[id] = r
                 \/ id \in DOMAIN table /\ table'[id] = table[id]
      BY <2>1, <2>4 DEF Entered
    <2>5. \A s \in Request : at'[s] \notin {"new", "refused"} => ticket'[s] = IdOf(s)
      BY <2>1, <2>2 DEF Named
    <2>6. \A s \in Request : at'[s] \in Entering => ticket'[s] \in DOMAIN table'
      BY <2>1, <2>2, <2>3 DEF Named
    <2>7. ASSUME NEW id \in DOMAIN table'
          PROVE  /\ table'[id] \in Request /\ at'[table'[id]] \in Entering
                 /\ ticket'[table'[id]] = id
      <3>1. CASE id = ticket[r] /\ table'[id] = r
        BY <2>1, <2>2, <3>1 DEF Entering
      <3>2. CASE id \in DOMAIN table /\ table'[id] = table[id]
        BY <2>1, <2>2, <3>2 DEF Named, Entering
      <3> QED
        BY <2>4, <2>7, <3>1, <3>2
    <2> QED
      BY <1>1, <2>1, <2>5, <2>6, <2>7 DEF Named
  <1>6. ASSUME NEW r \in Request, Refuse(r) \/ Start(r) \/ Answer(r)
        PROVE  Named'
    <2>1. UNCHANGED <<ticket, table>>
      BY <1>6 DEF Refuse, Start, Answer
    <2>2. \A s \in Request : /\ at'[s] \in Entering <=> at[s] \in Entering
                             /\ at'[s] \notin {"new", "refused"} <=>
                                  at[s] \notin {"new", "refused"}
      BY <1>6 DEF Refuse, Start, Answer, PhaseInv, Entering
    <2> QED
      BY <1>1, <2>1, <2>2 DEF Named
  <1> QED
    BY <1>2, <1>3, <1>4, <1>5, <1>6
       DEF Next, Handle, List, ListBegin, ListNext, ListEnd, Execute, vars

LEMMA InitNamed == Init => Named
  BY DEF Init, Named, Entering

(* The id of an answer leads to a run that is worked on or has ended,      *)
(* unless a later request of the same id has entered one that it has not   *)
(* started or could not; and no run that was answered loses its worker     *)
(* before its end.                                                         *)
THEOREM RunsAreWorkedOn == Spec => []AnsweredRunIsWorkedOn
  <1>1. ASSUME PhaseInv, Named, NEW r \in Request, at[r] = "answered"
        PROVE  /\ WorkedOn(r)
               /\ ticket[r] \in DOMAIN table
               /\ \/ WorkedOn(table[ticket[r]])
                  \/ table[ticket[r]] # r /\ at[table[ticket[r]]] \in {"registered", "crashed"}
    <2>1. WorkedOn(r)
      BY <1>1 DEF PhaseInv, Phase, WorkedOn
    <2>2. ticket[r] \in DOMAIN table
      BY <1>1 DEF Named, Entering
    <2>3. table[ticket[r]] \in Request /\ at[table[ticket[r]]] \in Entering
      BY <1>1, <2>2 DEF Named
    <2>4. CASE at[table[ticket[r]]] \in {"started", "answered"}
      BY <1>1, <2>1, <2>2, <2>3, <2>4 DEF PhaseInv, Phase, WorkedOn
    <2>5. CASE at[table[ticket[r]]] \in {"registered", "crashed"}
      BY <1>1, <2>1, <2>2, <2>5
    <2> QED
      BY <2>1, <2>2, <2>3, <2>4, <2>5 DEF Entering
  <1>2. PhaseInv /\ Named => AnsweredRunIsWorkedOn
    BY <1>1 DEF AnsweredRunIsWorkedOn
  <1> QED
    BY <1>2, InitPhase, InitNamed, NextPhase, NextNamed, PTL DEF Spec

(* An id that a client was told leads to its own run, unless it was chosen *)
(* by a client: a demo or a webhook never takes over another's id, not     *)
(* even that of a run that a restart has lost.                             *)
THEOREM OwnIds == Spec => []OthersOnlyByTheirOwnId
  <1>1. Named => OthersOnlyByTheirOwnId
    <2> SUFFICES ASSUME Named, NEW r \in Request, NEW other \in Request,
                        at[r] \in {"answered", "lost"}, ticket[r] \in DOMAIN table,
                        table[ticket[r]] = other
                 PROVE  \/ other = r
                        \/ ask[other].kind = "ticket" /\ ask[other].id = ticket[r]
                        \/ ask[r].kind = "ticket" /\ ask[r].id = uuid4(other)
      BY DEF OthersOnlyByTheirOwnId
    <2>1. IdOf(r) = ticket[r] /\ IdOf(other) = ticket[r]
      BY DEF Named, Entering
    <2>2. uuid4(r) = uuid4(other) => r = other
      BY DEF uuid4, StringId
    <2> QED
      BY <2>1, <2>2 DEF IdOf
  <1> QED
    BY <1>1, InitPhase, InitNamed, NextPhase, NextNamed, PTL DEF Spec

=============================================================================
