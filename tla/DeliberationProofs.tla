------------------------- MODULE DeliberationProofs -------------------------
(***************************************************************************)
(* What holds of a deliberation and its timeline for any teams, answers,   *)
(* investigations and numbers of peers and rounds.                         *)
(***************************************************************************)
EXTENDS TicketTrace, SequenceTheorems, FiniteSetTheorems, WellFoundedInduction, TLAPS

(* A nonempty set of numbers has a first one. *)
LEMMA FirstExists ==
  ASSUME NEW S \in SUBSET Nat, S # {}
  PROVE  First(S) \in S /\ \A j \in S : First(S) <= j
<1> DEFINE R == {p \in Nat \X Nat : p[1] < p[2]}
<1>1. IsWellFoundedOn(R, Nat)
  BY NatLessThanWellFounded DEF OpToRel
<1>2. PICK x \in S : \A y \in S : <<y, x>> \notin R
  BY <1>1, WFMin
<1>3. ASSUME NEW y \in S PROVE x <= y
  <2> HIDE DEF R
  <2>1. <<y, x>> \notin R
    BY <1>2
  <2>2. <<y, x>> \in Nat \X Nat /\ ~(<<y, x>>[1] < <<y, x>>[2])
    BY <2>1 DEF R
  <2> QED
    BY <2>2
<1> QED
  BY <1>3 DEF First

-----------------------------------------------------------------------------
(* Lists, whatever they are lists of. *)

IsList(s) == Len(s) \in Nat /\ s = [i \in 1 .. Len(s) |-> s[i]]

LEMMA ListIsSeq ==
  ASSUME NEW s, IsList(s)
  PROVE  s \in Seq({s[i] : i \in 1 .. Len(s)})
<1> DEFINE S == {s[i] : i \in 1 .. Len(s)}
<1>1. s \in [1 .. Len(s) -> S]
  BY DEF IsList
<1> QED
  BY <1>1, SeqDef DEF IsList

LEMMA SeqIsList ==
  ASSUME NEW S, NEW s \in Seq(S)
  PROVE  IsList(s)
  BY LenProperties DEF IsList

LEMMA FunctionIsList ==
  ASSUME NEW n \in Nat, NEW f, f = [i \in 1 .. n |-> f[i]]
  PROVE  IsList(f) /\ Len(f) = n
<1> DEFINE S == {f[i] : i \in 1 .. n}
<1>1. f \in [1 .. n -> S]
  OBVIOUS
<1>2. f \in Seq(S)
  BY <1>1, SeqDef
<1>3. DOMAIN f = 1 .. n /\ DOMAIN f = 1 .. Len(f) /\ Len(f) \in Nat
  BY <1>1, <1>2, LenProperties
<1>4. Len(f) = n
  BY <1>3
<1> QED
  BY <1>2, <1>4, SeqIsList

LEMMA Joined ==
  ASSUME NEW s, NEW t, IsList(s), IsList(t)
  PROVE  /\ IsList(s \o t)
         /\ Len(s \o t) = Len(s) + Len(t)
         /\ \A i \in 1 .. Len(s) + Len(t) :
              (s \o t)[i] = IF i <= Len(s) THEN s[i] ELSE t[i - Len(s)]
<1> DEFINE S == {s[i] : i \in 1 .. Len(s)}
           T == {t[i] : i \in 1 .. Len(t)}
<1>1. s \in Seq(S) /\ t \in Seq(T)
  BY ListIsSeq
<1> HIDE DEF S, T
<1>2. s \in Seq(S \cup T) /\ t \in Seq(S \cup T)
  BY <1>1, SeqMonotonic
<1> QED
  BY <1>2, ConcatProperties, SeqIsList

-----------------------------------------------------------------------------
(* Filtered lists. *)

(* Induction on numbers, for a set of them. *)
LEMMA Counting ==
  ASSUME NEW T, 0 \in T, \A n \in Nat : n \in T => n + 1 \in T
  PROVE  Nat \subseteq T
<1> DEFINE R == {p \in Nat \X Nat : p[1] < p[2]}
           Bad == Nat \ T
<1>1. IsWellFoundedOn(R, Nat)
  BY NatLessThanWellFounded DEF OpToRel
<1> SUFFICES ASSUME Bad # {} PROVE FALSE
  OBVIOUS
<1>2. PICK x \in Bad : \A y \in Bad : <<y, x>> \notin R
  BY <1>1, WFMin
<1>3. x \in Nat /\ x # 0 /\ x - 1 \in Nat /\ x - 1 + 1 = x
  OBVIOUS
<1>4. x - 1 \in Bad
  BY <1>2, <1>3
<1>5. <<x - 1, x>> \in R
  BY <1>3
<1> QED
  BY <1>2, <1>4, <1>5

(* A function on 0 .. n given by a first value and a step. *)
Iterates(f, n, V, base, step) ==
  /\ f \in [0 .. n -> V]
  /\ f[0] = base
  /\ \A i \in 1 .. n : f[i] = step[i][f[i - 1]]

Stepper(n, V, step) == step \in [1 .. n -> [V -> V]]

LEMMA Iterated ==
  ASSUME NEW n \in Nat, NEW V, NEW base \in V, NEW step, Stepper(n, V, step)
  PROVE  \E f : Iterates(f, n, V, base, step)
<1> USE DEF Stepper
<1> DEFINE Is(f, k) == f[0] = base /\ \A i \in 1 .. k : f[i] = step[i][f[i - 1]]
           T == {k \in Nat : k <= n => \E f \in [0 .. k -> V] : Is(f, k)}
<1>1. 0 \in T
  <2> DEFINE f == [i \in 0 .. 0 |-> base]
  <2>1. f \in [0 .. 0 -> V] /\ Is(f, 0)
    OBVIOUS
  <2> QED
    BY <2>1
<1>2. ASSUME NEW k \in Nat, k \in T PROVE k + 1 \in T
  <2> SUFFICES ASSUME k + 1 <= n
               PROVE  \E f \in [0 .. k + 1 -> V] : Is(f, k + 1)
    OBVIOUS
  <2>1. PICK g \in [0 .. k -> V] : Is(g, k)
    BY <1>2
  <2> DEFINE f == [i \in 0 .. k + 1 |-> IF i <= k THEN g[i] ELSE step[k + 1][g[k]]]
  <2>2. step[k + 1][g[k]] \in V
    OBVIOUS
  <2>3. f \in [0 .. k + 1 -> V]
    BY <2>2
  <2>4. ASSUME NEW i \in 1 .. k + 1
        PROVE  f[i] = step[i][f[i - 1]]
    <3>1. CASE i <= k
      <4>1. i \in 0 .. k /\ f[i] = g[i] /\ i - 1 \in 0 .. k /\ f[i - 1] = g[i - 1]
        BY <3>1
      <4>2. g[i] = step[i][g[i - 1]]
        BY <2>1, <4>1
      <4> QED
        BY <4>1, <4>2
    <3>2. CASE i = k + 1
      <4>1. f[k + 1] = step[k + 1][g[k]] /\ f[k] = g[k] /\ i - 1 = k
        BY <3>2
      <4> QED
        BY <3>2, <4>1
    <3> QED
      BY <3>1, <3>2
  <2>5. f[0] = base
    BY <2>1
  <2>6. Is(f, k + 1)
    <3> HIDE DEF f
    <3> QED
      BY <2>4, <2>5
  <2> QED
    BY <2>3, <2>6
<1>3. n \in T
  BY <1>1, <1>2, Counting
<1> QED
  BY <1>3 DEF Iterates

(* How a list is filtered: f[n] is what is kept of its first n elements.   *)
Keeps(f, S, s, K) ==
  /\ f \in [0 .. Len(s) -> Seq(S)]
  /\ f[0] = <<>>
  /\ \A i \in 1 .. Len(s) :
       f[i] = IF s[i] \in K THEN Append(f[i - 1], s[i]) ELSE f[i - 1]

LEMMA KeptRuns ==
  ASSUME NEW S, NEW s \in Seq(S), NEW K
  PROVE  \E f : Keeps(f, S, s, K) /\ Kept(s, K) = f[Len(s)]
<1> DEFINE n == Len(s)
           V == Seq(S)
           next(i, v) == IF s[i] \in K THEN Append(v, s[i]) ELSE v
           step == [i \in 1 .. n |-> [v \in V |-> next(i, v)]]
           Is(f) == f = [i \in 0 .. n |-> IF i = 0 THEN <<>> ELSE next(i, f[i - 1])]
<1>1. n \in Nat /\ <<>> \in V /\ \A i \in 1 .. n : s[i] \in S
  BY LenProperties, ElementOfSeq
<1>2. \A i \in 1 .. n, v \in V : next(i, v) \in V
  BY <1>1
<1> HIDE DEF next, V
<1>3. step \in [1 .. n -> [V -> V]] /\ \A i \in 1 .. n, v \in V : step[i][v] = next(i, v)
  BY <1>2
<1>4. PICK f \in [0 .. n -> V] :
        /\ f[0] = <<>>
        /\ \A i \in 1 .. n : f[i] = step[i][f[i - 1]]
  <2>1. Stepper(n, V, step)
    BY <1>3 DEF Stepper
  <2> HIDE DEF n, step
  <2>2. \E f : Iterates(f, n, V, <<>>, step)
    BY <1>1, <2>1, Iterated
  <2> QED
    BY <2>2 DEF Iterates
<1>5. \A i \in 1 .. n : f[i] = next(i, f[i - 1])
  BY <1>1, <1>3, <1>4
<1>6. Is(f)
  BY <1>1, <1>4, <1>5
<1> DEFINE h == CHOOSE g : Is(g)
<1>7. Is(h)
  <2> HIDE DEF Is
  <2> QED
    BY <1>6
<1>8. h[0] = <<>> /\ \A i \in 1 .. n : h[i] = next(i, h[i - 1])
  <2> HIDE DEF h, n
  <2> QED
    BY <1>1, <1>7
<1>9. h = [i \in 0 .. n |-> h[i]]
  <2> HIDE DEF h, n
  <2> QED
    BY <1>1, <1>7
<1>10. n \in 0 .. n /\ Kept(s, K) = h[n]
  BY <1>1 DEF Kept, next
<1> DEFINE T == {i \in Nat : i <= n => h[i] \in V}
<1>11. Nat \subseteq T
  <2> HIDE DEF h, n
  <2>1. 0 \in T
    BY <1>1, <1>8
  <2>2. ASSUME NEW i \in Nat, i \in T PROVE i + 1 \in T
    BY <1>1, <1>2, <1>8, <2>2
  <2> HIDE DEF T
  <2> QED
    BY <1>1, <2>1, <2>2, Counting
<1>12. h \in [0 .. n -> V]
  <2> HIDE DEF h, n
  <2> QED
    BY <1>1, <1>9, <1>11
<1> QED
  <2> HIDE DEF h, n
  <2> QED
    BY <1>8, <1>10, <1>12 DEF next, V, n, Keeps

(* Two lists that begin alike are filtered alike, as far as they do, by    *)
(* sets that agree on their elements.                                      *)
LEMMA KeptAlike ==
  ASSUME NEW S, NEW s \in Seq(S), NEW t \in Seq(S), NEW K, NEW L,
         Len(s) <= Len(t),
         \A i \in 1 .. Len(s) : t[i] = s[i] /\ (s[i] \in K <=> s[i] \in L),
         NEW f, Keeps(f, S, s, K),
         NEW g, Keeps(g, S, t, L)
  PROVE  g[Len(s)] = f[Len(s)]
<1> DEFINE T == {i \in Nat : i <= Len(s) => g[i] = f[i]}
<1>1. Len(s) \in Nat /\ Len(t) \in Nat
  BY LenProperties
<1>2. 0 \in T
  BY DEF Keeps
<1>3. ASSUME NEW i \in Nat, i \in T PROVE i + 1 \in T
  BY <1>1, <1>3 DEF Keeps
<1>4. Len(s) \in T
  <2> HIDE DEF T
  <2> QED
    BY <1>1, <1>2, <1>3, Counting
<1> QED
  BY <1>4

LEMMA KeptOfEmpty == ASSUME NEW K PROVE Kept(<<>>, K) = <<>>
<1>1. <<>> \in Seq({}) /\ Len(<<>>) = 0
  OBVIOUS
<1>2. PICK f : Keeps(f, {}, <<>>, K) /\ Kept(<<>>, K) = f[Len(<<>>)]
  BY <1>1, KeptRuns
<1> QED
  BY <1>1, <1>2 DEF Keeps

LEMMA KeptType ==
  ASSUME NEW S, NEW s \in Seq(S), NEW K
  PROVE  Kept(s, K) \in Seq(S)
  BY KeptRuns, LenProperties DEF Keeps

LEMMA KeptSame ==
  ASSUME NEW S, NEW s \in Seq(S), NEW K, NEW L,
         \A i \in 1 .. Len(s) : s[i] \in K <=> s[i] \in L
  PROVE  Kept(s, K) = Kept(s, L)
<1>1. PICK f : Keeps(f, S, s, K) /\ Kept(s, K) = f[Len(s)]
  BY KeptRuns
<1>2. PICK g : Keeps(g, S, s, L) /\ Kept(s, L) = g[Len(s)]
  BY KeptRuns
<1>3. Len(s) <= Len(s)
  BY LenProperties
<1> QED
  BY <1>1, <1>2, <1>3, KeptAlike

LEMMA KeptAppend ==
  ASSUME NEW S, NEW s \in Seq(S), NEW x \in S, NEW K
  PROVE  Kept(Append(s, x), K) =
           IF x \in K THEN Append(Kept(s, K), x) ELSE Kept(s, K)
<1> DEFINE t == Append(s, x)
<1>1. /\ t \in Seq(S) /\ Len(s) \in Nat /\ Len(t) = Len(s) + 1
      /\ t[Len(s) + 1] = x /\ \A i \in 1 .. Len(s) : t[i] = s[i]
  BY LenProperties, AppendProperties
<1> HIDE DEF t
<1>2. PICK f : Keeps(f, S, s, K) /\ Kept(s, K) = f[Len(s)]
  BY KeptRuns
<1>3. PICK g : Keeps(g, S, t, K) /\ Kept(t, K) = g[Len(t)]
  BY <1>1, KeptRuns
<1>4. Len(s) <= Len(t)
  BY <1>1
<1>5. g[Len(s)] = f[Len(s)]
  BY <1>1, <1>2, <1>3, <1>4, KeptAlike
<1>6. Len(s) + 1 \in 1 .. Len(t) /\ Len(s) + 1 - 1 = Len(s)
  BY <1>1
<1>7. Kept(t, K) = IF x \in K THEN Append(g[Len(s)], x) ELSE g[Len(s)]
  BY <1>1, <1>3, <1>6 DEF Keeps
<1> QED
  BY <1>2, <1>5, <1>7 DEF t

Among(x, s) == \E i \in 1 .. Len(s) : s[i] = x

LEMMA AmongAppended ==
  ASSUME NEW S, NEW s \in Seq(S), NEW y \in S, NEW x
  PROVE  Among(x, Append(s, y)) <=> Among(x, s) \/ x = y
<1>1. /\ Len(s) \in Nat /\ Len(Append(s, y)) = Len(s) + 1
      /\ Append(s, y)[Len(s) + 1] = y
      /\ \A j \in 1 .. Len(s) : Append(s, y)[j] = s[j]
  BY LenProperties, AppendProperties
<1> QED
  BY <1>1 DEF Among

(* What is in a filtered list. *)
LEMMA KeptElements ==
  ASSUME NEW S, NEW s \in Seq(S), NEW K, NEW x
  PROVE  Among(x, Kept(s, K)) <=> Among(x, s) /\ x \in K
<1>1. PICK f : Keeps(f, S, s, K) /\ Kept(s, K) = f[Len(s)]
  BY KeptRuns
<1>2. Len(s) \in Nat /\ \A i \in 1 .. Len(s) : s[i] \in S
  BY LenProperties, ElementOfSeq
<1> DEFINE Upto(n) == \E j \in 1 .. n : s[j] = x
           T == {n \in Nat : n <= Len(s) => (Among(x, f[n]) <=> Upto(n) /\ x \in K)}
<1>3. 0 \in T
  BY <1>1 DEF Keeps, Among
<1>4. ASSUME NEW n \in Nat, n \in T PROVE n + 1 \in T
  <2> SUFFICES ASSUME n + 1 <= Len(s)
               PROVE  Among(x, f[n + 1]) <=> Upto(n + 1) /\ x \in K
    OBVIOUS
  <2>1. /\ n + 1 \in 1 .. Len(s) /\ n \in 0 .. Len(s) /\ s[n + 1] \in S
        /\ n + 1 - 1 = n
    BY <1>2
  <2>2. Among(x, f[n]) <=> Upto(n) /\ x \in K
    BY <1>2, <1>4
  <2>3. /\ f[n] \in Seq(S)
        /\ f[n + 1] = IF s[n + 1] \in K THEN Append(f[n], s[n + 1]) ELSE f[n]
    BY <1>1, <2>1 DEF Keeps
  <2>4. Upto(n + 1) <=> Upto(n) \/ x = s[n + 1]
    BY <2>1
  <2> QED
    BY <2>1, <2>2, <2>3, <2>4, AmongAppended
<1>5. Len(s) \in T
  <2> HIDE DEF T
  <2> QED
    BY <1>2, <1>3, <1>4, Counting
<1> QED
  BY <1>1, <1>2, <1>5 DEF Among

-----------------------------------------------------------------------------
LEMMA AlternativeFacts == Alternative \subseteq Nat /\ NoAlternative \in Nat
  BY DEF Alternative, NoAlternative

LEMMA NoAnswerType == NoAnswer \in Answer
  BY DEF NoAnswer, Answer, Verdict

(* Another answer in the last round: that round is one longer, the others  *)
(* and its earlier answers are as they were.                               *)
LEMMA SaidGrows ==
  ASSUME NEW S, NEW h \in Seq(Seq(S)), h # <<>>, NEW e \in S
  PROVE  LET n == Len(h)
             g == [h EXCEPT ![n] = Append(@, e)]
         IN  /\ g \in Seq(Seq(S))
             /\ n \in Nat \ {0} /\ n \in 1 .. n
             /\ Len(g) = n
             /\ Len(g[n]) = Len(h[n]) + 1
             /\ g[n][Len(h[n]) + 1] = e
             /\ \A i \in 1 .. Len(h[n]) : g[n][i] = h[n][i]
             /\ \A k \in 1 .. n : k # n => g[k] = h[k]
<1> DEFINE n == Len(h)
           g == [h EXCEPT ![n] = Append(@, e)]
<1>1. n \in Nat \ {0} /\ n \in 1 .. n
  BY EmptySeq, LenProperties
<1>2. h[n] \in Seq(S)
  BY <1>1, ElementOfSeq
<1>3. /\ Append(h[n], e) \in Seq(S)
      /\ Len(Append(h[n], e)) = Len(h[n]) + 1
      /\ Append(h[n], e)[Len(h[n]) + 1] = e
      /\ \A i \in 1 .. Len(h[n]) : Append(h[n], e)[i] = h[n][i]
  BY <1>2, AppendProperties
<1>4. g = [h EXCEPT ![n] = Append(h[n], e)]
  OBVIOUS
<1>5. /\ g \in Seq(Seq(S)) /\ Len(g) = n
      /\ \A k \in 1 .. n : g[k] = IF k = n THEN Append(h[n], e) ELSE h[k]
  BY <1>1, <1>3, <1>4, ExceptSeq
<1> QED
  BY <1>1, <1>3, <1>5

(* An answer backs one of the three alternatives or none. *)
LEMMA BacksType ==
  ASSUME NEW answer \in Answer
  PROVE  Backs(answer) \in Alternative \cup {NoAlternative}
<1>1. CASE answer.timedOut \/ answer.mentions = {}
  BY <1>1 DEF Backs
<1>2. CASE ~(answer.timedOut \/ answer.mentions = {})
  <2>1. answer.mentions \in SUBSET Nat /\ answer.mentions \subseteq Alternative
    BY AlternativeFacts DEF Answer
  <2>2. First(answer.mentions) \in answer.mentions
    BY <1>2, <2>1, FirstExists
  <2> QED
    BY <1>2, <2>1, <2>2 DEF Backs
<1> QED
  BY <1>1, <1>2

-----------------------------------------------------------------------------
(* The inductive invariant.                                                *)

Entry == [from : Team, answer : Answer, newHere : Seq(Concern)]

(* When there are rounds, and when the deliberation may have converged. *)
Progress ==
  /\ stage \in {"intake", "discover"} => heard = <<>>
  /\ stage \in {"consult", "refined", "assemble", "decided"} => heard # <<>>
  /\ stage \in {"intake", "discover", "consult", "refined"} => ~converged

Summarised == stage = "decided" => finding = Summary

Inv ==
  /\ TypeOK
  /\ Progress
  /\ EveryPeerEveryRound
  /\ NoRoundAfterAgreement
  /\ RuledOutForARecommended
  /\ Summarised

LEMMA RoundFacts ==
  ASSUME TypeOK
  PROVE  /\ heard \in Seq(Seq(Entry))
         /\ Round \in Nat
         /\ heard # <<>> => Round \in Nat \ {0} /\ Round \in 1 .. Round /\ Said \in Seq(Entry)
         /\ \A k \in 1 .. Round : heard[k] \in Seq(Entry) /\ Len(heard[k]) \in Nat
         /\ \A k \in 1 .. Round : \A j \in 1 .. Len(heard[k]) :
              heard[k][j] \in Entry /\ heard[k][j].answer \in Answer
<1>1. heard \in Seq(Seq(Entry))
  BY DEF TypeOK, Entry
<1>2. \A k \in 1 .. Round : heard[k] \in Seq(Entry) /\ Len(heard[k]) \in Nat
  BY <1>1, ElementOfSeq, LenProperties DEF Round
<1>3. \A k \in 1 .. Round : \A j \in 1 .. Len(heard[k]) :
         heard[k][j] \in Entry /\ heard[k][j].answer \in Answer
  <2> TAKE k \in 1 .. Round
  <2> TAKE j \in 1 .. Len(heard[k])
  <2>1. heard[k][j] \in Entry
    BY <1>2, ElementOfSeq
  <2> QED
    BY <2>1 DEF Entry
<1> QED
  BY <1>1, <1>2, <1>3, EmptySeq, LenProperties DEF Round, Said

(* What a team may say: with an agent an answer, without one nothing. *)
AnswersOf(team) == IF team \in Deployed THEN Answers ELSE {NoAnswer}

(* What of an answer's concerns is new. *)
LEMMA NewInFacts ==
  ASSUME TypeOK, NEW concerns \in Seq(Concern)
  PROVE  /\ NewIn(concerns) \in Seq(Concern)
         /\ ToSet(NewIn(concerns)) = ToSet(concerns) \ seenConcerns
<1>1. NewIn(concerns) \in Seq(Concern)
  BY KeptType DEF NewIn
<1>2. \A c : Among(c, NewIn(concerns)) <=> Among(c, concerns) /\ c \in Concern \ seenConcerns
  BY KeptElements DEF NewIn
<1>3. \A c : Among(c, concerns) => c \in Concern
  BY ElementOfSeq DEF Among
<1>4. ASSUME NEW s, NEW c PROVE c \in ToSet(s) <=> \E i \in DOMAIN s : s[i] = c
  BY DEF ToSet
<1>5. DOMAIN NewIn(concerns) = 1 .. Len(NewIn(concerns)) /\ DOMAIN concerns = 1 .. Len(concerns)
  BY <1>1, LenProperties
<1>6. \A c : c \in ToSet(NewIn(concerns)) <=> c \in ToSet(concerns) \ seenConcerns
  <2>1. \A c : c \in ToSet(NewIn(concerns)) <=> Among(c, NewIn(concerns))
    BY <1>4, <1>5 DEF Among
  <2>2. \A c : c \in ToSet(concerns) <=> Among(c, concerns)
    BY <1>4, <1>5 DEF Among
  <2> QED
    BY <1>2, <1>3, <2>1, <2>2
<1> QED
  BY <1>1, <1>6

(* What Consult does to the record. *)
LEMMA ConsultAppends ==
  ASSUME TypeOK, Progress, Consult
  PROVE  \E e \in Entry :
           /\ heard' \in Seq(Seq(Entry))
           /\ Len(heard') = Round
           /\ Round \in Nat \ {0} /\ Round \in 1 .. Round
           /\ Len(Said) + 1 \in 1 .. Len(peers)
           /\ Len(heard'[Round]) = Len(Said) + 1
           /\ heard'[Round][Len(Said) + 1] = e
           /\ \A i \in 1 .. Len(Said) : heard'[Round][i] = Said[i]
           /\ \A k \in 1 .. Round : k # Round => heard'[k] = heard[k]
           /\ e.from = peers[Len(Said) + 1]
           /\ e.answer \in AnswersOf(e.from)
           /\ e.newHere = NewIn(e.answer.concerns)
           /\ ToSet(e.newHere) = ToSet(e.answer.concerns) \ seenConcerns
           /\ seenConcerns' = seenConcerns \cup ToSet(e.answer.concerns)
<1>1. heard # <<>> /\ heard \in Seq(Seq(Entry)) /\ Said \in Seq(Entry) /\ Len(Said) \in Nat
  BY RoundFacts DEF Progress, Consult, Round, Said
<1>2. Len(Said) + 1 \in 1 .. Len(peers) /\ peers \in Seq(Team)
  BY <1>1, LenProperties DEF Consult, TypeOK
<1> DEFINE peer == peers[Len(Said) + 1]
<1>3. peer \in Team
  BY <1>2, ElementOfSeq
<1>4. PICK answer \in AnswersOf(peer) :
        /\ heard' = [heard EXCEPT ![Round] =
                       Append(@, [from |-> peer, answer |-> answer,
                                  newHere |-> NewIn(answer.concerns)])]
        /\ seenConcerns' = seenConcerns \cup ToSet(answer.concerns)
  BY DEF Consult, AnswersOf
<1> DEFINE e == [from |-> peer, answer |-> answer, newHere |-> NewIn(answer.concerns)]
<1>5. /\ answer \in Answer
      /\ NewIn(answer.concerns) \in Seq(Concern)
      /\ ToSet(NewIn(answer.concerns)) = ToSet(answer.concerns) \ seenConcerns
  <2>1. answer \in Answer
    BY <1>4, NoAnswerType, DeliberationAssumption DEF AnswersOf
  <2>2. answer.concerns \in Seq(Concern)
    BY <2>1 DEF Answer
  <2> QED
    BY <2>1, <2>2, NewInFacts
<1>6. e \in Entry
  BY <1>3, <1>5 DEF Entry
<1>7. heard' = [heard EXCEPT ![Round] = Append(@, e)]
  BY <1>4
<1>8. /\ e.from = peer /\ e.answer = answer
      /\ e.newHere = NewIn(answer.concerns)
  OBVIOUS
<1> HIDE DEF e, peer
<1>9. /\ heard' \in Seq(Seq(Entry))
      /\ Len(heard') = Round
      /\ Round \in Nat \ {0} /\ Round \in 1 .. Round
      /\ Len(heard'[Round]) = Len(Said) + 1
      /\ heard'[Round][Len(Said) + 1] = e
      /\ \A i \in 1 .. Len(Said) : heard'[Round][i] = Said[i]
      /\ \A k \in 1 .. Round : k # Round => heard'[k] = heard[k]
  BY <1>1, <1>6, <1>7, SaidGrows DEF Round, Said
<1> WITNESS e \in Entry
<1> QED
  BY <1>2, <1>4, <1>5, <1>8, <1>9 DEF peer

(* What NextRound does to the record. *)
LEMMA NextRoundOpens ==
  ASSUME TypeOK, Progress, NextRound
  PROVE  /\ heard' \in Seq(Seq(Entry))
         /\ Len(heard') = Round + 1
         /\ heard'[Round + 1] = <<>>
         /\ \A k \in 1 .. Round : heard'[k] = heard[k]
         /\ Round \in Nat \ {0}
  BY RoundFacts, AppendProperties, EmptySeq DEF NextRound, Progress, Round

LEMMA DiscoverOpens ==
  ASSUME Discover
  PROVE  /\ heard' \in Seq(Seq(Entry)) /\ heard' # <<>>
         /\ Len(heard') = 1 /\ heard'[1] = <<>>
         /\ peers' \in Seq(Team)
  BY DeliberationAssumption, EmptySeq DEF Discover

-----------------------------------------------------------------------------
(* Type correctness of own_ticket's state, of the record and of the        *)
(* finding.                                                                *)
LEMMA InitInv == Init => Inv
<1> SUFFICES ASSUME Init PROVE Inv
  OBVIOUS
<1>1. TypeOK
  BY EmptySeq, AlternativeFacts DEF Init, TypeOK, NoFinding, Standing
<1>2. Round = 0
  BY EmptySeq DEF Init, Round
<1>3. EveryPeerEveryRound /\ NoRoundAfterAgreement
  BY <1>2, DeliberationAssumption DEF Init, EveryPeerEveryRound, NoRoundAfterAgreement
<1>4. RuledOutForARecommended
  BY DEF Init, RuledOutForARecommended
<1> QED
  BY <1>1, <1>3, <1>4 DEF Init, Inv, Progress, Summarised

LEMMA WhoseType == TypeOK => \A flag : Whose(flag) \in SUBSET Team
  BY ElementOfSeq DEF Whose, TypeOK

LEMMA TypeStep == Inv /\ [Next]_vars => TypeOK'
<1> SUFFICES ASSUME Inv, [Next]_vars PROVE TypeOK'
  OBVIOUS
<1> USE DEF Inv
<1>1. CASE Investigate
  BY <1>1 DEF Investigate, TypeOK
<1>2. CASE Discover
  BY <1>2, DiscoverOpens DEF Discover, TypeOK, Entry
<1>3. CASE Consult
  <2>1. heard' \in Seq(Seq(Entry))
    BY <1>3, ConsultAppends
  <2>2. seenConcerns' \in SUBSET Concern
    <3>1. PICK e \in Entry : seenConcerns' = seenConcerns \cup ToSet(e.answer.concerns)
      BY <1>3, ConsultAppends
    <3>2. e.answer.concerns \in Seq(Concern)
      BY DEF Entry, Answer
    <3>3. ToSet(e.answer.concerns) \subseteq Concern
      BY <3>2 DEF ToSet
    <3> QED
      BY <3>1, <3>3 DEF TypeOK
  <2> QED
    BY <1>3, <2>1, <2>2 DEF Consult, TypeOK, Entry
<1>4. CASE Refine
  <2>1. heard # <<>> /\ Said \in Seq(Entry) /\ Round \in Nat
    BY <1>4, RoundFacts DEF Refine, Progress
  <2>2. reviewedBy' \in SUBSET Team
    <3>1. ASSUME NEW i \in 1 .. Len(Said) PROVE Said[i].from \in Team
      <4>1. Said[i] \in Entry
        BY <2>1, ElementOfSeq
      <4> QED
        BY <4>1 DEF Entry
    <3> QED
      BY <1>4, <3>1 DEF Refine, TypeOK
  <2>3. recommended' \in SUBSET Alternative
    BY <1>4 DEF Refine, TypeOK
  <2>4. ruledOut' \in [Alternative -> Nat \X Nat]
    <3>1. ASSUME NEW a \in Alternative, Against(Said, a) # {}
          PROVE  First(Against(Said, a)) \in Nat
      <4>1. Against(Said, a) \in SUBSET Nat
        BY <2>1, LenProperties DEF Against
      <4> QED
        BY <3>1, <4>1, FirstExists
    <3> QED
      BY <1>4, <2>1, <3>1 DEF Refine, TypeOK
  <2> QED
    BY <1>4, <2>2, <2>3, <2>4 DEF Refine, TypeOK
<1>5. CASE Converge
  BY <1>5 DEF Converge, TypeOK
<1>6. CASE NextRound
  BY <1>6, NextRoundOpens DEF NextRound, TypeOK, Entry
<1>7. CASE GiveUp
  BY <1>7 DEF GiveUp, TypeOK
<1>8. CASE Assemble
  <2>1. recommended # {} => First(recommended) \in Alternative
    BY FirstExists, AlternativeFacts DEF TypeOK
  <2>2. Members \ Implemented \in SUBSET Team
    BY ElementOfSeq DEF Members, TypeOK
  <2>3. Summary \in [recommends : Alternative \cup {NoAlternative},
                     undeployed : SUBSET Team, authority : SUBSET Team,
                     tie : BOOLEAN, unreachable : SUBSET Team, undecided : BOOLEAN]
    BY <2>1, <2>2, WhoseType DEF Summary, TypeOK
  <2> QED
    BY <1>8, <2>3 DEF Assemble, TypeOK
<1>9. CASE Raise
  BY <1>9 DEF Raise, TypeOK
<1>10. CASE UNCHANGED vars
  BY <1>10 DEF vars, TypeOK
<1> QED
  BY <1>1, <1>2, <1>3, <1>4, <1>5, <1>6, <1>7, <1>8, <1>9, <1>10 DEF Next

LEMMA ProgressStep == Inv /\ [Next]_vars => Progress'
<1> SUFFICES ASSUME Inv, [Next]_vars PROVE Progress'
  OBVIOUS
<1> USE DEF Inv, Progress
<1>1. CASE Consult
  <2>1. Len(heard') = Round /\ Round # 0
    BY <1>1, ConsultAppends
  <2> QED
    BY <1>1, <2>1, EmptySeq DEF Consult
<1>2. CASE NextRound
  <2>1. Len(heard') = Round + 1 /\ Round \in Nat
    BY <1>2, NextRoundOpens
  <2> QED
    BY <1>2, <2>1, EmptySeq DEF NextRound
<1>3. CASE Discover
  BY <1>3, DiscoverOpens DEF Discover
<1>4. CASE UNCHANGED vars
  BY <1>4 DEF vars
<1> QED
  BY <1>1, <1>2, <1>3, <1>4 DEF Next, Investigate, Refine, Converge, GiveUp, Assemble, Raise

LEMMA SummarisedStep == Inv /\ [Next]_vars => Summarised'
<1> SUFFICES ASSUME Inv, [Next]_vars PROVE Summarised'
  OBVIOUS
<1>1. CASE Assemble
  BY <1>1 DEF Assemble, Summarised, Summary, Members, Whose, Round
<1>2. CASE UNCHANGED vars
  BY <1>2 DEF vars, Inv, Summarised, Summary, Members, Whose, Round
<1>3. ~Assemble /\ Next => stage' # "decided"
  BY DEF Next, Investigate, Discover, Consult, Refine, Converge, NextRound, GiveUp, Raise
<1> QED
  BY <1>1, <1>2, <1>3 DEF Summarised

LEMMA EveryPeerStep == Inv /\ [Next]_vars => EveryPeerEveryRound'
<1> SUFFICES ASSUME Inv, [Next]_vars PROVE EveryPeerEveryRound'
  OBVIOUS
<1>1. CASE UNCHANGED <<peers, heard>> /\ ~Refine
  <2>1. stage' \in {"refined", "assemble", "decided"} =>
          stage \in {"refined", "assemble", "decided"}
    BY <1>1 DEF Next, vars, Investigate, Discover, Consult, Converge, NextRound, GiveUp,
                Assemble, Raise
  <2> QED
    BY <1>1, <2>1 DEF Inv, EveryPeerEveryRound, Round
<1>2. CASE Refine
  <2>1. \A k \in 1 .. Round : Len(heard[k]) = Len(peers)
    BY <1>2, RoundFacts DEF Inv, EveryPeerEveryRound, Refine, Said
  <2> QED
    BY <1>2, <2>1 DEF Refine, Inv, EveryPeerEveryRound, Round
<1>3. CASE Discover
  <2>1. /\ Len(heard') = 1 /\ heard'[1] = <<>>
        /\ Len(peers') \in Nat
    BY <1>3, DiscoverOpens, LenProperties
  <2>2. \A k \in 1 .. 1 : k = 1
    OBVIOUS
  <2>3. Len(<<>>) = 0
    BY EmptySeq
  <2> QED
    BY <1>3, <2>1, <2>2, <2>3, DeliberationAssumption DEF Discover, EveryPeerEveryRound, Round
<1>4. CASE Consult
  <2>1. PICK e \in Entry :
          /\ Len(heard') = Round
          /\ Round \in Nat \ {0} /\ Round \in 1 .. Round
          /\ Len(Said) + 1 \in 1 .. Len(peers)
          /\ Len(heard'[Round]) = Len(Said) + 1
          /\ heard'[Round][Len(Said) + 1] = e
          /\ \A i \in 1 .. Len(Said) : heard'[Round][i] = Said[i]
          /\ \A k \in 1 .. Round : k # Round => heard'[k] = heard[k]
          /\ e.from = peers[Len(Said) + 1]
    BY <1>4, ConsultAppends DEF Inv
  <2>2. Len(Said) \in Nat /\ Len(peers) \in Nat
    BY <2>1, RoundFacts, LenProperties DEF Inv, TypeOK, Said
  <2>3. peers' = peers /\ stage' = "consult"
    BY <1>4 DEF Consult
  <2>4. ASSUME NEW k \in 1 .. Round, k # Round
        PROVE  /\ Len(heard'[k]) = Len(peers)
               /\ \A i \in 1 .. Len(heard'[k]) : heard'[k][i].from = peers[i]
    <3>1. k < Round /\ heard'[k] = heard[k]
      BY <2>1, <2>4
    <3> QED
      BY <3>1 DEF Inv, EveryPeerEveryRound
  <2>5. \A i \in 1 .. Len(heard'[Round]) : heard'[Round][i].from = peers[i]
    <3>1. \A i \in 1 .. Len(Said) : Said[i].from = peers[i]
      BY <2>1 DEF Inv, EveryPeerEveryRound, Said
    <3> QED
      BY <2>1, <2>2, <3>1
  <2> QED
    BY <2>1, <2>2, <2>3, <2>4, <2>5 DEF Inv, EveryPeerEveryRound, Round
<1>5. CASE NextRound
  <2>1. /\ Len(heard') = Round + 1
        /\ heard'[Round + 1] = <<>>
        /\ \A k \in 1 .. Round : heard'[k] = heard[k]
        /\ Round \in Nat \ {0}
    BY <1>5, NextRoundOpens DEF Inv
  <2>2. peers' = peers /\ stage = "refined" /\ stage' = "consult" /\ Round < MaxRounds
    BY <1>5 DEF NextRound
  <2>3. \A k \in 1 .. Round : Len(heard[k]) = Len(peers)
    BY <2>2 DEF Inv, EveryPeerEveryRound
  <2>4. Len(heard'[Round + 1]) = 0 /\ Len(peers) \in Nat
    BY <2>1, EmptySeq, LenProperties DEF Inv, TypeOK
  <2> HIDE DEF Round
  <2>5. ASSUME NEW k \in 1 .. Round + 1
        PROVE  /\ Len(heard'[k]) <= Len(peers)
               /\ k < Round + 1 => Len(heard'[k]) = Len(peers)
               /\ \A i \in 1 .. Len(heard'[k]) : heard'[k][i].from = peers[i]
    <3>1. CASE k = Round + 1
      BY <2>4, <3>1
    <3>2. CASE k \in 1 .. Round
      BY <2>1, <2>3, <2>4, <3>2 DEF Inv, EveryPeerEveryRound
    <3> QED
      BY <2>1, <3>1, <3>2
  <2>6. Round' = Round + 1
    BY <2>1 DEF Round
  <2> QED
    BY <2>1, <2>2, <2>5, <2>6, DeliberationAssumption DEF EveryPeerEveryRound
<1>6. CASE UNCHANGED vars
  BY <1>6, <1>1, <1>2 DEF vars
<1> QED
  BY <1>1, <1>2, <1>3, <1>4, <1>5, <1>6
     DEF Next, Investigate, Converge, GiveUp, Assemble, Raise

LEMMA NoRoundStep == Inv /\ [Next]_vars => NoRoundAfterAgreement'
<1> SUFFICES ASSUME Inv, [Next]_vars PROVE NoRoundAfterAgreement'
  OBVIOUS
<1>1. CASE Investigate \/ Refine \/ Raise
  <2>1. stage' \notin {"assemble", "decided"} /\ UNCHANGED heard
    BY <1>1 DEF Investigate, Refine, Raise
  <2> QED
    BY <2>1 DEF Inv, NoRoundAfterAgreement, Round, Said, HasConverged
<1>2. CASE Assemble \/ UNCHANGED vars
  <2>1. /\ UNCHANGED <<heard, converged>>
        /\ stage' \in {"assemble", "decided"} => stage \in {"assemble", "decided"}
    BY <1>2 DEF Assemble, vars
  <2> QED
    BY <2>1 DEF Inv, NoRoundAfterAgreement, Round, Said, HasConverged
<1>3. CASE Converge \/ GiveUp
  <2>1. /\ stage = "refined" /\ UNCHANGED heard
        /\ converged' <=> HasConverged(Said)
        /\ converged' \/ Round = MaxRounds
    BY <1>3 DEF Converge, GiveUp, Inv, Progress
  <2>2. Round \in Nat \ {0}
    BY <2>1, RoundFacts DEF Inv, Progress
  <2>3. HasConverged(Said)' <=> HasConverged(Said)
    BY <2>1 DEF HasConverged, Said, Round
  <2> QED
    BY <2>1, <2>2, <2>3 DEF Inv, NoRoundAfterAgreement, Round, HasConverged
<1>4. CASE Discover
  <2>1. Len(heard') = 1 /\ stage' = "consult"
    BY <1>4, DiscoverOpens DEF Discover
  <2> QED
    BY <2>1 DEF NoRoundAfterAgreement, Round
<1>5. CASE Consult
  <2>1. /\ Len(heard') = Round /\ stage' = "consult"
        /\ \A k \in 1 .. Round : k # Round => heard'[k] = heard[k]
        /\ Round \in Nat
    BY <1>5, ConsultAppends DEF Consult, Inv
  <2> QED
    BY <2>1 DEF Inv, NoRoundAfterAgreement, Round, HasConverged
<1>6. CASE NextRound
  <2>1. /\ Len(heard') = Round + 1 /\ stage' = "consult" /\ ~HasConverged(Said)
        /\ \A k \in 1 .. Round : heard'[k] = heard[k]
        /\ Round \in Nat \ {0}
    BY <1>6, NextRoundOpens DEF NextRound, Inv
  <2>2. \A k \in 1 .. Round : ~HasConverged(heard[k])
    BY <2>1 DEF Inv, NoRoundAfterAgreement, Said
  <2> HIDE DEF Round
  <2>3. Round' = Round + 1
    BY <2>1 DEF Round
  <2>4. ASSUME NEW k \in 1 .. Round', k < Round' PROVE ~HasConverged(heard'[k])
    <3>1. k \in 1 .. Round
      BY <2>1, <2>3, <2>4
    <3> QED
      BY <2>1, <2>2, <3>1
  <2> QED
    BY <2>1, <2>4 DEF NoRoundAfterAgreement, HasConverged
<1> QED
  BY <1>1, <1>2, <1>3, <1>4, <1>5, <1>6 DEF Next

LEMMA RuledOutStep == Inv /\ [Next]_vars => RuledOutForARecommended'
<1> SUFFICES ASSUME Inv, [Next]_vars PROVE RuledOutForARecommended'
  OBVIOUS
<1>1. CASE UNCHANGED <<heard, recommended, ruledOut>>
  BY <1>1 DEF Inv, RuledOutForARecommended, Round
<1>2. CASE Refine
  <2>1. UNCHANGED heard /\ recommended \subseteq recommended' /\ heard # <<>>
    BY <1>2 DEF Refine, Inv, Progress
  <2>2. Said \in Seq(Entry) /\ Round \in 1 .. Round
    BY <2>1, RoundFacts DEF Inv
  <2> SUFFICES ASSUME NEW a \in Alternative, ruledOut'[a] # Standing
               PROVE  \E k \in 1 .. Round : \E j \in 1 .. Len(heard[k]) :
                        /\ ruledOut'[a] = <<k, j>>
                        /\ Backs(heard[k][j].answer) \in recommended' \ {a}
    BY <2>1 DEF RuledOutForARecommended, Round
  <2>3. CASE ruledOut[a] # Standing \/ Against(Said, a) = {}
    <3>1. ruledOut'[a] = ruledOut[a]
      BY <1>2, <2>3 DEF Refine
    <3> QED
      BY <2>1, <3>1 DEF Inv, RuledOutForARecommended
  <2>4. CASE ~(ruledOut[a] # Standing \/ Against(Said, a) = {})
    <3> DEFINE j == First(Against(Said, a))
    <3>1. Against(Said, a) \in SUBSET Nat
      BY <2>2, LenProperties DEF Against
    <3>2. j \in Against(Said, a)
      BY <2>4, <3>1, FirstExists
    <3>3. j \in 1 .. Len(Said) /\ Backs(Said[j].answer) \notin {NoAlternative, a}
      BY <3>2 DEF Against
    <3>4. Backs(Said[j].answer) \in Alternative
      <4>1. Said[j].answer \in Answer
        BY <2>2, <3>3, RoundFacts DEF Inv, Said
      <4> QED
        BY <3>3, <4>1, BacksType
    <3>5. Backs(Said[j].answer) \in recommended'
      BY <1>2, <3>3, <3>4 DEF Refine
    <3>6. ruledOut'[a] = <<Round, j>>
      BY <1>2, <2>4 DEF Refine
    <3> QED
      BY <2>2, <3>3, <3>5, <3>6 DEF Said
  <2> QED
    BY <2>3, <2>4
<1>3. CASE Discover
  <2>1. Round = 0
    BY <1>3, EmptySeq DEF Discover, Inv, Progress, Round
  <2>2. \A a \in Alternative : ruledOut[a] = Standing
    BY <2>1 DEF Inv, RuledOutForARecommended
  <2> QED
    BY <1>3, <2>2 DEF Discover, RuledOutForARecommended
<1>4. CASE Consult
  <2>1. /\ Len(heard') = Round
        /\ Round \in Nat \ {0} /\ Round \in 1 .. Round
        /\ Len(Said) + 1 = Len(heard'[Round])
        /\ \A i \in 1 .. Len(Said) : heard'[Round][i] = Said[i]
        /\ \A k \in 1 .. Round : k # Round => heard'[k] = heard[k]
    BY <1>4, ConsultAppends DEF Inv
  <2>2. UNCHANGED <<recommended, ruledOut>> /\ Len(Said) \in Nat
    BY <1>4, <2>1, RoundFacts DEF Consult, Inv, Said
  <2>3. \A k \in 1 .. Round : \A j \in 1 .. Len(heard[k]) :
           j \in 1 .. Len(heard'[k]) /\ heard'[k][j] = heard[k][j]
    BY <2>1, <2>2 DEF Said
  <2> SUFFICES ASSUME NEW a \in Alternative, ruledOut[a] # Standing
               PROVE  \E k \in 1 .. Round : \E j \in 1 .. Len(heard'[k]) :
                        /\ ruledOut[a] = <<k, j>>
                        /\ Backs(heard'[k][j].answer) \in recommended \ {a}
    BY <2>1, <2>2 DEF RuledOutForARecommended, Round
  <2>4. PICK k \in 1 .. Round : \E j \in 1 .. Len(heard[k]) :
               /\ ruledOut[a] = <<k, j>>
               /\ Backs(heard[k][j].answer) \in recommended \ {a}
    BY DEF Inv, RuledOutForARecommended
  <2>5. PICK j \in 1 .. Len(heard[k]) :
               /\ ruledOut[a] = <<k, j>>
               /\ Backs(heard[k][j].answer) \in recommended \ {a}
    BY <2>4
  <2>6. j \in 1 .. Len(heard'[k]) /\ heard'[k][j] = heard[k][j]
    BY <2>3, <2>5
  <2> QED
    BY <2>5, <2>6
<1>5. CASE NextRound
  <2>1. /\ Len(heard') = Round + 1
        /\ \A k \in 1 .. Round : heard'[k] = heard[k]
        /\ Round \in Nat /\ UNCHANGED <<recommended, ruledOut>>
    BY <1>5, NextRoundOpens DEF NextRound, Inv
  <2> QED
    BY <2>1 DEF Inv, RuledOutForARecommended, Round
<1> QED
  BY <1>1, <1>2, <1>3, <1>4, <1>5
     DEF Next, vars, Investigate, Converge, GiveUp, Assemble, Raise

LEMMA InvHolds == Spec => []Inv
<1>1. Inv /\ [Next]_vars => Inv'
  BY TypeStep, ProgressStep, EveryPeerStep, NoRoundStep, RuledOutStep, SummarisedStep DEF Inv
<1> QED
  BY InitInv, <1>1, PTL DEF Spec

(* Type correctness of own_ticket's state, of the record of the answers    *)
(* and of the finding.                                                     *)
THEOREM TypeCorrect == Spec => []TypeOK
<1>1. Inv => TypeOK
  BY DEF Inv
<1> QED
  BY InvHolds, <1>1, PTL

(* Every round asks every peer once and in order, and there are at most    *)
(* MaxRounds, however many peers discovery named.                          *)
THEOREM RoundsAreWhole == Spec => []EveryPeerEveryRound
<1>1. Inv => EveryPeerEveryRound
  BY DEF Inv
<1> QED
  BY InvHolds, <1>1, PTL

(* own_ticket stops at the first round without dissent, and only there or  *)
(* when the rounds are used up.                                            *)
THEOREM StopsAtAgreement == Spec => []NoRoundAfterAgreement
<1>1. Inv => NoRoundAfterAgreement
  BY DEF Inv
<1> QED
  BY InvHolds, <1>1, PTL

(* What _refine_alternatives ruled out, an answer in the record ruled out, *)
(* in favour of an alternative that is still recommended.                  *)
THEOREM RulingsAreBacked == Spec => []RuledOutForARecommended
<1>1. Inv => RuledOutForARecommended
  BY DEF Inv
<1> QED
  BY InvHolds, <1>1, PTL

(* _assemble_finding asks no human only when all peers agreed in the last  *)
(* round, none was silent or stated a need for authority in any round, and *)
(* an alternative is recommended.                                          *)
THEOREM QuietFindings == Spec => []QuietFindingIsUnanimous
<1>1. Inv => QuietFindingIsUnanimous
  <2> SUFFICES ASSUME Inv, stage = "decided", ~RequiresHuman
               PROVE  QuietFindingIsUnanimous
    BY DEF QuietFindingIsUnanimous
  <2>1. /\ finding = Summary
        /\ Round \in Nat \ {0} /\ Round \in 1 .. Round
        /\ \A k \in 1 .. Round : Len(heard[k]) = Len(peers)
    BY RoundFacts DEF Inv, Summarised, Progress, EveryPeerEveryRound
  <2>2. /\ Members \ Implemented = {} /\ Whose("authority") = {}
        /\ ~(~converged /\ peers # <<>>) /\ Whose("timedOut") = {}
        /\ ~(recommended = {} /\ peers # <<>>)
    BY <2>1 DEF RequiresHuman, Summary
  <2>3. \A i \in 1 .. Len(peers) : Assents(Said[i].answer)
    <3>1. CASE peers = <<>>
      BY <3>1, EmptySeq
    <3>2. CASE peers # <<>>
      BY <2>1, <2>2, <3>2 DEF Inv, NoRoundAfterAgreement, HasConverged, Said
    <3> QED
      BY <3>1, <3>2
  <2>4. ASSUME NEW k \in 1 .. Round, NEW i \in 1 .. Len(heard[k])
        PROVE  ~heard[k][i].answer.timedOut /\ ~heard[k][i].answer.authority
    <3>1. i \in 1 .. Len(peers) /\ heard[k][i].answer \in Answer
      BY <2>1, RoundFacts DEF Inv
    <3>2. ~heard[k][i].answer["timedOut"] /\ ~heard[k][i].answer["authority"]
      BY <2>2, <3>1 DEF Whose
    <3> QED
      BY <3>2
  <2>5. peers # <<>> => finding.recommends \in recommended
    <3>1. recommended # {} => First(recommended) \in recommended
      BY FirstExists, AlternativeFacts DEF Inv, TypeOK
    <3> QED
      BY <2>1, <2>2, <3>1 DEF Summary
  <2> QED
    BY <2>2, <2>3, <2>4, <2>5 DEF QuietFindingIsUnanimous
<1> QED
  BY InvHolds, <1>1, PTL

(* The table of teams and the points for a human, made by different rules, *)
(* agree: whoever must sign off is named to a human unless it never said   *)
(* why, and whoever is missing from the table is named as unreachable.     *)
THEOREM SignOffsReachAHuman == Spec => []SignOffsAreEscalated
<1>1. Inv => SignOffsAreEscalated
  <2> SUFFICES ASSUME Inv, stage = "decided"
               PROVE  /\ SignOffs \subseteq finding.authority \cup Unexplained
                      /\ Members \ TeamsInvolved \subseteq finding.unreachable
    BY DEF SignOffsAreEscalated
  <2>1. /\ finding.authority = Whose("authority")
        /\ finding.unreachable = Whose("timedOut")
        /\ Round \in 1 .. Round
    BY RoundFacts DEF Inv, Summarised, Summary, Progress
  <2>2. ASSUME NEW p \in SignOffs
        PROVE  p \in finding.authority \cup Unexplained
    <3>1. PICK j \in 1 .. Len(peers) : p = peers[j]
      BY DEF SignOffs
    <3>2. CASE \E k \in 1 .. Round : heard[k][j].answer.authority
      <4>1. \E k \in 1 .. Round : heard[k][j].answer["authority"]
        BY <3>2
      <4> QED
        BY <2>1, <3>1, <4>1 DEF Whose
    <3>3. CASE \A k \in 1 .. Round : ~heard[k][j].answer.authority
      BY <3>1, <3>3 DEF Unexplained
    <3> QED
      BY <3>2, <3>3
  <2>3. ASSUME NEW p \in Members \ TeamsInvolved
        PROVE  p \in finding.unreachable
    <3>1. PICK j \in 1 .. Len(peers) : p = peers[j]
      BY DEF Members
    <3>2. heard[Round][j].answer.timedOut
      BY <2>1, <3>1 DEF TeamsInvolved
    <3>3. \E k \in 1 .. Round : heard[k][j].answer["timedOut"]
      BY <2>1, <3>2
    <3> QED
      BY <2>1, <3>1, <3>3 DEF Whose
  <2> QED
    BY <2>2, <2>3
<1> QED
  BY InvHolds, <1>1, PTL

(* A recommendation, a ruling and a decided finding are never taken back. *)
THEOREM NothingTakenBack == Spec => NothingIsTakenBack
<1>1. Inv /\ [Next]_vars =>
        [/\ recommended \subseteq recommended'
         /\ \A a \in Alternative : ruledOut[a] # Standing => UNCHANGED ruledOut[a]
         /\ stage = "decided" => UNCHANGED vars]_vars
  BY DEF Next, vars, Investigate, Discover, Consult, Refine, Converge, NextRound, GiveUp,
         Assemble, Raise
<1> QED
  BY InvHolds, <1>1, PTL DEF Spec, NothingIsTakenBack

-----------------------------------------------------------------------------
(* Every answer in the record is one that its team may give. *)
Answered ==
  \A k \in 1 .. Round : \A i \in 1 .. Len(heard[k]) :
    heard[k][i].answer \in AnswersOf(heard[k][i].from)

LEMMA AnsweredInit == Init => Answered
  BY EmptySeq DEF Init, Answered, Round

LEMMA AnsweredStep == Inv /\ Answered /\ [Next]_vars => Answered'
<1> SUFFICES ASSUME Inv, Answered, [Next]_vars PROVE Answered'
  OBVIOUS
<1>1. CASE UNCHANGED heard
  BY <1>1 DEF Answered, Round
<1>2. CASE Discover
  <2>1. Len(heard') = 1 /\ Len(heard'[1]) = 0
    BY <1>2, DiscoverOpens, EmptySeq
  <2> QED
    BY <2>1 DEF Answered, Round
<1>3. CASE Consult
  <2>1. PICK e \in Entry :
          /\ Len(heard') = Round
          /\ Round \in Nat \ {0} /\ Round \in 1 .. Round
          /\ Len(heard'[Round]) = Len(Said) + 1
          /\ heard'[Round][Len(Said) + 1] = e
          /\ \A i \in 1 .. Len(Said) : heard'[Round][i] = Said[i]
          /\ \A k \in 1 .. Round : k # Round => heard'[k] = heard[k]
          /\ e.answer \in AnswersOf(e.from)
    BY <1>3, ConsultAppends DEF Inv
  <2>2. Len(Said) \in Nat
    BY <2>1, RoundFacts DEF Inv, Said
  <2>3. ASSUME NEW k \in 1 .. Round, NEW i \in 1 .. Len(heard'[k])
        PROVE  heard'[k][i].answer \in AnswersOf(heard'[k][i].from)
    <3>1. CASE k # Round
      BY <2>1, <2>3, <3>1 DEF Answered
    <3>2. CASE k = Round /\ i \in 1 .. Len(Said)
      BY <2>1, <2>3, <3>2 DEF Answered, Said
    <3>3. CASE k = Round /\ i = Len(Said) + 1
      BY <2>1, <2>3, <3>3
    <3> QED
      BY <2>1, <2>2, <2>3, <3>1, <3>2, <3>3
  <2> QED
    BY <2>1, <2>3 DEF Answered, Round
<1>4. CASE NextRound
  <2>1. /\ Len(heard') = Round + 1 /\ Len(heard'[Round + 1]) = 0
        /\ \A k \in 1 .. Round : heard'[k] = heard[k]
        /\ Round \in Nat
    BY <1>4, NextRoundOpens, EmptySeq DEF Inv
  <2> HIDE DEF Round
  <2>2. Round' = Round + 1
    BY <2>1 DEF Round
  <2>3. ASSUME NEW k \in 1 .. Round + 1, NEW i \in 1 .. Len(heard'[k])
        PROVE  heard'[k][i].answer \in AnswersOf(heard'[k][i].from)
    <3>1. k \in 1 .. Round
      BY <2>1, <2>3
    <3> QED
      BY <2>1, <2>3, <3>1 DEF Answered
  <2> QED
    BY <2>2, <2>3 DEF Answered
<1> QED
  BY <1>1, <1>2, <1>3, <1>4
     DEF Next, vars, Investigate, Refine, Converge, GiveUp, Assemble, Raise

LEMMA AnsweredHolds == Spec => []Answered
  BY InvHolds, AnsweredInit, AnsweredStep, PTL DEF Spec

(* A peer that discovery names and nobody deployed uses up all the rounds  *)
(* of own_ticket, keeps it from converging, and is named to the human.     *)
THEOREM AbsentPeers == Spec => []AbsentPeerCostsEveryRound
<1>1. Inv /\ Answered => AbsentPeerCostsEveryRound
  <2> SUFFICES ASSUME Inv, Answered, stage = "decided", ~(Members \subseteq Deployed)
               PROVE  /\ Round = MaxRounds
                      /\ ~converged
                      /\ Members \ Deployed \subseteq finding.unreachable
    BY DEF AbsentPeerCostsEveryRound
  <2>1. /\ Round \in Nat \ {0} /\ Round \in 1 .. Round
        /\ Len(Said) = Len(peers)
        /\ \A i \in 1 .. Len(Said) : Said[i].from = peers[i]
        /\ finding = Summary
    BY RoundFacts DEF Inv, Progress, EveryPeerEveryRound, Said, Summarised
  <2>2. \A i \in 1 .. Len(peers) : peers[i] \notin Deployed => Said[i].answer = NoAnswer
    BY <2>1 DEF Answered, AnswersOf, Said
  <2>3. PICK i \in 1 .. Len(peers) : peers[i] \notin Deployed
    BY DEF Members
  <2>4. ~HasConverged(Said)
    BY <2>1, <2>2, <2>3 DEF HasConverged, Assents, NoAnswer
  <2>5. Members \ Deployed \subseteq Whose("timedOut")
    <3>1. ASSUME NEW t \in Members, t \notin Deployed PROVE t \in Whose("timedOut")
      <4>1. PICK j \in 1 .. Len(peers) : t = peers[j]
        BY DEF Members
      <4>2. heard[Round][j].answer["timedOut"]
        BY <2>2, <3>1, <4>1 DEF NoAnswer, Said
      <4> QED
        BY <2>1, <4>1, <4>2 DEF Whose
    <3> QED
      BY <3>1
  <2> QED
    BY <2>1, <2>4, <2>5 DEF Inv, NoRoundAfterAgreement, Summary
<1> QED
  BY InvHolds, AnsweredHolds, <1>1, PTL

-----------------------------------------------------------------------------
(* The refinement.  A finished round is its set of dissenting seats.       *)

Dissenters(round) == {i \in 1 .. Len(peers) : ~Assents(round[i].answer)}

LEMMA DissentFacts ==
  ASSUME Inv, stage # "raised"
  PROVE  /\ Finished \in Nat /\ Finished <= Round
         /\ Dissent \in Seq(SUBSET (1 .. Len(peers)))
         /\ Len(Dissent) = Finished
         /\ \A k \in 1 .. Finished : Dissent[k] = Dissenters(heard[k])
<1>1. Finished \in Nat /\ Finished <= Round
  BY RoundFacts DEF Inv, Progress, Finished
<1>2. Dissent = [k \in 1 .. Finished |-> Dissenters(heard[k])]
  BY DEF Dissent, Dissenters
<1>3. Dissent \in [1 .. Finished -> SUBSET (1 .. Len(peers))]
  BY <1>2 DEF Dissenters
<1>4. Dissent \in Seq(SUBSET (1 .. Len(peers)))
  BY <1>1, <1>3, SeqDef
<1>5. Len(Dissent) \in Nat /\ DOMAIN Dissent = 1 .. Len(Dissent)
  BY <1>4, LenProperties
<1> HIDE DEF Finished
<1>6. Len(Dissent) = Finished
  BY <1>1, <1>3, <1>5
<1> QED
  BY <1>1, <1>2, <1>4, <1>6

(* A step that keeps the finished rounds keeps their dissent. *)
LEMMA DissentKept ==
  ASSUME stage # "raised", stage' # "raised", peers' = peers, Finished' = Finished,
         \A k \in 1 .. Finished : heard'[k] = heard[k]
  PROVE  Dissent' = Dissent
<1> HIDE DEF Finished
<1>1. Dissent' = [k \in 1 .. Finished' |-> Dissenters(heard[k])']
  BY DEF Dissent, Dissenters
<1>2. \A k \in 1 .. Finished : Dissenters(heard[k])' = Dissenters(heard[k])
  BY DEF Dissenters
<1>3. Dissent = [k \in 1 .. Finished |-> Dissenters(heard[k])]
  BY DEF Dissent, Dissenters
<1> QED
  BY <1>1, <1>2, <1>3

LEMMA BoardInit == Init => Board!Init
<1> SUFFICES ASSUME Init PROVE Board!Init
  OBVIOUS
<1>1. Inv /\ stage = "intake" /\ Finished = 0 /\ Len(peers) = 0
  BY InitInv, EmptySeq DEF Init, Finished, Round
<1>2. Dissent = <<>>
  BY <1>1, DissentFacts, EmptySeq
<1> QED
  BY <1>1, <1>2 DEF Board!Init

LEMMA BoardStep == Inv /\ Inv' /\ [Next]_vars => [Board!Next]_(Board!vars)
<1> SUFFICES ASSUME Inv, Inv', [Next]_vars PROVE [Board!Next]_(Board!vars)
  OBVIOUS
<1> DEFINE outcome == IF stage = "raised" THEN "failed"
                      ELSE IF stage # "decided" THEN "open"
                      ELSE IF RequiresHuman THEN "escalated" ELSE "settled"
<1>1. CASE Investigate
  <2>1. /\ stage = "intake" /\ stage' = "discover"
        /\ UNCHANGED <<peers, heard>>
    BY <1>1 DEF Investigate
  <2>2. Finished' = Finished
    BY <2>1 DEF Finished, Round
  <2>3. Dissent' = Dissent
    BY <2>1, <2>2, DissentKept
  <2> QED
    BY <2>1, <2>3 DEF Board!vars
<1>2. CASE Discover
  <2>1. /\ stage = "discover" /\ stage' = "consult" /\ heard = <<>>
        /\ Len(heard') = 1 /\ Len(peers') \in Nat
    BY <1>2, DiscoverOpens, LenProperties DEF Discover, Inv, Progress
  <2>2. Finished = 0 /\ Finished' = 0
    BY <2>1, EmptySeq DEF Finished, Round
  <2>3. Dissent = <<>>
    BY <2>1, <2>2, DissentFacts, EmptySeq
  <2>4. Dissent' = <<>>
    <3>1. Dissent' = [k \in 1 .. Finished' |->
                        {i \in 1 .. Len(peers') : ~Assents(heard'[k][i].answer)}]
      BY <2>1 DEF Dissent, Assents
    <3>2. 1 .. Finished' = {} /\ 1 .. Finished = {}
      BY <2>2
    <3>3. Dissent = [k \in 1 .. Finished |->
                        {i \in 1 .. Len(peers) : ~Assents(heard[k][i].answer)}]
      BY <2>1 DEF Dissent
    <3> QED
      BY <2>3, <3>1, <3>2, <3>3
  <2>5. Board!Convene
    BY <2>1, <2>3, <2>4 DEF Board!Convene
  <2> QED
    BY <2>5 DEF Board!Next
<1>3. CASE Consult
  <2>1. /\ stage = "consult" /\ stage' = "consult" /\ peers' = peers
        /\ Len(heard') = Round /\ Round \in Nat
        /\ \A k \in 1 .. Round : k # Round => heard'[k] = heard[k]
    BY <1>3, ConsultAppends DEF Consult, Inv
  <2>2. Finished' = Finished /\ Finished = Round - 1
    BY <2>1 DEF Finished, Round
  <2>3. \A k \in 1 .. Finished : heard'[k] = heard[k]
    BY <2>1, <2>2
  <2>4. Dissent' = Dissent
    BY <2>1, <2>2, <2>3, DissentKept
  <2> QED
    BY <2>1, <2>4 DEF Board!vars
<1>4. CASE Refine
  <2>1. /\ stage = "consult" /\ stage' = "refined" /\ peers' = peers /\ heard' = heard
        /\ Round \in Nat \ {0}
    BY <1>4, RoundFacts DEF Refine, Inv, Progress
  <2>2. Finished = Round - 1 /\ Finished' = Round
    BY <2>1 DEF Finished, Round
  <2>3. /\ Dissent \in Seq(SUBSET (1 .. Len(peers)))
        /\ Len(Dissent) = Round - 1
        /\ \A k \in 1 .. Round - 1 : Dissent[k] = Dissenters(heard[k])
    BY <2>1, <2>2, DissentFacts
  <2> DEFINE D == Dissenters(Said)
  <2>4. D \in SUBSET (1 .. Len(peers))
    BY DEF Dissenters
  <2>5. /\ Append(Dissent, D) \in Seq(SUBSET (1 .. Len(peers)))
        /\ Len(Append(Dissent, D)) = Round
        /\ \A k \in 1 .. Round : Append(Dissent, D)[k] = Dissenters(heard[k])
    <3> HIDE DEF D
    <3>1. /\ Append(Dissent, D) \in Seq(SUBSET (1 .. Len(peers)))
          /\ Len(Append(Dissent, D)) = Len(Dissent) + 1
          /\ \A k \in 1 .. Len(Dissent) : Append(Dissent, D)[k] = Dissent[k]
          /\ Append(Dissent, D)[Len(Dissent) + 1] = D
      BY <2>3, <2>4, AppendProperties
    <3>2. Append(Dissent, D)[Round] = Dissenters(heard[Round])
      BY <2>1, <2>3, <3>1 DEF D, Said
    <3> QED
      BY <2>1, <2>3, <3>1, <3>2
  <2>6. Dissent' = [k \in 1 .. Round |-> Dissenters(heard[k])]
    BY <2>1, <2>2 DEF Dissent, Dissenters
  <2>7. Dissent' = Append(Dissent, D)
    <3> HIDE DEF D
    <3>1. Append(Dissent, D) \in [1 .. Round -> SUBSET (1 .. Len(peers))]
      BY <2>5, LenProperties
    <3>2. Append(Dissent, D) = [k \in 1 .. Round |-> Append(Dissent, D)[k]]
      BY <3>1
    <3> QED
      BY <2>5, <2>6, <3>2
  <2>8. Dissent # <<>> => Dissent[Len(Dissent)] # {}
    <3> SUFFICES ASSUME Dissent # <<>> PROVE Dissent[Len(Dissent)] # {}
      OBVIOUS
    <3>1. Round - 1 \in 1 .. Round - 1
      BY <2>1, <2>3, EmptySeq
    <3>2. ~HasConverged(heard[Round - 1]) /\ Len(heard[Round - 1]) = Len(peers)
      BY <2>1, <3>1 DEF Inv, NoRoundAfterAgreement, EveryPeerEveryRound
    <3> QED
      BY <2>3, <3>1, <3>2 DEF HasConverged, Dissenters
  <2>9. Round <= MaxRounds
    BY DEF Inv, EveryPeerEveryRound
  <2>10. Board!Poll
    BY <2>1, <2>3, <2>4, <2>7, <2>8, <2>9, DeliberationAssumption
       DEF Board!Poll, Board!Unanimous
  <2> QED
    BY <2>10 DEF Board!Next
<1>5. CASE Converge \/ GiveUp
  <2>1. /\ stage = "refined" /\ stage' = "assemble" /\ peers' = peers /\ heard' = heard
    BY <1>5 DEF Converge, GiveUp
  <2>2. Finished' = Finished
    BY <2>1 DEF Finished, Round
  <2>3. Dissent' = Dissent
    BY <2>1, <2>2, DissentKept
  <2> QED
    BY <2>1, <2>3 DEF Board!vars
<1>6. CASE NextRound
  <2>1. /\ stage = "refined" /\ stage' = "consult" /\ peers' = peers
        /\ Len(heard') = Round + 1 /\ Round \in Nat
        /\ \A k \in 1 .. Round : heard'[k] = heard[k]
    BY <1>6, NextRoundOpens DEF NextRound, Inv
  <2>2. Finished' = Finished /\ Finished = Round
    BY <2>1 DEF Finished, Round
  <2>3. \A k \in 1 .. Finished : heard'[k] = heard[k]
    BY <2>1, <2>2
  <2>4. Dissent' = Dissent
    BY <2>1, <2>2, <2>3, DissentKept
  <2> QED
    BY <2>1, <2>4 DEF Board!vars
<1>7. CASE Assemble
  <2>1. /\ stage = "assemble" /\ stage' = "decided" /\ peers' = peers /\ heard' = heard
        /\ converged' = converged /\ recommended' = recommended
        /\ Round \in Nat \ {0} /\ Round \in 1 .. Round
    BY <1>7, RoundFacts DEF Assemble, Inv, Progress
  <2>2. Finished' = Finished /\ Finished = Round
    BY <2>1 DEF Finished, Round
  <2>3. Dissent' = Dissent
    BY <2>1, <2>2, DissentKept
  <2>4. /\ Len(Dissent) = Round /\ Dissent # <<>>
        /\ Dissent[Round] = Dissenters(Said)
    BY <2>1, <2>2, DissentFacts, EmptySeq DEF Said
  <2>5. /\ converged <=> HasConverged(Said)
        /\ converged \/ Round = MaxRounds
        /\ Len(Said) = Len(peers)
    BY <2>1 DEF Inv, NoRoundAfterAgreement, EveryPeerEveryRound, Said
  <2>6. converged => Dissent[Round] = {}
    BY <2>4, <2>5 DEF HasConverged, Dissenters
  <2>7. CASE RequiresHuman'
    <3>1. Board!Escalate
      BY <2>1, <2>3, <2>4, <2>5, <2>6, <2>7 DEF Board!Escalate, Board!Unanimous
    <3> QED
      BY <3>1 DEF Board!Next
  <2>8. CASE ~RequiresHuman'
    <3>1. converged \/ peers = <<>>
      BY <1>7, <2>8 DEF Assemble, RequiresHuman, Summary
    <3>2. peers = <<>> => Dissent[Round] = {}
      BY <2>4, EmptySeq DEF Dissenters
    <3>3. Board!Settle
      BY <2>1, <2>3, <2>4, <2>6, <2>8, <3>1, <3>2 DEF Board!Settle, Board!Unanimous
    <3> QED
      BY <3>3 DEF Board!Next
  <2> QED
    BY <2>7, <2>8
<1>8. CASE Raise
  <2>1. /\ stage \notin {"raised", "decided"} /\ stage' = "raised" /\ peers' = peers
    BY <1>8 DEF Raise
  <2>2. Dissent' = <<>>
    BY <2>1 DEF Dissent
  <2>3. Board!Fail
    BY <2>1, <2>2 DEF Board!Fail
  <2> QED
    BY <2>3 DEF Board!Next
<1>9. CASE UNCHANGED vars
  <2>1. UNCHANGED <<stage, peers, heard, finding>>
    BY <1>9 DEF vars
  <2>2. Finished' = Finished
    BY <2>1 DEF Finished, Round
  <2>3. Dissent' = Dissent
    BY <2>1, <2>2 DEF Dissent, Assents, Finished, Round
  <2> QED
    BY <2>1, <2>3 DEF Board!vars, RequiresHuman
<1> QED
  BY <1>1, <1>2, <1>3, <1>4, <1>5, <1>6, <1>7, <1>8, <1>9 DEF Next

(* own_ticket keeps the promise of a review board, for any board, any      *)
(* answers and any number of rounds: it settles a matter only after a      *)
(* round without dissent, and leaves it to a human only after such a round *)
(* or when the rounds are used up.                                         *)
THEOREM KeepsBoardPromise == Spec => BoardSpec
<1>1. Spec => Board!Init
  BY BoardInit DEF Spec
<1>2. Spec => [][Board!Next]_(Board!vars)
  BY InvHolds, BoardStep, PTL DEF Spec
<1> QED
  BY <1>1, <1>2 DEF BoardSpec, Board!Spec

-----------------------------------------------------------------------------
(* What was recorded as new was seen: with it, ConcernIsNewOnce is         *)
(* inductive.                                                              *)
NewIsSeen ==
  \A k \in 1 .. Round : \A i \in 1 .. Len(heard[k]) :
    ToSet(heard[k][i].newHere) \subseteq seenConcerns

LEMMA NewOnceStep ==
  Inv /\ NewIsSeen /\ ConcernIsNewOnce /\ [Next]_vars => NewIsSeen' /\ ConcernIsNewOnce'
<1> SUFFICES ASSUME Inv, NewIsSeen, ConcernIsNewOnce, [Next]_vars
             PROVE  NewIsSeen' /\ ConcernIsNewOnce'
  OBVIOUS
<1>1. CASE UNCHANGED <<heard, seenConcerns>>
  <2>1. heard' = heard /\ seenConcerns' = seenConcerns
    BY <1>1
  <2>2. NewIsSeen'
    BY <2>1 DEF NewIsSeen, Round
  <2>3. ConcernIsNewOnce'
    <3> DEFINE News(k, i) == ToSet(heard[k][i].newHere)
    <3>1. \A k, i : ToSet(heard'[k][i].newHere) = News(k, i)
      BY <2>1
    <3>2. Round' = Round
      BY <2>1 DEF Round
    <3>3. /\ \A c \in seenConcerns : \E k \in 1 .. Round : \E i \in 1 .. Len(heard[k]) : c \in News(k, i)
          /\ \A k, m \in 1 .. Round : \A i \in 1 .. Len(heard[k]), j \in 1 .. Len(heard[m]) :
               News(k, i) \cap News(m, j) # {} => k = m /\ i = j
      BY DEF ConcernIsNewOnce
    <3> HIDE DEF News
    <3>4. \A c \in seenConcerns' : \E k \in 1 .. Round' : \E i \in 1 .. Len(heard'[k]) :
            c \in ToSet(heard'[k][i].newHere)
      BY <2>1, <3>1, <3>2, <3>3
    <3>5. \A k, m \in 1 .. Round' : \A i \in 1 .. Len(heard'[k]), j \in 1 .. Len(heard'[m]) :
            ToSet(heard'[k][i].newHere) \cap ToSet(heard'[m][j].newHere) # {} => k = m /\ i = j
      <4> SUFFICES ASSUME NEW k \in 1 .. Round', NEW m \in 1 .. Round',
                          NEW i \in 1 .. Len(heard'[k]), NEW j \in 1 .. Len(heard'[m]),
                          ToSet(heard'[k][i].newHere) \cap ToSet(heard'[m][j].newHere) # {}
                   PROVE  k = m /\ i = j
        OBVIOUS
      <4>1. /\ k \in 1 .. Round /\ m \in 1 .. Round
            /\ i \in 1 .. Len(heard[k]) /\ j \in 1 .. Len(heard[m])
        BY <2>1, <3>2
      <4>2. News(k, i) \cap News(m, j) # {}
        BY <3>1
      <4> QED
        BY <3>3, <4>1, <4>2
    <3> QED
      BY <3>4, <3>5 DEF ConcernIsNewOnce
  <2> QED
    BY <2>2, <2>3
<1>2. CASE Discover
  <2>1. Len(heard') = 1 /\ Len(heard'[1]) = 0 /\ seenConcerns' = seenConcerns
    BY <1>2, DiscoverOpens, EmptySeq DEF Discover
  <2>2. seenConcerns = {}
    <3>1. Round = 0
      BY <1>2, EmptySeq DEF Discover, Inv, Progress, Round
    <3> QED
      BY <3>1 DEF ConcernIsNewOnce
  <2> QED
    BY <2>1, <2>2 DEF NewIsSeen, ConcernIsNewOnce, Round
<1>3. CASE Consult
  <2>1. PICK e \in Entry :
          /\ Len(heard') = Round
          /\ Round \in Nat \ {0} /\ Round \in 1 .. Round
          /\ Len(heard'[Round]) = Len(Said) + 1
          /\ heard'[Round][Len(Said) + 1] = e
          /\ \A i \in 1 .. Len(Said) : heard'[Round][i] = Said[i]
          /\ \A k \in 1 .. Round : k # Round => heard'[k] = heard[k]
          /\ ToSet(e.newHere) = ToSet(e.answer.concerns) \ seenConcerns
          /\ seenConcerns' = seenConcerns \cup ToSet(e.answer.concerns)
    BY <1>3, ConsultAppends DEF Inv
  <2>2. Len(Said) \in Nat
    BY <2>1, RoundFacts DEF Inv, Said
  <2> DEFINE New(k, i) == k = Round /\ i = Len(Said) + 1
  <2>3. ASSUME NEW k \in 1 .. Round, NEW i \in 1 .. Len(heard'[k]), ~New(k, i)
        PROVE  i \in 1 .. Len(heard[k]) /\ heard'[k][i] = heard[k][i]
    BY <2>1, <2>2, <2>3 DEF Said
  <2>4. ASSUME NEW k \in 1 .. Round, NEW i \in 1 .. Len(heard[k])
        PROVE  i \in 1 .. Len(heard'[k]) /\ heard'[k][i] = heard[k][i]
    BY <2>1, <2>2, <2>4 DEF Said
  <2>5. NewIsSeen'
    <3>1. ASSUME NEW k \in 1 .. Round, NEW i \in 1 .. Len(heard'[k])
          PROVE  ToSet(heard'[k][i].newHere) \subseteq seenConcerns'
      <4>1. CASE New(k, i)
        BY <2>1, <4>1
      <4>2. CASE ~New(k, i)
        BY <2>1, <2>3, <4>2 DEF NewIsSeen
      <4> QED
        BY <4>1, <4>2
    <3> QED
      BY <2>1, <3>1 DEF NewIsSeen, Round
  <2>6. ASSUME NEW c \in seenConcerns'
        PROVE  \E k \in 1 .. Round : \E i \in 1 .. Len(heard'[k]) : c \in ToSet(heard'[k][i].newHere)
    <3>1. CASE c \in seenConcerns
      <4>1. PICK k \in 1 .. Round : \E i \in 1 .. Len(heard[k]) : c \in ToSet(heard[k][i].newHere)
        BY <3>1 DEF ConcernIsNewOnce
      <4>2. PICK i \in 1 .. Len(heard[k]) : c \in ToSet(heard[k][i].newHere)
        BY <4>1
      <4> QED
        BY <2>4, <4>2
    <3>2. CASE c \notin seenConcerns
      <4>1. c \in ToSet(heard'[Round][Len(Said) + 1].newHere)
        BY <2>1, <2>6, <3>2
      <4>2. Len(Said) + 1 \in 1 .. Len(heard'[Round])
        BY <2>1, <2>2
      <4> QED
        BY <2>1, <4>1, <4>2
    <3> QED
      BY <3>1, <3>2
  <2>7. ASSUME NEW k \in 1 .. Round, NEW m \in 1 .. Round,
               NEW i \in 1 .. Len(heard'[k]), NEW j \in 1 .. Len(heard'[m]),
               ToSet(heard'[k][i].newHere) \cap ToSet(heard'[m][j].newHere) # {}
        PROVE  k = m /\ i = j
    <3>1. CASE New(k, i) /\ New(m, j)
      BY <3>1
    <3>2. CASE New(k, i) /\ ~New(m, j)
      <4>1. ToSet(heard'[m][j].newHere) \subseteq seenConcerns
        BY <2>3, <3>2 DEF NewIsSeen
      <4> QED
        BY <2>1, <2>7, <3>2, <4>1
    <3>3. CASE ~New(k, i) /\ New(m, j)
      <4>1. ToSet(heard'[k][i].newHere) \subseteq seenConcerns
        BY <2>3, <3>3 DEF NewIsSeen
      <4> QED
        BY <2>1, <2>7, <3>3, <4>1
    <3>4. CASE ~New(k, i) /\ ~New(m, j)
      <4> HIDE DEF New
      <4>1. i \in 1 .. Len(heard[k]) /\ heard'[k][i] = heard[k][i]
        BY <2>3, <3>4
      <4>2. j \in 1 .. Len(heard[m]) /\ heard'[m][j] = heard[m][j]
        BY <2>3, <3>4
      <4>3. ToSet(heard[k][i].newHere) \cap ToSet(heard[m][j].newHere) # {}
        BY <2>7, <4>1, <4>2
      <4> QED
        BY <4>1, <4>2, <4>3 DEF ConcernIsNewOnce
    <3> QED
      BY <3>1, <3>2, <3>3, <3>4
  <2> QED
    BY <2>1, <2>5, <2>6, <2>7 DEF ConcernIsNewOnce, Round
<1>4. CASE NextRound
  <2>1. /\ Len(heard') = Round + 1 /\ Len(heard'[Round + 1]) = 0
        /\ \A k \in 1 .. Round : heard'[k] = heard[k]
        /\ Round \in Nat /\ seenConcerns' = seenConcerns
    BY <1>4, NextRoundOpens, EmptySeq DEF NextRound, Inv
  <2> HIDE DEF Round
  <2>2. Round' = Round + 1
    BY <2>1 DEF Round
  <2>3. \A k \in 1 .. Round + 1 : \A i \in 1 .. Len(heard'[k]) : k \in 1 .. Round
    BY <2>1
  <2>4. \A c \in seenConcerns : \E k \in 1 .. Round + 1 :
           \E i \in 1 .. Len(heard'[k]) : c \in ToSet(heard'[k][i].newHere)
    <3> TAKE c \in seenConcerns
    <3>1. PICK k \in 1 .. Round : \E i \in 1 .. Len(heard[k]) : c \in ToSet(heard[k][i].newHere)
      BY DEF ConcernIsNewOnce
    <3>2. k \in 1 .. Round + 1 /\ heard'[k] = heard[k]
      BY <2>1
    <3> QED
      BY <3>1, <3>2
  <2>5. NewIsSeen'
    BY <2>1, <2>2, <2>3 DEF NewIsSeen
  <2>6. \A k, m \in 1 .. Round + 1 :
          \A i \in 1 .. Len(heard'[k]), j \in 1 .. Len(heard'[m]) :
            ToSet(heard'[k][i].newHere) \cap ToSet(heard'[m][j].newHere) # {} => k = m /\ i = j
    <3> TAKE k, m \in 1 .. Round + 1
    <3> TAKE i \in 1 .. Len(heard'[k]), j \in 1 .. Len(heard'[m])
    <3>1. k \in 1 .. Round /\ m \in 1 .. Round
      BY <2>3
    <3>2. heard'[k] = heard[k] /\ heard'[m] = heard[m]
      BY <2>1, <3>1
    <3>3. i \in 1 .. Len(heard[k]) /\ j \in 1 .. Len(heard[m])
      BY <3>2
    <3>4. ToSet(heard[k][i].newHere) \cap ToSet(heard[m][j].newHere) # {} => k = m /\ i = j
      BY <3>1, <3>3 DEF ConcernIsNewOnce
    <3> QED
      BY <3>2, <3>4
  <2> QED
    BY <2>1, <2>2, <2>4, <2>5, <2>6 DEF ConcernIsNewOnce
<1> QED
  BY <1>1, <1>2, <1>3, <1>4
     DEF Next, vars, Investigate, Refine, Converge, GiveUp, Assemble, Raise

(* seen_concerns and new_concerns_raised agree: each concern that peers    *)
(* are told was raised before is new in exactly one answer of the record.  *)
THEOREM ConcernsNewOnce == Spec => []ConcernIsNewOnce
<1>1. Init => NewIsSeen /\ ConcernIsNewOnce
  BY EmptySeq DEF Init, NewIsSeen, ConcernIsNewOnce, Round
<1> QED
  BY InvHolds, <1>1, NewOnceStep, PTL DEF Spec

-----------------------------------------------------------------------------
(* The timeline. *)

(* A traced deliberation is one of Deliberation, by the way TicketTrace is *)
(* written, so that what is proved of it above may be used.                *)
LEMMA TracingChangesNothing == TraceSpec => Spec
<1>1. TraceInit => Init
  BY DEF TraceInit
<1>2. [TraceNext]_traceVars => [Next]_vars
  BY DEF TraceNext, traceVars, Investigating, Discovering, Consulting, Refining,
         Converging, GoingOn, GivingUp, Assembling, Failing, Next
<1> QED
  BY <1>1, <1>2, PTL DEF TraceSpec, Spec

-----------------------------------------------------------------------------
(* Events of another phase than the synthesis. *)
Plain(new) == IsList(new) /\ \A i \in 1 .. Len(new) : new[i].phase # "synthesis"

LEMMA PlainJoined ==
  ASSUME NEW s, NEW t, Plain(s), Plain(t)
  PROVE  Plain(s \o t)
<1>1. /\ IsList(s \o t) /\ Len(s) \in Nat /\ Len(t) \in Nat
      /\ Len(s \o t) = Len(s) + Len(t)
      /\ \A i \in 1 .. Len(s) + Len(t) :
           (s \o t)[i] = IF i <= Len(s) THEN s[i] ELSE t[i - Len(s)]
  BY Joined DEF Plain, IsList
<1>2. ASSUME NEW i \in 1 .. Len(s) + Len(t) PROVE (s \o t)[i].phase # "synthesis"
  <2>1. CASE i <= Len(s)
    BY <1>1, <2>1 DEF Plain
  <2>2. CASE ~(i <= Len(s))
    <3>1. i - Len(s) \in 1 .. Len(t)
      BY <1>1, <2>2
    <3> QED
      BY <1>1, <2>2, <3>1 DEF Plain
  <2> QED
    BY <2>1, <2>2
<1> QED
  BY <1>1, <1>2 DEF Plain

LEMMA NothingIsPlain == Plain(<<>>)
<1>1. IsList(<<>>) /\ Len(<<>>) = 0
  BY EmptySeq, SeqIsList
<1> QED
  BY <1>1 DEF Plain

LEMMA OneIsPlain ==
  ASSUME NEW e, e.phase # "synthesis"
  PROVE  Plain(<<e>>)
<1>1. <<e>> \in Seq({e}) /\ Len(<<e>>) = 1
  OBVIOUS
<1>2. ASSUME NEW i \in 1 .. Len(<<e>>) PROVE <<e>>[i] = e
  BY <1>1
<1>3. IsList(<<e>>)
  BY <1>1, SeqIsList
<1> QED
  BY <1>2, <1>3 DEF Plain

(* Events made one by one, none of which is of the synthesis. *)
LEMMA MadeIsPlain ==
  ASSUME NEW n \in Nat, NEW f, f = [i \in 1 .. n |-> f[i]],
         \A i \in 1 .. n : f[i].phase # "synthesis"
  PROVE  Plain(f)
  BY FunctionIsList DEF Plain

LEMMA InvestigationIsPlain ==
  ASSUME NEW found \in Investigations
  PROVE  Plain(InvestigationEvents(found))
<1>1. Len(found) \in Nat
  BY TraceAssumption, LenProperties
<1> QED
  BY <1>1, MadeIsPlain DEF InvestigationEvents, Note, Event

LEMMA ProposalIsPlain == Plain(ProposalEvents)
  BY MadeIsPlain DEF ProposalEvents, Note, Event

LEMMA OthersType == Others \in Seq(Team)
  BY TraceAssumption, KeptType DEF Others

LEMMA DiscoveryIsPlain ==
  ASSUME NEW signalled \in SignalLists, NEW consulted
  PROVE  Plain(DiscoveryEvents(signalled, consulted))
<1> DEFINE told    == [i \in 1 .. Len(signalled) |->
                         Note("discovery", "signal", 0, signalled[i])]
           decided == [i \in 1 .. Len(Others) |->
                         Event("discovery", "peer_decision", owner, Others[i], 0,
                               Others[i] \in consulted)]
           summary == <<Note("discovery", "finding", 0, "summary")>>
<1>1. Len(signalled) \in Nat /\ Len(Others) \in Nat
  BY TraceAssumption, OthersType, LenProperties
<1>2. Plain(told)
  BY <1>1, MadeIsPlain DEF Note, Event
<1>3. Plain(decided)
  BY <1>1, MadeIsPlain DEF Event
<1>4. Plain(summary)
  BY OneIsPlain DEF Note, Event
<1>5. DiscoveryEvents(signalled, consulted) =
        IF signalled = <<>> THEN <<>> ELSE told \o decided \o summary
  BY DEF DiscoveryEvents
<1> HIDE DEF told, decided, summary
<1> QED
  BY <1>2, <1>3, <1>4, <1>5, PlainJoined, NothingIsPlain

LEMMA AskIsPlain ==
  ASSUME NEW peer
  PROVE  Plain(<<Asks(peer)>>)
  BY OneIsPlain DEF Asks, Event

LEMMA AnswerIsPlain ==
  ASSUME NEW said, Len(said.newHere) \in Nat
  PROVE  Plain(AnswerEvents(said))
<1> DEFINE tells(k, x) == Event("deliberation", k, said.from, owner, Round, x)
           raised      == [i \in 1 .. Len(said.newHere) |-> tells("concern", said.newHere[i])]
<1>2. Plain(<<tells("response", Shown(said.answer))>>)
  BY OneIsPlain DEF Event
<1>3. Plain(raised)
  BY MadeIsPlain DEF Event
<1>4. AnswerEvents(said) = <<tells("response", Shown(said.answer))>> \o raised
  BY DEF AnswerEvents
<1> HIDE DEF raised, tells
<1> QED
  BY <1>2, <1>3, <1>4, PlainJoined

(* The points for a human, when only finitely many teams have one. *)
LEMMA PointsAreListed ==
  ASSUME NEW f, IsFiniteSet(f.undeployed), IsFiniteSet(f.authority)
  PROVE  IsList(HumanDecisionPoints(f))
<1>1. Cardinality(f.undeployed) \in Nat /\ Cardinality(f.authority) \in Nat
  BY FS_CardinalityType
<1>2. IsList(PointsAbout("undeployed", f.undeployed,
                       [p \in f.undeployed |-> SeatOf(p)]))
  BY <1>1, FunctionIsList DEF PointsAbout
<1>3. IsList(PointsAbout("authority", f.authority,
                       [p \in f.authority |-> ClaimedAt(p)]))
  BY <1>1, FunctionIsList DEF PointsAbout
<1>4. ASSUME NEW test, NEW point
      PROVE  IsList(IF test THEN <<point>> ELSE <<>>)
  <2>1. <<point>> \in Seq({point}) /\ <<>> \in Seq({point})
    OBVIOUS
  <2> QED
    BY <2>1, SeqIsList
<1>5. /\ IsList(IF f.tie THEN <<Point("tie", {})>> ELSE <<>>)
      /\ IsList(IF f.unreachable # {} THEN <<Point("unreachable", f.unreachable)>> ELSE <<>>)
      /\ IsList(IF f.undecided THEN <<Point("undecided", {})>> ELSE <<>>)
  BY <1>4
<1> QED
  BY <1>2, <1>3, <1>5, Joined DEF HumanDecisionPoints

LEMMA FindingIsPlain ==
  ASSUME NEW f, IsFiniteSet(f.undeployed), IsFiniteSet(f.authority)
  PROVE  Plain(FindingEvents(f))
<1> DEFINE points    == HumanDecisionPoints(f)
           escalated == [i \in 1 .. Len(points) |->
                           Note("decision", "escalation", 0, points[i])]
           artifact  == <<Note("artifact", "artifact", 0, f)>>
<1>1. Len(points) \in Nat
  BY PointsAreListed DEF IsList
<1>2. Plain(escalated)
  BY <1>1, MadeIsPlain DEF Note, Event
<1>3. Plain(artifact)
  BY OneIsPlain DEF Note, Event
<1>4. FindingEvents(f) = escalated \o artifact
  BY DEF FindingEvents
<1> HIDE DEF escalated, artifact
<1> QED
  BY <1>2, <1>3, <1>4, PlainJoined

(* The events of a round's synthesis. *)
LEMMA SynthesisIsListed ==
  ASSUME NEW backed, NEW ruling
  PROVE  IsList(SynthesisEvents(backed, ruling))
<1>1. ASSUME NEW a PROVE IsList(Synthesis(a, backed, ruling))
  <2>1. ASSUME NEW e PROVE IsList(<<e>>) /\ IsList(<<>>)
    <3>1. <<e>> \in Seq({e}) /\ <<>> \in Seq({e})
      OBVIOUS
    <3> QED
      BY <3>1, SeqIsList
  <2> QED
    BY <2>1 DEF Synthesis
<1> QED
  BY <1>1, Joined DEF SynthesisEvents

-----------------------------------------------------------------------------
(* The peers that have an agent: all of them review in every round. *)
Reviewers == Members \cap Deployed

Synthesised == \E i \in 1 .. Len(events) : events[i].phase = "synthesis"

(* Once the timeline tells of a synthesis, the list of reviewers that its  *)
(* events share is complete.                                               *)
ReviewersAreSettled ==
  /\ reviewedBy \in {{}, Reviewers}
  /\ Synthesised => reviewedBy = Reviewers
  /\ stage \in {"intake", "discover"} => ~Synthesised /\ reviewedBy = {}

Traced == owner \in Owners /\ IsList(events) /\ ReviewersAreSettled

TraceInv == Inv /\ Answered /\ Traced

LEMMA FiniteMembers ==
  ASSUME TypeOK
  PROVE  IsFiniteSet(Members)
<1>1. Len(peers) \in Nat /\ peers \in [1 .. Len(peers) -> Team]
  BY LenProperties DEF TypeOK
<1>2. [i \in 1 .. Len(peers) |-> peers[i]] \in Surjection(1 .. Len(peers), Members)
  BY <1>1 DEF Surjection, Members
<1>3. IsFiniteSet(1 .. Len(peers))
  BY <1>1, FS_Interval
<1> QED
  BY <1>2, <1>3, FS_Surjection

(* A round is reviewed by the peers that have an agent. *)
LEMMA RoundIsReviewed ==
  ASSUME Inv, Answered, stage = "consult", Len(Said) = Len(peers)
  PROVE  {Said[i].from : i \in {j \in 1 .. Len(Said) : ~Said[j].answer.timedOut}}
           = Reviewers
<1>1. Round \in 1 .. Round /\ Len(peers) \in Nat
  BY RoundFacts, LenProperties DEF Inv, TypeOK, Progress
<1>2. \A i \in 1 .. Len(peers) :
        /\ Said[i].from = peers[i]
        /\ Said[i].answer \in AnswersOf(peers[i])
  BY <1>1 DEF Inv, EveryPeerEveryRound, Answered, Said
<1>3. \A i \in 1 .. Len(peers) : Said[i].answer.timedOut <=> peers[i] \notin Deployed
  BY <1>2, TraceAssumption DEF AnswersOf, NoAnswer
<1> QED
  BY <1>2, <1>3 DEF Reviewers, Members

LEMMA LastIsConsulted ==
  ASSUME TypeOK, Progress, Consult
  PROVE  /\ Last(heard'[Round]) \in Entry
         /\ IsList(Last(heard'[Round]).newHere)
         /\ Len(Last(heard'[Round]).newHere) \in Nat
<1>1. PICK e \in Entry :
        /\ Len(heard'[Round]) = Len(Said) + 1
        /\ heard'[Round][Len(Said) + 1] = e
  BY ConsultAppends
<1>2. Last(heard'[Round]) = e
  BY <1>1 DEF Last
<1>3. e.newHere \in Seq(Concern)
  BY DEF Entry
<1> QED
  BY <1>2, <1>3, SeqIsList, LenProperties

(* Every step appends a list of events, of the synthesis only when a round *)
(* is folded in.                                                           *)
LEMMA StepEmits ==
  ASSUME TraceInv, TraceNext
  PROVE  \E new : IsList(new) /\ Emit(new) /\ (Refine \/ Plain(new))
<1> USE DEF TraceInv, Traced, Inv
<1>1. UNCHANGED events => Emit(<<>>)
  BY ListIsSeq, ConcatEmptySeq DEF Emit
<1>2. ASSUME NEW new, Plain(new), Emit(new)
      PROVE  \E more : IsList(more) /\ Emit(more) /\ (Refine \/ Plain(more))
  BY <1>2 DEF Plain
<1>3. CASE UNCHANGED events
  BY <1>1, <1>2, <1>3, NothingIsPlain
<1>4. CASE \E found \in Investigations : Investigating(found)
  <2>1. PICK found \in Investigations : Investigating(found)
    BY <1>4
  <2>2. Plain(InvestigationEvents(found) \o ProposalEvents)
    BY InvestigationIsPlain, ProposalIsPlain, PlainJoined
  <2> QED
    BY <1>2, <2>1, <2>2 DEF Investigating
<1>5. CASE \E signalled \in SignalLists : Discovering(signalled)
  BY <1>2, <1>5, DiscoveryIsPlain DEF Discovering
<1>6. CASE Consulting
  <2> DEFINE said == Last(heard'[Round])
  <2>1. Plain(<<Asks(said.from)>> \o AnswerEvents(said))
    <3>1. Len(said.newHere) \in Nat
      BY <1>6, LastIsConsulted DEF Consulting
    <3> HIDE DEF said
    <3> QED
      BY <3>1, AskIsPlain, AnswerIsPlain, PlainJoined
  <2> QED
    BY <1>2, <1>6, <2>1 DEF Consulting
<1>7. CASE Refining
  BY <1>7, SynthesisIsListed DEF Refining
<1>8. CASE Converging
  BY <1>2, <1>8, OneIsPlain DEF Converging, Note, Event
<1>9. CASE GivingUp
  <2>1. Plain(<<Note("decision", "convergence", Round, FALSE)>>)
    BY OneIsPlain DEF Note, Event
  <2> QED
    BY <1>2, <1>9, <2>1, NothingIsPlain DEF GivingUp
<1>10. CASE Assembling
  <2>1. finding' = Summary
    BY <1>10 DEF Assembling, Assemble
  <2>2. finding'.undeployed \subseteq Members /\ finding'.authority \subseteq Members
    BY <2>1 DEF Summary, Whose, Members
  <2>3. IsFiniteSet(finding'.undeployed) /\ IsFiniteSet(finding'.authority)
    BY <2>2, FiniteMembers, FS_Subset
  <2>4. Plain(FindingEvents(finding'))
    BY <2>3, FindingIsPlain
  <2> QED
    BY <1>2, <1>10, <2>4 DEF Assembling
<1>11. CASE Failing
  <2>1. CASE \E found \in Investigations : Emit(InvestigationEvents(found))
    BY <1>2, <2>1, InvestigationIsPlain
  <2>2. CASE Emit(<<Asks(peers[Len(Said) + 1])>>)
    BY <1>2, <2>2, AskIsPlain
  <2> QED
    BY <1>3, <1>11, <2>1, <2>2 DEF Failing
<1> QED
  BY <1>3, <1>4, <1>5, <1>6, <1>7, <1>8, <1>9, <1>10, <1>11 DEF TraceNext, GoingOn

(* What is on the timeline stays as it was emitted. *)
LEMMA StepAppends ==
  ASSUME TraceInv, [TraceNext]_traceVars
  PROVE  /\ IsList(events') /\ Len(events) <= Len(events')
         /\ \A i \in 1 .. Len(events) : events'[i] = events[i]
         /\ Synthesised' => Synthesised \/ Refine
<1>1. CASE UNCHANGED traceVars
  BY <1>1 DEF TraceInv, Traced, IsList, traceVars, Synthesised
<1>2. CASE TraceNext
  <2>1. PICK new : IsList(new) /\ Emit(new) /\ (Refine \/ Plain(new))
    BY <1>2, StepEmits
  <2>2. /\ IsList(events') /\ Len(events) \in Nat /\ Len(new) \in Nat
        /\ Len(events') = Len(events) + Len(new)
        /\ \A i \in 1 .. Len(events) + Len(new) :
             events'[i] = IF i <= Len(events) THEN events[i] ELSE new[i - Len(events)]
    <3>1. IsList(events) /\ events' = events \o new
      BY <2>1 DEF TraceInv, Traced, Emit
    <3>2. Len(events) \in Nat /\ Len(new) \in Nat
      BY <2>1, <3>1 DEF IsList
    <3> QED
      BY <2>1, <3>1, <3>2, Joined
  <2>3. ASSUME Synthesised', ~Refine PROVE Synthesised
    <3>1. PICK i \in 1 .. Len(events') : events'[i].phase = "synthesis"
      BY <2>3 DEF Synthesised
    <3>2. CASE i <= Len(events)
      BY <2>2, <3>1, <3>2 DEF Synthesised
    <3>3. CASE ~(i <= Len(events))
      <4>1. i - Len(events) \in 1 .. Len(new)
        BY <2>2, <3>3
      <4> QED
        BY <2>1, <2>2, <2>3, <3>1, <3>3, <4>1 DEF Plain
    <3> QED
      BY <3>2, <3>3
  <2> QED
    BY <2>2, <2>3
<1> QED
  BY <1>1, <1>2

(* The actions of the deliberation, and what they leave of the reviewers.  *)
LEMMA ReviewersKept ==
  ASSUME TraceInv, [TraceNext]_traceVars
  PROVE  \/ Refine /\ reviewedBy' = Reviewers /\ Reviewers' = Reviewers
            /\ stage' = "refined"
         \/ /\ ~Refine /\ UNCHANGED reviewedBy
            /\ stage' \in {"intake", "discover"} => stage \in {"intake", "discover"}
            /\ stage \notin {"intake", "discover"} => UNCHANGED Reviewers
<1>1. CASE Refine
  <2>1. reviewedBy' = reviewedBy \cup Reviewers /\ UNCHANGED peers /\ stage' = "refined"
    BY <1>1, RoundIsReviewed DEF TraceInv, Traced, Refine
  <2> QED
    BY <1>1, <2>1 DEF TraceInv, Traced, ReviewersAreSettled, Reviewers, Members
<1>2. CASE ~Refine
  <2>1. [Next]_vars
    BY DEF TraceNext, traceVars, Investigating, Discovering, Consulting, Refining,
           Converging, GoingOn, GivingUp, Assembling, Failing, Next
  <2>2. CASE Investigate \/ Discover
    BY <1>2, <2>2 DEF Investigate, Discover
  <2>3. CASE ~(Investigate \/ Discover)
    <3>1. /\ UNCHANGED <<peers, reviewedBy>>
          /\ stage' \in {"intake", "discover"} => stage \in {"intake", "discover"}
      BY <1>2, <2>1, <2>3 DEF Next, vars, Consult, Converge, NextRound, GiveUp, Assemble, Raise
    <3> QED
      BY <1>2, <3>1 DEF Reviewers, Members
  <2> QED
    BY <2>2, <2>3
<1> QED
  BY <1>1, <1>2

LEMMA TraceInvHolds == TraceSpec => []TraceInv
<1>1. TraceInit => Traced
  <2> SUFFICES ASSUME TraceInit PROVE Traced
    OBVIOUS
  <2>1. Plain(events)
    BY OneIsPlain DEF TraceInit, Note, Event
  <2> QED
    BY <2>1 DEF TraceInit, Init, Plain, Traced, ReviewersAreSettled, Synthesised
<1>2. TraceInv /\ [TraceNext]_traceVars => Traced'
  <2> SUFFICES ASSUME TraceInv, [TraceNext]_traceVars PROVE Traced'
    OBVIOUS
  <2>1. UNCHANGED owner
    BY DEF TraceNext, traceVars, Investigating, Discovering, Consulting, Refining,
           Converging, GoingOn, GivingUp, Assembling, Failing
  <2>2. IsList(events)'
    BY StepAppends DEF IsList
  <2>3. Synthesised' => Synthesised \/ Refine
    BY StepAppends
  <2>4. ReviewersAreSettled'
    BY <2>3, ReviewersKept DEF TraceInv, Traced, ReviewersAreSettled
  <2> QED
    BY <2>1, <2>2, <2>4 DEF TraceInv, Traced
<1> QED
  BY <1>1, <1>2, TracingChangesNothing, InvHolds, AnsweredHolds, PTL DEF TraceSpec, TraceInv

-----------------------------------------------------------------------------
LEMMA PrefixOf ==
  ASSUME NEW s, NEW t, IsList(s), IsList(t), Len(s) <= Len(t),
         \A i \in 1 .. Len(s) : t[i] = s[i]
  PROVE  IsPrefix(s, t)
<1> DEFINE T == {t[i] : i \in 1 .. Len(t)}
<1>1. Len(s) \in Nat /\ Len(t) \in Nat
  BY DEF IsList
<1>2. (\A i \in 1 .. Len(s) : t[i] \in T) /\ (\A i \in 1 .. Len(s) : s[i] \in T)
  BY <1>1
<1> HIDE DEF T
<1>3. /\ SubSeq(s, 1, Len(s)) \in Seq(T) /\ SubSeq(t, 1, Len(s)) \in Seq(T)
      /\ Len(SubSeq(s, 1, Len(s))) = Len(s) /\ Len(SubSeq(t, 1, Len(s))) = Len(s)
      /\ \A i \in 1 .. Len(s) : /\ SubSeq(s, 1, Len(s))[i] = s[i]
                               /\ SubSeq(t, 1, Len(s))[i] = t[i]
  BY <1>1, <1>2, SubSeqProperties
<1>4. SubSeq(s, 1, Len(s)) = SubSeq(t, 1, Len(s))
  BY <1>3, SeqEqual
<1> QED
  BY <1>4 DEF IsPrefix

(* What a client was sent stays as it was, although the events that it was *)
(* sent share a list that every later round writes to.  own_ticket appends *)
(* to the timeline only, and when a synthesis is told for the first time   *)
(* every peer that has an agent is on the list: it answers in every round. *)
THEOREM TimelineGrows == TraceSpec => TimelineIsAppendOnly
<1>1. TraceInv /\ [TraceNext]_traceVars => [IsPrefix(Timeline, Timeline')]_traceVars
  <2> SUFFICES ASSUME TraceInv, [TraceNext]_traceVars
               PROVE  IsPrefix(Timeline, Timeline')
    OBVIOUS
  <2>1. /\ Len(events) \in Nat /\ Len(events') \in Nat
        /\ Len(events) <= Len(events')
        /\ \A i \in 1 .. Len(events) : events'[i] = events[i]
    BY StepAppends DEF TraceInv, Traced, IsList
  <2>2. Synthesised => reviewedBy' = reviewedBy
    BY ReviewersKept DEF TraceInv, Traced, ReviewersAreSettled
  <2>3. /\ IsList(Timeline) /\ Len(Timeline) = Len(events)
        /\ IsList(Timeline') /\ Len(Timeline') = Len(events')
    BY <2>1, FunctionIsList DEF Timeline
  <2>4. ASSUME NEW i \in 1 .. Len(events) PROVE Timeline'[i] = Timeline[i]
    <3>1. i \in 1 .. Len(events')
      BY <2>1
    <3>2. events[i].phase = "synthesis" => reviewedBy' = reviewedBy
      BY <2>2 DEF Synthesised
    <3> QED
      BY <2>1, <3>1, <3>2 DEF Timeline
  <2> QED
    BY <2>1, <2>3, <2>4, PrefixOf
<1> QED
  BY TraceInvHolds, <1>1, PTL DEF TraceSpec, TimelineIsAppendOnly

-----------------------------------------------------------------------------
(* Whom an event names.  Answers and concerns are the peers', all else is  *)
(* the owner's.  A question is the owner's to a peer, an answer a peer's   *)
(* to the owner; a decision is about another team, and tells whether it is *)
(* a peer: there are none before discovery.                                *)
Tells(e, members, discovered) ==
  /\ e.agent \in {owner} \cup members
  /\ e.kind \notin {"response", "concern"} => e.agent = owner
  /\ e.kind = "request"  => e.agent = owner /\ e.to \in members
  /\ e.kind = "response" => e.agent \in members /\ e.to = owner
  /\ e.kind = "peer_decision" =>
       /\ discovered
       /\ e.agent = owner /\ Among(e.to, Others)
       /\ e.about = (e.to \in members)

Telling(new, members, discovered) ==
  IsList(new) /\ \A i \in 1 .. Len(new) : Tells(new[i], members, discovered)

Discovered == stage \notin {"intake", "discover"}

NamesPeers ==
  /\ Telling(events, Members, Discovered)
  /\ ~Discovered => peers = <<>>

Naming == {"request", "response", "peer_decision"}

LEMMA TellingJoined ==
  ASSUME NEW members, NEW discovered, NEW s, NEW t,
         Telling(s, members, discovered), Telling(t, members, discovered)
  PROVE  Telling(s \o t, members, discovered)
<1>1. /\ IsList(s \o t) /\ Len(s) \in Nat /\ Len(t) \in Nat
      /\ Len(s \o t) = Len(s) + Len(t)
      /\ \A i \in 1 .. Len(s) + Len(t) :
           (s \o t)[i] = IF i <= Len(s) THEN s[i] ELSE t[i - Len(s)]
  BY Joined DEF Telling, IsList
<1>2. ASSUME NEW i \in 1 .. Len(s) + Len(t)
      PROVE  Tells((s \o t)[i], members, discovered)
  <2>1. CASE i <= Len(s)
    BY <1>1, <2>1 DEF Telling
  <2>2. CASE ~(i <= Len(s))
    <3>1. i - Len(s) \in 1 .. Len(t)
      BY <1>1, <2>2
    <3> QED
      BY <1>1, <2>2, <3>1 DEF Telling
  <2> QED
    BY <2>1, <2>2
<1> QED
  BY <1>1, <1>2 DEF Telling

LEMMA OneTells ==
  ASSUME NEW members, NEW discovered, NEW e, Tells(e, members, discovered)
  PROVE  Telling(<<e>>, members, discovered)
<1>1. <<e>> \in Seq({e}) /\ Len(<<e>>) = 1
  OBVIOUS
<1>2. ASSUME NEW i \in 1 .. Len(<<e>>) PROVE <<e>>[i] = e
  BY <1>1
<1>3. IsList(<<e>>)
  BY <1>1, SeqIsList
<1> QED
  BY <1>2, <1>3 DEF Telling

LEMMA MadeTells ==
  ASSUME NEW members, NEW discovered, NEW n \in Nat,
         NEW f, f = [i \in 1 .. n |-> f[i]],
         \A i \in 1 .. n : Tells(f[i], members, discovered)
  PROVE  Telling(f, members, discovered)
  BY FunctionIsList DEF Telling

LEMMA NothingTells ==
  ASSUME NEW members, NEW discovered
  PROVE  Telling(<<>>, members, discovered)
<1>1. IsList(<<>>) /\ Len(<<>>) = 0
  BY EmptySeq, SeqIsList
<1> QED
  BY <1>1 DEF Telling

(* What names nobody tells the truth of everybody. *)
LEMMA UnnamedTells ==
  ASSUME NEW members, NEW discovered, NEW e, e.kind \notin Naming,
         e.agent = owner \/ (e.kind = "concern" /\ e.agent \in members)
  PROVE  Tells(e, members, discovered)
  BY DEF Tells, Naming

LEMMA NoteTells ==
  ASSUME NEW members, NEW discovered, NEW phase, NEW kind, kind \notin Naming,
         NEW round, NEW about
  PROVE  Tells(Note(phase, kind, round, about), members, discovered)
  BY UnnamedTells DEF Note, Event

LEMMA InvestigationTells ==
  ASSUME NEW members, NEW discovered, NEW found \in Investigations
  PROVE  Telling(InvestigationEvents(found), members, discovered)
<1>1. found \in Seq({"tool_call", "finding"}) /\ Len(found) \in Nat
  BY TraceAssumption, LenProperties
<1>2. ASSUME NEW i \in 1 .. Len(found)
      PROVE  Tells(Note("investigation", found[i], 0, "own tools"), members, discovered)
  <2>1. found[i] \in {"tool_call", "finding"}
    BY <1>1, ElementOfSeq
  <2>2. found[i] \notin Naming
    BY <2>1 DEF Naming
  <2> QED
    BY <2>2, NoteTells
<1> QED
  BY <1>1, <1>2, MadeTells DEF InvestigationEvents

LEMMA ProposalTells ==
  ASSUME NEW members, NEW discovered
  PROVE  Telling(ProposalEvents, members, discovered)
  BY MadeTells, NoteTells DEF ProposalEvents, Naming

LEMMA DiscoveryTells ==
  ASSUME NEW signalled \in SignalLists, NEW consulted
  PROVE  Telling(DiscoveryEvents(signalled, consulted), consulted, TRUE)
<1> DEFINE told    == [i \in 1 .. Len(signalled) |->
                         Note("discovery", "signal", 0, signalled[i])]
           decide(t) == Event("discovery", "peer_decision", owner, t, 0, t \in consulted)
           decided == [i \in 1 .. Len(Others) |-> decide(Others[i])]
           summary == <<Note("discovery", "finding", 0, "summary")>>
<1>1. Len(signalled) \in Nat /\ Len(Others) \in Nat
  BY TraceAssumption, OthersType, LenProperties
<1>2. Telling(told, consulted, TRUE)
  BY <1>1, MadeTells, NoteTells DEF Naming
<1>3. Telling(decided, consulted, TRUE)
  <2>1. ASSUME NEW i \in 1 .. Len(Others) PROVE Tells(decide(Others[i]), consulted, TRUE)
    BY DEF Tells, Event, Among
  <2> HIDE DEF decide
  <2> QED
    BY <1>1, <2>1, MadeTells
<1>4. Telling(summary, consulted, TRUE)
  BY OneTells, NoteTells DEF Naming
<1>5. DiscoveryEvents(signalled, consulted) =
        IF signalled = <<>> THEN <<>> ELSE told \o decided \o summary
  BY DEF DiscoveryEvents
<1> HIDE DEF told, decided, summary
<1> QED
  BY <1>2, <1>3, <1>4, <1>5, TellingJoined, NothingTells

(* What a list of events tells as signalled. *)
SignalledIn(s) == {s[i].about : i \in {j \in 1 .. Len(s) : s[j].kind = "signal"}}

LEMMA SignalledJoined ==
  ASSUME NEW s, NEW t, IsList(s), IsList(t)
  PROVE  SignalledIn(s \o t) = SignalledIn(s) \cup SignalledIn(t)
<1>1. /\ Len(s) \in Nat /\ Len(t) \in Nat /\ Len(s \o t) = Len(s) + Len(t)
      /\ \A i \in 1 .. Len(s) + Len(t) :
           (s \o t)[i] = IF i <= Len(s) THEN s[i] ELSE t[i - Len(s)]
  BY Joined DEF IsList
<1>2. \A i \in 1 .. Len(s) : i \in 1 .. Len(s \o t) /\ (s \o t)[i] = s[i]
  BY <1>1
<1>3. \A i \in 1 .. Len(t) :
        Len(s) + i \in 1 .. Len(s \o t) /\ (s \o t)[Len(s) + i] = t[i]
  BY <1>1
<1>4. \A i \in 1 .. Len(s \o t) :
        \/ i \in 1 .. Len(s) /\ (s \o t)[i] = s[i]
        \/ i - Len(s) \in 1 .. Len(t) /\ (s \o t)[i] = t[i - Len(s)]
  BY <1>1
<1> DEFINE u == s \o t
<1> HIDE DEF u
<1>5. ASSUME NEW c
      PROVE  c \in SignalledIn(u) <=> c \in SignalledIn(s) \/ c \in SignalledIn(t)
  <2>1. c \in SignalledIn(u) => c \in SignalledIn(s) \/ c \in SignalledIn(t)
    BY <1>4 DEF SignalledIn, u
  <2>2. c \in SignalledIn(s) => c \in SignalledIn(u)
    BY <1>2 DEF SignalledIn, u
  <2>3. c \in SignalledIn(t) => c \in SignalledIn(u)
    <3> SUFFICES ASSUME c \in SignalledIn(t) PROVE c \in SignalledIn(u)
      OBVIOUS
    <3>1. PICK i \in 1 .. Len(t) : t[i].kind = "signal" /\ c = t[i].about
      BY DEF SignalledIn
    <3>2. PICK j \in 1 .. Len(u) : u[j] = t[i]
      BY <1>3 DEF u
    <3> QED
      BY <3>1, <3>2 DEF SignalledIn
  <2> QED
    BY <2>1, <2>2, <2>3
<1> QED
  BY <1>5 DEF u

(* The signals are told, all of them and nothing else. *)
LEMMA SignalsTold ==
  ASSUME NEW signalled \in SignalLists, NEW consulted
  PROVE  /\ IsList(DiscoveryEvents(signalled, consulted))
         /\ SignalledIn(DiscoveryEvents(signalled, consulted)) = ToSet(signalled)
<1> DEFINE told    == [i \in 1 .. Len(signalled) |->
                         Note("discovery", "signal", 0, signalled[i])]
           decide(t) == Event("discovery", "peer_decision", owner, t, 0, t \in consulted)
           decided == [i \in 1 .. Len(Others) |-> decide(Others[i])]
           summary == <<Note("discovery", "finding", 0, "summary")>>
<1>1. /\ Len(signalled) \in Nat /\ Len(Others) \in Nat
      /\ DOMAIN signalled = 1 .. Len(signalled)
  BY TraceAssumption, OthersType, LenProperties
<1>2. /\ IsList(told) /\ Len(told) = Len(signalled)
      /\ IsList(decided) /\ Len(decided) = Len(Others)
      /\ IsList(summary) /\ Len(summary) = 1
  <2>1. summary \in Seq({Note("discovery", "finding", 0, "summary")}) /\ Len(summary) = 1
    OBVIOUS
  <2> QED
    BY <1>1, <2>1, FunctionIsList, SeqIsList
<1>3. SignalledIn(told) = ToSet(signalled)
  <2>1. \A i \in 1 .. Len(signalled) : told[i].kind = "signal" /\ told[i].about = signalled[i]
    BY DEF Note, Event
  <2>2. ToSet(signalled) = {signalled[i] : i \in 1 .. Len(signalled)}
    BY <1>1 DEF ToSet
  <2> HIDE DEF told
  <2> QED
    BY <1>2, <2>1, <2>2 DEF SignalledIn
<1>4. SignalledIn(decided) = {}
  <2>1. \A i \in 1 .. Len(Others) : decided[i].kind # "signal"
    BY DEF Event
  <2> HIDE DEF decided
  <2> QED
    BY <1>2, <2>1 DEF SignalledIn
<1>5. SignalledIn(summary) = {}
  <2>1. \A i \in 1 .. 1 : summary[i].kind # "signal"
    BY DEF Note, Event
  <2> HIDE DEF summary
  <2> QED
    BY <1>2, <2>1 DEF SignalledIn
<1>6. DiscoveryEvents(signalled, consulted) =
        IF signalled = <<>> THEN <<>> ELSE told \o decided \o summary
  BY DEF DiscoveryEvents
<1> HIDE DEF told, decided, summary
<1>7. CASE signalled = <<>>
  <2>1. IsList(<<>>) /\ Len(<<>>) = 0
    BY EmptySeq, SeqIsList
  <2>a. ToSet(signalled) = {}
    BY <1>1, <1>7, <2>1 DEF ToSet
  <2>2. SignalledIn(<<>>) = {}
    BY <2>1 DEF SignalledIn
  <2> QED
    BY <1>6, <1>7, <2>1, <2>2, <2>a
<1>8. CASE signalled # <<>>
  <2> DEFINE front == told \o decided
             new   == front \o summary
  <2>1. IsList(front)
    BY <1>2, Joined
  <2>2. SignalledIn(front) = SignalledIn(told) \cup SignalledIn(decided)
    BY <1>2, SignalledJoined
  <2> HIDE DEF front
  <2>3. IsList(new)
    BY <1>2, <2>1, Joined
  <2>4. SignalledIn(new) = SignalledIn(front) \cup SignalledIn(summary)
    BY <1>2, <2>1, SignalledJoined
  <2>5. DiscoveryEvents(signalled, consulted) = new
    BY <1>6, <1>8 DEF front
  <2> HIDE DEF new
  <2> QED
    BY <1>3, <1>4, <1>5, <2>2, <2>3, <2>4, <2>5
<1> QED
  BY <1>7, <1>8

(* Once there is a signal, every other team is told of. *)
LEMMA EveryTeamTold ==
  ASSUME NEW signalled \in SignalLists, signalled # <<>>, NEW consulted,
         NEW team, Among(team, Others), IsList(events),
         Emit(DiscoveryEvents(signalled, consulted))
  PROVE  \E i \in 1 .. Len(events') :
           events'[i].kind = "peer_decision" /\ events'[i].to = team
<1> DEFINE told    == [i \in 1 .. Len(signalled) |->
                         Note("discovery", "signal", 0, signalled[i])]
           decide(t) == Event("discovery", "peer_decision", owner, t, 0, t \in consulted)
           decided == [i \in 1 .. Len(Others) |-> decide(Others[i])]
           summary == <<Note("discovery", "finding", 0, "summary")>>
<1>1. Len(signalled) \in Nat /\ Len(Others) \in Nat
  BY TraceAssumption, OthersType, LenProperties
<1>2. /\ IsList(told) /\ Len(told) = Len(signalled)
      /\ IsList(decided) /\ Len(decided) = Len(Others)
      /\ IsList(summary) /\ Len(summary) = 1
  <2>1. summary \in Seq({Note("discovery", "finding", 0, "summary")}) /\ Len(summary) = 1
    OBVIOUS
  <2> QED
    BY <1>1, <2>1, FunctionIsList, SeqIsList
<1>3. PICK n \in 1 .. Len(Others) : Others[n] = team
  BY DEF Among
<1>4. decided[n].kind = "peer_decision" /\ decided[n].to = team
  BY <1>3 DEF Event
<1>5. DiscoveryEvents(signalled, consulted) = told \o decided \o summary
  BY DEF DiscoveryEvents
<1> HIDE DEF told, decided, summary
<1> DEFINE front == told \o decided
           new == front \o summary
           k == Len(signalled) + n
<1>6. IsList(front) /\ Len(front) = Len(signalled) + Len(Others) /\ front[k] = decided[n]
  BY <1>1, <1>2, <1>3, Joined
<1>k. k \in 1 .. Len(front)
  BY <1>1, <1>3, <1>6
<1> HIDE DEF front, k
<1>7. IsList(new) /\ Len(new) = Len(front) + 1 /\ new[k] = decided[n]
  <2>1. /\ IsList(new) /\ Len(new) = Len(front) + Len(summary)
        /\ \A i \in 1 .. Len(front) + Len(summary) :
             new[i] = IF i <= Len(front) THEN front[i] ELSE summary[i - Len(front)]
    BY <1>2, <1>6, Joined
  <2>2. Len(front) \in Nat /\ Len(summary) = 1
    BY <1>2, <1>6 DEF IsList
  <2>3. k \in 1 .. Len(front) + Len(summary) /\ k <= Len(front)
    BY <2>2, <1>k
  <2>4. new[k] = front[k]
    BY <2>1, <2>3
  <2> QED
    BY <1>6, <2>1, <2>2, <2>4
<1>8. IsList(new) /\ k \in 1 .. Len(new) /\ new[k] = decided[n]
  BY <1>6, <1>k, <1>7 DEF IsList
<1> HIDE DEF new
<1>9. events' = events \o new /\ Len(events) \in Nat /\ Len(new) \in Nat
  BY <1>5, <1>8 DEF Emit, new, front, IsList
<1>10. Len(events') = Len(events) + Len(new) /\ events'[Len(events) + k] = new[k]
  BY <1>8, <1>9, Joined
<1>11. Len(events) + k \in 1 .. Len(events')
  BY <1>8, <1>9, <1>10
<1> QED
  BY <1>4, <1>8, <1>10, <1>11

LEMMA AskTells ==
  ASSUME NEW members, NEW discovered, NEW peer \in members
  PROVE  Telling(<<Asks(peer)>>, members, discovered)
<1>1. Tells(Asks(peer), members, discovered)
  BY DEF Asks, Event, Tells
<1> QED
  BY <1>1, OneTells

LEMMA AnswerTells ==
  ASSUME NEW members, NEW discovered, NEW said, Len(said.newHere) \in Nat,
         said.from \in members
  PROVE  Telling(AnswerEvents(said), members, discovered)
<1> DEFINE tells(k, x) == Event("deliberation", k, said.from, owner, Round, x)
           raised      == [i \in 1 .. Len(said.newHere) |-> tells("concern", said.newHere[i])]
<1>2. Telling(<<tells("response", Shown(said.answer))>>, members, discovered)
  <2>1. Tells(tells("response", Shown(said.answer)), members, discovered)
    BY DEF Event, Tells
  <2> QED
    BY <2>1, OneTells
<1>3. Telling(raised, members, discovered)
  <2>1. ASSUME NEW x PROVE Tells(tells("concern", x), members, discovered)
    BY UnnamedTells DEF Event, Naming
  <2> HIDE DEF tells
  <2> QED
    BY <2>1, MadeTells
<1>4. AnswerEvents(said) = <<tells("response", Shown(said.answer))>> \o raised
  BY DEF AnswerEvents
<1> HIDE DEF raised, tells
<1> QED
  BY <1>2, <1>3, <1>4, TellingJoined

LEMMA SynthesisTells ==
  ASSUME NEW members, NEW discovered, NEW backed, NEW ruling
  PROVE  Telling(SynthesisEvents(backed, ruling), members, discovered)
<1>1. ASSUME NEW a PROVE Telling(Synthesis(a, backed, ruling), members, discovered)
  BY OneTells, NoteTells, NothingTells DEF Synthesis, Naming
<1> QED
  BY <1>1, TellingJoined DEF SynthesisEvents

LEMMA FindingTells ==
  ASSUME NEW members, NEW discovered,
         NEW f, IsFiniteSet(f.undeployed), IsFiniteSet(f.authority)
  PROVE  Telling(FindingEvents(f), members, discovered)
<1> DEFINE points    == HumanDecisionPoints(f)
           escalated == [i \in 1 .. Len(points) |->
                           Note("decision", "escalation", 0, points[i])]
           artifact  == <<Note("artifact", "artifact", 0, f)>>
<1>1. Len(points) \in Nat
  BY PointsAreListed DEF IsList
<1>2. Telling(escalated, members, discovered)
  BY <1>1, MadeTells, NoteTells DEF Naming
<1>3. Telling(artifact, members, discovered)
  BY OneTells, NoteTells DEF Naming
<1>4. FindingEvents(f) = escalated \o artifact
  BY DEF FindingEvents
<1> HIDE DEF escalated, artifact
<1> QED
  BY <1>2, <1>3, <1>4, TellingJoined

(* Every step appends what names the peers rightly. *)
LEMMA StepTells ==
  ASSUME TraceInv, NamesPeers, TraceNext
  PROVE  \/ UNCHANGED events
         \/ \E new : Emit(new) /\ Telling(new, Members', Discovered')
<1> USE DEF TraceInv, Traced, Inv
<1>1. CASE \E found \in Investigations : Investigating(found)
  <2>1. PICK found \in Investigations : Investigating(found)
    BY <1>1
  <2>2. Telling(InvestigationEvents(found) \o ProposalEvents, Members', Discovered')
    BY InvestigationTells, ProposalTells, TellingJoined
  <2> QED
    BY <2>1, <2>2 DEF Investigating
<1>2. CASE \E signalled \in SignalLists : Discovering(signalled)
  <2>1. PICK signalled \in SignalLists : Discovering(signalled)
    BY <1>2
  <2>2. Members' = ToSet(peers') /\ Discovered'
    <3>1. peers' \in Seq(Team) /\ stage' = "consult"
      BY <2>1, DiscoverOpens DEF Discovering, Discover
    <3> QED
      BY <3>1, LenProperties DEF Members, ToSet, Discovered
  <2>3. Telling(DiscoveryEvents(signalled, ToSet(peers')), ToSet(peers'), TRUE)
    BY DiscoveryTells
  <2>4. Discovered' = TRUE
    BY <2>2 DEF Discovered
  <2> QED
    BY <2>1, <2>2, <2>3, <2>4 DEF Discovering
<1>3. CASE Consulting
  <2> DEFINE said == Last(heard'[Round])
  <2>1. Len(said.newHere) \in Nat
    BY <1>3, LastIsConsulted DEF Consulting
  <2>2. said.from \in Members'
    <3>1. PICK e \in Entry :
            /\ Len(heard'[Round]) = Len(Said) + 1
            /\ heard'[Round][Len(Said) + 1] = e
            /\ Len(Said) + 1 \in 1 .. Len(peers)
            /\ e.from = peers[Len(Said) + 1]
      BY <1>3, ConsultAppends DEF Consulting
    <3>2. said = e /\ peers' = peers
      BY <1>3, <3>1 DEF Last, Consulting, Consult
    <3> QED
      BY <3>1, <3>2 DEF Members
  <2> HIDE DEF said
  <2>3. Telling(<<Asks(said.from)>> \o AnswerEvents(said), Members', Discovered')
    BY <2>1, <2>2, AskTells, AnswerTells, TellingJoined
  <2> QED
    BY <1>3, <2>3 DEF Consulting, said
<1>4. CASE Refining
  BY <1>4, SynthesisTells DEF Refining
<1>5. CASE Converging
  BY <1>5, OneTells, NoteTells DEF Converging, Naming
<1>6. CASE GoingOn
  BY <1>6 DEF GoingOn
<1>7. CASE GivingUp
  BY <1>7, OneTells, NoteTells, NothingTells DEF GivingUp, Naming
<1>8. CASE Assembling
  <2>1. finding' = Summary
    BY <1>8 DEF Assembling, Assemble
  <2>2. finding'.undeployed \subseteq Members /\ finding'.authority \subseteq Members
    BY <2>1 DEF Summary, Whose, Members
  <2>3. IsFiniteSet(finding'.undeployed) /\ IsFiniteSet(finding'.authority)
    BY <2>2, FiniteMembers, FS_Subset
  <2> QED
    BY <1>8, <2>3, FindingTells DEF Assembling
<1>9. CASE Failing
  <2>1. CASE \E found \in Investigations : Emit(InvestigationEvents(found))
    BY <2>1, InvestigationTells
  <2>2. CASE stage = "consult" /\ Len(Said) < Len(peers) /\ Emit(<<Asks(peers[Len(Said) + 1])>>)
    <3>1. Len(Said) + 1 \in 1 .. Len(peers) /\ peers' = peers
      BY <1>9, <2>2, RoundFacts, LenProperties DEF Failing, Raise, TypeOK, Progress, Said, Round
    <3>2. peers[Len(Said) + 1] \in Members'
      BY <3>1 DEF Members
    <3> QED
      BY <2>2, <3>2, AskTells
  <2> QED
    BY <1>9, <2>1, <2>2 DEF Failing
<1> QED
  BY <1>1, <1>2, <1>3, <1>4, <1>5, <1>6, <1>7, <1>8, <1>9 DEF TraceNext

(* The peers are named once and for all, when they are discovered. *)
LEMMA PeersAreKept ==
  ASSUME [Next]_vars
  PROVE  \/ ~Discovered /\ Discovered' /\ Discover
         \/ UNCHANGED peers /\ (Discovered => Discovered')
  BY DEF Next, vars, Investigate, Discover, Consult, Refine, Converge, NextRound, GiveUp,
         Assemble, Raise, Discovered

(* Events that tell of no peer yet tell nothing wrong of those to come. *)
LEMMA TellingMore ==
  ASSUME NamesPeers, [Next]_vars
  PROVE  Telling(events, Members', Discovered')
<1>1. CASE UNCHANGED peers /\ (Discovered => Discovered')
  <2>1. Members' = Members
    BY <1>1 DEF Members
  <2> QED
    BY <1>1, <2>1 DEF NamesPeers, Telling, Tells
<1>2. CASE ~Discovered
  <2>1. Members = {}
    BY <1>2, EmptySeq DEF NamesPeers, Members
  <2> QED
    BY <1>2, <2>1 DEF NamesPeers, Telling, Tells
<1> QED
  BY <1>1, <1>2, PeersAreKept

(* The timeline names the peers, and nobody else as one.  _discover_peers  *)
(* tells of every team whether it is consulted, and own_ticket's questions *)
(* and answers are those of the peers it returned.                         *)
LEMMA NamesPeersHolds == TraceSpec => []NamesPeers
<1>1. TraceInit => NamesPeers
  <2> SUFFICES ASSUME TraceInit PROVE NamesPeers
    OBVIOUS
  <2>1. Telling(events, Members, Discovered)
    BY OneTells, NoteTells DEF TraceInit, Naming
  <2> QED
    BY <2>1 DEF TraceInit, Init, NamesPeers
<1>2. TraceInv /\ NamesPeers /\ [TraceNext]_traceVars => NamesPeers'
  <2> SUFFICES ASSUME TraceInv, NamesPeers, [TraceNext]_traceVars PROVE NamesPeers'
    OBVIOUS
  <2>1. [Next]_vars /\ UNCHANGED owner
    BY DEF TraceNext, traceVars, Investigating, Discovering, Consulting, Refining,
           Converging, GoingOn, GivingUp, Assembling, Failing, Next
  <2>2. Telling(events', Members', Discovered')
    <3>1. UNCHANGED events \/ \E new : Emit(new) /\ Telling(new, Members', Discovered')
      BY StepTells DEF traceVars
    <3>2. Telling(events, Members', Discovered')
      BY <2>1, TellingMore
    <3> QED
      BY <3>1, <3>2, TellingJoined DEF Emit
  <2>3. Telling(events, Members, Discovered)'
    <3>1. Others' = Others
      BY <2>1 DEF Others
    <3> QED
      BY <2>1, <2>2, <3>1 DEF Telling, Tells
  <2>4. (~Discovered => peers = <<>>)'
    BY <2>1, PeersAreKept DEF NamesPeers
  <2> QED
    BY <2>3, <2>4 DEF NamesPeers
<1> QED
  BY <1>1, <1>2, TraceInvHolds, PTL DEF TraceSpec

-----------------------------------------------------------------------------
(* More of lists: what a joined list keeps. *)
LEMMA KeptJoined ==
  ASSUME NEW S, NEW s \in Seq(S), NEW t \in Seq(S), NEW K
  PROVE  Kept(s \o t, K) = Kept(s, K) \o Kept(t, K)
<1> DEFINE u == s \o t
           m == Len(s)
           n == Len(t)
<1>1. /\ m \in Nat /\ n \in Nat /\ u \in Seq(S) /\ Len(u) = m + n
      /\ \A i \in 1 .. m + n : u[i] = IF i <= m THEN s[i] ELSE t[i - m]
      /\ \A i \in 1 .. n : t[i] \in S
  BY LenProperties, ConcatProperties, ElementOfSeq
<1> HIDE DEF u
<1>2. PICK f : Keeps(f, S, s, K) /\ Kept(s, K) = f[m]
  BY KeptRuns
<1>3. PICK h : Keeps(h, S, t, K) /\ Kept(t, K) = h[n]
  BY KeptRuns
<1>4. PICK g : Keeps(g, S, u, K) /\ Kept(u, K) = g[m + n]
  BY <1>1, KeptRuns
<1>5. g[m] = f[m]
  <2>1. m <= Len(u) /\ \A i \in 1 .. m : u[i] = s[i] /\ (s[i] \in K <=> s[i] \in K)
    BY <1>1
  <2> QED
    BY <1>1, <1>2, <1>4, <2>1, KeptAlike
<1>6. f[m] \in Seq(S)
  BY <1>1, <1>2 DEF Keeps
<1>7. h[0] = <<>> /\ \A i \in 1 .. n : /\ h[i - 1] \in Seq(S)
                                       /\ h[i] = IF t[i] \in K THEN Append(h[i - 1], t[i]) ELSE h[i - 1]
  <2>1. h \in [0 .. n -> Seq(S)] /\ \A i \in 1 .. n : i - 1 \in 0 .. n
    BY <1>1, <1>3 DEF Keeps
  <2> QED
    BY <1>3, <2>1 DEF Keeps
<1>8. \A i \in 1 .. m + n : g[i] = IF u[i] \in K THEN Append(g[i - 1], u[i]) ELSE g[i - 1]
  BY <1>1, <1>4 DEF Keeps
<1>9. m \in Nat /\ n \in Nat
  BY <1>1
<1> HIDE DEF m, n
<1> DEFINE Good(i) == g[m + i] = f[m] \o h[i]
           T == {i \in Nat : i <= n => Good(i)}
<1>10. Good(0)
  <2>1. f[m] \o <<>> = f[m]
    BY <1>6, ConcatEmptySeq
  <2>2. m + 0 = m
    BY <1>9
  <2> QED
    BY <1>5, <1>7, <2>1, <2>2
<1>11. ASSUME NEW i \in Nat, Good(i), i + 1 <= n PROVE Good(i + 1)
  <2> DEFINE k == m + (i + 1)
  <2>1. /\ k \in 1 .. m + n /\ k - 1 = m + i /\ k - m = i + 1
        /\ ~(k <= m) /\ i + 1 \in 1 .. n /\ i + 1 - 1 = i
    BY <1>9, <1>11
  <2> HIDE DEF k
  <2>2. u[k] = t[i + 1] /\ t[i + 1] \in S
    BY <1>1, <2>1
  <2>3. g[k] = IF t[i + 1] \in K THEN Append(g[m + i], t[i + 1]) ELSE g[m + i]
    BY <1>8, <2>1, <2>2
  <2>4. /\ h[i + 1] = IF t[i + 1] \in K THEN Append(h[i], t[i + 1]) ELSE h[i]
        /\ h[i] \in Seq(S)
    BY <1>7, <2>1
  <2>5. Append(f[m] \o h[i], t[i + 1]) = f[m] \o Append(h[i], t[i + 1])
    <3>1. ASSUME NEW a \in Seq(S), NEW b \in Seq(S), NEW x \in S
          PROVE  Append(a \o b, x) = a \o Append(b, x)
      <4>1. a \o b \in Seq(S) /\ <<x>> \in Seq(S)
        BY ConcatProperties
      <4>2. Append(a \o b, x) = (a \o b) \o <<x>>
        BY <4>1, AppendIsConcat
      <4>3. Append(b, x) = b \o <<x>>
        BY AppendIsConcat
      <4>4. (a \o b) \o <<x>> = a \o (b \o <<x>>)
        BY <4>1, ConcatAssociative
      <4> QED
        BY <4>2, <4>3, <4>4
    <3>2. f[m] \in Seq(S) /\ h[i] \in Seq(S) /\ t[i + 1] \in S
      BY <1>6, <2>2, <2>4
    <3> QED
      BY <3>1, <3>2
  <2> QED
    BY <1>11, <2>3, <2>4, <2>5 DEF k
<1> HIDE DEF Good
<1>12. n \in T
  <2>1. 0 \in T /\ \A i \in Nat : i \in T => i + 1 \in T
    BY <1>9, <1>10, <1>11
  <2> HIDE DEF T
  <2> QED
    BY <1>9, <2>1, Counting
<1>13. g[m + n] = f[m] \o h[n]
  <2>1. Good(n)
    BY <1>9, <1>12
  <2> QED
    BY <2>1 DEF Good
<1> QED
  BY <1>2, <1>3, <1>4, <1>13 DEF u

LEMMA KeptNone ==
  ASSUME NEW S, NEW s \in Seq(S), NEW K, \A i \in 1 .. Len(s) : s[i] \notin K
  PROVE  Kept(s, K) = <<>>
<1> DEFINE kept == Kept(s, K)
<1>1. kept \in Seq(S)
  BY KeptType
<1>2. ASSUME NEW i \in 1 .. Len(kept) PROVE FALSE
  <2>1. Among(kept[i], kept)
    BY DEF Among
  <2>2. Among(kept[i], s) /\ kept[i] \in K
    BY <2>1, KeptElements
  <2> QED
    BY <2>2 DEF Among
<1> HIDE DEF kept
<1>3. Len(kept) \in Nat /\ (kept # <<>> => Len(kept) \in Nat \ {0})
  BY <1>1, EmptySeq, LenProperties
<1>4. kept = <<>>
  BY <1>2, <1>3
<1> QED
  BY <1>4 DEF kept

LEMMA KeptAll ==
  ASSUME NEW S, NEW s \in Seq(S), NEW K, \A i \in 1 .. Len(s) : s[i] \in K
  PROVE  Kept(s, K) = s
<1> DEFINE n == Len(s)
<1>1. PICK f : Keeps(f, S, s, K) /\ Kept(s, K) = f[n]
  BY KeptRuns
<1>2. n \in Nat /\ \A i \in 1 .. n : s[i] \in S /\ s[i] \in K
  BY LenProperties, ElementOfSeq
<1>3. f[0] = <<>> /\ \A i \in 1 .. n : f[i - 1] \in Seq(S) /\ f[i] = Append(f[i - 1], s[i])
  <2>1. f \in [0 .. n -> Seq(S)] /\ \A i \in 1 .. n : i - 1 \in 0 .. n
    BY <1>1, <1>2 DEF Keeps
  <2> QED
    BY <1>1, <1>2, <2>1 DEF Keeps
<1> DEFINE Good(i) == Len(f[i]) = i /\ \A j \in 1 .. i : f[i][j] = s[j]
           T == {i \in Nat : i <= n => Good(i)}
<1> HIDE DEF n
<1>4. Good(0)
  BY <1>3
<1>5. ASSUME NEW i \in Nat, Good(i), i + 1 <= n PROVE Good(i + 1)
  <2>1. i + 1 \in 1 .. n /\ i + 1 - 1 = i
    BY <1>2, <1>5
  <2>2. f[i + 1] = Append(f[i], s[i + 1]) /\ f[i] \in Seq(S) /\ s[i + 1] \in S
    BY <1>2, <1>3, <2>1
  <2>3. /\ Len(f[i + 1]) = i + 1 /\ f[i + 1][i + 1] = s[i + 1]
        /\ \A j \in 1 .. i : f[i + 1][j] = f[i][j]
    BY <1>5, <2>2, AppendProperties
  <2> QED
    BY <1>5, <2>3
<1> HIDE DEF Good
<1>6. n \in T
  <2>1. 0 \in T /\ \A i \in Nat : i \in T => i + 1 \in T
    BY <1>2, <1>4, <1>5
  <2> HIDE DEF T
  <2> QED
    BY <1>2, <2>1, Counting
<1>7. Kept(s, K) \in Seq(S)
  BY KeptType
<1>8. Len(Kept(s, K)) = n /\ \A j \in 1 .. n : Kept(s, K)[j] = s[j]
  BY <1>1, <1>2, <1>6 DEF Good
<1> QED
  BY <1>7, <1>8, SeqEqual DEF n

(* The events of a kind. *)
Kinds(s, kind) == Kept(s, {e \in ToSet(s) : e.kind = kind})

LEMMA KindsAre ==
  ASSUME NEW S, NEW s \in Seq(S), NEW kind
  PROVE  Kinds(s, kind) = Kept(s, {e \in S : e.kind = kind})
<1>1. \A i \in 1 .. Len(s) : s[i] \in S /\ s[i] \in ToSet(s)
  BY LenProperties, ElementOfSeq DEF ToSet
<1>2. \A i \in 1 .. Len(s) :
        s[i] \in {e \in ToSet(s) : e.kind = kind} <=> s[i] \in {e \in S : e.kind = kind}
  BY <1>1
<1> QED
  BY <1>2, KeptSame DEF Kinds

LEMMA KindsJoined ==
  ASSUME NEW s, NEW t, IsList(s), IsList(t), NEW kind
  PROVE  Kinds(s \o t, kind) = Kinds(s, kind) \o Kinds(t, kind)
<1> DEFINE A == {s[i] : i \in 1 .. Len(s)}
           B == {t[i] : i \in 1 .. Len(t)}
           S == A \cup B
           K == {e \in S : e.kind = kind}
<1>0. s \in Seq(A) /\ t \in Seq(B)
  BY ListIsSeq
<1> HIDE DEF A, B
<1>1. s \in Seq(S) /\ t \in Seq(S)
  BY <1>0, SeqMonotonic
<1> HIDE DEF S
<1>2. s \o t \in Seq(S)
  BY <1>1, ConcatProperties
<1>3. Kinds(s, kind) = Kept(s, K) /\ Kinds(t, kind) = Kept(t, K)
      /\ Kinds(s \o t, kind) = Kept(s \o t, K)
  BY <1>1, <1>2, KindsAre
<1> HIDE DEF K
<1> QED
  BY <1>1, <1>3, KeptJoined

LEMMA KindsListed ==
  ASSUME NEW s, IsList(s), NEW kind
  PROVE  IsList(Kinds(s, kind)) /\ Kinds(s, kind) \in Seq({s[i] : i \in 1 .. Len(s)})
  BY ListIsSeq, KeptType, SeqIsList DEF Kinds

LEMMA KindsNone ==
  ASSUME NEW s, IsList(s), NEW kind, \A i \in 1 .. Len(s) : s[i].kind # kind
  PROVE  Kinds(s, kind) = <<>>
  BY ListIsSeq, KeptNone DEF Kinds

LEMMA KindsAll ==
  ASSUME NEW s, IsList(s), NEW kind, \A i \in 1 .. Len(s) : s[i].kind = kind
  PROVE  Kinds(s, kind) = s
<1> DEFINE S == {s[i] : i \in 1 .. Len(s)}
<1>1. s \in Seq(S)
  BY ListIsSeq
<1> DEFINE K == {e \in S : e.kind = kind}
<1>2. \A i \in 1 .. Len(s) : s[i] \in K
  OBVIOUS
<1>3. Kinds(s, kind) = Kept(s, K)
  BY <1>1, KindsAre
<1> HIDE DEF S, K
<1> QED
  BY <1>1, <1>2, <1>3, KeptAll

(* Appending what has none of a kind adds none of it. *)
LEMMA KindsKept ==
  ASSUME NEW s, NEW t, IsList(s), IsList(t), NEW kind,
         \A i \in 1 .. Len(t) : t[i].kind # kind
  PROVE  Kinds(s \o t, kind) = Kinds(s, kind)
<1>1. Kinds(t, kind) = <<>>
  BY KindsNone
<1>2. Kinds(s, kind) \o <<>> = Kinds(s, kind)
  BY KindsListed, ConcatEmptySeq
<1>3. Kinds(s \o t, kind) = Kinds(s, kind) \o Kinds(t, kind)
  BY KindsJoined
<1> QED
  BY <1>1, <1>2, <1>3

LEMMA OneIsList == ASSUME NEW e PROVE IsList(<<e>>) /\ Len(<<e>>) = 1 /\ <<e>>[1] = e
<1>1. <<e>> \in Seq({e}) /\ Len(<<e>>) = 1
  OBVIOUS
<1> QED
  BY <1>1, SeqIsList

-----------------------------------------------------------------------------
(* How a list of lists is flattened: f[n] is the first n of them, joined.  *)
Flattens(f, S, ss) ==
  /\ f \in [0 .. Len(ss) -> Seq(S)]
  /\ f[0] = <<>>
  /\ \A i \in Nat : i < Len(ss) => f[i + 1] = f[i] \o ss[i + 1]

LEMMA FlattenRuns ==
  ASSUME NEW S, NEW ss \in Seq(Seq(S))
  PROVE  \E f : Flattens(f, S, ss) /\ FlattenSeq(ss) = f[Len(ss)]
<1> DEFINE n == Len(ss)
           V == Seq(S)
           step == [i \in 1 .. n |-> [v \in V |-> v \o ss[i]]]
           Is(g) == g = [i \in 1 .. n |-> IF i = 1 THEN ss[i] ELSE g[i - 1] \o ss[i]]
<1>1. n \in Nat /\ <<>> \in V /\ \A i \in 1 .. n : ss[i] \in V
  BY LenProperties, ElementOfSeq
<1>2. \A i \in 1 .. n, v \in V : v \o ss[i] \in V
  BY <1>1, ConcatProperties
<1>2a. \A v \in V : <<>> \o v = v
  BY ConcatEmptySeq
<1> HIDE DEF V
<1>3. step \in [1 .. n -> [V -> V]] /\ \A i \in 1 .. n, v \in V : step[i][v] = v \o ss[i]
  BY <1>2
<1>4. PICK f \in [0 .. n -> V] :
        /\ f[0] = <<>>
        /\ \A i \in 1 .. n : f[i] = step[i][f[i - 1]]
  <2>1. Stepper(n, V, step)
    BY <1>3 DEF Stepper
  <2> HIDE DEF n, step
  <2>2. \E f : Iterates(f, n, V, <<>>, step)
    BY <1>1, <2>1, Iterated
  <2> QED
    BY <2>2 DEF Iterates
<1>5. \A i \in Nat : i < n => f[i + 1] = f[i] \o ss[i + 1]
  <2> SUFFICES ASSUME NEW i \in Nat, i < n PROVE f[i + 1] = f[i] \o ss[i + 1]
    OBVIOUS
  <2> HIDE DEF step, n
  <2>1. i + 1 \in 1 .. n /\ i \in 0 .. n /\ i + 1 - 1 = i
    BY <1>1
  <2>2. f[i] \in V
    BY <1>4, <2>1
  <2>3. f[i + 1] = step[i + 1][f[i]]
    BY <1>4, <2>1
  <2>4. step[i + 1][f[i]] = f[i] \o ss[i + 1]
    BY <1>3, <2>1, <2>2
  <2> QED
    BY <2>3, <2>4
<1>6. Flattens(f, S, ss)
  BY <1>4, <1>5 DEF V, Flattens
<1>7. CASE n = 0
  <2>1. ss = <<>>
    BY <1>7, EmptySeq
  <2>2. FlattenSeq(ss) = ss
    BY <1>7 DEF FlattenSeq
  <2> QED
    BY <1>4, <1>6, <1>7, <2>1, <2>2
<1>8. CASE n # 0
  <2> DEFINE g == [i \in 1 .. n |-> f[i]]
             h == CHOOSE g1 : Is(g1)
  <2>1. Is(g)
    <3>1. ASSUME NEW i \in 1 .. n
          PROVE  g[i] = IF i = 1 THEN ss[i] ELSE g[i - 1] \o ss[i]
      <4>0. PICK j \in Nat : j = i - 1 /\ j + 1 = i /\ j < n
        BY <1>1
      <4>1. f[i] = f[j] \o ss[i]
        BY <1>5, <4>0
      <4>2. CASE i = 1
        <5>1. f[j] = <<>>
          BY <1>4, <4>0, <4>2
        <5>1a. f[i] = <<>> \o ss[i]
          BY <4>1, <5>1
        <5>2. <<>> \o ss[i] = ss[i]
          BY <1>1, <1>2a
        <5> QED
          BY <4>2, <5>1a, <5>2
      <4>3. CASE i # 1
        <5>1. j \in 1 .. n
          BY <4>0, <4>3
        <5>2. g[i - 1] = f[j]
          BY <4>0, <5>1
        <5> QED
          BY <4>1, <4>3, <5>2
      <4> QED
        BY <4>2, <4>3
    <3> HIDE DEF n
    <3> QED
      BY <3>1
  <2> HIDE DEF g
  <2>2. Is(h)
    <3> HIDE DEF Is
    <3> QED
      BY <2>1
  <2>3. \A i \in 1 .. n : h[i] = IF i = 1 THEN ss[i] ELSE h[i - 1] \o ss[i]
    <3> HIDE DEF h, n
    <3> QED
      BY <2>2
  <2>4. FlattenSeq(ss) = h[n]
    BY <1>8 DEF FlattenSeq
  <2> DEFINE T == {i \in Nat : i \in 1 .. n => h[i] = f[i]}
  <2>5. 0 \in T
    BY <1>1
  <2>6. ASSUME NEW i \in Nat, i \in T, i + 1 \in 1 .. n PROVE h[i + 1] = f[i + 1]
    <3> HIDE DEF h, n
    <3>0. PICK k \in 1 .. n : k = i + 1 /\ k - 1 = i /\ (k = 1 <=> i = 0)
      BY <2>6
    <3>1. f[k] = f[i] \o ss[k]
      BY <1>1, <1>5, <3>0
    <3>2. h[k] = IF k = 1 THEN ss[k] ELSE h[i] \o ss[k]
      BY <2>3, <3>0
    <3>3. <<>> \o ss[k] = ss[k]
      BY <1>1, <1>2a
    <3>4. i # 0 => h[i] = f[i]
      BY <1>1, <2>6, <3>0
    <3> QED
      BY <1>4, <3>0, <3>1, <3>2, <3>3, <3>4
  <2>7. n \in T
    <3>1. \A i \in Nat : i \in T => i + 1 \in T
      <4> HIDE DEF h, n
      <4> QED
        BY <2>6
    <3> HIDE DEF T
    <3> QED
      BY <1>1, <2>5, <3>1, Counting
  <2>8. h[n] = f[n]
    BY <1>1, <1>8, <2>7
  <2> QED
    BY <1>6, <2>4, <2>8
<1> QED
  BY <1>7, <1>8

(* Two lists of lists that begin alike are joined alike, as far as they do. *)
Alike(s, t, n) ==
  n \in Nat /\ n <= Len(s) /\ n <= Len(t) /\ \A i \in 1 .. n : t[i] = s[i]

LEMMA FlattenAlike ==
  ASSUME NEW S, NEW s \in Seq(Seq(S)), NEW t \in Seq(Seq(S)),
         NEW n, Alike(s, t, n),
         NEW f, Flattens(f, S, s),
         NEW g, Flattens(g, S, t)
  PROVE  g[n] = f[n]
<1> USE DEF Alike
<1> DEFINE T == {i \in Nat : i <= n => g[i] = f[i]}
<1>1. Len(s) \in Nat /\ Len(t) \in Nat
  BY LenProperties
<1>2. 0 \in T
  BY DEF Flattens
<1>3. ASSUME NEW i \in Nat, i \in T PROVE i + 1 \in T
  <2> SUFFICES ASSUME i + 1 <= n PROVE g[i + 1] = f[i + 1]
    OBVIOUS
  <2>1. i < Len(s) /\ i < Len(t) /\ i + 1 \in 1 .. n
    BY <1>1
  <2>2. f[i + 1] = f[i] \o s[i + 1] /\ g[i + 1] = g[i] \o t[i + 1]
    BY <2>1 DEF Flattens
  <2>3. g[i] = f[i] /\ t[i + 1] = s[i + 1]
    BY <1>3, <2>1
  <2> QED
    BY <2>2, <2>3
<1>4. n \in T
  <2> HIDE DEF T
  <2> QED
    BY <1>2, <1>3, Counting
<1> QED
  BY <1>4

LEMMA FlattenType ==
  ASSUME NEW S, NEW ss \in Seq(Seq(S))
  PROVE  FlattenSeq(ss) \in Seq(S)
<1>1. PICK f : Flattens(f, S, ss) /\ FlattenSeq(ss) = f[Len(ss)]
  BY FlattenRuns
<1>2. Len(ss) \in 0 .. Len(ss)
  BY LenProperties
<1> QED
  BY <1>1, <1>2 DEF Flattens

(* A list of lists with one more. *)
LEMMA FlattenMore ==
  ASSUME NEW S, NEW ss \in Seq(Seq(S)), NEW more \in Seq(S)
  PROVE  FlattenSeq(Append(ss, more)) = FlattenSeq(ss) \o more
<1> DEFINE t == Append(ss, more)
           n == Len(ss)
<1>1. /\ t \in Seq(Seq(S)) /\ n \in Nat /\ Len(t) = n + 1 /\ t[n + 1] = more
      /\ \A i \in 1 .. n : t[i] = ss[i]
  BY LenProperties, AppendProperties
<1> HIDE DEF t
<1>2. PICK f : Flattens(f, S, ss) /\ FlattenSeq(ss) = f[n]
  BY FlattenRuns
<1>3. PICK g : Flattens(g, S, t) /\ FlattenSeq(t) = g[n + 1]
  BY <1>1, FlattenRuns
<1>4. g[n] = f[n]
  <2>1. Alike(ss, t, n)
    BY <1>1 DEF Alike
  <2>2. Flattens(f, S, ss) /\ Flattens(g, S, t) /\ t \in Seq(Seq(S))
    BY <1>1, <1>2, <1>3
  <2> HIDE DEF n
  <2> QED
    BY <2>1, <2>2, FlattenAlike
<1>5. g[n + 1] = g[n] \o more
  <2>1. n < Len(t) /\ n \in 0 .. Len(t)
    BY <1>1
  <2>2. g \in [0 .. Len(t) -> Seq(S)] /\ g[n + 1] = g[n] \o t[n + 1]
    BY <1>1, <1>3, <2>1 DEF Flattens
  <2> HIDE DEF n
  <2> QED
    BY <1>1, <2>1, <2>2
<1> QED
  BY <1>2, <1>3, <1>4, <1>5 DEF t

(* One that has no element yet. *)
LEMMA FlattenOpened ==
  ASSUME NEW S, NEW ss \in Seq(Seq(S))
  PROVE  FlattenSeq(Append(ss, <<>>)) = FlattenSeq(ss)
<1>1. FlattenSeq(Append(ss, <<>>)) = FlattenSeq(ss) \o <<>>
  BY EmptySeq, FlattenMore
<1> QED
  BY <1>1, FlattenType, ConcatEmptySeq

LEMMA AppendJoined ==
  ASSUME NEW S, NEW a \in Seq(S), NEW b \in Seq(S), NEW e \in S
  PROVE  a \o Append(b, e) = Append(a \o b, e)
<1>1. a \o b \in Seq(S) /\ <<e>> \in Seq(S)
  BY ConcatProperties
<1>2. Append(a \o b, e) = (a \o b) \o <<e>>
  BY <1>1, AppendIsConcat
<1>3. Append(b, e) = b \o <<e>>
  BY AppendIsConcat
<1>4. (a \o b) \o <<e>> = a \o (b \o <<e>>)
  BY <1>1, ConcatAssociative
<1> QED
  BY <1>2, <1>3, <1>4

(* An element more at the end of the last. *)
Grows(s, t, e) ==
  LET n == Len(s) IN
  /\ Len(t) = n /\ t[n] = Append(s[n], e)
  /\ \A i \in 1 .. n : i # n => t[i] = s[i]

LEMMA FlattenGrows ==
  ASSUME NEW S, NEW s \in Seq(Seq(S)), s # <<>>, NEW t \in Seq(Seq(S)), NEW e \in S,
         Grows(s, t, e)
  PROVE  FlattenSeq(t) = Append(FlattenSeq(s), e)
<1> DEFINE n == Len(s)
           m == n - 1
<1>1. n \in Nat \ {0} /\ m \in Nat /\ n \in 1 .. n /\ m \in 0 .. n /\ m <= n /\ Len(t) = n
  BY EmptySeq, LenProperties DEF Grows
<1>2. PICK f : Flattens(f, S, s) /\ FlattenSeq(s) = f[n]
  BY FlattenRuns
<1>3. PICK g : Flattens(g, S, t) /\ FlattenSeq(t) = g[n]
  BY <1>1, FlattenRuns
<1>4. Alike(s, t, m)
  BY <1>1 DEF Alike, Grows
<1>5. f[n] = f[m] \o s[n] /\ g[n] = g[m] \o t[n] /\ f[m] \in Seq(S)
  <2>1. m + 1 = n /\ m < n
    BY <1>1
  <2> QED
    BY <1>1, <1>2, <1>3, <2>1 DEF Flattens
<1>6. s[n] \in Seq(S)
  BY <1>1, ElementOfSeq
<1>7. g[m] = f[m]
  <2> HIDE DEF m
  <2> QED
    BY <1>2, <1>3, <1>4, FlattenAlike
<1>8. f[m] \o Append(s[n], e) = Append(f[m] \o s[n], e)
  <2>1. f[m] \in Seq(S)
    BY <1>5
  <2>2. \A a, b \in Seq(S) : a \o Append(b, e) = Append(a \o b, e)
    BY AppendJoined
  <2> HIDE DEF m, n
  <2> QED
    BY <1>6, <2>1, <2>2
<1>9. g[n] = f[m] \o Append(s[n], e)
  BY <1>5, <1>7 DEF Grows
<1> QED
  BY <1>2, <1>3, <1>5, <1>8, <1>9

LEMMA JoinedOne ==
  ASSUME NEW s, IsList(s), NEW x
  PROVE  /\ IsList(s \o <<x>>) /\ Len(s) \in Nat /\ Len(s \o <<x>>) = Len(s) + 1
         /\ \A i \in 1 .. Len(s) : (s \o <<x>>)[i] = s[i]
         /\ (s \o <<x>>)[Len(s) + 1] = x
<1>1. IsList(<<x>>) /\ Len(<<x>>) = 1 /\ <<x>>[1] = x
  BY OneIsList
<1>2. /\ IsList(s \o <<x>>) /\ Len(s) \in Nat
      /\ Len(s \o <<x>>) = Len(s) + 1
      /\ \A i \in 1 .. Len(s) + 1 :
           (s \o <<x>>)[i] = IF i <= Len(s) THEN s[i] ELSE <<x>>[i - Len(s)]
  BY <1>1, Joined DEF IsList
<1> QED
  BY <1>1, <1>2

(* The answers of a round. *)
OfRound(answers, k) == Kept(answers, {e \in ToSet(answers) : e.round = k})

LEMMA OfRoundOne ==
  ASSUME NEW s, IsList(s), NEW x, NEW k
  PROVE  /\ Len(OfRound(s, k)) \in Nat
         /\ Len(OfRound(s \o <<x>>, k)) =
              Len(OfRound(s, k)) + (IF x.round = k THEN 1 ELSE 0)
<1> DEFINE R == {s[i] : i \in 1 .. Len(s)}
           S == R \cup {x}
           K == {e \in S : e.round = k}
<1>1. s \in Seq(R)
  BY ListIsSeq
<1> HIDE DEF R
<1>2. s \in Seq(S) /\ x \in S
  BY <1>1, SeqMonotonic
<1> HIDE DEF S
<1>3. ASSUME NEW u \in Seq(S) PROVE OfRound(u, k) = Kept(u, K)
  <2>1. \A i \in 1 .. Len(u) : u[i] \in S /\ u[i] \in ToSet(u)
    BY LenProperties, ElementOfSeq DEF ToSet
  <2>2. \A i \in 1 .. Len(u) : u[i] \in {e \in ToSet(u) : e.round = k} <=> u[i] \in K
    BY <2>1
  <2> HIDE DEF K
  <2> QED
    BY <2>2, KeptSame DEF OfRound
<1>4. x \in K <=> x.round = k
  BY <1>2
<1>5. s \o <<x>> = Append(s, x) /\ Append(s, x) \in Seq(S)
  BY <1>2, AppendIsConcat, AppendProperties
<1>6. OfRound(s, k) = Kept(s, K) /\ OfRound(s \o <<x>>, k) = Kept(Append(s, x), K)
  BY <1>2, <1>3, <1>5
<1> HIDE DEF K
<1>7. /\ Kept(s, K) \in Seq(S)
      /\ Kept(Append(s, x), K) = IF x \in K THEN Append(Kept(s, K), x) ELSE Kept(s, K)
  BY <1>2, KeptType, KeptAppend
<1>8. Len(Kept(s, K)) \in Nat /\ Len(Append(Kept(s, K), x)) = Len(Kept(s, K)) + 1
  BY <1>2, <1>7, LenProperties, AppendProperties
<1> QED
  BY <1>4, <1>6, <1>7, <1>8

LEMMA OfRoundNone ==
  ASSUME NEW s, IsList(s), NEW k, \A i \in 1 .. Len(s) : s[i].round # k
  PROVE  Len(OfRound(s, k)) = 0
<1>1. OfRound(s, k) = <<>>
  BY ListIsSeq, KeptNone DEF OfRound
<1> QED
  BY <1>1

-----------------------------------------------------------------------------
(* What the first n - 1 events of a list tell as new concerns. *)
ToldIn(s, n) == {s[i].about : i \in {j \in 1 .. n - 1 : s[j].kind = "concern"}}

LEMMA ToldJoined ==
  ASSUME NEW s, NEW t, IsList(s), IsList(t)
  PROVE  /\ \A n \in 1 .. Len(s) + 1 : ToldIn(s \o t, n) = ToldIn(s, n)
         /\ ToldIn(s \o t, Len(s \o t) + 1) =
              ToldIn(s, Len(s) + 1) \cup ToldIn(t, Len(t) + 1)
<1> DEFINE u == s \o t
<1>1. /\ IsList(u) /\ Len(u) = Len(s) + Len(t) /\ Len(s) \in Nat /\ Len(t) \in Nat
      /\ \A i \in 1 .. Len(s) + Len(t) :
           u[i] = IF i <= Len(s) THEN s[i] ELSE t[i - Len(s)]
  BY Joined DEF IsList
<1> HIDE DEF u
<1>2. \A i \in 1 .. Len(s) : u[i] = s[i]
  BY <1>1
<1>3. \A n \in 1 .. Len(s) + 1 : ToldIn(u, n) = ToldIn(s, n)
  BY <1>1, <1>2 DEF ToldIn
<1>4. ASSUME NEW x \in ToldIn(u, Len(u) + 1)
      PROVE  x \in ToldIn(s, Len(s) + 1) \cup ToldIn(t, Len(t) + 1)
  <2>1. PICK i \in 1 .. Len(u) : u[i].kind = "concern" /\ u[i].about = x
    BY <1>1, <1>4 DEF ToldIn
  <2>2. CASE i <= Len(s)
    BY <1>1, <1>2, <2>1, <2>2 DEF ToldIn
  <2>3. CASE ~(i <= Len(s))
    <3>1. PICK j \in 1 .. Len(t) : j = i - Len(s)
      BY <1>1, <2>3
    <3>2. u[i] = t[j]
      BY <1>1, <2>3, <3>1
    <3> QED
      BY <1>1, <2>1, <3>2 DEF ToldIn
  <2> QED
    BY <2>2, <2>3
<1>5. ASSUME NEW x \in ToldIn(s, Len(s) + 1)
      PROVE  x \in ToldIn(u, Len(u) + 1)
  BY <1>1, <1>2 DEF ToldIn
<1>6. ASSUME NEW x \in ToldIn(t, Len(t) + 1)
      PROVE  x \in ToldIn(u, Len(u) + 1)
  <2>1. PICK j \in 1 .. Len(t) : t[j].kind = "concern" /\ t[j].about = x
    BY <1>1 DEF ToldIn
  <2>2. PICK i \in 1 .. Len(u) : i = Len(s) + j /\ ~(i <= Len(s)) /\ i - Len(s) = j
    BY <1>1
  <2>3. u[i] = t[j]
    BY <1>1, <2>2
  <2> QED
    BY <1>1, <2>1, <2>3 DEF ToldIn
<1> QED
  BY <1>3, <1>4, <1>5, <1>6 DEF u

LEMMA ToldNone ==
  ASSUME NEW s, IsList(s), \A i \in 1 .. Len(s) : s[i].kind # "concern"
  PROVE  ToldIn(s, Len(s) + 1) = {}
  BY DEF ToldIn, IsList

LEMMA ToldAll ==
  ASSUME NEW s, IsList(s), \A i \in 1 .. Len(s) : s[i].kind = "concern"
  PROVE  ToldIn(s, Len(s) + 1) = {s[i].about : i \in 1 .. Len(s)}
  BY DEF ToldIn, IsList

-----------------------------------------------------------------------------
(* The last that a list of events tells of an alternative. *)
TellsOf(e, a) == e.kind = "alternative" /\ e.about.label = a

LastTold(s, a, outcome) ==
  \E n \in 1 .. Len(s) :
    /\ TellsOf(s[n], a) /\ s[n].about = outcome
    /\ \A m \in n + 1 .. Len(s) : ~TellsOf(s[m], a)

LEMMA LastToldIs ==
  ASSUME IsList(events), NEW a, NEW outcome, LastTold(events, a, outcome)
  PROVE  LastOutcome(a) = outcome
<1> DEFINE I == {i \in 1 .. Len(events) : events[i].kind = "alternative" /\ events[i].about.label = a}
<1>1. PICK n \in 1 .. Len(events) :
        /\ TellsOf(events[n], a) /\ events[n].about = outcome
        /\ \A m \in n + 1 .. Len(events) : ~TellsOf(events[m], a)
  BY DEF LastTold
<1>2. Len(events) \in Nat
  BY DEF IsList
<1>3. n \in I /\ \A i \in I : n >= i
  BY <1>1, <1>2 DEF TellsOf
<1>4. \A m \in I : (\A i \in I : m >= i) => m = n
  BY <1>2, <1>3
<1> HIDE DEF I
<1>5. Max(I) = n
  BY <1>3, <1>4 DEF Max
<1>6. SelectLastInSeq(events, LAMBDA e : e.kind = "alternative" /\ e.about.label = a) = n
  BY <1>3, <1>5 DEF SelectLastInSeq, I
<1> QED
  BY <1>1, <1>6 DEF LastOutcome

LEMMA LastToldKept ==
  ASSUME NEW s, NEW t, IsList(s), IsList(t), NEW a, NEW outcome,
         LastTold(s, a, outcome), \A i \in 1 .. Len(t) : ~TellsOf(t[i], a)
  PROVE  LastTold(s \o t, a, outcome)
<1> DEFINE u == s \o t
<1>1. /\ IsList(u) /\ Len(u) = Len(s) + Len(t) /\ Len(s) \in Nat /\ Len(t) \in Nat
      /\ \A i \in 1 .. Len(s) + Len(t) :
           u[i] = IF i <= Len(s) THEN s[i] ELSE t[i - Len(s)]
  BY Joined DEF IsList
<1> HIDE DEF u
<1>2. PICK n \in 1 .. Len(s) :
        /\ TellsOf(s[n], a) /\ s[n].about = outcome
        /\ \A m \in n + 1 .. Len(s) : ~TellsOf(s[m], a)
  BY DEF LastTold
<1>3. n \in 1 .. Len(u) /\ u[n] = s[n]
  BY <1>1
<1>4. ASSUME NEW m \in n + 1 .. Len(u) PROVE ~TellsOf(u[m], a)
  <2>1. CASE m <= Len(s)
    <3>1. m \in n + 1 .. Len(s) /\ u[m] = s[m]
      BY <1>1, <2>1
    <3> QED
      BY <1>2, <3>1
  <2>2. CASE ~(m <= Len(s))
    <3>1. PICK j \in 1 .. Len(t) : j = m - Len(s)
      BY <1>1, <2>2
    <3>2. u[m] = t[j]
      BY <1>1, <2>2, <3>1
    <3> QED
      BY <3>2
  <2> QED
    BY <2>1, <2>2
<1>5. LastTold(u, a, outcome)
  BY <1>2, <1>3, <1>4 DEF LastTold
<1> QED
  BY <1>5 DEF u

LEMMA LastToldAnew ==
  ASSUME NEW s, NEW t, IsList(s), IsList(t), NEW a, NEW outcome,
         LastTold(t, a, outcome)
  PROVE  LastTold(s \o t, a, outcome)
<1> DEFINE u == s \o t
<1>1. /\ IsList(u) /\ Len(u) = Len(s) + Len(t) /\ Len(s) \in Nat /\ Len(t) \in Nat
      /\ \A i \in 1 .. Len(s) + Len(t) :
           u[i] = IF i <= Len(s) THEN s[i] ELSE t[i - Len(s)]
  BY Joined DEF IsList
<1> HIDE DEF u
<1>2. PICK n \in 1 .. Len(t) :
        /\ TellsOf(t[n], a) /\ t[n].about = outcome
        /\ \A m \in n + 1 .. Len(t) : ~TellsOf(t[m], a)
  BY DEF LastTold
<1>3. \A j \in 1 .. Len(t) : Len(s) + j \in 1 .. Len(u) /\ u[Len(s) + j] = t[j]
  <2> TAKE j \in 1 .. Len(t)
  <2>1. PICK i \in 1 .. Len(u) : i = Len(s) + j /\ ~(i <= Len(s)) /\ i - Len(s) = j
    BY <1>1
  <2>2. u[i] = t[j]
    BY <1>1, <2>1
  <2> QED
    BY <2>1, <2>2
<1>4. ASSUME NEW m \in Len(s) + n + 1 .. Len(u) PROVE ~TellsOf(u[m], a)
  <2>1. PICK j \in n + 1 .. Len(t) : m = Len(s) + j
    <3>1. m - Len(s) \in n + 1 .. Len(t) /\ m = Len(s) + (m - Len(s))
      BY <1>1
    <3> QED
      BY <3>1
  <2>2. j \in 1 .. Len(t)
    BY <1>1
  <2>3. u[m] = t[j]
    BY <1>3, <2>1, <2>2
  <2> QED
    BY <1>2, <2>3
<1>5. LastTold(u, a, outcome)
  BY <1>2, <1>3, <1>4 DEF LastTold
<1> QED
  BY <1>5 DEF u

(* Events of some kinds. *)
OfKinds(new, K) == IsList(new) /\ \A i \in 1 .. Len(new) : new[i].kind \in K

Without(new, K) == \A i \in 1 .. Len(new) : new[i].kind \notin K

LEMMA OfKindsJoined ==
  ASSUME NEW K, NEW L, NEW s, NEW t, OfKinds(s, K), OfKinds(t, L)
  PROVE  OfKinds(s \o t, K \cup L)
<1>1. /\ IsList(s \o t) /\ Len(s) \in Nat /\ Len(t) \in Nat
      /\ Len(s \o t) = Len(s) + Len(t)
      /\ \A i \in 1 .. Len(s) + Len(t) :
           (s \o t)[i] = IF i <= Len(s) THEN s[i] ELSE t[i - Len(s)]
  BY Joined DEF OfKinds, IsList
<1>2. ASSUME NEW i \in 1 .. Len(s) + Len(t)
      PROVE  (s \o t)[i].kind \in K \cup L
  <2>1. CASE i <= Len(s)
    BY <1>1, <2>1 DEF OfKinds
  <2>2. CASE ~(i <= Len(s))
    <3>1. i - Len(s) \in 1 .. Len(t)
      BY <1>1, <2>2
    <3> QED
      BY <1>1, <2>2, <3>1 DEF OfKinds
  <2> QED
    BY <2>1, <2>2
<1> QED
  BY <1>1, <1>2 DEF OfKinds

LEMMA OfKindsOne ==
  ASSUME NEW K, NEW e, e.kind \in K
  PROVE  OfKinds(<<e>>, K)
<1>1. ASSUME NEW i \in 1 .. Len(<<e>>) PROVE <<e>>[i] = e
  BY OneIsList
<1> QED
  BY <1>1, OneIsList DEF OfKinds

LEMMA OfKindsMade ==
  ASSUME NEW K, NEW n \in Nat, NEW f, f = [i \in 1 .. n |-> f[i]],
         \A i \in 1 .. n : f[i].kind \in K
  PROVE  OfKinds(f, K)
  BY FunctionIsList DEF OfKinds

LEMMA OfNoKind == ASSUME NEW K PROVE OfKinds(<<>>, K)
<1>1. IsList(<<>>) /\ Len(<<>>) = 0
  BY EmptySeq, SeqIsList
<1> QED
  BY <1>1 DEF OfKinds

LEMMA WithoutOthers ==
  ASSUME NEW K, NEW L, NEW new, OfKinds(new, K), K \cap L = {}
  PROVE  Without(new, L)
  BY DEF OfKinds, Without

LEMMA NoteKind ==
  ASSUME NEW phase, NEW kind, NEW round, NEW about
  PROVE  Note(phase, kind, round, about).kind = kind
  BY DEF Note, Event

LEMMA EventKind ==
  ASSUME NEW phase, NEW kind, NEW agent, NEW to, NEW round, NEW about
  PROVE  Event(phase, kind, agent, to, round, about).kind = kind
  BY DEF Event

LEMMA InvestigationKinds ==
  ASSUME NEW found \in Investigations
  PROVE  OfKinds(InvestigationEvents(found), {"tool_call", "finding"})
<1>1. found \in Seq({"tool_call", "finding"}) /\ Len(found) \in Nat
  BY TraceAssumption, LenProperties
<1>2. \A i \in 1 .. Len(found) : found[i] \in {"tool_call", "finding"}
  BY <1>1, ElementOfSeq
<1> QED
  BY <1>1, <1>2, OfKindsMade DEF InvestigationEvents, Note, Event

LEMMA ProposalKinds == OfKinds(ProposalEvents, {"alternative"})
<1> DEFINE K == {"alternative"}
<1>1. \A a \in 1 .. 3 : ProposalEvents[a].kind \in K
  BY DEF ProposalEvents, Note, Event
<1>2. ProposalEvents = [a \in 1 .. 3 |-> ProposalEvents[a]] /\ 3 \in Nat
  BY DEF ProposalEvents
<1> HIDE DEF K
<1>3. OfKinds(ProposalEvents, K)
  BY <1>1, <1>2, OfKindsMade
<1> QED
  BY <1>3 DEF K

LEMMA DiscoveryKinds ==
  ASSUME NEW signalled \in SignalLists, NEW consulted
  PROVE  OfKinds(DiscoveryEvents(signalled, consulted), {"signal", "peer_decision", "finding"})
<1> DEFINE told    == [i \in 1 .. Len(signalled) |->
                         Note("discovery", "signal", 0, signalled[i])]
           decide(t) == Event("discovery", "peer_decision", owner, t, 0, t \in consulted)
           decided == [i \in 1 .. Len(Others) |-> decide(Others[i])]
           summary == <<Note("discovery", "finding", 0, "summary")>>
           K == {"signal", "peer_decision", "finding"}
<1>1. Len(signalled) \in Nat /\ Len(Others) \in Nat
  BY TraceAssumption, OthersType, LenProperties
<1>2. OfKinds(told, K)
  <2>1. \A i \in 1 .. Len(signalled) : told[i].kind \in K
    BY NoteKind
  <2>2. told = [i \in 1 .. Len(signalled) |-> told[i]]
    OBVIOUS
  <2> HIDE DEF told, K
  <2> QED
    BY <1>1, <2>1, <2>2, OfKindsMade
<1>3. OfKinds(decided, K)
  <2>1. \A i \in 1 .. Len(Others) : decided[i].kind \in K
    BY EventKind
  <2>2. decided = [i \in 1 .. Len(Others) |-> decided[i]]
    OBVIOUS
  <2> HIDE DEF decided, K
  <2> QED
    BY <1>1, <2>1, <2>2, OfKindsMade
<1>4. OfKinds(summary, K)
  BY OfKindsOne DEF Note, Event
<1>5. DiscoveryEvents(signalled, consulted) =
        IF signalled = <<>> THEN <<>> ELSE told \o decided \o summary
  BY DEF DiscoveryEvents
<1> HIDE DEF told, decided, summary, K
<1>6. OfKinds(told \o decided, K) /\ OfKinds(<<>>, K)
  <2>1. OfKinds(told \o decided, K \cup K)
    BY <1>2, <1>3, OfKindsJoined
  <2>2. K \cup K = K
    OBVIOUS
  <2> QED
    BY <2>1, <2>2, OfNoKind
<1>7. OfKinds(told \o decided \o summary, K)
  <2>1. OfKinds(told \o decided \o summary, K \cup K)
    BY <1>4, <1>6, OfKindsJoined
  <2>2. K \cup K = K
    OBVIOUS
  <2> QED
    BY <2>1, <2>2
<1>8. OfKinds(DiscoveryEvents(signalled, consulted), K)
  BY <1>5, <1>6, <1>7
<1> QED
  BY <1>8 DEF K

(* What a consultation tells: a question, its answer, and what is new. *)
Reply(said) == Event("deliberation", "response", said.from, owner, Round, Shown(said.answer))

(* What a list of concern events tells, and from whom. *)
ToldList(s) == [i \in 1 .. Len(s) |-> [by |-> s[i].agent, concern |-> s[i].about]]

LEMMA ToldListJoined ==
  ASSUME NEW s, NEW t, IsList(s), IsList(t)
  PROVE  ToldList(s \o t) = ToldList(s) \o ToldList(t)
<1> DEFINE told(e) == [by |-> e.agent, concern |-> e.about]
           u == s \o t
           a == ToldList(s)
           b == ToldList(t)
           m == Len(s)
           n == Len(t)
<1>1. /\ Len(u) = m + n /\ m \in Nat /\ n \in Nat
      /\ \A i \in 1 .. m + n : u[i] = IF i <= m THEN s[i] ELSE t[i - m]
  BY Joined DEF IsList
<1>2. /\ IsList(a) /\ Len(a) = m /\ \A i \in 1 .. m : a[i] = told(s[i])
      /\ IsList(b) /\ Len(b) = n /\ \A i \in 1 .. n : b[i] = told(t[i])
  BY <1>1, FunctionIsList DEF ToldList
<1> HIDE DEF a, b, u
<1>3. /\ IsList(a \o b) /\ Len(a \o b) = m + n
      /\ \A i \in 1 .. m + n : (a \o b)[i] = IF i <= m THEN a[i] ELSE b[i - m]
  <2>1. /\ IsList(a \o b) /\ Len(a \o b) = Len(a) + Len(b)
        /\ \A i \in 1 .. Len(a) + Len(b) :
             (a \o b)[i] = IF i <= Len(a) THEN a[i] ELSE b[i - Len(a)]
    BY <1>2, Joined
  <2> QED
    BY <1>2, <2>1
<1>4. ASSUME NEW i \in 1 .. m + n PROVE (a \o b)[i] = told(u[i])
  <2>1. CASE i <= m
    BY <1>1, <1>2, <1>3, <2>1
  <2>2. CASE ~(i <= m)
    <3>1. i - m \in 1 .. n
      BY <1>1, <2>2
    <3> QED
      BY <1>1, <1>2, <1>3, <2>2, <3>1
  <2> QED
    BY <2>1, <2>2
<1>5. a \o b = [i \in 1 .. m + n |-> (a \o b)[i]]
  BY <1>3 DEF IsList
<1>6. a \o b = [i \in 1 .. m + n |-> told(u[i])]
  <2> HIDE DEF told, m, n
  <2> QED
    BY <1>4, <1>5
<1> QED
  BY <1>1, <1>6 DEF ToldList, u, a, b

LEMMA ConsultationTells ==
  ASSUME NEW said, IsList(said.newHere)
  PROVE  LET new == <<Asks(said.from)>> \o AnswerEvents(said) IN
         /\ OfKinds(new, {"request", "response", "concern"})
         /\ Kinds(new, "request") = <<Asks(said.from)>>
         /\ Kinds(new, "response") = <<Reply(said)>>
         /\ ToldList(Kinds(new, "concern")) = Raised(said)
         /\ ToldIn(new, Len(new) + 1) = ToSet(said.newHere)
         /\ Len(new) \in Nat \ {0} /\ new[1] = Asks(said.from)
         /\ \A i \in 2 .. Len(new) : new[i].kind # "request"
<1> DEFINE fresh  == said.newHere
           told(x) == Event("deliberation", "concern", said.from, owner, Round, x)
           raised == [i \in 1 .. Len(fresh) |-> told(fresh[i])]
           ask    == <<Asks(said.from)>>
           reply  == <<Reply(said)>>
           answer == reply \o raised
           new    == ask \o answer
<1>1. IsList(fresh) /\ Len(fresh) \in Nat
  BY DEF IsList
<1>2. AnswerEvents(said) = answer
  BY DEF AnswerEvents, Reply
<1>3. /\ IsList(raised) /\ Len(raised) = Len(fresh)
      /\ \A i \in 1 .. Len(raised) :
           /\ raised[i].kind = "concern" /\ raised[i].agent = said.from
           /\ raised[i].about = fresh[i]
  <2>1. IsList(raised) /\ Len(raised) = Len(fresh)
    BY <1>1, FunctionIsList
  <2>2. \A i \in 1 .. Len(fresh) :
           /\ raised[i].kind = "concern" /\ raised[i].agent = said.from
           /\ raised[i].about = fresh[i]
    BY DEF Event
  <2> HIDE DEF fresh, raised
  <2> QED
    BY <2>1, <2>2
<1>4. /\ IsList(ask) /\ Len(ask) = 1 /\ ask[1] = Asks(said.from) /\ ask[1].kind = "request"
      /\ IsList(reply) /\ Len(reply) = 1 /\ reply[1].kind = "response"
  BY OneIsList DEF Asks, Reply, Event
<1>5. /\ {raised[i].about : i \in 1 .. Len(raised)} = ToSet(fresh)
      /\ ToldList(raised) = Raised(said)
  <2>1. DOMAIN fresh = 1 .. Len(fresh)
    <3> HIDE DEF fresh
    <3> QED
      BY <1>1 DEF IsList
  <2>2. ToldList(raised) = [i \in 1 .. Len(fresh) |-> [by |-> said.from, concern |-> fresh[i]]]
    <3> HIDE DEF fresh, raised
    <3> QED
      BY <1>3 DEF ToldList
  <2>3. {raised[i].about : i \in 1 .. Len(raised)} = ToSet(fresh)
    <3> HIDE DEF fresh, raised
    <3> QED
      BY <1>3, <2>1 DEF ToSet
  <2> QED
    BY <2>2, <2>3 DEF Raised
<1> HIDE DEF fresh, told, raised, ask, reply, answer, new
<1>0. answer = reply \o raised /\ new = ask \o answer
  BY DEF answer, new
<1>6. /\ IsList(answer) /\ Len(answer) = 1 + Len(raised)
      /\ Len(raised) \in Nat
      /\ \A i \in 1 .. 1 + Len(raised) :
           answer[i] = IF i <= 1 THEN reply[i] ELSE raised[i - 1]
  <2>1. Len(raised) \in Nat
    BY <1>3 DEF IsList
  <2>2. IsList(reply) /\ Len(reply) = 1 /\ IsList(raised)
    BY <1>3, <1>4
  <2> QED
    BY <1>0, <2>1, <2>2, Joined
<1>7. \A i \in 1 .. Len(answer) : answer[i].kind \in {"response", "concern"}
  <2> TAKE i \in 1 .. Len(answer)
  <2>1. CASE i <= 1
    BY <1>4, <1>6, <2>1
  <2>2. CASE ~(i <= 1)
    <3>1. i - 1 \in 1 .. Len(raised)
      BY <1>6, <2>2
    <3> QED
      BY <1>3, <1>6, <2>2, <3>1
  <2> QED
    BY <2>1, <2>2
<1>8. ASSUME NEW kind PROVE Kinds(new, kind) = Kinds(ask, kind) \o (Kinds(reply, kind) \o Kinds(raised, kind))
  <2>1. Kinds(answer, kind) = Kinds(reply, kind) \o Kinds(raised, kind)
    <3>1. IsList(reply) /\ IsList(raised)
      BY <1>3, <1>4
    <3> QED
      BY <1>0, <3>1, KindsJoined
  <2>2. Kinds(new, kind) = Kinds(ask, kind) \o Kinds(answer, kind)
    <3>1. IsList(ask) /\ IsList(answer)
      BY <1>4, <1>6
    <3> QED
      BY <1>0, <3>1, KindsJoined
  <2> QED
    BY <2>1, <2>2
<1>9. /\ Kinds(ask, "request") = ask
      /\ Kinds(ask, "response") = <<>> /\ Kinds(ask, "concern") = <<>>
      /\ Kinds(reply, "response") = reply
      /\ Kinds(reply, "request") = <<>> /\ Kinds(reply, "concern") = <<>>
  BY <1>4, KindsAll, KindsNone
<1>10. /\ Kinds(raised, "concern") = raised
       /\ Kinds(raised, "request") = <<>> /\ Kinds(raised, "response") = <<>>
  BY <1>3, KindsAll, KindsNone
<1>11. ASSUME NEW s, IsList(s) PROVE s \o <<>> = s /\ <<>> \o s = s
  BY <1>11, ListIsSeq, ConcatEmptySeq
<1>12. IsList(<<>>)
  BY EmptySeq, SeqIsList
<1>13. /\ Kinds(new, "request") = ask
       /\ Kinds(new, "response") = reply
       /\ Kinds(new, "concern") = raised
  <2>1. /\ Kinds(new, "request") = ask \o (<<>> \o <<>>)
        /\ Kinds(new, "response") = <<>> \o (reply \o <<>>)
        /\ Kinds(new, "concern") = <<>> \o (<<>> \o raised)
    BY <1>8, <1>9, <1>10
  <2>2. /\ <<>> \o <<>> = <<>> /\ ask \o <<>> = ask
        /\ reply \o <<>> = reply /\ <<>> \o reply = reply
        /\ <<>> \o raised = raised
    BY <1>3, <1>4, <1>11, <1>12
  <2> QED
    BY <2>1, <2>2
<1>14. /\ IsList(new) /\ Len(new) = 1 + Len(answer) /\ Len(answer) \in Nat
       /\ \A i \in 1 .. 1 + Len(answer) :
            new[i] = IF i <= 1 THEN ask[i] ELSE answer[i - 1]
  <2>1. Len(answer) \in Nat
    BY <1>6
  <2>2. IsList(ask) /\ Len(ask) = 1 /\ IsList(answer)
    BY <1>4, <1>6
  <2>3. /\ IsList(ask \o answer) /\ Len(ask \o answer) = Len(ask) + Len(answer)
        /\ \A i \in 1 .. Len(ask) + Len(answer) :
             (ask \o answer)[i] = IF i <= Len(ask) THEN ask[i] ELSE answer[i - Len(ask)]
    BY <2>2, Joined
  <2> QED
    BY <1>0, <2>1, <2>2, <2>3
<1>15. ToldIn(new, Len(new) + 1) = ToSet(said.newHere)
  <2>1. ToldIn(ask, Len(ask) + 1) = {} /\ ToldIn(reply, Len(reply) + 1) = {}
    <3>1. /\ \A i \in 1 .. Len(ask) : ask[i].kind # "concern"
          /\ \A i \in 1 .. Len(reply) : reply[i].kind # "concern"
      BY <1>4
    <3> QED
      BY <1>4, <3>1, ToldNone
  <2>2. ToldIn(raised, Len(raised) + 1) = ToSet(said.newHere)
    BY <1>3, <1>5, ToldAll DEF fresh
  <2>3. ToldIn(answer, Len(answer) + 1) = ToSet(said.newHere)
    <3>1. IsList(reply) /\ IsList(raised)
      BY <1>3, <1>4
    <3>2. ToldIn(reply \o raised, Len(reply \o raised) + 1)
            = ToldIn(reply, Len(reply) + 1) \cup ToldIn(raised, Len(raised) + 1)
      BY <3>1, ToldJoined
    <3> QED
      BY <1>0, <2>1, <2>2, <3>2
  <2>4. ToldIn(ask \o answer, Len(ask \o answer) + 1)
          = ToldIn(ask, Len(ask) + 1) \cup ToldIn(answer, Len(answer) + 1)
    <3>1. IsList(ask) /\ IsList(answer)
      BY <1>4, <1>6
    <3> QED
      BY <3>1, ToldJoined
  <2> QED
    BY <1>0, <2>1, <2>3, <2>4
<1>16. \A i \in 2 .. Len(new) : new[i].kind \in {"response", "concern"}
  <2> TAKE i \in 2 .. Len(new)
  <2>1. i - 1 \in 1 .. Len(answer) /\ i \in 1 .. 1 + Len(answer) /\ ~(i <= 1)
    BY <1>14
  <2> QED
    BY <1>7, <1>14, <2>1
<1>17. Len(new) \in Nat \ {0} /\ new[1] = ask[1]
  BY <1>14
<1>18. OfKinds(new, {"request", "response", "concern"})
  <2>1. \A i \in 1 .. Len(new) : i = 1 \/ i \in 2 .. Len(new)
    BY <1>17
  <2> QED
    BY <1>4, <1>14, <1>16, <1>17, <2>1 DEF OfKinds
<1>19. /\ Kinds(new, "request") = <<Asks(said.from)>>
       /\ Kinds(new, "response") = <<Reply(said)>>
       /\ ToldList(Kinds(new, "concern")) = Raised(said)
       /\ new[1] = Asks(said.from)
  BY <1>5, <1>4, <1>13, <1>17 DEF ask, reply
<1>20. \A i \in 2 .. Len(new) : new[i].kind # "request"
  BY <1>16
<1>21. new = <<Asks(said.from)>> \o AnswerEvents(said)
  BY <1>2 DEF new, ask
<1> QED
  BY <1>15, <1>17, <1>18, <1>19, <1>20, <1>21

LEMMA SynthesisKinds ==
  ASSUME NEW backed, NEW ruling
  PROVE  OfKinds(SynthesisEvents(backed, ruling), {"alternative"})
<1> DEFINE K == {"alternative"}
<1>1. ASSUME NEW a PROVE OfKinds(Synthesis(a, backed, ruling), K)
  <2>1. ASSUME NEW word
        PROVE  OfKinds(<<Note("synthesis", "alternative", Round, Outcome(a, word, ruling[a]))>>, K)
    BY OfKindsOne, NoteKind
  <2> HIDE DEF K
  <2> QED
    BY <2>1, OfNoKind DEF Synthesis
<1> HIDE DEF K
<1>2. ASSUME NEW s, NEW t, OfKinds(s, K), OfKinds(t, K) PROVE OfKinds(s \o t, K)
  <2>1. OfKinds(s \o t, K \cup K)
    BY <1>2, OfKindsJoined
  <2>2. K \cup K = K
    OBVIOUS
  <2> QED
    BY <2>1, <2>2
<1>3. OfKinds(SynthesisEvents(backed, ruling), K)
  BY <1>1, <1>2 DEF SynthesisEvents
<1> QED
  BY <1>3 DEF K

(* What a finding tells: the points for a human, and itself at the end.    *)
Escalated(f) ==
  LET points == HumanDecisionPoints(f)
  IN  [i \in 1 .. Len(points) |-> Note("decision", "escalation", 0, points[i])]

LEMMA FindingKinds ==
  ASSUME NEW f, IsFiniteSet(f.undeployed), IsFiniteSet(f.authority)
  PROVE  /\ FindingEvents(f) = Escalated(f) \o <<Note("artifact", "artifact", 0, f)>>
         /\ OfKinds(Escalated(f), {"escalation"})
         /\ OfKinds(FindingEvents(f), {"escalation", "artifact"})
         /\ Len(Escalated(f)) = Len(HumanDecisionPoints(f))
         /\ IsList(HumanDecisionPoints(f))
<1> DEFINE points == HumanDecisionPoints(f)
<1>1. IsList(points) /\ Len(points) \in Nat
  BY PointsAreListed DEF IsList
<1>2. OfKinds(Escalated(f), {"escalation"}) /\ Len(Escalated(f)) = Len(points)
  BY <1>1, OfKindsMade, FunctionIsList DEF Escalated, Note, Event
<1>3. OfKinds(<<Note("artifact", "artifact", 0, f)>>, {"artifact"})
  BY OfKindsOne DEF Note, Event
<1>4. FindingEvents(f) = Escalated(f) \o <<Note("artifact", "artifact", 0, f)>>
  BY DEF FindingEvents, Escalated
<1>5. OfKinds(FindingEvents(f), {"escalation"} \cup {"artifact"})
  BY <1>2, <1>3, <1>4, OfKindsJoined
<1>6. {"escalation"} \cup {"artifact"} = {"escalation", "artifact"}
  OBVIOUS
<1>7. OfKinds(FindingEvents(f), {"escalation", "artifact"})
  BY <1>5, <1>6
<1> HIDE DEF points
<1> QED
  BY <1>1, <1>2, <1>4, <1>7 DEF points

(* What the steps of a deliberation tell of. *)
StepKinds(new) ==
  /\ Consulting \/ Without(new, {"response", "concern"})
  /\ Consulting \/ Failing \/ Without(new, {"request"})
  /\ (\E found \in Investigations : Investigating(found)) \/ Refining
     \/ Without(new, {"alternative"})
  /\ (\E signalled \in SignalLists : Discovering(signalled)) \/ Without(new, {"signal"})
  /\ Converging \/ GivingUp \/ Without(new, {"convergence"})
  /\ Assembling \/ Without(new, {"escalation", "artifact"})

LEMMA AssembledIsFinite ==
  ASSUME TypeOK, Assemble
  PROVE  IsFiniteSet(finding'.undeployed) /\ IsFiniteSet(finding'.authority)
<1>1. finding' = Summary
  BY DEF Assemble
<1>2. finding'.undeployed \subseteq Members /\ finding'.authority \subseteq Members
  BY <1>1 DEF Summary, Whose, Members
<1> QED
  BY <1>2, FiniteMembers, FS_Subset

LEMMA StepTellsKinds ==
  ASSUME TraceInv, TraceNext
  PROVE  \E new : IsList(new) /\ Emit(new) /\ StepKinds(new)
<1> USE DEF TraceInv, Traced, Inv
<1>1. UNCHANGED events => Emit(<<>>)
  BY ListIsSeq, ConcatEmptySeq DEF Emit
<1>2. IsList(<<>>) /\ StepKinds(<<>>)
  <2>1. IsList(<<>>) /\ Len(<<>>) = 0
    BY EmptySeq, SeqIsList
  <2> QED
    BY <2>1 DEF StepKinds, Without
<1>3. CASE UNCHANGED events
  BY <1>1, <1>2, <1>3
<1>4. CASE \E found \in Investigations : Investigating(found)
  <2>1. PICK found \in Investigations : Investigating(found)
    BY <1>4
  <2> DEFINE new == InvestigationEvents(found) \o ProposalEvents
  <2>2. OfKinds(new, {"tool_call", "finding"} \cup {"alternative"})
    BY InvestigationKinds, ProposalKinds, OfKindsJoined
  <2>3. Emit(new)
    BY <2>1 DEF Investigating
  <2> HIDE DEF new
  <2>4. IsList(new) /\ StepKinds(new)
    BY <1>4, <2>2, WithoutOthers DEF OfKinds, StepKinds, Without
  <2> QED
    BY <2>3, <2>4
<1>5. CASE \E signalled \in SignalLists : Discovering(signalled)
  <2>1. PICK signalled \in SignalLists : Discovering(signalled)
    BY <1>5
  <2> DEFINE new == DiscoveryEvents(signalled, ToSet(peers'))
  <2>2. OfKinds(new, {"signal", "peer_decision", "finding"})
    BY DiscoveryKinds
  <2>3. Emit(new)
    BY <2>1 DEF Discovering
  <2> HIDE DEF new
  <2>4. IsList(new) /\ StepKinds(new)
    BY <1>5, <2>2 DEF OfKinds, StepKinds, Without
  <2> QED
    BY <2>3, <2>4
<1>6. CASE Consulting
  <2> DEFINE said == Last(heard'[Round])
             new  == <<Asks(said.from)>> \o AnswerEvents(said)
  <2>1. IsList(said.newHere)
    BY <1>6, LastIsConsulted DEF Consulting
  <2>2. Emit(new)
    BY <1>6 DEF Consulting
  <2> HIDE DEF said
  <2>3. OfKinds(new, {"request", "response", "concern"})
    BY <2>1, ConsultationTells
  <2> HIDE DEF new
  <2>4. IsList(new) /\ StepKinds(new)
    BY <1>6, <2>3 DEF OfKinds, StepKinds, Without
  <2> QED
    BY <2>2, <2>4
<1>7. CASE Refining
  <2> DEFINE new == SynthesisEvents(recommended', ruledOut')
  <2>1. OfKinds(new, {"alternative"})
    BY SynthesisKinds
  <2>2. Emit(new)
    BY <1>7 DEF Refining
  <2> HIDE DEF new
  <2>3. IsList(new) /\ StepKinds(new)
    BY <1>7, <2>1 DEF OfKinds, StepKinds, Without
  <2> QED
    BY <2>2, <2>3
<1>8. CASE Converging \/ GivingUp
  <2>1. CASE UNCHANGED events
    BY <1>3, <2>1
  <2>2. CASE ~UNCHANGED events
    <3>1. PICK said : Emit(<<Note("decision", "convergence", Round, said)>>)
      <4>1. Emit(<<>>) => UNCHANGED events
        BY ListIsSeq, ConcatEmptySeq DEF Emit
      <4> QED
        BY <1>8, <2>2, <4>1 DEF Converging, GivingUp
    <3> DEFINE new == <<Note("decision", "convergence", Round, said)>>
    <3>2. OfKinds(new, {"convergence"})
      BY OfKindsOne, NoteKind
    <3> HIDE DEF new
    <3>3. IsList(new) /\ StepKinds(new)
      BY <1>8, <3>2 DEF OfKinds, StepKinds, Without
    <3> QED
      BY <3>1, <3>3 DEF new
  <2> QED
    BY <2>1, <2>2
<1>9. CASE Assembling
  <2> DEFINE new == FindingEvents(finding')
  <2>1. IsFiniteSet(finding'.undeployed) /\ IsFiniteSet(finding'.authority)
    BY <1>9, AssembledIsFinite DEF Assembling
  <2>2. OfKinds(new, {"escalation", "artifact"})
    BY <2>1, FindingKinds
  <2>3. Emit(new)
    BY <1>9 DEF Assembling
  <2> HIDE DEF new
  <2>4. IsList(new) /\ StepKinds(new)
    BY <1>9, <2>2 DEF OfKinds, StepKinds, Without
  <2> QED
    BY <2>3, <2>4
<1>10. CASE Failing
  <2>1. CASE \E found \in Investigations : Emit(InvestigationEvents(found))
    <3>1. PICK found \in Investigations : Emit(InvestigationEvents(found))
      BY <2>1
    <3> DEFINE new == InvestigationEvents(found)
    <3>2. OfKinds(new, {"tool_call", "finding"})
      BY InvestigationKinds
    <3>3. Emit(new)
      BY <3>1
    <3> HIDE DEF new
    <3>4. IsList(new) /\ StepKinds(new)
      BY <3>2 DEF OfKinds, StepKinds, Without
    <3> QED
      BY <3>3, <3>4
  <2>2. CASE Emit(<<Asks(peers[Len(Said) + 1])>>)
    <3> DEFINE new == <<Asks(peers[Len(Said) + 1])>>
    <3>1. OfKinds(new, {"request"})
      BY OfKindsOne DEF Asks, Event
    <3>2. Emit(new)
      BY <2>2
    <3> HIDE DEF new
    <3>3. IsList(new) /\ StepKinds(new)
      BY <1>10, <3>1 DEF OfKinds, StepKinds, Without
    <3> QED
      BY <3>2, <3>3
  <2> QED
    BY <1>3, <1>10, <2>1, <2>2 DEF Failing
<1> QED
  BY <1>3, <1>4, <1>5, <1>6, <1>7, <1>8, <1>9, <1>10 DEF TraceNext, GoingOn

(* Only discovery tells of signals. *)
LEMMA SignalsStay ==
  ASSUME TraceInv, [TraceNext]_traceVars, ~\E signalled \in SignalLists : Discovering(signalled)
  PROVE  SignalledIn(events') = SignalledIn(events)
<1>1. CASE UNCHANGED traceVars
  BY <1>1 DEF traceVars
<1>2. CASE TraceNext
  <2>1. PICK new : IsList(new) /\ Emit(new) /\ StepKinds(new)
    BY <1>2, StepTellsKinds
  <2>2. SignalledIn(new) = {}
    BY <2>1 DEF StepKinds, Without, SignalledIn
  <2>3. SignalledIn(events \o new) = SignalledIn(events) \cup SignalledIn(new)
    BY <2>1, SignalledJoined DEF TraceInv, Traced
  <2> QED
    BY <2>1, <2>2, <2>3 DEF Emit
<1> QED
  BY <1>1, <1>2

(* Of the kinds that a step does not tell of, the timeline has the events  *)
(* it had.                                                                 *)
LEMMA KindIsKept ==
  ASSUME IsList(events), NEW new, IsList(new), Emit(new), NEW K, Without(new, K), NEW kind \in K
  PROVE  UNCHANGED OfKind(kind)
<1>1. \A i \in 1 .. Len(new) : new[i].kind # kind
  BY DEF Without
<1>2. Kinds(events \o new, kind) = Kinds(events, kind)
  BY <1>1, KindsKept
<1> QED
  BY <1>2 DEF Emit, OfKind, Kinds

LEMMA KindGrows ==
  ASSUME IsList(events), NEW new, IsList(new), Emit(new), NEW kind
  PROVE  OfKind(kind)' = OfKind(kind) \o Kinds(new, kind)
<1>1. Kinds(events \o new, kind) = Kinds(events, kind) \o Kinds(new, kind)
  BY KindsJoined
<1> QED
  BY <1>1 DEF Emit, OfKind, Kinds

LEMMA KindIsList ==
  ASSUME IsList(events), NEW kind
  PROVE  IsList(OfKind(kind)) /\ Len(OfKind(kind)) \in Nat
<1>1. IsList(Kinds(events, kind))
  BY KindsListed
<1>2. OfKind(kind) = Kinds(events, kind)
  BY DEF OfKind, Kinds
<1> QED
  BY <1>1, <1>2 DEF IsList

(* What a consultation adds to the record. *)
LEMMA ConsultRecorded ==
  ASSUME TypeOK, Progress, Consult
  PROVE  \E e \in Entry :
           /\ e = Last(heard'[Round])
           /\ Record' = Append(Record, e)
           /\ Round \in Nat \ {0} /\ Round' = Round /\ Round \in 1 .. Round
           /\ Len(heard'[Round]) = Len(heard[Round]) + 1
           /\ \A k \in 1 .. Round : k # Round => heard'[k] = heard[k]
           /\ e.newHere = NewIn(e.answer.concerns)
           /\ ToSet(e.newHere) = ToSet(e.answer.concerns) \ seenConcerns
           /\ seenConcerns' = seenConcerns \cup ToSet(e.answer.concerns)
<1>1. PICK e \in Entry :
        /\ heard' \in Seq(Seq(Entry))
        /\ Len(heard') = Round
        /\ Round \in Nat \ {0} /\ Round \in 1 .. Round
        /\ Len(heard'[Round]) = Len(Said) + 1
        /\ heard'[Round][Len(Said) + 1] = e
        /\ \A i \in 1 .. Len(Said) : heard'[Round][i] = Said[i]
        /\ \A k \in 1 .. Round : k # Round => heard'[k] = heard[k]
        /\ e.newHere = NewIn(e.answer.concerns)
        /\ ToSet(e.newHere) = ToSet(e.answer.concerns) \ seenConcerns
        /\ seenConcerns' = seenConcerns \cup ToSet(e.answer.concerns)
  BY ConsultAppends
<1>2. heard \in Seq(Seq(Entry)) /\ Said \in Seq(Entry) /\ heard # <<>>
  BY <1>1, RoundFacts, ElementOfSeq, EmptySeq DEF Said, Round, Progress, Consult
<1>3. heard'[Round] = Append(Said, e)
  <2>1. heard'[Round] \in Seq(Entry)
    BY <1>1, ElementOfSeq
  <2>2. /\ Append(Said, e) \in Seq(Entry) /\ Len(Append(Said, e)) = Len(Said) + 1
        /\ Append(Said, e)[Len(Said) + 1] = e
        /\ \A i \in 1 .. Len(Said) : Append(Said, e)[i] = Said[i]
        /\ Len(Said) \in Nat
    BY <1>1, <1>2, AppendProperties, LenProperties
  <2>3. \A i \in 1 .. Len(Said) + 1 : heard'[Round][i] = Append(Said, e)[i]
    BY <1>1, <2>2
  <2> QED
    BY <1>1, <2>1, <2>2, <2>3, SeqEqual
<1>4. Grows(heard, heard', e)
  BY <1>1, <1>3 DEF Grows, Round, Said
<1>5. FlattenSeq(heard') = Append(FlattenSeq(heard), e)
  <2>1. heard' \in Seq(Seq(Entry))
    BY <1>1
  <2> QED
    BY <1>2, <1>4, <2>1, FlattenGrows
<1>6. Record' = Append(Record, e)
  BY <1>5 DEF Record
<1>7. e = Last(heard'[Round])
  BY <1>1 DEF Last
<1>8. Round' = Round
  BY <1>1 DEF Round
<1> QED
  BY <1>1, <1>6, <1>7, <1>8 DEF Said

LEMMA RecordType ==
  ASSUME TypeOK
  PROVE  Record \in Seq(Entry) /\ IsList(Record) /\ Len(Record) \in Nat
<1>1. FlattenSeq(heard) \in Seq(Entry)
  BY RoundFacts, FlattenType
<1> QED
  BY <1>1, SeqIsList, LenProperties DEF Record

(* A new round adds nothing to it yet. *)
LEMMA OpeningRecorded ==
  ASSUME TypeOK, NextRound
  PROVE  Record' = Record
  BY RoundFacts, FlattenOpened DEF NextRound, Record

LEMMA NothingFlattened == FlattenSeq(<<>>) = <<>> /\ FlattenSeq(<< <<>> >>) = <<>>
<1>1. FlattenSeq(<<>>) = <<>>
  BY EmptySeq DEF FlattenSeq
<1>2. <<>> \in Seq(Seq({})) /\ Append(<<>>, <<>>) = << <<>> >>
  BY EmptySeq
<1>3. FlattenSeq(<< <<>> >>) = <<>>
  BY <1>1, <1>2, FlattenOpened
<1> QED
  BY <1>1, <1>3

-----------------------------------------------------------------------------
(* The answers told are those of the record, each to its question.         *)
AnswersMatch(questions, answers, record, rounds) ==
  /\ Len(answers) = Len(record)
  /\ \A i \in 1 .. Len(answers) :
       /\ answers[i].agent = record[i].from /\ answers[i].about = Shown(record[i].answer)
       /\ answers[i].agent = questions[i].to /\ answers[i].round = questions[i].round
       /\ answers[i].round \in 1 .. rounds

AnswersTold ==
  LET questions == OfKind("request")
      answers   == OfKind("response")
  IN  /\ AnswersMatch(questions, answers, Record, Round)
      /\ \A k \in 1 .. Round : Len(OfRound(answers, k)) = Len(heard[k])
      /\ \/ Len(questions) = Len(answers)
         \/ stage = "raised" /\ Len(questions) = Len(answers) + 1

LEMMA MatchGrows ==
  ASSUME NEW q, IsList(q), NEW a, IsList(a), NEW r, IsList(r), NEW n,
         AnswersMatch(q, a, r, n), Len(q) = Len(a),
         NEW question, NEW answer, NEW entry,
         answer.agent = entry.from, answer.about = Shown(entry.answer),
         answer.agent = question.to, answer.round = question.round,
         answer.round \in 1 .. n
  PROVE  AnswersMatch(q \o <<question>>, a \o <<answer>>, r \o <<entry>>, n)
<1> DEFINE q1 == q \o <<question>>
           a1 == a \o <<answer>>
           r1 == r \o <<entry>>
           m  == Len(a)
<1>1. /\ m \in Nat /\ Len(q) = m /\ Len(r) = m
      /\ Len(q1) = m + 1 /\ Len(a1) = m + 1 /\ Len(r1) = m + 1
  BY JoinedOne DEF AnswersMatch
<1>2. /\ \A i \in 1 .. m : q1[i] = q[i] /\ a1[i] = a[i] /\ r1[i] = r[i]
      /\ q1[m + 1] = question /\ a1[m + 1] = answer /\ r1[m + 1] = entry
  <2>1. (\A i \in 1 .. m : q1[i] = q[i]) /\ q1[m + 1] = question
    <3>1. (\A i \in 1 .. Len(q) : q1[i] = q[i]) /\ q1[Len(q) + 1] = question
      BY JoinedOne
    <3> QED
      BY <1>1, <3>1
  <2>2. (\A i \in 1 .. m : a1[i] = a[i]) /\ a1[m + 1] = answer
    BY <1>1, JoinedOne
  <2>3. (\A i \in 1 .. m : r1[i] = r[i]) /\ r1[m + 1] = entry
    <3>1. (\A i \in 1 .. Len(r) : r1[i] = r[i]) /\ r1[Len(r) + 1] = entry
      BY JoinedOne
    <3> QED
      BY <1>1, <3>1
  <2> QED
    BY <2>1, <2>2, <2>3
<1> HIDE DEF q1, a1, r1
<1>3. ASSUME NEW i \in 1 .. Len(a1)
      PROVE  /\ a1[i].agent = r1[i].from /\ a1[i].about = Shown(r1[i].answer)
             /\ a1[i].agent = q1[i].to /\ a1[i].round = q1[i].round
             /\ a1[i].round \in 1 .. n
  <2>1. CASE i = m + 1
    BY <1>2, <2>1
  <2>2. CASE i # m + 1
    <3>1. i \in 1 .. m
      BY <1>1, <2>2
    <3> QED
      BY <1>2, <3>1 DEF AnswersMatch
  <2> QED
    BY <2>1, <2>2
<1>4. AnswersMatch(q1, a1, r1, n)
  BY <1>1, <1>3 DEF AnswersMatch
<1> QED
  BY <1>4 DEF q1, a1, r1

LEMMA AnswersToldStep ==
  ASSUME TraceInv, AnswersTold, [TraceNext]_traceVars
  PROVE  AnswersTold'
<1> DEFINE questions == OfKind("request")
           answers   == OfKind("response")
<1> USE DEF TraceInv, Traced, Inv
<1>0. /\ IsList(questions) /\ IsList(answers)
      /\ Len(questions) \in Nat /\ Len(answers) \in Nat
      /\ Round \in Nat
  BY KindIsList, RoundFacts
<1>1. CASE UNCHANGED traceVars
  BY <1>1 DEF traceVars, vars, AnswersTold, OfKind, Record, Round, OfRound
<1>2. CASE Consulting
  <2> DEFINE said == Last(heard'[Round])
             new  == <<Asks(said.from)>> \o AnswerEvents(said)
  <2>1. /\ Consult /\ IsList(said.newHere) /\ Emit(new)
    BY <1>2, LastIsConsulted DEF Consulting
  <2>2. /\ Record' = Append(Record, said)
        /\ Round \in Nat \ {0} /\ Round' = Round /\ Round \in 1 .. Round
        /\ Len(heard'[Round]) = Len(heard[Round]) + 1
        /\ \A k \in 1 .. Round : k # Round => heard'[k] = heard[k]
        /\ said \in Entry
    BY <2>1, ConsultRecorded
  <2>3. Record' = Record \o <<said>> /\ IsList(Record)
    BY <2>2, RecordType, AppendIsConcat
  <2> HIDE DEF said
  <2>4. /\ IsList(new)
        /\ Kinds(new, "request") = <<Asks(said.from)>>
        /\ Kinds(new, "response") = <<Reply(said)>>
    BY <2>1, ConsultationTells DEF OfKinds
  <2> HIDE DEF new
  <2>5. /\ questions' = questions \o <<Asks(said.from)>>
        /\ answers' = answers \o <<Reply(said)>>
    BY <2>1, <2>4, KindGrows
  <2>6. stage = "consult" /\ stage' = "consult"
    BY <2>1 DEF Consult
  <2>7. AnswersMatch(questions, answers, Record, Round) /\ Len(questions) = Len(answers)
    BY <2>6 DEF AnswersTold
  <2>8. /\ Reply(said).agent = said.from /\ Reply(said).about = Shown(said.answer)
        /\ Asks(said.from).to = said.from
        /\ Reply(said).round = Round /\ Asks(said.from).round = Round
    BY DEF Reply, Asks, Event
  <2> HIDE DEF questions, answers
  <2>9. AnswersMatch(questions \o <<Asks(said.from)>>, answers \o <<Reply(said)>>,
                     Record \o <<said>>, Round)
    BY <1>0, <2>2, <2>3, <2>7, <2>8, MatchGrows
  <2>10. AnswersMatch(questions', answers', Record', Round')
    BY <2>2, <2>3, <2>5, <2>9
  <2>11. Len(questions') = Len(answers')
    <3>1. Len(questions \o <<Asks(said.from)>>) = Len(questions) + 1
      BY <1>0, JoinedOne
    <3>2. Len(answers \o <<Reply(said)>>) = Len(answers) + 1
      BY <1>0, JoinedOne
    <3> QED
      BY <2>5, <2>7, <3>1, <3>2
  <2>12. ASSUME NEW k \in 1 .. Round PROVE Len(OfRound(answers', k)) = Len(heard'[k])
    <3>1. /\ Len(OfRound(answers, k)) \in Nat
          /\ Len(OfRound(answers', k)) =
               Len(OfRound(answers, k)) + (IF Reply(said).round = k THEN 1 ELSE 0)
      BY <1>0, <2>5, OfRoundOne
    <3>2. Len(OfRound(answers, k)) = Len(heard[k])
      BY DEF AnswersTold, answers
    <3>3. CASE k = Round
      BY <2>2, <2>8, <3>1, <3>2, <3>3
    <3>4. CASE k # Round
      <4>1. heard'[k] = heard[k]
        BY <2>2, <3>4
      <4>2. Reply(said).round # k
        BY <2>8, <3>4
      <4> QED
        BY <3>1, <3>2, <4>1, <4>2
    <3> QED
      BY <3>3, <3>4
  <2> QED
    BY <2>2, <2>10, <2>11, <2>12 DEF AnswersTold, questions, answers
<1>3. CASE TraceNext /\ ~Consulting
  <2>1. PICK new : IsList(new) /\ Emit(new) /\ StepKinds(new)
    BY <1>3, StepTellsKinds
  <2>2. answers' = answers
    <3>1. Without(new, {"response", "concern"})
      BY <1>3, <2>1 DEF StepKinds
    <3> QED
      BY <2>1, <3>1, KindIsKept
  <2>3. ~Failing => questions' = questions
    <3>1. ~Failing => Without(new, {"request"})
      BY <1>3, <2>1 DEF StepKinds
    <3> QED
      BY <2>1, <3>1, KindIsKept
  <2>4. CASE Failing
    <3>1. /\ UNCHANGED heard /\ stage' = "raised" /\ stage # "raised"
      BY <2>4 DEF Failing, Raise
    <3>2. Len(questions) = Len(answers) /\ AnswersMatch(questions, answers, Record, Round)
      BY <3>1 DEF AnswersTold
    <3>3. CASE questions' = questions
      BY <2>2, <3>1, <3>2, <3>3 DEF AnswersTold, Record, Round
    <3>4. CASE \E peer : questions' = questions \o <<Asks(peer)>>
      <4>1. PICK peer : questions' = questions \o <<Asks(peer)>>
        BY <3>4
      <4> HIDE DEF questions
      <4>2. /\ Len(questions') = Len(questions) + 1
            /\ \A i \in 1 .. Len(questions) : questions'[i] = questions[i]
        BY <1>0, <4>1, JoinedOne
      <4>3. AnswersMatch(questions', answers, Record, Round)
        BY <3>2, <4>2 DEF AnswersMatch
      <4> QED
        BY <2>2, <3>1, <3>2, <4>2, <4>3 DEF AnswersTold, Record, Round, questions
    <3>5. \/ questions' = questions
          \/ \E peer : questions' = questions \o <<Asks(peer)>>
      <4>1. CASE UNCHANGED events
        BY <4>1 DEF OfKind
      <4>2. CASE \E found \in Investigations : Emit(InvestigationEvents(found))
        <5>1. PICK found \in Investigations : Emit(InvestigationEvents(found))
          BY <4>2
        <5>2. /\ IsList(InvestigationEvents(found))
              /\ Without(InvestigationEvents(found), {"request"})
          <6>1. OfKinds(InvestigationEvents(found), {"tool_call", "finding"})
            BY InvestigationKinds
          <6> QED
            BY <6>1 DEF OfKinds, Without
        <5> QED
          BY <5>1, <5>2, KindIsKept
      <4>3. CASE Emit(<<Asks(peers[Len(Said) + 1])>>)
        <5> DEFINE peer == peers[Len(Said) + 1]
                   ask  == <<Asks(peer)>>
        <5>1. IsList(ask) /\ \A i \in 1 .. Len(ask) : ask[i].kind = "request"
          <6>1. Asks(peer).kind = "request"
            BY DEF Asks, Event
          <6> QED
            BY <6>1, OneIsList
        <5>2. Kinds(ask, "request") = ask
          BY <5>1, KindsAll
        <5>3. questions' = questions \o Kinds(ask, "request")
          BY <4>3, <5>1, KindGrows
        <5> QED
          BY <5>2, <5>3
      <4> QED
        BY <2>4, <4>1, <4>2, <4>3 DEF Failing
    <3> QED
      BY <3>3, <3>4, <3>5
  <2>5. CASE ~Failing /\ UNCHANGED heard
    <3>1. stage = "raised" => stage' = "raised"
      BY <1>3, <2>5 DEF TraceNext, Investigating, Discovering, Refining, Converging, GoingOn,
                        GivingUp, Assembling, Investigate, Discover, Refine, Converge,
                        NextRound, GiveUp, Assemble
    <3> QED
      BY <2>2, <2>3, <2>5, <3>1 DEF AnswersTold, Record, Round
  <2>6. CASE NextRound
    <3>1. /\ Record' = Record /\ Round' = Round + 1 /\ heard'[Round + 1] = <<>>
          /\ \A k \in 1 .. Round : heard'[k] = heard[k]
          /\ Round \in Nat
      BY <2>6, OpeningRecorded, NextRoundOpens DEF Round
    <3>2. stage = "refined" /\ stage' = "consult" /\ ~Failing
      BY <2>6 DEF NextRound, Failing, Raise
    <3>3. questions' = questions /\ Len(questions) = Len(answers)
      BY <2>3, <3>2 DEF AnswersTold
    <3>4. AnswersMatch(questions, answers, Record, Round + 1)
      BY <3>1 DEF AnswersTold, AnswersMatch
    <3>5. Len(OfRound(answers, Round + 1)) = 0
      <4>1. \A i \in 1 .. Len(answers) : answers[i].round # Round + 1
        BY <3>1 DEF AnswersTold, AnswersMatch
      <4> QED
        BY <1>0, <4>1, OfRoundNone
    <3>6. ASSUME NEW k \in 1 .. Round + 1 PROVE Len(OfRound(answers, k)) = Len(heard'[k])
      <4>1. CASE k = Round + 1
        BY <3>1, <3>5, <4>1
      <4>2. CASE k # Round + 1
        <5>1. k \in 1 .. Round
          BY <3>1, <4>2
        <5> QED
          BY <3>1, <5>1 DEF AnswersTold
      <4> QED
        BY <4>1, <4>2
    <3> HIDE DEF questions, answers
    <3> QED
      BY <2>2, <3>1, <3>3, <3>4, <3>6 DEF AnswersTold, questions, answers
  <2>7. CASE Discover
    <3>1. heard = <<>> /\ heard' = << <<>> >> /\ ~Failing /\ stage' = "consult"
      BY <2>7 DEF Discover, Progress, Failing, Raise
    <3>2. Record = <<>> /\ Record' = <<>> /\ Round = 0 /\ Round' = 1 /\ heard'[1] = <<>>
      <4>1. FlattenSeq(heard') = <<>> /\ FlattenSeq(heard) = <<>>
        BY <3>1, NothingFlattened
      <4> QED
        BY <3>1, <4>1, EmptySeq, OneIsList DEF Round, Record
    <3>3. questions' = questions /\ Len(answers) = 0 /\ Len(questions) = 0
      BY <2>3, <2>7, <3>1, <3>2 DEF AnswersTold, AnswersMatch, Discover
    <3>4. Len(OfRound(answers, 1)) = 0
      BY <1>0, <3>3, OfRoundNone
    <3>5. AnswersMatch(questions, answers, <<>>, 1)
      BY <3>3 DEF AnswersMatch
    <3> HIDE DEF questions, answers
    <3> QED
      BY <2>2, <3>2, <3>3, <3>4, <3>5 DEF AnswersTold, questions, answers
  <2> QED
    BY <1>3, <2>4, <2>5, <2>6, <2>7
       DEF TraceNext, Investigating, Discovering, Refining, Converging, GoingOn,
           GivingUp, Assembling, Investigate, Refine, Converge, GiveUp, Assemble
<1> QED
  BY <1>1, <1>2, <1>3

LEMMA AnswersToldInit == TraceInit => AnswersTold
<1> SUFFICES ASSUME TraceInit PROVE AnswersTold
  OBVIOUS
<1>1. IsList(events) /\ \A i \in 1 .. Len(events) : events[i].kind = "ticket"
  <2> DEFINE first == Note("intake", "ticket", 0, "assigned")
  <2>1. events = <<first>> /\ first.kind = "ticket"
    BY DEF TraceInit, Note, Event
  <2> HIDE DEF first
  <2> QED
    BY <2>1, OneIsList
<1>2. OfKind("request") = <<>> /\ OfKind("response") = <<>>
  <2>1. Kinds(events, "request") = <<>> /\ Kinds(events, "response") = <<>>
    BY <1>1, KindsNone
  <2> QED
    BY <2>1 DEF OfKind, Kinds
<1>3. Record = <<>> /\ Round = 0
  BY NothingFlattened, EmptySeq DEF TraceInit, Init, Record, Round
<1> QED
  BY <1>2, <1>3, EmptySeq DEF AnswersTold, AnswersMatch

-----------------------------------------------------------------------------
(* What was new in the answers of a record, and from whom. *)
RaisedIn(record) == FlattenSeq([i \in 1 .. Len(record) |-> Raised(record[i])])

LEMMA RaisedMore ==
  ASSUME NEW record \in Seq(Entry), NEW e \in Entry
  PROVE  RaisedIn(Append(record, e)) = RaisedIn(record) \o Raised(e)
<1> DEFINE C == [by : Team, concern : Concern]
           more == Append(record, e)
           s == [i \in 1 .. Len(record) |-> Raised(record[i])]
           t == [i \in 1 .. Len(more) |-> Raised(more[i])]
<1>1. ASSUME NEW x \in Entry PROVE Raised(x) \in Seq(C)
  <2>1. x.from \in Team /\ x.newHere \in Seq(Concern)
    BY DEF Entry
  <2>2. Len(x.newHere) \in Nat /\ \A i \in 1 .. Len(x.newHere) : x.newHere[i] \in Concern
    BY <2>1, LenProperties, ElementOfSeq
  <2>3. Raised(x) \in [1 .. Len(x.newHere) -> C]
    BY <2>1, <2>2 DEF Raised
  <2> HIDE DEF C
  <2> QED
    BY <2>2, <2>3, SeqDef
<1> HIDE DEF C
<1>2. /\ Len(record) \in Nat /\ \A i \in 1 .. Len(record) : record[i] \in Entry
      /\ Len(more) = Len(record) + 1 /\ more[Len(record) + 1] = e
      /\ \A i \in 1 .. Len(record) : more[i] = record[i]
  BY LenProperties, ElementOfSeq, AppendProperties
<1>3. s \in Seq(Seq(C)) /\ Len(s) = Len(record)
  <2>1. s \in [1 .. Len(record) -> Seq(C)]
    BY <1>1, <1>2
  <2> HIDE DEF s
  <2> QED
    BY <1>2, <2>1, SeqDef, LenProperties
<1> HIDE DEF more
<1>4. /\ t \in Seq(Seq(C)) /\ Len(t) = Len(record) + 1
      /\ \A i \in 1 .. Len(record) + 1 : t[i] = Raised(more[i])
  <2>1. \A i \in 1 .. Len(more) : more[i] \in Entry
    BY <1>2
  <2>2. t \in [1 .. Len(more) -> Seq(C)] /\ \A i \in 1 .. Len(more) : t[i] = Raised(more[i])
    BY <1>1, <2>1
  <2> HIDE DEF t
  <2> QED
    BY <1>2, <2>2, SeqDef, LenProperties
<1>5. \A i \in 1 .. Len(record) : s[i] = Raised(record[i])
  OBVIOUS
<1> HIDE DEF s, t
<1>6. /\ Append(s, Raised(e)) \in Seq(Seq(C)) /\ Len(Append(s, Raised(e))) = Len(record) + 1
      /\ Append(s, Raised(e))[Len(record) + 1] = Raised(e)
      /\ \A i \in 1 .. Len(record) : Append(s, Raised(e))[i] = s[i]
  <2> DEFINE r == Raised(e)
  <2>1. r \in Seq(C)
    BY <1>1
  <2> HIDE DEF r
  <2>2. /\ Append(s, r) \in Seq(Seq(C)) /\ Len(Append(s, r)) = Len(record) + 1
        /\ Append(s, r)[Len(record) + 1] = r
        /\ \A i \in 1 .. Len(record) : Append(s, r)[i] = s[i]
    BY <1>3, <2>1, AppendProperties
  <2> QED
    BY <2>2 DEF r
<1>7. t = Append(s, Raised(e))
  <2>1. \A i \in 1 .. Len(record) + 1 : i \in 1 .. Len(record) \/ i = Len(record) + 1
    BY <1>2
  <2>2. \A i \in 1 .. Len(record) + 1 : t[i] = Append(s, Raised(e))[i]
    BY <1>2, <1>4, <1>5, <1>6, <2>1
  <2> QED
    BY <1>4, <1>6, <2>2, SeqEqual
<1>8. FlattenSeq(t) = FlattenSeq(s) \o Raised(e)
  BY <1>1, <1>3, <1>7, FlattenMore
<1> QED
  BY <1>8 DEF RaisedIn, s, t, more

(* With every question go the concerns told before it. *)
AskedTruly(s) ==
  \A n \in 1 .. Len(s) : s[n].kind = "request" => s[n].about = ToldIn(s, n)

ConcernsTold ==
  /\ AskedTruly(events)
  /\ ToldIn(events, Len(events) + 1) = seenConcerns
  /\ ToldList(OfKind("concern")) = RaisedIn(Record)

(* Of new events at most the first is a question, with these concerns. *)
AsksFirst(new, concerns) ==
  \A i \in 1 .. Len(new) :
    new[i].kind = "request" => i = 1 /\ new[i].about = concerns

LEMMA AskedOn ==
  ASSUME NEW s, NEW t, IsList(s), IsList(t), AskedTruly(s),
         AsksFirst(t, ToldIn(s, Len(s) + 1))
  PROVE  AskedTruly(s \o t)
<1> DEFINE u == s \o t
<1>1. /\ Len(u) = Len(s) + Len(t) /\ Len(s) \in Nat /\ Len(t) \in Nat
      /\ \A i \in 1 .. Len(s) + Len(t) :
           u[i] = IF i <= Len(s) THEN s[i] ELSE t[i - Len(s)]
  BY Joined DEF IsList
<1>2. \A n \in 1 .. Len(s) + 1 : ToldIn(u, n) = ToldIn(s, n)
  BY ToldJoined
<1> HIDE DEF u
<1>3. ASSUME NEW n \in 1 .. Len(u), u[n].kind = "request" PROVE u[n].about = ToldIn(u, n)
  <2>1. CASE n <= Len(s)
    <3>1. n \in 1 .. Len(s) /\ n \in 1 .. Len(s) + 1 /\ u[n] = s[n]
      BY <1>1, <2>1
    <3>2. ToldIn(u, n) = ToldIn(s, n)
      BY <1>2, <3>1
    <3> QED
      BY <1>3, <3>1, <3>2 DEF AskedTruly
  <2>2. CASE ~(n <= Len(s))
    <3>1. n - Len(s) \in 1 .. Len(t) /\ u[n] = t[n - Len(s)]
      BY <1>1, <2>2
    <3>2. n - Len(s) = 1 /\ u[n].about = ToldIn(s, Len(s) + 1)
      BY <1>3, <3>1 DEF AsksFirst
    <3>3. n = Len(s) + 1 /\ Len(s) + 1 \in 1 .. Len(s) + 1
      BY <1>1, <3>2
    <3> QED
      BY <1>2, <3>2, <3>3
  <2> QED
    BY <2>1, <2>2
<1>4. AskedTruly(u)
  BY <1>3 DEF AskedTruly
<1> QED
  BY <1>4 DEF u

LEMMA ConcernsToldInit == TraceInit => ConcernsTold
<1> SUFFICES ASSUME TraceInit PROVE ConcernsTold
  OBVIOUS
<1>1. IsList(events) /\ \A i \in 1 .. Len(events) : events[i].kind = "ticket"
  <2> DEFINE first == Note("intake", "ticket", 0, "assigned")
  <2>1. events = <<first>> /\ first.kind = "ticket"
    BY DEF TraceInit, Note, Event
  <2> HIDE DEF first
  <2> QED
    BY <2>1, OneIsList
<1>2. AskedTruly(events)
  BY <1>1 DEF AskedTruly
<1>3. ToldIn(events, Len(events) + 1) = {}
  BY <1>1, ToldNone
<1>4. OfKind("concern") = <<>>
  <2>1. Kinds(events, "concern") = <<>>
    BY <1>1, KindsNone
  <2> QED
    BY <2>1 DEF OfKind, Kinds
<1>5. seenConcerns = {}
  BY DEF TraceInit, Init
<1>6. Record = <<>>
  BY NothingFlattened DEF TraceInit, Init, Record
<1>7. RaisedIn(<<>>) = <<>> /\ ToldList(<<>>) = <<>>
  <2>1. \A f : [i \in 1 .. Len(<<>>) |-> f[i]] = <<>>
    BY EmptySeq
  <2>2. ToldList(<<>>) = <<>> /\ [i \in 1 .. Len(<<>>) |-> Raised(<<>>[i])] = <<>>
    BY EmptySeq DEF ToldList
  <2> QED
    BY <2>2, NothingFlattened DEF RaisedIn
<1> QED
  BY <1>2, <1>3, <1>4, <1>5, <1>6, <1>7 DEF ConcernsTold

(* A step that tells of no concern. *)
LEMMA NoConcernTold ==
  ASSUME IsList(events), ConcernsTold, UNCHANGED <<seenConcerns, Record>>,
         NEW new, IsList(new), Emit(new), Without(new, {"concern"}),
         AsksFirst(new, seenConcerns)
  PROVE  ConcernsTold'
<1>1. events' = events \o new
  BY DEF Emit
<1>2. AskedTruly(events \o new)
  BY AskedOn DEF ConcernsTold
<1>3. ToldIn(events \o new, Len(events \o new) + 1) = seenConcerns
  <2>1. ToldIn(new, Len(new) + 1) = {}
    BY ToldNone DEF Without
  <2>2. ToldIn(events \o new, Len(events \o new) + 1)
          = ToldIn(events, Len(events) + 1) \cup ToldIn(new, Len(new) + 1)
    BY ToldJoined
  <2> QED
    BY <2>1, <2>2 DEF ConcernsTold
<1>4. UNCHANGED OfKind("concern")
  BY KindIsKept
<1> QED
  BY <1>1, <1>2, <1>3, <1>4 DEF ConcernsTold

LEMMA ConcernsToldStep ==
  ASSUME TraceInv, ConcernsTold, [TraceNext]_traceVars
  PROVE  ConcernsTold'
<1> USE DEF TraceInv, Traced, Inv
<1>1. CASE UNCHANGED traceVars
  BY <1>1 DEF traceVars, vars, ConcernsTold, OfKind, Record
<1>2. CASE Consulting
  <2> DEFINE said == Last(heard'[Round])
             new  == <<Asks(said.from)>> \o AnswerEvents(said)
  <2>1. /\ Consult /\ IsList(said.newHere) /\ Emit(new)
    BY <1>2, LastIsConsulted DEF Consulting
  <2>2. /\ Record' = Append(Record, said) /\ said \in Entry
        /\ seenConcerns' = seenConcerns \cup ToSet(said.newHere)
    <3>1. /\ Record' = Append(Record, said) /\ said \in Entry
          /\ ToSet(said.newHere) = ToSet(said.answer.concerns) \ seenConcerns
          /\ seenConcerns' = seenConcerns \cup ToSet(said.answer.concerns)
      BY <2>1, ConsultRecorded
    <3> HIDE DEF said
    <3> QED
      BY <3>1
  <2> HIDE DEF said
  <2>3. /\ IsList(new)
        /\ ToldList(Kinds(new, "concern")) = Raised(said)
        /\ ToldIn(new, Len(new) + 1) = ToSet(said.newHere)
        /\ Len(new) \in Nat \ {0} /\ new[1] = Asks(said.from)
        /\ \A i \in 2 .. Len(new) : new[i].kind # "request"
    BY <2>1, ConsultationTells DEF OfKinds
  <2> HIDE DEF new
  <2>4. Asks(said.from).about = seenConcerns
    BY DEF Asks, Event
  <2>5. AsksFirst(new, ToldIn(events, Len(events) + 1))
    <3>1. \A i \in 1 .. Len(new) : i = 1 \/ i \in 2 .. Len(new)
      BY <2>3
    <3> QED
      BY <2>3, <2>4, <3>1 DEF AsksFirst, ConcernsTold
  <2>6. AskedTruly(events \o new)
    BY <2>3, <2>5, AskedOn DEF ConcernsTold
  <2>7. ToldIn(events \o new, Len(events \o new) + 1) = seenConcerns'
    <3>1. ToldIn(events \o new, Len(events \o new) + 1)
            = ToldIn(events, Len(events) + 1) \cup ToldIn(new, Len(new) + 1)
      BY <2>3, ToldJoined
    <3> QED
      BY <2>2, <2>3, <3>1 DEF ConcernsTold
  <2>8. ToldList(OfKind("concern")') = RaisedIn(Record')
    <3>1. OfKind("concern")' = OfKind("concern") \o Kinds(new, "concern")
      BY <2>1, <2>3, KindGrows
    <3>2. IsList(OfKind("concern")) /\ IsList(Kinds(new, "concern"))
      BY <2>3, KindIsList, KindsListed
    <3>3. ToldList(OfKind("concern") \o Kinds(new, "concern")) = RaisedIn(Record) \o Raised(said)
      <4>1. ToldList(OfKind("concern") \o Kinds(new, "concern"))
              = ToldList(OfKind("concern")) \o ToldList(Kinds(new, "concern"))
        BY <3>2, ToldListJoined
      <4>2. ToldList(OfKind("concern")) = RaisedIn(Record)
        BY DEF ConcernsTold
      <4>3. ToldList(Kinds(new, "concern")) = Raised(said)
        BY <2>3
      <4> QED
        BY <4>1, <4>2, <4>3
    <3>4. RaisedIn(Append(Record, said)) = RaisedIn(Record) \o Raised(said)
      BY <2>2, RecordType, RaisedMore
    <3> QED
      BY <2>2, <3>1, <3>3, <3>4
  <2>10. events' = events \o new
    BY <2>1 DEF Emit
  <2> QED
    BY <2>6, <2>7, <2>8, <2>10 DEF ConcernsTold
<1>3. CASE TraceNext /\ ~Consulting /\ ~Failing
  <2>1. PICK new : IsList(new) /\ Emit(new) /\ StepKinds(new)
    BY <1>3, StepTellsKinds
  <2>2. Without(new, {"concern"}) /\ AsksFirst(new, seenConcerns)
    BY <1>3, <2>1 DEF StepKinds, Without, AsksFirst
  <2>3. UNCHANGED seenConcerns
    BY <1>3 DEF TraceNext, Investigating, Discovering, Refining, Converging, GoingOn,
                GivingUp, Assembling, Investigate, Discover, Refine, Converge,
                NextRound, GiveUp, Assemble
  <2>4. UNCHANGED Record
    <3>1. CASE UNCHANGED heard
      BY <3>1 DEF Record
    <3>2. CASE NextRound
      BY <3>2, OpeningRecorded
    <3>3. CASE Discover
      BY <3>3, NothingFlattened DEF Discover, Progress, Record
    <3> QED
      BY <1>3, <3>1, <3>2, <3>3
         DEF TraceNext, Investigating, Discovering, Refining, Converging, GoingOn,
             GivingUp, Assembling, Investigate, Refine, Converge, GiveUp, Assemble
  <2> QED
    BY <2>1, <2>2, <2>3, <2>4, NoConcernTold
<1>4. CASE Failing
  <2>1. UNCHANGED <<seenConcerns, Record>>
    BY <1>4 DEF Failing, Raise, Record
  <2>2. CASE UNCHANGED events
    BY <2>1, <2>2 DEF ConcernsTold, OfKind
  <2>3. CASE \E found \in Investigations : Emit(InvestigationEvents(found))
    <3>1. PICK found \in Investigations : Emit(InvestigationEvents(found))
      BY <2>3
    <3> DEFINE new == InvestigationEvents(found)
    <3>2. OfKinds(new, {"tool_call", "finding"}) /\ Emit(new)
      BY <3>1, InvestigationKinds
    <3> HIDE DEF new
    <3>3. IsList(new) /\ Without(new, {"concern"}) /\ AsksFirst(new, seenConcerns)
      BY <3>2 DEF OfKinds, Without, AsksFirst
    <3> QED
      BY <2>1, <3>2, <3>3, NoConcernTold
  <2>4. CASE Emit(<<Asks(peers[Len(Said) + 1])>>)
    <3> DEFINE ask == Asks(peers[Len(Said) + 1])
    <3>1. ask.kind = "request" /\ ask.about = seenConcerns
      BY DEF Asks, Event
    <3>2. Emit(<<ask>>)
      BY <2>4
    <3> HIDE DEF ask
    <3>3. IsList(<<ask>>) /\ Len(<<ask>>) = 1 /\ <<ask>>[1] = ask
      BY OneIsList
    <3>4. Without(<<ask>>, {"concern"}) /\ AsksFirst(<<ask>>, seenConcerns)
      BY <3>1, <3>3 DEF Without, AsksFirst
    <3> QED
      BY <2>1, <3>2, <3>3, <3>4, NoConcernTold
  <2> QED
    BY <1>4, <2>2, <2>3, <2>4 DEF Failing
<1> QED
  BY <1>1, <1>2, <1>3, <1>4

(* The last that the timeline tells of an alternative is what became of it. *)
OutcomesTold ==
  /\ stage \in {"intake", "discover"} =>
       recommended = {} /\ \A a \in Alternative : ruledOut[a] = Standing
  /\ stage \notin {"intake", "raised"} =>
       \A a \in Alternative : LastTold(events, a, Outcome(a, Marker(a), ruledOut[a]))

LEMMA OutcomesToldInit == TraceInit => OutcomesTold
  BY DEF TraceInit, Init, OutcomesTold

LEMMA OneTold ==
  ASSUME NEW e, NEW a, NEW outcome, e.kind = "alternative", e.about = outcome, outcome.label = a
  PROVE  LastTold(<<e>>, a, outcome)
<1>1. Len(<<e>>) = 1 /\ <<e>>[1] = e
  BY OneIsList
<1>2. 1 \in 1 .. Len(<<e>>) /\ \A m \in 1 + 1 .. Len(<<e>>) : FALSE
  BY <1>1
<1> QED
  BY <1>1, <1>2 DEF LastTold, TellsOf

LEMMA ProposalTold ==
  ASSUME NEW a \in Alternative
  PROVE  LastTold(ProposalEvents, a, Outcome(a, "", Standing))
<1> DEFINE o == Outcome(a, "", Standing)
<1>1. Len(ProposalEvents) = 3
  BY DEF ProposalEvents
<1>2. ASSUME NEW i \in 1 .. 3
      PROVE  /\ ProposalEvents[i].kind = "alternative"
             /\ ProposalEvents[i].about = Outcome(i, "", Standing)
             /\ ProposalEvents[i].about.label = i
  <2> DEFINE e   == ProposalEvents[i]
             now == Outcome(i, "", Standing)
  <2>1. e = Note("alternatives", "alternative", 0, now) /\ now.label = i
    BY DEF ProposalEvents, Outcome
  <2> HIDE DEF e, now
  <2>2. e.kind = "alternative" /\ e.about = now
    BY <2>1 DEF Note, Event
  <2> QED
    BY <2>1, <2>2 DEF e, now
<1>3. a \in 1 .. 3 /\ \A m \in a + 1 .. 3 : m \in 1 .. 3 /\ m # a
  BY DEF Alternative
<1>4. TellsOf(ProposalEvents[a], a) /\ ProposalEvents[a].about = o
  BY <1>2, <1>3 DEF TellsOf
<1>5. \A m \in a + 1 .. 3 : ~TellsOf(ProposalEvents[m], a)
  BY <1>2, <1>3 DEF TellsOf
<1> HIDE DEF o
<1>6. LastTold(ProposalEvents, a, o)
  BY <1>1, <1>3, <1>4, <1>5 DEF LastTold
<1> QED
  BY <1>6 DEF o

(* Silent(s, a): nothing in s tells of the alternative a. *)
Silent(s, a) == \A i \in 1 .. Len(s) : ~TellsOf(s[i], a)

LEMMA SilentJoined ==
  ASSUME NEW s, NEW t, IsList(s), IsList(t), NEW a, Silent(s, a), Silent(t, a)
  PROVE  Silent(s \o t, a)
<1> DEFINE u == s \o t
<1>1. /\ Len(u) = Len(s) + Len(t) /\ Len(s) \in Nat /\ Len(t) \in Nat
      /\ \A i \in 1 .. Len(s) + Len(t) :
           u[i] = IF i <= Len(s) THEN s[i] ELSE t[i - Len(s)]
  BY Joined DEF IsList
<1> HIDE DEF u
<1>2. ASSUME NEW i \in 1 .. Len(u) PROVE ~TellsOf(u[i], a)
  <2>1. CASE i <= Len(s)
    BY <1>1, <2>1 DEF Silent
  <2>2. CASE ~(i <= Len(s))
    <3>1. i - Len(s) \in 1 .. Len(t) /\ u[i] = t[i - Len(s)]
      BY <1>1, <2>2
    <3> QED
      BY <3>1 DEF Silent
  <2> QED
    BY <2>1, <2>2
<1>3. Silent(u, a)
  BY <1>2 DEF Silent
<1> QED
  BY <1>3 DEF u

(* What a round's synthesis tells of an alternative. *)
Word(a, backed) == IF a \in backed THEN "recommended" ELSE "ruled out"

Same(a, backed, ruling) ==
  (a \in backed) = (a \in recommended) /\ ruling[a] = ruledOut[a]

LEMMA SynthesisOfOne ==
  ASSUME NEW a, NEW backed, NEW ruling
  PROVE  /\ IsList(Synthesis(a, backed, ruling))
         /\ Same(a, backed, ruling) => Silent(Synthesis(a, backed, ruling), a)
         /\ ~Same(a, backed, ruling) =>
              LastTold(Synthesis(a, backed, ruling), a,
                       Outcome(a, Word(a, backed), ruling[a]))
         /\ \A b : b # a => Silent(Synthesis(a, backed, ruling), b)
<1> DEFINE o == Outcome(a, Word(a, backed), ruling[a])
           e == Note("synthesis", "alternative", Round, o)
           s == Synthesis(a, backed, ruling)
<1>1. e.kind = "alternative" /\ e.about = o /\ o.label = a
  BY DEF Note, Event, Outcome
<1>2. s = IF Same(a, backed, ruling) THEN <<>> ELSE <<e>>
  BY DEF Synthesis, Same, Word
<1> HIDE DEF o, e, s
<1>3. /\ IsList(<<e>>) /\ LastTold(<<e>>, a, o)
      /\ \A b : b # a => Silent(<<e>>, b)
  <2>1. LastTold(<<e>>, a, o)
    BY <1>1, OneTold
  <2>2. IsList(<<e>>) /\ \A i \in 1 .. Len(<<e>>) : <<e>>[i] = e
    BY OneIsList
  <2>3. \A b : b # a => ~TellsOf(e, b)
    BY <1>1 DEF TellsOf
  <2> QED
    BY <2>1, <2>2, <2>3 DEF Silent
<1>4. IsList(<<>>) /\ \A b : Silent(<<>>, b)
  <2>1. IsList(<<>>) /\ Len(<<>>) = 0
    BY EmptySeq, SeqIsList
  <2> QED
    BY <2>1 DEF Silent
<1>5. /\ IsList(s)
      /\ Same(a, backed, ruling) => Silent(s, a)
      /\ ~Same(a, backed, ruling) => LastTold(s, a, o)
      /\ \A b : b # a => Silent(s, b)
  BY <1>2, <1>3, <1>4
<1> QED
  BY <1>5 DEF s, o

LEMMA SynthesisTold ==
  ASSUME NEW a \in Alternative, NEW backed, NEW ruling
  PROVE  LET new == SynthesisEvents(backed, ruling) IN
         /\ IsList(new)
         /\ Same(a, backed, ruling) => Silent(new, a)
         /\ ~Same(a, backed, ruling) =>
              LastTold(new, a, Outcome(a, Word(a, backed), ruling[a]))
<1> DEFINE s(b) == Synthesis(b, backed, ruling)
           o    == Outcome(a, Word(a, backed), ruling[a])
           new  == s(1) \o s(2) \o s(3)
<1>1. \A b : /\ IsList(s(b))
             /\ b # a => Silent(s(b), a)
  BY SynthesisOfOne
<1>2. /\ Same(a, backed, ruling) => Silent(s(a), a)
      /\ ~Same(a, backed, ruling) => LastTold(s(a), a, o)
  BY SynthesisOfOne
<1> HIDE DEF s, o
<1>3. IsList(s(1)) /\ IsList(s(2)) /\ IsList(s(3))
  BY <1>1
<1>4. IsList(s(1) \o s(2)) /\ IsList(new)
  BY <1>3, Joined
<1>5. a = 1 \/ a = 2 \/ a = 3
  BY DEF Alternative
<1>6. Same(a, backed, ruling) => Silent(new, a)
  <2> SUFFICES ASSUME Same(a, backed, ruling) PROVE Silent(new, a)
    OBVIOUS
  <2>1. Silent(s(1), a) /\ Silent(s(2), a) /\ Silent(s(3), a)
    BY <1>1, <1>2
  <2>2. Silent(s(1) \o s(2), a)
    BY <1>3, <2>1, SilentJoined
  <2> QED
    BY <1>3, <1>4, <2>1, <2>2, SilentJoined
<1>7. ~Same(a, backed, ruling) => LastTold(new, a, o)
  <2> SUFFICES ASSUME ~Same(a, backed, ruling) PROVE LastTold(new, a, o)
    OBVIOUS
  <2>1. CASE a = 3
    BY <1>2, <1>3, <1>4, <2>1, LastToldAnew
  <2>2. CASE a = 2
    <3>1. LastTold(s(1) \o s(2), a, o)
      BY <1>2, <1>3, <2>2, LastToldAnew
    <3>2. Silent(s(3), a)
      BY <1>1, <2>2
    <3> QED
      BY <1>3, <1>4, <3>1, <3>2, LastToldKept DEF Silent
  <2>3. CASE a = 1
    <3>1. LastTold(s(1), a, o) /\ Silent(s(2), a) /\ Silent(s(3), a)
      BY <1>1, <1>2, <2>3
    <3>2. LastTold(s(1) \o s(2), a, o)
      BY <1>3, <3>1, LastToldKept DEF Silent
    <3> QED
      BY <1>3, <1>4, <3>1, <3>2, LastToldKept DEF Silent
  <2> QED
    BY <1>5, <2>1, <2>2, <2>3
<1>8. SynthesisEvents(backed, ruling) = new
  BY DEF SynthesisEvents, s
<1> QED
  BY <1>4, <1>6, <1>7, <1>8 DEF o

LEMMA OutcomesToldStep ==
  ASSUME TraceInv, OutcomesTold, [TraceNext]_traceVars
  PROVE  OutcomesTold'
<1> USE DEF TraceInv, Traced, Inv
<1>1. CASE UNCHANGED traceVars
  BY <1>1 DEF traceVars, vars, OutcomesTold, Marker
<1>2. CASE \E found \in Investigations : Investigating(found)
  <2>1. PICK found \in Investigations : Investigating(found)
    BY <1>2
  <2> DEFINE mine == InvestigationEvents(found)
  <2>2. /\ stage = "intake" /\ stage' = "discover"
        /\ UNCHANGED <<recommended, ruledOut>>
        /\ events' = events \o (mine \o ProposalEvents)
    BY <2>1 DEF Investigating, Investigate, Emit
  <2>3. recommended' = {} /\ \A a \in Alternative : ruledOut'[a] = Standing
    BY <2>2 DEF OutcomesTold
  <2>4. IsList(mine) /\ IsList(ProposalEvents)
    BY InvestigationKinds, ProposalKinds DEF OfKinds
  <2> HIDE DEF mine
  <2>5. IsList(mine \o ProposalEvents)
    BY <2>4, Joined
  <2>6. ASSUME NEW a \in Alternative
        PROVE  LastTold(events', a, Outcome(a, Marker(a)', ruledOut'[a]))
    <3>1. Marker(a)' = "" /\ ruledOut'[a] = Standing
      BY <2>3 DEF Marker
    <3>2. LastTold(mine \o ProposalEvents, a, Outcome(a, "", Standing))
      BY <2>4, ProposalTold, LastToldAnew
    <3>3. LastTold(events \o (mine \o ProposalEvents), a, Outcome(a, "", Standing))
      BY <2>5, <3>2, LastToldAnew
    <3> QED
      BY <2>2, <3>1, <3>3
  <2>7. \A a \in Alternative : LastTold(events, a, Outcome(a, Marker(a), ruledOut[a]))'
    BY <2>6 DEF LastTold, Outcome
  <2> QED
    BY <2>2, <2>3, <2>7 DEF OutcomesTold
<1>3. CASE Refining
  <2> DEFINE new == SynthesisEvents(recommended', ruledOut')
  <2>1. /\ stage = "consult" /\ stage' = "refined"
        /\ recommended \subseteq recommended'
        /\ \A a \in Alternative :
             ruledOut'[a] = ruledOut[a] \/ ruledOut'[a] = <<Round, First(Against(Said, a))>>
        /\ events' = events \o new
    BY <1>3 DEF Refining, Refine, Emit
  <2>2. Round \in Nat \ {0}
    BY <2>1, RoundFacts DEF Progress
  <2>3. \A a \in Alternative : ruledOut'[a] = ruledOut[a] \/ ruledOut'[a] # Standing
    BY <2>1, <2>2 DEF Standing
  <2>4. ASSUME NEW a \in Alternative
        PROVE  /\ IsList(new)
               /\ Same(a, recommended', ruledOut') => Silent(new, a)
               /\ ~Same(a, recommended', ruledOut') =>
                    LastTold(new, a, Outcome(a, Word(a, recommended'), ruledOut'[a]))
    BY SynthesisTold
  <2> HIDE DEF new
  <2>5. ASSUME NEW a \in Alternative
        PROVE  LastTold(events', a, Outcome(a, Marker(a)', ruledOut'[a]))
    <3>1. CASE Same(a, recommended', ruledOut')
      <4>1. Marker(a)' = Marker(a) /\ ruledOut'[a] = ruledOut[a]
        BY <3>1 DEF Same, Marker
      <4>2. LastTold(events, a, Outcome(a, Marker(a), ruledOut[a]))
        BY <2>1 DEF OutcomesTold
      <4>3. LastTold(events \o new, a, Outcome(a, Marker(a), ruledOut[a]))
        BY <2>4, <3>1, <4>2, LastToldKept DEF Silent
      <4> QED
        BY <2>1, <4>1, <4>3
    <3>2. CASE ~Same(a, recommended', ruledOut')
      <4>1. Marker(a)' = Word(a, recommended')
        <5>1. a \in recommended' \/ ruledOut'[a] # Standing
          BY <2>1, <2>3, <3>2 DEF Same
        <5> QED
          BY <5>1 DEF Marker, Word
      <4>2. LastTold(events \o new, a, Outcome(a, Word(a, recommended'), ruledOut'[a]))
        BY <2>4, <3>2, LastToldAnew
      <4> QED
        BY <2>1, <4>1, <4>2
    <3> QED
      BY <3>1, <3>2
  <2>6. \A a \in Alternative : LastTold(events, a, Outcome(a, Marker(a), ruledOut[a]))'
    BY <2>5 DEF LastTold, Outcome
  <2> QED
    BY <2>1, <2>6 DEF OutcomesTold
<1>4. CASE TraceNext /\ ~Refining /\ ~(\E found \in Investigations : Investigating(found))
  <2>1. PICK new : IsList(new) /\ Emit(new) /\ StepKinds(new)
    BY <1>4, StepTellsKinds
  <2>2. \A a : Silent(new, a)
    BY <1>4, <2>1 DEF StepKinds, Without, Silent, TellsOf
  <2>3. /\ UNCHANGED <<recommended, ruledOut>>
        /\ stage # "intake" \/ stage' = "raised"
        /\ stage' \notin {"intake", "discover"}
        /\ stage' # "raised" => stage # "raised"
    BY <1>4 DEF TraceNext, Discovering, Consulting, Converging, GoingOn,
                GivingUp, Assembling, Failing, Discover, Consult, Converge,
                NextRound, GiveUp, Assemble, Raise
  <2>4. ASSUME NEW a \in Alternative, stage' # "raised"
        PROVE  LastTold(events', a, Outcome(a, Marker(a), ruledOut[a]))
    <3>1. LastTold(events, a, Outcome(a, Marker(a), ruledOut[a]))
      BY <2>3, <2>4 DEF OutcomesTold
    <3>2. LastTold(events \o new, a, Outcome(a, Marker(a), ruledOut[a]))
      BY <2>1, <2>2, <3>1, LastToldKept DEF Silent
    <3> QED
      BY <2>1, <3>2 DEF Emit
  <2>5. \A a \in Alternative : Marker(a)' = Marker(a)
    BY <2>3 DEF Marker
  <2>6. stage' # "raised" =>
          \A a \in Alternative : LastTold(events, a, Outcome(a, Marker(a), ruledOut[a]))'
    BY <2>3, <2>4, <2>5 DEF LastTold, Outcome
  <2> QED
    BY <2>3, <2>6 DEF OutcomesTold
<1> QED
  BY <1>1, <1>2, <1>3, <1>4

(* How the timeline ends. *)
EndTold ==
  /\ stage \notin {"assemble", "decided", "raised"} => OfKind("convergence") = <<>>
  /\ stage \in {"assemble", "decided"} =>
       OfKind("convergence") = <<Note("decision", "convergence", Round, converged)>>
  /\ stage # "decided" => OfKind("artifact") = <<>>
  /\ stage = "decided" =>
       /\ events # <<>>
       /\ Last(events) = Note("artifact", "artifact", 0, finding)

LEMMA EndToldInit == TraceInit => EndTold
<1> SUFFICES ASSUME TraceInit PROVE EndTold
  OBVIOUS
<1>1. IsList(events) /\ \A i \in 1 .. Len(events) : events[i].kind = "ticket"
  <2> DEFINE first == Note("intake", "ticket", 0, "assigned")
  <2>1. events = <<first>> /\ first.kind = "ticket"
    BY DEF TraceInit, Note, Event
  <2> HIDE DEF first
  <2> QED
    BY <2>1, OneIsList
<1>2. OfKind("convergence") = <<>> /\ OfKind("artifact") = <<>>
  <2>1. Kinds(events, "convergence") = <<>> /\ Kinds(events, "artifact") = <<>>
    BY <1>1, KindsNone
  <2> QED
    BY <2>1 DEF OfKind, Kinds
<1> QED
  BY <1>2 DEF TraceInit, Init, EndTold

(* The one event that tells whether the peers converged. *)
LEMMA ConvergenceTold ==
  ASSUME IsList(events), OfKind("convergence") = <<>>, NEW said,
         Emit(<<Note("decision", "convergence", Round, said)>>)
  PROVE  OfKind("convergence")' = <<Note("decision", "convergence", Round, said)>>
<1> DEFINE e == Note("decision", "convergence", Round, said)
<1>1. e.kind = "convergence" /\ Emit(<<e>>)
  BY NoteKind
<1> HIDE DEF e
<1>2. IsList(<<e>>) /\ \A i \in 1 .. Len(<<e>>) : <<e>>[i].kind = "convergence"
  BY <1>1, OneIsList
<1>3. Kinds(<<e>>, "convergence") = <<e>>
  BY <1>2, KindsAll
<1>4. OfKind("convergence")' = <<>> \o <<e>>
  BY <1>1, <1>2, <1>3, KindGrows
<1>5. <<>> \o <<e>> = <<e>>
  BY <1>2, ListIsSeq, ConcatEmptySeq
<1> QED
  BY <1>4, <1>5 DEF e

LEMMA LastJoined ==
  ASSUME NEW s, IsList(s), NEW t, IsList(t), NEW e
  PROVE  LET u == s \o (t \o <<e>>) IN u # <<>> /\ Last(u) = e
<1> DEFINE v == t \o <<e>>
           u == s \o v
<1>1. IsList(v) /\ Len(t) \in Nat /\ Len(v) = Len(t) + 1 /\ v[Len(t) + 1] = e
  BY JoinedOne
<1> HIDE DEF v
<1>2. /\ Len(u) = Len(s) + Len(v) /\ Len(s) \in Nat
      /\ \A i \in 1 .. Len(s) + Len(v) :
           u[i] = IF i <= Len(s) THEN s[i] ELSE v[i - Len(s)]
  BY <1>1, Joined DEF IsList
<1> HIDE DEF u
<1>3. /\ Len(u) \in 1 .. Len(s) + Len(v) /\ ~(Len(u) <= Len(s))
      /\ Len(u) - Len(s) = Len(t) + 1
  BY <1>1, <1>2
<1>4. u[Len(u)] = e
  BY <1>1, <1>2, <1>3
<1>5. u # <<>>
  BY <1>1, <1>2, EmptySeq
<1> QED
  BY <1>4, <1>5 DEF Last, u, v

LEMMA EndToldStep ==
  ASSUME TraceInv, EndTold, [TraceNext]_traceVars
  PROVE  EndTold'
<1> USE DEF TraceInv, Traced, Inv
<1>1. CASE UNCHANGED traceVars
  BY <1>1 DEF traceVars, vars, EndTold, OfKind, Note, Event, Round
<1>2. CASE Converging
  <2>1. /\ stage = "refined" /\ stage' = "assemble" /\ converged' = TRUE
        /\ UNCHANGED heard /\ owner' = owner
        /\ Emit(<<Note("decision", "convergence", Round, TRUE)>>)
    BY <1>2 DEF Converging, Converge
  <2>2. OfKind("convergence") = <<>> /\ OfKind("artifact") = <<>>
    BY <2>1 DEF EndTold
  <2>3. OfKind("convergence")' = <<Note("decision", "convergence", Round, TRUE)>>
    BY <2>1, <2>2, ConvergenceTold
  <2>4. Note("decision", "convergence", Round, converged)' =
          Note("decision", "convergence", Round, TRUE)
    BY <2>1 DEF Note, Event, Round
  <2>5. PICK new : IsList(new) /\ Emit(new) /\ StepKinds(new)
    <3>1. TraceNext
      BY <1>2 DEF TraceNext
    <3> QED
      BY <3>1, StepTellsKinds
  <2>6. UNCHANGED OfKind("artifact")
    <3>1. ~Assembling
      BY <2>1 DEF Assembling, Assemble
    <3>2. Without(new, {"escalation", "artifact"})
      BY <2>5, <3>1 DEF StepKinds
    <3> QED
      BY <2>5, <3>2, KindIsKept
  <2> QED
    BY <2>1, <2>2, <2>3, <2>4, <2>6 DEF EndTold
<1>3. CASE GivingUp
  <2>1. /\ stage = "refined" /\ stage' = "assemble" /\ converged' = converged
        /\ UNCHANGED heard /\ owner' = owner /\ ~HasConverged(Said)
    BY <1>3 DEF GivingUp, GiveUp
  <2>2. OfKind("convergence") = <<>> /\ OfKind("artifact") = <<>> /\ ~converged /\ heard # <<>>
    BY <2>1 DEF EndTold, Progress
  <2>3. peers # <<>>
    <3>1. Round \in 1 .. Round
      BY <2>2, RoundFacts
    <3>2. Len(Said) = Len(peers)
      BY <2>1, <3>1 DEF EveryPeerEveryRound, Said
    <3>3. Len(Said) # 0
      BY <2>1 DEF HasConverged
    <3> QED
      BY <3>2, <3>3, EmptySeq
  <2>4. Emit(<<Note("decision", "convergence", Round, FALSE)>>)
    BY <1>3, <2>3 DEF GivingUp
  <2>5. OfKind("convergence")' = <<Note("decision", "convergence", Round, FALSE)>>
    BY <2>2, <2>4, ConvergenceTold
  <2>6. Note("decision", "convergence", Round, converged)' =
          Note("decision", "convergence", Round, FALSE)
    <3>1. converged' = FALSE
      BY <2>1, <2>2 DEF TypeOK
    <3> QED
      BY <2>1, <3>1 DEF Note, Event, Round
  <2>7. PICK new : IsList(new) /\ Emit(new) /\ StepKinds(new)
    <3>1. TraceNext
      BY <1>3 DEF TraceNext
    <3> QED
      BY <3>1, StepTellsKinds
  <2>8. UNCHANGED OfKind("artifact")
    <3>1. ~Assembling
      BY <2>1 DEF Assembling, Assemble
    <3>2. Without(new, {"escalation", "artifact"})
      BY <2>7, <3>1 DEF StepKinds
    <3> QED
      BY <2>7, <3>2, KindIsKept
  <2> QED
    BY <2>1, <2>2, <2>5, <2>6, <2>8 DEF EndTold
<1>4. CASE Assembling
  <2>1. /\ stage = "assemble" /\ stage' = "decided" /\ owner' = owner
        /\ UNCHANGED <<heard, converged>>
        /\ Emit(FindingEvents(finding'))
        /\ IsFiniteSet(finding'.undeployed) /\ IsFiniteSet(finding'.authority)
    BY <1>4, AssembledIsFinite DEF Assembling, Assemble
  <2> DEFINE last == Note("artifact", "artifact", 0, finding')
             told == Escalated(finding')
  <2>2. /\ FindingEvents(finding') = told \o <<last>>
        /\ IsList(told)
        /\ IsList(FindingEvents(finding'))
        /\ Without(FindingEvents(finding'), {"convergence"})
    <3>1. /\ FindingEvents(finding') = told \o <<last>>
          /\ OfKinds(told, {"escalation"})
          /\ OfKinds(FindingEvents(finding'), {"escalation", "artifact"})
      BY <2>1, FindingKinds
    <3> QED
      BY <3>1 DEF OfKinds, Without
  <2>3. UNCHANGED OfKind("convergence")
    BY <2>1, <2>2, KindIsKept
  <2>4. Note("decision", "convergence", Round, converged)' =
          Note("decision", "convergence", Round, converged)
    BY <2>1 DEF Note, Event, Round
  <2>5. events' # <<>> /\ Last(events') = last
    <3> HIDE DEF last, told
    <3> QED
      BY <2>1, <2>2, LastJoined DEF Emit
  <2>6. Note("artifact", "artifact", 0, finding)' = last
    BY <2>1 DEF Note, Event
  <2>7. OfKind("convergence") = <<Note("decision", "convergence", Round, converged)>>
    BY <2>1 DEF EndTold
  <2> HIDE DEF last, told
  <2> QED
    BY <2>1, <2>3, <2>4, <2>5, <2>6, <2>7 DEF EndTold
<1>5. CASE TraceNext /\ ~Converging /\ ~GivingUp /\ ~Assembling
  <2>1. PICK new : IsList(new) /\ Emit(new) /\ StepKinds(new)
    BY <1>5, StepTellsKinds
  <2>2. Without(new, {"convergence"}) /\ Without(new, {"escalation", "artifact"})
    BY <1>5, <2>1 DEF StepKinds
  <2>3. UNCHANGED OfKind("convergence") /\ UNCHANGED OfKind("artifact")
    BY <2>1, <2>2, KindIsKept
  <2>4. /\ stage # "decided" /\ stage' \notin {"assemble", "decided"}
        /\ stage' = "raised" \/ stage \notin {"assemble", "decided", "raised"}
    BY <1>5 DEF TraceNext, Investigating, Discovering, Consulting, Refining, GoingOn,
                Failing, Investigate, Discover, Consult, Refine, NextRound, Raise
  <2> QED
    BY <2>3, <2>4 DEF EndTold
<1> QED
  BY <1>1, <1>2, <1>3, <1>4, <1>5

-----------------------------------------------------------------------------
(* The timeline tells the record: the answers with their questions, the    *)
(* concerns, the outcomes and the end.                                     *)
Told == AnswersTold /\ ConcernsTold /\ OutcomesTold /\ EndTold

LEMMA ToldHolds == TraceSpec => [](TraceInv /\ Told)
<1>1. TraceInit => Told
  BY AnswersToldInit, ConcernsToldInit, OutcomesToldInit, EndToldInit DEF Told
<1>2. TraceInv /\ Told /\ [TraceNext]_traceVars => Told'
  <2> SUFFICES ASSUME TraceInv, Told, [TraceNext]_traceVars PROVE Told'
    OBVIOUS
  <2> QED
    BY AnswersToldStep, ConcernsToldStep, OutcomesToldStep, EndToldStep DEF Told
<1> QED
  BY TraceInvHolds, <1>1, <1>2, PTL DEF TraceSpec

(* Who has only the timeline knows what the owner knows, at any moment.    *)
THEOREM TimelineIsTrue == TraceSpec => []TimelineTellsTheRecord
<1>1. TraceInv /\ Told => TimelineTellsTheRecord
  <2> SUFFICES ASSUME TraceInv, Told PROVE TimelineTellsTheRecord
    OBVIOUS
  <2> DEFINE questions == OfKind("request")
             answers   == OfKind("response")
             concerns  == OfKind("concern")
             ends      == OfKind("convergence")
  <2>1. IsList(events) /\ Len(questions) \in Nat /\ Len(answers) \in Nat
    BY KindIsList DEF TraceInv, Traced
  <2>2. /\ Len(answers) = Len(Record)
        /\ \A i \in 1 .. Len(answers) :
             /\ answers[i].agent = Record[i].from /\ answers[i].about = Shown(Record[i].answer)
             /\ answers[i].agent = questions[i].to /\ answers[i].round = questions[i].round
        /\ \A k \in 1 .. Round :
             Len(Kept(answers, {e \in ToSet(answers) : e.round = k})) = Len(heard[k])
    BY DEF Told, AnswersTold, AnswersMatch, OfRound
  <2>3. Len(questions) - Len(answers) \in IF stage = "raised" THEN {0, 1} ELSE {0}
    BY <2>1 DEF Told, AnswersTold
  <2>4. /\ \A n \in 1 .. Len(events) :
             events[n].kind = "request" => events[n].about = ToldBefore(n)
        /\ seenConcerns = ToldBefore(Len(events) + 1)
    <3>1. \A n : ToldBefore(n) = ToldIn(events, n)
      BY DEF ToldBefore, ToldIn
    <3> QED
      BY <3>1 DEF Told, ConcernsTold, AskedTruly
  <2>8. [i \in 1 .. Len(concerns) |->
          [by |-> concerns[i].agent, concern |-> concerns[i].about]]
          = FlattenSeq([i \in 1 .. Len(Record) |-> Raised(Record[i])])
    BY DEF Told, ConcernsTold, ToldList, RaisedIn
  <2>5. stage \notin {"intake", "raised"} =>
          \A a \in Alternative : LastOutcome(a) = Outcome(a, Marker(a), ruledOut[a])
    BY <2>1, LastToldIs DEF Told, OutcomesTold
  <2>6. stage \in {"assemble", "decided"} =>
          Len(ends) = 1 /\ ends[1].about = converged /\ ends[1].round = Round
    <3>1. Note("decision", "convergence", Round, converged).about = converged
          /\ Note("decision", "convergence", Round, converged).round = Round
      BY DEF Note, Event
    <3> QED
      BY <3>1, OneIsList DEF Told, EndTold
  <2>7. IF stage = "decided" THEN Last(events) = Note("artifact", "artifact", 0, finding)
                             ELSE OfKind("artifact") = <<>>
    BY DEF Told, EndTold
  <2> QED
    BY <2>2, <2>3, <2>4, <2>5, <2>6, <2>7, <2>8 DEF TimelineTellsTheRecord
<1> QED
  BY ToldHolds, <1>1, PTL

-----------------------------------------------------------------------------
(* The one-pager. *)

(* Every answer is in the record. *)
Recorded ==
  \A k \in 1 .. Round : \A j \in 1 .. Len(heard[k]) : Among(heard[k][j], Record)

LEMMA RecordedStep ==
  ASSUME Inv, Recorded, [Next]_vars
  PROVE  Recorded'
<1> USE DEF Inv
<1>1. CASE UNCHANGED heard
  BY <1>1 DEF Recorded, Record, Round, Among
<1>2. CASE Consult
  <2>1. PICK e \in Entry :
          /\ e = Last(heard'[Round])
          /\ Record' = Append(Record, e)
          /\ Round' = Round
          /\ Len(heard'[Round]) = Len(heard[Round]) + 1
          /\ \A k \in 1 .. Round : k # Round => heard'[k] = heard[k]
    BY <1>2, ConsultRecorded
  <2>2. PICK f \in Entry :
          /\ Len(heard'[Round]) = Len(Said) + 1
          /\ heard'[Round][Len(Said) + 1] = f
          /\ \A i \in 1 .. Len(Said) : heard'[Round][i] = Said[i]
          /\ Round \in 1 .. Round
    BY <1>2, ConsultAppends
  <2>3. e = f /\ Said = heard[Round]
    BY <2>1, <2>2 DEF Last, Said
  <2>4. Record \in Seq(Entry)
    BY RecordType
  <2>5. \A x : Among(x, Record') <=> Among(x, Record) \/ x = e
    BY <2>1, <2>4, AmongAppended
  <2>6. Len(Said) \in Nat
    BY <2>2, <2>3, RoundFacts
  <2>7. ASSUME NEW k \in 1 .. Round, NEW j \in 1 .. Len(heard'[k])
        PROVE  Among(heard'[k][j], Record')
    <3>1. CASE k # Round
      BY <2>1, <2>5, <3>1 DEF Recorded
    <3>2. CASE k = Round /\ j = Len(Said) + 1
      BY <2>2, <2>3, <2>5, <3>2
    <3>3. CASE k = Round /\ j # Len(Said) + 1
      <4>1. j \in 1 .. Len(Said)
        BY <2>2, <2>6, <3>3
      <4>2. heard'[k][j] = heard[k][j] /\ Among(heard[k][j], Record)
        BY <2>2, <2>3, <3>3, <4>1 DEF Recorded
      <4> QED
        BY <2>5, <4>2
    <3> QED
      BY <3>1, <3>2, <3>3
  <2>8. \A k \in 1 .. Round' : \A j \in 1 .. Len(heard'[k]) : Among(heard'[k][j], Record')
    BY <2>1, <2>7
  <2> QED
    BY <2>8 DEF Recorded, Among
<1>3. CASE NextRound
  <2>1. /\ Record' = Record /\ Round' = Round + 1 /\ heard'[Round + 1] = <<>>
        /\ \A k \in 1 .. Round : heard'[k] = heard[k]
        /\ Round \in Nat
    BY <1>3, OpeningRecorded, NextRoundOpens DEF Round
  <2>2. ASSUME NEW k \in 1 .. Round + 1, NEW j \in 1 .. Len(heard'[k])
        PROVE  Among(heard'[k][j], Record)
    <3>1. k # Round + 1
      BY <2>1, EmptySeq
    <3>2. k \in 1 .. Round
      BY <2>1, <3>1
    <3> QED
      BY <2>1, <3>2 DEF Recorded
  <2>3. \A k \in 1 .. Round' : \A j \in 1 .. Len(heard'[k]) : Among(heard'[k][j], Record')
    BY <2>1, <2>2
  <2> QED
    BY <2>3 DEF Recorded, Among
<1>4. CASE Discover
  <2>1. heard' = << <<>> >>
    BY <1>4 DEF Discover
  <2>2. \A k \in 1 .. Len(heard') : Len(heard'[k]) = 0
    BY <2>1, OneIsList, EmptySeq
  <2> QED
    BY <2>2 DEF Recorded, Round
<1> QED
  BY <1>1, <1>2, <1>3, <1>4 DEF Next, vars, Investigate, Refine, Converge, GiveUp, Assemble, Raise

(* A round that is over was reviewed. *)
ReviewDone == stage \in {"refined", "assemble", "decided"} => reviewedBy = Reviewers

LEMMA ReviewDoneStep ==
  ASSUME TraceInv, ReviewDone, [Next]_vars
  PROVE  ReviewDone'
<1> USE DEF TraceInv, Traced, Inv
<1>1. CASE Refine
  <2>1. /\ reviewedBy' = reviewedBy \cup
             {Said[i].from : i \in {j \in 1 .. Len(Said) : ~Said[j].answer.timedOut}}
        /\ UNCHANGED peers
    BY <1>1 DEF Refine
  <2>2. {Said[i].from : i \in {j \in 1 .. Len(Said) : ~Said[j].answer.timedOut}} = Reviewers
    BY <1>1, RoundIsReviewed DEF Refine
  <2>3. reviewedBy' = Reviewers
    BY <2>1, <2>2 DEF ReviewersAreSettled
  <2> QED
    BY <2>1, <2>3 DEF ReviewDone, Reviewers, Members
<1>2. CASE ~Refine
  BY <1>2 DEF Next, vars, ReviewDone, Reviewers, Members, Investigate, Discover, Consult,
              Converge, NextRound, GiveUp, Assemble, Raise
<1> QED
  BY <1>1, <1>2

(* The points for a human are told with the finding. *)
EscalationsTold ==
  OfKind("escalation") = IF stage = "decided" THEN Escalated(finding) ELSE <<>>

LEMMA EscalationsToldInit == TraceInit => EscalationsTold
<1> SUFFICES ASSUME TraceInit PROVE EscalationsTold
  OBVIOUS
<1>1. IsList(events) /\ \A i \in 1 .. Len(events) : events[i].kind = "ticket"
  <2> DEFINE first == Note("intake", "ticket", 0, "assigned")
  <2>1. events = <<first>> /\ first.kind = "ticket"
    BY DEF TraceInit, Note, Event
  <2> HIDE DEF first
  <2> QED
    BY <2>1, OneIsList
<1>2. OfKind("escalation") = <<>>
  <2>1. Kinds(events, "escalation") = <<>>
    BY <1>1, KindsNone
  <2> QED
    BY <2>1 DEF OfKind, Kinds
<1> QED
  BY <1>2 DEF TraceInit, Init, EscalationsTold

LEMMA EscalatedNext ==
  ASSUME UNCHANGED <<peers, heard, owner>>
  PROVE  Escalated(finding)' = Escalated(finding')
<1>1. ASSUME NEW p PROVE SeatOf(p)' = SeatOf(p)
  BY DEF SeatOf, SelectInSeq
<1>2. ASSUME NEW p PROVE ClaimedAt(p)' = ClaimedAt(p)
  BY DEF ClaimedAt, SelectInSeq, Record
<1>3. HumanDecisionPoints(finding)' = HumanDecisionPoints(finding')
  BY <1>1, <1>2 DEF HumanDecisionPoints
<1>4. \A p : Note("decision", "escalation", 0, p)' = Note("decision", "escalation", 0, p)
  BY DEF Note, Event
<1> QED
  BY <1>3, <1>4 DEF Escalated

LEMMA EscalationsToldStep ==
  ASSUME TraceInv, EscalationsTold, [TraceNext]_traceVars
  PROVE  EscalationsTold'
<1> USE DEF TraceInv, Traced, Inv
<1>1. CASE UNCHANGED traceVars
  <2>1. UNCHANGED <<stage, finding, peers, heard, owner, events>>
    BY <1>1 DEF traceVars, vars
  <2>2. Escalated(finding)' = Escalated(finding)
    BY <2>1, EscalatedNext
  <2> QED
    BY <2>1, <2>2 DEF EscalationsTold, OfKind
<1>2. CASE Assembling
  <2>1. /\ stage = "assemble" /\ stage' = "decided"
        /\ UNCHANGED <<peers, heard, owner>>
        /\ Emit(FindingEvents(finding'))
        /\ IsFiniteSet(finding'.undeployed) /\ IsFiniteSet(finding'.authority)
    BY <1>2, AssembledIsFinite DEF Assembling, Assemble
  <2> DEFINE last == Note("artifact", "artifact", 0, finding')
             told == Escalated(finding')
             new  == FindingEvents(finding')
  <2>2. new = told \o <<last>> /\ OfKinds(told, {"escalation"}) /\ last.kind = "artifact"
    BY <2>1, FindingKinds, NoteKind
  <2>3. Escalated(finding)' = told
    BY <2>1, EscalatedNext
  <2> HIDE DEF last, told, new
  <2>4. IsList(told) /\ IsList(<<last>>)
    BY <2>2, OneIsList DEF OfKinds
  <2>5. Kinds(new, "escalation") = told /\ IsList(new)
    <3>1. Kinds(told, "escalation") = told
      BY <2>2, <2>4, KindsAll DEF OfKinds
    <3>2. \A i \in 1 .. Len(<<last>>) : <<last>>[i].kind # "escalation"
      BY <2>2, OneIsList
    <3>3. Kinds(<<last>>, "escalation") = <<>>
      BY <2>4, <3>2, KindsNone
    <3>4. Kinds(told \o <<last>>, "escalation")
            = Kinds(told, "escalation") \o Kinds(<<last>>, "escalation")
      BY <2>4, KindsJoined
    <3>5. told \o <<>> = told
      BY <2>4, ListIsSeq, ConcatEmptySeq
    <3>6. IsList(told \o <<last>>)
      BY <2>4, Joined
    <3> QED
      BY <2>2, <3>1, <3>3, <3>4, <3>5, <3>6
  <2>6. Emit(new)
    BY <2>1 DEF new
  <2>7. OfKind("escalation")' = OfKind("escalation") \o told
    BY <2>5, <2>6, KindGrows
  <2>8. OfKind("escalation") = <<>> /\ <<>> \o told = told
    BY <2>1, <2>4, ListIsSeq, ConcatEmptySeq DEF EscalationsTold
  <2> QED
    BY <2>1, <2>3, <2>7, <2>8 DEF EscalationsTold
<1>3. CASE TraceNext /\ ~Assembling
  <2>1. PICK new : IsList(new) /\ Emit(new) /\ StepKinds(new)
    BY <1>3, StepTellsKinds
  <2>2. Without(new, {"escalation", "artifact"})
    BY <1>3, <2>1 DEF StepKinds
  <2>3. UNCHANGED OfKind("escalation")
    BY <2>1, <2>2, KindIsKept
  <2>4. stage # "decided" /\ stage' # "decided"
    BY <1>3 DEF TraceNext, Investigating, Discovering, Consulting, Refining, Converging, GoingOn,
                GivingUp, Failing, Investigate, Discover, Consult, Refine, Converge, NextRound,
                GiveUp, Raise
  <2> QED
    BY <2>3, <2>4 DEF EscalationsTold
<1> QED
  BY <1>1, <1>2, <1>3

Documented == Recorded /\ ReviewDone /\ EscalationsTold

LEMMA DocumentedHolds == TraceSpec => [](TraceInv /\ Told /\ Documented)
<1>1. TraceInit => Documented
  <2> SUFFICES ASSUME TraceInit PROVE Documented
    OBVIOUS
  <2>1. Recorded
    BY EmptySeq DEF TraceInit, Init, Recorded, Round
  <2>2. ReviewDone
    BY DEF TraceInit, Init, ReviewDone
  <2> QED
    BY <2>1, <2>2, EscalationsToldInit DEF Documented
<1>2. TraceInv /\ Documented /\ [TraceNext]_traceVars => Documented'
  <2> SUFFICES ASSUME TraceInv, Documented, [TraceNext]_traceVars PROVE Documented'
    OBVIOUS
  <2>1. [Next]_vars
    BY DEF TraceNext, traceVars, Investigating, Discovering, Consulting, Refining,
           Converging, GoingOn, GivingUp, Assembling, Failing, Next
  <2> QED
    BY <2>1, RecordedStep, ReviewDoneStep, EscalationsToldStep DEF Documented, TraceInv
<1> QED
  BY TraceInvHolds, ToldHolds, <1>1, <1>2, PTL DEF TraceSpec

-----------------------------------------------------------------------------
(* The points for a human name whom they are about. *)
LEMMA AmongJoined ==
  ASSUME NEW s, NEW t, IsList(s), IsList(t), NEW x
  PROVE  Among(x, s \o t) <=> Among(x, s) \/ Among(x, t)
<1> DEFINE u == s \o t
<1>1. /\ Len(u) = Len(s) + Len(t) /\ Len(s) \in Nat /\ Len(t) \in Nat
      /\ \A i \in 1 .. Len(s) + Len(t) :
           u[i] = IF i <= Len(s) THEN s[i] ELSE t[i - Len(s)]
  BY Joined DEF IsList
<1> HIDE DEF u
<1>2. ASSUME NEW i \in 1 .. Len(u), u[i] = x PROVE Among(x, s) \/ Among(x, t)
  <2>1. CASE i <= Len(s)
    BY <1>1, <1>2, <2>1 DEF Among
  <2>2. CASE ~(i <= Len(s))
    <3>1. i - Len(s) \in 1 .. Len(t)
      BY <1>1, <2>2
    <3>2. t[i - Len(s)] = x
      BY <1>1, <1>2, <2>2
    <3> QED
      BY <3>1, <3>2 DEF Among
  <2> QED
    BY <2>1, <2>2
<1>3. ASSUME NEW i \in 1 .. Len(s), s[i] = x PROVE Among(x, u)
  <2>1. i \in 1 .. Len(u) /\ u[i] = x
    BY <1>1, <1>3
  <2> QED
    BY <2>1 DEF Among
<1>4. ASSUME NEW i \in 1 .. Len(t), t[i] = x PROVE Among(x, u)
  <2>1. /\ Len(s) + i \in 1 .. Len(u) /\ ~(Len(s) + i <= Len(s))
        /\ (Len(s) + i) - Len(s) = i
    BY <1>1, <1>4
  <2>2. u[Len(s) + i] = x
    BY <1>1, <1>4, <2>1
  <2> QED
    BY <2>1, <2>2 DEF Among
<1>5. Among(x, u) <=> Among(x, s) \/ Among(x, t)
  BY <1>2, <1>3, <1>4 DEF Among
<1> QED
  BY <1>5 DEF u

Numbered(teams, at) ==
  /\ \A p \in teams : at[p] \in Nat
  /\ \A p, q \in teams : at[p] = at[q] => p = q

LEMMA PointsName ==
  ASSUME NEW why, NEW teams, IsFiniteSet(teams), NEW at, Numbered(teams, at), NEW team \in teams
  PROVE  Among(Point(why, {team}), PointsAbout(why, teams, at))
<1> DEFINE below(p) == {q \in teams : at[q] < at[p]}
           rank(p)  == Cardinality(below(p))
<1>1. ASSUME NEW p \in teams
      PROVE  IsFiniteSet(below(p)) /\ rank(p) \in Nat /\ rank(p) < Cardinality(teams)
  <2>1. below(p) \in SUBSET teams /\ below(p) # teams
    BY DEF Numbered
  <2> QED
    BY <2>1, FS_Subset, FS_CardinalityType
<1>2. ASSUME NEW p \in teams, NEW q \in teams, at[p] < at[q] PROVE rank(p) < rank(q)
  <2> DEFINE P == below(p)
             Q == below(q)
  <2>1. P \in SUBSET Q /\ P # Q
    BY <1>2 DEF Numbered
  <2>2. IsFiniteSet(Q)
    BY <1>1
  <2>3. rank(p) = Cardinality(P) /\ rank(q) = Cardinality(Q)
    OBVIOUS
  <2> HIDE DEF P, Q, below, rank
  <2>4. Cardinality(P) \in Nat /\ Cardinality(Q) \in Nat /\ Cardinality(P) < Cardinality(Q)
    BY <2>1, <2>2, FS_Subset, FS_CardinalityType
  <2> QED
    BY <2>3, <2>4
<1>3. ASSUME NEW p \in teams, rank(p) = rank(team) PROVE p = team
  <2>1. ~(at[p] < at[team]) /\ ~(at[team] < at[p])
    <3> HIDE DEF below, rank
    <3> QED
      BY <1>1, <1>2, <1>3
  <2> QED
    BY <2>1 DEF Numbered
<1>4. Cardinality(teams) \in Nat
  BY FS_CardinalityType
<1>5. PICK i \in 1 .. Cardinality(teams) : i - 1 = rank(team)
  <2>1. rank(team) + 1 \in 1 .. Cardinality(teams) /\ (rank(team) + 1) - 1 = rank(team)
    BY <1>1, <1>4
  <2> QED
    BY <2>1
<1>6. (CHOOSE p \in teams : Cardinality({q \in teams : at[q] < at[p]}) = i - 1) = team
  <2>1. \A p \in teams : Cardinality({q \in teams : at[q] < at[p]}) = i - 1 <=> p = team
    BY <1>3, <1>5
  <2> QED
    BY <2>1
<1>7. PointsAbout(why, teams, at)[i] = Point(why, {team})
  BY <1>6 DEF PointsAbout
<1>8. Len(PointsAbout(why, teams, at)) = Cardinality(teams)
  BY <1>4, FunctionIsList DEF PointsAbout
<1> QED
  BY <1>7, <1>8 DEF Among

(* Where a team first claimed authority in the record. *)
LEMMA ClaimIsRecorded ==
  ASSUME Inv, Recorded, heard # <<>>, \A k \in 1 .. Round : Len(heard[k]) = Len(peers),
         NEW team \in Whose("authority")
  PROVE  ClaimedAt(team) \in Nat /\ Record[ClaimedAt(team)].from = team
<1> USE DEF Inv
<1> DEFINE I == {i \in 1 .. Len(Record) : Record[i].from = team /\ Record[i].answer.authority}
<1>1. PICK j \in 1 .. Len(peers), k \in 1 .. Round :
        team = peers[j] /\ heard[k][j].answer.authority
  BY DEF Whose
<1>2. heard[k][j].from = team /\ Among(heard[k][j], Record)
  BY <1>1 DEF EveryPeerEveryRound, Recorded
<1>3. I # {} /\ I \subseteq Nat
  BY <1>1, <1>2 DEF Among
<1> HIDE DEF I
<1>4. Min(I) \in I
  <2>1. First(I) \in I /\ \A i \in I : First(I) <= i
    BY <1>3, FirstExists
  <2> QED
    BY <2>1 DEF Min
<1>5. ClaimedAt(team) = Min(I)
  BY <1>3 DEF ClaimedAt, SelectInSeq, I
<1> QED
  BY <1>4, <1>5 DEF I

(* The points of a finding, and whether there are any. *)
LEMMA PointsOfFinding ==
  ASSUME NEW f, IsFiniteSet(f.undeployed), IsFiniteSet(f.authority)
  PROVE  LET points == HumanDecisionPoints(f) IN
         /\ points # <<>> <=> \/ f.undeployed # {} \/ f.authority # {} \/ f.tie
                              \/ f.unreachable # {} \/ f.undecided
         /\ f.unreachable # {} => Among(Point("unreachable", f.unreachable), points)
         /\ \A x : Among(x, PointsAbout("authority", f.authority,
                                        [p \in f.authority |-> ClaimedAt(p)]))
                     => Among(x, points)
<1> DEFINE a == PointsAbout("undeployed", f.undeployed, [p \in f.undeployed |-> SeatOf(p)])
           b == PointsAbout("authority", f.authority, [p \in f.authority |-> ClaimedAt(p)])
           c == IF f.tie THEN <<Point("tie", {})>> ELSE <<>>
           d == IF f.unreachable # {} THEN <<Point("unreachable", f.unreachable)>> ELSE <<>>
           e == IF f.undecided THEN <<Point("undecided", {})>> ELSE <<>>
           points == a \o b \o c \o d \o e
<1>1. Cardinality(f.undeployed) \in Nat /\ Cardinality(f.authority) \in Nat
  BY FS_CardinalityType
<1>2. /\ IsList(a) /\ Len(a) = Cardinality(f.undeployed)
      /\ IsList(b) /\ Len(b) = Cardinality(f.authority)
  BY <1>1, FunctionIsList DEF PointsAbout
<1>3. ASSUME NEW test, NEW point
      PROVE  LET s == IF test THEN <<point>> ELSE <<>> IN
             IsList(s) /\ (Len(s) # 0 <=> test) /\ (test => Among(point, s))
  <2>1. /\ IsList(<<point>>) /\ Len(<<point>>) = 1 /\ <<point>>[1] = point
        /\ IsList(<<>>) /\ Len(<<>>) = 0
    BY OneIsList, EmptySeq, SeqIsList
  <2> QED
    BY <2>1 DEF Among
<1>4. /\ IsList(c) /\ (Len(c) # 0 <=> f.tie)
      /\ IsList(d) /\ (Len(d) # 0 <=> f.unreachable # {})
      /\ IsList(e) /\ (Len(e) # 0 <=> f.undecided)
      /\ f.unreachable # {} => Among(Point("unreachable", f.unreachable), d)
  BY <1>3
<1>5. (Len(a) # 0 <=> f.undeployed # {}) /\ (Len(b) # 0 <=> f.authority # {})
  BY <1>2, FS_EmptySet
<1> HIDE DEF a, b, c, d, e
<1>6. /\ IsList(a \o b) /\ Len(a \o b) = Len(a) + Len(b)
      /\ Len(a) \in Nat /\ Len(b) \in Nat /\ Len(c) \in Nat /\ Len(d) \in Nat /\ Len(e) \in Nat
  BY <1>2, <1>4, Joined DEF IsList
<1>7. IsList(a \o b \o c) /\ Len(a \o b \o c) = Len(a) + Len(b) + Len(c)
  BY <1>4, <1>6, Joined
<1>8. IsList(a \o b \o c \o d) /\ Len(a \o b \o c \o d) = Len(a) + Len(b) + Len(c) + Len(d)
  BY <1>4, <1>7, Joined
<1>9. IsList(points) /\ Len(points) = Len(a) + Len(b) + Len(c) + Len(d) + Len(e)
  BY <1>4, <1>8, Joined
<1>10. points # <<>> <=> Len(points) # 0
  <2>1. points = <<>> => Len(points) = 0
    BY EmptySeq
  <2>2. Len(points) = 0 => points = <<>>
    BY <1>9, ListIsSeq, EmptySeq
  <2> QED
    BY <2>1, <2>2
<1>11. ASSUME NEW x PROVE Among(x, b) \/ Among(x, d) => Among(x, points)
  <2>1. Among(x, b) => Among(x, a \o b)
    BY <1>2, AmongJoined
  <2>2. Among(x, a \o b) => Among(x, a \o b \o c)
    BY <1>4, <1>6, AmongJoined
  <2>3. Among(x, a \o b \o c) \/ Among(x, d) => Among(x, a \o b \o c \o d)
    BY <1>4, <1>7, AmongJoined
  <2>4. Among(x, a \o b \o c \o d) => Among(x, points)
    BY <1>4, <1>8, AmongJoined
  <2> QED
    BY <2>1, <2>2, <2>3, <2>4
<1>12. points # <<>> <=> \/ f.undeployed # {} \/ f.authority # {} \/ f.tie
                         \/ f.unreachable # {} \/ f.undecided
  <2> HIDE DEF points
  <2> QED
    BY <1>4, <1>5, <1>6, <1>9, <1>10
<1>13. HumanDecisionPoints(f) = points
  BY DEF HumanDecisionPoints, a, b, c, d, e
<1> QED
  BY <1>4, <1>11, <1>12, <1>13 DEF b

LEMMA TeamsReviewed ==
  ASSUME Inv, Answered, heard # <<>>, \A k \in 1 .. Round : Len(heard[k]) = Len(peers)
  PROVE  TeamsInvolved = Reviewers
<1> USE DEF Inv
<1>1. Round \in Nat \ {0} /\ 1 \in 1 .. Round
  BY RoundFacts
<1>2. ASSUME NEW k \in 1 .. Round, NEW j \in 1 .. Len(peers)
      PROVE  heard[k][j].answer.timedOut <=> peers[j] \notin Deployed
  <2>1. heard[k][j].answer \in AnswersOf(peers[j])
    BY DEF Answered, EveryPeerEveryRound
  <2> QED
    BY <2>1, TraceAssumption DEF AnswersOf, NoAnswer
<1> QED
  BY <1>1, <1>2 DEF TeamsInvolved, Reviewers, Members

LEMMA DocumentFollows ==
  ASSUME TraceInv, Told, Documented, SignOffsAreEscalated
  PROVE  DocumentAgrees
<1> SUFFICES ASSUME stage = "decided" PROVE DocumentAgrees
  BY DEF DocumentAgrees
<1> USE DEF TraceInv, Traced, Inv, Told, Documented
<1> DEFINE points      == HumanDecisionPoints(finding)
           escalations == OfKind("escalation")
           answers     == OfKind("response")
           named       == UNION {p.who : p \in ToSet(points)}
<1>1. /\ heard # <<>> /\ Round \in Nat \ {0} /\ Round \in 1 .. Round
      /\ \A k \in 1 .. Round : Len(heard[k]) = Len(peers)
      /\ finding = Summary
  BY RoundFacts DEF Progress, EveryPeerEveryRound, Summarised
<1>2. /\ finding.undeployed = Members \ Implemented
      /\ finding.authority = Whose("authority")
      /\ finding.tie = (~converged /\ peers # <<>>)
      /\ finding.recommends = IF recommended = {} THEN NoAlternative ELSE First(recommended)
  BY <1>1 DEF Summary
<1>3. IsFiniteSet(finding.undeployed) /\ IsFiniteSet(finding.authority)
  <2>1. finding.undeployed \subseteq Members /\ finding.authority \subseteq Members
    BY <1>2 DEF Whose, Members
  <2> QED
    BY <2>1, FiniteMembers, FS_Subset
<1>4. ASSUME NEW a \in Alternative
      PROVE  /\ Marker(a) = LastOutcome(a).word
             /\ ruledOut[a] = LastOutcome(a).reason
             /\ finding.recommends = a => Marker(a) = "recommended"
  <2>1. LastOutcome(a) = Outcome(a, Marker(a), ruledOut[a])
    BY LastToldIs DEF OutcomesTold
  <2>2. finding.recommends = a => a \in recommended
    <3>1. recommended \in SUBSET Nat /\ a # NoAlternative
      BY AlternativeFacts DEF TypeOK, Alternative, NoAlternative
    <3> QED
      BY <1>2, <3>1, FirstExists
  <2>3. LastOutcome(a).word = Marker(a) /\ LastOutcome(a).reason = ruledOut[a]
    <3> DEFINE m == Marker(a)
               r == ruledOut[a]
    <3>1. LastOutcome(a) = Outcome(a, m, r)
      BY <2>1
    <3> HIDE DEF m, r
    <3>2. LastOutcome(a).word = m /\ LastOutcome(a).reason = r
      BY <3>1 DEF Outcome
    <3> QED
      BY <3>2 DEF m, r
  <2>4. a \in recommended => Marker(a) = "recommended"
    BY DEF Marker
  <2> QED
    BY <2>2, <2>3, <2>4
<1>5. reviewedBy = TeamsInvolved
  BY <1>1, TeamsReviewed DEF ReviewDone
<1>6. IsList(points)
  BY <1>3, PointsAreListed
<1>7. points = [i \in 1 .. Len(escalations) |-> escalations[i].about]
  <2>1. escalations = [i \in 1 .. Len(points) |-> Note("decision", "escalation", 0, points[i])]
    BY DEF EscalationsTold, Escalated
  <2>2. Len(points) \in Nat /\ points = [i \in 1 .. Len(points) |-> points[i]]
    BY <1>6 DEF IsList
  <2> HIDE DEF points, escalations
  <2>3. Len(escalations) = Len(points)
    BY <2>1, <2>2, FunctionIsList
  <2>4. \A i \in 1 .. Len(points) : escalations[i].about = points[i]
    BY <2>1 DEF Note, Event
  <2> QED
    BY <2>2, <2>3, <2>4
<1>8. /\ points # <<>> <=> RequiresHuman
      /\ finding.unreachable # {} => Among(Point("unreachable", finding.unreachable), points)
      /\ \A x : Among(x, PointsAbout("authority", finding.authority,
                           [p \in finding.authority |-> ClaimedAt(p)])) => Among(x, points)
  BY <1>3, PointsOfFinding DEF RequiresHuman
<1>9. ~converged => RequiresHuman
  <2> SUFFICES ASSUME ~converged PROVE RequiresHuman
    OBVIOUS
  <2>1. ~HasConverged(Said) /\ Len(Said) = Len(peers)
    BY <1>1 DEF NoRoundAfterAgreement, Said
  <2>2. Len(peers) # 0
    BY <2>1 DEF HasConverged
  <2> QED
    BY <1>2, <2>2, EmptySeq DEF RequiresHuman
<1>10. \A x, who : Among(x, points) /\ x.who = who => who \subseteq named
  <2>1. \A x : Among(x, points) => x \in ToSet(points)
    BY <1>6 DEF Among, ToSet, IsList
  <2> QED
    BY <2>1
<1>11. ASSUME NEW team \in finding.authority PROVE team \in named
  <2> DEFINE at == [p \in finding.authority |-> ClaimedAt(p)]
  <2>1. Numbered(finding.authority, at)
    <3>1. \A p \in finding.authority : ClaimedAt(p) \in Nat /\ Record[ClaimedAt(p)].from = p
      BY <1>1, <1>2, ClaimIsRecorded
    <3> QED
      BY <3>1 DEF Numbered
  <2>2. Among(Point("authority", {team}), PointsAbout("authority", finding.authority, at))
    BY <1>3, <2>1, PointsName
  <2>3. Among(Point("authority", {team}), points)
    BY <1>8, <2>2
  <2> QED
    BY <1>10, <2>3 DEF Point
<1>12. Members \ TeamsInvolved \subseteq named
  <2>1. Members \ TeamsInvolved \subseteq finding.unreachable
    BY DEF SignOffsAreEscalated
  <2>2. finding.unreachable # {} => finding.unreachable \subseteq named
    BY <1>8, <1>10 DEF Point
  <2> QED
    BY <2>1, <2>2
<1>13. \A team \in TeamsInvolved : team \in SignOffs => team \in named \cup Unexplained
  BY <1>11 DEF SignOffsAreEscalated
<1>14. /\ Len(answers) = Len(Record)
       /\ \A i \in 1 .. Len(answers) :
            answers[i].agent = Record[i].from /\ answers[i].about = Shown(Record[i].answer)
  BY DEF AnswersTold, AnswersMatch
<1>15. /\ Len(DeliberationRows) = Len(answers)
       /\ \A i \in 1 .. Len(answers) :
            /\ DeliberationRows[i].to = answers[i].agent
            /\ DeliberationRows[i].verdict = answers[i].about.verdict
  <2>1. Len(Record) \in Nat
    BY RecordType
  <2>2. Len(DeliberationRows) = Len(Record)
    BY <2>1, FunctionIsList DEF DeliberationRows
  <2>3. \A i \in 1 .. Len(Record) : /\ DeliberationRows[i].to = Record[i].from
                                    /\ DeliberationRows[i].verdict = Record[i].answer.verdict
    BY DEF DeliberationRows
  <2>4. ASSUME NEW answer PROVE Shown(answer).verdict = answer.verdict
    BY DEF Shown
  <2> QED
    BY <1>14, <2>2, <2>3, <2>4
<1> HIDE DEF points, escalations, answers, named, TraceInv, Traced, Inv, Told, Documented
<1>16. /\ OnePager.status = "incomplete" => ~converged
       /\ OnePager.needsHuman = RequiresHuman
       /\ OnePager.recommendation = finding.recommends
       /\ OnePager.teams = TeamsTable
       /\ OnePager.points = points
       /\ OnePager.appendix = DeliberationRows
       /\ \A a \in Alternative : OnePager.alternatives[a] = RenderAlternative(a)
  BY DEF OnePager, points
<1>17. ASSUME NEW a \in Alternative
       PROVE  /\ OnePager.alternatives[a].marker = Marker(a)
              /\ OnePager.alternatives[a].whyRuledOut = ruledOut[a]
              /\ OnePager.alternatives[a].reviewedBy = reviewedBy
  <2>1. OnePager.alternatives[a] = RenderAlternative(a)
    BY <1>16
  <2>2. /\ RenderAlternative(a).marker = Marker(a)
        /\ RenderAlternative(a).whyRuledOut = ruledOut[a]
        /\ RenderAlternative(a).reviewedBy = reviewedBy
    BY DEF RenderAlternative
  <2> QED
    BY <2>1, <2>2
<1>18. /\ DOMAIN TeamsTable = TeamsInvolved
       /\ \A team \in TeamsInvolved : TeamsTable[team] = (team \in SignOffs)
  BY DEF TeamsTable
<1>19. named = UNION {p.who : p \in ToSet(OnePager.points)}
  BY <1>16 DEF named
<1>20. \A a \in Alternative :
         /\ OnePager.alternatives[a].marker = LastOutcome(a).word
         /\ OnePager.alternatives[a].whyRuledOut = LastOutcome(a).reason
         /\ OnePager.recommendation = a => OnePager.alternatives[a].marker = "recommended"
         /\ OnePager.alternatives[a].reviewedBy = DOMAIN OnePager.teams
  BY <1>4, <1>5, <1>16, <1>17, <1>18
<1>21. /\ OnePager.points = [i \in 1 .. Len(escalations) |-> escalations[i].about]
       /\ OnePager.needsHuman <=> OnePager.points # <<>>
       /\ OnePager.status = "incomplete" => OnePager.needsHuman
  BY <1>7, <1>8, <1>9, <1>16
<1>22. /\ \A team \in DOMAIN OnePager.teams :
            OnePager.teams[team] => team \in named \cup Unexplained
       /\ Members \ DOMAIN OnePager.teams \subseteq named
  BY <1>12, <1>13, <1>16, <1>18
<1>23. /\ Len(OnePager.appendix) = Len(answers)
       /\ \A i \in 1 .. Len(answers) :
            /\ OnePager.appendix[i].to = answers[i].agent
            /\ OnePager.appendix[i].verdict = answers[i].about.verdict
  BY <1>15, <1>16
<1> QED
  BY <1>19, <1>20, <1>21, <1>22, <1>23 DEF DocumentAgrees, escalations, answers

(* The one-pager, the timeline and the finding do not contradict each      *)
(* other.                                                                  *)
THEOREM DocumentIsTrue == TraceSpec => []DocumentAgrees
<1>1. TraceInv /\ Told /\ Documented /\ SignOffsAreEscalated => DocumentAgrees
  BY DocumentFollows
<1>2. TraceSpec => []SignOffsAreEscalated
  BY TracingChangesNothing, SignOffsReachAHuman
<1> QED
  BY DocumentedHolds, <1>1, <1>2, PTL
=============================================================================
