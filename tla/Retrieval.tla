----------------------------- MODULE Retrieval -----------------------------
(***************************************************************************)
(* The retrieval of a Mail Decision: which queries the facts of a mail lead *)
(* to, what the stores answer, when the evidence is enough and which of it  *)
(* reaches the prompt.  Scores are percentages.                             *)
(***************************************************************************)
EXTENDS Integers, FiniteSets, Sequences, SequencesExt

CONSTANTS
    Users,        \* operators
    Nobody,       \* no assignee
    Names,        \* what mails name: customers, products, projects, vessels
    KindOf,       \* [Names -> NameKinds]
    Types,        \* request types, which are also the primary types of mails
    Sources,      \* what the stores hold besides the mail itself
    OwnMail,      \* the id of the row of the mail that is decided on
    PlanLimit,    \* queries of a plan (12 in the code)
    PromptLimit,  \* hits in the prompt (CORAMAIL_RETRIEVAL_PROMPT_LIMIT, 6)
    MaxCycles     \* retrieval cycles (CORAMAIL_RETRIEVAL_MAX_CYCLES, 3)

NameKinds == {"customer", "part", "group", "project", "vessel"}
Hows == {"exact", "rule", "capability", "similar"}

Hit == [how : Hows, id : {s.id : s \in Sources} \cup {OwnMail},
        user : Users \cup {Nobody}, score : 0..100]

(* A row of a store: the key it answers to, its assignee and its score.     *)
Source == [how : Hows, key : Names \cup Types \cup {"sender", "text", "broad"},
           id : STRING, user : Users \cup {Nobody}, score : 0..100]

ASSUME NamesAssumption == /\ KindOf \in [Names -> NameKinds]
                          /\ IsFiniteSet(Names) /\ IsFiniteSet(Types)
ASSUME SourcesAssumption == /\ IsFiniteSet(Sources) /\ Sources \subseteq Source
                            /\ Nobody \notin Users /\ OwnMail \in STRING
ASSUME UsersAssumption == IsFiniteSet(Users)
ASSUME LimitsAssumption == /\ PlanLimit \in Nat \ {0} /\ PromptLimit \in Nat \ {0}
                           /\ MaxCycles \in 1..3

(* MailFacts: the names and request types found, whether an action is       *)
(* requested and whether statements contradict each other.                  *)
Facts == [names : SUBSET Names, types : SUBSET Types,
          actions : BOOLEAN, contradictory : BOOLEAN]

OfKind(f, kinds) == {n \in f.names : KindOf[n] \in kinds}

----------------------------------------------------------------------------
(* RetrievalPlanner.plan: exact values first, then rules, capabilities and  *)
(* similar cases; what does not fit in the limit is dropped from the end.   *)
Query(how, keys) == [i \in 1..Cardinality(keys) |->
                       [how |-> how, key |-> SetToSeq(keys)[i]]]

Planned(f, cycle) ==
    Query("exact", {"sender"})
    \o Query("exact", OfKind(f, {"customer", "part", "project", "vessel"}))
    \o Query("rule", f.types)
    \o Query("capability", OfKind(f, {"customer", "group", "project"}) \cup f.types)
    \o Query("similar", {"text"})
    \o Query("similar", {k \in {"broad"} : cycle > 1})

Plan(f, cycle) ==
    SubSeq(Planned(f, cycle), 1,
           IF PlanLimit < Len(Planned(f, cycle)) THEN PlanLimit ELSE Len(Planned(f, cycle)))

(* What a query finds.  Rules and capabilities are those of active users;   *)
(* exact rows and similar cases name whoever was assigned.  The mail's own  *)
(* row has the sender and, since its facts are stored, every exact value.   *)
OwnHit(user) == [how |-> "exact", id |-> OwnMail, user |-> user,
                 score |-> IF user = Nobody THEN 75 ELSE 100]

Answers(q, active) ==
    {[how |-> s.how, id |-> s.id, user |-> s.user, score |-> s.score] :
        s \in {x \in Sources : /\ x.how = q.how /\ x.key = q.key
                               /\ x.how \in {"rule", "capability"} => x.user \in active}}

Found(q, active, assignee) ==
    Answers(q, active) \cup {h \in {OwnHit(assignee)} : q.how = "exact"}

(* A search for similar cases may fail as well, and finds nothing then.     *)
Results(q, active, assignee) ==
    {Found(q, active, assignee)} \cup (IF q.how = "similar" THEN {{}} ELSE {})

----------------------------------------------------------------------------
(* AgenticRetrievalService._evaluate.                                       *)
HasAssignee(hits) == \E h \in hits : h.user # Nobody

Sufficient(f, hits) ==
    /\ HasAssignee(hits)
    /\ f.types # {} \/ f.actions \/ \E h \in hits : h.how = "rule"
    /\ OfKind(f, {"customer", "part", "group"}) # {} \/ \E h \in hits : h.how = "exact"
    /\ \E h \in hits : h.score >= 65

(* _select_hits: one hit per source, its best, and of those the best few;   *)
(* equal scores leave the choice to the order of the queries.               *)
Best(hits) == {h \in hits : \A g \in hits : g.id = h.id => g.score <= h.score}

Distinct(hits) == \A g, h \in hits : g.id = h.id => g = h

Selections(hits) ==
    {s \in SUBSET Best(hits) :
        /\ Distinct(s)
        /\ Cardinality(s) <= PromptLimit
        /\ \/ {h.id : h \in s} = {h.id : h \in hits}
           \/ Cardinality(s) = PromptLimit
        /\ \A h \in s, g \in Best(hits) : g.id \notin {x.id : x \in s} => g.score <= h.score}
=============================================================================
