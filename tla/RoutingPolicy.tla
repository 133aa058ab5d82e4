--------------------------- MODULE RoutingPolicy ---------------------------
(***************************************************************************)
(* How a Mail Decision scores the operators and when it assigns a mail by   *)
(* itself.  Scores are in units of 1/10000, evidence is in percent.         *)
(***************************************************************************)
EXTENDS Retrieval, FiniteSetsExt

CONSTANTS
    Capabilities,  \* set of <<user, name or request type>>
    Policies,      \* the settings of routing_policy an administrator saves
    Confidences    \* what the model says of its classification, in percent

PolicySettings == [threshold : 0..10000, margin : 0..10000, confidence : 0..100]

ASSUME CapabilitiesAssumption == Capabilities \subseteq Users \X (Names \cup Types)
ASSUME PoliciesAssumption == Policies \subseteq PolicySettings /\ Policies # {}
ASSUME ConfidencesAssumption == Confidences \subseteq 0..100

Decision == [mode : {"llm", "fallback"}, type : Types, confidence : 0..100,
             review : BOOLEAN]

----------------------------------------------------------------------------
(* DecisionAgent.decide: the type is the one the facts name, if they name   *)
(* one only; a correction, a low confidence, contradictory facts or a claim *)
(* without support ask for a review, as the model itself may do.            *)
Corrected(t, f) == IF \E g \in Types : f.types = {g}
                   THEN CHOOSE g \in Types : f.types = {g}
                   ELSE t

Decide(f) ==
    {[mode |-> "llm", type |-> Corrected(t, f), confidence |-> c,
      review |-> asked \/ c < 78 \/ f.contradictory \/ Corrected(t, f) # t] :
        t \in Types, c \in Confidences, asked \in BOOLEAN}

(* DecisionAgent.fallback_decision, when the model cannot be reached.       *)
FallbackDecision(f, general) ==
    {[mode |-> "fallback", type |-> t, confidence |-> 45, review |-> TRUE] :
        t \in IF f.types = {} THEN {general} ELSE f.types}

----------------------------------------------------------------------------
(* RoutingPolicy.score.                                                     *)
Match(u, values) == IF \E v \in values : <<u, v>> \in Capabilities THEN 1 ELSE 0

Evidence(u, hits, hows) ==
    Max({0} \cup {h.score : h \in {x \in hits : x.user = u /\ x.how \in hows}})

Score(u, f, type, hits) ==
    3000 * Match(u, OfKind(f, {"customer"}))
    + 2000 * Match(u, OfKind(f, {"part", "group"}))
    + 2000 * Match(u, {type})
    + 1000 * Match(u, OfKind(f, {"project", "vessel"}))
    + 10 * Evidence(u, hits, Hows \ {"similar"})
    + 5 * Evidence(u, hits, {"similar"})
    + 500

(* The order of the candidates; equal scores stay in the order of the names *)
(* the query returned.                                                      *)
Rankings(users, f, type, hits) ==
    {r \in SetToSeqs(users) :
        \A i, j \in DOMAIN r : i < j => Score(r[i], f, type, hits) >= Score(r[j], f, type, hits)}

(* The best candidate is assigned only if nothing speaks for a review.      *)
Assigns(r, f, d, hits, policy) ==
    /\ r # <<>>
    /\ Score(r[1], f, d.type, hits) >= policy.threshold
    /\ Len(r) > 1 => Score(r[1], f, d.type, hits) - Score(r[2], f, d.type, hits) >= policy.margin
    /\ d.confidence >= policy.confidence /\ ~d.review
    /\ ~f.contradictory
    /\ OfKind(f, {"customer", "group", "project"}) # {}
=============================================================================
