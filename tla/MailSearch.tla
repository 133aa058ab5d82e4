----------------------------- MODULE MailSearch ------------------------------
(***************************************************************************)
(* What a search of the mailbox may answer                                 *)
(* (app/services/mail_search_service.py), as sets of possible results: the *)
(* language model and the scores are free, the code's rules about          *)
(* identifiers, citations and fallbacks are not.                           *)
(***************************************************************************)
EXTENDS Naturals, Sequences, FiniteSets, SequencesExt

CONSTANTS
  Mails,      \* uids of mails, which are identifiers too
  Refs,       \* business identifiers: numbers of quotations, orders, ...
  Documents,  \* mails and attachments a mailbox may hold
  Questions,  \* questions users ask
  Limit       \* results shown

(* A document names its mail and its references; found: its embedding or   *)
(* its words are near enough to any question; value: the field asked for   *)
(* can be read off its preview.                                            *)
Document == [mail: Mails, kind: {"mail", "attachment"}, refs: SUBSET Refs,
             found: BOOLEAN, value: BOOLEAN]
Names(d) == {d.mail} \cup d.refs

(* What the patterns find in a question: identifiers, other search terms,  *)
(* a field of a mail (content, value readable off a preview), newest or    *)
(* oldest mail, a reference to what was said before (follows), few words   *)
(* or any of these (short), all of them (many), the mail itself (body).    *)
Question == [ids: SUBSET (Mails \cup Refs), words: BOOLEAN, content: BOOLEAN, field: BOOLEAN,
             order: BOOLEAN, follows: BOOLEAN, short: BOOLEAN, many: BOOLEAN, body: BOOLEAN]

ASSUME DocumentsAssumption == Documents \subseteq Document /\ IsFiniteSet(Documents)
ASSUME QuestionsAssumption == Questions \subseteq Question
(* Lists of identifiers are cut after three, so with more the oldest went. *)
ASSUME IdentifiersAssumption == Cardinality(Mails) <= 3 /\ Cardinality(Refs) <= 3
ASSUME LimitAssumption == Limit \in 1 .. 3

(* A turn of a conversation, as far as later turns use it.                 *)
Turn == [ids: SUBSET (Mails \cup Refs), results: SUBSET Documents, error: BOOLEAN]
Results(turns) == UNION {turns[i].results : i \in DOMAIN turns}
LastOf(n, turns) == SubSeq(turns, IF Len(turns) > n THEN Len(turns) - n + 1 ELSE 1, Len(turns))

-----------------------------------------------------------------------------
(* Identifiers.                                                            *)

TargetIdentifiers(turns) == {d.mail : d \in Results(turns)}
ResultIdentifiers(turns) == UNION {d.refs : d \in Results(turns)}
BusinessIdentifiers(turns) ==
  ResultIdentifiers(turns) \cup UNION {turns[i].ids : i \in DOMAIN turns}

(* resolve_search_query: a question that leaves its object out gets the    *)
(* mails of the last three turns, or else their identifiers.               *)
ResolveSearchQuery(q, turns) ==
  LET recent == LastOf(3, turns) IN
  IF q.follows /\ q.ids = {}
  THEN [q EXCEPT !.ids = IF TargetIdentifiers(recent) # {} THEN TargetIdentifiers(recent)
                         ELSE BusinessIdentifiers(recent)]
  ELSE q

(* _context_target_identifiers                                             *)
ContextTargets(turns) ==
  IF TargetIdentifiers(turns) # {} THEN TargetIdentifiers(turns) ELSE ResultIdentifiers(turns)

(* _query_signals                                                          *)
RequiredIdentifiers(q, turns) ==
  IF q.ids # {} THEN q.ids ELSE IF q.short THEN ContextTargets(turns) ELSE {}
HasTerms(q, plan, required) == q.words \/ plan.words \/ required # {}

-----------------------------------------------------------------------------
(* The plan.                                                               *)

Plan == [intent: {"document_qa", "mailbox_lookup"}, words: BOOLEAN]

(* _plan_query overrules the model where the question is clear; a question *)
(* it turns into document_qa always has terms.                             *)
GuardedPlan(q, p) ==
  IF q.content /\ (q.ids # {} \/ q.order) THEN [intent |-> "document_qa", words |-> TRUE]
  ELSE IF q.order THEN [p EXCEPT !.intent = "mailbox_lookup"]
  ELSE p
FallbackPlan(q) ==
  [intent |-> IF q.order THEN "mailbox_lookup" ELSE "document_qa", words |-> q.words]
Plans(q) == {GuardedPlan(q, p) : p \in Plan} \cup {FallbackPlan(q)}

-----------------------------------------------------------------------------
(* Candidates.                                                             *)

(* Mutant: one of the identifiers is enough.                               *)
InScopeOfAny(required, d) == required = {} \/ required \cap Names(d) # {}
InScope(required, d) == required \subseteq Names(d)
Eligible(q, required, docs) ==
  LET scope == {d \in docs : InScope(required, d)}
      mails == {d \in scope : d.kind = "mail"}
  IN IF q.body /\ mails # {} THEN mails ELSE scope

(* _has_required_identifier_scope, asked only of a mailbox with documents. *)
OutOfScope(required, docs) ==
  docs # {} /\ required # {} /\ \A d \in docs : ~InScope(required, d)

(* An identifier that is required is a word found.                         *)
Ranked(required, eligible) == {d \in eligible : d.found \/ required # {}}

(* _retrieve_mailbox_candidates: the model chooses the filters.            *)
Lookups(docs) ==
  {c \in SUBSET {d \in docs : d.kind = "mail"} : Cardinality(c) <= Limit}

-----------------------------------------------------------------------------
(* Answers.  The order of candidates is that of their scores: free.        *)

Many(q) == IF q.many THEN Limit ELSE 1
FirstOf(n, c) == kSubset(Min({n, Cardinality(c)}), c)
Shown(q, c) == FirstOf(Many(q), c)
(* _selected_results of known citations with a score of 0.55 and more, and *)
(* _tighten_evidence_results.                                              *)
Selected(q, c) ==
  {s \in SUBSET c : s # {} /\ Cardinality(s) <= Many(q)}
(* Mutant: no citation, no document.                                       *)
UncitedNever(q, required, c) == {{}}
(* No citation: the code shows a candidate when identifiers were required, *)
(* and nothing otherwise.                                                  *)
Uncited(q, required, c) == IF required # {} THEN Shown(q, c) ELSE {{}}
(* _deterministic_field_answer                                             *)
FieldAnswers(q, c) == IF q.field THEN {{d} : d \in {x \in c : x.value}} ELSE {}

(* With the model's answer, and without: _fallback_evidence_results.       *)
DocumentAnswers(q, required, c) ==
  IF FieldAnswers(q, c) # {} THEN FieldAnswers(q, c)
  ELSE Selected(q, c) \cup Uncited(q, required, c) \cup Shown(q, c)

LookupAnswers(q, c) ==
  IF FieldAnswers(q, c) # {} THEN FieldAnswers(q, c) ELSE FirstOf(Limit, c)

(* No candidates: what earlier turns showed, the first of it.              *)
ContextAnswers(q, plan, turns) ==
  IF Results(turns) # {} /\ (plan.intent = "document_qa" \/ q.short)
  THEN UNION {Selected(q, c) \cup Shown(q, c) : c \in FirstOf(Limit, Results(turns))}
  ELSE {{}}
=============================================================================
