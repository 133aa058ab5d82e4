------------------------------ MODULE LlmGateway ------------------------------
(***************************************************************************)
(* The gateway to the language models (app/llm/gateway.py): how many       *)
(* requests of a role are on their way at a time, and how calls end.       *)
(*                                                                         *)
(* A gateway counts its own requests only, one semaphore for each role,    *)
(* held from before the request to after the answer and not while the      *)
(* answer is read.  Requests to gemini take no part in it.                 *)
(***************************************************************************)
EXTENDS Integers, FiniteSets

CONSTANTS
  Threads,   \* callers: requests and jobs of the server
  Gateways,  \* gateways: the server's, one of a job, one of a health check
  Config,    \* their LocalLLMConfig, [Gateways -> [provider, text, vision, embedding, limit]]
  MaxTexts   \* bound: texts embedded in a call

Roles == {"text", "vision", "embedding"}
Providers == {"openai", "vllm", "ollama", "gemini"}

ASSUME ConfigAssumption ==
  Config \in [Gateways -> [provider: Providers, text: Providers \cup {""},
                           vision: Providers \cup {""}, embedding: Providers \cup {""},
                           limit: [Roles -> Int]]]
ASSUME MaxTextsAssumption == MaxTexts \in Nat
ASSUME ThreadsAssumption == IsFiniteSet(Threads)

VARIABLES
  call,     \* what each thread has asked a gateway for, and how far it is
  permits   \* the semaphores of each gateway

gatewayVars == <<call, permits>>

(* _provider                                                               *)
Provider(g, role) == IF Config[g][role] # "" THEN Config[g][role] ELSE Config[g].provider
MaxConcurrency(g, role) == IF Config[g].limit[role] < 1 THEN 1 ELSE Config[g].limit[role]

Operations == {"structured", "embed", "health"}
(* A health check asks the default provider, and the server of the texts.  *)
Uncounted(g, op, role) ==
  IF op = "health" THEN Config[g].provider = "gemini" ELSE Provider(g, role) = "gemini"

NoCall == [pc |-> "idle"]
Called == [pc: {"waiting", "sent", "read", "returned", "raised"}, gate: Gateways, op: Operations,
           role: Roles, left: 0 .. MaxTexts]   \* left: texts without a vector
Open(g, op, role, n, pc) == [pc |-> pc, gate |-> g, op |-> op, role |-> role, left |-> n]
Step(t, pc) == call' = [call EXCEPT ![t] = [call[t] EXCEPT !.pc = pc]]

Counted(t) == call[t].pc = "sent" /\ ~Uncounted(call[t].gate, call[t].op, call[t].role)
Release(t) ==
  permits' = IF Counted(t)
             THEN [permits EXCEPT ![call[t].gate] =
                     [permits[call[t].gate] EXCEPT ![call[t].role] = @ + 1]]
             ELSE permits

GatewayInit ==
  /\ call = [t \in Threads |-> NoCall]
  /\ permits = [g \in Gateways |-> [role \in Roles |-> MaxConcurrency(g, role)]]

-----------------------------------------------------------------------------
(* A request is made at once, or waits for its turn.                       *)
Ask(t, g, op, role, n) ==
  call' = [call EXCEPT ![t] =
             Open(g, op, role, n, IF Uncounted(g, op, role) THEN "sent" ELSE "waiting")]

(* generate_structured_chat, generate_structured_vision                    *)
Structured(t, g, role) ==
  /\ call[t] = NoCall
  /\ Ask(t, g, "structured", role, 0)
  /\ UNCHANGED permits
(* A call without a system or a user message, or with content that gemini  *)
(* or ollama do not take, raises before its request.                       *)
RejectMessages(t, g, role) ==
  /\ call[t] = NoCall
  /\ call' = [call EXCEPT ![t] = Open(g, "structured", role, 0, "raised")]
  /\ UNCHANGED permits

(* embed; without texts there is no request.                               *)
Embed(t, g, n) ==
  /\ call[t] = NoCall
  /\ IF n = 0 THEN call' = [call EXCEPT ![t] = Open(g, "embed", "embedding", 0, "returned")]
     ELSE Ask(t, g, "embed", "embedding", n)
  /\ UNCHANGED permits

Healthcheck(t, g) ==
  /\ call[t] = NoCall
  /\ Ask(t, g, "health", "text", 0)
  /\ UNCHANGED permits

(* _request_json                                                           *)
Acquire(t) ==
  /\ call[t].pc = "waiting"
  /\ permits[call[t].gate][call[t].role] > 0
  /\ permits' = [permits EXCEPT ![call[t].gate] =
                   [permits[call[t].gate] EXCEPT ![call[t].role] = @ - 1]]
  /\ Step(t, "sent")

(* Mutant: the permit is given back after an answer only.                  *)
RequestFailsHolding(t) ==
  /\ call[t].pc = "sent"
  /\ Step(t, "raised")
  /\ UNCHANGED permits
(* No connection, a timeout, a status that is an error, a body that is not *)
(* JSON, for gemini no key.                                                *)
RequestFails(t) ==
  /\ call[t].pc = "sent"
  /\ Step(t, "raised")
  /\ Release(t)

Respond(t) ==
  /\ call[t].pc = "sent"
  /\ Step(t, "read")
  /\ Release(t)

-----------------------------------------------------------------------------
(* The answer is read: its JSON may lack what the caller asked for.        *)
Invalid(t) ==
  /\ call[t].pc = "read"
  /\ call[t].op # "health"
  /\ Step(t, "raised")
  /\ UNCHANGED permits

(* _parse_structured_content; healthcheck returns the body as it is.       *)
ReadBody(t) ==
  /\ call[t].pc = "read"
  /\ call[t].op # "embed"
  /\ Step(t, "returned")
  /\ UNCHANGED permits

(* All vectors come at once, but gemini is asked for one after the other.  *)
ReadEmbeddings(t) ==
  /\ call[t].pc = "read" /\ call[t].op = "embed"
  /\ LET left == IF Uncounted(call[t].gate, "embed", "embedding") THEN call[t].left - 1 ELSE 0 IN
       call' = [call EXCEPT ![t] =
                  [call[t] EXCEPT !.pc = IF left = 0 THEN "returned" ELSE "sent", !.left = left]]
  /\ UNCHANGED permits

Return(t) ==
  /\ call[t].pc \in {"returned", "raised"}
  /\ call' = [call EXCEPT ![t] = NoCall]
  /\ UNCHANGED permits

ThreadStep(t) ==
  \/ Acquire(t) \/ RequestFails(t) \/ Respond(t)
  \/ Invalid(t) \/ ReadBody(t) \/ ReadEmbeddings(t) \/ Return(t)
GatewayNext ==
  \E t \in Threads :
    \/ \E g \in Gateways :
         \/ \E role \in {"text", "vision"} : Structured(t, g, role) \/ RejectMessages(t, g, role)
         \/ \E n \in 0 .. MaxTexts : Embed(t, g, n)
         \/ Healthcheck(t, g)
    \/ ThreadStep(t)
GatewaySpec == GatewayInit /\ [][GatewayNext]_gatewayVars

-----------------------------------------------------------------------------
(* Calls and permits are well typed.                                       *)
GatewayTypeOK ==
  /\ call \in [Threads -> Called \cup {NoCall}]
  /\ permits \in [Gateways -> [Roles -> Nat]]

(* The requests of a role that a gateway has on their way, and the permits *)
(* left for that role, make up its limit, whatever fails: so the limit     *)
(* holds, and no failed request takes a permit with it.                    *)
OnTheirWay(g, role) == {t \in Threads : Counted(t) /\ call[t].gate = g /\ call[t].role = role}
PermitsCounted ==
  \A g \in Gateways, role \in Roles :
    permits[g][role] + Cardinality(OnTheirWay(g, role)) = MaxConcurrency(g, role)
=============================================================================
