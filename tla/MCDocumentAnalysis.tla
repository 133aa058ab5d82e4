------------------------- MODULE MCDocumentAnalysis -------------------------
(***************************************************************************)
(* Documents that are analysed with the help of models                     *)
(* (MCAttachmentAnalysis), and, as a second world, the gateway that asks   *)
(* those models (LlmGateway): three threads are one more than any limit,   *)
(* one gateway has servers of its own for every role, the other asks       *)
(* gemini for all but pictures.  The analysis takes whatever a model       *)
(* answers, so nothing of the one depends on the other.                    *)
(***************************************************************************)
EXTENDS MCAttachmentAnalysis, LlmGateway, TLC

CONSTANTS g1, g2

VARIABLE world

(* The theorem LegibleRowsAreRead is about documents such as these, and    *)
(* SegmentsAreNumbered says of every text what holds of these cells.       *)
ASSUME LegibleAssumption == \A d \in Documents : Legible(d)

Pieces == {<<"1">>, <<"2">>, <<"2", "EA">>, <<"Pump", "A-1">>, <<"Relay B", "A-1", "1", "EA">>}
CellTexts == UNION {{FlattenSeq(text) : text \in [1 .. n -> Pieces]} : n \in 0 .. 4}
ASSUME NumbersAssumption ==
  /\ \A t \in CellTexts : LET rows == Segmented(t)
                         IN  \A k \in DOMAIN rows : Value(rows[k]["No"][1]) = k
  /\ \E t \in CellTexts : Len(Segmented(t)) = 2

(* A limit of 0 counts as 1.                                               *)
MCConfig ==
  (g1 :> [provider |-> "ollama", text |-> "vllm", vision |-> "", embedding |-> "",
          limit |-> [text |-> 1, vision |-> 0, embedding |-> 2]])
  @@ (g2 :> [provider |-> "gemini", text |-> "", vision |-> "ollama", embedding |-> "gemini",
             limit |-> [text |-> 1, vision |-> 1, embedding |-> 1]])

MCInit ==
  /\ Init /\ GatewayInit
  /\ \/ world = "documents"
     \/ world = "gateway" /\ mode = "auto" /\ doc = CHOOSE d \in Documents : TRUE
MCNext ==
  \/ world = "documents" /\ Next /\ UNCHANGED <<gatewayVars, world>>
  \/ world = "gateway" /\ GatewayNext /\ UNCHANGED <<vars, world>>
MCSpec == MCInit /\ [][MCNext]_<<vars, gatewayVars, world>>
=============================================================================
