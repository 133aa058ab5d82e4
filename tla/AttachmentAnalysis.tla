-------------------------- MODULE AttachmentAnalysis --------------------------
(***************************************************************************)
(* One attachment, analysed by Mail Decision runs                          *)
(* (mail_decision_runtime_service._analyze_attachments) and by users who   *)
(* ask for it again (server._reanalyze_email_attachments_guarded): the     *)
(* parsers, OCR, the vision and the text model, and the transaction that   *)
(* replaces the current result (postgres_attachment_analysis_repository).  *)
(*                                                                         *)
(* A page has lines, the type its title names, header labels or none, and  *)
(* text a parser can read (layer) or only a picture of it.  Of a result    *)
(* we keep which pages were read instead of their text.  Models and OCR    *)
(* answer anything.                                                        *)
(***************************************************************************)
EXTENDS LineItems

CONSTANTS
  Documents,   \* records [kind, name, mime, pages]: what the attachment may be
  Modes,       \* PaddleOCR: off, auto, always
  Runs, Clicks,
  ModelItems,  \* sequences of items a model may return
  ModelTypes,  \* types it may return: of a form, document_scan, unknown or another
  MaxClicks,   \* bound: requests to analyse again
  MaxCrashes   \* bound: crashes of a run or a request

ASSUME BoundsAssumption == MaxClicks \in Nat /\ MaxCrashes \in Nat
ASSUME PicturesAssumption ==   \* a picture is one page
  \A d \in Documents : d.kind = "image" => DOMAIN d.pages = {1}
ASSUME SequencesAssumption ==
  /\ \A items \in ModelItems : items \in Seq(ToSet(items))
  /\ \A d \in Documents : /\ d.pages \in Seq(ToSet(d.pages))
                          /\ \A p \in DOMAIN d.pages : d.pages[p].items \in Seq(ToSet(d.pages[p].items))

Procs == Runs \cup Clicks
FormTypes == {"quote", "rfq", "payment_request"}
Canonical(type) == IF type \in FormTypes \cup {"document_scan"} THEN type ELSE "unknown"
None == "none"   \* no type, no result

VARIABLES
  doc, mode,   \* the file and the configuration: they do not change
  current,     \* rows of attachment_analysis_results with is_current: [id, result]
  lastId,
  processing,  \* email_attachments.processing_status
  pc,          \* where each run and request is
  work,        \* its result
  selected,    \* id of the row its save selected, 0 if none
  target,      \* id of the row its UPDATE found, 0 if none
  flagged,     \* runs whose mail waits for review as incompletely read
  clicks, crashes

vars == <<doc, mode, current, lastId, processing, pc, work, selected, target, flagged,
          clicks, crashes>>

-----------------------------------------------------------------------------
(* Reading.                                                                *)

Pages(d) == DOMAIN d.pages
Layer(d) == {p \in Pages(d) : d.pages[p].layer}
Visible(d) == {p \in Pages(d) : d.pages[p].lines # <<>>}
LinesOf(d, read) ==
  FlattenSeq([p \in Pages(d) |-> IF p \in read THEN d.pages[p].lines ELSE <<>>])
Titles(d, read) == {d.pages[p].title : p \in read}
Labelled(d, read) == \E p \in read : d.pages[p].labels

(* infer_attachment_document_category: the text first, rfq before quote.   *)
TextType(d, read) ==
  CASE "rfq" \in Titles(d, read) -> "rfq"
    [] "quote" \in Titles(d, read) \ {"rfq"} -> "quote"
    [] OTHER -> "unknown"
InferredType(d, read) ==
  IF TextType(d, read) # "unknown" THEN TextType(d, read)
  ELSE CASE d.kind = "image" -> "document_scan"
         [] d.kind = "pdf" -> d.name
         [] OTHER -> "unknown"
SureOf(d, read) == TextType(d, read) # "unknown"

(* What the texts hold for each type, evaluated once.                      *)
Texts == UNION {{LinesOf(d, read) : read \in SUBSET Pages(d)} : d \in Documents}
Extracted == [text \in Texts |-> [type \in FormTypes |-> ExtractLineItems(type, text)]]
Expected == [text \in Texts |-> [type \in FormTypes |-> ExpectedLineItems(type, text)]]
ExpectedFor(text, type) == IF type \in FormTypes THEN Expected[text][type] ELSE 0

NoFields == [items |-> <<>>, others |-> FALSE, size |-> FALSE]
Empty(fields) == fields.items = <<>> /\ ~fields.others /\ ~fields.size

(* filter_predefined_document_fields                                       *)
Filter(type, fields) ==
  CASE type \in {"quote", "rfq"} -> [fields EXCEPT !.size = FALSE]
    [] type = "payment_request" -> [fields EXCEPT !.size = FALSE, !.items = <<>>]
    [] OTHER -> fields

(* validated_predefined_document_fields: what the model left out is read   *)
(* from the text, and so are the items if there are too few.               *)
Validated(d, type, read, fields) ==
  LET kept == Filter(type, fields)
      lines == LinesOf(d, read)
      items == IF kept.items = <<>> THEN Extracted[lines][type] ELSE kept.items
  IN  IF read = {} \/ type \notin FormTypes THEN kept
      ELSE [items  |-> IF Columns(type) = {} THEN <<>>
                      ELSE RecoverLineItems(Expected[lines][type], Extracted[lines][type], items),
            others |-> kept.others \/ Labelled(d, read),
            size   |-> FALSE]

Result(d, status, type, sure, read, html, fields, missing) ==
  [status |-> status, type |-> type, sure |-> sure, read |-> read, html |-> html,
   fields |-> fields,
   missing |-> missing \/ LineItemsMissing(ExpectedFor(LinesOf(d, read), type), fields.items)]
Unread(status) ==
  [status |-> status, type |-> None, sure |-> FALSE, read |-> {}, html |-> FALSE,
   fields |-> NoFields, missing |-> FALSE]

(* AttachmentParserDispatcher._result                                      *)
ParsedResult(d, status, read, html) ==
  LET type == InferredType(d, read)
  IN  Result(d, status, type, SureOf(d, read), read, html, Validated(d, type, read, NoFields), FALSE)

(* parse_with_paddleocr: the pages it reads, none if it is off or fails.   *)
Ocr(d, m) == IF m = "off" THEN {{}} ELSE SUBSET Visible(d)

(* _pdf and _image                                                         *)
PdfResults(d, m) ==
  LET blank == Pages(d) \ Layer(d)
      Native == ParsedResult(d, IF Layer(d) # {} /\ blank = {} THEN "completed" ELSE "partial_success",
                             Layer(d), FALSE)
  IN  IF m = "always" \/ Layer(d) = {} \/ blank # {}
      THEN {IF read = {} THEN Native ELSE ParsedResult(d, "completed", read, TRUE) : read \in Ocr(d, m)}
      ELSE {Native}
ImageResults(d, m) ==
  {IF read # {} THEN ParsedResult(d, "completed", read, TRUE)
   ELSE [Unread("partial_success") EXCEPT !.type = InferredType(d, {}), !.fields.size = TRUE]
     : read \in Ocr(d, m)}

(* AttachmentParserDispatcher.analyze                                      *)
Parsed(d, m) ==
  CASE d.kind \in {"missing", "broken"} -> {Unread("failed")}
    [] d.kind = "pdf" -> PdfResults(d, m)
    [] d.kind = "image" -> ImageResults(d, m)
    [] d.kind = "text" -> {ParsedResult(d, "completed", Visible(d), FALSE)}
    [] OTHER -> {Unread("unsupported")}

-----------------------------------------------------------------------------
(* Models.                                                                 *)

ModelFields == [items : ModelItems, others : BOOLEAN, size : {FALSE}]

(* The type an answer ends with: a title in the text decides between a     *)
(* quotation and an inquiry.                                               *)
Conflict(d, read, type) == type \in {"quote", "rfq"} /\ SureOf(d, read) /\ type # TextType(d, read)
VisionType(d, read, type) ==
  IF Conflict(d, read, type) \/ type = "unknown" THEN InferredType(d, read) ELSE type

VisionResult(d, status, read, type, fields) ==
  LET final == VisionType(d, read, Canonical(type))
  IN  Result(d, status, final, SureOf(d, read) /\ Canonical(type) = "unknown", read, FALSE,
             Validated(d, final, read, Filter(Canonical(type), fields)), FALSE)

(* analyze_image                                                           *)
ImageAnswers(d, parsed) ==
  {VisionResult(d, IF read = {} THEN "partial_success" ELSE "completed", read, type, fields)
     : read \in SUBSET Visible(d), type \in ModelTypes, fields \in ModelFields}

(* Mutant: a pdf is completed when any page was read.                      *)
PdfAnswersAnyPage(d, parsed) ==
  {VisionResult(d, IF read = {} THEN "partial_success" ELSE "completed", read, type, fields)
     : read \in {parsed.read \cup seen : seen \in SUBSET (Visible(d) \ parsed.read)},
       type \in ModelTypes, fields \in ModelFields}
(* analyze_pdf_pages: a picture of each page without text, the type of the *)
(* first that has one, the fields of all.                                  *)
PdfAnswers(d, parsed) ==
  {VisionResult(d, IF read # Pages(d) THEN "partial_success" ELSE "completed", read, type, fields)
     : read \in {parsed.read \cup seen : seen \in SUBSET (Visible(d) \ parsed.read)},
       type \in ModelTypes, fields \in ModelFields}

(* _run_vision, for what the parser could not read; the gateway may fail.  *)
Vision(d, parsed) ==
  LET failed == [parsed EXCEPT !.status = "partial_success"]
  IN  CASE d.kind = "image" /\ ~parsed.html ->
             IF d.mime THEN {failed} \cup ImageAnswers(d, parsed) ELSE {parsed}
        [] d.kind = "pdf" /\ ~parsed.html /\ Layer(d) # Pages(d) ->
             {failed} \cup PdfAnswers(d, parsed)
        [] OTHER -> {parsed}

(* TextAttachmentAnalyzer.enrich, for text in HTML or without any field.   *)
EnrichedType(parsed, type) ==
  LET own == Canonical(parsed.type)
  IN  IF own # "unknown" /\ type \in {"unknown", "general_document"} THEN own
      ELSE IF parsed.sure /\ {own, type} = {"quote", "rfq"} THEN own ELSE type
Enriched(d, parsed) ==
  IF parsed.read = {} \/ ~(parsed.html \/ Empty(parsed.fields)) THEN {parsed}
  ELSE {[parsed EXCEPT !.status = "partial_success"]} \cup
       {LET final == EnrichedType(parsed, type)
        IN  Result(d, parsed.status, final, parsed.sure, parsed.read, parsed.html,
                   Validated(d, final, parsed.read,
                             IF fields.items = <<>> THEN [fields EXCEPT !.items = parsed.fields.items]
                             ELSE fields),
                   parsed.missing)
          : type \in ModelTypes, fields \in ModelFields}

RunResults(d, m) == UNION {Enriched(d, v) : v \in UNION {Vision(d, r) : r \in Parsed(d, m)}}
ClickResults(d, m) == UNION {Enriched(d, r) : r \in Parsed(d, m)}

-----------------------------------------------------------------------------
(* Saving.                                                                 *)

TypeKey(result) == IF result.type = None THEN "" ELSE result.type
HasBusinessFields(result) == ~Empty(Filter(TypeKey(result), result.fields))

(* Mutant: a result without fields replaces one of its type.               *)
PreserveNothing(new, old) == new
(* preserve_current_business_fields                                        *)
Preserve(new, old) ==
  IF HasBusinessFields(new) \/ ~\E row \in old : TypeKey(row.result) = TypeKey(new) THEN new
  ELSE [new EXCEPT !.fields = Filter(TypeKey(new), (CHOOSE row \in old : TRUE).result.fields)]

Holders == {q \in Procs : pc[q] = "insert"}
CurrentId == IF current = {} THEN 0 ELSE (CHOOSE row \in current : TRUE).id
Outside == UNCHANGED <<doc, mode, clicks, crashes>>

Init ==
  /\ doc \in Documents /\ mode \in Modes
  /\ current = {} /\ lastId = 0 /\ processing = "pending"
  /\ pc = [p \in Procs |-> "idle"]
  /\ work = [p \in Procs |-> None]
  /\ selected = [p \in Procs |-> 0]
  /\ target = [p \in Procs |-> 0]
  /\ flagged = {} /\ clicks = 0 /\ crashes = 0

(* _analyze_attachments up to the save.                                    *)
AnalyzeForRun(r) ==
  /\ r \in Runs /\ pc[r] = "idle"
  /\ \E result \in RunResults(doc, mode) : work' = [work EXCEPT ![r] = result]
  /\ pc' = [pc EXCEPT ![r] = "save"]
  /\ UNCHANGED <<current, lastId, processing, selected, target, flagged>>
  /\ Outside

(* _reanalyze_email_attachments_guarded: one at a time in the server.      *)
AnalyzeForClick(c) ==
  /\ c \in Clicks /\ clicks < MaxClicks
  /\ \A other \in Clicks : pc[other] = "idle"
  /\ \E result \in ClickResults(doc, mode) : work' = [work EXCEPT ![c] = result]
  /\ pc' = [pc EXCEPT ![c] = "save"]
  /\ clicks' = clicks + 1
  /\ UNCHANGED <<doc, mode, current, lastId, processing, selected, target, flagged, crashes>>

(* The SELECT of save, which locks nothing, and what it keeps of that row. *)
Select(p) ==
  /\ pc[p] = "save"
  /\ selected' = [selected EXCEPT ![p] = CurrentId]
  /\ work' = [work EXCEPT ![p] = Preserve(work[p], current)]
  /\ pc' = [pc EXCEPT ![p] = "supersede"]
  /\ UNCHANGED <<current, lastId, processing, target, flagged>>
  /\ Outside

(* Its UPDATE finds the row that is current now, and waits if another save *)
(* has updated that row and not committed.                                 *)
Supersede(p) ==
  /\ pc[p] = "supersede"
  /\ target' = [target EXCEPT ![p] = CurrentId]
  /\ pc' = [pc EXCEPT ![p] = IF CurrentId \in {target[q] : q \in Holders} \ {0} THEN "wait" ELSE "insert"]
  /\ UNCHANGED <<current, lastId, processing, work, selected, flagged>>
  /\ Outside

(* The other transaction has ended: a row it superseded is not updated     *)
(* again.                                                                  *)
Wake(p) ==
  /\ pc[p] = "wait"
  /\ ~\E q \in Holders : target[q] = target[p]
  /\ target' = [target EXCEPT ![p] = IF \E row \in current : row.id = target[p] THEN target[p] ELSE 0]
  /\ pc' = [pc EXCEPT ![p] = "insert"]
  /\ UNCHANGED <<current, lastId, processing, work, selected, flagged>>
  /\ Outside

(* Mutant: no unique index on the current row.                             *)
NotUnique(p) == {}
(* The unique index: a current row this save does not supersede.           *)
Unsuperseded(p) == {row \in current : row.id # target[p]}

(* The INSERT waits for a save that holds the current row, and fails if it *)
(* is not the one this save superseded; else the status is updated and the *)
(* transaction commits.                                                    *)
Insert(p) ==
  /\ pc[p] = "insert"
  /\ ~\E q \in Holders \ {p} : \E row \in Unsuperseded(p) : row.id = target[q]
  /\ IF Unsuperseded(p) # {}
     THEN /\ pc' = [pc EXCEPT ![p] = "idle"]
          /\ work' = [work EXCEPT ![p] = None]
          /\ UNCHANGED <<current, lastId, processing>>
     ELSE /\ current' = {row \in current : row.id # target[p]} \cup
                        {[id |-> lastId + 1, result |-> work[p]]}
          /\ lastId' = lastId + 1
          /\ processing' = work[p].status
          /\ pc' = [pc EXCEPT ![p] = IF p \in Runs THEN "saved" ELSE "idle"]
          /\ work' = IF p \in Runs THEN work ELSE [work EXCEPT ![p] = None]
  /\ selected' = [selected EXCEPT ![p] = 0]
  /\ target' = [target EXCEPT ![p] = 0]
  /\ UNCHANGED flagged
  /\ Outside

Blocking(result) ==
  \/ result.status \in {"failed", "unsupported"}
  \/ result.status = "partial_success" /\ result.read = {}

(* save_evidence and the end of _analyze_attachments.                      *)
FinishRun(r) ==
  /\ r \in Runs /\ pc[r] = "saved"
  /\ flagged' = IF Blocking(work[r]) THEN flagged \cup {r} ELSE flagged
  /\ pc' = [pc EXCEPT ![r] = "done"]
  /\ UNCHANGED <<current, lastId, processing, work, selected, target>>
  /\ Outside

(* The process or the database connection dies: the transaction is rolled  *)
(* back.  A run may be resumed at this node, a user may ask again.         *)
Crash(p) ==
  /\ pc[p] \in {"save", "supersede", "wait", "insert", "saved"} /\ crashes < MaxCrashes
  /\ pc' = [pc EXCEPT ![p] = "idle"]
  /\ work' = [work EXCEPT ![p] = None]
  /\ selected' = [selected EXCEPT ![p] = 0]
  /\ target' = [target EXCEPT ![p] = 0]
  /\ crashes' = crashes + 1
  /\ UNCHANGED <<doc, mode, current, lastId, processing, flagged, clicks>>

Next ==
  \E p \in Procs : \/ AnalyzeForRun(p) \/ AnalyzeForClick(p) \/ Select(p) \/ Supersede(p)
                   \/ Wake(p) \/ Insert(p) \/ FinishRun(p) \/ Crash(p)

Spec == Init /\ [][Next]_vars

-----------------------------------------------------------------------------
(* Properties.  The items of a page are those a person reads in its lines. *)

ItemsOf(d, read) ==
  FlattenSeq([p \in Pages(d) |-> IF p \in read THEN d.pages[p].items ELSE <<>>])
TrueItems(read) == ItemsOf(doc, read)

(* A quotation or an inquiry the readers can read: whichever of its pages  *)
(* have been read, they find in the text the items a person reads there,   *)
(* and a number of rows that is not below; text without a title, read as   *)
(* either, gives the items of some pages or none.  It does not hold where  *)
(* a table goes on below the foot of its page (LongQuotes).                *)
Legible(d) ==
  \A read \in SUBSET Pages(d), type \in {"quote", "rfq"} :
    LET lines == LinesOf(d, read)
        found == Extracted[lines][type]
    IN  /\ type \in Titles(d, Pages(d)) =>
             /\ found = ItemsOf(d, read)
             /\ Expected[lines][type] \in Nat /\ Len(found) <= Expected[lines][type]
        /\ {"quote", "rfq"} \cap Titles(d, Pages(d)) # {} /\ ~Conflict(d, read, type) =>
             \E some \in SUBSET Pages(d) : found = ItemsOf(d, some)

ReadAs(result) == result.type \in {"quote", "rfq"} /\ result.type \in Titles(doc, Pages(doc))

(* One current result, and the status the attachment shows is its status   *)
(* (the partial unique index and the transaction of save), whoever saved   *)
(* in between, waited or died.                                             *)
CurrentShown ==
  /\ Cardinality(current) <= 1
  /\ \A row \in current : processing = row.result.status

(* A run that is not flagged for review read something of a PDF or picture, *)
(* and a result stored as completed without OCR covers all its pages        *)
(* (parsers._pdf, vision_analyzer, the blocking list of the handler).       *)
UnreadFlagged ==
  /\ \A r \in Runs : pc[r] = "done" /\ r \notin flagged =>
       doc.kind \in {"pdf", "image", "text"} /\ (doc.kind # "text" => work[r].read # {})
  /\ \A row \in current :
       row.result.status = "completed" /\ ~row.result.html /\ doc.kind \in {"pdf", "image"}
         => row.result.read = Pages(doc)

(* A stored quotation or inquiry that was read as what it is has at least  *)
(* the items of the pages that were read, whatever the models left out;    *)
(* items no model made are those of some of the pages, word for word.      *)
RowsRead ==
  \A row \in current :
    LET items == row.result.fields.items
    IN  ReadAs(row.result) =>
          /\ Len(TrueItems(row.result.read)) <= Len(items)
          /\ items # <<>> /\ ToSet(items) \cap UNION {ToSet(m) : m \in ModelItems} = {} =>
               \E read \in SUBSET Pages(doc) : items = TrueItems(read)

(* "Prevent reanalysis from replacing useful extracted fields with         *)
(* type-only output": a save which superseded the row it had selected      *)
(* never replaces fields by none for a document of the same type.          *)
FieldsKept ==
  [][\A old \in current, new \in current' \ current, p \in Procs :
       /\ selected[p] = old.id /\ pc[p] = "insert" /\ pc'[p] # "insert"
       /\ TypeKey(new.result) = TypeKey(old.result)
       /\ HasBusinessFields(old.result)
       => HasBusinessFields(new.result)]_vars

(* docs/features/attachment-analysis.md: the largest No of the table is    *)
(* the number of its items, and a warning stays when fewer were found.     *)
EveryRowAccounted ==
  \A row \in current :
    ReadAs(row.result) =>
      Len(TrueItems(row.result.read)) <= Len(row.result.fields.items) \/ row.result.missing
=============================================================================
