----------------------- MODULE DocumentAnalysisProofs -----------------------
(***************************************************************************)
(* Proofs about the analysis of attachments (AttachmentAnalysis) and about *)
(* the gateway to the models it asks (LlmGateway).                         *)
(*                                                                         *)
(* Of the analysis: whatever OCR and the models answer, a result is honest *)
(* about what was read, and a save of an honest result keeps the rows      *)
(* honest; of documents the readers can read, a result holds the items of  *)
(* its pages.  Of the readers: what they return for any text, by induction *)
(* over its cells.  Of the gateway: a step changes one call; what it does  *)
(* to the permits is settled by whether the call was counted before and is *)
(* after.                                                                  *)
(***************************************************************************)
EXTENDS AttachmentAnalysis, LlmGateway, FiniteSetTheorems, WellFoundedInduction, TLAPS

-----------------------------------------------------------------------------
(* Results.  Fields hold items of any kind, so that a result is known by   *)
(* the names of its fields only.                                           *)

IsFields(f) == DOMAIN f = {"items", "others", "size"}
IsResult(r) ==
  /\ DOMAIN r = {"status", "type", "sure", "read", "html", "fields", "missing"}
  /\ IsFields(r.fields)

(* What a result never says of a document it does not hold.                *)
Readable == {"pdf", "image", "text"}
Honest(d, r) ==
  /\ IsResult(r)
  /\ r.read # {} => d.kind \in Readable
  /\ r.status = "completed" /\ ~r.html /\ d.kind \in {"pdf", "image"} => r.read = Pages(d)
  /\ ~Blocking(r) => d.kind \in Readable /\ (d.kind # "text" => r.read # {})

LEMMA NoFieldsIs == IsFields(NoFields)
  BY DEF IsFields, NoFields

LEMMA FilterIs ==
  ASSUME NEW type, NEW f, IsFields(f)
  PROVE  /\ IsFields(Filter(type, f))
         /\ Empty(Filter(type, Filter(type, f))) <=> Empty(Filter(type, f))
<1>. DEFINE g == [f EXCEPT !.size = FALSE]
            k == [f EXCEPT !.size = FALSE, !.items = <<>>]
<1>1. IsFields(g) /\ g.items = f.items /\ g.others = f.others /\ g.size = FALSE
  BY DEF IsFields
<1>2. IsFields(k) /\ k.items = <<>> /\ k.others = f.others /\ k.size = FALSE
  BY DEF IsFields
<1>3. CASE type \in {"quote", "rfq"}
  <2>1. Filter(type, f) = g /\ Filter(type, g) = [g EXCEPT !.size = FALSE]
    BY <1>3 DEF Filter
  <2>. HIDE DEF g
  <2>2. Empty([g EXCEPT !.size = FALSE]) <=> Empty(g)
    BY <1>1 DEF IsFields, Empty
  <2>. QED  BY <1>1, <2>1, <2>2
<1>4. CASE type = "payment_request"
  <2>1. Filter(type, f) = k /\ Filter(type, k) = [k EXCEPT !.size = FALSE, !.items = <<>>]
    BY <1>4 DEF Filter
  <2>. HIDE DEF k
  <2>2. Empty([k EXCEPT !.size = FALSE, !.items = <<>>]) <=> Empty(k)
    BY <1>2 DEF IsFields, Empty
  <2>. QED  BY <1>2, <2>1, <2>2
<1>5. CASE type \notin {"quote", "rfq", "payment_request"}
  BY <1>5 DEF Filter
<1>. QED  BY <1>3, <1>4, <1>5

LEMMA ValidatedIs ==
  ASSUME NEW d, NEW type, NEW read, NEW f, IsFields(f)
  PROVE  IsFields(Validated(d, type, read, f))
<1>1. IsFields(Filter(type, f))
  BY FilterIs
<1>2. ASSUME NEW items, NEW others
      PROVE  IsFields([items |-> items, others |-> others, size |-> FALSE])
  BY DEF IsFields
<1>. QED  BY <1>1, <1>2 DEF Validated

LEMMA ResultIs ==
  ASSUME NEW d, NEW status, NEW type, NEW sure, NEW read, NEW html, NEW fields, NEW missing,
         IsFields(fields),
         NEW r, r = Result(d, status, type, sure, read, html, fields, missing)
  PROVE  IsResult(r) /\ r.status = status /\ r.read = read /\ r.html = html /\ r.fields = fields
<1>1. PICK m :
        r = [status |-> status, type |-> type, sure |-> sure, read |-> read, html |-> html,
             fields |-> fields, missing |-> m]
  BY DEF Result
<1>. QED  BY <1>1 DEF IsResult

(* A result marked as read in part.                                        *)
LEMMA PartialIs ==
  ASSUME NEW r, IsResult(r)
  PROVE  LET s == [r EXCEPT !.status = "partial_success"]
         IN  /\ IsResult(s) /\ s.status = "partial_success"
             /\ s.read = r.read /\ s.html = r.html /\ s.fields = r.fields
  BY DEF IsResult

(* A result without text: the file cannot be read.                         *)
LEMMA UnreadIs ==
  ASSUME NEW d, NEW status \in {"failed", "unsupported"}
  PROVE  Honest(d, Unread(status))
<1>1. IsResult(Unread(status)) /\ Unread(status).status = status /\ Unread(status).read = {}
  BY NoFieldsIs DEF IsResult, Unread
<1>. QED  BY <1>1 DEF Honest, Blocking

LEMMA ParsedResultIs ==
  ASSUME NEW d, NEW status, NEW read, NEW html, NEW r, r = ParsedResult(d, status, read, html)
  PROVE  IsResult(r) /\ r.status = status /\ r.read = read /\ r.html = html
<1>. DEFINE type == InferredType(d, read)
            fields == Validated(d, type, read, NoFields)
            sure == SureOf(d, read)
            no == FALSE
<1>1. IsFields(fields)
  BY NoFieldsIs, ValidatedIs
<1>2. r = Result(d, status, type, sure, read, html, fields, no)
  BY DEF ParsedResult
<1>. HIDE DEF fields, type, sure, no
<1>. QED  BY <1>1, <1>2, ResultIs

Plain(d, status, read) == ParsedResult(d, status, read, FALSE)
WithOcr(d, read) == ParsedResult(d, "completed", read, TRUE)

LEMMA PlainIs ==
  ASSUME NEW d, NEW status, NEW read
  PROVE  /\ IsResult(Plain(d, status, read)) /\ Plain(d, status, read).status = status
         /\ Plain(d, status, read).read = read /\ ~Plain(d, status, read).html
<1>. DEFINE no == FALSE
<1>1. Plain(d, status, read) = ParsedResult(d, status, read, no) /\ ~no
  BY DEF Plain
<1>. HIDE DEF no
<1>2. PICK r : r = Plain(d, status, read)
  OBVIOUS
<1>3. IsResult(r) /\ r.status = status /\ r.read = read /\ r.html = no
  BY <1>1, <1>2, ParsedResultIs
<1>4. ~r.html
  BY <1>1, <1>3
<1>. QED  BY <1>2, <1>3, <1>4

LEMMA WithOcrIs ==
  ASSUME NEW d, NEW read
  PROVE  /\ IsResult(WithOcr(d, read)) /\ WithOcr(d, read).status = "completed"
         /\ WithOcr(d, read).read = read /\ WithOcr(d, read).html
<1>. DEFINE yes == TRUE
            done == "completed"
<1>1. WithOcr(d, read) = ParsedResult(d, done, read, yes)
  BY DEF WithOcr
<1>5. yes /\ done = "completed"
  OBVIOUS
<1>. HIDE DEF yes, done
<1>2. PICK r : r = WithOcr(d, read)
  OBVIOUS
<1>3. IsResult(r) /\ r.status = done /\ r.read = read /\ r.html = yes
  BY <1>1, <1>2, ParsedResultIs
<1>4. r.html
  BY <1>5, <1>3
<1>. QED  BY <1>5, <1>2, <1>3, <1>4

(* What the parsers, OCR and the vision model return is honest.            *)
LEMMA ParsedIsHonest ==
  ASSUME NEW d \in Documents, NEW m, NEW r \in Parsed(d, m)
  PROVE  Honest(d, r) /\ (d.kind = "image" /\ ~r.html => r.read = {})
<1>1. ASSUME NEW read, read # {}, d.kind \in Readable
      PROVE  Honest(d, WithOcr(d, read)) /\ WithOcr(d, read).html
  <2>1. PICK s : s = WithOcr(d, read)
    OBVIOUS
  <2>2. IsResult(s) /\ s.status = "completed" /\ s.read = read /\ s.html
    BY <2>1, WithOcrIs
  <2>3. Honest(d, s)
    BY <1>1, <2>2 DEF Honest, Blocking
  <2>. QED  BY <2>1, <2>2, <2>3
<1>2. CASE d.kind \in {"missing", "broken"}
  BY <1>2, UnreadIs DEF Parsed
<1>3. CASE d.kind = "pdf"
  <2>1. r \in PdfResults(d, m)
    BY <1>3 DEF Parsed
  <2>2. PICK status \in {"completed", "partial_success"} :
          /\ status = "completed" => Layer(d) = Pages(d) /\ Layer(d) # {}
          /\ \/ r = Plain(d, status, Layer(d))
             \/ \E read : read # {} /\ r = WithOcr(d, read)
    <3>. DEFINE status == IF Layer(d) # {} /\ Pages(d) \ Layer(d) = {}
                            THEN "completed" ELSE "partial_success"
    <3>1. status = "completed" => Layer(d) = Pages(d) /\ Layer(d) # {}
      BY DEF Layer
    <3>2. \/ r = Plain(d, status, Layer(d))
          \/ \E read : read # {} /\ r = WithOcr(d, read)
      BY <2>1 DEF PdfResults, Plain, WithOcr
    <3>3. status \in {"completed", "partial_success"}
      OBVIOUS
    <3>. HIDE DEF status
    <3>. QED  BY <3>1, <3>2, <3>3
  <2>3. ASSUME r = Plain(d, status, Layer(d))  PROVE Honest(d, r)
    <3>1. IsResult(r) /\ r.status = status /\ r.read = Layer(d) /\ ~r.html
      BY <2>3, PlainIs
    <3>. QED  BY <1>3, <2>2, <3>1 DEF Honest, Blocking, Readable
  <2>. QED  BY <1>1, <1>3, <2>2, <2>3 DEF Readable
<1>4. CASE d.kind = "image"
  <2>1. r \in ImageResults(d, m)
    BY <1>4 DEF Parsed
  <2>. DEFINE blind == [Unread("partial_success") EXCEPT !.type = InferredType(d, {}),
                                                         !.fields.size = TRUE]
  <2>2. r = blind \/ \E read : read # {} /\ r = WithOcr(d, read)
    BY <2>1 DEF ImageResults, WithOcr
  <2>3. IsResult(blind) /\ blind.status = "partial_success" /\ blind.read = {}
    BY DEF Unread, NoFields, IsResult, IsFields
  <2>. HIDE DEF blind
  <2>4. Honest(d, blind)
    BY <2>3 DEF Honest, Blocking
  <2>. QED  BY <1>1, <1>4, <2>2, <2>3, <2>4 DEF Readable
<1>5. CASE d.kind = "text"
  <2>1. r = Plain(d, "completed", Visible(d))
    BY <1>5 DEF Parsed, Plain
  <2>2. IsResult(r) /\ r.status = "completed" /\ r.read = Visible(d)
    BY <2>1, PlainIs
  <2>3. Honest(d, r)
    BY <1>5, <2>2 DEF Honest, Blocking, Readable
  <2>. QED  BY <1>5, <2>3
<1>6. CASE d.kind \notin {"missing", "broken", "pdf", "image", "text"}
  BY <1>6, UnreadIs DEF Parsed
<1>. QED  BY <1>2, <1>3, <1>4, <1>5, <1>6
(* A result with the text and at most the status of an honest one.         *)
LEMMA SameTextIsHonest ==
  ASSUME NEW d, NEW r, NEW s, Honest(d, r), IsResult(s), s.read = r.read, s.html = r.html,
         s.status = r.status \/ s.status = "partial_success"
  PROVE  Honest(d, s)
<1>1. ASSUME ~Blocking(s)  PROVE d.kind \in Readable /\ (d.kind # "text" => s.read # {})
  <2>1. CASE s.status = "partial_success"
    BY <1>1, <2>1 DEF Honest, Blocking
  <2>2. CASE s.status = r.status
    BY <1>1, <2>2 DEF Honest, Blocking
  <2>. QED  BY <2>1, <2>2
<1>. QED  BY <1>1 DEF Honest

LEMMA VisionResultIs ==
  ASSUME NEW d, NEW status, NEW read, NEW type, NEW f \in ModelFields
  PROVE  LET v == VisionResult(d, status, read, type, f)
         IN  IsResult(v) /\ v.status = status /\ v.read = read
<1>. DEFINE fields == Validated(d, VisionType(d, read, Canonical(type)), read,
                               Filter(Canonical(type), f))
<1>1. IsFields(fields)
  BY FilterIs, ValidatedIs DEF ModelFields, IsFields
<1>2. PICK final, sure, no, missing :
        VisionResult(d, status, read, type, f) =
          [status |-> status, type |-> final, sure |-> sure, read |-> read, html |-> no,
           fields |-> fields, missing |-> missing]
  BY DEF VisionResult, Result
<1>. HIDE DEF fields
<1>. QED  BY <1>1, <1>2 DEF IsResult

LEMMA VisionIsHonest ==
  ASSUME NEW d \in Documents, NEW r, Honest(d, r), d.kind = "image" /\ ~r.html => r.read = {},
         NEW v \in Vision(d, r)
  PROVE  Honest(d, v)
<1>. DEFINE failed == [r EXCEPT !.status = "partial_success"]
<1>1. Honest(d, failed)
  <2>1. /\ IsResult(failed) /\ failed.status = "partial_success"
        /\ failed.read = r.read /\ failed.html = r.html
    BY PartialIs DEF Honest
  <2>. HIDE DEF failed
  <2>. QED  BY <2>1, SameTextIsHonest
<1>2. ASSUME NEW status \in {"completed", "partial_success"}, NEW read, NEW type,
             NEW f \in ModelFields, d.kind \in {"image", "pdf"},
             status = "completed" => read = Pages(d) /\ read # {},
             v = VisionResult(d, status, read, type, f)
      PROVE  Honest(d, v)
  <2>1. IsResult(v) /\ v.status = status /\ v.read = read
    BY <1>2, VisionResultIs
  <2>. QED  BY <1>2, <2>1 DEF Honest, Blocking, Readable
<1>3. CASE v \in ImageAnswers(d, r) /\ d.kind = "image"
  <2>. DEFINE status(read) == IF read = {} THEN "partial_success" ELSE "completed"
  <2>1. PICK read \in SUBSET Visible(d), type \in ModelTypes, f \in ModelFields :
          v = VisionResult(d, status(read), read, type, f)
    BY <1>3 DEF ImageAnswers
  <2>2. Pages(d) = {1}
    BY <1>3, PicturesAssumption DEF Pages
  <2>3. read \subseteq Pages(d)
    BY DEF Visible
  <2>4. /\ status(read) \in {"completed", "partial_success"}
        /\ status(read) = "completed" => read = Pages(d) /\ read # {}
    BY <2>2, <2>3
  <2>. HIDE DEF status
  <2>. QED  BY <1>2, <1>3, <2>1, <2>4
<1>4. CASE v \in PdfAnswers(d, r) /\ d.kind = "pdf" /\ Layer(d) # Pages(d)
  <2>. DEFINE status(read) == IF read # Pages(d) THEN "partial_success" ELSE "completed"
  <2>1. PICK read \in {r.read \cup seen : seen \in SUBSET (Visible(d) \ r.read)},
             type \in ModelTypes, f \in ModelFields :
          v = VisionResult(d, status(read), read, type, f)
    BY <1>4 DEF PdfAnswers
  <2>2. /\ status(read) \in {"completed", "partial_success"}
        /\ status(read) = "completed" => read = Pages(d) /\ read # {}
    BY <1>4 DEF Layer
  <2>. HIDE DEF status
  <2>. QED  BY <1>2, <1>4, <2>1, <2>2
<1>5. \/ v = r \/ v = failed
      \/ v \in ImageAnswers(d, r) /\ d.kind = "image"
      \/ v \in PdfAnswers(d, r) /\ d.kind = "pdf" /\ Layer(d) # Pages(d)
  BY DEF Vision
<1>. QED  BY <1>1, <1>3, <1>4, <1>5

(* The text model changes neither what was read nor, unless it fails, the  *)
(* status.                                                                 *)
LEMMA EnrichedIsHonest ==
  ASSUME NEW d, NEW r, Honest(d, r), NEW e \in Enriched(d, r)
  PROVE  Honest(d, e)
<1>. DEFINE failed == [r EXCEPT !.status = "partial_success"]
            given(f) == IF f.items = <<>> THEN [f EXCEPT !.items = r.fields.items] ELSE f
            final(type) == EnrichedType(r, type)
            fields(type, f) == Validated(d, final(type), r.read, given(f))
<1>1. Honest(d, failed)
  BY PartialIs, SameTextIsHonest DEF Honest
<1>2. \/ e = r \/ e = failed
      \/ \E type \in ModelTypes, f \in ModelFields :
           e = Result(d, r.status, final(type), r.sure, r.read, r.html, fields(type, f), r.missing)
  BY DEF Enriched
<1>3. ASSUME NEW type \in ModelTypes, NEW f \in ModelFields,
             e = Result(d, r.status, final(type), r.sure, r.read, r.html, fields(type, f), r.missing)
      PROVE  Honest(d, e)
  <2>1. IsFields(f)
    BY DEF ModelFields, IsFields
  <2>2. IsFields([f EXCEPT !.items = r.fields.items])
    BY <2>1 DEF IsFields
  <2>3. IsFields(given(f))
    BY <2>1, <2>2
  <2>. HIDE DEF given
  <2>4. IsFields(fields(type, f))
    BY <2>3, ValidatedIs
  <2>. HIDE DEF fields, final
  <2>5. IsResult(e) /\ e.status = r.status /\ e.read = r.read /\ e.html = r.html
    BY <1>3, <2>4, ResultIs
  <2>. QED  BY <2>5, SameTextIsHonest
<1>. QED  BY <1>1, <1>2, <1>3

LEMMA AnalysisIsHonest ==
  ASSUME NEW d \in Documents, NEW m, NEW r \in RunResults(d, m) \cup ClickResults(d, m)
  PROVE  Honest(d, r)
<1>1. CASE r \in RunResults(d, m)
  <2>1. PICK q \in Parsed(d, m) : \E v \in Vision(d, q) : r \in Enriched(d, v)
    BY <1>1 DEF RunResults
  <2>2. PICK v \in Vision(d, q) : r \in Enriched(d, v)
    BY <2>1
  <2>. QED  BY <2>2, ParsedIsHonest, VisionIsHonest, EnrichedIsHonest
<1>2. CASE r \in ClickResults(d, m)
  <2>1. PICK q \in Parsed(d, m) : r \in Enriched(d, q)
    BY <1>2 DEF ClickResults
  <2>. QED  BY <2>1, ParsedIsHonest, EnrichedIsHonest
<1>. QED  BY <1>1, <1>2

(* A save keeps the fields of the row it selected.                         *)
LEMMA PreserveIs ==
  ASSUME NEW d, NEW new, Honest(d, new),
         NEW old, \A r1, r2 \in old : r1 = r2, \A row \in old : IsResult(row.result)
  PROVE  /\ Honest(d, Preserve(new, old))
         /\ \A row \in old :
              /\ TypeKey(row.result) = TypeKey(Preserve(new, old))
              /\ HasBusinessFields(row.result)
              => HasBusinessFields(Preserve(new, old))
<1>1. CASE HasBusinessFields(new) \/ ~\E row \in old : TypeKey(row.result) = TypeKey(new)
  BY <1>1 DEF Preserve
<1>2. CASE ~(HasBusinessFields(new) \/ ~\E row \in old : TypeKey(row.result) = TypeKey(new))
  <2>1. PICK row \in old : TypeKey(row.result) = TypeKey(new)
    BY <1>2
  <2>2. (CHOOSE r \in old : TRUE) = row
    BY <2>1
  <2>. DEFINE fields == Filter(TypeKey(new), row.result.fields)
              kept == [new EXCEPT !.fields = fields]
  <2>3. Preserve(new, old) = kept
    BY <1>2, <2>2 DEF Preserve
  <2>4. IsFields(fields) /\ (Empty(Filter(TypeKey(new), fields)) <=> Empty(fields))
    BY FilterIs DEF IsResult
  <2>. HIDE DEF fields
  <2>5. /\ IsResult(kept) /\ kept.status = new.status /\ kept.read = new.read
        /\ kept.html = new.html /\ kept.type = new.type /\ kept.fields = fields
    BY <2>4 DEF Honest, IsResult
  <2>. HIDE DEF kept
  <2>6. Honest(d, kept)
    BY <2>5, SameTextIsHonest
  <2>7. TypeKey(kept) = TypeKey(new)
    BY <2>5 DEF TypeKey
  <2>8. HasBusinessFields(row.result) => HasBusinessFields(kept)
    BY <2>1, <2>4, <2>5, <2>7 DEF HasBusinessFields, fields
  <2>. QED  BY <2>1, <2>3, <2>6, <2>8
<1>. QED  BY <1>1, <1>2
-----------------------------------------------------------------------------
(* The inductive invariant.  A save that has selected the current row keeps *)
(* its fields; a row that is not the selected one has a later id.          *)

PcStates == {"idle", "save", "supersede", "wait", "insert", "saved", "done"}
AnalysisTypes ==
  /\ doc \in Documents /\ lastId \in Nat
  /\ pc \in [Procs -> PcStates]
  /\ work = [p \in Procs |-> work[p]]
  /\ selected \in [Procs -> Nat] /\ target \in [Procs -> Nat]

CurrentRows ==
  /\ \A row1, row2 \in current : row1 = row2
  /\ \A row \in current : /\ row.id \in Nat /\ 0 < row.id /\ row.id <= lastId
                         /\ Honest(doc, row.result)
                         /\ processing = row.result.status

Keeps(result, old) ==
  TypeKey(old) = TypeKey(result) /\ HasBusinessFields(old) => HasBusinessFields(result)

(* Where a process is, the result it holds, the row it selected, and       *)
(* whether its mail waits for review.                                      *)
Sound(p, at, result, row, flags) ==
  /\ row <= lastId
  /\ at # "idle" => Honest(doc, result)
  /\ at \in {"supersede", "wait", "insert"} =>
       \A old \in current : old.id = row => Keeps(result, old.result)
  /\ p \in Runs /\ at = "done" /\ p \notin flags => ~Blocking(result)

AnalysisInv ==
  /\ AnalysisTypes
  /\ CurrentRows
  /\ \A p \in Procs : Sound(p, pc[p], work[p], selected[p], flagged)
LEMMA CurrentIdIs ==
  ASSUME AnalysisInv
  PROVE  /\ CurrentId \in Nat /\ CurrentId <= lastId
         /\ \A row \in current : CurrentId = row.id
<1>1. CASE current = {}
  BY <1>1 DEF AnalysisInv, AnalysisTypes, CurrentId
<1>2. ASSUME NEW row \in current  PROVE CurrentId = row.id /\ row.id \in Nat /\ row.id <= lastId
  <2>1. (CHOOSE r \in current : TRUE) = row
    BY DEF AnalysisInv, CurrentRows
  <2>. QED  BY <2>1 DEF AnalysisInv, CurrentRows, CurrentId
<1>. QED  BY <1>1, <1>2

(* A step of one process that leaves the rows alone.                       *)
LEMMA OwnStepKeeps ==
  ASSUME AnalysisInv, NEW p \in Procs,
         doc' = doc, current' = current, lastId' = lastId, processing' = processing,
         NEW at \in PcStates, pc' = [pc EXCEPT ![p] = at],
         NEW result, work' = [work EXCEPT ![p] = result],
         NEW row \in Nat, selected' = [selected EXCEPT ![p] = row],
         NEW found \in Nat, target' = [target EXCEPT ![p] = found],
         \A q \in Procs \ {p} : q \in flagged => q \in flagged',
         NEW flags, flagged' = flags, Sound(p, at, result, row, flags)
  PROVE  AnalysisInv'
<1>1. AnalysisTypes'
  BY DEF AnalysisInv, AnalysisTypes
<1>2. CurrentRows'
  BY DEF AnalysisInv, CurrentRows
<1>3. /\ pc'[p] = at /\ work'[p] = result /\ selected'[p] = row
      /\ \A q \in Procs \ {p} :
           pc'[q] = pc[q] /\ work'[q] = work[q] /\ selected'[q] = selected[q]
  BY DEF AnalysisInv, AnalysisTypes
<1>4. ASSUME NEW q \in Procs  PROVE Sound(q, pc[q], work[q], selected[q], flagged)'
  <2>1. CASE q = p
    BY <1>3, <2>1 DEF Sound
  <2>2. CASE q # p
    BY <1>3, <2>2 DEF AnalysisInv, Sound
  <2>. QED  BY <2>1, <2>2
<1>. QED  BY <1>1, <1>2, <1>4 DEF AnalysisInv
LEMMA AnalyzeKeeps ==
  ASSUME AnalysisInv, NEW p \in Procs, AnalyzeForRun(p) \/ AnalyzeForClick(p)
  PROVE  AnalysisInv'
<1>1. PICK result \in RunResults(doc, mode) \cup ClickResults(doc, mode) :
        work' = [work EXCEPT ![p] = result]
  BY DEF AnalyzeForRun, AnalyzeForClick
<1>2. Honest(doc, result)
  BY AnalysisIsHonest DEF AnalysisInv, AnalysisTypes
<1>3. pc' = [pc EXCEPT ![p] = "save"]
  BY DEF AnalyzeForRun, AnalyzeForClick
<1>4. selected[p] \in Nat /\ target[p] \in Nat /\ selected[p] <= lastId
  BY DEF AnalysisInv, AnalysisTypes, Sound
<1>5. selected' = [selected EXCEPT ![p] = selected[p]] /\ target' = [target EXCEPT ![p] = target[p]]
  BY DEF AnalysisInv, AnalysisTypes, AnalyzeForRun, AnalyzeForClick
<1>6. UNCHANGED <<doc, current, lastId, processing, flagged>>
  BY DEF AnalyzeForRun, AnalyzeForClick, Outside
<1>7. Sound(p, "save", result, selected[p], flagged)
  BY <1>2, <1>4 DEF Sound
<1>. QED  BY <1>1, <1>3, <1>4, <1>5, <1>6, <1>7, OwnStepKeeps DEF PcStates

LEMMA SelectKeeps ==
  ASSUME AnalysisInv, NEW p \in Procs, Select(p)
  PROVE  AnalysisInv'
<1>. DEFINE result == Preserve(work[p], current)
<1>1. Honest(doc, work[p]) /\ \A old \in current : IsResult(old.result)
  BY DEF AnalysisInv, Sound, Select, CurrentRows, Honest
<1>2. Honest(doc, result) /\ \A old \in current : Keeps(result, old.result)
  BY <1>1, PreserveIs DEF AnalysisInv, CurrentRows, Keeps
<1>3. target[p] \in Nat /\ target' = [target EXCEPT ![p] = target[p]]
  BY DEF AnalysisInv, AnalysisTypes, Select
<1>4. /\ UNCHANGED <<doc, current, lastId, processing, flagged>>
      /\ pc' = [pc EXCEPT ![p] = "supersede"] /\ work' = [work EXCEPT ![p] = result]
      /\ selected' = [selected EXCEPT ![p] = CurrentId]
  BY DEF Select, Outside
<1>. HIDE DEF result
<1>5. Sound(p, "supersede", result, CurrentId, flagged)
  BY <1>2, CurrentIdIs DEF Sound
<1>. QED  BY <1>3, <1>4, <1>5, CurrentIdIs, OwnStepKeeps DEF PcStates

(* A save that finds its row, waits or goes on.                            *)
LEMMA SaveMoves ==
  ASSUME AnalysisInv, NEW p \in Procs, pc[p] \in {"supersede", "wait"},
         UNCHANGED <<doc, current, lastId, processing, flagged, work, selected>>,
         NEW at \in {"wait", "insert"}, pc' = [pc EXCEPT ![p] = at],
         NEW found \in Nat, target' = [target EXCEPT ![p] = found]
  PROVE  AnalysisInv'
<1>1. /\ selected[p] \in Nat /\ selected' = [selected EXCEPT ![p] = selected[p]]
      /\ work' = [work EXCEPT ![p] = work[p]]
  BY DEF AnalysisInv, AnalysisTypes
<1>2. Sound(p, at, work[p], selected[p], flagged)
  BY DEF AnalysisInv, Sound
<1>3. at \in PcStates /\ \A q \in Procs \ {p} : q \in flagged => q \in flagged'
  BY DEF PcStates
<1>4. PICK result, row :
        /\ row \in Nat
        /\ work' = [work EXCEPT ![p] = result] /\ selected' = [selected EXCEPT ![p] = row]
        /\ Sound(p, at, result, row, flagged)
  BY <1>1, <1>2
<1>. QED  BY <1>3, <1>4, OwnStepKeeps

LEMMA SupersedeKeeps ==
  ASSUME AnalysisInv, NEW p \in Procs, Supersede(p) \/ Wake(p)
  PROVE  AnalysisInv'
<1>1. CASE Supersede(p)
  <2>. DEFINE at == IF CurrentId \in {target[q] : q \in Holders} \ {0} THEN "wait" ELSE "insert"
  <2>1. /\ UNCHANGED <<doc, current, lastId, processing, flagged, work, selected>>
        /\ pc[p] = "supersede" /\ pc' = [pc EXCEPT ![p] = at]
        /\ target' = [target EXCEPT ![p] = CurrentId]
    BY <1>1 DEF Supersede, Outside
  <2>2. at \in {"wait", "insert"}
    OBVIOUS
  <2>. HIDE DEF at
  <2>. QED  BY <2>1, <2>2, CurrentIdIs, SaveMoves
<1>2. CASE Wake(p)
  <2>. DEFINE found == IF \E row \in current : row.id = target[p] THEN target[p] ELSE 0
  <2>1. /\ UNCHANGED <<doc, current, lastId, processing, flagged, work, selected>>
        /\ pc[p] = "wait" /\ pc' = [pc EXCEPT ![p] = "insert"]
        /\ target' = [target EXCEPT ![p] = found]
    BY <1>2 DEF Wake, Outside
  <2>2. found \in Nat
    BY DEF AnalysisInv, AnalysisTypes
  <2>. HIDE DEF found
  <2>. QED  BY <2>1, <2>2, SaveMoves
<1>. QED  BY <1>1, <1>2

(* A new row is the only one, and no save has selected it.                 *)
LEMMA InsertKeeps ==
  ASSUME AnalysisInv, NEW p \in Procs, Insert(p)
  PROVE  AnalysisInv'
<1>0. /\ pc[p] = "insert" /\ doc' = doc /\ flagged' = flagged
      /\ selected' = [selected EXCEPT ![p] = 0] /\ target' = [target EXCEPT ![p] = 0]
  BY DEF Insert, Outside
<1>1. CASE Unsuperseded(p) # {}
  <2>1. /\ pc' = [pc EXCEPT ![p] = "idle"] /\ work' = [work EXCEPT ![p] = None]
        /\ UNCHANGED <<current, lastId, processing>>
    BY <1>1 DEF Insert
  <2>2. Sound(p, "idle", None, 0, flagged)
    BY DEF Sound, AnalysisInv, AnalysisTypes
  <2>. QED  BY <1>0, <2>1, <2>2, OwnStepKeeps DEF PcStates
<1>2. CASE Unsuperseded(p) = {}
  <2>. DEFINE new == [id |-> lastId + 1, result |-> work[p]]
  <2>1. /\ current' = {row \in current : row.id # target[p]} \cup {new}
        /\ lastId' = lastId + 1 /\ processing' = work[p].status
    BY <1>2 DEF Insert
  <2>2. current' = {new}
    BY <1>2, <2>1 DEF Unsuperseded
  <2>3. PICK at, result :
          /\ at \in {"saved", "idle"}
          /\ pc' = [pc EXCEPT ![p] = at] /\ work' = [work EXCEPT ![p] = result]
          /\ at = "saved" => result = work[p]
    BY <1>2 DEF Insert, AnalysisInv, AnalysisTypes
  <2>4. Honest(doc, work[p])
    BY <1>0 DEF AnalysisInv, Sound
  <2>5. AnalysisTypes'
    BY <1>0, <2>1, <2>3 DEF AnalysisInv, AnalysisTypes, PcStates
  <2>6. new.id = lastId + 1 /\ new.result = work[p]
    OBVIOUS
  <2>. HIDE DEF new
  <2>7. CurrentRows'
    BY <1>0, <2>1, <2>2, <2>4, <2>6 DEF AnalysisInv, AnalysisTypes, CurrentRows
  <2>8. ASSUME NEW q \in Procs  PROVE Sound(q, pc[q], work[q], selected[q], flagged)'
    <3>1. CASE q = p
      <4>1. pc'[p] = at /\ work'[p] = result /\ selected'[p] = 0
        BY <1>0, <2>3 DEF AnalysisInv, AnalysisTypes
      <4>. QED  BY <1>0, <2>1, <2>3, <2>4, <3>1, <4>1 DEF AnalysisInv, AnalysisTypes, Sound
    <3>2. CASE q # p
      <4>1. pc'[q] = pc[q] /\ work'[q] = work[q] /\ selected'[q] = selected[q]
        BY <1>0, <2>3, <3>2 DEF AnalysisInv, AnalysisTypes
      <4>2. selected[q] \in Nat /\ selected[q] < new.id
        BY <2>6 DEF AnalysisInv, AnalysisTypes, Sound
      <4>. QED  BY <1>0, <2>1, <2>2, <4>1, <4>2 DEF AnalysisInv, AnalysisTypes, Sound
    <3>. QED  BY <3>1, <3>2
  <2>. QED  BY <2>5, <2>7, <2>8 DEF AnalysisInv
<1>. QED  BY <1>1, <1>2

LEMMA FinishKeeps ==
  ASSUME AnalysisInv, NEW p \in Procs, FinishRun(p)
  PROVE  AnalysisInv'
<1>1. /\ UNCHANGED <<doc, current, lastId, processing, work, selected, target>>
      /\ pc[p] = "saved" /\ pc' = [pc EXCEPT ![p] = "done"]
      /\ flagged' = IF Blocking(work[p]) THEN flagged \cup {p} ELSE flagged
  BY DEF FinishRun, Outside
<1>2. /\ selected[p] \in Nat /\ target[p] \in Nat
      /\ selected' = [selected EXCEPT ![p] = selected[p]]
      /\ target' = [target EXCEPT ![p] = target[p]] /\ work' = [work EXCEPT ![p] = work[p]]
  BY <1>1 DEF AnalysisInv, AnalysisTypes
<1>3. \A q \in Procs \ {p} : q \in flagged => q \in flagged'
  BY <1>1
<1>4. PICK flags : flagged' = flags
  OBVIOUS
<1>5. Sound(p, "done", work[p], selected[p], flags)
  BY <1>1, <1>4 DEF AnalysisInv, Sound
<1>. QED  BY <1>1, <1>2, <1>3, <1>4, <1>5, OwnStepKeeps DEF PcStates

LEMMA CrashKeeps ==
  ASSUME AnalysisInv, NEW p \in Procs, Crash(p)
  PROVE  AnalysisInv'
<1>1. Sound(p, "idle", None, 0, flagged)
  BY DEF Sound, AnalysisInv, AnalysisTypes
<1>. QED  BY <1>1, OwnStepKeeps DEF Crash, PcStates

-----------------------------------------------------------------------------
LEMMA AnalysisInvInitially == Init => AnalysisInv
  BY DEF Init, AnalysisInv, AnalysisTypes, CurrentRows, Sound, PcStates

LEMMA AnalysisInvKept == AnalysisInv /\ [Next]_vars => AnalysisInv'
<1>. SUFFICES ASSUME AnalysisInv, [Next]_vars  PROVE AnalysisInv'
  OBVIOUS
<1>1. ASSUME NEW p \in Procs,
             \/ AnalyzeForRun(p) \/ AnalyzeForClick(p) \/ Select(p) \/ Supersede(p)
             \/ Wake(p) \/ Insert(p) \/ FinishRun(p) \/ Crash(p)
      PROVE  AnalysisInv'
  BY <1>1, AnalyzeKeeps, SelectKeeps, SupersedeKeeps, InsertKeeps, FinishKeeps, CrashKeeps
<1>2. CASE UNCHANGED vars
  BY <1>2 DEF vars, AnalysisInv, AnalysisTypes, CurrentRows, Sound
<1>. QED  BY <1>1, <1>2 DEF Next

THEOREM AnalysisInvariant == Spec => []AnalysisInv
  BY AnalysisInvInitially, AnalysisInvKept, PTL DEF Spec

LEMMA InvShowsCurrent == AnalysisInv => CurrentShown
<1>. SUFFICES ASSUME AnalysisInv  PROVE CurrentShown
  OBVIOUS
<1>1. CASE current = {}
  BY <1>1, FS_EmptySet DEF CurrentShown
<1>2. ASSUME NEW row \in current  PROVE Cardinality(current) <= 1
  <2>1. current = {row}
    BY DEF AnalysisInv, CurrentRows
  <2>2. Cardinality({row}) = 1
    BY FS_Singleton
  <2>. QED  BY <2>1, <2>2
<1>3. \A row \in current : processing = row.result.status
  BY DEF AnalysisInv, CurrentRows
<1>. QED  BY <1>1, <1>2, <1>3 DEF CurrentShown

(* One current result at most, and its status is the one shown.            *)
THEOREM OneResultShown == Spec => []CurrentShown
  BY AnalysisInvariant, InvShowsCurrent, PTL

LEMMA InvFlagsUnread == AnalysisInv => UnreadFlagged
<1>. SUFFICES ASSUME AnalysisInv  PROVE UnreadFlagged
  OBVIOUS
<1>1. ASSUME NEW r \in Runs, pc[r] = "done", r \notin flagged
      PROVE  doc.kind \in {"pdf", "image", "text"} /\ (doc.kind # "text" => work[r].read # {})
  <2>1. r \in Procs
    BY DEF Procs
  <2>2. Honest(doc, work[r]) /\ ~Blocking(work[r])
    BY <1>1, <2>1 DEF AnalysisInv, Sound
  <2>. QED  BY <2>2 DEF Honest, Readable
<1>2. ASSUME NEW row \in current, row.result.status = "completed", ~row.result.html,
             doc.kind \in {"pdf", "image"}
      PROVE  row.result.read = Pages(doc)
  BY <1>2 DEF AnalysisInv, CurrentRows, Honest
<1>. QED  BY <1>1, <1>2 DEF UnreadFlagged

(* Nothing that could not be read passes for read.                         *)
THEOREM UnreadIsFlagged == Spec => []UnreadFlagged
  BY AnalysisInvariant, InvFlagsUnread, PTL

LEMMA StepKeepsFields ==
  ASSUME AnalysisInv, [Next]_vars
  PROVE  \A old \in current, new \in current' \ current, p \in Procs :
           /\ selected[p] = old.id /\ pc[p] = "insert" /\ pc'[p] # "insert"
           /\ TypeKey(new.result) = TypeKey(old.result)
           /\ HasBusinessFields(old.result)
           => HasBusinessFields(new.result)
<1>. SUFFICES ASSUME NEW old \in current, NEW new \in current' \ current, NEW p \in Procs,
                     selected[p] = old.id, pc[p] = "insert", pc'[p] # "insert",
                     TypeKey(new.result) = TypeKey(old.result), HasBusinessFields(old.result)
              PROVE  HasBusinessFields(new.result)
  OBVIOUS
<1>1. PICK q \in Procs : Insert(q) /\ current' # current
  BY DEF Next, vars, AnalyzeForRun, AnalyzeForClick, Select, Supersede, Wake, FinishRun, Crash, Outside
<1>2. new = [id |-> lastId + 1, result |-> work[q]] /\ pc' = [pc EXCEPT ![q] = pc'[q]]
  BY <1>1 DEF Insert, AnalysisInv, AnalysisTypes
<1>3. q = p
  BY <1>2 DEF AnalysisInv, AnalysisTypes
<1>4. new.result = work[p]
  BY <1>2, <1>3
<1>5. Keeps(work[p], old.result)
  BY DEF AnalysisInv, Sound
<1>. QED  BY <1>4, <1>5 DEF Keeps

(* A save never replaces the fields of the row it selected by none.        *)
THEOREM FieldsAreKept == Spec => FieldsKept
<1>1. AnalysisInv /\ [Next]_vars =>
        [\A old \in current, new \in current' \ current, p \in Procs :
           /\ selected[p] = old.id /\ pc[p] = "insert" /\ pc'[p] # "insert"
           /\ TypeKey(new.result) = TypeKey(old.result)
           /\ HasBusinessFields(old.result)
           => HasBusinessFields(new.result)]_vars
  BY StepKeepsFields
<1>. QED  BY <1>1, AnalysisInvariant, PTL DEF Spec, FieldsKept

-----------------------------------------------------------------------------
(* Induction over numbers.  The least number that is not in a set is there *)
(* because < is well-founded (WFMin), which needs no operator for its      *)
(* hypothesis; what a recursive function returns follows step by step.     *)

LEMMA LeastNumber ==
  ASSUME NEW T, T \subseteq Nat, T # {}
  PROVE  \E n \in T : \A k \in T : n <= k
<1>. DEFINE R == OpToRel(<, Nat)
<1>1. IsWellFoundedOn(R, Nat)
  BY NatLessThanWellFounded, Zenon
<1>2. \A m, n \in Nat : m < n => <<m, n>> \in R
  BY SMT DEF OpToRel
<1>. HIDE DEF R
<1>3. PICK n \in T : \A k \in T : ~(<<k, n>> \in R)
  BY <1>1, WFMin, Zenon
<1>4. \A k \in T : ~(k < n)
  BY <1>2, <1>3, Zenon
<1>. QED  BY <1>4

LEMMA NumbersInOrder ==
  ASSUME NEW S, 0 \in S, \A n \in Nat : n \in S => n + 1 \in S
  PROVE  Nat \subseteq S
<1>. SUFFICES ASSUME Nat \ S # {}  PROVE FALSE
  OBVIOUS
<1>1. PICK n \in Nat \ S : \A k \in Nat \ S : n <= k
  BY LeastNumber
<1>2. n # 0 /\ n - 1 \in Nat /\ n - 1 \in S
  BY <1>1
<1>. QED  BY <1>1, <1>2

(* What FlattenSeq builds: the first sequences of s one after the other.   *)
Joins(g, s, n) == g = [i \in 1 .. n |-> IF i = 1 THEN s[i] ELSE g[i - 1] \o s[i]]

LEMMA JoinsAt ==
  ASSUME NEW g, NEW s, NEW n, Joins(g, s, n), NEW i \in 1 .. n
  PROVE  g[i] = IF i = 1 THEN s[i] ELSE g[i - 1] \o s[i]
<1>. DEFINE e(k) == IF k = 1 THEN s[k] ELSE g[k - 1] \o s[k]
<1>1. g = [k \in 1 .. n |-> e(k)]
  BY Zenon DEF Joins
<1>. HIDE DEF e
<1>2. g[i] = e(i)
  BY <1>1
<1>. QED  BY <1>2 DEF e

LEMMA JoinsExist ==
  ASSUME NEW s, NEW n \in Nat
  PROVE  \E g : Joins(g, s, n)
<1>. DEFINE S == {k \in Nat : \E g : Joins(g, s, k)}
<1>1. 0 \in S
  <2>1. \A g : [i \in 1 .. 0 |-> g] = [i \in 1 .. 0 |-> IF i = 1 THEN s[i] ELSE [j \in 1 .. 0 |-> g][i - 1] \o s[i]]
    OBVIOUS
  <2>. QED BY <2>1 DEF Joins
<1>2. ASSUME NEW k \in Nat, k \in S  PROVE k + 1 \in S
  <2>1. PICK g : Joins(g, s, k)
    BY <1>2
  <2>. DEFINE last == IF k = 0 THEN s[1] ELSE g[k] \o s[k + 1]
              h == [i \in 1 .. k + 1 |-> IF i <= k THEN g[i] ELSE last]
  <2>2. ASSUME NEW i \in 1 .. k + 1
        PROVE  h[i] = IF i = 1 THEN s[i] ELSE h[i - 1] \o s[i]
    <3>1. CASE i <= k
      <4>1. i \in 1 .. k /\ h[i] = g[i] /\ g[i] = IF i = 1 THEN s[i] ELSE g[i - 1] \o s[i]
        BY <2>1, <3>1, JoinsAt
      <4>2. i # 1 => h[i - 1] = g[i - 1]
        BY <3>1
      <4>. QED  BY <4>1, <4>2
    <3>2. CASE i = k + 1
      <4>1. h[i] = last /\ (i = 1 <=> k = 0)
        BY <3>2
      <4>2. i # 1 => h[i - 1] = g[k]
        BY <3>2
      <4>. HIDE DEF h
      <4>. QED  BY <3>2, <4>1, <4>2
    <3>. QED  BY <3>1, <3>2
  <2>3. DOMAIN h = 1 .. k + 1 /\ h = [i \in 1 .. k + 1 |-> h[i]]
    OBVIOUS
  <2>. HIDE DEF h
  <2>4. Joins(h, s, k + 1)
    BY <2>2, <2>3, Zenon DEF Joins
  <2>. QED  BY <2>4
<1>3. Nat \subseteq S
  <2>. HIDE DEF S
  <2>. QED  BY <1>1, <1>2, NumbersInOrder
<1>. QED  BY <1>3

LEMMA JoinsAreSequences ==
  ASSUME NEW A, NEW s \in Seq(Seq(A)), NEW g, Joins(g, s, Len(s)), NEW i \in 1 .. Len(s)
  PROVE  g[i] \in Seq(A)
<1>. DEFINE S == {k \in Nat : k \in 1 .. Len(s) => g[k] \in Seq(A)}
<1>0. ASSUME NEW k \in 1 .. Len(s)
      PROVE  s[k] \in Seq(A) /\ g[k] = IF k = 1 THEN s[k] ELSE g[k - 1] \o s[k]
  BY JoinsAt
<1>1. 0 \in S
  OBVIOUS
<1>2. ASSUME NEW k \in Nat, k \in S  PROVE k + 1 \in S
  <2>1. CASE k + 1 \in 1 .. Len(s) /\ k # 0
    <3>1. k \in 1 .. Len(s) /\ g[k] \in Seq(A)
      BY <1>2, <2>1
    <3>3. s[k + 1] \in Seq(A) /\ g[k + 1] = IF k + 1 = 1 THEN s[k + 1] ELSE g[(k + 1) - 1] \o s[k + 1]
      BY <1>0, <2>1
    <3>4. (k + 1) - 1 = k /\ k + 1 # 1
      BY <2>1
    <3>5. s[k + 1] \in Seq(A) /\ g[k + 1] = g[k] \o s[k + 1]
      BY <3>3, <3>4
    <3>2. g[k] \o s[k + 1] \in Seq(A)
      BY <3>1, <3>5
    <3>6. g[k + 1] \in Seq(A)
      BY <3>5, <3>2, Zenon
    <3>. QED  BY <3>6
  <2>2. CASE k = 0
    BY <1>0, <2>2
  <2>. QED  BY <2>1, <2>2
<1>3. Nat \subseteq S
  <2>. HIDE DEF S
  <2>. QED  BY <1>1, <1>2, NumbersInOrder
<1>. QED  BY <1>3

(* FlattenSeq of sequences is a sequence.                                  *)
LEMMA FlattenIs ==
  ASSUME NEW A, NEW s \in Seq(Seq(A))
  PROVE  FlattenSeq(s) \in Seq(A)
<1>1. CASE Len(s) = 0
  BY <1>1 DEF FlattenSeq
<1>2. CASE Len(s) # 0
  <2>. DEFINE g == CHOOSE f : Joins(f, s, Len(s))
  <2>1. FlattenSeq(s) = g[Len(s)]
    BY <1>2, Zenon DEF FlattenSeq, Joins
  <2>4. Len(s) \in Nat
    OBVIOUS
  <2>3. \E f : Joins(f, s, Len(s))
    BY <2>4, JoinsExist, Zenon
  <2>2. Joins(g, s, Len(s))
    BY <2>3, Zenon
  <2>. HIDE DEF g
  <2>. QED  BY <1>2, <2>1, <2>2, JoinsAreSequences
<1>. QED  BY <1>1, <1>2

-----------------------------------------------------------------------------
(* The items of the pages that were read.                                  *)

LEMMA ItemsAreSequences ==
  ASSUME NEW d \in Documents, NEW read
  PROVE  /\ \E A : ItemsOf(d, read) \in Seq(A)
         /\ ItemsOf(d, {}) = <<>>
<1>. DEFINE s(pages) == [p \in Pages(d) |-> IF p \in pages THEN d.pages[p].items ELSE <<>>]
            A == UNION {ToSet(d.pages[p].items) : p \in Pages(d)}
<1>1. PICK n \in Nat : Pages(d) = 1 .. n
  BY SequencesAssumption DEF Pages
<1>2. ASSUME NEW p \in Pages(d)  PROVE d.pages[p].items \in Seq(A)
  <2>1. d.pages[p].items \in Seq(ToSet(d.pages[p].items))
    BY SequencesAssumption DEF Pages
  <2>2. ToSet(d.pages[p].items) \subseteq A
    OBVIOUS
  <2>. HIDE DEF A
  <2>. QED  BY <2>1, <2>2
<1>. HIDE DEF A
<1>3. s(read) \in Seq(Seq(A))
  <2>1. ASSUME NEW p \in Pages(d)  PROVE (IF p \in read THEN d.pages[p].items ELSE <<>>) \in Seq(A)
    BY <1>2
  <2>. QED  BY <1>1, <2>1
<1>4. s({}) \in Seq(Seq({}))
  BY <1>1
<1>5. FlattenSeq(s(read)) \in Seq(A)
  BY <1>3, FlattenIs
<1>6. FlattenSeq(s({})) \in Seq({})
  BY <1>4, FlattenIs
<1>7. FlattenSeq(s({})) = <<>>
  <2>. PICK e \in Seq({}) : e = FlattenSeq(s({}))
    BY <1>6
  <2>. QED  OBVIOUS
<1>. QED  BY <1>5, <1>7 DEF ItemsOf

-----------------------------------------------------------------------------
(* What a result holds of a legible document.                              *)

TableTypes == {"quote", "rfq"}
Titled(d) == TableTypes \cap Titles(d, Pages(d))
(* Items as one model or some pages gave them, all together.               *)
Genuine(d, items) == items \in ModelItems \cup {ItemsOf(d, some) : some \in SUBSET Pages(d)}
Complete(d, r) ==
  /\ IsResult(r) /\ r.read \subseteq Pages(d)
  /\ r.type \in Titled(d) =>
       Genuine(d, r.fields.items) /\ Len(ItemsOf(d, r.read)) <= Len(r.fields.items)
(* A result the text model may still give another type.                    *)
Drafted(d, r) == Complete(d, r) /\ (Titled(d) # {} => Genuine(d, r.fields.items))

LEMMA NoItemsAreGenuine == ASSUME NEW d \in Documents PROVE Genuine(d, <<>>)
<1>1. ItemsOf(d, {}) = <<>> /\ {} \in SUBSET Pages(d)
  BY ItemsAreSequences
<1>. QED  BY <1>1, Zenon DEF Genuine

LEMMA GenuineIs ==
  ASSUME NEW d \in Documents, NEW items, Genuine(d, items)
  PROVE  /\ Len(items) \in Nat
         /\ items # <<>> /\ ToSet(items) \cap UNION {ToSet(m) : m \in ModelItems} = {} =>
              \E some \in SUBSET Pages(d) : items = ItemsOf(d, some)
<1>1. CASE items \in ModelItems
  <2>1. items \in Seq(ToSet(items))
    BY <1>1, SequencesAssumption
  <2>2. ASSUME items # <<>>  PROVE items[1] \in ToSet(items)
    BY <2>1, <2>2 DEF ToSet
  <2>. QED  BY <1>1, <2>1, <2>2
<1>2. ASSUME NEW some \in SUBSET Pages(d), items = ItemsOf(d, some)
      PROVE  Len(items) \in Nat
  <2>1. PICK A : items \in Seq(A)
    BY <1>2, ItemsAreSequences
  <2>. QED  BY <2>1
<1>. QED  BY <1>1, <1>2 DEF Genuine

LEMMA FilteredItems ==
  ASSUME NEW type, NEW f, IsFields(f)
  PROVE  /\ Filter(type, f).items \in {f.items, <<>>}
         /\ type \in TableTypes => Filter(type, f).items = f.items
         /\ type \notin FormTypes => Filter(type, f).items = f.items
<1>1. [f EXCEPT !.size = FALSE].items = f.items /\ [f EXCEPT !.size = FALSE, !.items = <<>>].items = <<>>
  BY DEF IsFields
<1>. QED  BY <1>1 DEF Filter, TableTypes, FormTypes

(* Recovery takes the items of the text if they are more.                  *)
LEMMA RecoveredItems ==
  ASSUME NEW expected \in Nat, NEW found, NEW items, Len(found) \in Nat, Len(items) \in Nat,
         Len(found) <= expected
  PROVE  Len(found) <= Len(RecoverLineItems(expected, found, items))
  BY DEF RecoverLineItems

(* The type may be that of a title anywhere in the document, or one the    *)
(* text that was read does not contradict.                                 *)
LEMMA ValidatedItems ==
  ASSUME NEW d \in Documents, Legible(d), Titled(d) # {}, NEW read \in SUBSET Pages(d),
         NEW type, type \in Titled(d) \/ ~Conflict(d, read, type),
         NEW f, IsFields(f), Genuine(d, f.items)
  PROVE  /\ Genuine(d, Validated(d, type, read, f).items)
         /\ type \in Titled(d) => Len(ItemsOf(d, read)) <= Len(Validated(d, type, read, f).items)
<1>. DEFINE lines == LinesOf(d, read)
            found == Extracted[lines][type]
            expected == Expected[lines][type]
            kept == Filter(type, f)
            given == IF kept.items = <<>> THEN found ELSE kept.items
<1>1. ASSUME type \in TableTypes
      PROVE  /\ Genuine(d, found)
             /\ type \in Titled(d) =>
                  found = ItemsOf(d, read) /\ expected \in Nat /\ Len(found) <= expected
  <2>1. \E some \in SUBSET Pages(d) : found = ItemsOf(d, some)
    BY <1>1, Zenon DEF Legible, Titled, TableTypes
  <2>2. type \in Titled(d) =>
          found = ItemsOf(d, read) /\ expected \in Nat /\ Len(found) <= expected
    BY <1>1, Zenon DEF Legible, Titled, TableTypes
  <2>. HIDE DEF found, expected
  <2>. QED  BY <2>1, <2>2 DEF Genuine
<1>. HIDE DEF found, expected, lines
<1>2. kept.items \in {f.items, <<>>} /\ (type \in TableTypes \/ type \notin FormTypes => kept.items = f.items)
  BY FilteredItems
<1>3. CASE read = {} \/ type \notin FormTypes
  <2>1. Validated(d, type, read, f) = kept
    BY <1>3 DEF Validated
  <2>. HIDE DEF kept
  <2>2. Genuine(d, kept.items)
    BY <1>2, NoItemsAreGenuine
  <2>3. ASSUME type \in Titled(d)  PROVE Len(ItemsOf(d, read)) <= Len(kept.items)
    <3>1. read = {}
      BY <1>3, <2>3 DEF Titled, TableTypes, FormTypes
    <3>2. ItemsOf(d, read) = <<>>
      BY <3>1, ItemsAreSequences
    <3>. QED  BY <2>2, <3>2, GenuineIs
  <2>. QED  BY <2>1, <2>2, <2>3
<1>4. CASE read # {} /\ type \in FormTypes
  <2>1. Validated(d, type, read, f).items =
          IF Columns(type) = {} THEN <<>> ELSE RecoverLineItems(expected, found, given)
    BY <1>4 DEF Validated, found, expected, lines
  <2>. HIDE DEF kept
  <2>2. CASE type \notin TableTypes
    <3>1. Columns(type) = {} /\ type \notin Titled(d)
      BY <2>2 DEF Columns, TableTypes, Titled
    <3>. QED  BY <2>1, <3>1, NoItemsAreGenuine
  <2>3. CASE type \in TableTypes
    <3>1. Columns(type) # {}
      BY <2>3 DEF Columns, TableTypes, QuoteColumns, InquiryColumns
    <3>2. Genuine(d, given)
      BY <1>1, <1>2, <2>3
    <3>. HIDE DEF given
    <3>3. RecoverLineItems(expected, found, given) \in {found, given}
      BY DEF RecoverLineItems
    <3>4. ASSUME type \in Titled(d)
          PROVE  Len(ItemsOf(d, read)) <= Len(RecoverLineItems(expected, found, given))
      BY <1>1, <2>3, <3>2, <3>4, GenuineIs, RecoveredItems
    <3>. QED  BY <1>1, <2>1, <2>3, <3>1, <3>2, <3>3, <3>4
  <2>. QED  BY <2>2, <2>3
<1>. QED  BY <1>3, <1>4

(* What a text says of its type, the type inferred from it says too.       *)
LEMMA InferredNeverConflicts ==
  ASSUME NEW d, NEW read
  PROVE  ~Conflict(d, read, InferredType(d, read))
  BY DEF Conflict, SureOf, InferredType

LEMMA VisionNeverConflicts ==
  ASSUME NEW d, NEW read, NEW type
  PROVE  ~Conflict(d, read, VisionType(d, read, type))
  BY InferredNeverConflicts DEF VisionType

(* A result made of validated fields.                                      *)
LEMMA MadeResultIs ==
  ASSUME NEW d \in Documents, Legible(d), NEW read \in SUBSET Pages(d),
         NEW status, NEW type, NEW sure, NEW html, NEW missing,
         type \in Titled(d) \/ ~Conflict(d, read, type),
         NEW f, IsFields(f), Titled(d) # {} => Genuine(d, f.items),
         NEW r, r = Result(d, status, type, sure, read, html, Validated(d, type, read, f), missing)
  PROVE  Drafted(d, r)
<1>. DEFINE fields == Validated(d, type, read, f)
<1>1. IsFields(fields)
  BY ValidatedIs
<1>2. Titled(d) # {} =>
        /\ Genuine(d, fields.items)
        /\ type \in Titled(d) => Len(ItemsOf(d, read)) <= Len(fields.items)
  BY ValidatedItems
<1>. HIDE DEF fields
<1>3. r = Result(d, status, type, sure, read, html, fields, missing)
  BY DEF fields
<1>4. IsResult(r) /\ r.read = read /\ r.fields = fields
  BY <1>1, <1>3, ResultIs
<1>5. r.type = type
  BY <1>3 DEF Result
<1>. QED  BY <1>2, <1>4, <1>5 DEF Drafted, Complete

(* A result without items, of pages of which none was read.                *)
LEMMA BlankIs ==
  ASSUME NEW d \in Documents, NEW r, IsResult(r), r.read = {}, r.fields.items = <<>>
  PROVE  Drafted(d, r)
<1>1. ItemsOf(d, {}) = <<>>
  BY ItemsAreSequences
<1>2. Len(ItemsOf(d, r.read)) <= Len(r.fields.items)
  BY <1>1
<1>. QED  BY <1>2, NoItemsAreGenuine DEF Drafted, Complete

LEMMA ParsedIsDrafted ==
  ASSUME NEW d \in Documents, Legible(d), NEW m, NEW r \in Parsed(d, m)
  PROVE  Drafted(d, r)
<1>1. ASSUME NEW status, NEW read \in SUBSET Pages(d), NEW html, r = ParsedResult(d, status, read, html)
      PROVE  Drafted(d, r)
  <2>. DEFINE type == InferredType(d, read)
              sure == SureOf(d, read)
              no == FALSE
  <2>1. r = Result(d, status, type, sure, read, html, Validated(d, type, read, NoFields), no)
    BY <1>1 DEF ParsedResult
  <2>2. ~Conflict(d, read, type)
    BY InferredNeverConflicts
  <2>3. NoFields.items = <<>>
    BY DEF NoFields
  <2>. HIDE DEF type, sure, no
  <2>. QED  BY <2>1, <2>2, <2>3, NoFieldsIs, NoItemsAreGenuine, MadeResultIs
<1>2. ASSUME NEW status, r = Unread(status)
      PROVE  Drafted(d, r)
  <2>1. IsResult(r) /\ r.read = {} /\ r.fields.items = <<>>
    BY <1>2, NoFieldsIs DEF IsResult, Unread, NoFields
  <2>. QED  BY <2>1, BlankIs
<1>3. Layer(d) \in SUBSET Pages(d) /\ Visible(d) \in SUBSET Pages(d)
  BY DEF Layer, Visible
<1>4. \A read \in Ocr(d, m) : read \in SUBSET Pages(d)
  BY <1>3 DEF Ocr
<1>5. CASE d.kind \in {"missing", "broken"}
  BY <1>2, <1>5 DEF Parsed
<1>6. CASE d.kind = "pdf"
  <2>1. r \in PdfResults(d, m)
    BY <1>6 DEF Parsed
  <2>. DEFINE status == IF Layer(d) # {} /\ Pages(d) \ Layer(d) = {}
                          THEN "completed" ELSE "partial_success"
  <2>2. \/ r = ParsedResult(d, status, Layer(d), FALSE)
        \/ \E read \in Ocr(d, m) : r = ParsedResult(d, "completed", read, TRUE)
    BY <2>1 DEF PdfResults
  <2>. HIDE DEF status
  <2>. QED  BY <1>1, <1>3, <1>4, <2>2
<1>7. CASE d.kind = "image"
  <2>. DEFINE blind == [Unread("partial_success") EXCEPT !.type = InferredType(d, {}),
                                                         !.fields.size = TRUE]
  <2>1. r = blind \/ \E read \in Ocr(d, m) : r = ParsedResult(d, "completed", read, TRUE)
    BY <1>7 DEF Parsed, ImageResults
  <2>2. IsResult(blind) /\ blind.read = {} /\ blind.fields.items = <<>>
    BY DEF Unread, NoFields, IsResult, IsFields
  <2>. HIDE DEF blind
  <2>. QED  BY <1>1, <1>4, <2>1, <2>2, BlankIs
<1>8. CASE d.kind = "text"
  BY <1>1, <1>3, <1>8 DEF Parsed
<1>9. CASE d.kind \notin {"missing", "broken", "pdf", "image", "text"}
  BY <1>2, <1>9 DEF Parsed
<1>. QED  BY <1>5, <1>6, <1>7, <1>8, <1>9

LEMMA MarkedIsDrafted ==
  ASSUME NEW d, NEW r, Drafted(d, r)
  PROVE  Drafted(d, [r EXCEPT !.status = "partial_success"])
<1>1. PICK s : s = [r EXCEPT !.status = "partial_success"]
  OBVIOUS
<1>2. IsResult(s) /\ s.read = r.read /\ s.fields = r.fields /\ s.type = r.type
  BY <1>1 DEF Drafted, Complete, IsResult
<1>3. Drafted(d, s)
  BY <1>2 DEF Drafted, Complete
<1>. QED  BY <1>1, <1>3

LEMMA VisionIsDrafted ==
  ASSUME NEW d \in Documents, Legible(d), NEW r, Drafted(d, r), NEW v \in Vision(d, r)
  PROVE  Drafted(d, v)
<1>1. ASSUME NEW status, NEW read \in SUBSET Pages(d), NEW type, NEW f \in ModelFields,
             v = VisionResult(d, status, read, type, f)
      PROVE  Drafted(d, v)
  <2>. DEFINE given == Filter(Canonical(type), f)
              final == VisionType(d, read, Canonical(type))
              sure == SureOf(d, read) /\ Canonical(type) = "unknown"
              no == FALSE
  <2>1. v = Result(d, status, final, sure, read, no, Validated(d, final, read, given), no)
    BY <1>1 DEF VisionResult
  <2>2. IsFields(f) /\ f.items \in ModelItems
    BY DEF ModelFields, IsFields
  <2>3. IsFields(given) /\ given.items \in {f.items, <<>>}
    BY <2>2, FilterIs, FilteredItems
  <2>4. ~Conflict(d, read, final)
    BY VisionNeverConflicts
  <2>. HIDE DEF given, final, sure, no
  <2>5. Genuine(d, given.items)
    BY <2>2, <2>3, NoItemsAreGenuine DEF Genuine
  <2>. QED  BY <2>1, <2>3, <2>4, <2>5, MadeResultIs
<1>2. Visible(d) \subseteq Pages(d) /\ r.read \subseteq Pages(d)
  BY DEF Visible, Drafted, Complete
<1>3. ASSUME v \in ImageAnswers(d, r)  PROVE Drafted(d, v)
  <2>. DEFINE status(read) == IF read = {} THEN "partial_success" ELSE "completed"
  <2>1. PICK read \in SUBSET Visible(d), type \in ModelTypes, f \in ModelFields :
          v = VisionResult(d, status(read), read, type, f)
    BY <1>3 DEF ImageAnswers
  <2>. HIDE DEF status
  <2>. QED  BY <1>1, <1>2, <2>1
<1>4. ASSUME v \in PdfAnswers(d, r)  PROVE Drafted(d, v)
  <2>. DEFINE status(read) == IF read # Pages(d) THEN "partial_success" ELSE "completed"
  <2>1. PICK read \in {r.read \cup seen : seen \in SUBSET (Visible(d) \ r.read)},
             type \in ModelTypes, f \in ModelFields :
          v = VisionResult(d, status(read), read, type, f)
    BY <1>4 DEF PdfAnswers
  <2>. HIDE DEF status
  <2>2. read \in SUBSET Pages(d)
    BY <1>2
  <2>. QED  BY <1>1, <2>1, <2>2
<1>5. \/ v = r \/ v = [r EXCEPT !.status = "partial_success"]
      \/ v \in ImageAnswers(d, r) \/ v \in PdfAnswers(d, r)
  BY DEF Vision
<1>. QED  BY <1>3, <1>4, <1>5, MarkedIsDrafted

(* The text model may change the type once more.                           *)
LEMMA EnrichedIsComplete ==
  ASSUME NEW d \in Documents, Legible(d), NEW r, Drafted(d, r), NEW e \in Enriched(d, r)
  PROVE  Complete(d, e)
<1>. DEFINE given(f) == IF f.items = <<>> THEN [f EXCEPT !.items = r.fields.items] ELSE f
            final(type) == EnrichedType(r, type)
            fields(type, f) == Validated(d, final(type), r.read, given(f))
<1>1. \/ e = r \/ e = [r EXCEPT !.status = "partial_success"]
      \/ \E type \in ModelTypes, f \in ModelFields :
           e = Result(d, r.status, final(type), r.sure, r.read, r.html, fields(type, f), r.missing)
  BY DEF Enriched
<1>2. ASSUME NEW type \in ModelTypes, NEW f \in ModelFields,
             e = Result(d, r.status, final(type), r.sure, r.read, r.html, fields(type, f), r.missing)
      PROVE  Complete(d, e)
  <2>1. IsFields(f) /\ f.items \in ModelItems
    BY DEF ModelFields, IsFields
  <2>2. IsFields([f EXCEPT !.items = r.fields.items])
        /\ [f EXCEPT !.items = r.fields.items].items = r.fields.items
    BY <2>1 DEF IsFields
  <2>3. IsFields(given(f)) /\ given(f).items \in {f.items, r.fields.items}
    BY <2>1, <2>2
  <2>4. r.read \in SUBSET Pages(d) /\ (Titled(d) # {} => Genuine(d, r.fields.items))
    BY DEF Drafted, Complete
  <2>5. PICK g : g = given(f)
    OBVIOUS
  <2>. HIDE DEF given
  <2>6. IsFields(g) /\ (Titled(d) # {} => Genuine(d, g.items))
    BY <2>1, <2>3, <2>4, <2>5 DEF Genuine
  <2>7. PICK t : t = final(type)
    OBVIOUS
  <2>. HIDE DEF final
  <2>8. e = Result(d, r.status, t, r.sure, r.read, r.html, Validated(d, t, r.read, g), r.missing)
    BY <1>2, <2>5, <2>7
  <2>9. CASE t \in Titled(d)
    BY <2>4, <2>6, <2>8, <2>9, MadeResultIs DEF Drafted
  <2>10. CASE t \notin Titled(d)
    <3>1. IsFields(Validated(d, t, r.read, g))
      BY <2>6, ValidatedIs
    <3>2. PICK v : v = Validated(d, t, r.read, g)
      OBVIOUS
    <3>3. IsResult(e) /\ e.read = r.read
      BY <2>8, <3>1, <3>2, ResultIs
    <3>4. e.type = t
      BY <2>8, <3>2 DEF Result
    <3>. QED  BY <2>4, <2>10, <3>3, <3>4 DEF Complete
  <2>. QED  BY <2>9, <2>10
<1>3. Complete(d, r) /\ Complete(d, [r EXCEPT !.status = "partial_success"])
  BY MarkedIsDrafted DEF Drafted
<1>. HIDE DEF given, final, fields
<1>. QED  BY <1>1, <1>2, <1>3

LEMMA AnalysisIsComplete ==
  ASSUME NEW d \in Documents, Legible(d), NEW m, NEW r \in RunResults(d, m) \cup ClickResults(d, m)
  PROVE  Complete(d, r)
<1>1. CASE r \in RunResults(d, m)
  <2>1. PICK q \in Parsed(d, m) : \E v \in Vision(d, q) : r \in Enriched(d, v)
    BY <1>1 DEF RunResults
  <2>2. PICK v \in Vision(d, q) : r \in Enriched(d, v)
    BY <2>1
  <2>. QED  BY <2>2, ParsedIsDrafted, VisionIsDrafted, EnrichedIsComplete
<1>2. CASE r \in ClickResults(d, m)
  <2>1. PICK q \in Parsed(d, m) : r \in Enriched(d, q)
    BY <1>2 DEF ClickResults
  <2>. QED  BY <2>1, ParsedIsDrafted, EnrichedIsComplete
<1>. QED  BY <1>1, <1>2

(* A save without fields keeps the items of a row of its type.             *)
LEMMA PreserveIsComplete ==
  ASSUME NEW d \in Documents, NEW new, Complete(d, new),
         NEW old, \A r1, r2 \in old : r1 = r2, \A row \in old : Complete(d, row.result)
  PROVE  Complete(d, Preserve(new, old))
<1>1. CASE HasBusinessFields(new) \/ ~\E row \in old : TypeKey(row.result) = TypeKey(new)
  BY <1>1 DEF Preserve
<1>2. CASE ~(HasBusinessFields(new) \/ ~\E row \in old : TypeKey(row.result) = TypeKey(new))
  <2>1. PICK row \in old : TypeKey(row.result) = TypeKey(new)
    BY <1>2
  <2>2. (CHOOSE r \in old : TRUE) = row
    BY <2>1
  <2>. DEFINE fields == Filter(TypeKey(new), row.result.fields)
              kept == [new EXCEPT !.fields = fields]
  <2>3. Preserve(new, old) = kept
    BY <1>2, <2>2 DEF Preserve
  <2>4. IsFields(fields) /\ (TypeKey(new) \in TableTypes => fields.items = row.result.fields.items)
    BY FilterIs, FilteredItems DEF Complete, IsResult
  <2>. HIDE DEF fields
  <2>5. /\ IsResult(kept) /\ kept.read = new.read /\ kept.type = new.type /\ kept.fields = fields
    BY <2>4 DEF Complete, IsResult
  <2>. HIDE DEF kept
  <2>6. ASSUME new.type \in Titled(d)
        PROVE  Genuine(d, fields.items) /\ Len(ItemsOf(d, new.read)) <= Len(fields.items)
    <3>1. new.type \in TableTypes /\ TypeKey(new) = new.type /\ row.result.type = new.type
      BY <2>1, <2>6 DEF Titled, TableTypes, TypeKey, None
    <3>2. fields.items = row.result.fields.items /\ Genuine(d, fields.items)
      BY <2>4, <2>6, <3>1 DEF Complete
    <3>3. new.fields.items = <<>>
      <4>1. Filter(TypeKey(new), new.fields).items = new.fields.items
        BY <3>1, FilteredItems DEF Complete, IsResult
      <4>. QED  BY <1>2, <4>1 DEF HasBusinessFields, Empty
    <3>4. Genuine(d, new.fields.items) /\ Len(ItemsOf(d, new.read)) <= Len(new.fields.items)
      BY <2>6 DEF Complete
    <3>5. Genuine(d, ItemsOf(d, new.read))
      <4>1. new.read \in SUBSET Pages(d)
        BY DEF Complete
      <4>. QED  BY <4>1, Zenon DEF Genuine
    <3>. QED  BY <3>2, <3>3, <3>4, <3>5, GenuineIs
  <2>. QED  BY <2>3, <2>5, <2>6 DEF Complete
<1>. QED  BY <1>1, <1>2

-----------------------------------------------------------------------------
(* The results on their way and the rows hold the items of what was read.  *)

ReadInv ==
  /\ \A p \in Procs : pc[p] # "idle" => Complete(doc, work[p])
  /\ \A row \in current : Complete(doc, row.result)

LEMMA ReadOwnStepKeeps ==
  ASSUME AnalysisInv, ReadInv, NEW p \in Procs, doc' = doc, current' = current,
         NEW at, pc' = [pc EXCEPT ![p] = at],
         NEW result, work' = [work EXCEPT ![p] = result],
         at # "idle" => Complete(doc, result)
  PROVE  ReadInv'
<1>1. /\ pc'[p] = at /\ work'[p] = result
      /\ \A q \in Procs \ {p} : pc'[q] = pc[q] /\ work'[q] = work[q]
  BY DEF AnalysisInv, AnalysisTypes
<1>2. ASSUME NEW q \in Procs, pc'[q] # "idle"  PROVE Complete(doc, work'[q])
  <2>1. CASE q = p
    BY <1>1, <1>2, <2>1
  <2>2. CASE q # p
    BY <1>1, <1>2, <2>2 DEF ReadInv
  <2>. QED  BY <2>1, <2>2
<1>. QED  BY <1>2 DEF ReadInv

LEMMA ReadInvKept ==
  ASSUME \A d \in Documents : Legible(d)
  PROVE  AnalysisInv /\ ReadInv /\ [Next]_vars => ReadInv'
<1>. SUFFICES ASSUME AnalysisInv, ReadInv, [Next]_vars  PROVE ReadInv'
  OBVIOUS
<1>. USE DEF Outside
<1>1. doc \in Documents /\ doc' = doc
  BY DEF AnalysisInv, AnalysisTypes, Next, vars, AnalyzeForRun, AnalyzeForClick, Select,
         Supersede, Wake, Insert, FinishRun, Crash
<1>2. ASSUME NEW p \in Procs, AnalyzeForRun(p) \/ AnalyzeForClick(p)
      PROVE  ReadInv'
  <2>1. PICK result \in RunResults(doc, mode) \cup ClickResults(doc, mode) :
          work' = [work EXCEPT ![p] = result]
    BY <1>2 DEF AnalyzeForRun, AnalyzeForClick
  <2>2. Complete(doc, result)
    BY <1>1, AnalysisIsComplete
  <2>3. pc' = [pc EXCEPT ![p] = "save"] /\ current' = current
    BY <1>2 DEF AnalyzeForRun, AnalyzeForClick
  <2>. QED  BY <1>1, <2>1, <2>2, <2>3, ReadOwnStepKeeps
<1>3. ASSUME NEW p \in Procs, Select(p)
      PROVE  ReadInv'
  <2>. DEFINE result == Preserve(work[p], current)
  <2>1. /\ pc' = [pc EXCEPT ![p] = "supersede"] /\ work' = [work EXCEPT ![p] = result]
        /\ current' = current /\ pc[p] = "save"
    BY <1>3 DEF Select
  <2>2. Complete(doc, work[p]) /\ \A row \in current : Complete(doc, row.result)
    BY <2>1 DEF ReadInv
  <2>3. Complete(doc, result)
    BY <1>1, <2>2, PreserveIsComplete DEF AnalysisInv, CurrentRows
  <2>. HIDE DEF result
  <2>. QED  BY <1>1, <2>1, <2>3, ReadOwnStepKeeps
<1>4. ASSUME NEW p \in Procs, NEW at, pc' = [pc EXCEPT ![p] = at], pc[p] # "idle",
             work' = work, current' = current
      PROVE  ReadInv'
  <2>1. work' = [work EXCEPT ![p] = work[p]] /\ Complete(doc, work[p])
    BY <1>4 DEF AnalysisInv, AnalysisTypes, ReadInv
  <2>. QED  BY <1>1, <1>4, <2>1, ReadOwnStepKeeps
<1>5. ASSUME NEW p \in Procs, Supersede(p) \/ Wake(p) \/ FinishRun(p)
      PROVE  ReadInv'
  <2>1. PICK at : pc' = [pc EXCEPT ![p] = at]
    BY <1>5 DEF Supersede, Wake, FinishRun
  <2>2. pc[p] # "idle" /\ work' = work /\ current' = current
    BY <1>5 DEF Supersede, Wake, FinishRun
  <2>. QED  BY <1>4, <2>1, <2>2
<1>6. ASSUME NEW p \in Procs, Insert(p)
      PROVE  ReadInv'
  <2>1. Complete(doc, work[p]) /\ work[p] = work[p]
    BY <1>6 DEF Insert, ReadInv
  <2>2. PICK at, result :
          /\ pc' = [pc EXCEPT ![p] = at] /\ work' = [work EXCEPT ![p] = result]
          /\ at # "idle" => result = work[p]
    BY <1>6 DEF Insert, AnalysisInv, AnalysisTypes
  <2>3. CASE current' = current
    BY <1>1, <2>1, <2>2, <2>3, ReadOwnStepKeeps
  <2>4. CASE current' # current
    <3>1. \A row \in current' : row \in current \/ row.result = work[p]
      BY <1>6, <2>4 DEF Insert
    <3>2. \A row \in current' : Complete(doc, row.result)
      BY <2>1, <3>1 DEF ReadInv
    <3>3. ASSUME NEW q \in Procs, pc'[q] # "idle"  PROVE Complete(doc, work'[q])
      <4>1. CASE q = p
        BY <2>1, <2>2, <3>3, <4>1 DEF AnalysisInv, AnalysisTypes
      <4>2. CASE q # p
        <5>1. pc'[q] = pc[q] /\ work'[q] = work[q]
          BY <2>2, <4>2 DEF AnalysisInv, AnalysisTypes
        <5>. QED  BY <3>3, <5>1 DEF ReadInv
      <4>. QED  BY <4>1, <4>2
    <3>. QED  BY <1>1, <3>2, <3>3 DEF ReadInv
  <2>. QED  BY <2>3, <2>4
<1>7. ASSUME NEW p \in Procs, Crash(p)
      PROVE  ReadInv'
  <2>1. pc' = [pc EXCEPT ![p] = "idle"] /\ work' = [work EXCEPT ![p] = None] /\ current' = current
    BY <1>7 DEF Crash
  <2>. QED  BY <1>1, <2>1, ReadOwnStepKeeps
<1>8. CASE UNCHANGED vars
  BY <1>8 DEF vars, ReadInv
<1>. QED  BY <1>2, <1>3, <1>5, <1>6, <1>7, <1>8 DEF Next

LEMMA InvReadsRows == AnalysisInv /\ ReadInv => RowsRead
<1>. SUFFICES ASSUME AnalysisInv, ReadInv, NEW row \in current, ReadAs(row.result)
              PROVE  LET items == row.result.fields.items
                     IN  /\ Len(TrueItems(row.result.read)) <= Len(items)
                         /\ items # <<>> /\ ToSet(items) \cap UNION {ToSet(m) : m \in ModelItems} = {} =>
                              \E read \in SUBSET Pages(doc) : items = TrueItems(read)
  BY DEF RowsRead
<1>1. doc \in Documents /\ Complete(doc, row.result) /\ row.result.type \in Titled(doc)
  BY DEF AnalysisInv, AnalysisTypes, ReadInv, ReadAs, Titled, TableTypes
<1>2. /\ Genuine(doc, row.result.fields.items)
      /\ Len(ItemsOf(doc, row.result.read)) <= Len(row.result.fields.items)
  BY <1>1 DEF Complete
<1>3. PICK items : items = row.result.fields.items
  OBVIOUS
<1>4. items # <<>> /\ ToSet(items) \cap UNION {ToSet(m) : m \in ModelItems} = {} =>
        \E read \in SUBSET Pages(doc) : items = ItemsOf(doc, read)
  BY <1>1, <1>2, <1>3, GenuineIs
<1>. QED  BY <1>2, <1>3, <1>4 DEF TrueItems

(* Of documents the readers can read, a stored quotation or inquiry holds  *)
(* at least the items of the pages that were read, whatever OCR and the    *)
(* models answered, and whoever saved in between.                          *)
THEOREM LegibleRowsAreRead ==
  ASSUME \A d \in Documents : Legible(d)
  PROVE  Spec => []RowsRead
<1>1. Init => ReadInv
  BY DEF Init, ReadInv
<1>2. AnalysisInv /\ ReadInv /\ [Next]_vars => ReadInv'
  BY ReadInvKept
<1>. QED  BY <1>1, <1>2, AnalysisInvariant, InvReadsRows, PTL DEF Spec

-----------------------------------------------------------------------------
(* The numbers of the rows of an inquiry (LineItems).                      *)

LEMMA MinIs ==
  ASSUME NEW S, S \subseteq Nat, S # {}
  PROVE  Min(S) \in S
<1>1. \E n \in S : \A k \in S : n <= k
  BY LeastNumber
<1>. QED  BY <1>1, Zenon DEF Min

LEMMA ValueIs ==
  ASSUME NEW c, IsNumber(c)
  PROVE  Value(c) \in 1 .. Len(Digits)
<1>1. \E n \in DOMAIN Digits : Digits[n] = c
  BY Zenon DEF IsNumber, ToSet
<1>2. Value(c) \in DOMAIN Digits
  BY <1>1, Zenon DEF Value
<1>. QED  BY <1>2, StringsAssumption

(* An item of an inquiry has the number it was given.                      *)
LEMMA NumberOfItem ==
  ASSUME NEW a, NEW b, NEW c, NEW d, NEW e
  PROVE  Item("rfq", <<"No", "Description", "Code", "Qty", "Unit">>, <<a, b, c, d, e>>)["No"] = a
<1>. DEFINE names == <<"No", "Description", "Code", "Qty", "Unit">>
            cells == <<a, b, c, d, e>>
            known == {names[i] : i \in {k \in DOMAIN names : names[k] \in Columns("rfq")}}
<1>1. 1 \in DOMAIN names /\ names[1] = "No" /\ "No" \in Columns("rfq")
  BY DEF Columns, InquiryColumns
<1>2. "No" \in known
  BY <1>1
<1>3. \A i \in DOMAIN names : names[i] = "No" => i = 1
  OBVIOUS
<1>4. (CHOOSE i \in DOMAIN names : names[i] = "No") = 1
  BY <1>1, <1>3
<1>5. Item("rfq", names, cells)["No"] = cells[1]
  <2>. DEFINE at(name) == CHOOSE i \in DOMAIN names : names[i] = name
  <2>1. Item("rfq", names, cells) = [name \in known |-> cells[at(name)]]
    BY DEF Item
  <2>2. at("No") = 1
    BY <1>4
  <2>. HIDE DEF at, known, names, cells
  <2>. QED  BY <1>2, <2>1, <2>2
<1>. QED  BY <1>5

LEMMA SegmentItemIs ==
  ASSUME NEW no, NEW s, SegmentItem(no, s) # <<>>
  PROVE  \E x : SegmentItem(no, s) = <<x>> /\ x["No"][1] = no
<1>. DEFINE unit == UnitAt(s)
            qty == unit - 1
            code == CodeStart(s, qty)
            names == <<"No", "Description", "Code", "Qty", "Unit">>
            x == Item("rfq", names, <<<<no>>, SubSeq(s, 1, code - 1), SubSeq(s, code, qty - 1), <<s[qty]>>, <<s[qty + 1]>>>>)
<1>1. SegmentItem(no, s) = <<x>>
  BY DEF SegmentItem, SegmentUpTo, InquiryItem
<1>2. x["No"] = <<no>>
  BY NumberOfItem
<1>. HIDE DEF x
<1>3. x["No"][1] = no
  BY <1>2
<1>. QED  BY <1>1, <1>3

-----------------------------------------------------------------------------
(* The function of Chain exists: rows depend on those of later cells only. *)

RowsAt(t, item, g, i) == [n \in 1 .. Len(Digits) + 1 |-> RowsFrom(t, item, g, i, n)]

LEMMA RowsFromLater ==
  ASSUME NEW t, Len(t) \in Nat, NEW item, NEW g, NEW h, NEW i \in 1 .. Len(t) + 1,
         \A k \in i + 1 .. Len(t) + 1 : g[k] = h[k]
  PROVE  RowsAt(t, item, g, i) = RowsAt(t, item, h, i)
<1>1. ASSUME NEW n \in 1 .. Len(Digits) + 1
      PROVE  RowsFrom(t, item, g, i, n) = RowsFrom(t, item, h, i, n)
  <2>. DEFINE end == Len(t) + 1
              next == {j \in i + 1 .. Len(t) : Reads(t, j, n + 1)}
              ends == {j \in (IF next = {} THEN {end} ELSE next) : item[i][j] # <<>>}
              from(f) == CASE i = end -> <<>>
                           [] i # end /\ (~Reads(t, i, n) \/ ends = {}) -> f[i + 1][n]
                           [] OTHER -> item[i][Min(ends)] \o (IF next = {} THEN <<>> ELSE f[Min(ends)][n + 1])
  <2>1. RowsFrom(t, item, g, i, n) = from(g) /\ RowsFrom(t, item, h, i, n) = from(h)
    BY DEF RowsFrom
  <2>2. ends # {} /\ next # {} => Min(ends) \in i + 1 .. Len(t) + 1
    <3>1. next # {} => ends \subseteq i + 1 .. Len(t)
      OBVIOUS
    <3>. HIDE DEF ends, next
    <3>. SUFFICES ASSUME ends # {}, next # {}  PROVE Min(ends) \in i + 1 .. Len(t) + 1
      OBVIOUS
    <3>2. ends \subseteq Nat
      BY <3>1
    <3>3. Min(ends) \in ends
      BY <3>2, MinIs
    <3>. QED  BY <3>1, <3>3
  <2>3. i # end => g[i + 1] = h[i + 1]
    OBVIOUS
  <2>4. ends # {} /\ next # {} => g[Min(ends)] = h[Min(ends)]
    BY <2>2
  <2>. HIDE DEF end, next, ends
  <2>5. from(g) = from(h)
    BY <2>3, <2>4
  <2>. QED  BY <2>1, <2>5
<1>. QED  BY <1>1, Zenon DEF RowsAt

Chained(t, item, g) == g = [i \in 1 .. Len(t) + 1 |-> RowsAt(t, item, g, i)]

LEMMA ChainedExists ==
  ASSUME NEW t, Len(t) \in Nat, NEW item
  PROVE  \E g : Chained(t, item, g)
<1>. DEFINE P == 1 .. Len(t) + 1
            Late(g, m) == /\ g = [i \in P |-> g[i]]
                          /\ \A i \in P : i + m >= Len(t) + 1 => g[i] = RowsAt(t, item, g, i)
            S == {m \in Nat : \E g : Late(g, m)}
<1>1. \A g : \A i \in P : [k \in P |-> g[k]][i] = g[i]
  OBVIOUS
<1>2. ASSUME NEW m \in Nat, NEW g, g = [i \in P |-> g[i]],
             \A i \in P : i + m > Len(t) + 1 => g[i] = RowsAt(t, item, g, i)
      PROVE  m \in S
  <2>. DEFINE here(i) == i + m = Len(t) + 1
              h == [i \in P |-> IF here(i) THEN RowsAt(t, item, g, i) ELSE g[i]]
  <2>1. \A i \in P : h[i] = IF here(i) THEN RowsAt(t, item, g, i) ELSE g[i]
    OBVIOUS
  <2>2. h = [i \in P |-> h[i]]
    OBVIOUS
  <2>. HIDE DEF h
  <2>3. ASSUME NEW i \in P, i + m >= Len(t) + 1
        PROVE  h[i] = RowsAt(t, item, h, i)
    <3>1. \A k \in i + 1 .. Len(t) + 1 : g[k] = h[k]
      BY <2>1, <2>3
    <3>2. RowsAt(t, item, g, i) = RowsAt(t, item, h, i)
      BY <3>1, RowsFromLater
    <3>3. CASE here(i)
      BY <2>1, <3>2, <3>3
    <3>4. CASE ~here(i)
      <4>1. i + m > Len(t) + 1
        BY <2>3, <3>4
      <4>. QED  BY <1>2, <2>1, <3>2, <3>4, <4>1
    <3>. QED  BY <3>3, <3>4
  <2>4. Late(h, m)
    BY <2>2, <2>3
  <2>. HIDE DEF Late
  <2>. QED  BY <2>4
<1>3. 0 \in S
  <2>. DEFINE g == [i \in P |-> i]
  <2>1. g = [i \in P |-> g[i]]
    OBVIOUS
  <2>. HIDE DEF g, S
  <2>. QED  BY <1>2, <2>1
<1>4. ASSUME NEW m \in Nat, m \in S  PROVE m + 1 \in S
  <2>1. PICK g : Late(g, m)
    BY <1>4
  <2>2. \A i \in P : i + (m + 1) > Len(t) + 1 => g[i] = RowsAt(t, item, g, i)
    BY <2>1
  <2>. HIDE DEF S
  <2>. QED  BY <1>2, <2>1, <2>2
<1>5. Nat \subseteq S
  <2>. HIDE DEF S
  <2>. QED  BY <1>3, <1>4, NumbersInOrder
<1>6. PICK g : Late(g, Len(t) + 1)
  BY <1>5
<1>7. \A i \in P : g[i] = RowsAt(t, item, g, i)
  BY <1>6
<1>8. g = [i \in P |-> RowsAt(t, item, g, i)]
  BY <1>6, <1>7, Zenon
<1>. QED  BY <1>8, Zenon DEF Chained

-----------------------------------------------------------------------------
(* The rows of Chain are numbered without a gap.                           *)

Numbered(s, n, A) == s \in Seq(A) /\ \A k \in 1 .. Len(s) : Value(s[k]["No"][1]) = n + k - 1

LEMMA NumberedBefore ==
  ASSUME NEW A, NEW n \in Nat, NEW x \in A, Value(x["No"][1]) = n,
         NEW s, Numbered(s, n + 1, A)
  PROVE  Numbered(<<x>> \o s, n, A)
<1>1. /\ <<x>> \o s \in Seq(A) /\ Len(<<x>> \o s) = Len(s) + 1 /\ Len(s) \in Nat
      /\ (<<x>> \o s)[1] = x
      /\ \A k \in 2 .. Len(s) + 1 : (<<x>> \o s)[k] = s[k - 1]
  BY DEF Numbered
<1>2. PICK r : r = <<x>> \o s
  OBVIOUS
<1>3. ASSUME NEW k \in 1 .. Len(r)  PROVE Value(r[k]["No"][1]) = n + k - 1
  <2>1. CASE k = 1
    <3>1. r[k] = x
      BY <1>1, <1>2, <2>1
    <3>. QED  BY <2>1, <3>1
  <2>2. CASE k # 1
    <3>1. k \in 2 .. Len(s) + 1
      BY <1>1, <1>2, <1>3, <2>2
    <3>2. k - 1 \in 1 .. Len(s) /\ r[k] = s[k - 1]
      BY <1>1, <1>2, <3>1
    <3>3. Value(s[k - 1]["No"][1]) = (n + 1) + (k - 1) - 1
      BY <3>2 DEF Numbered
    <3>. QED  BY <3>2, <3>3
  <2>. QED  BY <2>1, <2>2
<1>. QED  BY <1>1, <1>2, <1>3 DEF Numbered

LEMMA ChainIs ==
  ASSUME NEW t, Len(t) \in Nat, NEW item, NEW A,
         \A i \in 1 .. Len(t), j \in 1 .. Len(t) + 1 :
           item[i][j] # <<>> => \E x \in A : item[i][j] = <<x>> /\ x["No"][1] = t[i]
  PROVE  Numbered(Chain(t, item), 1, A)
<1>. DEFINE end == Len(t) + 1
            N == 1 .. Len(Digits) + 1
            g == CHOOSE f : Chained(t, item, f)
<1>0. Len(Digits) \in Nat
  BY StringsAssumption
<1>1. Chain(t, item) = g[1][1]
  BY Zenon DEF Chain, Chained, RowsAt
<1>2. Chained(t, item, g)
  BY ChainedExists, Zenon
<1>. HIDE DEF g
<1>3. ASSUME NEW i \in 1 .. end, NEW n \in N
      PROVE  g[i][n] = RowsFrom(t, item, g, i, n)
  <2>1. g[i] = RowsAt(t, item, g, i)
    <3>. DEFINE e(k) == RowsAt(t, item, g, k)
    <3>1. g = [k \in 1 .. Len(t) + 1 |-> e(k)]
      BY <1>2, Zenon DEF Chained
    <3>. HIDE DEF e
    <3>2. g[i] = e(i)
      BY <3>1
    <3>. QED  BY <3>2 DEF e
  <2>. QED  BY <2>1 DEF RowsAt
<1>. DEFINE S == {m \in Nat : \A i \in 1 .. end : i + m >= end => \A n \in N : Numbered(g[i][n], n, A)}
<1>4. Numbered(<<>>, 1, A) /\ \A n \in N : Numbered(<<>>, n, A)
  BY DEF Numbered
<1>5. 0 \in S
  <2>1. ASSUME NEW i \in 1 .. end, i + 0 >= end, NEW n \in N
        PROVE  Numbered(g[i][n], n, A)
    <3>1. i = end
      BY <2>1
    <3>2. RowsFrom(t, item, g, i, n) = <<>>
      BY <3>1 DEF RowsFrom
    <3>. QED  BY <1>3, <1>4, <3>2
  <2>. QED  BY <2>1
<1>6. ASSUME NEW m \in Nat, m \in S  PROVE m + 1 \in S
  <2>1. ASSUME NEW i \in 1 .. end, i + (m + 1) >= end, NEW n \in N
        PROVE  Numbered(g[i][n], n, A)
    <3>. DEFINE next == {j \in i + 1 .. Len(t) : Reads(t, j, n + 1)}
                ends == {j \in (IF next = {} THEN {end} ELSE next) : item[i][j] # <<>>}
    <3>0. ASSUME NEW k \in i + 1 .. end, NEW o \in N  PROVE Numbered(g[k][o], o, A)
      BY <1>6, <2>1
    <3>1. CASE i = end
      <4>1. RowsFrom(t, item, g, i, n) = <<>>
        BY <3>1 DEF RowsFrom
      <4>. QED  BY <1>3, <1>4, <4>1
    <3>2. CASE i # end /\ (~Reads(t, i, n) \/ ends = {})
      <4>1. RowsFrom(t, item, g, i, n) = g[i + 1][n]
        BY <3>2 DEF RowsFrom
      <4>2. i + 1 \in i + 1 .. end
        BY <3>2
      <4>. QED  BY <1>3, <3>0, <4>1, <4>2
    <3>3. CASE i # end /\ Reads(t, i, n) /\ ends # {}
      <4>1. RowsFrom(t, item, g, i, n) =
              item[i][Min(ends)] \o (IF next = {} THEN <<>> ELSE g[Min(ends)][n + 1])
        BY <3>3 DEF RowsFrom
      <4>2. ends \subseteq Nat /\ ends \subseteq i + 1 .. end /\ \A j \in ends : item[i][j] # <<>>
        BY <3>3
      <4>3. Min(ends) \in ends
        <5>. HIDE DEF ends
        <5>. QED  BY <3>3, <4>2, MinIs
      <4>4. i \in 1 .. Len(t) /\ Min(ends) \in 1 .. end /\ Min(ends) \in i + 1 .. end
        <5>1. Min(ends) \in i + 1 .. end
          <6>. HIDE DEF ends
          <6>. QED  BY <4>2, <4>3
        <5>2. PICK e : e = Min(ends)
          OBVIOUS
        <5>. HIDE DEF ends, next
        <5>3. i \in 1 .. Len(t) /\ e \in 1 .. end
          BY <3>3, <5>1, <5>2
        <5>. QED  BY <5>1, <5>2, <5>3
      <4>5. PICK x \in A : item[i][Min(ends)] = <<x>> /\ x["No"][1] = t[i]
        <5>. HIDE DEF ends
        <5>. QED  BY <4>2, <4>3, <4>4
      <4>6. Value(x["No"][1]) = n
        BY <3>3, <4>5 DEF Reads
      <4>7. next # {} => n + 1 \in N
        <5>1. ASSUME NEW j \in next  PROVE n + 1 \in N
          <6>1. IsNumber(t[j]) /\ Value(t[j]) = n + 1
            BY DEF Reads
          <6>2. Value(t[j]) \in 1 .. Len(Digits)
            BY <6>1, ValueIs
          <6>. QED  BY <1>0, <6>1, <6>2
        <5>. HIDE DEF next
        <5>. QED  BY <5>1
      <4>8. PICK rest : rest = IF next = {} THEN <<>> ELSE g[Min(ends)][n + 1]
        OBVIOUS
      <4>9. Numbered(rest, n + 1, A)
        <5>1. CASE next = {}
          BY <4>8, <5>1 DEF Numbered
        <5>2. CASE next # {}
          <6>. HIDE DEF ends, next
          <6>. QED  BY <3>0, <4>4, <4>7, <4>8, <5>2
        <5>. QED  BY <5>1, <5>2
      <4>. HIDE DEF ends, next
      <4>10. g[i][n] = <<x>> \o rest
        BY <1>3, <4>1, <4>5, <4>8
      <4>11. n \in Nat
        OBVIOUS
      <4>. QED  BY <4>6, <4>9, <4>10, <4>11, NumberedBefore
    <3>. QED  BY <3>1, <3>2, <3>3
  <2>. QED  BY <2>1
<1>7. Nat \subseteq S
  <2>. HIDE DEF S
  <2>. QED  BY <1>5, <1>6, NumbersInOrder
<1>8. 1 \in 1 .. end /\ 1 + end >= end /\ end \in S /\ 1 \in N
  <2>. HIDE DEF S
  <2>. QED  BY <1>0, <1>7
<1>9. Numbered(g[1][1], 1, A)
  BY <1>8
<1>. QED  BY <1>1, <1>9

(* However the cells of an inquiry run, the reader of segmented tables     *)
(* numbers the rows it finds 1, 2, 3 without a gap: their largest number,  *)
(* which _expected_rfq_line_item_count takes for the rows the table has,   *)
(* is how many it found.  A row it missed it cannot miss in the count.     *)
THEOREM SegmentsAreNumbered ==
  ASSUME NEW t, Len(t) \in Nat
  PROVE  {Value(row["No"][1]) : row \in ToSet(Segmented(t))} = 1 .. Len(Segmented(t))
<1>. DEFINE at(i, j) == IF i < j THEN SegmentItem(t[i], SubSeq(t, i + 1, j - 1)) ELSE <<>>
            item == [i \in 1 .. Len(t) + 1 |-> [j \in 1 .. Len(t) + 1 |-> at(i, j)]]
            A == {item[i][j][1] : i \in 1 .. Len(t), j \in 1 .. Len(t) + 1}
<1>1. ASSUME NEW i \in 1 .. Len(t), NEW j \in 1 .. Len(t) + 1, item[i][j] # <<>>
      PROVE  \E x \in A : item[i][j] = <<x>> /\ x["No"][1] = t[i]
  <2>1. item[i][j] = at(i, j)
    OBVIOUS
  <2>2. item[i][j] = SegmentItem(t[i], SubSeq(t, i + 1, j - 1))
    BY <1>1, <2>1
  <2>. HIDE DEF item
  <2>3. PICK x : item[i][j] = <<x>> /\ x["No"][1] = t[i]
    BY <1>1, <2>2, SegmentItemIs
  <2>4. x \in A
    BY <2>3
  <2>. QED  BY <2>3, <2>4
<1>2. Segmented(t) = Chain(t, item)
  BY Zenon DEF Segmented
<1>. HIDE DEF item, A
<1>3. Numbered(Segmented(t), 1, A)
  BY <1>1, <1>2, ChainIs
<1>4. PICK rows : rows = Segmented(t)
  OBVIOUS
<1>5. rows \in Seq(A) /\ \A k \in 1 .. Len(rows) : Value(rows[k]["No"][1]) = k
  BY <1>3, <1>4 DEF Numbered
<1>6. ToSet(rows) = {rows[k] : k \in 1 .. Len(rows)}
  BY <1>5 DEF ToSet
<1>7. {Value(row["No"][1]) : row \in ToSet(rows)} = 1 .. Len(rows)
  BY <1>5, <1>6
<1>. QED  BY <1>4, <1>7

-----------------------------------------------------------------------------
(* The gateway.                                                            *)

(* A call that is on its way for a role of a gateway and holds a permit.   *)
Holds(c, g, role) ==
  c.pc = "sent" /\ ~Uncounted(c.gate, c.op, c.role) /\ c.gate = g /\ c.role = role

(* What the code never lets happen to one call: gemini waits for no permit,*)
(* and a call for vectors still lacks one until it ends.                   *)
Sensible(c) ==
  /\ c.pc = "waiting" => ~Uncounted(c.gate, c.op, c.role)
  /\ c.pc \in {"waiting", "sent", "read"} /\ c.op = "embed" =>
       c.role = "embedding" /\ c.left > 0

GatewayInv ==
  /\ GatewayTypeOK
  /\ \A t \in Threads : call[t].pc # "idle" => Sensible(call[t])
  /\ PermitsCounted

(* t's call becomes c.                                                     *)
Becomes(t, c) == c \in Called \cup {NoCall} /\ call' = [call EXCEPT ![t] = c]

-----------------------------------------------------------------------------
LEMMA LimitIsPositive ==
  ASSUME NEW g \in Gateways, NEW role \in Roles
  PROVE  MaxConcurrency(g, role) \in Nat \ {0}
<1>1. Config[g].limit \in [Roles -> Int]
  BY ConfigAssumption
<1>. QED
  BY <1>1 DEF MaxConcurrency

(* A thread that is not idle has a call.                                   *)
LEMMA BusyIsCalled ==
  ASSUME GatewayTypeOK, NEW t \in Threads, call[t].pc # "idle"
  PROVE  call[t] \in Called
<1>1. call[t] \in Called \cup {NoCall}
  BY DEF GatewayTypeOK
<1>2. NoCall.pc = "idle"
  BY DEF NoCall
<1>. QED
  BY <1>1, <1>2

LEMMA CalledFields ==
  ASSUME NEW c \in Called
  PROVE  /\ c.pc \in {"waiting", "sent", "read", "returned", "raised"}
         /\ c.gate \in Gateways /\ c.op \in Operations /\ c.role \in Roles
         /\ c.left \in 0 .. MaxTexts
  BY DEF Called

LEMMA OpenedCall ==
  ASSUME NEW g \in Gateways, NEW op \in Operations, NEW role \in Roles, NEW n \in 0 .. MaxTexts,
         NEW at \in {"waiting", "sent", "read", "returned", "raised"}
  PROVE  /\ Open(g, op, role, n, at) \in Called
         /\ Open(g, op, role, n, at).pc = at /\ Open(g, op, role, n, at).gate = g
         /\ Open(g, op, role, n, at).op = op /\ Open(g, op, role, n, at).role = role
         /\ Open(g, op, role, n, at).left = n
  BY DEF Open, Called

(* The same call, further on.                                              *)
LEMMA AdvancedCall ==
  ASSUME NEW c \in Called, NEW at \in {"waiting", "sent", "read", "returned", "raised"}
  PROVE  /\ [c EXCEPT !.pc = at] \in Called
         /\ [c EXCEPT !.pc = at].pc = at /\ [c EXCEPT !.pc = at].gate = c.gate
         /\ [c EXCEPT !.pc = at].op = c.op /\ [c EXCEPT !.pc = at].role = c.role
         /\ [c EXCEPT !.pc = at].left = c.left
  BY DEF Called

LEMMA BecomesOne ==
  ASSUME GatewayTypeOK, NEW t \in Threads, NEW c, Becomes(t, c)
  PROVE  /\ call' \in [Threads -> Called \cup {NoCall}]
         /\ call'[t] = c
         /\ \A u \in Threads \ {t} : call'[u] = call[u]
  BY DEF Becomes, GatewayTypeOK

LEMMA OnTheirWayHold ==
  ASSUME NEW g, NEW role
  PROVE  /\ OnTheirWay(g, role) = {t \in Threads : Holds(call[t], g, role)}
         /\ OnTheirWay(g, role)' = {t \in Threads : Holds(call'[t], g, role)}
  BY DEF OnTheirWay, Counted, Holds, Uncounted, Provider

LEMMA OnTheirWayFinite ==
  ASSUME NEW g, NEW role
  PROVE  /\ IsFiniteSet(OnTheirWay(g, role)) /\ Cardinality(OnTheirWay(g, role)) \in Nat
         /\ IsFiniteSet(OnTheirWay(g, role)')
<1>1. OnTheirWay(g, role) \in SUBSET Threads /\ OnTheirWay(g, role)' \in SUBSET Threads
  BY OnTheirWayHold
<1>. QED
  BY <1>1, ThreadsAssumption, FS_Subset, FS_CardinalityType

(* How many are on their way, when one call changes.                       *)
LEMMA CountFollows ==
  ASSUME GatewayTypeOK, NEW t \in Threads, NEW c, Becomes(t, c), NEW g, NEW role
  PROVE  Cardinality(OnTheirWay(g, role))' =
           Cardinality(OnTheirWay(g, role))
             + (IF Holds(c, g, role) THEN 1 ELSE 0)
             - (IF Holds(call[t], g, role) THEN 1 ELSE 0)
<1>. DEFINE S == OnTheirWay(g, role)
            T == OnTheirWay(g, role)'
<1>1. call'[t] = c /\ \A u \in Threads \ {t} : call'[u] = call[u]
  BY BecomesOne
<1>2. /\ S = {u \in Threads : Holds(call[u], g, role)}
      /\ T = {u \in Threads : Holds(call'[u], g, role)}
  BY OnTheirWayHold
<1>3. IsFiniteSet(S) /\ Cardinality(S) \in Nat
  BY OnTheirWayFinite
<1>4. Cardinality(S)' = Cardinality(T)
  OBVIOUS
<1>5. CASE Holds(c, g, role) /\ ~Holds(call[t], g, role)
  <2>1. T = S \cup {t} /\ t \notin S
    BY <1>1, <1>2, <1>5
  <2>2. Cardinality(T) = Cardinality(S) + 1
    BY <2>1, <1>3, FS_AddElement
  <2>. QED
    BY <2>2, <1>3, <1>4, <1>5
<1>6. CASE ~Holds(c, g, role) /\ Holds(call[t], g, role)
  <2>1. T = S \ {t} /\ t \in S
    BY <1>1, <1>2, <1>6
  <2>2. Cardinality(T) = Cardinality(S) - 1
    BY <2>1, <1>3, FS_RemoveElement
  <2>. QED
    BY <2>2, <1>3, <1>4, <1>6
<1>7. CASE Holds(c, g, role) <=> Holds(call[t], g, role)
  <2>1. T = S
    BY <1>1, <1>2, <1>7
  <2>. QED
    BY <2>1, <1>3, <1>4, <1>7
<1>. QED
  BY <1>5, <1>6, <1>7

-----------------------------------------------------------------------------
(* A call that keeps its place in the count and the permits keeps all.     *)
LEMMA Uncounting ==
  ASSUME GatewayInv, NEW t \in Threads, NEW c, Becomes(t, c), UNCHANGED permits,
         c.pc # "idle" => Sensible(c),
         \A g \in Gateways, role \in Roles : Holds(c, g, role) <=> Holds(call[t], g, role)
  PROVE  GatewayInv'
<1>1. GatewayTypeOK'
  BY BecomesOne DEF GatewayInv, GatewayTypeOK
<1>2. ASSUME NEW u \in Threads, call'[u].pc # "idle"
      PROVE  Sensible(call[u])'
  <2>1. Sensible(call'[u])
    BY <1>2, BecomesOne DEF GatewayInv
  <2>. QED
    BY <2>1 DEF Sensible, Uncounted, Provider
<1>3. ASSUME NEW g \in Gateways, NEW role \in Roles
      PROVE  (permits[g][role] + Cardinality(OnTheirWay(g, role)) = MaxConcurrency(g, role))'
  <2>1. permits[g][role] + Cardinality(OnTheirWay(g, role)) = MaxConcurrency(g, role)
    BY DEF GatewayInv, PermitsCounted
  <2>2. Cardinality(OnTheirWay(g, role))' = Cardinality(OnTheirWay(g, role))
    BY CountFollows, OnTheirWayFinite DEF GatewayInv
  <2>. QED
    BY <2>1, <2>2 DEF MaxConcurrency
<1>. QED
  BY <1>1, <1>2, <1>3 DEF GatewayInv, PermitsCounted

(* The request is over: its permit, if it had one, is back.                *)
LEMMA ReleaseKeeps ==
  ASSUME GatewayInv, NEW t \in Threads, call[t].pc = "sent", NEW at \in {"read", "raised"},
         Step(t, at), Release(t)
  PROVE  GatewayInv'
<1>. DEFINE c == [call[t] EXCEPT !.pc = at]
<1>1. call[t] \in Called /\ at \in {"waiting", "sent", "read", "returned", "raised"}
  BY BusyIsCalled DEF GatewayInv
<1>2. /\ c \in Called /\ c.pc = at /\ c.gate = call[t].gate /\ c.op = call[t].op
      /\ c.role = call[t].role /\ c.left = call[t].left
  BY <1>1, AdvancedCall
<1>3. Becomes(t, c)
  BY <1>2 DEF Becomes, Step
<1>4. Sensible(c)
  <2>1. Sensible(call[t])
    BY DEF GatewayInv
  <2>. QED
    BY <1>2, <2>1 DEF Sensible
<1>5. \A g \in Gateways, role \in Roles : ~Holds(c, g, role)
  BY <1>2 DEF Holds
<1>. HIDE DEF c
<1>6. CASE ~Counted(t)
  <2>1. UNCHANGED permits
    BY <1>6 DEF Release
  <2>2. \A g \in Gateways, role \in Roles : ~Holds(call[t], g, role)
    BY <1>6 DEF Holds, Counted
  <2>. QED
    BY <1>3, <1>4, <1>5, <2>1, <2>2, Uncounting
<1>7. CASE Counted(t)
  <2>. DEFINE gate == call[t].gate
              role == call[t].role
  <2>1. gate \in Gateways /\ role \in Roles
    BY <1>1, CalledFields
  <2>2. permits \in [Gateways -> [Roles -> Nat]]
    BY DEF GatewayInv, GatewayTypeOK
  <2>3. permits' = [permits EXCEPT ![gate] = [permits[gate] EXCEPT ![role] = @ + 1]]
    BY <1>7 DEF Release
  <2>. HIDE DEF gate, role
  <2>4. /\ permits' \in [Gateways -> [Roles -> Nat]]
        /\ \A g \in Gateways, r \in Roles :
             permits'[g][r] = permits[g][r] + (IF g = gate /\ r = role THEN 1 ELSE 0)
    BY <2>1, <2>2, <2>3
  <2>5. \A g \in Gateways, r \in Roles : Holds(call[t], g, r) <=> (g = gate /\ r = role)
    BY <1>7 DEF Holds, Counted, gate, role
  <2>6. GatewayTypeOK'
    BY <1>3, <2>4, BecomesOne DEF GatewayInv, GatewayTypeOK
  <2>7. ASSUME NEW u \in Threads, call'[u].pc # "idle"
        PROVE  Sensible(call[u])'
    <3>1. Sensible(call'[u])
      BY <1>3, <1>4, <2>7, BecomesOne DEF GatewayInv
    <3>. QED
      BY <3>1 DEF Sensible, Uncounted, Provider
  <2>8. ASSUME NEW g \in Gateways, NEW r \in Roles
        PROVE  (permits[g][r] + Cardinality(OnTheirWay(g, r)) = MaxConcurrency(g, r))'
    <3>1. permits[g][r] + Cardinality(OnTheirWay(g, r)) = MaxConcurrency(g, r)
      BY DEF GatewayInv, PermitsCounted
    <3>2. Cardinality(OnTheirWay(g, r))' =
            Cardinality(OnTheirWay(g, r)) - (IF g = gate /\ r = role THEN 1 ELSE 0)
      BY <1>3, <1>5, <2>5, CountFollows, OnTheirWayFinite DEF GatewayInv
    <3>3. permits[g][r] \in Nat /\ Cardinality(OnTheirWay(g, r)) \in Nat
      BY <2>2, OnTheirWayFinite
    <3>. QED
      BY <2>4, <3>1, <3>2, <3>3 DEF MaxConcurrency
  <2>. QED
    BY <2>6, <2>7, <2>8 DEF GatewayInv, PermitsCounted
<1>. QED
  BY <1>6, <1>7

(* A call whose turn it is takes a permit; it is one that is counted.      *)
LEMMA AcquireKeeps ==
  ASSUME GatewayInv, NEW t \in Threads, Acquire(t)
  PROVE  GatewayInv'
<1>. DEFINE c == [call[t] EXCEPT !.pc = "sent"]
            gate == call[t].gate
            role == call[t].role
<1>0. call[t].pc = "waiting" /\ permits[gate][role] > 0
  BY DEF Acquire
<1>1. call[t] \in Called
  BY <1>0, BusyIsCalled DEF GatewayInv
<1>2. /\ c \in Called /\ c.pc = "sent" /\ c.gate = call[t].gate /\ c.op = call[t].op
      /\ c.role = call[t].role /\ c.left = call[t].left
  BY <1>1, AdvancedCall
<1>3. Becomes(t, c)
  BY <1>2 DEF Becomes, Step, Acquire
<1>4. Sensible(call[t])
  BY <1>0 DEF GatewayInv
<1>5. Sensible(c) /\ ~Uncounted(c.gate, c.op, c.role)
  BY <1>0, <1>2, <1>4 DEF Sensible
<1>6. gate \in Gateways /\ role \in Roles
  BY <1>1, CalledFields
<1>7. permits \in [Gateways -> [Roles -> Nat]]
  BY DEF GatewayInv, GatewayTypeOK
<1>8. permits' = [permits EXCEPT ![gate] = [permits[gate] EXCEPT ![role] = @ - 1]]
  BY DEF Acquire
<1>9. /\ \A g \in Gateways, r \in Roles : ~Holds(call[t], g, r)
      /\ \A g \in Gateways, r \in Roles : Holds(c, g, r) <=> (g = gate /\ r = role)
  BY <1>0, <1>2, <1>5 DEF Holds
<1>. HIDE DEF c, gate, role
<1>10. /\ permits' \in [Gateways -> [Roles -> Nat]]
       /\ \A g \in Gateways, r \in Roles :
            permits'[g][r] = permits[g][r] - (IF g = gate /\ r = role THEN 1 ELSE 0)
  BY <1>0, <1>6, <1>7, <1>8
<1>11. GatewayTypeOK'
  BY <1>3, <1>10, BecomesOne DEF GatewayInv, GatewayTypeOK
<1>12. ASSUME NEW u \in Threads, call'[u].pc # "idle"
       PROVE  Sensible(call[u])'
  <2>1. Sensible(call'[u])
    BY <1>3, <1>5, <1>12, BecomesOne DEF GatewayInv
  <2>. QED
    BY <2>1 DEF Sensible, Uncounted, Provider
<1>13. ASSUME NEW g \in Gateways, NEW r \in Roles
       PROVE  (permits[g][r] + Cardinality(OnTheirWay(g, r)) = MaxConcurrency(g, r))'
  <2>1. permits[g][r] + Cardinality(OnTheirWay(g, r)) = MaxConcurrency(g, r)
    BY DEF GatewayInv, PermitsCounted
  <2>2. Cardinality(OnTheirWay(g, r))' =
          Cardinality(OnTheirWay(g, r)) + (IF g = gate /\ r = role THEN 1 ELSE 0)
    BY <1>3, <1>9, CountFollows, OnTheirWayFinite DEF GatewayInv
  <2>3. permits[g][r] \in Nat /\ Cardinality(OnTheirWay(g, r)) \in Nat
    BY <1>7, OnTheirWayFinite
  <2>. QED
    BY <1>10, <2>1, <2>2, <2>3 DEF MaxConcurrency
<1>. QED
  BY <1>11, <1>12, <1>13 DEF GatewayInv, PermitsCounted

-----------------------------------------------------------------------------
(* A new call, counted only once it is on its way.                         *)
LEMMA OpenedKeeps ==
  ASSUME GatewayInv, NEW t \in Threads, NEW c \in Called, call[t] = NoCall,
         call' = [call EXCEPT ![t] = c], UNCHANGED permits, Sensible(c),
         c.pc = "sent" => Uncounted(c.gate, c.op, c.role)
  PROVE  GatewayInv'
<1>1. Becomes(t, c)
  BY DEF Becomes
<1>2. call[t].pc = "idle"
  BY DEF NoCall
<1>3. \A g \in Gateways, role \in Roles : Holds(c, g, role) <=> Holds(call[t], g, role)
  BY <1>2 DEF Holds
<1>. QED
  BY <1>1, <1>3, Uncounting

LEMMA AskKeeps ==
  ASSUME GatewayInv, NEW t \in Threads, NEW g \in Gateways, NEW op \in Operations,
         NEW role \in Roles, NEW n \in 0 .. MaxTexts, call[t] = NoCall,
         op = "embed" => role = "embedding" /\ n > 0,
         Ask(t, g, op, role, n), UNCHANGED permits
  PROVE  GatewayInv'
<1>. DEFINE at == IF Uncounted(g, op, role) THEN "sent" ELSE "waiting"
            c == Open(g, op, role, n, at)
<1>1. at \in {"waiting", "sent", "read", "returned", "raised"}
  OBVIOUS
<1>2. /\ c \in Called /\ c.pc = at /\ c.gate = g /\ c.op = op /\ c.role = role /\ c.left = n
  BY <1>1, OpenedCall
<1>3. call' = [call EXCEPT ![t] = c]
  BY DEF Ask
<1>. HIDE DEF c
<1>4. Sensible(c) /\ (c.pc = "sent" => Uncounted(c.gate, c.op, c.role))
  BY <1>2 DEF Sensible
<1>. QED
  BY <1>2, <1>3, <1>4, OpenedKeeps

(* A call that is over before its request.                                 *)
LEMMA EndedKeeps ==
  ASSUME GatewayInv, NEW t \in Threads, NEW g \in Gateways, NEW op \in Operations,
         NEW role \in Roles, NEW at \in {"returned", "raised"}, call[t] = NoCall,
         call' = [call EXCEPT ![t] = Open(g, op, role, 0, at)], UNCHANGED permits
  PROVE  GatewayInv'
<1>. DEFINE c == Open(g, op, role, 0, at)
<1>1. at \in {"waiting", "sent", "read", "returned", "raised"} /\ 0 \in 0 .. MaxTexts
  BY MaxTextsAssumption
<1>2. c \in Called /\ c.pc = at
  BY <1>1, OpenedCall
<1>3. Sensible(c) /\ c.pc # "sent"
  BY <1>2 DEF Sensible
<1>. QED
  BY <1>2, <1>3, OpenedKeeps

(* The answer is read, for good or in vain.                                *)
LEMMA ReadKeeps ==
  ASSUME GatewayInv, NEW t \in Threads, NEW at \in {"returned", "raised"},
         call[t].pc = "read", Step(t, at), UNCHANGED permits
  PROVE  GatewayInv'
<1>. DEFINE c == [call[t] EXCEPT !.pc = at]
<1>1. call[t] \in Called /\ at \in {"waiting", "sent", "read", "returned", "raised"}
  BY BusyIsCalled DEF GatewayInv
<1>2. c \in Called /\ c.pc = at
  BY <1>1, AdvancedCall
<1>3. Becomes(t, c)
  BY <1>2 DEF Becomes, Step
<1>. HIDE DEF c
<1>4. Sensible(c)
  BY <1>2 DEF Sensible
<1>5. \A g \in Gateways, role \in Roles : Holds(c, g, role) <=> Holds(call[t], g, role)
  BY <1>2 DEF Holds
<1>. QED
  BY <1>3, <1>4, <1>5, Uncounting

(* One vector less to come: only gemini is asked again.                    *)
LEMMA ReadEmbeddingsKeeps ==
  ASSUME GatewayInv, NEW t \in Threads, ReadEmbeddings(t)
  PROVE  GatewayInv'
<1>. DEFINE left == IF Uncounted(call[t].gate, "embed", "embedding") THEN call[t].left - 1 ELSE 0
            at == IF left = 0 THEN "returned" ELSE "sent"
            c == [call[t] EXCEPT !.pc = at, !.left = left]
<1>0. call[t].pc = "read" /\ call[t].op = "embed"
  BY DEF ReadEmbeddings
<1>1. call[t] \in Called
  BY <1>0, BusyIsCalled DEF GatewayInv
<1>2. call[t].role = "embedding" /\ call[t].left > 0
  BY <1>0 DEF GatewayInv, Sensible
<1>3. left \in 0 .. MaxTexts /\ at \in {"returned", "sent"}
  BY <1>1, <1>2, CalledFields, MaxTextsAssumption
<1>4. left > 0 => Uncounted(call[t].gate, "embed", "embedding")
  OBVIOUS
<1>5. left = 0 => at = "returned"
  OBVIOUS
<1>6. call' = [call EXCEPT ![t] = c] /\ UNCHANGED permits
  BY DEF ReadEmbeddings
<1>. HIDE DEF left, at
<1>7. /\ c \in Called /\ c.pc = at /\ c.left = left /\ c.gate = call[t].gate
      /\ c.op = call[t].op /\ c.role = call[t].role
  BY <1>1, <1>3 DEF Called
<1>. HIDE DEF c
<1>8. Sensible(c)
  BY <1>2, <1>3, <1>5, <1>7 DEF Sensible
<1>9. \A g \in Gateways, role \in Roles : Holds(c, g, role) <=> Holds(call[t], g, role)
  BY <1>0, <1>2, <1>3, <1>4, <1>5, <1>7 DEF Holds
<1>. QED
  BY <1>6, <1>7, <1>8, <1>9, Uncounting DEF Becomes

LEMMA ReturnKeeps ==
  ASSUME GatewayInv, NEW t \in Threads, Return(t)
  PROVE  GatewayInv'
<1>1. Becomes(t, NoCall) /\ UNCHANGED permits
  BY DEF Becomes, Return
<1>2. NoCall.pc = "idle" /\ call[t].pc \in {"returned", "raised"}
  BY DEF NoCall, Return
<1>3. \A g \in Gateways, role \in Roles : Holds(NoCall, g, role) <=> Holds(call[t], g, role)
  BY <1>2 DEF Holds
<1>. QED
  BY <1>1, <1>2, <1>3, Uncounting

-----------------------------------------------------------------------------
LEMMA GatewayInvInitially == GatewayInit => GatewayInv
<1>. SUFFICES ASSUME GatewayInit PROVE GatewayInv
  OBVIOUS
<1>1. \A t \in Threads : call[t] = NoCall /\ call[t].pc = "idle"
  BY DEF GatewayInit, NoCall
<1>2. GatewayTypeOK
  BY LimitIsPositive DEF GatewayInit, GatewayTypeOK
<1>3. \A g \in Gateways, role \in Roles :
        permits[g][role] = MaxConcurrency(g, role) /\ MaxConcurrency(g, role) \in Nat
  BY LimitIsPositive DEF GatewayInit
<1>4. ASSUME NEW g \in Gateways, NEW role \in Roles
      PROVE  Cardinality(OnTheirWay(g, role)) = 0
  <2>1. OnTheirWay(g, role) = {}
    BY <1>1, OnTheirWayHold DEF Holds
  <2>. QED
    BY <2>1, FS_EmptySet
<1>5. PermitsCounted
  BY <1>3, <1>4 DEF PermitsCounted
<1>. QED
  BY <1>1, <1>2, <1>5 DEF GatewayInv

LEMMA GatewayInvKept == GatewayInv /\ [GatewayNext]_gatewayVars => GatewayInv'
<1>. SUFFICES ASSUME GatewayInv, [GatewayNext]_gatewayVars PROVE GatewayInv'
  OBVIOUS
<1>1. ASSUME NEW t \in Threads, NEW g \in Gateways, NEW role \in {"text", "vision"},
             Structured(t, g, role)
      PROVE  GatewayInv'
  <2>1. role \in Roles /\ "structured" \in Operations /\ 0 \in 0 .. MaxTexts
    BY MaxTextsAssumption DEF Roles, Operations
  <2>. QED
    BY <1>1, <2>1, AskKeeps DEF Structured
<1>2. ASSUME NEW t \in Threads, NEW g \in Gateways, NEW role \in {"text", "vision"},
             RejectMessages(t, g, role)
      PROVE  GatewayInv'
  <2>1. role \in Roles /\ "structured" \in Operations
    BY DEF Roles, Operations
  <2>. QED
    BY <1>2, <2>1, EndedKeeps DEF RejectMessages
<1>3. ASSUME NEW t \in Threads, NEW g \in Gateways, NEW n \in 0 .. MaxTexts, Embed(t, g, n)
      PROVE  GatewayInv'
  <2>1. "embedding" \in Roles /\ "embed" \in Operations
    BY DEF Roles, Operations
  <2>2. CASE n = 0
    BY <1>3, <2>1, <2>2, EndedKeeps DEF Embed
  <2>3. CASE n # 0
    <3>1. n > 0
      BY <2>3, MaxTextsAssumption
    <3>. QED
      BY <1>3, <2>1, <2>3, <3>1, AskKeeps DEF Embed
  <2>. QED
    BY <2>2, <2>3
<1>4. ASSUME NEW t \in Threads, NEW g \in Gateways, Healthcheck(t, g)
      PROVE  GatewayInv'
  <2>1. "text" \in Roles /\ "health" \in Operations /\ 0 \in 0 .. MaxTexts
    BY MaxTextsAssumption DEF Roles, Operations
  <2>. QED
    BY <1>4, <2>1, AskKeeps DEF Healthcheck
<1>5. ASSUME NEW t \in Threads, ThreadStep(t)
      PROVE  GatewayInv'
  <2>1. ASSUME Acquire(t) PROVE GatewayInv'
    BY <2>1, AcquireKeeps
  <2>2. ASSUME RequestFails(t) PROVE GatewayInv'
    BY <2>2, ReleaseKeeps DEF RequestFails
  <2>3. ASSUME Respond(t) PROVE GatewayInv'
    BY <2>3, ReleaseKeeps DEF Respond
  <2>4. ASSUME Invalid(t) PROVE GatewayInv'
    BY <2>4, ReadKeeps DEF Invalid
  <2>5. ASSUME ReadBody(t) PROVE GatewayInv'
    BY <2>5, ReadKeeps DEF ReadBody
  <2>6. ASSUME ReadEmbeddings(t) PROVE GatewayInv'
    BY <2>6, ReadEmbeddingsKeeps
  <2>7. ASSUME Return(t) PROVE GatewayInv'
    BY <2>7, ReturnKeeps
  <2>. QED
    BY <1>5, <2>1, <2>2, <2>3, <2>4, <2>5, <2>6, <2>7 DEF ThreadStep
<1>6. ASSUME UNCHANGED gatewayVars PROVE GatewayInv'
  <2>1. call' = call /\ permits' = permits
    BY <1>6 DEF gatewayVars
  <2>2. GatewayTypeOK'
    BY <2>1 DEF GatewayInv, GatewayTypeOK
  <2>3. (\A t \in Threads : call[t].pc # "idle" => Sensible(call[t]))'
    BY <2>1 DEF GatewayInv, Sensible, Uncounted, Provider
  <2>4. \A g \in Gateways, role \in Roles : OnTheirWay(g, role)' = OnTheirWay(g, role)
    BY <2>1, OnTheirWayHold
  <2>5. PermitsCounted'
    BY <2>1, <2>4 DEF GatewayInv, PermitsCounted, MaxConcurrency
  <2>. QED
    BY <2>2, <2>3, <2>5 DEF GatewayInv
<1>. QED
  BY <1>1, <1>2, <1>3, <1>4, <1>5, <1>6 DEF GatewayNext

-----------------------------------------------------------------------------
(* Calls and permits stay well typed; in particular no call asks for fewer *)
(* than no vectors, and no permit count is negative.                       *)
THEOREM GatewayTypesHold == GatewaySpec => []GatewayTypeOK
<1>1. GatewayInv => GatewayTypeOK
  BY DEF GatewayInv
<1>. QED
  BY <1>1, GatewayInvInitially, GatewayInvKept, PTL DEF GatewaySpec

(* Whatever fails, the requests of a role that are on their way and the    *)
(* permits left for it make up the limit of the gateway (_request_json).   *)
THEOREM PermitsAlwaysCounted == GatewaySpec => []PermitsCounted
<1>1. GatewayInv => PermitsCounted
  BY DEF GatewayInv
<1>. QED
  BY <1>1, GatewayInvInitially, GatewayInvKept, PTL DEF GatewaySpec

(* So a gateway never has more requests of a role on their way than its    *)
(* limit, which is at least one.                                           *)
THEOREM LimitHolds ==
  GatewaySpec => [](\A g \in Gateways, role \in Roles :
                      Cardinality(OnTheirWay(g, role)) <= MaxConcurrency(g, role))
<1>1. ASSUME GatewayInv, NEW g \in Gateways, NEW role \in Roles
      PROVE  Cardinality(OnTheirWay(g, role)) <= MaxConcurrency(g, role)
  <2>1. permits[g][role] \in Nat /\ Cardinality(OnTheirWay(g, role)) \in Nat
    BY <1>1, OnTheirWayFinite DEF GatewayInv, GatewayTypeOK
  <2>2. permits[g][role] + Cardinality(OnTheirWay(g, role)) = MaxConcurrency(g, role)
    BY <1>1 DEF GatewayInv, PermitsCounted
  <2>. QED
    BY <2>1, <2>2
<1>2. GatewayInv => \A g \in Gateways, role \in Roles :
                      Cardinality(OnTheirWay(g, role)) <= MaxConcurrency(g, role)
  BY <1>1
<1>. QED
  BY <1>2, GatewayInvInitially, GatewayInvKept, PTL DEF GatewaySpec
=============================================================================
