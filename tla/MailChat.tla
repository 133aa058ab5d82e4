------------------------------ MODULE MailChat -------------------------------
(***************************************************************************)
(* The chats of the dashboard: sessions kept in the memory of the server   *)
(* and in the pages of their users (app/services/mail_chat_service.py),    *)
(* and the search each question runs (app/services/mail_search_service.py) *)
(* with its calls of the language model (app/llm/gateway.py) and the       *)
(* embedding cache that all searches of the process share.                 *)
(*                                                                         *)
(* Requests run in threads of the server.  Only the dictionary of sessions *)
(* has a lock.  The calls that rewrite the question and rerank what was    *)
(* found are left out: they order the candidates, and the order is free.   *)
(***************************************************************************)
EXTENDS MailSearch

CONSTANTS
  SessionIds,
  NoId,
  Pages,           \* open pages of chats; each has one request at a time
  MaxSessions,     \* max_sessions
  HistoryMax,      \* CHAT_HISTORY_MAX_TURNS
  ClientMax,       \* CHAT_CLIENT_HISTORY_MAX_TURNS
  CacheMax,        \* SEARCH_EMBEDDING_CACHE_MAX_ITEMS
  MaxChanges,      \* bound: documents that come or go
  MaxAsks          \* bound: questions asked

ASSUME SizesAssumption ==
  /\ MaxSessions \in Nat \ {0} /\ HistoryMax \in Nat \ {0} /\ CacheMax \in Nat \ {0}
  /\ ClientMax \in 1 .. HistoryMax
  /\ MaxChanges \in Nat /\ MaxAsks \in Nat
ASSUME NoIdAssumption == NoId \notin SessionIds
ASSUME PagesAssumption == IsFiniteSet(Pages)

(* MailChatSession objects: those in the store, and those that requests    *)
(* still hold.                                                             *)
Object == 1 .. MaxSessions + 1 + Cardinality(Pages)

VARIABLES
  mailbox,   \* the documents search_documents returns
  store,     \* _sessions: the MailChatSession of each id, 0 for none
  used,      \* ids in the store in order of updated_at
  turns,     \* the turns of each MailChatSession
  cache,     \* the embedding cache: documents in order of insertion
  page,      \* what each page has: the session id and its compact history
  ask,       \* control state of the request of each page
  visited,   \* history: which page has had which session
  changes,   \* bound: changes of the mailbox
  asks       \* bound: questions asked

vars == <<mailbox, store, used, turns, cache, page, ask, visited, changes, asks>>
sessionVars == <<store, used, turns>>

NoPlan == [intent |-> "document_qa", words |-> FALSE]
NoQuestion == [ids |-> {}, words |-> FALSE, content |-> FALSE, field |-> FALSE, order |-> FALSE,
               follows |-> FALSE, short |-> FALSE, many |-> FALSE, body |-> FALSE]

(* A request: seen are the turns it goes by, docs the documents it may use *)
(* (all, the eligible ones, then the candidates), key what it is about to  *)
(* evict, spare whether the cache has had room for it and no other writer, *)
(* from what its results come from.                                        *)
Idle == [pc |-> "idle", object |-> 0, q |-> NoQuestion, seen |-> <<>>, plan |-> NoPlan,
         required |-> {}, docs |-> {}, key |-> {}, spare |-> TRUE, results |-> {},
         from |-> "none", list |-> <<>>]
Ask == [pc: {"idle", "restore", "read", "plan", "embed_query", "embed_documents", "evict",
             "pop", "score", "answer", "context", "append", "slice", "assign"},
        object: Object \cup {0}, q: Question, seen: Seq(Turn), plan: Plan,
        required: SUBSET (Mails \cup Refs), docs: SUBSET Documents, key: SUBSET Documents,
        spare: BOOLEAN, results: SUBSET Documents,
        from: {"none", "mailbox", "context", "no_model", "no_vector"}, list: Seq(Turn)]

Init ==
  /\ mailbox \in SUBSET Documents
  /\ store = [s \in SessionIds |-> 0]
  /\ used = <<>>
  /\ turns = [o \in Object |-> <<>>]
  /\ cache = <<>>
  /\ page = [p \in Pages |-> [id |-> NoId, history |-> <<>>]]
  /\ ask = [p \in Pages |-> Idle]
  /\ visited = {}
  /\ changes = 0 /\ asks = 0

At(p, pc) == ask[p].pc = pc
Cached == ToSet(cache)

(* Mails arrive, are analysed again (another document) and go.             *)
MailboxChanges ==
  /\ changes < MaxChanges /\ changes' = changes + 1
  /\ \E d \in Documents : mailbox' = IF d \in mailbox THEN mailbox \ {d} ELSE mailbox \cup {d}
  /\ UNCHANGED <<sessionVars, cache, page, ask, visited, asks>>

-----------------------------------------------------------------------------
(* Sessions.                                                               *)

Stored(o) == \E s \in SessionIds : store[s] = o
Held(o) == \E p \in Pages : ask[p].object = o
FreeObjects == {o \in Object : ~Stored(o) /\ ~Held(o)}

(* get_or_create, under its lock: a new session is put in the store, and   *)
(* the one updated longest ago leaves when they are too many.  Neither     *)
(* looking a session up nor asking it counts as an update, its answer does.*)
GetOrCreate(s, o) ==
  IF store[s] # 0 THEN o = store[s] /\ UNCHANGED sessionVars
  ELSE /\ o = CHOOSE new \in FreeObjects : TRUE
       /\ IF Len(used) < MaxSessions
          THEN /\ used' = Append(used, s)
               /\ store' = [store EXCEPT ![s] = o]
               /\ turns' = turns
          ELSE /\ used' = Append(Tail(used), s)
               /\ store' = [store EXCEPT ![s] = o, ![Head(used)] = 0]
               /\ turns' = IF Held(store[Head(used)]) THEN turns
                           ELSE [turns EXCEPT ![store[Head(used)]] = <<>>]

(* updated_at of the object, which may have left the store.                *)
Touch(o) ==
  used' = IF Stored(o)
          THEN LET s == CHOOSE x \in SessionIds : store[x] = o
               IN Append(RemoveAt(used, CHOOSE i \in DOMAIN used : used[i] = s), s)
          ELSE used

(* A page is opened, new or with the id of a session in its URL.           *)
Load(p, s) ==
  /\ At(p, "idle")
  /\ \E o \in Object :
       /\ GetOrCreate(s, o)
       /\ page' = [page EXCEPT ![p] = [id |-> s, history |-> LastOf(ClientMax, turns'[o])]]
  /\ visited' = visited \cup {<<p, s>>}
  /\ UNCHANGED <<mailbox, changes, cache, ask, asks>>

(* ask; a session without turns is restored from what the page has.        *)
AskQuestion(p, q) ==
  /\ At(p, "idle") /\ page[p].id # NoId
  /\ asks < MaxAsks /\ asks' = asks + 1
  /\ \E o \in Object :
       /\ GetOrCreate(page[p].id, o)
       /\ ask' = [ask EXCEPT ![p] = [Idle EXCEPT !.object = o, !.q = q,
            !.pc = IF turns'[o] = <<>> /\ page[p].history # <<>> THEN "restore" ELSE "read"]]
  /\ UNCHANGED <<mailbox, changes, cache, page, visited>>

(* Mutant: the compact history is not used.                                *)
RestoreNothing(p) ==
  /\ At(p, "restore")
  /\ ask' = [ask EXCEPT ![p].pc = "read"]
  /\ UNCHANGED <<mailbox, changes, sessionVars, cache, page, visited, asks>>

RestoreCompactHistory(p) ==
  /\ At(p, "restore")
  /\ turns' = [turns EXCEPT ![ask[p].object] = LastOf(HistoryMax, @ \o page[p].history)]
  /\ Touch(ask[p].object)
  /\ ask' = [ask EXCEPT ![p].pc = "read"]
  /\ UNCHANGED <<mailbox, changes, store, cache, page, visited, asks>>

ReadTurns(p) ==
  LET now == turns[ask[p].object] IN
  /\ At(p, "read")
  /\ ask' = [ask EXCEPT ![p].pc = "plan", ![p].seen = now,
                        ![p].q = ResolveSearchQuery(ask[p].q, now)]
  /\ UNCHANGED <<mailbox, changes, sessionVars, cache, page, visited, asks>>

(* append: the turn is added to the list, the end of the list copied, and  *)
(* the copy made the list.  Another request may append in between.         *)
AppendTurn(p) ==
  LET turn == [ids |-> ask[p].q.ids, results |-> ask[p].results,
               error |-> ask[p].from \in {"no_model", "no_vector"}]
  IN
  /\ At(p, "append")
  /\ turns' = [turns EXCEPT ![ask[p].object] = Append(@, turn)]
  /\ ask' = [ask EXCEPT ![p] = [Idle EXCEPT !.pc = "slice", !.object = ask[p].object]]
  /\ UNCHANGED <<mailbox, changes, store, used, cache, page, visited, asks>>

SliceTurns(p) ==
  /\ At(p, "slice")
  /\ ask' = [ask EXCEPT ![p].pc = "assign", ![p].list = LastOf(HistoryMax, turns[ask[p].object])]
  /\ UNCHANGED <<mailbox, changes, sessionVars, cache, page, visited, asks>>

AssignAndSend(p, history) ==
  /\ At(p, "assign")
  /\ turns' = [turns EXCEPT ![ask[p].object] =
                 IF Stored(ask[p].object) \/ \E o \in Pages \ {p} : ask[o].object = ask[p].object
                 THEN ask[p].list ELSE <<>>]
  /\ Touch(ask[p].object)
  /\ page' = [page EXCEPT ![p].history = history]
  /\ ask' = [ask EXCEPT ![p] = Idle]
  /\ UNCHANGED <<mailbox, changes, store, cache, visited, asks>>

(* The answer goes to the page with the last turns of the session.         *)
AssignTurns(p) == AssignAndSend(p, LastOf(ClientMax, ask[p].list))

-----------------------------------------------------------------------------
(* The search.  A call of the model that fails is answered by a fallback,  *)
(* but for the embeddings, and an error ends as the answer of the turn.    *)

Found(p, results, from) ==
  ask' = [ask EXCEPT ![p].pc = "append", ![p].results = results, ![p].from = from, ![p].plan = NoPlan]
Candidates(p, plan, docs) ==
  ask' = [ask EXCEPT ![p].pc = IF docs = {} THEN "context" ELSE "answer",
                     ![p].plan = plan, ![p].docs = docs]

PlanQuery(p) ==
  LET q == ask[p].q
      required == RequiredIdentifiers(q, ask[p].seen)
  IN
  /\ At(p, "plan")
  /\ \E plan \in Plans(q) :
       IF plan.intent = "mailbox_lookup" THEN \E c \in Lookups(mailbox) : Candidates(p, plan, c)
       ELSE IF ~HasTerms(q, plan, required) \/ OutOfScope(required, mailbox)
       THEN Found(p, {}, "mailbox")
       ELSE ask' = [ask EXCEPT
              ![p].pc = IF Eligible(q, required, mailbox) = {} THEN "context" ELSE "embed_query",
              ![p].plan = plan, ![p].required = required,
              ![p].docs = Eligible(q, required, mailbox)]
  /\ UNCHANGED <<mailbox, changes, sessionVars, cache, page, visited, asks>>

EmbeddingFails(p) ==
  /\ ask[p].pc \in {"embed_query", "embed_documents"}
  /\ Found(p, {}, "no_model")
  /\ UNCHANGED <<mailbox, changes, sessionVars, cache, page, visited, asks>>

EmbedQuery(p) ==
  /\ At(p, "embed_query")
  /\ ask' = [ask EXCEPT
       ![p].pc = IF ask[p].docs \subseteq Cached THEN "score" ELSE "embed_documents",
       ![p].key = ask[p].docs \ Cached,
       ![p].spare = Cardinality(Cached \cup ask[p].docs) <= CacheMax]
  /\ UNCHANGED <<mailbox, changes, sessionVars, cache, page, visited, asks>>

(* Others whose search goes on beside a write to the cache.                *)
Beside(p) ==
  {o \in Pages \ {p} : ask[o].pc \in {"embed_documents", "evict", "pop", "score"}}

(* A key that is there by now keeps its place.                             *)
EmbedDocuments(p) ==
  /\ At(p, "embed_documents")
  /\ cache' = cache \o SetToSeq(ask[p].key \ Cached)
  /\ ask' = [o \in Pages |->
       IF o = p THEN [ask[p] EXCEPT !.pc = "evict", !.key = {},
                                    !.spare = @ /\ Len(cache') <= CacheMax]
       ELSE IF o \in Beside(p) THEN [ask[o] EXCEPT !.spare = FALSE] ELSE ask[o]]
  /\ UNCHANGED <<mailbox, changes, sessionVars, page, visited, asks>>

EvictAbove(p, size) ==
  /\ At(p, "evict")
  /\ ask' = [ask EXCEPT ![p].pc = IF Len(cache) > size THEN "pop" ELSE "score",
                        ![p].key = IF Len(cache) > size THEN {Head(cache)} ELSE {}]
  /\ UNCHANGED <<mailbox, changes, sessionVars, cache, page, visited, asks>>

(* Mutant: a full cache makes room before it is needed.                    *)
EvictEarly(p) == EvictAbove(p, CacheMax - 1)
(* The loop that evicts: the oldest key is read, then popped.              *)
Evict(p) == EvictAbove(p, CacheMax)

Pop(p) ==
  /\ At(p, "pop")
  /\ IF ask[p].key \subseteq Cached
     THEN /\ cache' = RemoveAt(cache, CHOOSE i \in DOMAIN cache : cache[i] \in ask[p].key)
          /\ ask' = [o \in Pages |->
               IF o = p THEN [ask[p] EXCEPT !.pc = "evict", !.key = {}]
               ELSE IF o \in Beside(p) THEN [ask[o] EXCEPT !.spare = FALSE] ELSE ask[o]]
     ELSE cache' = cache /\ Found(p, {}, "no_vector")
  /\ UNCHANGED <<mailbox, changes, sessionVars, page, visited, asks>>

Score(p) ==
  /\ At(p, "score")
  /\ IF ask[p].docs \subseteq Cached
     THEN Candidates(p, ask[p].plan, Ranked(ask[p].required, ask[p].docs))
     ELSE Found(p, {}, "no_vector")
  /\ UNCHANGED <<mailbox, changes, sessionVars, cache, page, visited, asks>>

Answer(p) ==
  LET r == ask[p] IN
  /\ At(p, "answer")
  /\ \E results \in IF r.plan.intent = "mailbox_lookup" THEN LookupAnswers(r.q, r.docs)
                    ELSE DocumentAnswers(r.q, r.required, r.docs) :
       Found(p, results, "mailbox")
  /\ UNCHANGED <<mailbox, changes, sessionVars, cache, page, visited, asks>>

AnswerFromContext(p) ==
  /\ At(p, "context")
  /\ \E results \in ContextAnswers(ask[p].q, ask[p].plan, ask[p].seen) :
       Found(p, results, IF results = {} THEN "mailbox" ELSE "context")
  /\ UNCHANGED <<mailbox, changes, sessionVars, cache, page, visited, asks>>

-----------------------------------------------------------------------------
(* The server restarts: sessions, cache and requests are gone, the pages   *)
(* keep what they have.                                                    *)
Restart ==
  /\ store' = [s \in SessionIds |-> 0] /\ used' = <<>>
  /\ turns' = [o \in Object |-> <<>>]
  /\ cache' = <<>>
  /\ ask' = [p \in Pages |-> Idle]
  /\ UNCHANGED <<mailbox, changes, page, visited, asks>>

SessionStep(p) ==
  RestoreCompactHistory(p) \/ ReadTurns(p) \/ AppendTurn(p) \/ SliceTurns(p) \/ AssignTurns(p)
SearchStep(p) ==
  \/ PlanQuery(p) \/ EmbedQuery(p) \/ EmbedDocuments(p) \/ EmbeddingFails(p)
  \/ Evict(p) \/ Pop(p) \/ Score(p) \/ Answer(p) \/ AnswerFromContext(p)

Next ==
  \/ MailboxChanges
  \/ \E p \in Pages :
       \/ \E s \in SessionIds : Load(p, s)
       \/ \E q \in Questions : AskQuestion(p, q)
       \/ SessionStep(p) \/ SearchStep(p)
  \/ Restart
Spec == Init /\ [][Next]_vars

-----------------------------------------------------------------------------
(* Sessions, pages, requests and the cache stay within their types, the    *)
(* turns of a session and of a page within their limits.                   *)
TypeOK ==
  /\ mailbox \subseteq Documents
  /\ store \in [SessionIds -> Object \cup {0}]
  /\ used \in Seq(SessionIds)
  /\ turns \in [Object -> Seq(Turn)]
  /\ \A o \in Object : Len(turns[o]) <= HistoryMax + Cardinality(Pages)
  /\ cache \in Seq(Documents)
  /\ page \in [Pages -> [id: SessionIds \cup {NoId}, history: Seq(Turn)]]
  /\ \A p \in Pages : Len(page[p].history) <= ClientMax
  /\ ask \in [Pages -> Ask]
  /\ visited \subseteq Pages \X SessionIds
  /\ changes \in 0 .. MaxChanges /\ asks \in 0 .. MaxAsks

(* The session a page asks may leave the store while it is asked, or with  *)
(* a restart, and come back empty: still the search sees the turns that    *)
(* the page shows, in their order, unless another page uses the session.   *)
Alone(p) == \A o \in Pages \ {p} : <<o, page[p].id>> \notin visited
ContextContinues ==
  \A p \in Pages :
    ask[p].pc \notin {"idle", "restore", "read", "slice", "assign"} /\ Alone(p) =>
      IsSuffix(page[p].history, ask[p].seen)

(* Evidence from the mailbox names every identifier that the question or,  *)
(* by reference, its context requires, whatever the model selects and      *)
(* whichever fallback answers.                                             *)
IdentifiersHonoured ==
  \A p \in Pages :
    ask[p].from = "mailbox" => \A d \in ask[p].results : ask[p].required \subseteq Names(d)

(* A follow-up about the one mail the last turns have shown finds it, if   *)
(* the mailbox has it: the planner cannot turn it into a lookup, nor the   *)
(* model answer it without evidence.  It may fail, but not for no reason.  *)
FollowUpFindsMail ==
  \A p \in Pages :
    LET r == ask[p] IN
    r.pc = "append" /\ r.from = "mailbox" /\ r.q.follows /\ r.q.content /\ r.docs # {}
      /\ Cardinality(r.q.ids) = 1 /\ r.q.ids \subseteq Mails
      => r.results # {}

(* A search fails for want of a vector only beside another search that     *)
(* writes to the cache, or when the cache cannot hold its documents beside *)
(* the ones it has (evicting the oldest, it evicts what it needs).         *)
VectorsServed ==
  \A p \in Pages : ask[p].from = "no_vector" => ~ask[p].spare

(* What the server keeps of chats is bounded however searches and sessions *)
(* overlap: once no search is evicting, the cache is within its limit; the *)
(* store has at most as many sessions as it may, and the order of updates  *)
(* names exactly the sessions that it has.                                 *)
MemoryBounded ==
  /\ (\A p \in Pages : ask[p].pc \notin {"evict", "pop"}) => Len(cache) <= CacheMax
  /\ Len(used) <= MaxSessions
  /\ \A s \in SessionIds : store[s] # 0 <=> s \in ToSet(used)
  /\ \A s, t \in SessionIds : store[s] = store[t] /\ store[s] # 0 => s = t
=============================================================================
