--------------------------- MODULE ProviderMailbox ---------------------------
(***************************************************************************)
(* The Hiworks and the Naver mailbox: syncs that read the configured       *)
(* account over POP3 or IMAP into the database, the status shown of them,  *)
(* and the form that saves another Hiworks account                         *)
(* (app/services/hiworks_mail_service.py, naver_mail_service.py,           *)
(* app/integrations/hiworks/sync_client.py, naver/sync_client.py,          *)
(* server.ui_save_hiworks_account).                                        *)
(*                                                                         *)
(* Syncs run in threads of the server, the form in its event loop: a sync  *)
(* reads os.environ while the form sets it.  A POP3 session keeps the      *)
(* numbering of the mailbox; the next one may number it anew.  The server  *)
(* answers UIDL; without an answer the code takes the numbers for ids.     *)
(***************************************************************************)
EXTENDS Naturals, Sequences, SequencesExt

CONSTANTS
  Owners,       \* mail accounts of the provider
  NoOwner,      \* a variable that is not set
  Letters,      \* mails, which are also their own UIDs
  NoLetter,
  Syncs,        \* threads that serve the sync handlers
  MaxResults,   \* CORAMAIL_HIWORKS_MAX_RESULTS, CORAMAIL_NAVER_MAX_RESULTS
  MaxMailbox,   \* bound: mails on the server at a time
  MaxDeaths     \* bound: deaths of the server

ASSUME OwnersAssumption == NoOwner \notin Owners
ASSUME LettersAssumption == NoLetter \notin Letters
ASSUME LimitsAssumption == MaxResults \in Nat \ {0} /\ MaxMailbox \in Nat

Numbers == 1 .. MaxMailbox
Setting == Owners \cup {NoOwner}
Configuration == [address : Setting, password : Setting, username : Setting]

VARIABLES
  provider,     \* "hiworks" or "naver": does not change
  mailbox,      \* the mails of each account on the server, oldest first
  saved,        \* the account in .env
  env,          \* the account in os.environ, variable by variable
  form,         \* the account being saved and the variables still to set
  syncs,        \* control state of each sync
  runtime,      \* status of the service: "idle", "ok", "error"
  rows,         \* email_messages: the mail stored under account and id
  lastSynced,   \* the account of the provider that was synced last
  everSynced,   \* email_accounts: those synced at some time
  stale,        \* history: the last sync had begun before the form was saved
  torn,         \* history: accounts written by a sync that read env in between
  deaths

mailboxVars == <<provider, mailbox, saved, env, form, syncs, runtime, rows, lastSynced,
                 everSynced, stale, torn, deaths>>
world == <<provider, mailbox, deaths>>
stored == <<rows, lastSynced, everSynced>>

NoConfiguration == [address |-> NoOwner, password |-> NoOwner, username |-> NoOwner]
All(a) == [address |-> a, password |-> a, username |-> a]
NoForm == [account |-> NoOwner, todo |-> <<>>]
IdleSync == [pc |-> "idle", config |-> NoConfiguration, late |-> FALSE, torn |-> FALSE,
             drafts |-> {}]
Saving == form # NoForm

-----------------------------------------------------------------------------
(* The mail server.                                                        *)
Deliver(a, m) ==
  /\ Len(mailbox[a]) < MaxMailbox
  /\ \A b \in Owners : m \notin ToSet(mailbox[b]) \cup Range(rows[b])
  /\ \A s \in Syncs : \A draft \in syncs[s].drafts : draft.mail # m
  /\ mailbox' = [mailbox EXCEPT ![a] = Append(@, m)]
  /\ UNCHANGED <<provider, saved, env, form, syncs, runtime, stored, stale, torn, deaths>>
Expunge(a, i) ==
  /\ i \in DOMAIN mailbox[a]
  /\ mailbox' = [mailbox EXCEPT ![a] = SubSeq(@, 1, i - 1) \o SubSeq(@, i + 1, Len(@))]
  /\ UNCHANGED <<provider, saved, env, form, syncs, runtime, stored, stale, torn, deaths>>

-----------------------------------------------------------------------------
(* ui_save_hiworks_account: .env, then the variables one by one, then the  *)
(* status.                                                                 *)
SaveAccount(a) ==
  /\ provider = "hiworks" /\ ~Saving
  /\ saved' = a
  /\ form' = [account |-> a, todo |-> <<"address", "username", "password">>]
  /\ syncs' = [s \in Syncs |-> [syncs[s] EXCEPT !.torn = syncs[s].pc # "idle"]]
  /\ UNCHANGED <<world, env, runtime, stored, stale, torn>>
SetVariable ==
  /\ form.todo # <<>>
  /\ env' = [env EXCEPT ![Head(form.todo)] = form.account]
  /\ form' = [form EXCEPT !.todo = Tail(@)]
  /\ UNCHANGED <<world, saved, syncs, runtime, stored, stale, torn>>

(* Mutant: the status of the former account stays.                         *)
KeepRuntimeStatus == UNCHANGED runtime
(* reset_runtime_status                                                    *)
ResetRuntimeStatus == runtime' = "idle"
FinishSaving ==
  /\ Saving /\ form.todo = <<>>
  /\ ResetRuntimeStatus
  /\ form' = NoForm
  /\ syncs' = [s \in Syncs |-> [syncs[s] EXCEPT !.late = syncs[s].pc # "idle"]]
  /\ stale' = FALSE
  /\ UNCHANGED <<world, saved, env, stored, torn>>

-----------------------------------------------------------------------------
(* sync: from_env reads the address, the password and the user name; an    *)
(* account without a user name logs in with its address.                   *)
Step(s, at, record) == syncs[s].pc = at /\ syncs' = [syncs EXCEPT ![s] = record]
ReadAddress(s) ==
  /\ Step(s, "idle", [IdleSync EXCEPT !.pc = "password", !.config.address = env.address,
                                      !.torn = Saving])
  /\ UNCHANGED <<world, saved, env, form, runtime, stored, stale, torn>>
ReadPassword(s) ==
  /\ Step(s, "password", [syncs[s] EXCEPT !.pc = "username", !.config.password = env.password])
  /\ UNCHANGED <<world, saved, env, form, runtime, stored, stale, torn>>
ReadUsername(s) ==
  /\ Step(s, "username", [syncs[s] EXCEPT !.pc = "login", !.config.username = env.username])
  /\ UNCHANGED <<world, saved, env, form, runtime, stored, stale, torn>>

Login(config) ==
  config.address # NoOwner /\ config.password # NoOwner /\ config.username = config.password

(* _select_latest_message_numbers                                          *)
Selected(letters) ==
  {i \in DOMAIN letters : i > Len(letters) - MaxResults}

(* Mutant: the id is that of the place among the selected mails.           *)
IdAmongSelected(letters, i) == letters[1 + (i % Len(letters))]
(* _message_uid_map                                                        *)
IdOf(letters, i) == letters[i]

(* fetch_inbox_message_drafts                                              *)
DraftsOf(letters) ==
  {[id |-> IdOf(letters, i), mail |-> letters[i]] : i \in Selected(letters)}
FetchDrafts(s) ==
  LET config == syncs[s].config IN
  /\ Login(config)
  /\ Step(s, "login", [syncs[s] EXCEPT !.pc = "persist",
                         !.config = [NoConfiguration EXCEPT !.address = config.address],
                         !.drafts = DraftsOf(mailbox[config.username])])
  /\ UNCHANGED <<world, saved, env, form, runtime, stored, stale, torn>>

(* write_messages: one transaction, an upsert for each mail.               *)
Written(old, drafts) ==
  [id \in Letters |->
     LET new == {draft \in drafts : draft.id = id} IN
     IF new = {} THEN old[id] ELSE (CHOOSE draft \in new : TRUE).mail]
Persist(s) ==
  LET a == syncs[s].config.address IN
  /\ Step(s, "persist", [syncs[s] EXCEPT !.pc = "publish", !.drafts = {}])
  /\ rows' = [rows EXCEPT ![a] = Written(@, syncs[s].drafts)]
  /\ lastSynced' = a
  /\ everSynced' = everSynced \cup {a}
  /\ torn' = IF syncs[s].torn THEN torn \cup {a} ELSE torn
  /\ UNCHANGED <<world, saved, env, form, runtime, stale>>

Publish(s) ==
  /\ Step(s, "publish", IdleSync)
  /\ runtime' = "ok"
  /\ stale' = (syncs[s].late \/ syncs[s].torn)
  /\ UNCHANGED <<world, saved, env, form, stored, torn>>

(* _record_failure: validate, the login, the connection or the database.   *)
RecordFailure(s) ==
  /\ Step(s, syncs[s].pc, IdleSync) /\ syncs[s].pc \in {"login", "persist"}
  /\ runtime' = "error"
  /\ UNCHANGED <<world, saved, env, form, stored, stale, torn>>

(* The server dies; an operator may have changed the account in .env.      *)
Reboot(a) ==
  /\ deaths < MaxDeaths
  /\ deaths' = deaths + 1
  /\ saved' \in {saved, a} /\ env' = All(saved')
  /\ form' = NoForm
  /\ syncs' = [s \in Syncs |-> IdleSync]
  /\ runtime' = "idle"
  /\ stale' = FALSE
  /\ UNCHANGED <<provider, mailbox, stored, torn>>

MailboxInit ==
  /\ provider \in {"hiworks", "naver"}
  /\ mailbox = [a \in Owners |-> <<>>]
  /\ saved \in Setting /\ env = All(saved)
  /\ form = NoForm
  /\ syncs = [s \in Syncs |-> IdleSync]
  /\ runtime = "idle"
  /\ rows = [a \in Owners |-> [id \in Letters |-> NoLetter]]
  /\ lastSynced = NoOwner /\ everSynced = {}
  /\ stale = FALSE /\ torn = {} /\ deaths = 0

MailboxNext ==
  \/ \E a \in Owners :
       \/ \E m \in Letters : Deliver(a, m)
       \/ \E i \in Numbers : Expunge(a, i)
       \/ SaveAccount(a) \/ Reboot(a)
  \/ SetVariable \/ FinishSaving
  \/ \E s \in Syncs :
       \/ ReadAddress(s) \/ ReadPassword(s) \/ ReadUsername(s)
       \/ FetchDrafts(s) \/ Persist(s) \/ Publish(s) \/ RecordFailure(s)

MailboxSpec == MailboxInit /\ [][MailboxNext]_mailboxVars

-----------------------------------------------------------------------------
(* public_status: after a restart the last sync in the database counts;    *)
(* Hiworks asks whether it was of the configured account.                  *)
PersistedCounts ==
  lastSynced # NoOwner /\ (provider = "hiworks" => env.address \in {NoOwner, lastSynced})
ShownConnected ==
  /\ env.address # NoOwner /\ env.password # NoOwner
  /\ runtime = "ok" \/ (runtime = "idle" /\ PersistedCounts)

(* Hiworks is shown as connected only if the account now configured was    *)
(* once synced, whichever accounts were saved, synced and restarted        *)
(* before; unless the last sync to end had begun before that account was   *)
(* saved (reset_runtime_status against sync).                              *)
ConnectedWasSynced ==
  provider = "hiworks" /\ ~Saving /\ ~stale /\ ShownConnected => env.address \in everSynced

(* What is stored of an account are mails of its own mailbox, each under   *)
(* its own id, whatever arrived and was deleted between two syncs; unless  *)
(* the account was once synced while the form was being saved              *)
(* (_message_uid_map, from_env).                                           *)
StoredOf(a) == Range(rows[a]) \ {NoLetter}
RowsOfOwnMailbox ==
  \A a \in Owners \ torn :
    /\ \A id \in Letters : rows[a][id] \in {id, NoLetter}
    /\ \A b \in Owners \ {a} : StoredOf(a) \cap ToSet(mailbox[b]) = {}
    /\ \A b \in Owners \ (torn \cup {a}) : StoredOf(a) \cap StoredOf(b) = {}
=============================================================================
