---------------------------- MODULE GmailAccount ----------------------------
(***************************************************************************)
(* Which Gmail account is connected: the account file, the token file, the *)
(* line GOOGLE_TOKEN_JSON of .env and the environment of the server        *)
(* (app/repositories/gmail_account_repository.py), written step by step,   *)
(* without a lock, by the handlers of the settings page                    *)
(* (app/ui/settings_handlers.py), by the OAuth callback and by whatever    *)
(* asks Gmail with an expired token (integrations/gmail/sync_client.py).   *)
(*                                                                         *)
(* A token is that of one address; a pasted one may name it, one that was  *)
(* granted does not.  Client configuration, scopes and the send token,     *)
(* which only the page shows, are left out.                                *)
(***************************************************************************)
EXTENDS Naturals, Sequences

CONSTANTS
  Addresses,    \* the Gmail accounts there are
  Nobody,       \* no address is known
  NoToken,      \* no line, no variable, no file
  Unreadable,   \* a token file cut off by a crash
  NoAccount,    \* no account file, or one that cannot be read
  Handlers,     \* threads that serve requests
  MaxRestarts   \* bound: deaths of the server

Token == [of : Addresses, named : BOOLEAN]
Account == [email : Addresses \cup {Nobody}, status : {"active", "error", "disabled"}]

ASSUME NoneAssumption ==
  /\ Nobody \notin Addresses
  /\ NoToken \notin Token /\ Unreadable \notin Token /\ NoToken # Unreadable
  /\ NoAccount \notin Account
ASSUME RestartsAssumption == MaxRestarts \in Nat

VARIABLES
  dotenvExists, \* whether there is a .env: does not change
  dotenv,       \* GOOGLE_TOKEN_JSON in .env
  environ,      \* and in os.environ
  tokenFile,    \* gmail_token.json
  account,      \* gmail_account.json
  known,        \* the service remembers an address (_account)
  handler,      \* what each handler has to do
  mixed,        \* history: the last connection did not go undisturbed
  restarts

files == <<dotenv, environ, tokenFile, account>>
accountVars == <<dotenvExists, files, known, handler, mixed, restarts>>

-----------------------------------------------------------------------------
(* What is read.                                                           *)

IsToken(t) == t \in Token

(* _current_env_value: the line wins, and is copied to os.environ.         *)
EnvToken == IF dotenv # NoToken THEN dotenv ELSE environ

(* primary_token_info, _load_credentials                                   *)
UsedToken == IF EnvToken # NoToken THEN EnvToken ELSE tokenFile

(* public_status                                                           *)
Connected ==
  \/ IsToken(UsedToken)
  \/ tokenFile # NoToken /\ account # NoAccount /\ account.status # "disabled"
ShownEmail ==
  CASE IsToken(UsedToken) /\ UsedToken.named -> UsedToken.of
    [] Connected /\ account # NoAccount -> account.email
    [] OTHER -> Nobody
CanDisconnect == Connected /\ EnvToken = NoToken

-----------------------------------------------------------------------------
(* Handlers.  todo lists the steps that are left, token is the one a       *)
(* handler connects or uses, email what it will write with it, read the    *)
(* account file it has read.                                               *)

Idle == [op |-> "none", todo |-> <<>>, token |-> NoToken, email |-> Nobody, read |-> NoAccount]
Handler == [op : {"none", "connect", "disconnect", "refused", "sync", "failed_sync", "identify"},
            todo : Seq({"file", "env", "refresh", "unlink", "account", "fetch", "read", "write"}),
            token : Token \cup {NoToken},
            email : Addresses \cup {Nobody},
            read : Account \cup {NoAccount}]
Busy(h) == handler[h].op # "none"
Connecting == \E h \in Handlers : handler[h].op = "connect"

(* Mutant: .env and the environment keep the token of another account.     *)
GrantedStepsFileOnly == <<"file", "account">>
(* save_connected_account, save_existing_tokens                            *)
GrantedSteps == <<"file", "env", "account">>
PastedSteps == <<"env", "file", "account">>

Start(h, op, todo, token, email) ==
  /\ ~Busy(h)
  /\ handler' = [handler EXCEPT ![h] =
                   [op |-> op, todo |-> todo, token |-> token, email |-> email, read |-> NoAccount]]
  /\ mixed' = IF op = "connect" THEN \E other \in Handlers : Busy(other) ELSE mixed \/ Connecting
  /\ UNCHANGED <<dotenvExists, files, known, restarts>>

(* gmail_oauth_callback: the profile of the account may not be found.      *)
ConnectGranted(h, a) ==
  \E email \in {a, Nobody} : Start(h, "connect", GrantedSteps, [of |-> a, named |-> FALSE], email)
OauthFails(h) == Start(h, "refused", <<"read", "write">>, NoToken, Nobody)
(* save_gmail_tokens                                                       *)
ConnectPasted(h, a) ==
  \E named \in BOOLEAN :
    Start(h, "connect", PastedSteps, [of |-> a, named |-> named], IF named THEN a ELSE Nobody)
Disconnect(h) == CanDisconnect /\ Start(h, "disconnect", <<"unlink", "read", "write">>, NoToken, Nobody)

(* build_gmail_service, with a token that is expired or not.               *)
UseToken(h, op, rest) ==
  /\ IsToken(UsedToken)
  /\ \E refresh \in {<<>>, <<"refresh", "file">>} :
       Start(h, op, refresh \o rest, UsedToken, UsedToken.of)
(* A sync asks Gmail; status does, as long as no address is known.         *)
Sync(h) == UseToken(h, "sync", <<"fetch", "read", "write">>)
Identify(h) == Connected /\ ShownEmail = Nobody /\ ~known /\ UseToken(h, "identify", <<"read", "write">>)
SyncWithoutToken(h) ==
  ~IsToken(UsedToken) /\ Start(h, "failed_sync", <<"read", "write">>, NoToken, Nobody)

Advanced(h) == [handler[h] EXCEPT !.todo = Tail(@)]
AtStep(h, step) == handler[h].todo # <<>> /\ Head(handler[h].todo) = step
Done(h) == handler' = [handler EXCEPT ![h] = IF Len(handler[h].todo) = 1 THEN Idle ELSE Advanced(h)]

StoreTokenFile(h) ==
  /\ AtStep(h, "file")
  /\ tokenFile' = handler[h].token
  /\ Done(h)
  /\ UNCHANGED <<dotenvExists, dotenv, environ, account, known, mixed, restarts>>

(* _persist_json_env of the repository: nothing at all without .env.       *)
StoreEnv(h) ==
  /\ AtStep(h, "env")
  /\ dotenv' = IF dotenvExists THEN handler[h].token ELSE dotenv
  /\ environ' = IF dotenvExists THEN handler[h].token ELSE environ
  /\ Done(h)
  /\ UNCHANGED <<dotenvExists, tokenFile, account, known, mixed, restarts>>

(* _persist_json_env of the sync client: the environment in any case.      *)
StoreRefreshed(h) ==
  /\ AtStep(h, "refresh")
  /\ environ' = handler[h].token
  /\ dotenv' = IF dotenvExists THEN handler[h].token ELSE dotenv
  /\ Done(h)
  /\ UNCHANGED <<dotenvExists, tokenFile, account, known, mixed, restarts>>

StoreAccount(h) ==
  /\ AtStep(h, "account")
  /\ account' = [email |-> handler[h].email, status |-> "active"]
  /\ Done(h)
  /\ UNCHANGED <<dotenvExists, dotenv, environ, tokenFile, known, mixed, restarts>>

UnlinkTokenFile(h) ==
  /\ AtStep(h, "unlink")
  /\ tokenFile' = NoToken
  /\ Done(h)
  /\ UNCHANGED <<dotenvExists, dotenv, environ, account, known, mixed, restarts>>

FetchMails(h) ==
  /\ AtStep(h, "fetch")
  /\ known' = TRUE
  /\ Done(h)
  /\ UNCHANGED <<dotenvExists, files, mixed, restarts>>

ReadAccount(h) ==
  /\ AtStep(h, "read")
  /\ handler' = [handler EXCEPT ![h] = [Advanced(h) EXCEPT !.read = account]]
  /\ UNCHANGED <<dotenvExists, files, known, mixed, restarts>>

(* disconnect, record_oauth_error, update_sync_result, save_account_identity *)
Updated(op, read, email) ==
  LET old == IF read = NoAccount THEN [email |-> Nobody, status |-> "error"] ELSE read
  IN  CASE op = "disconnect" -> IF read = NoAccount THEN account ELSE [old EXCEPT !.status = "disabled"]
        [] op \in {"refused", "failed_sync"} -> [old EXCEPT !.status = "error"]
        [] op = "sync" -> [old EXCEPT !.status = "active"]
        [] op = "identify" -> [email |-> email, status |-> "active"]
WriteAccount(h) ==
  /\ AtStep(h, "write")
  /\ account' = Updated(handler[h].op, handler[h].read, handler[h].email)
  /\ known' = (known \/ handler[h].op = "identify")
  /\ Done(h)
  /\ UNCHANGED <<dotenvExists, dotenv, environ, tokenFile, mixed, restarts>>

(* Gmail, the database or the refresh fails: a sync records it, status     *)
(* goes without.                                                           *)
AskingFails(h) ==
  /\ handler[h].op \in {"sync", "identify"}
  /\ AtStep(h, "refresh") \/ AtStep(h, "fetch") \/ (AtStep(h, "read") /\ handler[h].op = "identify")
  /\ handler' = [handler EXCEPT ![h] =
       IF handler[h].op = "identify" THEN Idle
       ELSE [Idle EXCEPT !.op = "failed_sync", !.todo = <<"read", "write">>]]
  /\ UNCHANGED <<dotenvExists, files, known, mixed, restarts>>

(* The server dies, maybe between opening a file and writing it, and loads *)
(* .env when it is started again.                                          *)
Writing(step) == \E h \in Handlers : AtStep(h, step)
ServerDies ==
  /\ restarts < MaxRestarts
  /\ restarts' = restarts + 1
  /\ dotenv' \in {dotenv} \cup
       (IF dotenvExists /\ (Writing("env") \/ Writing("refresh")) THEN {NoToken} ELSE {})
  /\ environ' = dotenv'
  /\ tokenFile' \in {tokenFile} \cup (IF Writing("file") THEN {Unreadable} ELSE {})
  /\ account' \in {account} \cup (IF Writing("account") \/ Writing("write") THEN {NoAccount} ELSE {})
  /\ known' = FALSE
  /\ handler' = [h \in Handlers |-> Idle]
  /\ mixed' = (mixed \/ Connecting)
  /\ UNCHANGED dotenvExists

AccountInit ==
  /\ dotenvExists \in BOOLEAN
  /\ dotenv = NoToken /\ environ = NoToken /\ tokenFile = NoToken /\ account = NoAccount
  /\ known = FALSE
  /\ handler = [h \in Handlers |-> Idle]
  /\ mixed = FALSE /\ restarts = 0

AccountNext ==
  \/ \E h \in Handlers, a \in Addresses : ConnectGranted(h, a) \/ ConnectPasted(h, a)
  \/ \E h \in Handlers :
       \/ OauthFails(h) \/ Disconnect(h) \/ Sync(h) \/ SyncWithoutToken(h) \/ Identify(h)
       \/ StoreTokenFile(h) \/ StoreEnv(h) \/ StoreRefreshed(h) \/ StoreAccount(h)
       \/ UnlinkTokenFile(h) \/ FetchMails(h) \/ ReadAccount(h) \/ WriteAccount(h) \/ AskingFails(h)
  \/ ServerDies

AccountSpec == AccountInit /\ [][AccountNext]_accountVars

-----------------------------------------------------------------------------
AccountTypeOK ==
  /\ dotenvExists \in BOOLEAN /\ known \in BOOLEAN /\ mixed \in BOOLEAN
  /\ dotenv \in Token \cup {NoToken}
  /\ environ \in Token \cup {NoToken}
  /\ tokenFile \in Token \cup {NoToken, Unreadable}
  /\ account \in Account \cup {NoAccount}
  /\ handler \in [Handlers -> Handler]
  /\ restarts \in 0 .. MaxRestarts

(* With a .env, the account the settings page shows is the one a sync      *)
(* would read and a mail be sent from, whatever was connected, pasted,     *)
(* refreshed or cut off before; unless the last connection met other       *)
(* requests or a crash (the three stores of save_connected_account and     *)
(* save_existing_tokens against the order of _load_credentials).           *)
ShownIsUsed ==
  dotenvExists /\ ~mixed /\ ~Connecting /\ IsToken(UsedToken) =>
    ShownEmail \in {UsedToken.of, Nobody}
=============================================================================
