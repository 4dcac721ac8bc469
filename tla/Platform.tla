------------------------------- MODULE Platform -------------------------------
(***************************************************************************)
(* The rows that the users of the platform make and remove: broker         *)
(* accounts, scripts and bots (api/routers/accounts.py, scripts.py,        *)
(* bots.py, with api/services/account_service.py and bot_service.py), and  *)
(* the accounts at MetaApi that the rows stand for.                        *)
(*                                                                         *)
(* A request runs in a session of its own (api/database.py, get_db): what  *)
(* it reads is committed, what it writes is committed when its handler     *)
(* returns, and an exception rolls it back.  Two requests interleave       *)
(* between the checks of one and its commit, which for a new account are   *)
(* minutes apart.  A request is an action for its checks and one for each  *)
(* step after them.  The checks of one request are one action although     *)
(* they are several SELECTs: none of them can come true while the request  *)
(* runs, so all held when the first was made.                              *)
(*                                                                         *)
(* The accounts are those of the MetaApi backend.  The balance is in       *)
(* Wallet and the life of a bot in BotLifecycle; here a start may fail,    *)
(* and a bot is only what its row says.                                    *)
(***************************************************************************)
EXTENDS FiniteSets, Integers

CONSTANTS
    Users, Accounts, Scripts, Bots,
    Requests,      \* requests that can be in flight together
    AccountLimit,  \* plan_limits[plan]
    MaxBots,       \* max_bots of the user
    MaxFaults,     \* bound: lost answers, failed clean-ups and commits, crashes
    None, System,  \* no row yet; the owner of a system script
    Deleted        \* no row any more: the database makes a fresh id for each

ASSUME PlatformAssumption ==
    /\ AccountLimit \in Nat /\ MaxBots \in Nat /\ MaxFaults \in Nat
    /\ None \notin Users \cup Accounts \cup Scripts \cup Bots
    /\ System \notin Users \cup {None}
    /\ Deleted \notin Users \cup {None, System}
    /\ IsFiniteSet(Accounts) /\ IsFiniteSet(Bots) /\ IsFiniteSet(Requests)
    /\ Requests # {}

VARIABLES
    owner,    \* user_id of the row of an account, None without a row
    active,   \* its is_active
    author,   \* user_id of the row of a script, System for is_system
    bot,      \* the row of a bot, NoRow without one
    cloud,    \* each account at MetaApi
    req,      \* the requests in flight
    lost,     \* history: the MetaApi accounts that a fault cut off
    faults

rows == <<owner, active, author, bot>>
vars == <<rows, cloud, req, lost, faults>>

\* error, like stopped, is a bot at rest.
Statuses == {"stopped", "starting", "running"}
NoRow == [user |-> None, account |-> None, script |-> None, status |-> "none"]
Idle == [op |-> "idle", user |-> None, account |-> None, script |-> None, bot |-> None]

BotRows == [user : Users, account : Accounts, script : Scripts, status : Statuses]
Ops == {"idle", "account", "provisioned", "verified", "unverified", "bot",
        "delete_account", "delete_script", "delete_bot"}

PlatformTypeOK ==
    /\ owner \in [Accounts -> Users \cup {None}]
    /\ active \subseteq Accounts
    /\ author \in [Scripts -> Users \cup {System, None, Deleted}]
    /\ bot \in [Bots -> BotRows \cup {NoRow}]
    /\ cloud \in [Accounts -> {"absent", "deployed", "undeployed"}]
    /\ req \in [Requests -> [op : Ops, user : Users \cup {None},
                             account : Accounts \cup {None},
                             script : Scripts \cup {None}, bot : Bots \cup {None}]]
    /\ lost \subseteq Accounts
    /\ faults \in 0..MaxFaults

Init ==
    /\ owner = [a \in Accounts |-> None]
    /\ active = {}
    /\ author \in [Scripts -> {None, System}]
    /\ bot = [b \in Bots |-> NoRow]
    /\ cloud = [a \in Accounts |-> "absent"]
    /\ req = [r \in Requests |-> Idle]
    /\ lost = {}
    /\ faults = 0

ActiveOf(u) == {a \in active : owner[a] = u}
BotsOf(u) == {b \in Bots : bot[b].user = u}
Fault == faults < MaxFaults /\ faults' = faults + 1

Begins(r, q) == req[r] = Idle /\ req' = [req EXCEPT ![r] = q]
MovesTo(r, op) == req' = [req EXCEPT ![r].op = op]
Ends(r) == req' = [req EXCEPT ![r] = Idle]

-----------------------------------------------------------------------------
(* create_account and provision_account.                                    *)

\* Mutant: the limit is off by one.
CreateAccountAtLimit(r, u) ==
    /\ Cardinality(ActiveOf(u)) <= AccountLimit
    /\ Begins(r, [Idle EXCEPT !.op = "account", !.user = u])
    /\ UNCHANGED <<rows, cloud, lost, faults>>

\* The limit of the plan, before the minutes of the provisioning.
CreateAccount(r, u) ==
    /\ Cardinality(ActiveOf(u)) < AccountLimit
    /\ Begins(r, [Idle EXCEPT !.op = "account", !.user = u])
    /\ UNCHANGED <<rows, cloud, lost, faults>>

\* create_account of MetaApi and deploy.
CloudCreates(r, a) ==
    /\ req[r].op = "account"
    /\ cloud[a] = "absent" /\ owner[a] = None
    /\ cloud' = [cloud EXCEPT ![a] = "deployed"]
    /\ req' = [req EXCEPT ![r].op = "provisioned", ![r].account = a]
    /\ UNCHANGED <<rows, lost, faults>>

\* MetaApi refuses the account: there is nothing to clean up.
CloudRefuses(r) ==
    /\ req[r].op = "account"
    /\ Ends(r)
    /\ UNCHANGED <<rows, cloud, lost, faults>>

\* MetaApi makes the account and the call fails or times out: the variable
\* account is still None, so that both except clauses skip the removal.
CloudAnswerLost(r, a) ==
    /\ req[r].op = "account"
    /\ cloud[a] = "absent" /\ owner[a] = None
    /\ Fault
    /\ \E state \in {"deployed", "undeployed"} : cloud' = [cloud EXCEPT ![a] = state]
    /\ lost' = lost \cup {a}
    /\ Ends(r)
    /\ UNCHANGED rows

\* wait_connected, and the RPC connection that fetches the account: the
\* credentials hold, or any of the steps raises.
Verifies(r) ==
    /\ req[r].op = "provisioned"
    /\ MovesTo(r, "verified") \/ MovesTo(r, "unverified")
    /\ UNCHANGED <<rows, cloud, lost, faults>>

\* Mutant: only an unexpected error cleans up, ProvisioningError does not.
CleansUpSometimes(r) ==
    /\ req[r].op = "unverified"
    /\ \/ cloud' = [cloud EXCEPT ![req[r].account] = "absent"]
       \/ UNCHANGED cloud
    /\ Ends(r)
    /\ UNCHANGED <<rows, lost, faults>>

\* Both except clauses remove the account and raise.
CleansUp(r) ==
    /\ req[r].op = "unverified"
    /\ cloud' = [cloud EXCEPT ![req[r].account] = "absent"]
    /\ Ends(r)
    /\ UNCHANGED <<rows, lost, faults>>

\* The failure of the clean-up is logged and the account stays at MetaApi.
CleanUpFails(r) ==
    /\ req[r].op = "unverified"
    /\ Fault
    /\ lost' = lost \cup {req[r].account}
    /\ Ends(r)
    /\ UNCHANGED <<rows, cloud>>

\* The row of the account and its fee, committed together.
AccountCommits(r) ==
    /\ req[r].op = "verified"
    /\ owner' = [owner EXCEPT ![req[r].account] = req[r].user]
    /\ active' = active \cup {req[r].account}
    /\ Ends(r)
    /\ UNCHANGED <<author, bot, cloud, lost, faults>>

\* The session fails after the provisioning: nothing removes the account.
AccountCommitFails(r) ==
    /\ req[r].op = "verified"
    /\ Fault
    /\ lost' = lost \cup {req[r].account}
    /\ Ends(r)
    /\ UNCHANGED <<rows, cloud>>

-----------------------------------------------------------------------------
(* delete_account: only a flag of the row, nothing at MetaApi.              *)

DeleteAccount(r, u, a) ==
    /\ owner[a] = u
    /\ ~ \E b \in Bots : bot[b].account = a
                         /\ bot[b].status \in {"running", "starting"}
    /\ Begins(r, [Idle EXCEPT !.op = "delete_account", !.user = u, !.account = a])
    /\ UNCHANGED <<rows, cloud, lost, faults>>

AccountGoes(r) ==
    /\ req[r].op = "delete_account"
    /\ active' = active \ {req[r].account}
    /\ Ends(r)
    /\ UNCHANGED <<owner, author, bot, cloud, lost, faults>>

-----------------------------------------------------------------------------
(* Scripts.                                                                 *)

\* create_script of a user and create_system_script of an admin.
CreateScript(s, by) ==
    /\ author[s] = None
    /\ author' = [author EXCEPT ![s] = by]
    /\ UNCHANGED <<owner, active, bot, cloud, req, lost, faults>>

Accessible(s, u) == author[s] \in {u, System}

DeleteScript(r, u, s) ==
    /\ author[s] = u
    /\ \A b \in BotsOf(u) : bot[b].script = s => bot[b].status = "stopped"
    /\ Begins(r, [Idle EXCEPT !.op = "delete_script", !.user = u, !.script = s])
    /\ UNCHANGED <<rows, cloud, lost, faults>>

\* Mutant: no foreign key, the check of the request alone.
ScriptGoesChecked(r) ==
    /\ req[r].op = "delete_script"
    /\ author' = [author EXCEPT ![req[r].script] = Deleted]
    /\ Ends(r)
    /\ UNCHANGED <<owner, active, bot, cloud, lost, faults>>

\* The foreign key of bots.script_id refuses the commit while a bot, also a
\* stopped one, names the script.
ScriptGoes(r) ==
    LET s == req[r].script IN
    /\ req[r].op = "delete_script"
    /\ author' = IF \E b \in Bots : bot[b].script = s THEN author
                 ELSE [author EXCEPT ![s] = Deleted]
    /\ Ends(r)
    /\ UNCHANGED <<owner, active, bot, cloud, lost, faults>>

-----------------------------------------------------------------------------
(* Bots.                                                                    *)

\* validate_bot_create.
CreateBot(r, u, a, s) ==
    /\ Cardinality(BotsOf(u)) < MaxBots
    /\ a \in active /\ owner[a] = u
    /\ ~ \E b \in Bots : bot[b].account = a
    /\ Accessible(s, u)
    /\ Begins(r, [Idle EXCEPT !.op = "bot", !.user = u, !.account = a, !.script = s])
    /\ UNCHANGED <<rows, cloud, lost, faults>>

\* Mutant: the table without its unique constraint.
InsertableTwice(q) == owner[q.account] # None /\ author[q.script] # Deleted

\* What the database refuses: bots_broker_account_id_unique and the foreign
\* keys of the row.
Insertable(q) ==
    /\ \A b \in Bots : bot[b].account # q.account
    /\ owner[q.account] # None
    /\ author[q.script] # Deleted

BotCommits(r, b) ==
    LET q == req[r] IN
    /\ q.op = "bot"
    /\ Insertable(q)
    /\ bot[b] = NoRow
    /\ bot' = [bot EXCEPT ![b] = [user |-> q.user, account |-> q.account,
                                  script |-> q.script, status |-> "stopped"]]
    /\ Ends(r)
    /\ UNCHANGED <<owner, active, author, cloud, lost, faults>>

BotRefused(r) ==
    /\ req[r].op = "bot"
    /\ ~ Insertable(req[r])
    /\ Ends(r)
    /\ UNCHANGED <<rows, cloud, lost, faults>>

\* delete_bot passes its checks,
DeleteBot(r, u, b) ==
    /\ bot[b].user = u
    /\ bot[b].status = "stopped"
    /\ Begins(r, [Idle EXCEPT !.op = "delete_bot", !.user = u, !.bot = b])
    /\ UNCHANGED <<rows, cloud, lost, faults>>

\* and ends at its first use of get_settings, a name that the module does
\* not import: the NameError rolls the session back.
DeleteBotRaises(r) ==
    /\ req[r].op = "delete_bot"
    /\ Ends(r)
    /\ UNCHANGED <<rows, cloud, lost, faults>>

\* start_bot looks at the row of the bot alone, not at is_active of the
\* account; the connect of the bot deploys the account.
BotStarts(b) ==
    /\ bot[b].status = "stopped"
    /\ bot' = [bot EXCEPT ![b].status = "starting"]
    /\ UNCHANGED <<owner, active, author, cloud, req, lost, faults>>

BotRuns(b) ==
    /\ bot[b].status = "starting"
    /\ bot' = [bot EXCEPT ![b].status = "running"]
    /\ cloud' = [cloud EXCEPT ![bot[b].account] = "deployed"]
    /\ UNCHANGED <<owner, active, author, req, lost, faults>>

\* stop_bot, or an error; the bot undeploys its account, or its retries end.
BotStops(b) ==
    /\ bot[b].status \in {"starting", "running"}
    /\ bot' = [bot EXCEPT ![b].status = "stopped"]
    /\ \/ cloud' = [cloud EXCEPT ![bot[b].account] = "undeployed"]
       \/ UNCHANGED cloud
    /\ UNCHANGED <<owner, active, author, req, lost, faults>>

-----------------------------------------------------------------------------
(* Pages that ask MetaApi.                                                  *)

\* get_account_info, get_account_positions and get_history_deals deploy an
\* account that is not deployed.
Asked(a) == cloud' = [cloud EXCEPT ![a] = "deployed"]

\* GET of an active account, of the positions of any own account, and of the
\* positions, account-info and history of a bot.
Views(a) ==
    /\ owner[a] # None
    /\ Asked(a)
    /\ UNCHANGED <<rows, req, lost, faults>>

\* The process dies: its sessions are rolled back, MetaApi is not told.
Crash ==
    /\ Fault
    /\ lost' = lost \cup {a \in Accounts : \E r \in Requests : req[r].account = a
                                  /\ req[r].op \in {"provisioned", "verified", "unverified"}}
    /\ req' = [r \in Requests |-> Idle]
    /\ UNCHANGED <<rows, cloud>>

Step(r) ==
    \/ CloudRefuses(r) \/ Verifies(r) \/ CleansUp(r) \/ CleanUpFails(r)
    \/ AccountCommits(r) \/ AccountCommitFails(r) \/ AccountGoes(r)
    \/ ScriptGoes(r) \/ BotRefused(r) \/ DeleteBotRaises(r)
    \/ \E a \in Accounts : CloudCreates(r, a) \/ CloudAnswerLost(r, a)
    \/ \E b \in Bots : BotCommits(r, b)

Arrives(r, u) ==
    \/ CreateAccount(r, u)
    \/ \E a \in Accounts : DeleteAccount(r, u, a)
    \/ \E s \in Scripts : DeleteScript(r, u, s)
    \/ \E b \in Bots : DeleteBot(r, u, b)
    \/ \E a \in Accounts, s \in Scripts : CreateBot(r, u, a, s)

Next ==
    \/ \E r \in Requests : Step(r)
    \/ \E r \in Requests, u \in Users : Arrives(r, u)
    \/ \E s \in Scripts, by \in Users \cup {System} : CreateScript(s, by)
    \/ \E b \in Bots : BotStarts(b) \/ BotRuns(b) \/ BotStops(b)
    \/ \E a \in Accounts : Views(a)
    \/ Crash

Spec == Init /\ [][Next]_vars

-----------------------------------------------------------------------------
(* Properties.                                                              *)

\* No two bots share a broker account, whose positions and deals could not be
\* told apart.  The check of validate_bot_create cannot see a bot that another
\* request has not committed: the constraint of the table has to.
OneBotPerAccount ==
    \A b, c \in Bots : b # c /\ bot[b] # NoRow => bot[b].account # bot[c].account

\* Whatever came between the checks of the request that made it and its
\* commit, a bot has an account of its own user and a script, and the script
\* is the user's or the system's.
BotsOwnTheirParts ==
    \A b \in Bots : bot[b] # NoRow =>
        /\ owner[bot[b].account] = bot[b].user
        /\ Accessible(bot[b].script, bot[b].user)

Provisioning(a) ==
    \E r \in Requests : req[r].account = a /\ req[r].op \in {"provisioned", "verified", "unverified"}

\* An account that exists at MetaApi, and is paid for, has a row or a request
\* at work on it, unless the answer of create_account was lost, or a clean-up, a
\* commit or the process failed: a provisioning that fails with the account in
\* its hands takes it away again.
PaidForIsKnown ==
    \A a \in Accounts : cloud[a] # "absent" =>
        owner[a] # None \/ Provisioning(a) \/ a \in lost

Creating(u) == {r \in Requests : req[r].user = u
                  /\ req[r].op \in {"account", "provisioned", "verified", "unverified"}}
Adding(u) == {r \in Requests : req[r].user = u /\ req[r].op = "bot"}

\* The limits are checked before the commit and nothing repeats the check:
\* requests in flight together may pass them, by one less than their number.
LimitsHold ==
    \A u \in Users :
        /\ Cardinality(ActiveOf(u)) + Cardinality(Creating(u))
              <= AccountLimit + Cardinality(Requests) - 1
        /\ Cardinality(BotsOf(u)) + Cardinality(Adding(u))
              <= MaxBots + Cardinality(Requests) - 1

\* bots.py:191-192, "Delete a bot": the request that passed its checks removes
\* the row.
DeletedBotIsGone ==
    [][\A r \in Requests : req[r].op = "delete_bot" /\ req'[r] = Idle
          => bot'[req[r].bot] = NoRow]_vars

=============================================================================
