--------------------------- MODULE PlatformProofs ---------------------------
(***************************************************************************)
(* For any number of users, accounts, scripts, bots and requests in        *)
(* flight: the rows fit together and what is paid for at MetaApi is known. *)
(* The properties speak of the rows alone; what carries them over the gap  *)
(* between the checks of a request and its commit is RequestsSound, what   *)
(* still holds then of that which the checks found.                        *)
(***************************************************************************)
EXTENDS Platform, TLAPS, FiniteSetTheorems

USE PlatformAssumption

ProvisionOps == {"provisioned", "verified", "unverified"}

\* A request that has made an account at MetaApi is the only one at work on
\* it, and the account has no row; a bot to be inserted has an account of its
\* user, and a script of its user's or the system's unless it was deleted.
RequestsSound ==
    /\ \A r \in Requests : req[r].op \in ProvisionOps =>
          /\ req[r].user \in Users
          /\ req[r].account \in Accounts
          /\ owner[req[r].account] = None
          /\ cloud[req[r].account] # "absent"
          /\ \A q \in Requests : req[q].op \in ProvisionOps
                /\ req[q].account = req[r].account => q = r
    /\ \A r \in Requests : req[r].op = "account" => req[r].user \in Users
    /\ \A r \in Requests : req[r].op = "bot" =>
          /\ req[r].user \in Users
          /\ req[r].account \in Accounts
          /\ owner[req[r].account] = req[r].user
          /\ req[r].script \in Scripts
          /\ author[req[r].script] \in {req[r].user, System, Deleted}

PlatformInv ==
    /\ PlatformTypeOK
    /\ RequestsSound
    /\ OneBotPerAccount
    /\ BotsOwnTheirParts
    /\ PaidForIsKnown

LEMMA InitPlatformInv == Init => PlatformInv
<1> SUFFICES ASSUME Init PROVE PlatformInv
    OBVIOUS
<1>1. PlatformTypeOK
  <2>1. owner \in [Accounts -> Users \cup {None}] /\ active \subseteq Accounts
    BY DEF Init
  <2>2. author \in [Scripts -> Users \cup {System, None, Deleted}]
    BY DEF Init
  <2>3. bot \in [Bots -> BotRows \cup {NoRow}]
    BY DEF Init
  <2>4. cloud \in [Accounts -> {"absent", "deployed", "undeployed"}]
    BY DEF Init
  <2>5. req \in [Requests -> [op : Ops, user : Users \cup {None},
                             account : Accounts \cup {None},
                             script : Scripts \cup {None}, bot : Bots \cup {None}]]
    BY DEF Init, Idle, Ops
  <2>6. lost \subseteq Accounts /\ faults \in 0..MaxFaults
    BY DEF Init
  <2> QED BY <2>1, <2>2, <2>3, <2>4, <2>5, <2>6 DEF PlatformTypeOK
<1>2. RequestsSound
    BY DEF Init, RequestsSound, ProvisionOps, Idle
<1>3. OneBotPerAccount /\ BotsOwnTheirParts
    BY DEF Init, OneBotPerAccount, BotsOwnTheirParts
<1>4. PaidForIsKnown
    BY DEF Init, PaidForIsKnown
<1> QED BY <1>1, <1>2, <1>3, <1>4 DEF PlatformInv

LEMMA CloudRefusesKeeps ==
    ASSUME PlatformInv, NEW r \in Requests, CloudRefuses(r)
    PROVE  PlatformInv'
<1>1. PlatformTypeOK'
    BY DEF CloudRefuses, Fault, Begins, MovesTo, Ends, rows, PlatformInv, PlatformTypeOK, BotRows, Statuses, Ops, NoRow, Idle
<1>2. RequestsSound'
    BY DEF CloudRefuses, Fault, Begins, MovesTo, Ends, rows, PlatformInv, PlatformTypeOK, RequestsSound, ProvisionOps, Idle, BotRows
<1>3. OneBotPerAccount'
    BY DEF CloudRefuses, Fault, Begins, MovesTo, Ends, rows, PlatformInv, PlatformTypeOK, OneBotPerAccount, BotRows, NoRow
<1>4. BotsOwnTheirParts'
    BY DEF CloudRefuses, Fault, Begins, MovesTo, Ends, rows, PlatformInv, PlatformTypeOK, BotsOwnTheirParts, Accessible, RequestsSound, BotRows, NoRow, ProvisionOps
<1>5. PaidForIsKnown'
    BY DEF CloudRefuses, Fault, Begins, MovesTo, Ends, rows, PlatformInv, PlatformTypeOK, PaidForIsKnown, Provisioning, RequestsSound, ProvisionOps, Idle
<1> QED BY <1>1, <1>2, <1>3, <1>4, <1>5 DEF PlatformInv

LEMMA VerifiesKeeps ==
    ASSUME PlatformInv, NEW r \in Requests, Verifies(r)
    PROVE  PlatformInv'
<1>1. PlatformTypeOK'
    BY DEF Verifies, Fault, Begins, MovesTo, Ends, rows, PlatformInv, PlatformTypeOK, BotRows, Statuses, Ops, NoRow, Idle
<1>2. RequestsSound'
    BY DEF Verifies, Fault, Begins, MovesTo, Ends, rows, PlatformInv, PlatformTypeOK, RequestsSound, ProvisionOps, Idle, BotRows
<1>3. OneBotPerAccount'
    BY DEF Verifies, Fault, Begins, MovesTo, Ends, rows, PlatformInv, PlatformTypeOK, OneBotPerAccount, BotRows, NoRow
<1>4. BotsOwnTheirParts'
    BY DEF Verifies, Fault, Begins, MovesTo, Ends, rows, PlatformInv, PlatformTypeOK, BotsOwnTheirParts, Accessible, RequestsSound, BotRows, NoRow, ProvisionOps
<1>5. PaidForIsKnown'
    BY DEF Verifies, Fault, Begins, MovesTo, Ends, rows, PlatformInv, PlatformTypeOK, PaidForIsKnown, Provisioning, RequestsSound, ProvisionOps, Idle
<1> QED BY <1>1, <1>2, <1>3, <1>4, <1>5 DEF PlatformInv

LEMMA CleansUpKeeps ==
    ASSUME PlatformInv, NEW r \in Requests, CleansUp(r)
    PROVE  PlatformInv'
<1>1. PlatformTypeOK'
    BY DEF CleansUp, Fault, Begins, MovesTo, Ends, rows, PlatformInv, PlatformTypeOK, BotRows, Statuses, Ops, NoRow, Idle
<1>2. RequestsSound'
    BY DEF CleansUp, Fault, Begins, MovesTo, Ends, rows, PlatformInv, PlatformTypeOK, RequestsSound, ProvisionOps, Idle, BotRows
<1>3. OneBotPerAccount'
    BY DEF CleansUp, Fault, Begins, MovesTo, Ends, rows, PlatformInv, PlatformTypeOK, OneBotPerAccount, BotRows, NoRow
<1>4. BotsOwnTheirParts'
    BY DEF CleansUp, Fault, Begins, MovesTo, Ends, rows, PlatformInv, PlatformTypeOK, BotsOwnTheirParts, Accessible, RequestsSound, BotRows, NoRow, ProvisionOps
<1>5. PaidForIsKnown'
    BY DEF CleansUp, Fault, Begins, MovesTo, Ends, rows, PlatformInv, PlatformTypeOK, PaidForIsKnown, Provisioning, RequestsSound, ProvisionOps, Idle
<1> QED BY <1>1, <1>2, <1>3, <1>4, <1>5 DEF PlatformInv

LEMMA CleanUpFailsKeeps ==
    ASSUME PlatformInv, NEW r \in Requests, CleanUpFails(r)
    PROVE  PlatformInv'
<1>1. PlatformTypeOK'
    BY DEF CleanUpFails, Fault, Begins, MovesTo, Ends, rows, PlatformInv, PlatformTypeOK, BotRows, Statuses, Ops, NoRow, Idle, RequestsSound, ProvisionOps
<1>2. RequestsSound'
    BY DEF CleanUpFails, Fault, Begins, MovesTo, Ends, rows, PlatformInv, PlatformTypeOK, RequestsSound, ProvisionOps, Idle, BotRows
<1>3. OneBotPerAccount'
    BY DEF CleanUpFails, Fault, Begins, MovesTo, Ends, rows, PlatformInv, PlatformTypeOK, OneBotPerAccount, BotRows, NoRow
<1>4. BotsOwnTheirParts'
    BY DEF CleanUpFails, Fault, Begins, MovesTo, Ends, rows, PlatformInv, PlatformTypeOK, BotsOwnTheirParts, Accessible, RequestsSound, BotRows, NoRow, ProvisionOps
<1>5. PaidForIsKnown'
    BY DEF CleanUpFails, Fault, Begins, MovesTo, Ends, rows, PlatformInv, PlatformTypeOK, PaidForIsKnown, Provisioning, RequestsSound, ProvisionOps, Idle
<1> QED BY <1>1, <1>2, <1>3, <1>4, <1>5 DEF PlatformInv

LEMMA AccountCommitsKeeps ==
    ASSUME PlatformInv, NEW r \in Requests, AccountCommits(r)
    PROVE  PlatformInv'
<1>1. PlatformTypeOK'
    BY DEF AccountCommits, Fault, Begins, MovesTo, Ends, rows, PlatformInv, PlatformTypeOK, BotRows, Statuses, Ops, NoRow, Idle, RequestsSound, ProvisionOps
<1>2. RequestsSound'
    BY DEF AccountCommits, Fault, Begins, MovesTo, Ends, rows, PlatformInv, PlatformTypeOK, RequestsSound, ProvisionOps, Idle, BotRows
<1>3. OneBotPerAccount'
    BY DEF AccountCommits, Fault, Begins, MovesTo, Ends, rows, PlatformInv, PlatformTypeOK, OneBotPerAccount, BotRows, NoRow
<1>4. BotsOwnTheirParts'
    BY DEF AccountCommits, Fault, Begins, MovesTo, Ends, rows, PlatformInv, PlatformTypeOK, BotsOwnTheirParts, Accessible, RequestsSound, BotRows, NoRow, ProvisionOps
<1>5. PaidForIsKnown'
    BY DEF AccountCommits, Fault, Begins, MovesTo, Ends, rows, PlatformInv, PlatformTypeOK, PaidForIsKnown, Provisioning, RequestsSound, ProvisionOps, Idle
<1> QED BY <1>1, <1>2, <1>3, <1>4, <1>5 DEF PlatformInv

LEMMA AccountCommitFailsKeeps ==
    ASSUME PlatformInv, NEW r \in Requests, AccountCommitFails(r)
    PROVE  PlatformInv'
<1>1. PlatformTypeOK'
    BY DEF AccountCommitFails, Fault, Begins, MovesTo, Ends, rows, PlatformInv, PlatformTypeOK, BotRows, Statuses, Ops, NoRow, Idle, RequestsSound, ProvisionOps
<1>2. RequestsSound'
    BY DEF AccountCommitFails, Fault, Begins, MovesTo, Ends, rows, PlatformInv, PlatformTypeOK, RequestsSound, ProvisionOps, Idle, BotRows
<1>3. OneBotPerAccount'
    BY DEF AccountCommitFails, Fault, Begins, MovesTo, Ends, rows, PlatformInv, PlatformTypeOK, OneBotPerAccount, BotRows, NoRow
<1>4. BotsOwnTheirParts'
    BY DEF AccountCommitFails, Fault, Begins, MovesTo, Ends, rows, PlatformInv, PlatformTypeOK, BotsOwnTheirParts, Accessible, RequestsSound, BotRows, NoRow, ProvisionOps
<1>5. PaidForIsKnown'
    BY DEF AccountCommitFails, Fault, Begins, MovesTo, Ends, rows, PlatformInv, PlatformTypeOK, PaidForIsKnown, Provisioning, RequestsSound, ProvisionOps, Idle
<1> QED BY <1>1, <1>2, <1>3, <1>4, <1>5 DEF PlatformInv

LEMMA AccountGoesKeeps ==
    ASSUME PlatformInv, NEW r \in Requests, AccountGoes(r)
    PROVE  PlatformInv'
<1>1. PlatformTypeOK'
    BY DEF AccountGoes, Fault, Begins, MovesTo, Ends, rows, PlatformInv, PlatformTypeOK, BotRows, Statuses, Ops, NoRow, Idle
<1>2. RequestsSound'
    BY DEF AccountGoes, Fault, Begins, MovesTo, Ends, rows, PlatformInv, PlatformTypeOK, RequestsSound, ProvisionOps, Idle, BotRows
<1>3. OneBotPerAccount'
    BY DEF AccountGoes, Fault, Begins, MovesTo, Ends, rows, PlatformInv, PlatformTypeOK, OneBotPerAccount, BotRows, NoRow
<1>4. BotsOwnTheirParts'
    BY DEF AccountGoes, Fault, Begins, MovesTo, Ends, rows, PlatformInv, PlatformTypeOK, BotsOwnTheirParts, Accessible, RequestsSound, BotRows, NoRow, ProvisionOps
<1>5. PaidForIsKnown'
    BY DEF AccountGoes, Fault, Begins, MovesTo, Ends, rows, PlatformInv, PlatformTypeOK, PaidForIsKnown, Provisioning, RequestsSound, ProvisionOps, Idle
<1> QED BY <1>1, <1>2, <1>3, <1>4, <1>5 DEF PlatformInv

LEMMA ScriptGoesKeeps ==
    ASSUME PlatformInv, NEW r \in Requests, ScriptGoes(r)
    PROVE  PlatformInv'
<1>1. PlatformTypeOK'
    BY DEF ScriptGoes, Fault, Begins, MovesTo, Ends, rows, PlatformInv, PlatformTypeOK, BotRows, Statuses, Ops, NoRow, Idle
<1>2. RequestsSound'
    BY DEF ScriptGoes, Fault, Begins, MovesTo, Ends, rows, PlatformInv, PlatformTypeOK, RequestsSound, ProvisionOps, Idle, BotRows
<1>3. OneBotPerAccount'
    BY DEF ScriptGoes, Fault, Begins, MovesTo, Ends, rows, PlatformInv, PlatformTypeOK, OneBotPerAccount, BotRows, NoRow
<1>4. BotsOwnTheirParts'
    BY DEF ScriptGoes, Fault, Begins, MovesTo, Ends, rows, PlatformInv, PlatformTypeOK, BotsOwnTheirParts, Accessible, RequestsSound, BotRows, NoRow, ProvisionOps
<1>5. PaidForIsKnown'
    BY DEF ScriptGoes, Fault, Begins, MovesTo, Ends, rows, PlatformInv, PlatformTypeOK, PaidForIsKnown, Provisioning, RequestsSound, ProvisionOps, Idle
<1> QED BY <1>1, <1>2, <1>3, <1>4, <1>5 DEF PlatformInv

LEMMA BotRefusedKeeps ==
    ASSUME PlatformInv, NEW r \in Requests, BotRefused(r)
    PROVE  PlatformInv'
<1>1. PlatformTypeOK'
    BY DEF BotRefused, Fault, Begins, MovesTo, Ends, rows, Insertable, PlatformInv, PlatformTypeOK, BotRows, Statuses, Ops, NoRow, Idle
<1>2. RequestsSound'
    BY DEF BotRefused, Fault, Begins, MovesTo, Ends, rows, Insertable, PlatformInv, PlatformTypeOK, RequestsSound, ProvisionOps, Idle, BotRows
<1>3. OneBotPerAccount'
    BY DEF BotRefused, Fault, Begins, MovesTo, Ends, rows, Insertable, PlatformInv, PlatformTypeOK, OneBotPerAccount, BotRows, NoRow
<1>4. BotsOwnTheirParts'
    BY DEF BotRefused, Fault, Begins, MovesTo, Ends, rows, Insertable, PlatformInv, PlatformTypeOK, BotsOwnTheirParts, Accessible, RequestsSound, BotRows, NoRow, ProvisionOps
<1>5. PaidForIsKnown'
    BY DEF BotRefused, Fault, Begins, MovesTo, Ends, rows, Insertable, PlatformInv, PlatformTypeOK, PaidForIsKnown, Provisioning, RequestsSound, ProvisionOps, Idle
<1> QED BY <1>1, <1>2, <1>3, <1>4, <1>5 DEF PlatformInv

LEMMA DeleteBotRaisesKeeps ==
    ASSUME PlatformInv, NEW r \in Requests, DeleteBotRaises(r)
    PROVE  PlatformInv'
<1>1. PlatformTypeOK'
    BY DEF DeleteBotRaises, Fault, Begins, MovesTo, Ends, rows, PlatformInv, PlatformTypeOK, BotRows, Statuses, Ops, NoRow, Idle
<1>2. RequestsSound'
    BY DEF DeleteBotRaises, Fault, Begins, MovesTo, Ends, rows, PlatformInv, PlatformTypeOK, RequestsSound, ProvisionOps, Idle, BotRows
<1>3. OneBotPerAccount'
    BY DEF DeleteBotRaises, Fault, Begins, MovesTo, Ends, rows, PlatformInv, PlatformTypeOK, OneBotPerAccount, BotRows, NoRow
<1>4. BotsOwnTheirParts'
    BY DEF DeleteBotRaises, Fault, Begins, MovesTo, Ends, rows, PlatformInv, PlatformTypeOK, BotsOwnTheirParts, Accessible, RequestsSound, BotRows, NoRow, ProvisionOps
<1>5. PaidForIsKnown'
    BY DEF DeleteBotRaises, Fault, Begins, MovesTo, Ends, rows, PlatformInv, PlatformTypeOK, PaidForIsKnown, Provisioning, RequestsSound, ProvisionOps, Idle
<1> QED BY <1>1, <1>2, <1>3, <1>4, <1>5 DEF PlatformInv

LEMMA CloudCreatesKeeps ==
    ASSUME PlatformInv, NEW r \in Requests, NEW a \in Accounts, CloudCreates(r, a)
    PROVE  PlatformInv'
<1>1. PlatformTypeOK'
  <2>1. req'[r] = [req[r] EXCEPT !.op = "provisioned", !.account = a]
    BY DEF CloudCreates, PlatformInv, PlatformTypeOK
  <2>2. req' \in [Requests -> [op : Ops, user : Users \cup {None},
                              account : Accounts \cup {None},
                              script : Scripts \cup {None}, bot : Bots \cup {None}]]
    <3>1. req[r] \in [op : Ops, user : Users \cup {None}, account : Accounts \cup {None},
                      script : Scripts \cup {None}, bot : Bots \cup {None}]
      BY DEF PlatformInv, PlatformTypeOK
    <3>2. req'[r] \in [op : Ops, user : Users \cup {None}, account : Accounts \cup {None},
                       script : Scripts \cup {None}, bot : Bots \cup {None}]
      BY <2>1, <3>1 DEF Ops
    <3> QED BY <2>1, <3>2 DEF CloudCreates, PlatformInv, PlatformTypeOK
  <2> QED BY <2>2 DEF CloudCreates, rows, PlatformInv, PlatformTypeOK
<1>2. RequestsSound'
    BY DEF CloudCreates, Fault, Begins, MovesTo, Ends, rows, PlatformInv, PlatformTypeOK, RequestsSound, ProvisionOps, Idle, BotRows
<1>3. OneBotPerAccount'
    BY DEF CloudCreates, Fault, Begins, MovesTo, Ends, rows, PlatformInv, PlatformTypeOK, OneBotPerAccount, BotRows, NoRow
<1>4. BotsOwnTheirParts'
    BY DEF CloudCreates, Fault, Begins, MovesTo, Ends, rows, PlatformInv, PlatformTypeOK, BotsOwnTheirParts, Accessible, RequestsSound, BotRows, NoRow, ProvisionOps
<1>5. PaidForIsKnown'
    BY DEF CloudCreates, Fault, Begins, MovesTo, Ends, rows, PlatformInv, PlatformTypeOK, PaidForIsKnown, Provisioning, RequestsSound, ProvisionOps, Idle
<1> QED BY <1>1, <1>2, <1>3, <1>4, <1>5 DEF PlatformInv

LEMMA CloudAnswerLostKeeps ==
    ASSUME PlatformInv, NEW r \in Requests, NEW a \in Accounts, CloudAnswerLost(r, a)
    PROVE  PlatformInv'
<1>1. PlatformTypeOK'
    BY DEF CloudAnswerLost, Fault, Begins, MovesTo, Ends, rows, PlatformInv, PlatformTypeOK, BotRows, Statuses, Ops, NoRow, Idle, RequestsSound, ProvisionOps
<1>2. RequestsSound'
    BY DEF CloudAnswerLost, Fault, Begins, MovesTo, Ends, rows, PlatformInv, PlatformTypeOK, RequestsSound, ProvisionOps, Idle, BotRows
<1>3. OneBotPerAccount'
    BY DEF CloudAnswerLost, Fault, Begins, MovesTo, Ends, rows, PlatformInv, PlatformTypeOK, OneBotPerAccount, BotRows, NoRow
<1>4. BotsOwnTheirParts'
    BY DEF CloudAnswerLost, Fault, Begins, MovesTo, Ends, rows, PlatformInv, PlatformTypeOK, BotsOwnTheirParts, Accessible, RequestsSound, BotRows, NoRow, ProvisionOps
<1>5. PaidForIsKnown'
    BY DEF CloudAnswerLost, Fault, Begins, MovesTo, Ends, rows, PlatformInv, PlatformTypeOK, PaidForIsKnown, Provisioning, RequestsSound, ProvisionOps, Idle
<1> QED BY <1>1, <1>2, <1>3, <1>4, <1>5 DEF PlatformInv

LEMMA BotCommitsKeeps ==
    ASSUME PlatformInv, NEW r \in Requests, NEW b \in Bots, BotCommits(r, b)
    PROVE  PlatformInv'
<1>1. PlatformTypeOK'
    BY DEF BotCommits, Fault, Begins, MovesTo, Ends, rows, Insertable, PlatformInv, PlatformTypeOK, BotRows, Statuses, Ops, NoRow, Idle, RequestsSound, ProvisionOps
<1>2. RequestsSound'
    BY DEF BotCommits, Fault, Begins, MovesTo, Ends, rows, Insertable, PlatformInv, PlatformTypeOK, RequestsSound, ProvisionOps, Idle, BotRows
<1>3. OneBotPerAccount'
    BY DEF BotCommits, Fault, Begins, MovesTo, Ends, rows, Insertable, PlatformInv, PlatformTypeOK, OneBotPerAccount, BotRows, NoRow
<1>4. BotsOwnTheirParts'
    BY DEF BotCommits, Fault, Begins, MovesTo, Ends, rows, Insertable, PlatformInv, PlatformTypeOK, BotsOwnTheirParts, Accessible, RequestsSound, BotRows, NoRow, ProvisionOps
<1>5. PaidForIsKnown'
    BY DEF BotCommits, Fault, Begins, MovesTo, Ends, rows, Insertable, PlatformInv, PlatformTypeOK, PaidForIsKnown, Provisioning, RequestsSound, ProvisionOps, Idle
<1> QED BY <1>1, <1>2, <1>3, <1>4, <1>5 DEF PlatformInv

LEMMA CreateAccountKeeps ==
    ASSUME PlatformInv, NEW r \in Requests, NEW u \in Users, CreateAccount(r, u)
    PROVE  PlatformInv'
<1>1. PlatformTypeOK'
    BY DEF CreateAccount, Fault, Begins, MovesTo, Ends, rows, PlatformInv, PlatformTypeOK, BotRows, Statuses, Ops, NoRow, Idle
<1>2. RequestsSound'
    BY DEF CreateAccount, Fault, Begins, MovesTo, Ends, rows, PlatformInv, PlatformTypeOK, RequestsSound, ProvisionOps, Idle, BotRows
<1>3. OneBotPerAccount'
    BY DEF CreateAccount, Fault, Begins, MovesTo, Ends, rows, PlatformInv, PlatformTypeOK, OneBotPerAccount, BotRows, NoRow
<1>4. BotsOwnTheirParts'
    BY DEF CreateAccount, Fault, Begins, MovesTo, Ends, rows, PlatformInv, PlatformTypeOK, BotsOwnTheirParts, Accessible, RequestsSound, BotRows, NoRow, ProvisionOps
<1>5. PaidForIsKnown'
    BY DEF CreateAccount, Fault, Begins, MovesTo, Ends, rows, PlatformInv, PlatformTypeOK, PaidForIsKnown, Provisioning, RequestsSound, ProvisionOps, Idle
<1> QED BY <1>1, <1>2, <1>3, <1>4, <1>5 DEF PlatformInv

LEMMA DeleteAccountKeeps ==
    ASSUME PlatformInv, NEW r \in Requests, NEW u \in Users, NEW a \in Accounts, DeleteAccount(r, u, a)
    PROVE  PlatformInv'
<1>1. PlatformTypeOK'
    BY DEF DeleteAccount, Fault, Begins, MovesTo, Ends, rows, PlatformInv, PlatformTypeOK, BotRows, Statuses, Ops, NoRow, Idle
<1>2. RequestsSound'
    BY DEF DeleteAccount, Fault, Begins, MovesTo, Ends, rows, PlatformInv, PlatformTypeOK, RequestsSound, ProvisionOps, Idle, BotRows
<1>3. OneBotPerAccount'
    BY DEF DeleteAccount, Fault, Begins, MovesTo, Ends, rows, PlatformInv, PlatformTypeOK, OneBotPerAccount, BotRows, NoRow
<1>4. BotsOwnTheirParts'
    BY DEF DeleteAccount, Fault, Begins, MovesTo, Ends, rows, PlatformInv, PlatformTypeOK, BotsOwnTheirParts, Accessible, RequestsSound, BotRows, NoRow, ProvisionOps
<1>5. PaidForIsKnown'
    BY DEF DeleteAccount, Fault, Begins, MovesTo, Ends, rows, PlatformInv, PlatformTypeOK, PaidForIsKnown, Provisioning, RequestsSound, ProvisionOps, Idle
<1> QED BY <1>1, <1>2, <1>3, <1>4, <1>5 DEF PlatformInv

LEMMA DeleteScriptKeeps ==
    ASSUME PlatformInv, NEW r \in Requests, NEW u \in Users, NEW s \in Scripts, DeleteScript(r, u, s)
    PROVE  PlatformInv'
<1>1. PlatformTypeOK'
    BY DEF DeleteScript, Fault, Begins, MovesTo, Ends, rows, PlatformInv, PlatformTypeOK, BotRows, Statuses, Ops, NoRow, Idle
<1>2. RequestsSound'
    BY DEF DeleteScript, Fault, Begins, MovesTo, Ends, rows, PlatformInv, PlatformTypeOK, RequestsSound, ProvisionOps, Idle, BotRows
<1>3. OneBotPerAccount'
    BY DEF DeleteScript, Fault, Begins, MovesTo, Ends, rows, PlatformInv, PlatformTypeOK, OneBotPerAccount, BotRows, NoRow
<1>4. BotsOwnTheirParts'
    BY DEF DeleteScript, Fault, Begins, MovesTo, Ends, rows, PlatformInv, PlatformTypeOK, BotsOwnTheirParts, Accessible, RequestsSound, BotRows, NoRow, ProvisionOps
<1>5. PaidForIsKnown'
    BY DEF DeleteScript, Fault, Begins, MovesTo, Ends, rows, PlatformInv, PlatformTypeOK, PaidForIsKnown, Provisioning, RequestsSound, ProvisionOps, Idle
<1> QED BY <1>1, <1>2, <1>3, <1>4, <1>5 DEF PlatformInv

LEMMA DeleteBotKeeps ==
    ASSUME PlatformInv, NEW r \in Requests, NEW u \in Users, NEW b \in Bots, DeleteBot(r, u, b)
    PROVE  PlatformInv'
<1>1. PlatformTypeOK'
    BY DEF DeleteBot, Fault, Begins, MovesTo, Ends, rows, PlatformInv, PlatformTypeOK, BotRows, Statuses, Ops, NoRow, Idle
<1>2. RequestsSound'
    BY DEF DeleteBot, Fault, Begins, MovesTo, Ends, rows, PlatformInv, PlatformTypeOK, RequestsSound, ProvisionOps, Idle, BotRows
<1>3. OneBotPerAccount'
    BY DEF DeleteBot, Fault, Begins, MovesTo, Ends, rows, PlatformInv, PlatformTypeOK, OneBotPerAccount, BotRows, NoRow
<1>4. BotsOwnTheirParts'
    BY DEF DeleteBot, Fault, Begins, MovesTo, Ends, rows, PlatformInv, PlatformTypeOK, BotsOwnTheirParts, Accessible, RequestsSound, BotRows, NoRow, ProvisionOps
<1>5. PaidForIsKnown'
    BY DEF DeleteBot, Fault, Begins, MovesTo, Ends, rows, PlatformInv, PlatformTypeOK, PaidForIsKnown, Provisioning, RequestsSound, ProvisionOps, Idle
<1> QED BY <1>1, <1>2, <1>3, <1>4, <1>5 DEF PlatformInv

LEMMA CreateBotKeeps ==
    ASSUME PlatformInv, NEW r \in Requests, NEW u \in Users, NEW a \in Accounts, NEW s \in Scripts, CreateBot(r, u, a, s)
    PROVE  PlatformInv'
<1>1. PlatformTypeOK'
    BY DEF CreateBot, Fault, Begins, MovesTo, Ends, rows, Accessible, PlatformInv, PlatformTypeOK, BotRows, Statuses, Ops, NoRow, Idle
<1>2. RequestsSound'
    BY DEF CreateBot, Fault, Begins, MovesTo, Ends, rows, Accessible, PlatformInv, PlatformTypeOK, RequestsSound, ProvisionOps, Idle, BotRows
<1>3. OneBotPerAccount'
    BY DEF CreateBot, Fault, Begins, MovesTo, Ends, rows, Accessible, PlatformInv, PlatformTypeOK, OneBotPerAccount, BotRows, NoRow
<1>4. BotsOwnTheirParts'
    BY DEF CreateBot, Fault, Begins, MovesTo, Ends, rows, Accessible, PlatformInv, PlatformTypeOK, BotsOwnTheirParts, RequestsSound, BotRows, NoRow, ProvisionOps
<1>5. PaidForIsKnown'
    BY DEF CreateBot, Fault, Begins, MovesTo, Ends, rows, Accessible, PlatformInv, PlatformTypeOK, PaidForIsKnown, Provisioning, RequestsSound, ProvisionOps, Idle
<1> QED BY <1>1, <1>2, <1>3, <1>4, <1>5 DEF PlatformInv

LEMMA CreateScriptKeeps ==
    ASSUME PlatformInv, NEW s \in Scripts, NEW by \in Users \cup {System}, CreateScript(s, by)
    PROVE  PlatformInv'
<1>1. PlatformTypeOK'
    BY DEF CreateScript, Fault, Begins, MovesTo, Ends, rows, PlatformInv, PlatformTypeOK, BotRows, Statuses, Ops, NoRow, Idle
<1>2. RequestsSound'
    BY DEF CreateScript, Fault, Begins, MovesTo, Ends, rows, PlatformInv, PlatformTypeOK, RequestsSound, ProvisionOps, Idle, BotRows
<1>3. OneBotPerAccount'
    BY DEF CreateScript, Fault, Begins, MovesTo, Ends, rows, PlatformInv, PlatformTypeOK, OneBotPerAccount, BotRows, NoRow
<1>4. BotsOwnTheirParts'
    BY DEF CreateScript, Fault, Begins, MovesTo, Ends, rows, PlatformInv, PlatformTypeOK, BotsOwnTheirParts, Accessible, RequestsSound, BotRows, NoRow, ProvisionOps
<1>5. PaidForIsKnown'
    BY DEF CreateScript, Fault, Begins, MovesTo, Ends, rows, PlatformInv, PlatformTypeOK, PaidForIsKnown, Provisioning, RequestsSound, ProvisionOps, Idle
<1> QED BY <1>1, <1>2, <1>3, <1>4, <1>5 DEF PlatformInv

LEMMA BotStartsKeeps ==
    ASSUME PlatformInv, NEW b \in Bots, BotStarts(b)
    PROVE  PlatformInv'
<1>1. PlatformTypeOK'
    BY DEF BotStarts, Fault, Begins, MovesTo, Ends, rows, Insertable, PlatformInv, PlatformTypeOK, BotRows, Statuses, Ops, NoRow, Idle
<1>2. RequestsSound'
    BY DEF BotStarts, Fault, Begins, MovesTo, Ends, rows, Insertable, PlatformInv, PlatformTypeOK, RequestsSound, ProvisionOps, Idle, BotRows
<1>3. OneBotPerAccount'
    BY DEF BotStarts, Fault, Begins, MovesTo, Ends, rows, Insertable, PlatformInv, PlatformTypeOK, OneBotPerAccount, BotRows, NoRow
<1>4. BotsOwnTheirParts'
    BY DEF BotStarts, Fault, Begins, MovesTo, Ends, rows, Insertable, PlatformInv, PlatformTypeOK, BotsOwnTheirParts, Accessible, RequestsSound, BotRows, NoRow, ProvisionOps
<1>5. PaidForIsKnown'
    BY DEF BotStarts, Fault, Begins, MovesTo, Ends, rows, Insertable, PlatformInv, PlatformTypeOK, PaidForIsKnown, Provisioning, RequestsSound, ProvisionOps, Idle
<1> QED BY <1>1, <1>2, <1>3, <1>4, <1>5 DEF PlatformInv

LEMMA BotRunsKeeps ==
    ASSUME PlatformInv, NEW b \in Bots, BotRuns(b)
    PROVE  PlatformInv'
<1>1. PlatformTypeOK'
    BY DEF BotRuns, Fault, Begins, MovesTo, Ends, rows, Insertable, PlatformInv, PlatformTypeOK, BotRows, Statuses, Ops, NoRow, Idle
<1>2. RequestsSound'
    BY DEF BotRuns, Fault, Begins, MovesTo, Ends, rows, Insertable, PlatformInv, PlatformTypeOK, RequestsSound, ProvisionOps, Idle, BotRows
<1>3. OneBotPerAccount'
    BY DEF BotRuns, Fault, Begins, MovesTo, Ends, rows, Insertable, PlatformInv, PlatformTypeOK, OneBotPerAccount, BotRows, NoRow
<1>4. BotsOwnTheirParts'
    BY DEF BotRuns, Fault, Begins, MovesTo, Ends, rows, Insertable, PlatformInv, PlatformTypeOK, BotsOwnTheirParts, Accessible, RequestsSound, BotRows, NoRow, ProvisionOps
<1>5. PaidForIsKnown'
    BY DEF BotRuns, Fault, Begins, MovesTo, Ends, rows, Insertable, PlatformInv, PlatformTypeOK, PaidForIsKnown, Provisioning, RequestsSound, ProvisionOps, Idle, BotsOwnTheirParts, BotRows, NoRow
<1> QED BY <1>1, <1>2, <1>3, <1>4, <1>5 DEF PlatformInv

LEMMA BotStopsKeeps ==
    ASSUME PlatformInv, NEW b \in Bots, BotStops(b)
    PROVE  PlatformInv'
<1>1. PlatformTypeOK'
    BY DEF BotStops, Fault, Begins, MovesTo, Ends, rows, Insertable, PlatformInv, PlatformTypeOK, BotRows, Statuses, Ops, NoRow, Idle
<1>2. RequestsSound'
    BY DEF BotStops, Fault, Begins, MovesTo, Ends, rows, Insertable, PlatformInv, PlatformTypeOK, RequestsSound, ProvisionOps, Idle, BotRows
<1>3. OneBotPerAccount'
    BY DEF BotStops, Fault, Begins, MovesTo, Ends, rows, Insertable, PlatformInv, PlatformTypeOK, OneBotPerAccount, BotRows, NoRow
<1>4. BotsOwnTheirParts'
    BY DEF BotStops, Fault, Begins, MovesTo, Ends, rows, Insertable, PlatformInv, PlatformTypeOK, BotsOwnTheirParts, Accessible, RequestsSound, BotRows, NoRow, ProvisionOps
<1>5. PaidForIsKnown'
    BY DEF BotStops, Fault, Begins, MovesTo, Ends, rows, Insertable, PlatformInv, PlatformTypeOK, PaidForIsKnown, Provisioning, RequestsSound, ProvisionOps, Idle, BotsOwnTheirParts, BotRows, NoRow
<1> QED BY <1>1, <1>2, <1>3, <1>4, <1>5 DEF PlatformInv

LEMMA ViewsKeeps ==
    ASSUME PlatformInv, NEW a \in Accounts, Views(a)
    PROVE  PlatformInv'
<1>1. PlatformTypeOK'
    BY DEF Views, Fault, Begins, MovesTo, Ends, rows, Asked, PlatformInv, PlatformTypeOK, BotRows, Statuses, Ops, NoRow, Idle
<1>2. RequestsSound'
    BY DEF Views, Fault, Begins, MovesTo, Ends, rows, Asked, PlatformInv, PlatformTypeOK, RequestsSound, ProvisionOps, Idle, BotRows
<1>3. OneBotPerAccount'
    BY DEF Views, Fault, Begins, MovesTo, Ends, rows, Asked, PlatformInv, PlatformTypeOK, OneBotPerAccount, BotRows, NoRow
<1>4. BotsOwnTheirParts'
    BY DEF Views, Fault, Begins, MovesTo, Ends, rows, Asked, PlatformInv, PlatformTypeOK, BotsOwnTheirParts, Accessible, RequestsSound, BotRows, NoRow, ProvisionOps
<1>5. PaidForIsKnown'
    BY DEF Views, Fault, Begins, MovesTo, Ends, rows, Asked, PlatformInv, PlatformTypeOK, PaidForIsKnown, Provisioning, RequestsSound, ProvisionOps, Idle
<1> QED BY <1>1, <1>2, <1>3, <1>4, <1>5 DEF PlatformInv

LEMMA CrashKeeps ==
    ASSUME PlatformInv, Crash
    PROVE  PlatformInv'
<1>1. PlatformTypeOK'
    BY DEF Crash, Fault, Begins, MovesTo, Ends, rows, PlatformInv, PlatformTypeOK, BotRows, Statuses, Ops, NoRow, Idle
<1>2. RequestsSound'
    BY DEF Crash, Fault, Begins, MovesTo, Ends, rows, PlatformInv, PlatformTypeOK, RequestsSound, ProvisionOps, Idle, BotRows
<1>3. OneBotPerAccount'
    BY DEF Crash, Fault, Begins, MovesTo, Ends, rows, PlatformInv, PlatformTypeOK, OneBotPerAccount, BotRows, NoRow
<1>4. BotsOwnTheirParts'
    BY DEF Crash, Fault, Begins, MovesTo, Ends, rows, PlatformInv, PlatformTypeOK, BotsOwnTheirParts, Accessible, RequestsSound, BotRows, NoRow, ProvisionOps
<1>5. PaidForIsKnown'
    BY DEF Crash, Fault, Begins, MovesTo, Ends, rows, PlatformInv, PlatformTypeOK, PaidForIsKnown, Provisioning, RequestsSound, ProvisionOps, Idle
<1> QED BY <1>1, <1>2, <1>3, <1>4, <1>5 DEF PlatformInv

LEMMA NextPlatformInv == PlatformInv /\ [Next]_vars => PlatformInv'
<1> SUFFICES ASSUME PlatformInv, [Next]_vars PROVE PlatformInv'
    OBVIOUS
<1>1. CASE \E r \in Requests : Step(r)
    BY <1>1, CloudRefusesKeeps, VerifiesKeeps, CleansUpKeeps, CleanUpFailsKeeps, AccountCommitsKeeps,
       AccountCommitFailsKeeps, AccountGoesKeeps, ScriptGoesKeeps, BotRefusedKeeps,
       DeleteBotRaisesKeeps, CloudCreatesKeeps, CloudAnswerLostKeeps, BotCommitsKeeps DEF Step
<1>2. CASE \E r \in Requests, u \in Users : Arrives(r, u)
    BY <1>2, CreateAccountKeeps, DeleteAccountKeeps, DeleteScriptKeeps, DeleteBotKeeps,
       CreateBotKeeps DEF Arrives
<1>3. CASE \E s \in Scripts, by \in Users \cup {System} : CreateScript(s, by)
    BY <1>3, CreateScriptKeeps
<1>4. CASE \E b \in Bots : BotStarts(b) \/ BotRuns(b) \/ BotStops(b)
    BY <1>4, BotStartsKeeps, BotRunsKeeps, BotStopsKeeps
<1>5. CASE (\E a \in Accounts : Views(a)) \/ Crash
    BY <1>5, ViewsKeeps, CrashKeeps
<1>6. CASE UNCHANGED vars
    BY <1>6 DEF vars, rows, PlatformInv, PlatformTypeOK, RequestsSound, OneBotPerAccount,
                BotsOwnTheirParts, Accessible, PaidForIsKnown, Provisioning
<1> QED BY <1>1, <1>2, <1>3, <1>4, <1>5, <1>6 DEF Next

\* Every reachable state satisfies the inductive invariant.
THEOREM PlatformSafety == Spec => []PlatformInv
BY InitPlatformInv, NextPlatformInv, PTL DEF Spec

\* The rows keep their types, for every number of users and requests.
THEOREM PlatformTypeCorrect == Spec => []PlatformTypeOK
<1>1. PlatformInv => PlatformTypeOK
    BY DEF PlatformInv
<1> QED BY <1>1, PlatformSafety, PTL

\* However many requests race between their checks and their commits, no
\* broker account gets two bots.
THEOREM PlatformOneBotPerAccount == Spec => []OneBotPerAccount
<1>1. PlatformInv => OneBotPerAccount
    BY DEF PlatformInv
<1> QED BY <1>1, PlatformSafety, PTL

\* A bot has an account of its own user, and a script that it may use, whatever
\* was deleted between the checks of its request and the commit.
THEOREM PlatformBotsOwnTheirParts == Spec => []BotsOwnTheirParts
<1>1. PlatformInv => BotsOwnTheirParts
    BY DEF PlatformInv
<1> QED BY <1>1, PlatformSafety, PTL

\* An account at MetaApi that no row and no request knows was cut off by a fault.
THEOREM PlatformPaidForIsKnown == Spec => []PaidForIsKnown
<1>1. PlatformInv => PaidForIsKnown
    BY DEF PlatformInv
<1> QED BY <1>1, PlatformSafety, PTL

-----------------------------------------------------------------------------
(* The limits.  One more request at work, or one more row of a request that *)
(* is done, is what a step adds to the sums.                                 *)

\* The rows and the requests at work on more of them, against their limit.
Within(rowset, working, limit) ==
    Cardinality(rowset) + Cardinality(working) <= limit + Cardinality(Requests) - 1

\* Nothing is added.
LEMMA WithinShrinks ==
    ASSUME NEW A, NEW B, NEW C, NEW D, NEW n \in Nat, IsFiniteSet(A), IsFiniteSet(C),
           B \subseteq A, D \subseteq C, Within(A, C, n)
    PROVE  Within(B, D, n)
<1>1. Cardinality(B) <= Cardinality(A) /\ Cardinality(D) <= Cardinality(C)
    BY FS_Subset
<1>2. IsFiniteSet(B) /\ IsFiniteSet(D)
    BY FS_Subset
<1>3. /\ Cardinality(A) \in Nat /\ Cardinality(B) \in Nat /\ Cardinality(C) \in Nat
      /\ Cardinality(D) \in Nat /\ Cardinality(Requests) \in Nat
    BY <1>2, FS_CardinalityType
<1> QED BY <1>1, <1>3 DEF Within

\* A request passes its check below the limit.
LEMMA WithinAdmits ==
    ASSUME NEW A, NEW C, NEW n \in Nat, IsFiniteSet(A), C \subseteq Requests,
           NEW r \in Requests, r \notin C, Cardinality(A) < n
    PROVE  Within(A, C \cup {r}, n)
<1>1. IsFiniteSet(C)
    BY FS_Subset
<1>2. C \cup {r} \subseteq Requests
    OBVIOUS
<1>3. Cardinality(C \cup {r}) <= Cardinality(Requests)
    BY <1>2, FS_Subset
<1>4. IsFiniteSet(C \cup {r})
    BY <1>2, FS_Subset
<1>5. /\ Cardinality(A) \in Nat /\ Cardinality(C \cup {r}) \in Nat
      /\ Cardinality(Requests) \in Nat
    BY <1>4, FS_CardinalityType
<1> QED BY <1>3, <1>5 DEF Within

\* A request becomes a row.
LEMMA WithinCommits ==
    ASSUME NEW A, NEW C, NEW n \in Nat, IsFiniteSet(A), IsFiniteSet(C), NEW x,
           NEW r \in C, Within(A, C, n)
    PROVE  Within(A \cup {x}, C \ {r}, n)
<1>1. IsFiniteSet(A \cup {x}) /\ Cardinality(A \cup {x}) <= Cardinality(A) + 1
  <2>1. IsFiniteSet(A \cup {x}) /\ (\/ Cardinality(A \cup {x}) = Cardinality(A)
                                     \/ Cardinality(A \cup {x}) = Cardinality(A) + 1)
    BY FS_AddElement
  <2>2. Cardinality(A) \in Nat
    BY FS_CardinalityType
  <2> QED BY <2>1, <2>2
<1>2. IsFiniteSet(C \ {r}) /\ Cardinality(C \ {r}) = Cardinality(C) - 1
    BY FS_RemoveElement
<1>3. /\ Cardinality(A) \in Nat /\ Cardinality(A \cup {x}) \in Nat /\ Cardinality(C) \in Nat
      /\ Cardinality(C \ {r}) \in Nat /\ Cardinality(Requests) \in Nat
    BY <1>1, <1>2, FS_CardinalityType
<1> QED BY <1>1, <1>2, <1>3 DEF Within

LEMMA LimitSetsFinite ==
    ASSUME PlatformInv, NEW u \in Users
    PROVE  /\ IsFiniteSet(ActiveOf(u)) /\ IsFiniteSet(BotsOf(u))
           /\ IsFiniteSet(Creating(u)) /\ IsFiniteSet(Adding(u))
<1>1. ActiveOf(u) \subseteq Accounts /\ BotsOf(u) \subseteq Bots
    BY DEF PlatformInv, PlatformTypeOK, ActiveOf, BotsOf
<1>2. Creating(u) \subseteq Requests /\ Adding(u) \subseteq Requests
    BY DEF Creating, Adding
<1> QED BY <1>1, <1>2, FS_Subset

AccountLimitHolds(u) == Within(ActiveOf(u), Creating(u), AccountLimit)
BotLimitHolds(u) == Within(BotsOf(u), Adding(u), MaxBots)

LEMMA LimitsAreTheirHalves ==
    LimitsHold <=> \A u \in Users : AccountLimitHolds(u) /\ BotLimitHolds(u)
BY DEF LimitsHold, AccountLimitHolds, BotLimitHolds, Within

\* What a step does to the requests, the accounts and the bots of a user.
LEMMA RequestsMove ==
    ASSUME PlatformInv, [Next]_vars, NEW q \in Requests, NEW u \in Users
    PROVE  /\ q \in Creating(u)' => q \in Creating(u) \/ CreateAccount(q, u)
           /\ q \in Adding(u)' => q \in Adding(u)
                 \/ \E a \in Accounts, s \in Scripts : CreateBot(q, u, a, s)
<1> DEFINE Goal == /\ q \in Creating(u)' => q \in Creating(u) \/ CreateAccount(q, u)
                   /\ q \in Adding(u)' => q \in Adding(u)
                         \/ \E a \in Accounts, s \in Scripts : CreateBot(q, u, a, s)
<1>0. None \notin Users /\ req \in [Requests -> [op : Ops, user : Users \cup {None},
           account : Accounts \cup {None}, script : Scripts \cup {None}, bot : Bots \cup {None}]]
    BY DEF PlatformInv, PlatformTypeOK
<1>1. CASE req' = req
    BY <1>1 DEF Creating, Adding
<1>2. ASSUME NEW r \in Requests, req' = [req EXCEPT ![r] = Idle]
      PROVE  Goal
  <2>1. req'[q] = Idle \/ req'[q] = req[q]
    BY <1>0, <1>2
  <2> QED BY <2>1 DEF Creating, Adding, Idle
<1>3. ASSUME NEW r \in Requests, Step(r)
      PROVE  Goal
  <2>1. CASE req' = [req EXCEPT ![r] = Idle]
    BY <1>2, <2>1
  <2>2. CASE Verifies(r)
    <3>1. req[r].op = "provisioned"
      BY <2>2 DEF Verifies
    <3>2. req'[q].user = req[q].user /\ (req'[q].op = req[q].op
             \/ (q = r /\ req'[q].op \in {"verified", "unverified"}))
      BY <1>0, <2>2 DEF Verifies, MovesTo
    <3> QED BY <3>1, <3>2 DEF Creating, Adding
  <2>3. CASE \E a \in Accounts : CloudCreates(r, a)
    <3>1. req[r].op = "account"
      BY <2>3 DEF CloudCreates
    <3>2. req'[q].user = req[q].user /\ (req'[q].op = req[q].op
             \/ (q = r /\ req'[q].op = "provisioned"))
      BY <1>0, <2>3 DEF CloudCreates
    <3> QED BY <3>1, <3>2 DEF Creating, Adding
  <2> QED BY <1>3, <2>1, <2>2, <2>3 DEF Step, Ends, CloudRefuses, CloudAnswerLost, CleansUp, CleanUpFails,
              AccountCommits, AccountCommitFails, AccountGoes, ScriptGoes, BotRefused,
              DeleteBotRaises, BotCommits
<1>4. ASSUME NEW r \in Requests, NEW v \in Users, Arrives(r, v)
      PROVE  Goal
  <2>1. CASE q # r
    <3>1. req'[q] = req[q]
      BY <1>0, <1>4, <2>1 DEF Arrives, CreateAccount, DeleteAccount, DeleteScript, DeleteBot,
                              CreateBot, Begins
    <3> QED BY <3>1 DEF Creating, Adding
  <2>2. CASE q = r /\ CreateAccount(r, v)
    <3>1. req'[r].op = "account" /\ req'[r].user = v
      BY <1>0, <2>2 DEF CreateAccount, Begins, Idle
    <3> QED BY <2>2, <3>1 DEF Creating, Adding
  <2>3. ASSUME q = r, NEW a \in Accounts, NEW s \in Scripts, CreateBot(r, v, a, s)
        PROVE  Goal
    <3>1. req'[r].op = "bot" /\ req'[r].user = v
      BY <1>0, <2>3 DEF CreateBot, Begins, Idle
    <3> QED BY <2>3, <3>1 DEF Creating, Adding
  <2>4. CASE q = r /\ req'[r].op \in {"delete_account", "delete_script", "delete_bot"}
    BY <2>4 DEF Creating, Adding
  <2>5. CASE \/ \E a \in Accounts : DeleteAccount(r, v, a)
             \/ \E s \in Scripts : DeleteScript(r, v, s)
             \/ \E b \in Bots : DeleteBot(r, v, b)
    <3>1. req'[r].op \in {"delete_account", "delete_script", "delete_bot"}
      BY <1>0, <2>5 DEF DeleteAccount, DeleteScript, DeleteBot, Begins, Idle
    <3> QED BY <2>1, <2>4, <3>1
  <2> QED BY <1>4, <2>1, <2>2, <2>3, <2>5 DEF Arrives
<1>5. CASE Crash
  <2>1. req'[q] = Idle
    BY <1>5 DEF Crash
  <2> QED BY <2>1 DEF Creating, Adding, Idle
<1> QED BY <1>1, <1>3, <1>4, <1>5 DEF Next, CreateScript, BotStarts, BotRuns, BotStops, Views, vars

LEMMA RowsMove ==
    ASSUME PlatformInv, [Next]_vars, NEW u \in Users
    PROVE  /\ ActiveOf(u)' \subseteq ActiveOf(u)
              \/ \E r \in Requests : AccountCommits(r) /\ req[r].user = u
           /\ BotsOf(u)' \subseteq BotsOf(u)
              \/ \E r \in Requests : req[r].user = u /\ \E b \in Bots : BotCommits(r, b)
<1> DEFINE Goal == /\ ActiveOf(u)' \subseteq ActiveOf(u)
                      \/ \E r \in Requests : AccountCommits(r) /\ req[r].user = u
                   /\ BotsOf(u)' \subseteq BotsOf(u)
                      \/ \E r \in Requests : req[r].user = u /\ \E b \in Bots : BotCommits(r, b)
<1>1. CASE UNCHANGED <<owner, active, bot>>
    BY <1>1 DEF ActiveOf, BotsOf
<1>2. ASSUME NEW r \in Requests, AccountCommits(r)
      PROVE  Goal
  <2>1. BotsOf(u)' = BotsOf(u)
    BY <1>2 DEF AccountCommits, BotsOf
  <2>2. req[r].user # u => ActiveOf(u)' \subseteq ActiveOf(u)
    BY <1>2 DEF AccountCommits, ActiveOf, PlatformInv, PlatformTypeOK, RequestsSound, ProvisionOps
  <2> QED BY <1>2, <2>1, <2>2
<1>3. ASSUME NEW r \in Requests, AccountGoes(r)
      PROVE  Goal
    BY <1>3 DEF AccountGoes, ActiveOf, BotsOf
<1>4. ASSUME NEW r \in Requests, NEW b \in Bots, BotCommits(r, b)
      PROVE  Goal
  <2>1. ActiveOf(u)' = ActiveOf(u)
    BY <1>4 DEF BotCommits, ActiveOf
  <2>2. req[r].user # u => BotsOf(u)' \subseteq BotsOf(u)
    BY <1>4 DEF BotCommits, BotsOf, PlatformInv, PlatformTypeOK
  <2> QED BY <1>4, <2>1, <2>2
<1>5. ASSUME NEW b \in Bots, BotStarts(b) \/ BotRuns(b) \/ BotStops(b)
      PROVE  Goal
    BY <1>5 DEF BotStarts, BotRuns, BotStops, ActiveOf, BotsOf, PlatformInv, PlatformTypeOK,
                BotRows, NoRow
<1> QED BY <1>1, <1>2, <1>3, <1>4, <1>5 DEF Next, Step, Arrives, CloudRefuses, Verifies, CleansUp,
          CleanUpFails, AccountCommitFails, ScriptGoes, BotRefused, DeleteBotRaises, CloudCreates,
          CloudAnswerLost, CreateAccount, DeleteAccount, DeleteScript, DeleteBot, CreateBot, CreateScript, Views,
          Crash, rows, vars

LEMMA AccountLimitKept ==
    ASSUME PlatformInv, NEW u \in Users, AccountLimitHolds(u), [Next]_vars
    PROVE  AccountLimitHolds(u)'
<1> DEFINE Grows(r) == CreateAccount(r, u)
           Commits(r) == AccountCommits(r) /\ req[r].user = u
<1>0. AccountLimit \in Nat /\ IsFiniteSet(ActiveOf(u)) /\ IsFiniteSet(Creating(u))
    BY LimitSetsFinite
<1>1. CASE \E r \in Requests : Grows(r)
  <2>1. PICK r \in Requests : CreateAccount(r, u)
    BY <1>1
  <2>2. ActiveOf(u)' = ActiveOf(u) /\ Creating(u)' = Creating(u) \cup {r} /\ r \notin Creating(u)
    BY <2>1 DEF CreateAccount, ActiveOf, Creating, rows, Begins, Idle, PlatformInv, PlatformTypeOK
  <2>3. Cardinality(ActiveOf(u)) < AccountLimit /\ Creating(u) \subseteq Requests
    BY <2>1 DEF CreateAccount, Creating
  <2> QED BY <1>0, <2>2, <2>3, WithinAdmits DEF AccountLimitHolds
<1>2. CASE \E r \in Requests : Commits(r)
  <2>1. PICK r \in Requests : AccountCommits(r) /\ req[r].user = u
    BY <1>2
  <2>2. /\ req[r].account \in Accounts
        /\ owner[req[r].account] = None
    BY <2>1 DEF AccountCommits, PlatformInv, RequestsSound, ProvisionOps
  <2>3. ActiveOf(u)' = ActiveOf(u) \cup {req[r].account}
    BY <2>1, <2>2 DEF AccountCommits, ActiveOf, PlatformInv, PlatformTypeOK
  <2>4. Creating(u)' = Creating(u) \ {r} /\ r \in Creating(u)
    <3>1. \A q \in Requests : req'[q] = IF q = r THEN Idle ELSE req[q]
      BY <2>1 DEF AccountCommits, Ends, PlatformInv, PlatformTypeOK
    <3>2. r \in Creating(u)
      BY <2>1 DEF AccountCommits, Creating
    <3>3. \A q \in Requests : q \in Creating(u)' <=> q \in Creating(u) /\ q # r
      BY <3>1 DEF Creating, Idle
    <3>4. Creating(u) \subseteq Requests /\ Creating(u)' \subseteq Requests
      BY DEF Creating
    <3>5. Creating(u)' \subseteq Creating(u) \ {r} /\ Creating(u) \ {r} \subseteq Creating(u)'
      BY <3>3, <3>4
    <3> QED BY <3>2, <3>5
  <2>5. Within(ActiveOf(u), Creating(u), AccountLimit)
    BY DEF AccountLimitHolds
  <2>6. Within(ActiveOf(u) \cup {req[r].account}, Creating(u) \ {r}, AccountLimit)
    BY <1>0, <2>4, <2>5, WithinCommits
  <2> QED BY <2>3, <2>4, <2>6 DEF AccountLimitHolds
<1>3. CASE ~ \E r \in Requests : Grows(r) \/ Commits(r)
  <2>1. ActiveOf(u)' \subseteq ActiveOf(u)
    BY <1>3, RowsMove
  <2>2. Creating(u)' \subseteq Creating(u)
    BY <1>3, RequestsMove DEF Creating
  <2> QED BY <1>0, <2>1, <2>2, WithinShrinks DEF AccountLimitHolds
<1> QED BY <1>1, <1>2, <1>3

LEMMA BotLimitKept ==
    ASSUME PlatformInv, NEW u \in Users, BotLimitHolds(u), [Next]_vars
    PROVE  BotLimitHolds(u)'
<1> DEFINE Grows(r) == \E a \in Accounts, s \in Scripts : CreateBot(r, u, a, s)
           Commits(r) == req[r].user = u /\ \E b \in Bots : BotCommits(r, b)
<1>0. MaxBots \in Nat /\ IsFiniteSet(BotsOf(u)) /\ IsFiniteSet(Adding(u))
    BY LimitSetsFinite
<1>1. CASE \E r \in Requests : Grows(r)
  <2>1. PICK r \in Requests, a \in Accounts, s \in Scripts : CreateBot(r, u, a, s)
    BY <1>1
  <2>2. BotsOf(u)' = BotsOf(u) /\ Adding(u)' = Adding(u) \cup {r} /\ r \notin Adding(u)
    BY <2>1 DEF CreateBot, BotsOf, Adding, rows, Begins, Idle, PlatformInv, PlatformTypeOK
  <2>3. Cardinality(BotsOf(u)) < MaxBots /\ Adding(u) \subseteq Requests
    BY <2>1 DEF CreateBot, Adding
  <2> QED BY <1>0, <2>2, <2>3, WithinAdmits DEF BotLimitHolds
<1>2. CASE \E r \in Requests : Commits(r)
  <2>1. PICK r \in Requests, b \in Bots : BotCommits(r, b) /\ req[r].user = u
    BY <1>2
  <2>2. BotsOf(u)' = BotsOf(u) \cup {b}
    BY <2>1 DEF BotCommits, BotsOf, PlatformInv, PlatformTypeOK
  <2>3. Adding(u)' = Adding(u) \ {r} /\ r \in Adding(u)
    <3>1. \A q \in Requests : req'[q] = IF q = r THEN Idle ELSE req[q]
      BY <2>1 DEF BotCommits, Ends, PlatformInv, PlatformTypeOK
    <3>2. r \in Adding(u)
      BY <2>1 DEF BotCommits, Adding
    <3>3. \A q \in Requests : q \in Adding(u)' <=> q \in Adding(u) /\ q # r
      BY <3>1 DEF Adding, Idle
    <3>4. Adding(u) \subseteq Requests /\ Adding(u)' \subseteq Requests
      BY DEF Adding
    <3>5. Adding(u)' \subseteq Adding(u) \ {r} /\ Adding(u) \ {r} \subseteq Adding(u)'
      BY <3>3, <3>4
    <3> QED BY <3>2, <3>5
  <2>5. Within(BotsOf(u), Adding(u), MaxBots)
    BY DEF BotLimitHolds
  <2>6. Within(BotsOf(u) \cup {b}, Adding(u) \ {r}, MaxBots)
    BY <1>0, <2>3, <2>5, WithinCommits
  <2> QED BY <2>2, <2>3, <2>6 DEF BotLimitHolds
<1>3. CASE ~ \E r \in Requests : Grows(r) \/ Commits(r)
  <2>1. BotsOf(u)' \subseteq BotsOf(u)
    BY <1>3, RowsMove
  <2>2. Adding(u)' \subseteq Adding(u)
    BY <1>3, RequestsMove DEF Adding
  <2> QED BY <1>0, <2>1, <2>2, WithinShrinks DEF BotLimitHolds
<1> QED BY <1>1, <1>2, <1>3

\* The limits of the plan and of the user are passed by no more than the
\* requests that were in flight together, less one.
THEOREM PlatformLimits == Spec => []LimitsHold
<1>1. Init => LimitsHold
  <2> SUFFICES ASSUME Init, NEW u \in Users PROVE AccountLimitHolds(u) /\ BotLimitHolds(u)
    BY LimitsAreTheirHalves
  <2>1. ActiveOf(u) = {} /\ BotsOf(u) = {} /\ Creating(u) = {} /\ Adding(u) = {}
    BY DEF Init, ActiveOf, BotsOf, Creating, Adding, Idle, NoRow
  <2>2. Cardinality(Requests) \in Nat /\ Cardinality(Requests) # 0
    BY FS_CardinalityType, FS_EmptySet
  <2> QED BY <2>1, <2>2, FS_EmptySet DEF AccountLimitHolds, BotLimitHolds, Within
<1>2. PlatformInv /\ LimitsHold /\ [Next]_vars => LimitsHold'
  <2> SUFFICES ASSUME PlatformInv, LimitsHold, [Next]_vars PROVE LimitsHold'
    OBVIOUS
  <2>1. \A u \in Users : AccountLimitHolds(u)' /\ BotLimitHolds(u)'
    BY LimitsAreTheirHalves, AccountLimitKept, BotLimitKept
  <2> QED BY <2>1 DEF LimitsHold, AccountLimitHolds, BotLimitHolds, Within
<1> QED BY <1>1, <1>2, PlatformSafety, PTL DEF Spec

=============================================================================
