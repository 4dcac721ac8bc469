---------------------------- MODULE WalletProofs ----------------------------
(***************************************************************************)
(* Theorems of Wallet, for any number of requests, payments and deliveries *)
(* and any amounts: what a step does to balance and transactions, what the *)
(* transactions add up to, how often a checkout is credited, and what      *)
(* stops a bot.  Sums over requests are counts, of finite sets of them.    *)
(***************************************************************************)
EXTENDS Wallet, FiniteSetTheorems, TLAPS

\* A session's copy differs from what it read by the transactions that it has
\* added, and by none before it writes.
Books ==
    /\ \A s \in Sessions : copy[s] - base[s] = added[s]
    /\ \A s \in Sessions : pc[s] \in {"idle", "read"} => added[s] = 0

\* Only a start that has committed is charged.
ChargedIsDone == \A s \in charged : pc[s] = "done"

WalletInv == WalletTypeOK /\ Books /\ ChargedIsDone

-----------------------------------------------------------------------------
LEMMA InitWallet == Init => WalletInv
<1> SUFFICES ASSUME Init PROVE WalletInv
    OBVIOUS
<1>0. Opening \in Int
    BY WalletAssumption
<1>1. WalletTypeOK
    <2>1. /\ balance \in Int /\ trail \in Int /\ running \in BOOLEAN /\ marked \in BOOLEAN
          /\ charged \subseteq Starts /\ rowLock \in Sessions \cup {None}
        BY <1>0 DEF Init
    <2>2. /\ checkout \in [Checkouts -> {"none", "deposit_pending", "deposit_completed",
                                          "deposit_failed"}]
          /\ deposits \in [Checkouts -> Nat]
          /\ stripe \in [Checkouts -> {"none", "open", "paid", "expired"}]
        BY DEF Init
    <2>3. /\ pc \in [Sessions -> {"idle", "read", "written", "started", "done", "failed"}]
          /\ base \in [Sessions -> Int]
          /\ copy \in [Sessions -> Int]
          /\ added \in [Sessions -> Int]
        BY DEF Init
    <2> QED
        BY <2>1, <2>2, <2>3 DEF WalletTypeOK
<1>2. Books
    BY DEF Init, Books
<1>3. ChargedIsDone
    BY DEF Init, ChargedIsDone
<1> QED
    BY <1>1, <1>2, <1>3 DEF WalletInv

\* Reading, writing, rolling back and committing keep the books (get_db and
\* record_transaction).
LEMMA ReadsBooks ==
  ASSUME WalletTypeOK, Books, NEW s \in Sessions, Reads(s)
  PROVE  WalletTypeOK' /\ Books'
BY DEF WalletTypeOK, Books, Reads, Goto, dbVars

LEMMA WritesBooks ==
  ASSUME WalletTypeOK, Books, NEW s \in Sessions, NEW amount \in Int,
         Writes(s, amount), Goto(s, "written"), UNCHANGED dbVars
  PROVE  WalletTypeOK' /\ Books'
BY DEF WalletTypeOK, Books, Writes, Goto, dbVars

LEMMA EndsBooks ==
  ASSUME WalletTypeOK, Books, NEW s \in Sessions, RollsBack(s),
         NEW where \in {"idle", "done", "failed"}, Goto(s, where)
  PROVE  /\ pc' \in [Sessions -> {"idle", "read", "written", "started", "done", "failed"}]
         /\ rowLock' \in Sessions \cup {None}
         /\ base' \in [Sessions -> Int]
         /\ copy' \in [Sessions -> Int]
         /\ added' \in [Sessions -> Int]
         /\ Books'
BY DEF WalletTypeOK, Books, RollsBack, Goto

LEMMA CommitsType ==
  ASSUME WalletTypeOK, NEW s \in Sessions, Commits(s)
  PROVE  balance' \in Int /\ trail' \in Int
BY DEF WalletTypeOK, Commits

\* What the kinds of sessions are.
LEMMA Kinds ==
  /\ Starts \subseteq Sessions /\ Setups \subseteq Sessions /\ Payments \subseteq Sessions
  /\ Deliveries \subseteq Sessions /\ Tick \in Sessions /\ Tick \notin Starts
  /\ \A s \in Setups \cup Payments \cup Deliveries : s \notin Starts
BY WalletAssumption DEF Sessions

LEMMA NextWallet == WalletInv /\ [Next]_vars => WalletInv'
<1> SUFFICES ASSUME WalletInv, [Next]_vars PROVE WalletInv'
    OBVIOUS
<1> USE Kinds DEF WalletInv, ChargedIsDone
<1>1. ASSUME NEW s \in Sessions, Reads(s) PROVE WalletInv'
    <2>1. WalletTypeOK' /\ Books'
        BY <1>1, ReadsBooks
    <2> QED
        BY <1>1, <2>1 DEF Reads, Goto, dbVars, WalletTypeOK
<1>2. ASSUME NEW s \in Starts, StartRefused(s) PROVE WalletInv'
    BY <1>2 DEF StartRefused, Goto, dbVars, WalletTypeOK, Books
<1>3. ASSUME NEW s \in Starts, StartCharges(s) PROVE WalletInv'
    <2>1. WalletTypeOK' /\ Books'
        BY <1>3, WritesBooks, WalletAssumption DEF StartCharges
    <2> QED
        BY <1>3, <2>1 DEF StartCharges, Goto, dbVars, WalletTypeOK
<1>4. ASSUME NEW s \in Starts, StartSucceeds(s) PROVE WalletInv'
    BY <1>4 DEF StartSucceeds, Goto, WalletTypeOK, Books
<1>5. ASSUME NEW s \in Sessions, pc[s] \in {"read", "written", "started"}, RollsBack(s),
             Goto(s, "failed") \/ Goto(s, "idle"), UNCHANGED dbVars
      PROVE  WalletInv'
    <2>1. WalletTypeOK' /\ Books'
        BY <1>5, EndsBooks DEF WalletTypeOK, dbVars
    <2> QED
        BY <1>5, <2>1 DEF Goto, dbVars, WalletTypeOK
<1>6. ASSUME NEW s \in Starts, StartCommits(s) PROVE WalletInv'
    <2>1. WalletTypeOK' /\ Books'
        BY <1>6, EndsBooks, CommitsType DEF StartCommits, Commits, WalletTypeOK
    <2> QED
        BY <1>6, <2>1 DEF StartCommits, Goto, WalletTypeOK
<1>7. CASE BotStops
    BY <1>7 DEF BotStops, sessionVars, WalletTypeOK, Books
<1>8. ASSUME NEW s \in Setups \cup Payments, RequestWrites(s) PROVE WalletInv'
    <2>1. Amount(s) \in Int
        BY WalletAssumption DEF Amount
    <2>2. WalletTypeOK' /\ Books'
        BY <1>8, <2>1, WritesBooks DEF RequestWrites
    <2> QED
        BY <1>8, <2>2 DEF RequestWrites, Goto, dbVars, WalletTypeOK
<1>9. ASSUME NEW s \in Setups \cup Payments, RequestCommits(s) PROVE WalletInv'
    <2>1. WalletTypeOK' /\ Books'
        BY <1>9, EndsBooks, CommitsType DEF RequestCommits, Commits, WalletTypeOK
    <2> QED
        BY <1>9, <2>1 DEF RequestCommits, Goto, WalletTypeOK
<1>10. ASSUME NEW c \in Checkouts,
              \/ \E recorded \in BOOLEAN : AddFunds(c, recorded)
              \/ UserPays(c) \/ CheckoutExpires(c)
       PROVE  WalletInv'
    BY <1>10 DEF AddFunds, UserPays, CheckoutExpires, sessionVars, WalletTypeOK, Books
<1>11. ASSUME NEW d \in Deliveries, DeliveryWrites(d) PROVE WalletInv'
    <2>1. WalletTypeOK' /\ Books'
        BY <1>11, WritesBooks, WalletAssumption DEF DeliveryWrites
    <2> QED
        BY <1>11, <2>1 DEF DeliveryWrites, Goto, dbVars, WalletTypeOK
<1>12. ASSUME NEW d \in Deliveries, DeliveryCommits(d) PROVE WalletInv'
    <2>1. CheckoutOf[d] \in Checkouts
        BY WalletAssumption
    <2>2. WalletTypeOK' /\ Books'
        BY <1>12, <2>1, EndsBooks, CommitsType DEF DeliveryCommits, Commits, WalletTypeOK
    <2> QED
        BY <1>12, <2>2 DEF DeliveryCommits, Goto, WalletTypeOK
<1>13. CASE TickDeducts
    <2>1. WalletTypeOK'
        BY <1>13, WalletAssumption DEF TickDeducts, Goto, WalletTypeOK
    <2>2. Books'
        BY <1>13, WalletAssumption DEF TickDeducts, Goto, WalletTypeOK, Books
    <2> QED
        BY <1>13, <2>1, <2>2 DEF TickDeducts, Goto, WalletTypeOK
<1>14. CASE TickCommits
    <2>1. WalletTypeOK' /\ Books'
        BY <1>14, EndsBooks, CommitsType DEF TickCommits, Commits, WalletTypeOK
    <2> QED
        BY <1>14, <2>1 DEF TickCommits, Goto, WalletTypeOK
<1>15. CASE UNCHANGED vars
    BY <1>15 DEF vars, dbVars, sessionVars, WalletTypeOK, Books
<1>16. ASSUME NEW s \in Sessions,
              \/ s \in Starts /\ (StartReads(s) \/ StartRaises(s))
              \/ s \in Starts \cup Setups \cup Payments /\ RequestFails(s)
              \/ s \in Deliveries /\ (DeliveryReads(s) \/ DeliveryFails(s))
              \/ s = Tick /\ TickReads
       PROVE  WalletInv'
    BY <1>1, <1>5, <1>16 DEF StartReads, StartRaises, RequestFails, DeliveryReads,
       DeliveryFails, TickReads
<1>17. CASE TickFails
    <2>1. WalletTypeOK' /\ Books'
        BY <1>17, EndsBooks DEF TickFails, WalletTypeOK
    <2> QED
        BY <1>17, <2>1 DEF TickFails, Goto, WalletTypeOK
<1> QED
    BY <1>1, <1>2, <1>3, <1>4, <1>6, <1>7, <1>8, <1>9, <1>10, <1>11, <1>12, <1>13,
       <1>14, <1>15, <1>16, <1>17 DEF Next

LEMMA WalletInvariant == Spec => []WalletInv
BY InitWallet, NextWallet, PTL DEF Spec

-----------------------------------------------------------------------------
\* The variables keep their types (the models of users and transactions).
THEOREM WalletTypeCorrect == Spec => []WalletTypeOK
BY WalletInvariant, PTL DEF WalletInv

\* A start that fails is never charged (start_bot, get_db).
THEOREM FailedStartTheorem == Spec => []FailedStartIsFree
<1>1. WalletInv => FailedStartIsFree
    BY DEF WalletInv, ChargedIsDone, FailedStartIsFree
<1> QED
    BY <1>1, WalletInvariant, PTL

\* A commit by a session whose copy is up to date changes the balance by its
\* transactions (all writers of users.balance).
LEMMA CommitExact ==
  ASSUME WalletInv, NoStaleCopy, NEW s \in Sessions, Active(s), Commits(s)
  PROVE  balance' - balance = trail' - trail
BY DEF WalletInv, WalletTypeOK, Books, NoStaleCopy, Commits

LEMMA StepExact ==
  ASSUME WalletInv, [Next]_vars, NoStaleCopy
  PROVE  balance' - balance = trail' - trail
<1> USE Kinds
<1>1. ASSUME NEW s \in Starts, StartCommits(s) PROVE balance' - balance = trail' - trail
    BY <1>1, CommitExact DEF StartCommits, Active
<1>2. ASSUME NEW s \in Setups \cup Payments, RequestCommits(s)
      PROVE  balance' - balance = trail' - trail
    BY <1>2, CommitExact DEF RequestCommits, Active
<1>3. ASSUME NEW d \in Deliveries, DeliveryCommits(d)
      PROVE  balance' - balance = trail' - trail
    BY <1>3, CommitExact DEF DeliveryCommits, Active
<1>4. CASE TickCommits
    BY <1>4, CommitExact DEF TickCommits, Active
<1>5. ASSUME UNCHANGED <<balance, trail>> PROVE balance' - balance = trail' - trail
    BY <1>5 DEF WalletInv, WalletTypeOK
<1>6. CASE UNCHANGED vars
    BY <1>5, <1>6 DEF vars, dbVars
<1>7. ASSUME NEW s \in Starts, \/ StartReads(s) \/ StartRefused(s) \/ StartCharges(s)
                              \/ StartSucceeds(s) \/ StartRaises(s)
      PROVE  balance' - balance = trail' - trail
    BY <1>5, <1>7 DEF StartReads, StartRefused, StartCharges, StartSucceeds, StartRaises,
       Reads, dbVars
<1>8. ASSUME NEW s \in Sessions, \/ Reads(s) \/ RequestWrites(s) \/ RequestFails(s)
                                \/ DeliveryReads(s) \/ DeliveryWrites(s) \/ DeliveryFails(s)
      PROVE  balance' - balance = trail' - trail
    BY <1>5, <1>8 DEF Reads, RequestWrites, RequestFails, DeliveryReads, DeliveryWrites,
       DeliveryFails, dbVars
<1>9. ASSUME \/ BotStops
             \/ \E c \in Checkouts, recorded \in BOOLEAN : AddFunds(c, recorded)
             \/ \E c \in Checkouts : UserPays(c) \/ CheckoutExpires(c)
             \/ TickReads \/ TickDeducts \/ TickFails
      PROVE  balance' - balance = trail' - trail
    BY <1>5, <1>9 DEF BotStops, AddFunds, UserPays, CheckoutExpires, TickReads, TickDeducts,
       TickFails, Reads, dbVars
<1> QED
    BY <1>1, <1>2, <1>3, <1>4, <1>6, <1>7, <1>8, <1>9 DEF Next

\* Money is lost or made only by a session with an outdated copy (all writers of
\* users.balance).
THEOREM ExactTheorem == Spec => ExactUnlessStale
<1>1. WalletInv /\ [Next]_vars => [NoStaleCopy => balance' - balance = trail' - trail]_vars
    BY StepExact
<1> QED
    BY <1>1, WalletInvariant, PTL DEF Spec, ExactUnlessStale

-----------------------------------------------------------------------------
(***************************************************************************)
(* The transactions are those of the requests that were answered, one for  *)
(* each, whatever has become of the balance.                               *)
(***************************************************************************)
\* The sessions of a kind that have committed.
Answered(S) == {s \in S : pc[s] = "done"}

\* The amount of the one transaction that a session adds.
Adds(s) ==
    CASE s \in Starts     -> -DeploymentFee
      [] s \in Deliveries -> Credit
      [] s = Tick         -> -UsageCost
      [] OTHER            -> Amount(s)

Writing(s) == pc[s] \in {"written", "started"}

\* From the flush to the end a session has that transaction, and before and after none.
Pending == \A s \in Sessions : added[s] = IF Writing(s) THEN Adds(s) ELSE 0

\* A step that commits the session s, and one that leaves transactions and answers.
Settles(s) ==
    /\ Writing(s)
    /\ trail' = trail + added[s]
    /\ IF s = Tick THEN Goto(s, "idle") ELSE Goto(s, "done")
Quiet ==
    /\ UNCHANGED trail
    /\ \A S \in SUBSET Sessions : Answered(S)' = Answered(S)

LEMMA AddsType == \A s \in Sessions : Adds(s) \in Int
BY WalletAssumption DEF Adds, Amount, Sessions

\* The kinds of sessions, by what they add.
LEMMA AddsOf ==
  /\ \A s \in Starts : Adds(s) = -DeploymentFee
  /\ \A s \in Deliveries : Adds(s) = Credit
  /\ Adds(Tick) = -UsageCost
  /\ \A s \in Setups : Adds(s) = -SetupFee /\ Adds(s) = Amount(s)
  /\ \A s \in Payments : Adds(s) = Credit /\ Adds(s) = Amount(s)
BY WalletAssumption DEF Adds, Amount, Sessions

\* A session that goes on without being answered, or that is answered.
LEMMA AnsweredStep ==
  ASSUME WalletTypeOK, NEW s \in Sessions, pc[s] # "done", NEW where, Goto(s, where),
         NEW S \in SUBSET Sessions
  PROVE  /\ Answered(S)' = IF where = "done" /\ s \in S THEN Answered(S) \cup {s} ELSE Answered(S)
         /\ s \notin Answered(S)
BY DEF Answered, Goto, WalletTypeOK

LEMMA GoesOn ==
  ASSUME WalletTypeOK, NEW s \in Sessions, pc[s] # "done", NEW where, where # "done",
         Goto(s, where), UNCHANGED trail
  PROVE  Quiet
BY AnsweredStep DEF Quiet

\* Every step keeps Pending and either commits one session or is quiet.
LEMMA NextPending ==
  ASSUME WalletInv, Pending, [Next]_vars
  PROVE  Pending' /\ (Quiet \/ \E s \in Sessions : Settles(s))
<1> USE Kinds DEF WalletInv
<1>1. ASSUME NEW s \in Sessions, Reads(s) PROVE Pending' /\ Quiet
    <2>1. Quiet
        BY <1>1, GoesOn DEF Reads, dbVars
    <2>2. Pending'
        BY <1>1 DEF Reads, Goto, Pending, Writing, WalletTypeOK
    <2> QED
        BY <2>1, <2>2
<1>2. ASSUME NEW s \in Starts, StartRefused(s) PROVE Pending' /\ Quiet
    <2>1. Quiet
        BY <1>2, GoesOn DEF StartRefused, dbVars
    <2>2. Pending'
        BY <1>2 DEF StartRefused, Goto, Pending, Writing, WalletTypeOK
    <2> QED
        BY <2>1, <2>2
<1>3. ASSUME NEW s \in Sessions, pc[s] = "read", Writes(s, Adds(s)), Goto(s, "written"),
             UNCHANGED dbVars
      PROVE  Pending' /\ Quiet
    <2>1. Quiet
        BY <1>3, GoesOn DEF dbVars
    <2>2. Pending'
        BY <1>3, AddsType DEF Writes, Goto, Pending, Writing, WalletTypeOK
    <2> QED
        BY <2>1, <2>2
<1>4. ASSUME NEW s \in Starts, StartSucceeds(s) PROVE Pending' /\ Quiet
    <2>1. Quiet
        BY <1>4, GoesOn DEF StartSucceeds
    <2>2. Pending'
        BY <1>4 DEF StartSucceeds, Goto, Pending, Writing, WalletTypeOK
    <2> QED
        BY <2>1, <2>2
<1>5. ASSUME NEW s \in Sessions, pc[s] \in {"read", "written", "started"}, RollsBack(s),
             Goto(s, "failed") \/ Goto(s, "idle"), UNCHANGED trail
      PROVE  Pending' /\ Quiet
    <2>1. Quiet
        BY <1>5, GoesOn
    <2>2. Pending'
        BY <1>5 DEF RollsBack, Goto, Pending, Writing, WalletTypeOK
    <2> QED
        BY <2>1, <2>2
<1>6. ASSUME NEW s \in Sessions, Writing(s), Commits(s),
             IF s = Tick THEN Goto(s, "idle") ELSE Goto(s, "done")
      PROVE  Pending' /\ Settles(s)
    <2>1. Settles(s)
        BY <1>6 DEF Commits, Settles
    <2>2. Pending'
        BY <1>6 DEF Commits, RollsBack, Goto, Pending, Writing, WalletTypeOK
    <2> QED
        BY <2>1, <2>2
<1>7. ASSUME NEW s \in Starts, StartCharges(s) PROVE Pending' /\ Quiet
    BY <1>3, <1>7, AddsOf DEF StartCharges
<1>8. ASSUME NEW s \in Setups \cup Payments, RequestWrites(s) PROVE Pending' /\ Quiet
    BY <1>3, <1>8, AddsOf DEF RequestWrites
<1>9. ASSUME NEW d \in Deliveries, DeliveryWrites(d) PROVE Pending' /\ Quiet
    BY <1>3, <1>9, AddsOf DEF DeliveryWrites
<1>10. ASSUME \/ \E s \in Starts : StartCommits(s)
              \/ \E s \in Setups \cup Payments : RequestCommits(s)
              \/ \E d \in Deliveries : DeliveryCommits(d)
              \/ TickCommits
       PROVE  Pending' /\ \E s \in Sessions : Settles(s)
    <2>1. ASSUME NEW s \in Starts, StartCommits(s) PROVE Pending' /\ Settles(s)
        BY <1>6, <2>1 DEF StartCommits, Writing
    <2>2. ASSUME NEW s \in Setups \cup Payments, RequestCommits(s) PROVE Pending' /\ Settles(s)
        BY <1>6, <2>2, WalletAssumption DEF RequestCommits, Writing
    <2>3. ASSUME NEW d \in Deliveries, DeliveryCommits(d) PROVE Pending' /\ Settles(d)
        BY <1>6, <2>3, WalletAssumption DEF DeliveryCommits, Writing
    <2>4. CASE TickCommits
        BY <1>6, <2>4 DEF TickCommits, Writing
    <2> QED
        BY <1>10, <2>1, <2>2, <2>3, <2>4
<1>11. ASSUME NEW s \in Sessions,
              \/ s \in Starts /\ (StartReads(s) \/ StartRaises(s))
              \/ s \in Starts \cup Setups \cup Payments /\ RequestFails(s)
              \/ s \in Deliveries /\ (DeliveryReads(s) \/ DeliveryFails(s))
              \/ s = Tick /\ (TickReads \/ TickFails)
       PROVE  Pending' /\ Quiet
    BY <1>1, <1>5, <1>11 DEF StartReads, StartRaises, RequestFails, DeliveryReads,
       DeliveryFails, TickReads, TickFails, dbVars
<1>12. CASE TickDeducts
    <2>1. Quiet
        BY <1>12, GoesOn DEF TickDeducts
    <2>2. Pending'
        BY <1>12, AddsOf DEF TickDeducts, Goto, Pending, Writing, WalletTypeOK
    <2> QED
        BY <2>1, <2>2
<1>13. ASSUME UNCHANGED <<trail, pc, added>> PROVE Pending' /\ Quiet
    BY <1>13 DEF Pending, Writing, Quiet, Answered
<1>14. ASSUME \/ BotStops \/ UNCHANGED vars
              \/ \E c \in Checkouts, recorded \in BOOLEAN : AddFunds(c, recorded)
              \/ \E c \in Checkouts : UserPays(c) \/ CheckoutExpires(c)
       PROVE  Pending' /\ Quiet
    BY <1>13, <1>14 DEF BotStops, AddFunds, UserPays, CheckoutExpires, vars, dbVars, sessionVars
<1> QED
    BY <1>1, <1>2, <1>4, <1>7, <1>8, <1>9, <1>10, <1>11, <1>12, <1>14 DEF Next

LEMMA InitPending == Init => Pending
BY DEF Init, Pending, Writing

\* How many sessions of a finite kind were answered: a commit counts its session once.
LEMMA CountStep ==
  ASSUME WalletTypeOK, NEW S \in SUBSET Sessions, IsFiniteSet(S)
  PROVE  /\ Cardinality(Answered(S)) \in Nat
         /\ Quiet => Cardinality(Answered(S)') = Cardinality(Answered(S))
         /\ \A s \in Sessions : Settles(s) =>
                Cardinality(Answered(S)') = Cardinality(Answered(S))
                                            + (IF s \in S /\ s # Tick THEN 1 ELSE 0)
<1>1. IsFiniteSet(Answered(S)) /\ Cardinality(Answered(S)) \in Nat
    BY FS_Subset, FS_CardinalityType DEF Answered
<1>2. ASSUME NEW s \in Sessions, Settles(s)
      PROVE  Cardinality(Answered(S)') = Cardinality(Answered(S))
                                         + (IF s \in S /\ s # Tick THEN 1 ELSE 0)
    <2>1. pc[s] # "done"
        BY <1>2 DEF Settles, Writing
    <2>2. CASE s = Tick
        <3>1. Answered(S)' = Answered(S)
            BY <1>2, <2>1, <2>2, AnsweredStep DEF Settles
        <3> QED
            BY <1>1, <2>2, <3>1
    <2>3. CASE s # Tick
        <3>1. /\ Answered(S)' = IF s \in S THEN Answered(S) \cup {s} ELSE Answered(S)
              /\ s \notin Answered(S)
            BY <1>2, <2>1, <2>3, AnsweredStep DEF Settles
        <3>2. Cardinality(Answered(S) \cup {s}) = Cardinality(Answered(S)) + 1
            BY <1>1, <3>1, FS_AddElement
        <3> QED
            BY <1>1, <2>3, <3>1, <3>2
    <2> QED
        BY <2>2, <2>3
<1> QED
    BY <1>1, <1>2 DEF Quiet

LEMMA NoneAnswered == Init => \A S \in SUBSET Sessions : Cardinality(Answered(S)) = 0
<1>1. Init => \A S \in SUBSET Sessions : Answered(S) = {}
    BY DEF Init, Answered
<1> QED
    BY <1>1, FS_EmptySet

\* The table of transactions: the opening balance, one charge for each start that was
\* answered, one for each account, one credit for each payment and each answered
\* delivery, and the usage of k ticks.
Explained(k) ==
    trail = Opening - DeploymentFee * Cardinality(Answered(Starts))
                    - SetupFee * Cardinality(Answered(Setups))
                    + Credit * Cardinality(Answered(Payments))
                    + Credit * Cardinality(Answered(Deliveries))
                    - UsageCost * k
TrailExplained == \E k \in Nat : Explained(k)

LEMMA OneMore == ASSUME NEW a \in Int, NEW n \in Int PROVE a * (n + 1) = a * n + a /\ a * n \in Int
OBVIOUS

\* A commit of one session moves one term of the sum.
LEMMA ExplainedStep ==
  ASSUME NEW o \in Int, NEW a \in Int, NEW b \in Int, NEW c \in Int, NEW d \in Int, NEW e \in Int,
         NEW x \in Int, NEW t \in Int, t = o - a - b + c + d - e
  PROVE  /\ t + (-x) = o - (a + x) - b + c + d - e
         /\ t + (-x) = o - a - (b + x) + c + d - e
         /\ t + x = o - a - b + (c + x) + d - e
         /\ t + x = o - a - b + c + (d + x) - e
         /\ t + (-x) = o - a - b + c + d - (e + x)
OBVIOUS

LEMMA TrailStep ==
  ASSUME IsFiniteSet(Starts), IsFiniteSet(Setups), IsFiniteSet(Payments), IsFiniteSet(Deliveries),
         WalletInv, Pending, TrailExplained, [Next]_vars
  PROVE  TrailExplained'
<1> USE Kinds DEF WalletInv
<1> DEFINE N(S) == Cardinality(Answered(S))
           Kind == {Starts, Setups, Payments, Deliveries}
<1>1. PICK k \in Nat : Explained(k)
    BY DEF TrailExplained
<1>2. \A S \in Kind : S \in SUBSET Sessions /\ IsFiniteSet(S)
    OBVIOUS
<1>3. \A S \in Kind : N(S) \in Nat
    BY <1>2, CountStep
<1>4. CASE Quiet
    <2>1. \A S \in Kind : N(S)' = N(S)
        BY <1>2, <1>4, CountStep
    <2>2. Explained(k)'
        BY <1>1, <1>4, <2>1 DEF Explained, Quiet
    <2> QED
        BY <2>2 DEF TrailExplained
<1>5. ASSUME NEW s \in Sessions, Settles(s) PROVE TrailExplained'
    <2>1. \A S \in Kind : N(S)' = N(S) + (IF s \in S /\ s # Tick THEN 1 ELSE 0)
        BY <1>2, <1>5, CountStep
    <2>2. trail' = trail + Adds(s)
        BY <1>5 DEF Settles, Pending
    <2> DEFINE a == DeploymentFee * N(Starts)
               b == SetupFee * N(Setups)
               c == Credit * N(Payments)
               d == Credit * N(Deliveries)
               e == UsageCost * k
               add(S) == IF s \in S /\ s # Tick THEN 1 ELSE 0
    <2>3. trail \in Int /\ Opening \in Int /\ DeploymentFee \in Int /\ SetupFee \in Int
          /\ Credit \in Int /\ UsageCost \in Int
        BY WalletAssumption DEF WalletTypeOK
    <2>4. a \in Int /\ b \in Int /\ c \in Int /\ d \in Int /\ e \in Int
        BY <1>3, <2>3, OneMore
    <2>5. trail = Opening - a - b + c + d - e
        BY <1>1 DEF Explained
    <2>6. /\ DeploymentFee * (N(Starts) + 1) = a + DeploymentFee
          /\ SetupFee * (N(Setups) + 1) = b + SetupFee
          /\ Credit * (N(Payments) + 1) = c + Credit
          /\ Credit * (N(Deliveries) + 1) = d + Credit
          /\ UsageCost * (k + 1) = e + UsageCost
        BY <1>3, <2>3, OneMore
    <2>7. Explained(IF s = Tick THEN k + 1 ELSE k)'
        <3>1. CASE s \in Starts
            <4>1. /\ N(Starts)' = N(Starts) + 1
                  /\ N(Setups)' = N(Setups) /\ N(Payments)' = N(Payments) /\ N(Deliveries)' = N(Deliveries)
                  /\ s # Tick
                BY <1>3, <2>1, <3>1, WalletAssumption
            <4>2. trail' = Opening - (a + DeploymentFee) - b + c + d - e
                BY <2>2, <2>3, <2>4, <2>5, <3>1, AddsOf, ExplainedStep
            <4> QED
                BY <2>6, <4>1, <4>2 DEF Explained
        <3>2. CASE s \in Setups
            <4>1. /\ N(Setups)' = N(Setups) + 1
                  /\ N(Starts)' = N(Starts) /\ N(Payments)' = N(Payments) /\ N(Deliveries)' = N(Deliveries)
                  /\ s # Tick
                BY <1>3, <2>1, <3>2, WalletAssumption
            <4>2. trail' = Opening - a - (b + SetupFee) + c + d - e
                BY <2>2, <2>3, <2>4, <2>5, <3>2, AddsOf, ExplainedStep
            <4> QED
                BY <2>6, <4>1, <4>2 DEF Explained
        <3>3. CASE s \in Payments
            <4>1. /\ N(Payments)' = N(Payments) + 1
                  /\ N(Starts)' = N(Starts) /\ N(Setups)' = N(Setups) /\ N(Deliveries)' = N(Deliveries)
                  /\ s # Tick
                BY <1>3, <2>1, <3>3, WalletAssumption
            <4>2. trail' = Opening - a - b + (c + Credit) + d - e
                BY <2>2, <2>3, <2>4, <2>5, <3>3, AddsOf, ExplainedStep
            <4> QED
                BY <2>6, <4>1, <4>2 DEF Explained
        <3>4. CASE s \in Deliveries
            <4>1. /\ N(Deliveries)' = N(Deliveries) + 1
                  /\ N(Starts)' = N(Starts) /\ N(Setups)' = N(Setups) /\ N(Payments)' = N(Payments)
                  /\ s # Tick
                BY <1>3, <2>1, <3>4, WalletAssumption
            <4>2. trail' = Opening - a - b + c + (d + Credit) - e
                BY <2>2, <2>3, <2>4, <2>5, <3>4, AddsOf, ExplainedStep
            <4> QED
                BY <2>6, <4>1, <4>2 DEF Explained
        <3>5. CASE s = Tick
            <4>1. /\ N(Starts)' = N(Starts) /\ N(Setups)' = N(Setups)
                  /\ N(Payments)' = N(Payments) /\ N(Deliveries)' = N(Deliveries)
                BY <1>3, <2>1, <3>5
            <4>2. trail' = Opening - a - b + c + d - (e + UsageCost)
                BY <2>2, <2>3, <2>4, <2>5, <3>5, AddsOf, ExplainedStep
            <4> QED
                BY <2>6, <3>5, <4>1, <4>2 DEF Explained
        <3> QED
            BY <3>1, <3>2, <3>3, <3>4, <3>5 DEF Sessions
    <2> QED
        BY <1>1, <2>7 DEF TrailExplained
<1> QED
    BY <1>4, <1>5, NextPending

\* The transactions are one per answered request and one per tick, with its amount, in
\* every interleaving: an update that is lost is lost from the balance only
\* (record_transaction in the session of its caller; the docstring of models/transaction).
THEOREM TrailTheorem ==
  ASSUME IsFiniteSet(Starts), IsFiniteSet(Setups), IsFiniteSet(Payments), IsFiniteSet(Deliveries)
  PROVE  Spec => []TrailExplained
<1>1. Init => TrailExplained
    <2> SUFFICES ASSUME Init PROVE Explained(0)
        BY DEF TrailExplained
    <2>1. /\ Cardinality(Answered(Starts)) = 0 /\ Cardinality(Answered(Setups)) = 0
          /\ Cardinality(Answered(Payments)) = 0 /\ Cardinality(Answered(Deliveries)) = 0
        BY NoneAnswered, Kinds
    <2>2. trail = Opening
        BY DEF Init
    <2> QED
        BY <2>1, <2>2, WalletAssumption DEF Explained
<1>2. WalletInv /\ Pending /\ TrailExplained /\ [Next]_vars => Pending' /\ TrailExplained'
    BY NextPending, TrailStep
<1> QED
    BY <1>1, <1>2, InitPending, WalletInvariant, PTL DEF Spec

\* While no session holds an outdated copy, the balance is what the transactions say
\* (all writers of users.balance).
THEOREM BalanceTheorem == Spec /\ []NoStaleCopy => [](balance = trail)
<1>1. Init => balance = trail
    BY DEF Init
<1>2. WalletInv /\ WalletInv' /\ NoStaleCopy /\ balance = trail /\ [Next]_vars => (balance = trail)'
    BY StepExact DEF WalletInv, WalletTypeOK
<1> QED
    BY <1>1, <1>2, WalletInvariant, PTL DEF Spec

-----------------------------------------------------------------------------
(***************************************************************************)
(* Stripe checkouts.                                                       *)
(***************************************************************************)
\* The deliveries of a checkout.
About(c) == {d \in Deliveries : CheckoutOf[d] = c}

\* A checkout is credited once for each delivery that was answered, only if it was paid,
\* and then its row does not say pending or failed; a row says completed only of a
\* checkout that was credited.
DepositsRight ==
    \A c \in Checkouts :
        /\ deposits[c] = Cardinality(Answered(About(c)))
        /\ deposits[c] > 0 => stripe[c] = "paid" /\ checkout[c] \in {"none", "deposit_completed"}
        /\ checkout[c] = "deposit_completed" => deposits[c] > 0

\* The webhook is about a paid checkout, and a row follows what happens at Stripe.
CheckoutsInv ==
    /\ \A d \in Deliveries : pc[d] # "idle" => stripe[CheckoutOf[d]] = "paid"
    /\ \A c \in Checkouts : checkout[c] = "deposit_failed" => stripe[c] = "expired"
    /\ \A c \in Checkouts : stripe[c] = "none" => checkout[c] = "none"
    /\ DepositsRight

\* Only the commit of a delivery answers one or records a deposit.
Elsewhere ==
    /\ UNCHANGED deposits
    /\ \A d \in Deliveries : pc'[d] = "done" <=> pc[d] = "done"

\* Steps that leave the checkouts, and move a delivery only if its checkout is paid.
Apart ==
    /\ UNCHANGED <<checkout, stripe>>
    /\ \A d \in Deliveries : pc'[d] = pc[d] \/ stripe[CheckoutOf[d]] = "paid"

LEMMA OthersElsewhere ==
  ASSUME WalletInv, CheckoutsInv, [Next]_vars
  PROVE  \/ Elsewhere /\ Apart
         \/ \E c \in Checkouts, recorded \in BOOLEAN : AddFunds(c, recorded)
         \/ \E c \in Checkouts : UserPays(c) \/ CheckoutExpires(c)
         \/ \E d \in Deliveries : DeliveryCommits(d)
<1> USE Kinds, WalletAssumption DEF WalletInv, WalletTypeOK, Elsewhere, Apart, Goto, dbVars
<1>1. ASSUME NEW s \in Starts,
             \/ StartReads(s) \/ StartRefused(s) \/ StartCharges(s) \/ StartSucceeds(s)
             \/ StartRaises(s) \/ StartCommits(s) \/ RequestFails(s)
      PROVE  Elsewhere /\ Apart
    BY <1>1 DEF StartReads, StartRefused, StartCharges, StartSucceeds, StartRaises,
       StartCommits, RequestFails, Reads
<1>2. ASSUME NEW s \in Setups \cup Payments,
             Reads(s) \/ RequestWrites(s) \/ RequestCommits(s) \/ RequestFails(s)
      PROVE  Elsewhere /\ Apart
    BY <1>2 DEF Reads, RequestWrites, RequestCommits, RequestFails
<1>3. ASSUME NEW d \in Deliveries, DeliveryReads(d) PROVE Elsewhere /\ Apart
    BY <1>3 DEF DeliveryReads, Reads
<1>4. ASSUME NEW d \in Deliveries, DeliveryWrites(d) \/ DeliveryFails(d)
      PROVE  Elsewhere /\ Apart
    BY <1>4 DEF DeliveryWrites, DeliveryFails, CheckoutsInv
<1>5. CASE BotStops \/ UNCHANGED vars
    BY <1>5 DEF BotStops, vars, sessionVars
<1>6. CASE TickReads \/ TickDeducts \/ TickCommits \/ TickFails
    BY <1>6 DEF TickReads, Reads, TickDeducts, TickCommits, TickFails
<1> QED
    BY <1>1, <1>2, <1>3, <1>4, <1>5, <1>6 DEF Next

\* The deliveries of a checkout that were answered.
LEMMA AboutElsewhere ==
  ASSUME Elsewhere, NEW c \in Checkouts
  PROVE  Answered(About(c))' = Answered(About(c))
BY DEF Elsewhere, Answered, About

LEMMA AboutCommit ==
  ASSUME IsFiniteSet(Deliveries), WalletInv, NEW d \in Deliveries, DeliveryCommits(d),
         NEW c \in Checkouts
  PROVE  /\ Cardinality(Answered(About(c))) \in Nat
         /\ Cardinality(Answered(About(c))') = Cardinality(Answered(About(c)))
                                               + (IF c = CheckoutOf[d] THEN 1 ELSE 0)
<1>1. About(c) \in SUBSET Sessions /\ IsFiniteSet(About(c))
    BY Kinds, FS_Subset DEF About
<1>2. Settles(d) /\ d \in Sessions /\ d # Tick
    BY Kinds, WalletAssumption DEF Settles, Writing, DeliveryCommits, Commits
<1>3. d \in About(c) <=> c = CheckoutOf[d]
    BY DEF About
<1> HIDE DEF Settles
<1>4. About(c)' = About(c)
    BY DEF About
<1> QED
    BY <1>1, <1>2, <1>3, <1>4, CountStep DEF WalletInv, Answered

LEMMA NextCheckouts ==
  ASSUME IsFiniteSet(Deliveries), WalletInv, CheckoutsInv, [Next]_vars
  PROVE  CheckoutsInv'
<1> USE Kinds, WalletAssumption DEF WalletInv, WalletTypeOK
<1>1. CASE Elsewhere /\ Apart
    <2>1. \A c \in Checkouts : Cardinality(Answered(About(c))') = Cardinality(Answered(About(c)))
        BY <1>1, AboutElsewhere
    <2> QED
        BY <1>1, <2>1 DEF CheckoutsInv, DepositsRight, Elsewhere, Apart
<1>2. ASSUME NEW c \in Checkouts, NEW recorded \in BOOLEAN,
             AddFunds(c, recorded) \/ UserPays(c) \/ CheckoutExpires(c)
      PROVE  CheckoutsInv'
    <2>1. UNCHANGED <<deposits, pc>>
        BY <1>2 DEF AddFunds, UserPays, CheckoutExpires, sessionVars
    <2>2. \A a \in Checkouts : Cardinality(Answered(About(a))') = Cardinality(Answered(About(a)))
        BY <2>1, AboutElsewhere DEF Elsewhere
    <2>3. \A a \in Checkouts : deposits[a] > 0 => stripe[a] = "paid"
        BY DEF CheckoutsInv, DepositsRight
    <2>4. DepositsRight'
        <3>1. \A a \in Checkouts : deposits'[a] = Cardinality(Answered(About(a))')
            BY <2>1, <2>2 DEF CheckoutsInv, DepositsRight
        <3>2. \A a \in Checkouts : stripe[a] = "paid" => UNCHANGED <<stripe[a], checkout[a]>>
            BY <1>2 DEF AddFunds, UserPays, CheckoutExpires
        <3>3. \A a \in Checkouts : checkout'[a] = "deposit_completed" => checkout[a] = "deposit_completed"
            BY <1>2 DEF AddFunds, UserPays, CheckoutExpires
        <3>4. \A a \in Checkouts :
                 /\ deposits[a] > 0 => stripe[a] = "paid" /\ checkout[a] \in {"none", "deposit_completed"}
                 /\ checkout[a] = "deposit_completed" => deposits[a] > 0
            BY DEF CheckoutsInv, DepositsRight
        <3> QED
            BY <2>1, <3>1, <3>2, <3>3, <3>4 DEF DepositsRight
    <2>5. \A d \in Deliveries : pc'[d] # "idle" => stripe'[CheckoutOf[d]] = "paid"
        BY <1>2, <2>1 DEF CheckoutsInv, AddFunds, UserPays, CheckoutExpires
    <2>6. \A a \in Checkouts : /\ checkout[a] = "deposit_failed" => stripe[a] = "expired"
                               /\ stripe[a] = "none" => checkout[a] = "none"
        BY DEF CheckoutsInv
    <2>7. \A a \in Checkouts : /\ checkout'[a] = "deposit_failed" => stripe'[a] = "expired"
                               /\ stripe'[a] = "none" => checkout'[a] = "none"
        BY <1>2, <2>6 DEF AddFunds, UserPays, CheckoutExpires
    <2> QED
        BY <2>4, <2>5, <2>7 DEF CheckoutsInv
<1>3. ASSUME NEW d \in Deliveries, DeliveryCommits(d) PROVE CheckoutsInv'
    <2>1. \A c \in Checkouts :
              /\ Cardinality(Answered(About(c))) \in Nat
              /\ Cardinality(Answered(About(c))') = Cardinality(Answered(About(c)))
                                                    + (IF c = CheckoutOf[d] THEN 1 ELSE 0)
        BY <1>3, AboutCommit
    <2>2. stripe[CheckoutOf[d]] = "paid" /\ CheckoutOf[d] \in Checkouts
        BY <1>3 DEF CheckoutsInv, DeliveryCommits
    <2>3. \A c \in Checkouts : deposits'[c] = Cardinality(Answered(About(c))')
        BY <1>3, <2>1 DEF CheckoutsInv, DepositsRight, DeliveryCommits
    <2> QED
        BY <1>3, <2>2, <2>3 DEF CheckoutsInv, DepositsRight, DeliveryCommits, Goto
<1> QED
    BY <1>1, <1>2, <1>3, OthersElsewhere

\* Paid checkouts are credited once for each answered delivery, and their rows agree
\* (_handle_checkout_completed, _handle_checkout_expired; the safety half of PaidIsCredited).
THEOREM DepositTheorem ==
  ASSUME IsFiniteSet(Deliveries)
  PROVE  Spec => []DepositsRight
<1>1. Init => CheckoutsInv
    BY NoneAnswered, Kinds DEF Init, CheckoutsInv, DepositsRight, About
<1>2. WalletInv /\ CheckoutsInv /\ [Next]_vars => CheckoutsInv'
    BY NextCheckouts
<1>3. CheckoutsInv => DepositsRight
    BY DEF CheckoutsInv
<1> QED
    BY <1>1, <1>2, <1>3, WalletInvariant, PTL DEF Spec

\* A checkout whose completion Stripe delivers only once is credited only once: nothing
\* but a second delivery can credit it again (_handle_checkout_completed).
THEOREM OneDeliveryTheorem ==
  ASSUME IsFiniteSet(Deliveries),
         \A d \in Deliveries, e \in Deliveries : CheckoutOf[d] = CheckoutOf[e] => d = e
  PROVE  Spec => []CreditedOnce
<1>1. ASSUME DepositsRight, NEW c \in Checkouts PROVE deposits[c] <= 1
    <2>1. CASE Answered(About(c)) = {}
        <3>1. Cardinality(Answered(About(c))) = 0
            BY <2>1, FS_EmptySet
        <3> QED
            BY <1>1, <3>1 DEF DepositsRight
    <2>2. CASE \E d : Answered(About(c)) = {d}
        <3>1. Cardinality(Answered(About(c))) = 1
            BY <2>2, FS_Singleton
        <3> QED
            BY <1>1, <3>1 DEF DepositsRight
    <2>3. \A d \in Answered(About(c)) : Answered(About(c)) = {d}
        BY DEF Answered, About
    <2> QED
        BY <2>1, <2>2, <2>3
<1>2. DepositsRight => CreditedOnce
    BY <1>1 DEF CreditedOnce
<1> QED
    BY <1>2, DepositTheorem, PTL

-----------------------------------------------------------------------------
(***************************************************************************)
(* Starts and the billing tick.                                            *)
(***************************************************************************)
\* The starts that are charged are those that were answered, no more and no fewer.
ChargedAreAnswered == charged = Answered(Starts)

\* The tick holds a mark only from the deduction to the commit, and for a balance that
\* is too low.
MarkInv == marked => pc[Tick] = "written" /\ TooLow(copy[Tick])

\* Of all that goes on only the end of the bot itself and a tick take the bot from
\* running, and a tick only with a balance that is too low.
StopsWhenLow ==
    [][running /\ ~running' => \/ BotStops
                               \/ TickDeducts /\ TooLow(copy'[Tick])
                               \/ TickCommits /\ TooLow(balance')]_vars

LEMMA NextStarts ==
  ASSUME WalletInv, MarkInv, ChargedAreAnswered, [Next]_vars
  PROVE  MarkInv' /\ ChargedAreAnswered'
<1> USE Kinds, WalletAssumption DEF WalletInv, WalletTypeOK, MarkInv, ChargedAreAnswered,
    Answered, Goto, dbVars
<1>1. ASSUME NEW s \in Starts,
             \/ StartReads(s) \/ StartRefused(s) \/ StartCharges(s) \/ StartSucceeds(s)
             \/ StartRaises(s) \/ RequestFails(s)
      PROVE  MarkInv' /\ ChargedAreAnswered'
    BY <1>1 DEF StartReads, StartRefused, StartCharges, StartSucceeds,
       StartRaises, RequestFails, Reads, Writes, RollsBack
<1>2. ASSUME NEW s \in Starts, StartCommits(s) PROVE MarkInv' /\ ChargedAreAnswered'
    BY <1>2 DEF StartCommits, Commits, RollsBack
<1>3. ASSUME NEW s \in Setups \cup Payments,
             Reads(s) \/ RequestWrites(s) \/ RequestCommits(s) \/ RequestFails(s)
      PROVE  MarkInv' /\ ChargedAreAnswered'
    BY <1>3 DEF Reads, RequestWrites, RequestCommits, RequestFails, Writes, Commits, RollsBack
<1>4. ASSUME NEW d \in Deliveries,
             \/ DeliveryReads(d) \/ DeliveryWrites(d) \/ DeliveryCommits(d) \/ DeliveryFails(d)
      PROVE  MarkInv' /\ ChargedAreAnswered'
    BY <1>4 DEF DeliveryReads, DeliveryWrites, DeliveryCommits, DeliveryFails, Reads, Writes,
       Commits, RollsBack
<1>5. ASSUME \/ BotStops \/ UNCHANGED vars
             \/ \E c \in Checkouts, recorded \in BOOLEAN : AddFunds(c, recorded)
             \/ \E c \in Checkouts : UserPays(c) \/ CheckoutExpires(c)
      PROVE  MarkInv' /\ ChargedAreAnswered'
    BY <1>5 DEF BotStops, AddFunds, UserPays, CheckoutExpires, vars, sessionVars
<1>6. CASE TickReads \/ TickDeducts \/ TickCommits \/ TickFails
    BY <1>6 DEF TickReads, Reads, TickDeducts, TickCommits, TickFails, Commits, RollsBack
<1> QED
    BY <1>1, <1>2, <1>3, <1>4, <1>5, <1>6 DEF Next

\* A start that was answered is charged, and no other (start_bot, get_db).
THEOREM ChargedTheorem == Spec => []ChargedAreAnswered
<1>1. Init => MarkInv /\ ChargedAreAnswered
    BY Kinds DEF Init, MarkInv, ChargedAreAnswered, Answered
<1>2. WalletInv /\ MarkInv /\ ChargedAreAnswered /\ [Next]_vars => MarkInv' /\ ChargedAreAnswered'
    BY NextStarts
<1> QED
    BY <1>1, <1>2, WalletInvariant, PTL DEF Spec

LEMMA StopsStep ==
  ASSUME WalletInv, MarkInv, Next, running, ~running'
  PROVE  BotStops \/ (TickDeducts /\ TooLow(copy'[Tick])) \/ (TickCommits /\ TooLow(balance'))
<1> USE Kinds DEF WalletInv, WalletTypeOK, MarkInv, dbVars
<1>1. ASSUME NEW s \in Sessions,
             \/ s \in Starts /\ (\/ StartReads(s) \/ StartRefused(s) \/ StartCharges(s)
                                 \/ StartSucceeds(s) \/ StartRaises(s) \/ StartCommits(s))
             \/ Reads(s) \/ RequestWrites(s) \/ RequestCommits(s) \/ RequestFails(s)
             \/ DeliveryReads(s) \/ DeliveryWrites(s) \/ DeliveryCommits(s) \/ DeliveryFails(s)
      PROVE  FALSE
    BY <1>1 DEF StartReads, StartRefused, StartCharges, StartSucceeds, StartRaises, StartCommits,
       Reads, RequestWrites, RequestCommits, RequestFails, DeliveryReads, DeliveryWrites,
       DeliveryCommits, DeliveryFails
<1>2. ASSUME \/ \E c \in Checkouts, recorded \in BOOLEAN : AddFunds(c, recorded)
             \/ \E c \in Checkouts : UserPays(c) \/ CheckoutExpires(c)
             \/ TickReads \/ TickFails
      PROVE  FALSE
    BY <1>2 DEF AddFunds, UserPays, CheckoutExpires, TickReads, Reads, TickFails
<1>3. CASE TickDeducts
    BY <1>3 DEF TickDeducts
<1>4. CASE TickCommits
    BY <1>4 DEF TickCommits, Commits
<1> QED
    BY <1>1, <1>2, <1>3, <1>4 DEF Next

\* Nothing but its own end or the tick stops the bot, and a tick only on a balance below
\* the threshold, with whatever requests beside it (usage_billing).
THEOREM StopsTheorem == Spec => StopsWhenLow
<1>1. Init => MarkInv /\ ChargedAreAnswered
    BY Kinds DEF Init, MarkInv, ChargedAreAnswered, Answered
<1>2. WalletInv /\ MarkInv /\ ChargedAreAnswered /\ [Next]_vars => MarkInv' /\ ChargedAreAnswered'
    BY NextStarts
<1>3. WalletInv /\ MarkInv /\ [Next]_vars =>
          [running /\ ~running' => \/ BotStops
                                   \/ TickDeducts /\ TooLow(copy'[Tick])
                                   \/ TickCommits /\ TooLow(balance')]_vars
    BY StopsStep DEF vars, dbVars
<1> QED
    BY <1>1, <1>2, <1>3, WalletInvariant, PTL DEF Spec, StopsWhenLow
=============================================================================
