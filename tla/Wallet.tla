------------------------------- MODULE Wallet -------------------------------
(***************************************************************************)
(* The prepaid balance of one user who is no administrator, and the table  *)
(* of transactions that explains it: the requests that start a bot, set up *)
(* an account or pay money in, the webhook of Stripe, and the billing tick *)
(* (api/routers/bots.py, accounts.py, payments.py, usage_billing.py).      *)
(*                                                                         *)
(* Each of them is a database session: it reads the user once, computes    *)
(* with that copy, and writes the result back as an absolute value.  A     *)
(* flush takes the lock of the user's row until the session commits or     *)
(* rolls back.  SELECT FOR UPDATE takes it too, and does not refresh the   *)
(* copy.  Amounts are whole units.                                         *)
(***************************************************************************)
EXTENDS Integers

CONSTANTS
    Starts,     \* requests to start the bot
    Setups,     \* requests that add an account, for a fee
    Payments,   \* requests that pay in by PayPal or Razorpay
    Checkouts,  \* Stripe checkouts
    Deliveries, \* deliveries of the webhook of a paid checkout
    CheckoutOf, \* the checkout that a delivery is about
    Tick,       \* the session of a billing tick
    None,
    Opening, DeploymentFee, SetupFee, UsageCost, Credit,
    MinBalanceToStart, LowBalanceThreshold,
    Floor       \* bound: an idle user is not billed below this balance

Sessions == Starts \cup Setups \cup Payments \cup Deliveries \cup {Tick}

ASSUME WalletAssumption ==
    /\ Starts \cap (Setups \cup Payments \cup Deliveries) = {}
    /\ Setups \cap (Payments \cup Deliveries) = {}
    /\ Payments \cap Deliveries = {}
    /\ Tick \notin Starts \cup Setups \cup Payments \cup Deliveries
    /\ None \notin Sessions
    /\ CheckoutOf \in [Deliveries -> Checkouts]
    /\ {Opening, DeploymentFee, SetupFee, UsageCost, Credit} \subseteq Int
    /\ {MinBalanceToStart, LowBalanceThreshold, Floor} \subseteq Int

VARIABLES
    balance,  \* users.balance
    trail,    \* sum of the committed transactions
    running,  \* the row of the bot says running
    marked,   \* the tick has set it to stopped and not committed
    checkout, \* the transaction row of a checkout: its type
    deposits, \* deposits recorded for a checkout
    stripe,   \* what has become of a checkout at Stripe
    charged,  \* start requests with a committed charge
    rowLock,  \* the session that has the lock of the user's row
    pc,       \* each session: where it is
    base,     \* the balance that it read
    copy,     \* the balance of its copy of the user
    added     \* sum of its transactions that are not committed

dbVars == <<balance, trail, running, marked, checkout, deposits, stripe, charged>>
sessionVars == <<pc, base, copy, added>>
vars == <<dbVars, rowLock, sessionVars>>

WalletTypeOK ==
    /\ balance \in Int /\ trail \in Int
    /\ running \in BOOLEAN /\ marked \in BOOLEAN
    /\ checkout \in [Checkouts -> {"none", "deposit_pending", "deposit_completed", "deposit_failed"}]
    /\ deposits \in [Checkouts -> Nat]
    /\ stripe \in [Checkouts -> {"none", "open", "paid", "expired"}]
    /\ charged \subseteq Starts
    /\ rowLock \in Sessions \cup {None}
    /\ pc \in [Sessions -> {"idle", "read", "written", "started", "done", "failed"}]
    /\ base \in [Sessions -> Int]
    /\ copy \in [Sessions -> Int]
    /\ added \in [Sessions -> Int]

Init ==
    /\ balance = Opening
    /\ trail = Opening
    /\ running = FALSE
    /\ marked = FALSE
    /\ checkout = [c \in Checkouts |-> "none"]
    /\ deposits = [c \in Checkouts |-> 0]
    /\ stripe = [c \in Checkouts |-> "none"]
    /\ charged = {}
    /\ rowLock = None
    /\ pc = [s \in Sessions |-> "idle"]
    /\ base = [s \in Sessions |-> 0]
    /\ copy = [s \in Sessions |-> 0]
    /\ added = [s \in Sessions |-> 0]

-----------------------------------------------------------------------------
(***************************************************************************)
(* A session.                                                              *)
(***************************************************************************)
Goto(s, where) == pc' = [pc EXCEPT ![s] = where]

\* The user is loaded: current_user, or the query of a webhook or a tick.
Reads(s) ==
    /\ pc[s] = "idle"
    /\ base' = [base EXCEPT ![s] = balance]
    /\ copy' = [copy EXCEPT ![s] = balance]
    /\ Goto(s, "read")
    /\ UNCHANGED <<dbVars, rowLock, added>>

\* The copy is changed and the transaction added, and both are flushed: the
\* flush waits for the lock of the row.
Writes(s, amount) ==
    /\ rowLock \in {None, s}
    /\ rowLock' = s
    /\ copy' = [copy EXCEPT ![s] = @ + amount]
    /\ added' = [added EXCEPT ![s] = @ + amount]
    /\ UNCHANGED base

\* The session ends without a commit.
RollsBack(s) ==
    /\ rowLock' = IF rowLock = s THEN None ELSE rowLock
    /\ base' = [base EXCEPT ![s] = 0]
    /\ copy' = [copy EXCEPT ![s] = 0]
    /\ added' = [added EXCEPT ![s] = 0]

Commits(s) ==
    /\ balance' = copy[s]
    /\ trail' = trail + added[s]
    /\ RollsBack(s)

-----------------------------------------------------------------------------
(***************************************************************************)
(* POST /api/bots/{id}/start.                                              *)
(***************************************************************************)
Startable == ~running /\ balance >= MinBalanceToStart

StartReads(s) ==
    /\ Startable
    /\ Reads(s)

StartRefused(s) ==
    /\ ~Startable
    /\ pc[s] = "idle"
    /\ Goto(s, "failed")
    /\ UNCHANGED <<dbVars, rowLock, base, copy, added>>

StartCharges(s) ==
    /\ pc[s] = "read"
    /\ Writes(s, -DeploymentFee)
    /\ Goto(s, "written")
    /\ UNCHANGED dbVars

\* BotManager.start_bot returns; it writes the row of the bot in sessions of
\* its own.
StartSucceeds(s) ==
    /\ pc[s] = "written"
    /\ running' = TRUE
    /\ Goto(s, "started")
    /\ UNCHANGED <<balance, trail, marked, checkout, deposits, stripe, charged, rowLock,
                   base, copy, added>>

\* Mutants: the session is committed all the same, and so without the refund in
\* the transactions.
StartRaisesCommitted(s) ==
    /\ pc[s] = "written"
    /\ Commits(s)
    /\ charged' = charged \cup {s}
    /\ Goto(s, "failed")
    /\ UNCHANGED <<running, marked, checkout, deposits, stripe>>

StartRaisesUnrecorded(s) ==
    /\ pc[s] = "written"
    /\ balance' = copy[s] + DeploymentFee
    /\ trail' = trail + added[s]
    /\ RollsBack(s)
    /\ Goto(s, "failed")
    /\ UNCHANGED <<running, marked, checkout, deposits, stripe, charged>>

\* It raises: the refund is flushed, and the exception that follows rolls the
\* charge and the refund back.
StartRaises(s) ==
    /\ pc[s] = "written"
    /\ RollsBack(s)
    /\ Goto(s, "failed")
    /\ UNCHANGED dbVars

StartCommits(s) ==
    /\ pc[s] = "started"
    /\ Commits(s)
    /\ charged' = charged \cup {s}
    /\ Goto(s, "done")
    /\ UNCHANGED <<running, marked, checkout, deposits, stripe>>

\* The user stops the bot, or it ends: nothing is refunded.
BotStops ==
    /\ running
    /\ running' = FALSE
    /\ UNCHANGED <<balance, trail, marked, checkout, deposits, stripe, charged, rowLock,
                   sessionVars>>

-----------------------------------------------------------------------------
(***************************************************************************)
(* Requests that add an account, or a payment of PayPal or Razorpay: the   *)
(* provider is called between the read and the write.  A Razorpay          *)
(* verification sent again with the same signature is one more member of   *)
(* Payments: nothing remembers the first, and the amount is the request's. *)
(***************************************************************************)
Amount(s) == IF s \in Setups THEN -SetupFee ELSE Credit

RequestWrites(s) ==
    /\ pc[s] = "read"
    /\ Writes(s, Amount(s))
    /\ Goto(s, "written")
    /\ UNCHANGED dbVars

RequestCommits(s) ==
    /\ pc[s] = "written"
    /\ Commits(s)
    /\ Goto(s, "done")
    /\ UNCHANGED <<running, marked, checkout, deposits, stripe, charged>>

\* The provider refuses, or the database fails.
RequestFails(s) ==
    /\ pc[s] \in {"read", "written", "started"}
    /\ RollsBack(s)
    /\ Goto(s, "failed")
    /\ UNCHANGED dbVars

-----------------------------------------------------------------------------
(***************************************************************************)
(* Stripe checkouts.                                                       *)
(***************************************************************************)
\* POST /api/payments/add-funds: the checkout is created at Stripe, and the
\* pending row is written unless the database fails.
AddFunds(c, recorded) ==
    /\ stripe[c] = "none"
    /\ stripe' = [stripe EXCEPT ![c] = "open"]
    /\ checkout' = [checkout EXCEPT ![c] = IF recorded THEN "deposit_pending" ELSE @]
    /\ UNCHANGED <<balance, trail, running, marked, deposits, charged, rowLock, sessionVars>>

UserPays(c) ==
    /\ stripe[c] = "open"
    /\ stripe' = [stripe EXCEPT ![c] = "paid"]
    /\ UNCHANGED <<balance, trail, running, marked, checkout, deposits, charged, rowLock, sessionVars>>

\* checkout.session.expired: a pending row is marked, and without one a failed
\* one is added.
CheckoutExpires(c) ==
    /\ stripe[c] = "open"
    /\ stripe' = [stripe EXCEPT ![c] = "expired"]
    /\ checkout' = [checkout EXCEPT ![c] = "deposit_failed"]
    /\ UNCHANGED <<balance, trail, running, marked, deposits, charged, rowLock, sessionVars>>

\* checkout.session.completed, delivered until it is answered, and again when
\* the answer was late.
DeliveryReads(d) ==
    /\ stripe[CheckoutOf[d]] = "paid"
    /\ Reads(d)

DeliveryWrites(d) ==
    /\ pc[d] = "read"
    /\ Writes(d, Credit)
    /\ Goto(d, "written")
    /\ UNCHANGED dbVars

DeliveryCommits(d) ==
    LET c == CheckoutOf[d] IN
    /\ pc[d] = "written"
    /\ Commits(d)
    /\ checkout' = [checkout EXCEPT ![c] = IF @ = "deposit_pending" THEN "deposit_completed" ELSE @]
    /\ deposits' = [deposits EXCEPT ![c] = @ + 1]
    /\ Goto(d, "done")
    /\ UNCHANGED <<running, marked, stripe, charged>>

\* Mutant: an answer is given all the same.
DeliveryFailsAnswered(d) ==
    /\ pc[d] \in {"read", "written"}
    /\ RollsBack(d)
    /\ Goto(d, "done")
    /\ UNCHANGED dbVars

\* The database fails; the delivery is repeated.
DeliveryFails(d) ==
    /\ pc[d] \in {"read", "written"}
    /\ RollsBack(d)
    /\ Goto(d, "idle")
    /\ UNCHANGED dbVars

-----------------------------------------------------------------------------
(***************************************************************************)
(* The billing tick.                                                       *)
(***************************************************************************)
\* Mutant: a user who has nothing left is passed over.
TickReadsSolvent ==
    /\ balance > 0
    /\ Reads(Tick)

TickReads ==
    /\ balance > Floor \/ running
    /\ Reads(Tick)

TooLow(new) == new < LowBalanceThreshold

\* The usage is deducted from the copy.  If what is left is too little the bot is
\* marked as stopped, and BotManager stops it in sessions of its own, or fails to.
TickDeducts ==
    LET new == copy[Tick] - UsageCost IN
    /\ pc[Tick] = "read"
    /\ copy' = [copy EXCEPT ![Tick] = new]
    /\ added' = [added EXCEPT ![Tick] = -UsageCost]
    /\ marked' = (running /\ TooLow(new))
    /\ running' \in IF marked' THEN BOOLEAN ELSE {running}
    /\ Goto(Tick, "written")
    /\ UNCHANGED <<balance, trail, checkout, deposits, stripe, charged, rowLock, base>>

\* The commit flushes, and so waits for the lock of the row.  A mark overwrites
\* what the row of the bot says by now.
TickCommits ==
    /\ pc[Tick] = "written"
    /\ rowLock = None
    /\ Commits(Tick)
    /\ running' = (running /\ ~marked)
    /\ marked' = FALSE
    /\ Goto(Tick, "idle")
    /\ UNCHANGED <<checkout, deposits, stripe, charged>>

TickFails ==
    /\ pc[Tick] \in {"read", "written"}
    /\ RollsBack(Tick)
    /\ marked' = FALSE
    /\ Goto(Tick, "idle")
    /\ UNCHANGED <<balance, trail, running, checkout, deposits, stripe, charged>>

-----------------------------------------------------------------------------
Next ==
    \/ \E s \in Starts : StartReads(s)
    \/ \E s \in Starts : StartRefused(s)
    \/ \E s \in Starts : StartCharges(s)
    \/ \E s \in Starts : StartSucceeds(s)
    \/ \E s \in Starts : StartRaises(s)
    \/ \E s \in Starts : StartCommits(s)
    \/ BotStops
    \/ \E s \in Setups \cup Payments : Reads(s)
    \/ \E s \in Setups \cup Payments : RequestWrites(s)
    \/ \E s \in Setups \cup Payments : RequestCommits(s)
    \/ \E s \in Starts \cup Setups \cup Payments : RequestFails(s)
    \/ \E c \in Checkouts, recorded \in BOOLEAN : AddFunds(c, recorded)
    \/ \E c \in Checkouts : UserPays(c)
    \/ \E c \in Checkouts : CheckoutExpires(c)
    \/ \E d \in Deliveries : DeliveryReads(d)
    \/ \E d \in Deliveries : DeliveryWrites(d)
    \/ \E d \in Deliveries : DeliveryCommits(d)
    \/ \E d \in Deliveries : DeliveryFails(d)
    \/ TickReads
    \/ TickDeducts
    \/ TickCommits
    \/ TickFails

Spec == Init /\ [][Next]_vars

-----------------------------------------------------------------------------
\* The transactions explain the balance (the docstring of models/transaction):
\* while no session holds an outdated copy, a step changes the balance by what
\* it adds to the transactions.  With an outdated copy an update is lost.
Active(s) == pc[s] \in {"read", "written", "started"}
NoStaleCopy == \A s \in Sessions : Active(s) => base[s] = balance
ExactUnlessStale == [][NoStaleCopy => balance' - balance = trail' - trail]_vars

\* A start that fails is not charged (the refunds of start_bot).
FailedStartIsFree == \A s \in Starts : pc[s] = "failed" => s \notin charged

\* A checkout is credited once, however often Stripe delivers its completion
\* (the docstring of _handle_checkout_completed).
CreditedOnce == \A c \in Checkouts : deposits[c] <= 1

-----------------------------------------------------------------------------
(***************************************************************************)
(* Liveness.  BotManager.start_bot returns or raises, Stripe repeats a     *)
(* delivery until it is answered, the billing loop runs for ever, the      *)
(* database grants the lock of a row to all who wait, and does not fail a  *)
(* session that is tried again and again.                                  *)
(***************************************************************************)
Fairness ==
    /\ \A s \in Starts :
          /\ WF_vars(StartSucceeds(s) \/ StartRaises(s))
          /\ WF_vars(StartCommits(s))
    /\ \A s \in Setups \cup Payments : WF_vars(RequestCommits(s))
    /\ \A d \in Deliveries :
          /\ WF_vars(DeliveryReads(d))
          /\ SF_vars(DeliveryWrites(d))
          /\ SF_vars(DeliveryCommits(d))
    /\ WF_vars(TickReads)
    /\ SF_vars(TickDeducts)
    /\ SF_vars(TickCommits)

FairSpec == Spec /\ Fairness

\* Money paid at Stripe reaches the wallet (_handle_checkout_completed).
PaidIsCredited ==
    \A d \in Deliveries : stripe[CheckoutOf[d]] = "paid" ~> deposits[CheckoutOf[d]] > 0

\* A bot does not go on running on a balance below the threshold (the docstring
\* of usage_billing).
LowBalanceStops ==
    (running /\ balance < LowBalanceThreshold)
        ~> (~running \/ balance >= LowBalanceThreshold)
=============================================================================
