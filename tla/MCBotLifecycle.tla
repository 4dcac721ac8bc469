--------------------------- MODULE MCBotLifecycle ---------------------------
EXTENDS BotLifecycle, TLC

\* Bots, tasks, locks and handlers are told apart by identity only.
Symmetry == Permutations(Bots) \cup Permutations(Tasks) \cup Permutations(Locks)
              \cup Permutations(StartReqs)
=============================================================================
