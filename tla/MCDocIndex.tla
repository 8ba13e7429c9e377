----------------------------- MODULE MCDocIndex -----------------------------
(* Instances of DocIndex for TLC: fault budgets and symmetry. *)
EXTENDS DocIndex, FiniteSetsExt, TLC

Budget(crash, redeliver, stall, heartbeat, redis, db, refused) ==
    [k \in FaultKind |->
        CASE k = "crash"     -> crash
          [] k = "redeliver" -> redeliver
          [] k = "stall"     -> stall
          [] k = "heartbeat" -> heartbeat
          [] k = "redis"     -> redis
          [] k = "db"        -> db
          [] k = "broker"    -> refused]

\* Every fault but the loss of a lock that is being refreshed, two at most in
\* one behaviour.
LockKept == Budget(1, 1, 0, 0, 1, 1, 1)

AtMostTwo == MapThenSumSet(LAMBDA k : faults[k], FaultKind) <= 2

\* A process dies, Redis refuses one command and forgets a lock.
OneWorkerFaults == Budget(1, 0, 1, 0, 1, 0, 0)

\* A redelivered document loses its lock because a refresh fails.
RefreshFails == Budget(0, 1, 0, 1, 0, 0, 0)

\* Executions are interchangeable; used for safety only.
Workers == Permutations(Exec)
=============================================================================
