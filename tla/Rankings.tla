------------------------------ MODULE Rankings ------------------------------
(***************************************************************************)
(* One ranking of the homepage, a (section, period) of beat_rankings, and  *)
(* the requests that refresh it when they find it stale: GetHome in        *)
(* catalog/application/service.go with the ranking statements of           *)
(* spec_repo.go. Scores are numbers; how SQL adds them up is left out.     *)
(* Time is reduced to whether the newest calculation is within its window. *)
(***************************************************************************)
EXTENDS Naturals, FiniteSets

CONSTANTS
    Specs,
    Requests,    \* slots: homepage requests served at the same time
    MaxScore,    \* bound: scores are 0..MaxScore, 0 for what is not above zero
    MaxRuns,     \* bound: calculations that commit
    MaxFaults,   \* bound: failed statements and deaths
    Versioned,   \* TRUE for top_charts: rows of older algorithms do not count
    NULL

RankingsAssumption ==
    MaxScore \in Nat /\ MaxRuns \in Nat /\ MaxFaults \in Nat
        /\ Versioned \in BOOLEAN

VARIABLES
    live,     \* completed beats that are not deleted
    gone,     \* specs whose row was deleted
    score,    \* what the SQL computes for a spec now
    table,    \* the rows by spec; run 0 is an older algorithm's
    run,      \* number of the newest calculation
    fresh,    \* calculated_at of the newest rows is within the window
    lock,     \* the request holding the advisory lock
    req,      \* what each slot is doing
    unlucky,  \* history: a statement failed under the lock without a fault
    faults

world == <<live, gone, score>>
vars == <<world, table, run, fresh, lock, req, unlucky, faults>>

Rows == [rank : 1..Cardinality(Specs), score : 1..MaxScore, run : 0..MaxRuns]
Stages == {"idle", "freshness", "lock", "recalculate", "read"}

\* The shape of the rows and of the request slots.
TypeOK ==
    /\ live \in SUBSET Specs /\ gone \in SUBSET Specs
    /\ score \in [Specs -> 0..MaxScore]
    /\ table \in [Specs -> Rows \cup {NULL}]
    /\ run \in 0..MaxRuns
    /\ fresh \in BOOLEAN
    /\ lock \in Requests \cup {NULL}
    /\ req \in [Requests -> Stages]
    /\ unlucky \in BOOLEAN
    /\ faults \in 0..MaxFaults

Ranked(t) == {s \in Specs : t[s] # NULL}
Scored == {s \in live : score[s] > 0}

\* ROW_NUMBER() over descending scores; the further keys break ties somehow.
Rankings(of) ==
    {f \in [of -> 1..Cardinality(of)] :
        \A a, b \in of : a # b =>
            f[a] # f[b] /\ (score[a] > score[b] => f[a] < f[b])}

Init ==
    /\ live \in SUBSET Specs /\ gone = {}
    /\ score \in [Specs -> 0..MaxScore]
    /\ \/ table = [s \in Specs |-> NULL]
       \/ /\ Versioned
          /\ \E f \in Rankings(Scored) :
                table = [s \in Specs |-> IF s \notin Scored THEN NULL
                    ELSE [rank |-> f[s], score |-> score[s], run |-> 0]]
    /\ run = 0
    /\ fresh = FALSE
    /\ lock = NULL
    /\ req = [r \in Requests |-> "idle"]
    /\ unlucky = FALSE
    /\ faults = 0

Fault == faults < MaxFaults /\ faults' = faults + 1
GoTo(r, stage) == req' = [req EXCEPT ![r] = stage]

----------------------------------------------------------------------------
(* What the rest of the system does meanwhile.                             *)

\* A spec is published, soft-deleted or restored.
Relist(s) ==
    /\ s \notin gone
    /\ live' = IF s \in live THEN live \ {s} ELSE live \cup {s}
    /\ UNCHANGED <<gone, score, table, run, fresh, lock, req, unlucky, faults>>

\* A spec is deleted; its ranking row goes with it (ON DELETE CASCADE).
DeleteSpec(s) ==
    /\ s \notin gone
    /\ gone' = gone \cup {s} /\ live' = live \ {s}
    /\ table' = [table EXCEPT ![s] = NULL]
    /\ UNCHANGED <<score, run, fresh, lock, req, unlucky, faults>>

\* Plays, favorites, downloads, purchases and age change a score.
Rescore(s) ==
    /\ \E n \in 0..MaxScore : score' = [score EXCEPT ![s] = n]
    /\ UNCHANGED <<live, gone, table, run, fresh, lock, req, unlucky, faults>>

\* 15 minutes or an hour pass.
WindowEnds ==
    /\ fresh /\ fresh' = FALSE
    /\ UNCHANGED <<world, table, run, lock, req, unlucky, faults>>

----------------------------------------------------------------------------
(* A request.                                                              *)

HomeBegin(r) ==
    /\ req[r] = "idle"
    /\ GoTo(r, "freshness")
    /\ UNCHANGED <<world, table, run, fresh, lock, unlucky, faults>>

\* The rows the freshness query counts and GetRankedSpecs reads.
Counted == {s \in Ranked(table) : Versioned => table[s].run > 0}

\* Mutant of IsFresh: no rows count as fresh rows.
IsFreshWhenEmpty == fresh \/ Counted = {}

IsFresh == fresh /\ Counted # {}

\* ensureRankingFresh: an error only means that nothing is recalculated.
CheckFreshness(r) ==
    /\ req[r] = "freshness"
    /\ \/ GoTo(r, IF IsFresh THEN "read" ELSE "lock") /\ UNCHANGED faults
       \/ Fault /\ GoTo(r, "read")
    /\ UNCHANGED <<world, table, run, fresh, lock, unlucky>>

\* pg_try_advisory_xact_lock: a busy lock means that somebody recalculates.
TryLock(r) ==
    /\ req[r] = "lock"
    /\ \/ lock = NULL /\ lock' = r /\ GoTo(r, "recalculate") /\ UNCHANGED faults
       \/ lock # NULL /\ UNCHANGED lock /\ GoTo(r, "read") /\ UNCHANGED faults
       \/ Fault /\ UNCHANGED lock /\ GoTo(r, "read")
    /\ UNCHANGED <<world, table, run, fresh, unlucky>>

\* The lock is the transaction's and ends with it, however it ends.
Released(r) == IF lock = r THEN NULL ELSE lock

\* Mutant of Replaced: old rows of specs no longer ranked are not deleted.
ReplacedKeeping(f) ==
    [s \in Specs |-> IF s \notin Scored THEN table[s]
                     ELSE [rank |-> f[s], score |-> score[s], run |-> run + 1]]

\* What the section holds after DELETE and INSERT.
Replaced(f) ==
    [s \in Specs |-> IF s \notin Scored THEN NULL
                     ELSE [rank |-> f[s], score |-> score[s], run |-> run + 1]]

\* One statement deletes the old rows and inserts the new ones, and commits.
\* PostgreSQL does not order the two parts: an INSERT that comes first meets
\* the old row of every spec that is ranked again, and the statement fails.
Recalculate(r) ==
    /\ req[r] = "recalculate"
    /\ \/ /\ run < MaxRuns
          /\ \E f \in Rankings(Scored) : table' = Replaced(f)
          /\ run' = run + 1 /\ fresh' = TRUE
          /\ UNCHANGED <<unlucky, faults>>
       \/ /\ Ranked(table) \cap Scored # {}
          /\ unlucky' = TRUE
          /\ UNCHANGED <<table, run, fresh, faults>>
       \/ Fault /\ UNCHANGED <<table, run, fresh, unlucky>>
    /\ lock' = Released(r)
    /\ GoTo(r, "read")
    /\ UNCHANGED world

\* The Counted rows of live beats are read; if there are none, or the read
\* fails, the newest beats are shown. Nothing changes.
Answer(r) ==
    /\ req[r] = "read"
    /\ GoTo(r, "idle")
    /\ UNCHANGED <<world, table, run, fresh, lock, unlucky, faults>>

\* The request ends where it is; its transaction and lock end with it.
RequestDies(r) ==
    /\ req[r] # "idle" /\ Fault
    /\ GoTo(r, "idle")
    /\ lock' = Released(r)
    /\ UNCHANGED <<world, table, run, fresh, unlucky>>

Work(r) == CheckFreshness(r) \/ TryLock(r) \/ Recalculate(r)
    \/ Answer(r)

Next ==
    \/ \E s \in Specs : Relist(s) \/ DeleteSpec(s) \/ Rescore(s)
    \/ WindowEnds
    \/ \E r \in Requests : HomeBegin(r) \/ Work(r) \/ RequestDies(r)

Spec == Init /\ [][Next]_vars

\* A request that runs goes on.
Fairness == \A r \in Requests : WF_vars(Work(r))
FairSpec == Spec /\ Fairness

----------------------------------------------------------------------------

\* The section is one calculation, whatever requests, failures and deletions
\* come between: no row of another run stays, ranks are distinct, and no row
\* stands above one with a higher score.
OneCalculation ==
    \A a, b \in Ranked(table) : a # b =>
        /\ table[a].run = table[b].run
        /\ table[a].rank # table[b].rank
        /\ table[a].score > table[b].score => table[a].rank < table[b].rank

\* The lock belongs to the one request that recalculates, and is free when no
\* request does: a request that dies or fails does not leave it behind.
LockHeldByWorker ==
    \A r \in Requests : req[r] = "recalculate" <=> lock = r

\* A section and the lock that guards it.
RankingsInv == TypeOK /\ OneCalculation /\ LockHeldByWorker

\* "If the lock is acquired, the section is recalculated."
\* The code does not keep this: see "Divergences" in the README.
LockedRefreshes == ~unlucky

\* A section without any row is filled by the requests that find it so, as
\* long as some live beat has a score.
EmptyGetsFilled ==
    (/\ Ranked(table) = {} /\ run < MaxRuns
     /\ \E r \in Requests : req[r] = "freshness")
        ~> (Ranked(table) # {} \/ Scored = {} \/ run = MaxRuns)
=============================================================================
