--------------------------- MODULE StrategyLineage ---------------------------
(***************************************************************************)
(* One lineage of BT.STRATEGY: its versions, the stored results of each,   *)
(* the best flag, and who writes them: the enqueue request (services/      *)
(* jobs.py), the workers (queue/worker.py with promotion/repo.py), the     *)
(* promote and delete requests (services/strategies.py) and the replay     *)
(* script (scripts/rerun_results.py).                                      *)
(*                                                                         *)
(* A procedure runs READ COMMITTED: its UPDATE takes the rows its own      *)
(* snapshot shows and rechecks them once their lock is free, so a row that *)
(* another transaction flags in between is not among them.  SP_INS_RESULT  *)
(* and SP_UPD_PROMOTE_STRATEGY are therefore two steps each, the snapshot  *)
(* and the commit; no index of the tables makes either flag unique.        *)
(***************************************************************************)
EXTENDS Promotion, FiniteSets, FiniteSetsExt

CONSTANTS
    Worker,       \* worker processes
    Http,         \* the request thread of a promote by hand
    Stages,       \* how far a run_optimize that answers can get
    Metrics,      \* the metrics its best trial can have
    MaxVid,       \* bound on the versions
    MaxJobs,      \* bound on the queue rows
    Hideable,     \* bound: the versions a request hides by themselves
    MaxByHand,    \* bound on the promotions by request
    MaxQueued     \* CONFIG.SETTING max_queued_per_user

ASSUME LineageAssumption == MaxVid \in Nat /\ MaxQueued \in Nat /\ Http \notin Worker

VARIABLES
    nvid,         \* versions of the lineage
    best,         \* the versions with IS_BEST_IND = 'Y'
    deleted,      \* the versions with LOGICAL_DELETE_IND = 'Y'
    results,      \* BT.RESULT rows of each version, oldest first
    jobs,         \* submissions: version and status
    posting,      \* the version of an enqueue that has no queue row yet, or 0
    replay,       \* versions the replay script has left to enqueue
    cutover,      \* the replay's cutover instant has passed
    proc,         \* each writer: where it stands and what it holds
    byHand,       \* history: versions promoted by request
    overlapped    \* history: kinds of write whose snapshots have overlapped

lineageVars == <<nvid, best, deleted, results, jobs, posting, replay, cutover, proc,
                 byHand, overlapped>>

Vid == 1 .. MaxVid
Writer == Worker \cup {Http}

\* run_optimize's payload.  Without a valid trial there is neither performance
\* nor walk-forward; a performance or a walk-forward that raises is left out.
optimize_response(stage, m) ==
    LET perf(x) == IF stage \in {"no valid trial", "no performance"} THEN None ELSE x
        wf(x) == IF stage \in {"no valid trial", "no walk-forward"} THEN None ELSE x
    IN  [sharpe |-> perf(m.sharpe), buy_hold |-> perf(m.buy_hold), calmar |-> perf(m.calmar),
         oos |-> wf(m.oos)]

Payload == {optimize_response(stage, m) : stage \in Stages, m \in Metrics}

Idle == [pc |-> "idle", job |-> 0, payload |-> None, vid |-> 0, seen |-> {}, rv |-> 0,
         opp |-> 0, out |-> "KEPT"]

LineageInit ==
    /\ nvid = 0 /\ best = {} /\ deleted = {}
    /\ results = [v \in Vid |-> << >>]
    /\ jobs = << >> /\ posting = 0 /\ replay = {} /\ cutover = FALSE
    /\ proc = [w \in Writer |-> Idle]
    /\ byHand = {} /\ overlapped = {}

\* The rows of a version flagged current, and the one SP_GET_RESULT returns.
current(v) == {i \in DOMAIN results[v] : results[v][i].current}
sp_get_result(v) ==
    LET top == Max({results[v][i].rv : i \in current(v)})
    IN  {results[v][i] : i \in {k \in current(v) : results[v][k].rv = top}}

\* sp_get_queued_count
queued_count == Cardinality({j \in DOMAIN jobs : jobs[j].st = "QUEUED"})

sp_ins_queue(v) ==
    /\ Len(jobs) < MaxJobs
    /\ jobs' = Append(jobs, [vid |-> v, st |-> "QUEUED"])

-----------------------------------------------------------------------------
(* The enqueue request.                                                    *)

\* enqueue up to SP_INS_STRATEGY, whose advisory lock makes it one step: the
\* next version, flagged best when it is the first.
Enqueue ==
    /\ posting = 0 /\ nvid < MaxVid
    /\ queued_count < MaxQueued
    /\ nvid' = nvid + 1 /\ posting' = nvid + 1
    /\ best' = IF nvid = 0 THEN {1} ELSE best
    /\ UNCHANGED <<deleted, results, jobs, replay, cutover, proc, byHand, overlapped>>

\* Its queue row, or an error before it: the version stays.
EnqueueRow ==
    /\ posting # 0
    /\ sp_ins_queue(posting) \/ UNCHANGED jobs
    /\ posting' = 0
    /\ UNCHANGED <<nvid, best, deleted, results, replay, cutover, proc, byHand, overlapped>>

\* reenqueue: another submission of a failed job's version.
Reenqueue(j) ==
    /\ jobs[j].st = "FAILED" /\ queued_count < MaxQueued
    /\ sp_ins_queue(jobs[j].vid)
    /\ UNCHANGED <<nvid, best, deleted, results, posting, replay, cutover, proc, byHand, overlapped>>

-----------------------------------------------------------------------------
(* The worker.                                                             *)

\* What a writer keeps: its job, and for the last step nothing else.
Held(w) == [Idle EXCEPT !.job = proc[w].job]
Judged(w) == [Held(w) EXCEPT !.pc = "verdict"]

Step(w, p) == proc' = [proc EXCEPT ![w] = p]
At(w, pc) == proc[w].pc = pc
Verdict(j, st) == jobs' = [jobs EXCEPT ![j].st = st]

\* worker_loop claims the row and fetch_job reads its version.
FetchJob(w) ==
    /\ At(w, "idle")
    /\ \E j \in DOMAIN jobs :
         /\ jobs[j].st = "QUEUED" /\ Verdict(j, "RUNNING")
         /\ Step(w, [Idle EXCEPT !.pc = "optimize", !.job = j, !.vid = jobs[j].vid])
    /\ UNCHANGED <<nvid, best, deleted, results, posting, replay, cutover, byHand, overlapped>>

\* run_optimize raises: the FAILED row.
OptimizeFails(w) ==
    /\ At(w, "optimize")
    /\ Verdict(proc[w].job, "FAILED")
    /\ Step(w, Idle)
    /\ UNCHANGED <<nvid, best, deleted, results, posting, replay, cutover, byHand, overlapped>>

\* It answers, and SP_INS_RESULT starts: the next RESULT_VID, the current rows.
InsResultBegin(w) ==
    /\ At(w, "optimize")
    /\ \E p \in Payload :
         LET v == proc[w].vid
         IN  Step(w, [proc[w] EXCEPT !.pc = "insert", !.payload = p, !.seen = current(v),
                                     !.rv = Max({0} \cup {results[v][i].rv : i \in DOMAIN results[v]}) + 1])
    /\ UNCHANGED <<nvid, best, deleted, results, jobs, posting, replay, cutover, byHand, overlapped>>

\* The rows once those seen are closed and the new one is inserted.
ins_result(rows, seen, row) ==
    Append([i \in DOMAIN rows |-> [rows[i] EXCEPT !.current = rows[i].current /\ i \notin seen]], row)

\* SP_INS_RESULT commits.  The UPDATE's snapshot is later than the MAX's.
InsResult(w) ==
    /\ At(w, "insert")
    /\ LET v == proc[w].vid
           row == [payload |-> proc[w].payload, rv |-> proc[w].rv, current |-> TRUE, old |-> ~ cutover]
           others == {u \in Worker \ {w} : At(u, "insert") /\ proc[u].vid = v}
       IN  /\ \E seen \in {proc[w].seen, current(v)} :
                results' = [results EXCEPT ![v] = ins_result(results[v], seen, row)]
           /\ overlapped' = IF others = {} THEN overlapped ELSE overlapped \cup {"insert"}
    /\ Step(w, [proc[w] EXCEPT !.pc = "promote", !.seen = {}, !.rv = 0])
    /\ UNCHANGED <<nvid, best, deleted, jobs, posting, replay, cutover, byHand>>

\* PromotionRepo.run, its first reads: the best row, any one when there are two.
PromotionRead(w) ==
    /\ At(w, "promote")
    /\ \E b \in best : Step(w, [proc[w] EXCEPT !.pc = "decide", !.opp = b])
    /\ UNCHANGED <<nvid, best, deleted, results, jobs, posting, replay, cutover, byHand, overlapped>>

\* _fetch_best_payload, None when the best version has no current result.
best_payloads(b) == IF current(b) = {} THEN {None} ELSE {r.payload : r \in sp_get_result(b)}

\* ... the best one's payload, then evaluate_promotion.
PromotionDecide(w) ==
    /\ At(w, "decide")
    /\ LET v == proc[w].vid
           is_current_best == proc[w].opp = v
       IN  \E p \in (IF is_current_best THEN {None} ELSE best_payloads(proc[w].opp)) :
             LET out == evaluate_promotion(proc[w].payload, p, is_current_best, v)
             IN  Step(w, IF out \in {"PROMOTED", "DEMOTED"}
                         THEN [Held(w) EXCEPT !.pc = "flip", !.vid = v, !.out = out]
                         ELSE Judged(w))
    /\ UNCHANGED <<nvid, best, deleted, results, jobs, posting, replay, cutover, byHand, overlapped>>

\* flip_best, SP_UPD_PROMOTE_STRATEGY: promoting the best version is a no-op.
FlipBegin(w) ==
    /\ At(w, "flip")
    /\ Step(w, IF proc[w].out = "PROMOTED" /\ proc[w].vid \in best
               THEN Judged(w)
               ELSE [proc[w] EXCEPT !.pc = "flipping", !.seen = best])
    /\ UNCHANGED <<nvid, best, deleted, results, jobs, posting, replay, cutover, byHand, overlapped>>

\* A plausible bug: demoting does not restore the first version.
flip_NoRestore(left, w) == IF proc[w].out = "PROMOTED" THEN left \cup {proc[w].vid} ELSE left

\* What the commit leaves: the target, or version 1 when a demotion left none.
flip(left, w) ==
    CASE proc[w].out = "PROMOTED" -> left \cup {proc[w].vid}
      [] proc[w].out = "DEMOTED" -> IF left = {} THEN {1} ELSE left

FlipBest(w) ==
    /\ At(w, "flipping")
    /\ \E seen \in {proc[w].seen, best} : best' = flip(best \ seen, w)
    /\ overlapped' = IF \E u \in Writer \ {w} : At(u, "flipping")
                     THEN overlapped \cup {"flip"} ELSE overlapped
    /\ byHand' = IF w = Http THEN byHand \cup {proc[w].vid} ELSE byHand
    /\ Step(w, IF w = Http THEN Idle ELSE Judged(w))
    /\ UNCHANGED <<nvid, deleted, results, jobs, posting, replay, cutover>>

\* A promotion that raises is logged and passed over; a request answers 500.
PromotionFails(w) ==
    /\ proc[w].pc \in {"promote", "decide", "flip", "flipping"}
    /\ Step(w, IF w = Http THEN Idle ELSE Judged(w))
    /\ UNCHANGED <<nvid, best, deleted, results, jobs, posting, replay, cutover, byHand, overlapped>>

\* The COMPLETED row.
Complete(w) ==
    /\ At(w, "verdict")
    /\ Verdict(proc[w].job, "COMPLETED")
    /\ Step(w, Idle)
    /\ UNCHANGED <<nvid, best, deleted, results, posting, replay, cutover, byHand, overlapped>>

\* The loop writes FAILED for a process that died, or for one it no longer
\* knows after its own restart and which goes on.
Reaped(w) ==
    /\ ~ At(w, "idle")
    /\ jobs[proc[w].job].st = "RUNNING" /\ Verdict(proc[w].job, "FAILED")
    /\ Step(w, Idle) \/ UNCHANGED proc
    /\ UNCHANGED <<nvid, best, deleted, results, posting, replay, cutover, byHand, overlapped>>

-----------------------------------------------------------------------------
(* The lifecycle requests and the replay script.                           *)

\* _require_owned_lineage
owned == jobs # << >>

\* promote: the same procedure, from the target's checks on.
Promote(v) ==
    /\ At(Http, "idle") /\ Cardinality(byHand) < MaxByHand
    /\ owned /\ v =< nvid /\ v \notin best
    /\ Step(Http, [Idle EXCEPT !.pc = "flipping", !.vid = v, !.out = "PROMOTED", !.seen = best])
    /\ UNCHANGED <<nvid, best, deleted, results, jobs, posting, replay, cutover, byHand, overlapped>>

\* set_logical_delete, of one version or of the lineage.  Only the replay
\* reads the flag, of versions with a result: it is left alone before there is
\* one and once the replay has read it.
SetLogicalDelete(vs, ind) ==
    /\ owned /\ ~ cutover /\ \E v \in vs : current(v) # {}
    /\ deleted' = IF ind = "Y" THEN deleted \cup vs ELSE deleted \ vs
    /\ deleted' # deleted
    /\ UNCHANGED <<nvid, best, results, jobs, posting, replay, cutover, proc, byHand, overlapped>>

\* stale_versions
stale_versions ==
    {v \in 1 .. nvid : v \notin deleted /\ current(v) # {} /\ \A r \in sp_get_result(v) : r.old}

\* rerun_user: the newest, as SP_GET_STRATEGY_LIST orders them, that the free
\* places of the cap allow; the rest is deferred.
Rerun ==
    /\ ~ cutover /\ cutover' = TRUE
    /\ LET newer(v) == {u \in stale_versions : u > v}
           budget == MaxQueued - queued_count
       IN  replay' = {v \in stale_versions : Cardinality(newer(v)) < budget}
    /\ UNCHANGED <<nvid, best, deleted, results, jobs, posting, proc, byHand, overlapped>>

\* ... one queue row per version, in that order.
RerunRow ==
    /\ \E v \in replay :
         /\ \A u \in replay : u =< v
         /\ sp_ins_queue(v) /\ replay' = replay \ {v}
    /\ UNCHANGED <<nvid, best, deleted, results, posting, cutover, proc, byHand, overlapped>>

LineageNext ==
    \/ Enqueue \/ EnqueueRow \/ Rerun \/ RerunRow
    \/ \E j \in DOMAIN jobs : Reenqueue(j)
    \/ \E w \in Worker :
         \/ FetchJob(w) \/ OptimizeFails(w) \/ InsResultBegin(w) \/ InsResult(w)
         \/ PromotionRead(w) \/ PromotionDecide(w) \/ FlipBegin(w)
         \/ Complete(w) \/ Reaped(w)
    \/ \E w \in Writer : FlipBest(w) \/ PromotionFails(w)
    \/ \E v \in Vid : Promote(v)
    \/ \E ind \in {"Y", "N"} :
         \/ SetLogicalDelete(1 .. nvid, ind)
         \/ \E v \in Hideable \cap (1 .. nvid) : SetLogicalDelete({v}, ind)

-----------------------------------------------------------------------------
(* Properties.                                                             *)

(* A lineage always has a best version, and one only as long as no two      *)
(* flips overlapped; the version of a COMPLETED job has a current result to *)
(* deploy, and one only as long as no two inserts overlapped.  Flags are    *)
(* cleared and set by different statements of concurrent workers and        *)
(* requests, which die and fail, with no unique index behind them.          *)
FlagsAccounted ==
    /\ nvid > 0 => best # {}
    /\ "flip" \notin overlapped => Cardinality(best) =< 1
    /\ \A j \in DOMAIN jobs : jobs[j].st = "COMPLETED" => current(jobs[j].vid) # {}
    /\ "insert" \notin overlapped => \A v \in Vid : Cardinality(current(v)) =< 1

(* A best version other than the first that nobody promoted by hand has a   *)
(* stored result with every HARD metric, each on the right side of its      *)
(* threshold, whichever best row it was compared with and whatever ran      *)
(* beside it; one that never had a hold-out Sharpe is not the best.         *)
BestPassedTheGates ==
    \A v \in best \ ({1} \cup byHand) : \E i \in DOMAIN results[v] :
        \A k \in DOMAIN PromotionMetrics :
            LET m == PromotionMetrics[k]
                x == extract_metric(results[v][i].payload, m.metric_key)
            IN  m.requirement_type = "HARD" /\ m.threshold # None =>
                    x # None /\ (IF m.direction = "lower_is_better" THEN x =< m.threshold
                                                                    ELSE x >= m.threshold)
=============================================================================
