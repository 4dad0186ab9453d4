-------------------------------- MODULE SpScan --------------------------------
(***************************************************************************)
(* SilentPaymentScanner.scan(): the BIP-352 scan over the filter files of  *)
(* a block-dn server, with lanes that fetch, scan and identify their       *)
(* ranges side by side, downloads that are retried or fail for good, files *)
(* a CDN serves stale, workers that die, and the lanes that go on after    *)
(* scan() has rejected and has freed its scanner and its worker pool.      *)
(*                                                                         *)
(* A step is what the event loop runs between two awaits.  A block's       *)
(* content is reduced to the outputs that pay the scanner: at[o] is the    *)
(* height of output o.  Outputs are numbered in the order of their txid    *)
(* and vout.  Ranges are named by their start height.                      *)
(***************************************************************************)
EXTENDS Integers, Sequences, FiniteSets, Functions

CONSTANTS
    Outputs,        \* outputs that pay the scanner
    FalseMatches,   \* heights whose filter matches although nothing is there
    PerFile,        \* status.entries_per_filter_file
    Units,          \* batchSize, clamped: the width of the sliding window
    Attempts,       \* how often fetchBinary() tries: 4 in the code
    MaxTip,         \* bound: the highest block of a behaviour
    Windows,        \* bound: the pairs of a start and a tip that scan() gets
    MaxBad,         \* bound: ranges whose files the CDN does not have as they are
    MaxFaults       \* bound: failed downloads and dead workers

ASSUME ConstantsAssumption ==
    /\ Outputs \subseteq Nat
    /\ FalseMatches \subseteq Nat
    /\ PerFile \in Nat \ {0}
    /\ Units \in 1..16
    /\ Attempts \in Nat \ {0}
    /\ MaxTip \in Nat
    /\ Windows \subseteq Nat \X (0..MaxTip)
    /\ MaxBad \in Nat
    /\ MaxFaults \in Nat

VARIABLES
    at,         \* the chain's content, fixed
    copy,       \* what the CDN has of each range's files, fixed
    call,       \* the local state of scan()
    lane,       \* per range: how far its lane has come
    faults      \* downloads failed and workers died so far

vars == <<at, copy, call, lane, faults>>

Heights == 0..MaxTip
Starts == {h \in Heights : h % PerFile = 0}

Least(x, y) == IF x <= y THEN x ELSE y
Most(x, y) == IF x >= y THEN x ELSE y

(* "old": a copy off the committed filter headers, healed by the cache-    *)
(* busting refetch; "wrong": the server's own file is off them; "short":   *)
(* a copy from before the last blocks of the range.                        *)
Copies == {"good", "old", "wrong", "short"}

FileStart(h) == h - (h % PerFile)

(* The ranges of the scan, aligned to the server's files.                  *)
Ranges == {r \in Starts : FileStart(call.from) <= r /\ r <= call.tip}

Count(r) == Least(PerFile, call.tip - r + 1)

(* Blocks below the requested start are scanned but are not progress.      *)
Skipped(r) == Most(call.from, r) - r
Relevant(r) == Count(r) - Skipped(r)
Total == IF call.tip >= call.from THEN call.tip - call.from + 1 ELSE 0

(* What a range under way has reported of itself (the map partials), and   *)
(* the sum that report() shows: the partials are not negative where the    *)
(* window starts at tip + 1 at the latest.                                 *)
Partial(r) ==
    IF lane[r].blocks = 0 THEN 0
    ELSE Least(Most(0, lane[r].blocks - Skipped(r)), Relevant(r))
Reported == {b \in Ranges \X (1..PerFile) : b[2] <= Partial(b[1])}
Progress == call.done + Cardinality(Reported)

(* The matches scanBatch() reports for the range, less those below from.   *)
Matches(r) ==
    {h \in r..(r + Count(r) - 1) :
        h >= call.from /\ (h \in FalseMatches \/ \E o \in Outputs : at[o] = h)}

Waiting == [stage |-> "todo", fresh |-> FALSE, try |-> 1, blocks |-> 0,
            todo |-> {}, outs |-> {}]

Stages == {"todo", "fetch", "scan", "blocks", "identify", "unspent", "done",
           "dead", "lost"}

In(r, stage) == lane[r].stage = stage

LaneStops(r, stage) == lane' = [lane EXCEPT ![r] = [Waiting EXCEPT
                          !.stage = stage, !.blocks = lane[r].blocks]]

-----------------------------------------------------------------------------
(* scan() after syncHeaders(): the window is what the caller asked for and *)
(* what the header chain, the tweak and the filter index have.             *)
Start ==
    /\ call.phase = "idle"
    /\ \E w \in Windows :
          call' = [call EXCEPT !.phase = "create", !.from = w[1], !.tip = w[2]]
    /\ UNCHANGED <<at, copy, lane, faults>>

(* The server lacks an index, its layout or the dust limit is not          *)
(* supported, or syncHeaders() or the scanner's creation throws.           *)
Refused ==
    /\ call.phase = "idle"
    /\ call' = [call EXCEPT !.phase = "refused"]
    /\ UNCHANGED <<at, copy, lane, faults>>

(* SpScanPool.create() resolves: with a pool, or with null when there are  *)
(* no workers.  One unit never uses a pool.                                *)
PoolCreated ==
    /\ call.phase = "create"
    /\ \E pooled \in IF Units > 1 THEN BOOLEAN ELSE {FALSE} :
          call' = [call EXCEPT !.phase = "run", !.pooled = pooled,
                               !.next = FileStart(call.from)]
    /\ UNCHANGED <<at, copy, lane, faults>>

(* The ranges that hold a lane; one that failed or hangs keeps it for good. *)
Taken == {r \in Starts : lane[r].stage \notin {"todo", "done"}}

(* Mutant: as many lanes as there are ranges.                              *)
TakeRange_Unlimited(r) ==
    /\ call.phase \in {"run", "rejected"}
    /\ r = call.next /\ r \in Ranges
    /\ call' = [call EXCEPT !.next = @ + PerFile]
    /\ lane' = [lane EXCEPT ![r].stage = "fetch"]
    /\ UNCHANGED <<at, copy, faults>>

(* A lane takes the next range (mapPool's next++); one that failed takes   *)
(* no more, the others go on after scan() has rejected.                    *)
TakeRange(r) ==
    /\ call.phase \in {"run", "rejected"}
    /\ r = call.next /\ r \in Ranges
    /\ Cardinality(Taken) < Units
    /\ call' = [call EXCEPT !.next = @ + PerFile]
    /\ lane' = [lane EXCEPT ![r].stage = "fetch"]
    /\ UNCHANGED <<at, copy, faults>>

-----------------------------------------------------------------------------
(* Promise.all() of the tweak data, the filters and the cached headers, and *)
(* the previous filter header.                                             *)
Fetched(r) ==
    /\ In(r, "fetch")
    /\ lane' = [lane EXCEPT ![r].stage = "scan", ![r].try = 1]
    /\ UNCHANGED <<at, copy, call, faults>>

Fault == faults < MaxFaults /\ faults' = faults + 1

(* fetchBinary(): a server error, a dropped connection or a truncated      *)
(* response is tried again.                                                *)
FetchRetried(r) ==
    /\ In(r, "fetch") /\ lane[r].try < Attempts
    /\ Fault
    /\ lane' = [lane EXCEPT ![r].try = @ + 1]
    /\ UNCHANGED <<at, copy, call>>

(* A client error at once, any other after the last attempt.               *)
FetchFailed(r) ==
    /\ In(r, "fetch")
    /\ Fault
    /\ LaneStops(r, "dead")
    /\ UNCHANGED <<at, copy, call>>

-----------------------------------------------------------------------------
(* Whoever runs the range's batch is still there: the worker pool, or the  *)
(* scanner of this thread.                                                 *)
Alive == call.phase = "run"

(* onBlocks(): a worker's progress message, or the scanner of this thread. *)
(* A second attempt counts from the start again.                           *)
OnBlocks(r) ==
    /\ In(r, "scan")
    /\ Alive \/ call.pooled
    /\ \E blocks \in 1..(Count(r) - 1) :
          /\ blocks > lane[r].blocks \/ lane[r].fresh
          /\ lane' = [lane EXCEPT ![r].blocks = blocks]
    /\ UNCHANGED <<at, copy, call, faults>>

(* The copy at hand passes the commitment check.                           *)
Committed(r) == copy[r] = "good" \/ (copy[r] \in {"old", "short"} /\ lane[r].fresh)

(* scanBatch() returns, its last onBlocks() with the range's count before  *)
(* it.  An answer a worker posted before it was terminated still arrives.  *)
Scanned(r) ==
    /\ In(r, "scan") /\ Committed(r)
    /\ Alive \/ call.pooled
    /\ lane' = [lane EXCEPT ![r].blocks = Count(r), ![r].todo = Matches(r),
                            ![r].stage = IF Matches(r) = {} THEN "identify"
                                                            ELSE "blocks"]
    /\ UNCHANGED <<at, copy, call, faults>>

(* Mutant: the error's text is not the one scanRange() looks for.          *)
Mismatch_Final(r) ==
    /\ In(r, "scan") /\ copy[r] \in {"old", "wrong"} /\ ~Committed(r)
    /\ Alive \/ call.pooled
    /\ LaneStops(r, "dead")
    /\ UNCHANGED <<at, copy, call, faults>>

(* A filter does not match its committed filter header: one attempt more,  *)
(* past the cache.                                                         *)
Mismatch(r) ==
    /\ In(r, "scan") /\ copy[r] \in {"old", "wrong"} /\ ~Committed(r)
    /\ Alive \/ call.pooled
    /\ IF lane[r].fresh
       THEN LaneStops(r, "dead")
       ELSE lane' = [lane EXCEPT ![r].stage = "fetch", ![r].fresh = TRUE]
    /\ UNCHANGED <<at, copy, call, faults>>

(* Mutant: nobody answers for a worker that died.                          *)
ScanFailed_Hangs(r) ==
    /\ In(r, "scan")
    /\ Alive \/ call.pooled
    /\ \/ copy[r] = "short" /\ ~Committed(r) /\ UNCHANGED faults
       \/ call.pooled /\ Fault
    /\ LaneStops(r, "lost")
    /\ UNCHANGED <<at, copy, call>>

(* Any other error is final: a file that ends before the range does, or a  *)
(* worker that died.                                                       *)
ScanFailed(r) ==
    /\ In(r, "scan")
    /\ Alive \/ call.pooled
    /\ \/ copy[r] = "short" /\ ~Committed(r) /\ UNCHANGED faults
       \/ call.pooled /\ Fault
    /\ LaneStops(r, "dead")
    /\ UNCHANGED <<at, copy, call>>

(* After scan() has rejected: a terminated worker never answers, and the   *)
(* freed scanner's handle is unknown to Go.                                *)
ScanOnFreed(r) ==
    /\ In(r, "scan") /\ ~Alive
    /\ LaneStops(r, IF call.pooled THEN "lost" ELSE "dead")
    /\ UNCHANGED <<at, copy, call, faults>>

-----------------------------------------------------------------------------
(* The matched blocks are downloaded, four at a time.                      *)
BlocksFetched(r) ==
    /\ In(r, "blocks")
    /\ lane' = [lane EXCEPT ![r].stage = "identify"]
    /\ UNCHANGED <<at, copy, call, faults>>

BlocksFailed(r) ==
    /\ In(r, "blocks")
    /\ Fault
    /\ LaneStops(r, "dead")
    /\ UNCHANGED <<at, copy, call>>

(* scanBlock() identifies the outputs of the next matched block.           *)
Identify(r) ==
    /\ In(r, "identify") /\ Alive
    /\ \E h \in lane[r].todo :
          /\ \A g \in lane[r].todo : h <= g
          /\ LET outs == {o \in Outputs : at[o] = h}
             IN lane' = [lane EXCEPT ![r].todo = @ \ {h}, ![r].outs = outs,
                           ![r].stage = IF outs = {} THEN @ ELSE "unspent"]
    /\ UNCHANGED <<at, copy, call, faults>>

(* The scanner was freed under the lane.                                   *)
IdentifyOnFreed(r) ==
    /\ In(r, "identify") /\ ~Alive /\ lane[r].todo # {}
    /\ LaneStops(r, "dead")
    /\ UNCHANGED <<at, copy, call, faults>>

(* isUnspent() of one output is back (it never rejects): the output joins  *)
(* the results and is streamed to onFound(), in the order of the block.    *)
Found(r) ==
    /\ In(r, "unspent")
    /\ \E o \in lane[r].outs :
          /\ call' = [call EXCEPT !.results = Append(@, o)]
          /\ lane' = [lane EXCEPT ![r].outs = @ \ {o},
                        ![r].stage = IF lane[r].outs = {o} THEN "identify"
                                                           ELSE @]
    /\ UNCHANGED <<at, copy, faults>>

(* Mutant: the range's partial count outlives the range.                   *)
RangeDone_KeepsPartial(r) ==
    /\ In(r, "identify") /\ lane[r].todo = {}
    /\ call' = [call EXCEPT !.done = @ + Relevant(r)]
    /\ lane' = [lane EXCEPT ![r] = [Waiting EXCEPT !.stage = "done",
                                                   !.blocks = Count(r)]]
    /\ UNCHANGED <<at, copy, faults>>

(* Every matched block of the range is identified.                         *)
RangeDone(r) ==
    /\ In(r, "identify") /\ lane[r].todo = {}
    /\ call' = [call EXCEPT !.done = @ + Relevant(r)]
    /\ lane' = [lane EXCEPT ![r] = [Waiting EXCEPT !.stage = "done"]]
    /\ UNCHANGED <<at, copy, faults>>

-----------------------------------------------------------------------------
(* By height, then txid and vout.                                          *)
InOrder(o, p) == at[o] < at[p] \/ (at[o] = at[p] /\ o < p)

(* results.sort()                                                          *)
Sorted(s) ==
    LET order == CHOOSE p \in Bijection(DOMAIN s, DOMAIN s) :
                    \A i, j \in DOMAIN s : i < j => ~InOrder(s[p[j]], s[p[i]])
    IN [i \in DOMAIN s |-> s[order[i]]]

(* Mutant: the results stay in the order in which they were found.         *)
Resolve_Unsorted ==
    /\ call.phase = "run"
    /\ \A r \in Ranges : In(r, "done")
    /\ call' = [call EXCEPT !.phase = "resolved"]
    /\ UNCHANGED <<at, copy, lane, faults>>

(* Every lane has returned: the results are sorted, the scanner and the    *)
(* pool are freed.                                                         *)
Resolve ==
    /\ call.phase = "run"
    /\ \A r \in Ranges : In(r, "done")
    /\ call' = [call EXCEPT !.phase = "resolved",
                            !.results = Sorted(@)]
    /\ UNCHANGED <<at, copy, lane, faults>>

(* A lane has failed: the finally block frees the scanner and the pool.    *)
Reject ==
    /\ call.phase = "run"
    /\ \E r \in Ranges : In(r, "dead")
    /\ call' = [call EXCEPT !.phase = "rejected"]
    /\ UNCHANGED <<at, copy, lane, faults>>

-----------------------------------------------------------------------------
Init ==
    /\ at \in [Outputs -> Heights]
    /\ copy \in [Starts -> Copies]
    /\ Cardinality({r \in Starts : copy[r] # "good"}) <= MaxBad
    /\ call = [phase |-> "idle", from |-> 0, tip |-> 0, pooled |-> FALSE,
               next |-> 0, done |-> 0, results |-> << >>]
    /\ lane = [r \in Starts |-> Waiting]
    /\ faults = 0

LaneStep(r) ==
    \/ Fetched(r) \/ FetchRetried(r) \/ FetchFailed(r)
    \/ Scanned(r) \/ Mismatch(r) \/ ScanFailed(r) \/ ScanOnFreed(r)
    \/ BlocksFetched(r) \/ BlocksFailed(r)
    \/ Identify(r) \/ IdentifyOnFreed(r) \/ Found(r) \/ RangeDone(r)

Next ==
    \/ Start \/ Refused \/ PoolCreated \/ Resolve \/ Reject
    \/ \E r \in Starts : TakeRange(r) \/ OnBlocks(r) \/ LaneStep(r)

Spec == Init /\ [][Next]_vars

(* A batch at a worker of the pool.                                        *)
AtWorker(r) == In(r, "scan") /\ call.pooled

(* Requests settle, after a bounded number of attempts; promise reactions  *)
(* run; and create() settles (MatchPool!CreateSettles).  A batch need not: *)
(* one posted to a worker that died while it was idle is never answered    *)
(* (matchpool.ts:64-65, 98-105; MatchPool!Hung).                           *)
FairSpec ==
    /\ Spec
    /\ WF_vars(PoolCreated \/ Resolve \/ Reject)
    /\ \A r \in Starts : /\ WF_vars(TakeRange(r))
                          /\ WF_vars(~AtWorker(r) /\ LaneStep(r))

-----------------------------------------------------------------------------
Phases == {"idle", "refused", "create", "run", "resolved", "rejected"}
Calls == [phase : Phases, from : Nat, tip : 0..MaxTip, pooled : BOOLEAN,
          next : Nat, done : Int, results : Seq(Outputs)]
Lanes == [stage : Stages, fresh : BOOLEAN, try : 1..Attempts, blocks : 0..PerFile,
          todo : SUBSET Heights, outs : SUBSET Outputs]

(* Every variable stays in its domain; no more lanes hold a range than the *)
(* sliding window is wide (watchwallet.ts:144-163).                        *)
TypeOK ==
    /\ at \in [Outputs -> Heights] /\ copy \in [Starts -> Copies]
    /\ call \in Calls
    /\ lane \in [Starts -> Lanes]
    /\ faults \in 0..MaxFaults
    /\ Cardinality(Taken) <= Units

Wanted == {o \in Outputs : call.from <= at[o] /\ at[o] <= call.tip}

(* onFound() is called once for each output, with an output of the window, *)
(* however ranges interleave and are fetched again, also after a rejection *)
(* (spscanner.ts:451-472); and when scan() resolves, its array holds all   *)
(* of them by chain position (lines 316-318, 486-489).                     *)
Complete ==
    /\ IsInjective(call.results) /\ Range(call.results) \subseteq Wanted
    /\ call.phase = "resolved" =>
          /\ Range(call.results) = Wanted
          /\ \A i, j \in DOMAIN call.results :
                i < j => InOrder(call.results[i], call.results[j])

(* The progress reported counts no block twice, a range under way and done *)
(* included, and never exceeds the total, so that the clamp of report() is *)
(* idle (spscanner.ts:398-410, 480-483); a resolved scan has reported all. *)
(* A window that starts beyond tip + 1 has ranges with a negative number   *)
(* of relevant blocks (line 423), and is left out.                         *)
ProgressExact ==
    call.from <= call.tip + 1 =>
        /\ 0 <= Progress /\ Progress <= Total
        /\ call.phase = "resolved" => Progress = Total

(* scan() rejects only for a fault that no retry can heal: a copy off the  *)
(* committed filter headers is fetched again past the cache, and a         *)
(* transient download error is tried again (spscanner.ts:610-617,          *)
(* blockdn.ts:68-103); one lane's refetch never fails another.             *)
RejectedForCause ==
    call.phase = "rejected" =>
        faults > 0 \/ \E r \in Ranges : copy[r] \in {"wrong", "short"}

(* Every scan() that runs settles: no lane of it waits for a range that    *)
(* nobody works on, or for the answer of a worker that died under its      *)
(* batch; unless a batch stays at a worker for good, as one handed to a    *)
(* worker that was dead already does.                                      *)
Settles ==
    (\A r \in Starts : []<>~AtWorker(r))
    => (call.phase \in {"create", "run"} ~> call.phase \in {"resolved", "rejected"})
=============================================================================
