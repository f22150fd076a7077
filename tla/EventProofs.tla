------------------------------ MODULE EventProofs ------------------------------
(***************************************************************************)
(* Proofs about the event pipeline, for every value of the constants.      *)
(***************************************************************************)
EXTENDS TeleportEVM, TeleportStarknet, EventPublisher, EventStore, EventStoreRedis, RankTheorems

-----------------------------------------------------------------------------
(* TeleportEVM: which blocks are asked for *)

\* What division gives: the quotient and the product around the dividend.
LEMMA DivBounds ==
    ASSUME NEW a \in Nat, NEW l \in Nat \ {0}
    PROVE  /\ a \div l \in Nat
           /\ (a \div l) * l <= a
           /\ a < ((a \div l) + 1) * l
  OBVIOUS

\* Products grow with their first factor.
LEMMA TimesMonotone ==
    ASSUME NEW i \in Nat, NEW j \in Nat, NEW l \in Nat, i <= j
    PROVE  i * l \in Nat /\ j * l \in Nat /\ i * l <= j * l
<1>1. PICK k \in Nat : j = i + k
  BY j - i \in Nat
<1>2. j * l = i * l + k * l
  BY <1>1
<1>3. i * l \in Nat /\ k * l \in Nat
  OBVIOUS
<1>4. QED
  BY <1>2, <1>3

\* s is a list of ranges without a hole that ends at block last.
Contiguous(s, last) ==
    /\ \A i \in 1..Len(s) : s[i][1] <= s[i][2] /\ s[i][2] <= last
    /\ \A i \in 1..Len(s) - 1 : s[i + 1][1] = s[i][2] + 1
    /\ s # <<>> => s[Len(s)][2] = last

\* splitBlockRanges cuts from..to into ranges without hole or overlap.
LEMMA SplitContiguous ==
    ASSUME NEW from \in Nat, NEW to \in Nat, NEW limit \in Nat \ {0}, from <= to
    PROVE  LET s == splitBlockRanges(from, to, limit) IN
           /\ s \in Seq(Nat \X Nat) /\ s # <<>> /\ s[1][1] = from
           /\ Contiguous(s, to)
<1> DEFINE s == splitBlockRanges(from, to, limit)
<1>1. CASE to - from <= limit
  <2>1. s = <<<<from, to>>>>
    BY <1>1 DEF splitBlockRanges
  <2>2. s \in Seq(Nat \X Nat) /\ s # <<>> /\ s[1][1] = from
    BY <2>1
  <2>3. Len(s) = 1 /\ s[1] = <<from, to>>
    BY <2>1
  <2>4. Contiguous(s, to)
    BY <2>2, <2>3 DEF Contiguous
  <2>5. QED
    BY <2>2, <2>4
<1>2. CASE to - from > limit
  <2> DEFINE q == (to - from) \div limit
             n == q + 1
             lastOf(i) == from + i * limit - 1
             rng(i) == <<from + (i - 1) * limit, IF lastOf(i) > to THEN to ELSE lastOf(i)>>
  <2>1. q \in Nat /\ q * limit <= to - from /\ to - from < n * limit
    BY DivBounds, to - from \in Nat
  <2>2. s = [i \in 1..n |-> rng(i)]
    BY <1>2 DEF splitBlockRanges
  <2> HIDE DEF s
  <2>3. ASSUME NEW i \in 1..n
        PROVE  /\ (i - 1) * limit \in Nat /\ i * limit \in Nat
               /\ i * limit = (i - 1) * limit + limit
               /\ (i - 1) * limit <= to - from
               /\ i <= q => i * limit <= to - from
    <3>1. i \in Nat /\ i - 1 \in Nat /\ i - 1 <= q
      BY <2>1
    <3>2. (i - 1) * limit \in Nat /\ (i - 1) * limit <= q * limit
      BY <2>1, <3>1, TimesMonotone
    <3>3. i <= q => i * limit <= q * limit
      BY <2>1, <3>1, TimesMonotone
    <3>4. i * limit = (i - 1) * limit + limit
      BY <3>1
    <3>5. q * limit \in Nat /\ i * limit \in Nat
      BY <2>1, <3>1
    <3>6. QED
      BY <2>1, <3>1, <3>2, <3>3, <3>4, <3>5
  <2>4. ASSUME NEW i \in 1..n
        PROVE  /\ rng(i) \in Nat \X Nat
               /\ rng(i)[1] <= rng(i)[2] /\ rng(i)[2] <= to
               /\ i <= q => rng(i)[2] = lastOf(i)
    BY <2>1, <2>3
  <2>5. rng(n)[2] = to
    BY <2>1, <2>3, n \in 1..n
  <2>6. s \in Seq(Nat \X Nat) /\ Len(s) = n
    BY <2>1, <2>2, <2>4
  <2>7. s # <<>> /\ s[1][1] = from
    <3>1. 1 \in 1..n /\ s[1] = rng(1)
      BY <2>1, <2>2
    <3>2. (1 - 1) * limit = 0
      OBVIOUS
    <3>3. QED
      BY <2>6, <3>1, <3>2
  <2>8. ASSUME NEW i \in 1..n - 1
        PROVE  rng(i + 1)[1] = rng(i)[2] + 1
    BY <2>1, <2>3, <2>4
  <2>9. Contiguous(s, to)
    <3> HIDE DEF rng
    <3>1. \A i \in 1..Len(s) : s[i] = rng(i)
      BY <2>2, <2>6
    <3>2. \A i \in 1..Len(s) : s[i][1] <= s[i][2] /\ s[i][2] <= to
      BY <2>4, <2>6, <3>1
    <3>3. ASSUME NEW i \in 1..Len(s) - 1
          PROVE  s[i + 1][1] = s[i][2] + 1
      <4>1. i \in 1..n - 1 /\ i \in 1..Len(s) /\ i + 1 \in 1..Len(s)
        BY <2>1, <2>6
      <4>2. s[i + 1] = rng(i + 1) /\ s[i] = rng(i)
        BY <3>1, <4>1
      <4>3. QED
        BY <2>8, <4>1, <4>2
    <3>4. s[Len(s)][2] = to
      BY <2>1, <2>5, <2>6, <3>1
    <3>5. QED
      BY <3>2, <3>3, <3>4 DEF Contiguous
  <2>10. QED
    BY <2>6, <2>7, <2>9 DEF s
<1>3. QED
  BY <1>1, <1>2

\* The last block, not yet shifted by the confirmations, that fetch has handed
\* to handleEvents.
FetchedUpTo ==
    CASE fetch.pc # "loop" -> fetch.latest
      [] fetch.pc = "loop" /\ fetch.ranges = <<>> -> fetch.current
      [] fetch.pc = "loop" /\ fetch.ranges # <<>> -> fetch.ranges[1][1] - 1

\* fetch knows heads that exist, and outside its loop nothing is left to do.
FetchState ==
    /\ fetch.pc \in {"wait", "loop"} => /\ BlockConfirms <= fetch.first
                                        /\ fetch.first <= fetch.latest
                                        /\ fetch.latest <= evmHead
    /\ fetch.pc = "start" => fetch.first = fetch.latest
    /\ fetch.pc = "loop" => /\ fetch.latest <= fetch.current /\ fetch.current <= evmHead
                            /\ Contiguous(fetch.ranges, fetch.current)
                            /\ fetch.ranges # <<>> => fetch.latest < fetch.ranges[1][1]
    /\ fetch.pc # "loop" => JobOver("fetch")
    /\ fetch.pc = "done" => evmDone

\* fetch has asked for all blocks up to FetchedUpTo but those of the job under way.
FetchAsked ==
    fetch.pc # "done" =>
        /\ passed["fetch"] =
             (EVMAddresses \X ((fetch.first + 1 - BlockConfirms)..(FetchedUpTo - BlockConfirms)))
                \ (job["fetch"].todo \X (job["fetch"].from..job["fetch"].to))
        /\ job["fetch"].todo # {} => /\ fetch.first + 1 - BlockConfirms <= job["fetch"].from
                                     /\ job["fetch"].to = FetchedUpTo - BlockConfirms

\* prefetch has asked for all blocks from the job under way to its head, but
\* those of that job.
PrefetchAsked ==
    /\ prefetch.pc = "start" => passed["prefetch"] = {} /\ prefetch.d = BlockConfirms
    /\ prefetch.pc = "loop" =>
        /\ BlockConfirms <= prefetch.d /\ prefetch.d <= prefetch.latest
        /\ prefetch.latest <= evmHead
        /\ job["prefetch"].to = prefetch.latest - prefetch.d
        /\ job["prefetch"].from =
             IF prefetch.latest - (prefetch.d + BlockLimit - 1) < 0 THEN 0
             ELSE prefetch.latest - (prefetch.d + BlockLimit - 1)
        /\ passed["prefetch"] =
             (EVMAddresses \X (job["prefetch"].from..(prefetch.latest - BlockConfirms)))
                \ (job["prefetch"].todo \X (job["prefetch"].from..job["prefetch"].to))
    /\ prefetch.pc # "loop" => JobOver("prefetch")

\* What is to be sent, or was sent, has been asked for.
SentWasAsked ==
    \A r \in Routines : \A l \in job[r].out \cup evmSent[r] : <<l.address, l.block>> \in passed[r]

\* The inductive invariant of the EVM provider.
EVMInd ==
    /\ EVMTypeOK /\ EVMStart <= evmHead
    /\ FetchState /\ FetchAsked /\ PrefetchAsked /\ SentWasAsked
    /\ NotSentTwice /\ OnlyConfirmed /\ PrefetchCovers

\* Every initial state satisfies the inductive invariant.
LEMMA EVMInitInd == EVMInit => EVMInd
<1> SUFFICES ASSUME EVMInit PROVE EVMInd
  OBVIOUS
<1>1. \A r \in Routines : job[r] = NoJob /\ passed[r] = {} /\ evmSent[r] = {}
  BY DEF EVMInit
<1>2. "fetch" \in Routines /\ "prefetch" \in Routines
  BY DEF Routines
<1>3. EVMTypeOK
  <2>1. <<>> \in Seq(Nat \X Nat)
    OBVIOUS
  <2>2. fetch \in [pc : {"start", "wait", "loop", "done"}, first : Nat, latest : Nat,
                   current : Nat, ranges : Seq(Nat \X Nat)]
    BY <2>1 DEF EVMInit
  <2>3. prefetch \in [pc : {"start", "loop", "done"}, latest : Nat, d : Nat]
    BY TeleportEVMAssumption DEF EVMInit
  <2>4. NoJob \in [from : Nat, to : Nat, todo : SUBSET EVMAddresses, out : SUBSET EVMLogs]
    BY DEF NoJob
  <2>5. QED
    BY <2>2, <2>3, <2>4, TeleportEVMAssumption DEF EVMInit, EVMTypeOK
<1>4. EVMStart <= evmHead
  BY TeleportEVMAssumption DEF EVMInit
<1>5. FetchState
  BY <1>1, <1>2 DEF EVMInit, FetchState, JobOver, NoJob
<1>6. FetchAsked
  <2>1. FetchedUpTo = 0 /\ fetch.first = 0
    BY DEF FetchedUpTo, EVMInit
  <2>2. (fetch.first + 1 - BlockConfirms)..(FetchedUpTo - BlockConfirms) = {}
    BY <2>1, TeleportEVMAssumption
  <2>3. QED
    BY <1>1, <1>2, <2>2 DEF FetchAsked, NoJob
<1>7. PrefetchAsked
  BY <1>1, <1>2 DEF EVMInit, PrefetchAsked, JobOver, NoJob
<1>8. SentWasAsked /\ NotSentTwice /\ OnlyConfirmed
  BY <1>1 DEF SentWasAsked, NotSentTwice, OnlyConfirmed, NoJob
<1>9. PrefetchCovers
  BY TeleportEVMAssumption DEF EVMInit, PrefetchCovers
<1>10. QED
  BY <1>3, <1>4, <1>5, <1>6, <1>7, <1>8, <1>9 DEF EVMInd

\* Asking for the range of the job at one more address.
LEMMA AskOneMore ==
    ASSUME NEW A, NEW T \in SUBSET A, NEW a \in T,
           NEW lo \in Int, NEW hi \in Int, NEW from \in Int, NEW to \in Int,
           lo <= from, to <= hi
    PROVE  ((A \X (lo..hi)) \ (T \X (from..to))) \cup ({a} \X (from..to))
             = (A \X (lo..hi)) \ ((T \ {a}) \X (from..to))
  OBVIOUS

\* Leaving out the range of the job at all the addresses that are left.
LEMMA AskNoMore ==
    ASSUME NEW A, NEW T \in SUBSET A,
           NEW lo \in Int, NEW hi \in Int, NEW from \in Int, NEW to \in Int,
           lo <= from, to <= hi
    PROVE  ((A \X (lo..hi)) \ (T \X (from..to))) \cup (T \X (from..to))
             = (A \X (lo..hi)) \ ({} \X (from..to))
  OBVIOUS

\* A new range above, of which nothing has been asked for.
LEMMA RangeAbove ==
    ASSUME NEW A, NEW lo \in Int, NEW mid \in Int, NEW hi \in Int, lo <= mid + 1, mid <= hi
    PROVE  A \X (lo..mid) = (A \X (lo..hi)) \ (A \X ((mid + 1)..hi))
  OBVIOUS

\* A new range below, of which nothing has been asked for.
LEMMA RangeBelow ==
    ASSUME NEW A, NEW lo \in Int, NEW mid \in Int, NEW hi \in Int, lo <= mid, mid <= hi + 1
    PROVE  A \X (mid..hi) = (A \X (lo..hi)) \ (A \X (lo..(mid - 1)))
  OBVIOUS

\* A new block leaves the routines as they are.
LEMMA EVMNewBlockKeeps == ASSUME EVMInd, EVMNewBlock PROVE EVMInd'
<1>1. EVMTypeOK' /\ (EVMStart <= evmHead)'
  BY TeleportEVMAssumption DEF EVMInd, EVMTypeOK, EVMNewBlock
<1>2. FetchState' /\ FetchedUpTo' = FetchedUpTo
  BY DEF EVMInd, EVMTypeOK, EVMNewBlock, FetchState, FetchedUpTo, JobOver
<1>3. FetchAsked'
  BY <1>2 DEF EVMInd, EVMNewBlock, FetchAsked
<1>4. PrefetchAsked'
  BY DEF EVMInd, EVMTypeOK, EVMNewBlock, PrefetchAsked, JobOver
<1>5. SentWasAsked' /\ NotSentTwice'
  BY DEF EVMInd, EVMNewBlock, SentWasAsked, NotSentTwice
<1>6. OnlyConfirmed'
  BY TeleportEVMAssumption DEF EVMInd, EVMTypeOK, EVMNewBlock, OnlyConfirmed
<1>7. PrefetchCovers'
  BY TeleportEVMAssumption DEF EVMInd, EVMTypeOK, EVMNewBlock, PrefetchCovers
<1>8. QED
  BY <1>1, <1>2, <1>3, <1>4, <1>5, <1>6, <1>7 DEF EVMInd

\* Neither does the cancellation.
LEMMA EVMCancelKeeps == ASSUME EVMInd, EVMCancel PROVE EVMInd'
<1>1. EVMTypeOK' /\ (EVMStart <= evmHead)'
  BY DEF EVMInd, EVMTypeOK, EVMCancel
<1>2. FetchState' /\ FetchedUpTo' = FetchedUpTo
  BY DEF EVMInd, EVMTypeOK, EVMCancel, FetchState, FetchedUpTo, JobOver
<1>3. FetchAsked' /\ PrefetchAsked'
  BY <1>2 DEF EVMInd, EVMCancel, FetchAsked, PrefetchAsked, JobOver
<1>4. SentWasAsked' /\ NotSentTwice' /\ OnlyConfirmed' /\ PrefetchCovers'
  BY DEF EVMInd, EVMCancel, SentWasAsked, NotSentTwice, OnlyConfirmed, PrefetchCovers
<1>5. QED
  BY <1>1, <1>2, <1>3, <1>4 DEF EVMInd

\* A job that has addresses left asks for blocks that are confirmed, and that
\* its routine has not asked for.
LEMMA JobsAreNew ==
    ASSUME EVMInd, NEW r \in Routines, ~evmDone, job[r].todo # {}
    PROVE  /\ job[r].to + BlockConfirms <= evmHead
           /\ (job[r].todo \X (job[r].from..job[r].to)) \cap passed[r] = {}
<1>1. CASE r = "fetch"
  <2>1. fetch.pc = "loop"
    BY <1>1 DEF EVMInd, EVMTypeOK, FetchState, JobOver
  <2>2. FetchedUpTo \in Int /\ FetchedUpTo <= fetch.current
    <3>1. CASE fetch.ranges = <<>>
      BY <2>1, <3>1 DEF FetchedUpTo, EVMInd, EVMTypeOK
    <3>2. CASE fetch.ranges # <<>>
      <4>1. 1 \in 1..Len(fetch.ranges) /\ fetch.ranges[1] \in Nat \X Nat
        BY <3>2 DEF EVMInd, EVMTypeOK
      <4>2. fetch.ranges[1][1] <= fetch.ranges[1][2] /\ fetch.ranges[1][2] <= fetch.current
        BY <2>1, <4>1 DEF EVMInd, FetchState, Contiguous
      <4>3. QED
        BY <2>1, <3>2, <4>1, <4>2 DEF FetchedUpTo, EVMInd, EVMTypeOK
    <3>3. QED
      BY <3>1, <3>2
  <2>3. job[r].to = FetchedUpTo - BlockConfirms
    BY <1>1, <2>1 DEF EVMInd, FetchAsked
  <2>4. fetch.current <= evmHead /\ fetch.current \in Int /\ evmHead \in Int
    BY <2>1 DEF EVMInd, EVMTypeOK, FetchState
  <2>5. job[r].to + BlockConfirms <= evmHead
    BY <2>2, <2>3, <2>4, TeleportEVMAssumption
  <2>6. QED
    BY <1>1, <2>1, <2>5 DEF EVMInd, FetchAsked
<1>2. CASE r = "prefetch"
  <2>1. prefetch.pc = "loop"
    BY <1>2 DEF EVMInd, EVMTypeOK, PrefetchAsked, JobOver
  <2>2. QED
    BY <1>2, <2>1, TeleportEVMAssumption DEF EVMInd, EVMTypeOK, PrefetchAsked
<1>3. QED
  BY <1>1, <1>2 DEF Routines

\* filterLogs of the next address: nothing is asked for a second time.
LEMMA FilterLogsKeeps ==
    ASSUME EVMInd, NEW r \in Routines, FilterLogs(r) PROVE EVMInd'
<1>1. PICK a \in job[r].todo :
        /\ job' = [job EXCEPT ![r].todo = @ \ {a}, ![r].out = Events(a, job[r].from, job[r].to)]
        /\ passed' = [passed EXCEPT ![r] = @ \cup ({a} \X (job[r].from..job[r].to))]
  BY DEF FilterLogs
<1>2. /\ ~evmDone /\ job[r].out = {}
      /\ UNCHANGED <<evmHead, evmDone, prefetch, fetch, evmSkipped, evmNulls, evmSent>>
  BY DEF FilterLogs
<1> DEFINE J == job[r]
           New == {a} \X (J.from..J.to)
<1>3. /\ J \in [from : Nat, to : Nat, todo : SUBSET EVMAddresses, out : SUBSET EVMLogs]
      /\ passed[r] \in SUBSET (EVMAddresses \X Nat)
  BY DEF EVMInd, EVMTypeOK
<1>4. /\ job'[r] = [J EXCEPT !.todo = @ \ {a}, !.out = Events(a, J.from, J.to)]
      /\ passed'[r] = passed[r] \cup New
      /\ \A q \in Routines \ {r} : job'[q] = job[q] /\ passed'[q] = passed[q]
  BY <1>1 DEF EVMInd, EVMTypeOK
<1>5. /\ job'[r].from = J.from /\ job'[r].to = J.to /\ job'[r].todo = J.todo \ {a}
      /\ job'[r].out = Events(a, J.from, J.to)
  BY <1>3, <1>4
<1>6. J.to + BlockConfirms <= evmHead /\ New \cap passed[r] = {}
  BY <1>1, <1>2, JobsAreNew
<1>7. EVMTypeOK' /\ (EVMStart <= evmHead)'
  <2>1. Events(a, J.from, J.to) \subseteq EVMLogs /\ New \subseteq EVMAddresses \X Nat
    BY <1>3 DEF Events
  <2>2. job' \in [Routines -> [from : Nat, to : Nat, todo : SUBSET EVMAddresses, out : SUBSET EVMLogs]]
    BY <1>1, <1>3, <2>1 DEF EVMInd, EVMTypeOK
  <2>3. passed' \in [Routines -> SUBSET (EVMAddresses \X Nat)]
    BY <1>1, <1>3, <2>1 DEF EVMInd, EVMTypeOK
  <2>4. QED
    BY <1>2, <2>2, <2>3 DEF EVMInd, EVMTypeOK
<1>8. FetchState' /\ FetchedUpTo' = FetchedUpTo
  BY <1>1, <1>2, <1>4, <1>5 DEF EVMInd, EVMTypeOK, FetchState, FetchedUpTo, JobOver, Contiguous, Routines
<1>9. FetchAsked'
  <2>1. CASE r = "fetch"
    <3>1. fetch.pc = "loop"
      BY <1>1, <2>1 DEF EVMInd, EVMTypeOK, FetchState, JobOver
    <3>2. /\ passed["fetch"] =
               (EVMAddresses \X ((fetch.first + 1 - BlockConfirms)..(FetchedUpTo - BlockConfirms)))
                 \ (J.todo \X (J.from..J.to))
          /\ fetch.first + 1 - BlockConfirms <= J.from
          /\ J.to = FetchedUpTo - BlockConfirms
      BY <1>1, <2>1, <3>1 DEF EVMInd, FetchAsked
    <3>3. J.from \in Int /\ J.to \in Int /\ FetchedUpTo - BlockConfirms \in Int /\ J.to <= FetchedUpTo - BlockConfirms
          /\ fetch.first + 1 - BlockConfirms \in Int
      BY <1>3, <3>2, TeleportEVMAssumption DEF EVMInd, EVMTypeOK
    <3>4. passed[r] \cup New =
            (EVMAddresses \X ((fetch.first + 1 - BlockConfirms)..(FetchedUpTo - BlockConfirms)))
                \ ((J.todo \ {a}) \X (J.from..J.to))
      BY <1>1, <1>3, <2>1, <3>2, <3>3, AskOneMore
    <3>5. QED
      BY <1>2, <1>4, <1>5, <1>8, <2>1, <3>2, <3>4 DEF FetchAsked
  <2>2. CASE r # "fetch"
    BY <1>2, <1>4, <1>8, <2>2 DEF FetchAsked, EVMInd, Routines
  <2>3. QED
    BY <2>1, <2>2
<1>10. PrefetchAsked'
  <2>1. CASE r = "prefetch"
    <3>1. prefetch.pc = "loop"
      BY <1>1, <2>1 DEF EVMInd, EVMTypeOK, PrefetchAsked, JobOver
    <3>2. /\ passed["prefetch"] = (EVMAddresses \X (J.from..(prefetch.latest - BlockConfirms)))
                                   \ (J.todo \X (J.from..J.to))
          /\ J.to <= prefetch.latest - BlockConfirms
      BY <2>1, <3>1, TeleportEVMAssumption DEF EVMInd, EVMTypeOK, PrefetchAsked
    <3>3. J.from \in Int /\ J.to \in Int /\ prefetch.latest - BlockConfirms \in Int
      BY <1>3, TeleportEVMAssumption DEF EVMInd, EVMTypeOK
    <3>4. passed[r] \cup New = (EVMAddresses \X (J.from..(prefetch.latest - BlockConfirms)))
                                \ ((J.todo \ {a}) \X (J.from..J.to))
      BY <1>1, <1>3, <2>1, <3>2, <3>3, AskOneMore
    <3>5. QED
      BY <1>2, <1>4, <1>5, <2>1, <3>1, <3>4 DEF EVMInd, PrefetchAsked
  <2>2. CASE r # "prefetch"
    BY <1>2, <1>4, <2>2 DEF PrefetchAsked, EVMInd, Routines, JobOver
  <2>3. QED
    BY <2>1, <2>2
<1>11. SentWasAsked'
  BY <1>2, <1>4, <1>5 DEF EVMInd, SentWasAsked, Events
<1>12. NotSentTwice'
  <2>1. Events(a, J.from, J.to) \cap evmSent[r] = {}
    BY <1>6 DEF EVMInd, SentWasAsked, Events
  <2>2. QED
    BY <1>2, <1>4, <1>5, <2>1 DEF EVMInd, NotSentTwice
<1>13. OnlyConfirmed'
  <2>1. \A q \in New : q[2] + BlockConfirms <= evmHead
    BY <1>3, <1>6, TeleportEVMAssumption DEF EVMInd, EVMTypeOK
  <2>2. QED
    BY <1>2, <1>4, <2>1 DEF EVMInd, OnlyConfirmed
<1>14. PrefetchCovers'
  BY <1>2, <1>4 DEF EVMInd, PrefetchCovers, Routines
<1>15. QED
  BY <1>7, <1>8, <1>9, <1>10, <1>11, <1>12, <1>13, <1>14 DEF EVMInd

\* A null answer passes over the rest of the job.
LEMMA NullAnswerKeeps ==
    ASSUME EVMInd, NEW r \in Routines, NullAnswer(r) PROVE EVMInd'
<1> DEFINE J == job[r]
           Left == J.todo \X (J.from..J.to)
<1>1. /\ ~evmDone /\ J.out = {} /\ J.todo # {}
      /\ passed' = [passed EXCEPT ![r] = @ \cup Left]
      /\ evmSkipped' = [evmSkipped EXCEPT ![r] = @ \cup Left]
      /\ job' = [job EXCEPT ![r].todo = {}] /\ evmNulls' = evmNulls + 1
      /\ UNCHANGED <<evmHead, evmDone, prefetch, fetch, evmSent>>
  BY DEF NullAnswer
<1>2. /\ J \in [from : Nat, to : Nat, todo : SUBSET EVMAddresses, out : SUBSET EVMLogs]
      /\ passed[r] \in SUBSET (EVMAddresses \X Nat)
      /\ evmSkipped[r] \in SUBSET (EVMAddresses \X Nat)
  BY DEF EVMInd, EVMTypeOK
<1>3. /\ job'[r] = [J EXCEPT !.todo = {}] /\ passed'[r] = passed[r] \cup Left
      /\ \A q \in Routines \ {r} : job'[q] = job[q] /\ passed'[q] = passed[q]
  BY <1>1 DEF EVMInd, EVMTypeOK
<1>4. /\ job'[r].from = J.from /\ job'[r].to = J.to /\ job'[r].todo = {} /\ job'[r].out = {}
  BY <1>1, <1>2, <1>3
<1>5. J.to + BlockConfirms <= evmHead
  BY <1>1, JobsAreNew
<1>6. EVMTypeOK' /\ (EVMStart <= evmHead)'
  <2>1. Left \subseteq EVMAddresses \X Nat
    BY <1>2
  <2>2. job' \in [Routines -> [from : Nat, to : Nat, todo : SUBSET EVMAddresses, out : SUBSET EVMLogs]]
    BY <1>1, <1>2 DEF EVMInd, EVMTypeOK
  <2>3. passed' \in [Routines -> SUBSET (EVMAddresses \X Nat)]
    BY <1>1, <1>2, <2>1 DEF EVMInd, EVMTypeOK
  <2>4. evmSkipped' \in [Routines -> SUBSET (EVMAddresses \X Nat)]
    BY <1>1, <1>2, <2>1 DEF EVMInd, EVMTypeOK
  <2>5. evmNulls' \in Nat
    BY <1>1 DEF EVMInd, EVMTypeOK
  <2>6. QED
    BY <1>1, <2>2, <2>3, <2>4, <2>5 DEF EVMInd, EVMTypeOK
<1>7. FetchState' /\ FetchedUpTo' = FetchedUpTo
  BY <1>1, <1>3, <1>4 DEF EVMInd, EVMTypeOK, FetchState, FetchedUpTo, JobOver, Contiguous, Routines
<1>8. FetchAsked'
  <2>1. CASE r = "fetch"
    <3> DEFINE lo == fetch.first + 1 - BlockConfirms
               hi == FetchedUpTo - BlockConfirms
    <3>1. fetch.pc = "loop"
      BY <1>1, <2>1 DEF EVMInd, EVMTypeOK, FetchState, JobOver
    <3>2. /\ passed["fetch"] = (EVMAddresses \X (lo..hi)) \ (J.todo \X (J.from..J.to))
          /\ lo <= J.from /\ J.to = hi
      BY <1>1, <2>1, <3>1 DEF EVMInd, FetchAsked
    <3>3. J.from \in Int /\ J.to \in Int /\ hi \in Int /\ J.to <= hi /\ lo \in Int
      BY <1>2, <3>2, TeleportEVMAssumption DEF EVMInd, EVMTypeOK
    <3> HIDE DEF lo, hi
    <3>4. passed[r] \cup Left = (EVMAddresses \X (lo..hi)) \ ({} \X (J.from..J.to))
      BY <1>1, <1>2, <2>1, <3>2, <3>3, AskNoMore
    <3>5. QED
      BY <1>1, <1>3, <1>4, <1>7, <2>1, <3>4 DEF FetchAsked, lo, hi
  <2>2. CASE r # "fetch"
    BY <1>1, <1>3, <1>7, <2>2 DEF FetchAsked, EVMInd, Routines
  <2>3. QED
    BY <2>1, <2>2
<1>9. PrefetchAsked'
  <2>1. CASE r = "prefetch"
    <3>1. prefetch.pc = "loop"
      BY <1>1, <2>1 DEF EVMInd, EVMTypeOK, PrefetchAsked, JobOver
    <3>2. /\ passed["prefetch"] = (EVMAddresses \X (J.from..(prefetch.latest - BlockConfirms)))
                                    \ (J.todo \X (J.from..J.to))
          /\ J.to <= prefetch.latest - BlockConfirms
      BY <2>1, <3>1, TeleportEVMAssumption DEF EVMInd, EVMTypeOK, PrefetchAsked
    <3>3. J.from \in Int /\ J.to \in Int /\ prefetch.latest - BlockConfirms \in Int
      BY <1>2, TeleportEVMAssumption DEF EVMInd, EVMTypeOK
    <3>4. passed[r] \cup Left = (EVMAddresses \X (J.from..(prefetch.latest - BlockConfirms)))
                                  \ ({} \X (J.from..J.to))
      BY <1>2, <2>1, <3>2, <3>3, AskNoMore
    <3>5. QED
      BY <1>1, <1>3, <1>4, <2>1, <3>1, <3>4 DEF EVMInd, PrefetchAsked
  <2>2. CASE r # "prefetch"
    BY <1>1, <1>3, <2>2 DEF PrefetchAsked, EVMInd, Routines, JobOver
  <2>3. QED
    BY <2>1, <2>2
<1>10. SentWasAsked' /\ NotSentTwice'
  BY <1>1, <1>3, <1>4 DEF EVMInd, SentWasAsked, NotSentTwice
<1>11. OnlyConfirmed'
  <2>1. \A q \in Left : q[2] + BlockConfirms <= evmHead
    BY <1>2, <1>5, TeleportEVMAssumption DEF EVMInd, EVMTypeOK
  <2>2. QED
    BY <1>1, <1>3, <2>1 DEF EVMInd, OnlyConfirmed
<1>12. PrefetchCovers'
  BY <1>1, <1>3 DEF EVMInd, PrefetchCovers, Routines
<1>13. QED
  BY <1>6, <1>7, <1>8, <1>9, <1>10, <1>11, <1>12 DEF EVMInd

\* Sending an event moves a log from out to sent.
LEMMA SendEventKeeps ==
    ASSUME EVMInd, NEW r \in Routines, SendEvent(r) PROVE EVMInd'
<1>1. PICK l \in job[r].out :
        /\ job' = [job EXCEPT ![r].out = @ \ {l}]
        /\ evmSent' = [evmSent EXCEPT ![r] = @ \cup {l}]
  BY DEF SendEvent
<1>2. UNCHANGED <<evmHead, evmDone, prefetch, fetch, passed, evmSkipped, evmNulls>>
  BY DEF SendEvent
<1>3. job[r] \in [from : Nat, to : Nat, todo : SUBSET EVMAddresses, out : SUBSET EVMLogs]
  BY DEF EVMInd, EVMTypeOK
<1>4. /\ job'[r] = [job[r] EXCEPT !.out = @ \ {l}] /\ evmSent'[r] = evmSent[r] \cup {l}
      /\ \A q \in Routines \ {r} : job'[q] = job[q] /\ evmSent'[q] = evmSent[q]
  BY <1>1 DEF EVMInd, EVMTypeOK
<1>5. /\ job'[r].out = job[r].out \ {l}
      /\ \A q \in Routines : /\ job'[q].from = job[q].from /\ job'[q].to = job[q].to
                             /\ job'[q].todo = job[q].todo
  BY <1>3, <1>4
<1>6. EVMTypeOK' /\ (EVMStart <= evmHead)'
  <2>1. job' \in [Routines -> [from : Nat, to : Nat, todo : SUBSET EVMAddresses, out : SUBSET EVMLogs]]
    BY <1>1, <1>3 DEF EVMInd, EVMTypeOK
  <2>2. evmSent' \in [Routines -> SUBSET EVMLogs]
    BY <1>1, <1>3 DEF EVMInd, EVMTypeOK
  <2>3. QED
    BY <1>2, <2>1, <2>2 DEF EVMInd, EVMTypeOK
<1>7. \A q \in Routines : JobOver(q) => JobOver(q)'
  BY <1>4, <1>5 DEF JobOver
<1>8. FetchState' /\ FetchedUpTo' = FetchedUpTo
  BY <1>2, <1>7 DEF EVMInd, FetchState, FetchedUpTo, Routines
<1>9. FetchAsked'
  BY <1>2, <1>5, <1>8 DEF EVMInd, FetchAsked, Routines
<1>10. PrefetchAsked'
  BY <1>2, <1>5, <1>7 DEF EVMInd, PrefetchAsked, Routines
<1>11. SentWasAsked' /\ NotSentTwice'
  BY <1>1, <1>2, <1>4, <1>5 DEF EVMInd, SentWasAsked, NotSentTwice
<1>12. OnlyConfirmed' /\ PrefetchCovers'
  BY <1>2 DEF EVMInd, OnlyConfirmed, PrefetchCovers
<1>13. QED
  BY <1>6, <1>8, <1>9, <1>10, <1>11, <1>12 DEF EVMInd

\* A range that prefetch starts with, for a head and a distance that fit.
LEMMA PrefetchRangeIs ==
    ASSUME NEW n \in Nat, NEW d \in Nat, d <= n
    PROVE  LET j == PrefetchRange(n, d) IN
           /\ j \in [from : Nat, to : Nat, todo : SUBSET EVMAddresses, out : SUBSET EVMLogs]
           /\ j.from = IF n - (d + BlockLimit - 1) < 0 THEN 0 ELSE n - (d + BlockLimit - 1)
           /\ j.to = n - d /\ j.from <= j.to
           /\ j.todo = EVMAddresses /\ j.out = {}
  BY TeleportEVMAssumption DEF PrefetchRange, Job

\* prefetch begins with the newest confirmed blocks.
LEMMA PrefetchStartKeeps == ASSUME EVMInd, PrefetchStart PROVE EVMInd'
<1>1. PICK n \in BlockNumbers :
        /\ prefetch' = [prefetch EXCEPT !.pc = "loop", !.latest = n]
        /\ job' = [job EXCEPT !["prefetch"] = PrefetchRange(n, prefetch.d)]
  BY DEF PrefetchStart
<1>2. /\ prefetch.pc = "start" /\ ~evmDone
      /\ UNCHANGED <<evmHead, evmDone, fetch, passed, evmSkipped, evmNulls, evmSent>>
  BY DEF PrefetchStart
<1>3. /\ n \in Nat /\ n <= evmHead /\ BlockConfirms <= n
      /\ prefetch.d = BlockConfirms /\ passed["prefetch"] = {}
  BY <1>2, TeleportEVMAssumption DEF EVMInd, EVMTypeOK, BlockNumbers, PrefetchAsked
<1> DEFINE j == PrefetchRange(n, prefetch.d)
<1>4. /\ j \in [from : Nat, to : Nat, todo : SUBSET EVMAddresses, out : SUBSET EVMLogs]
      /\ j.from = IF n - (prefetch.d + BlockLimit - 1) < 0 THEN 0
                  ELSE n - (prefetch.d + BlockLimit - 1)
      /\ j.to = n - prefetch.d /\ j.from <= j.to
      /\ j.todo = EVMAddresses /\ j.out = {}
  BY <1>3, PrefetchRangeIs, TeleportEVMAssumption
<1> HIDE DEF j
<1>5. /\ job'["prefetch"] = j /\ job'["fetch"] = job["fetch"]
      /\ prefetch'.pc = "loop" /\ prefetch'.latest = n /\ prefetch'.d = prefetch.d
  BY <1>1 DEF EVMInd, EVMTypeOK, Routines, j
<1>6. EVMTypeOK' /\ (EVMStart <= evmHead)'
  BY <1>1, <1>2, <1>3, <1>4, <1>5 DEF EVMInd, EVMTypeOK, Routines
<1>7. FetchState' /\ FetchAsked'
  BY <1>2, <1>5 DEF EVMInd, FetchState, FetchAsked, FetchedUpTo, JobOver
<1>8. PrefetchAsked'
  <2>1. {} = (EVMAddresses \X (j.from..(n - BlockConfirms))) \ (j.todo \X (j.from..j.to))
    BY <1>3, <1>4
  <2>2. QED
    BY <1>2, <1>3, <1>4, <1>5, <2>1, TeleportEVMAssumption DEF PrefetchAsked
<1>9. SentWasAsked' /\ NotSentTwice'
  BY <1>2, <1>4, <1>5 DEF EVMInd, SentWasAsked, NotSentTwice, Routines
<1>10. OnlyConfirmed' /\ PrefetchCovers'
  BY <1>2, <1>5 DEF EVMInd, OnlyConfirmed, PrefetchCovers
<1>11. QED
  BY <1>6, <1>7, <1>8, <1>9, <1>10 DEF EVMInd

\* prefetch goes on below the blocks it has asked for, or ends because the
\* blocks below are older than its period.
LEMMA PrefetchNextKeeps == ASSUME EVMInd, PrefetchNext PROVE EVMInd'
<1> DEFINE J == job["prefetch"]
<1>1. /\ prefetch.pc = "loop" /\ ~evmDone /\ J.todo = {} /\ J.out = {}
      /\ UNCHANGED <<evmHead, evmDone, fetch, passed, evmSkipped, evmNulls, evmSent>>
  BY DEF PrefetchNext, JobOver
<1>2. /\ BlockConfirms <= prefetch.d /\ prefetch.d <= prefetch.latest
      /\ prefetch.latest <= evmHead
      /\ J.to = prefetch.latest - prefetch.d
      /\ J.from = IF prefetch.latest - (prefetch.d + BlockLimit - 1) < 0 THEN 0
                  ELSE prefetch.latest - (prefetch.d + BlockLimit - 1)
      /\ passed["prefetch"] = EVMAddresses \X (J.from..(prefetch.latest - BlockConfirms))
  BY <1>1 DEF EVMInd, PrefetchAsked
<1>3. /\ J \in [from : Nat, to : Nat, todo : SUBSET EVMAddresses, out : SUBSET EVMLogs]
      /\ prefetch.d \in Nat /\ prefetch.latest \in Nat /\ evmHead \in Nat
  BY DEF EVMInd, EVMTypeOK, Routines
<1>4. CASE PeriodReached
  <2>1. /\ prefetch' = [prefetch EXCEPT !.pc = "done"] /\ job' = job
    BY <1>4 DEF PrefetchNext
  <2>2. prefetch'.pc = "done" /\ prefetch'.latest = prefetch.latest /\ prefetch'.d = prefetch.d
    BY <2>1 DEF EVMInd, EVMTypeOK
  <2>3. EVMTypeOK' /\ (EVMStart <= evmHead)'
    BY <1>1, <2>1 DEF EVMInd, EVMTypeOK
  <2>4. FetchState' /\ FetchAsked'
    BY <1>1, <2>1 DEF EVMInd, FetchState, FetchAsked, FetchedUpTo, JobOver
  <2>5. PrefetchAsked'
    BY <1>1, <2>1, <2>2 DEF PrefetchAsked, JobOver
  <2>6. SentWasAsked' /\ NotSentTwice' /\ OnlyConfirmed'
    BY <1>1, <2>1 DEF EVMInd, SentWasAsked, NotSentTwice, OnlyConfirmed
  <2>7. ASSUME NEW b \in 0..(prefetch.latest - BlockConfirms), evmHead - b <= PrefetchPeriod
        PROVE  EVMAddresses \X {b} \subseteq passed["prefetch"]
    <3>1. J.from <= J.to
      BY <1>2, <1>3, TeleportEVMAssumption
    <3>2. J.from <= b
      BY <1>2, <1>3, <1>4, <2>7, <3>1, TeleportEVMAssumption DEF PeriodReached
    <3>3. QED
      BY <1>2, <1>3, <3>2
  <2>8. PrefetchCovers'
    BY <1>1, <2>2, <2>7 DEF PrefetchCovers
  <2>9. QED
    BY <2>3, <2>4, <2>5, <2>6, <2>8 DEF EVMInd
<1>5. CASE ~PeriodReached
  <2> DEFINE d == prefetch.d + BlockLimit
             j == PrefetchRange(prefetch.latest, d)
  <2>1. /\ prefetch' = [prefetch EXCEPT !.d = d]
        /\ job' = [job EXCEPT !["prefetch"] = j]
    BY <1>5 DEF PrefetchNext
  <2>2. /\ d \in Nat /\ BlockConfirms <= d /\ d <= prefetch.latest
        /\ prefetch.latest - d = J.from - 1
    BY <1>2, <1>3, <1>5, TeleportEVMAssumption DEF PeriodReached
  <2>3. /\ j \in [from : Nat, to : Nat, todo : SUBSET EVMAddresses, out : SUBSET EVMLogs]
        /\ j.from = IF prefetch.latest - (d + BlockLimit - 1) < 0 THEN 0
                    ELSE prefetch.latest - (d + BlockLimit - 1)
        /\ j.to = prefetch.latest - d /\ j.from <= j.to
        /\ j.todo = EVMAddresses /\ j.out = {}
    BY <1>3, <2>2, PrefetchRangeIs
  <2> HIDE DEF j, d
  <2>4. /\ job'["prefetch"] = j /\ job'["fetch"] = job["fetch"]
        /\ prefetch'.pc = "loop" /\ prefetch'.latest = prefetch.latest /\ prefetch'.d = d
    BY <1>1, <2>1 DEF EVMInd, EVMTypeOK, Routines
  <2>5. EVMTypeOK' /\ (EVMStart <= evmHead)'
    BY <1>1, <2>1, <2>2, <2>3 DEF EVMInd, EVMTypeOK, Routines
  <2>6. FetchState' /\ FetchAsked'
    BY <1>1, <2>4 DEF EVMInd, FetchState, FetchAsked, FetchedUpTo, JobOver
  <2>7. PrefetchAsked'
    <3>1. J.from - 1 = j.to
      BY <2>2, <2>3
    <3>2. /\ j.from \in Int /\ J.from \in Int /\ prefetch.latest - BlockConfirms \in Int
          /\ j.from <= J.from /\ J.from <= (prefetch.latest - BlockConfirms) + 1
      BY <1>2, <1>3, <2>3, <3>1, TeleportEVMAssumption
    <3>3. passed["prefetch"] =
            (EVMAddresses \X (j.from..(prefetch.latest - BlockConfirms)))
              \ (j.todo \X (j.from..j.to))
      BY <1>2, <2>3, <3>1, <3>2, RangeBelow
    <3>4. QED
      BY <1>1, <1>2, <2>2, <2>3, <2>4, <3>3 DEF PrefetchAsked
  <2>8. SentWasAsked' /\ NotSentTwice'
    BY <1>1, <2>3, <2>4 DEF EVMInd, SentWasAsked, NotSentTwice, Routines
  <2>9. OnlyConfirmed' /\ PrefetchCovers'
    BY <1>1, <2>4 DEF EVMInd, OnlyConfirmed, PrefetchCovers
  <2>10. QED
    BY <2>5, <2>6, <2>7, <2>8, <2>9 DEF EVMInd
<1>6. QED
  BY <1>4, <1>5

\* What a step of fetch leaves alone that keeps its job and its sent logs.
LEMMA FetchLeavesAlone ==
    ASSUME EVMInd, EVMTypeOK', FetchState', FetchAsked',
           UNCHANGED <<evmHead, evmDone, prefetch, passed, evmSkipped, evmNulls, evmSent>>,
           job'["prefetch"] = job["prefetch"],
           job'["fetch"].out \subseteq job["fetch"].out
    PROVE  EVMInd'
<1>1. (EVMStart <= evmHead)' /\ OnlyConfirmed' /\ PrefetchCovers'
  BY DEF EVMInd, OnlyConfirmed, PrefetchCovers
<1>2. PrefetchAsked'
  BY DEF EVMInd, PrefetchAsked, JobOver
<1>3. SentWasAsked' /\ NotSentTwice'
  BY DEF EVMInd, SentWasAsked, NotSentTwice, Routines
<1>4. QED
  BY <1>1, <1>2, <1>3 DEF EVMInd

\* fetch begins at the head that it reads.
LEMMA FetchStartKeeps == ASSUME EVMInd, FetchStart PROVE EVMInd'
<1>1. PICK n \in BlockNumbers :
        fetch' = [fetch EXCEPT !.pc = "wait", !.first = n, !.latest = n]
  BY DEF FetchStart
<1>2. /\ fetch.pc = "start" /\ ~evmDone
      /\ UNCHANGED <<evmHead, evmDone, prefetch, job, passed, evmSkipped, evmNulls, evmSent>>
  BY DEF FetchStart
<1>3. n \in Nat /\ n <= evmHead /\ BlockConfirms <= n
  BY TeleportEVMAssumption DEF EVMInd, EVMTypeOK, BlockNumbers
<1>4. fetch'.pc = "wait" /\ fetch'.first = n /\ fetch'.latest = n
  BY <1>1 DEF EVMInd, EVMTypeOK
<1>5. EVMTypeOK'
  BY <1>1, <1>2, <1>3 DEF EVMInd, EVMTypeOK
<1>6. FetchState'
  BY <1>2, <1>3, <1>4 DEF EVMInd, FetchState, JobOver
<1>7. FetchAsked'
  <2>1. FetchedUpTo' = n /\ FetchedUpTo = fetch.latest /\ fetch.first = fetch.latest /\ fetch.latest \in Nat
    BY <1>2, <1>4 DEF FetchedUpTo, EVMInd, FetchState, EVMTypeOK
  <2>2. job["fetch"].todo = {}
    BY <1>2 DEF EVMInd, FetchState, JobOver
  <2>3. (fetch.first + 1 - BlockConfirms)..(FetchedUpTo - BlockConfirms) = {}
    BY <2>1, TeleportEVMAssumption
  <2>4. passed["fetch"] = {}
    BY <1>2, <2>2, <2>3 DEF EVMInd, FetchAsked
  <2>5. (n + 1 - BlockConfirms)..(n - BlockConfirms) = {}
    BY <1>3, TeleportEVMAssumption
  <2>6. QED
    BY <1>2, <1>4, <2>1, <2>2, <2>4, <2>5 DEF FetchAsked
<1>8. QED
  BY <1>2, <1>5, <1>6, <1>7, FetchLeavesAlone

\* A new head is cut into ranges that continue where fetch has come to.
LEMMA FetchTickKeeps == ASSUME EVMInd, FetchTick PROVE EVMInd'
<1>1. PICK n \in BlockNumbers :
        /\ n > fetch.latest
        /\ fetch' = [fetch EXCEPT !.pc = "loop", !.current = n,
                                  !.ranges = splitBlockRanges(fetch.latest + 1, n, BlockLimit)]
  BY DEF FetchTick
<1>2. /\ fetch.pc = "wait" /\ ~evmDone
      /\ UNCHANGED <<evmHead, evmDone, prefetch, job, passed, evmSkipped, evmNulls, evmSent>>
  BY DEF FetchTick
<1>3. n \in Nat /\ n <= evmHead /\ fetch.latest \in Nat /\ fetch.latest + 1 <= n
  BY <1>1, TeleportEVMAssumption DEF EVMInd, EVMTypeOK, BlockNumbers
<1> DEFINE s == splitBlockRanges(fetch.latest + 1, n, BlockLimit)
<1>4. s \in Seq(Nat \X Nat) /\ s # <<>> /\ s[1][1] = fetch.latest + 1 /\ Contiguous(s, n)
  <2>1. fetch.latest + 1 \in Nat /\ BlockLimit \in Nat \ {0}
    BY <1>3, TeleportEVMAssumption
  <2>2. QED
    BY <1>3, <2>1, SplitContiguous
<1> HIDE DEF s
<1>5. /\ fetch'.pc = "loop" /\ fetch'.first = fetch.first /\ fetch'.latest = fetch.latest
      /\ fetch'.current = n /\ fetch'.ranges = s
  BY <1>1 DEF EVMInd, EVMTypeOK, s
<1>6. EVMTypeOK'
  <2>1. fetch' \in [pc : {"start", "wait", "loop", "done"}, first : Nat, latest : Nat,
                    current : Nat, ranges : Seq(Nat \X Nat)]
    BY <1>1, <1>3, <1>4 DEF EVMInd, EVMTypeOK, s
  <2>2. QED
    BY <1>2, <2>1 DEF EVMInd, EVMTypeOK
<1>7. FetchState'
  BY <1>2, <1>3, <1>4, <1>5 DEF EVMInd, EVMTypeOK, FetchState
<1>8. FetchAsked'
  <2>1. s[1][1] - 1 = fetch.latest
    BY <1>3, <1>4
  <2>2. FetchedUpTo' = s[1][1] - 1 /\ FetchedUpTo = fetch.latest
    BY <1>2, <1>4, <1>5 DEF FetchedUpTo
  <2>3. QED
    BY <1>2, <1>5, <2>1, <2>2 DEF EVMInd, FetchAsked
<1>9. QED
  BY <1>2, <1>6, <1>7, <1>8, FetchLeavesAlone

\* The tail of a contiguous list continues after its head.
LEMMA TailContiguous ==
    ASSUME NEW s \in Seq(Nat \X Nat), s # <<>>, NEW last \in Nat, Contiguous(s, last)
    PROVE  /\ s[1] \in Nat \X Nat /\ s[1][1] <= s[1][2] /\ s[1][2] <= last
           /\ Tail(s) \in Seq(Nat \X Nat)
           /\ Contiguous(Tail(s), last)
           /\ Tail(s) = <<>> => s[1][2] = last
           /\ Tail(s) # <<>> => Tail(s)[1][1] = s[1][2] + 1
<1>1. /\ Len(s) \in Nat \ {0} /\ 1 \in 1..Len(s) /\ s[1] \in Nat \X Nat
  OBVIOUS
<1>2. /\ Tail(s) \in Seq(Nat \X Nat) /\ Len(Tail(s)) = Len(s) - 1
      /\ \A i \in 1..Len(s) - 1 : Tail(s)[i] = s[i + 1]
  OBVIOUS
<1>3. s[1][1] <= s[1][2] /\ s[1][2] <= last
  BY <1>1 DEF Contiguous
<1>4. Tail(s) = <<>> => s[1][2] = last
  <2> HAVE Tail(s) = <<>>
  <2>1. Len(Tail(s)) = 0
    <3>1. Len(<< >>) = 0
      OBVIOUS
    <3>2. QED
      BY <3>1, Zenon
  <2>2. Len(s) - 1 = 0 /\ Len(s) \in Nat
    BY <1>1, <1>2, <2>1
  <2>3. Len(s) = 1
    BY <2>2
  <2>4. QED
    BY <2>3 DEF Contiguous
<1>5. Tail(s) # <<>> => Tail(s)[1][1] = s[1][2] + 1
  <2> HAVE Tail(s) # <<>>
  <2>1. 1 \in 1..Len(s) - 1
    BY <1>1, <1>2
  <2>2. Tail(s)[1] = s[2] /\ s[1 + 1][1] = s[1][2] + 1
    BY <1>2, <2>1 DEF Contiguous
  <2>3. QED
    BY <2>2
<1>6. Contiguous(Tail(s), last)
  <2>1. ASSUME NEW i \in 1..Len(Tail(s))
        PROVE  Tail(s)[i][1] <= Tail(s)[i][2] /\ Tail(s)[i][2] <= last
    BY <1>1, <1>2 DEF Contiguous
  <2>2. ASSUME NEW i \in 1..Len(Tail(s)) - 1
        PROVE  Tail(s)[i + 1][1] = Tail(s)[i][2] + 1
    <3>1. Tail(s)[i + 1] = s[(i + 1) + 1] /\ Tail(s)[i] = s[i + 1] /\ i + 1 \in 1..Len(s) - 1
      BY <1>1, <1>2
    <3>2. QED
      BY <3>1 DEF Contiguous
  <2>3. Tail(s) # <<>> => Tail(s)[Len(Tail(s))][2] = last
    BY <1>1, <1>2 DEF Contiguous
  <2>4. QED
    BY <2>1, <2>2, <2>3 DEF Contiguous
<1>7. QED
  BY <1>1, <1>2, <1>3, <1>4, <1>5, <1>6

\* The next range starts right above what fetch has asked for.
LEMMA FetchNextRangeKeeps == ASSUME EVMInd, FetchNextRange PROVE EVMInd'
<1> DEFINE b == Head(fetch.ranges)
           j == Job(b[1] - BlockConfirms, b[2] - BlockConfirms)
<1>1. /\ fetch.pc = "loop" /\ ~evmDone /\ JobOver("fetch") /\ fetch.ranges # <<>>
      /\ job' = [job EXCEPT !["fetch"] = j]
      /\ fetch' = [fetch EXCEPT !.ranges = Tail(@)]
      /\ UNCHANGED <<evmHead, evmDone, prefetch, passed, evmSkipped, evmNulls, evmSent>>
  BY DEF FetchNextRange
<1>2. /\ fetch.ranges \in Seq(Nat \X Nat) /\ fetch.current \in Nat /\ fetch.first \in Nat
      /\ fetch.latest \in Nat /\ evmHead \in Nat
  BY DEF EVMInd, EVMTypeOK
<1>3. /\ Contiguous(fetch.ranges, fetch.current) /\ fetch.latest < fetch.ranges[1][1]
      /\ BlockConfirms <= fetch.first /\ fetch.first <= fetch.latest
  BY <1>1 DEF EVMInd, FetchState
<1>4. b = fetch.ranges[1]
  BY <1>1, <1>2
<1> HIDE DEF b
<1>5. /\ b \in Nat \X Nat /\ b[1] <= b[2] /\ b[2] <= fetch.current
      /\ Tail(fetch.ranges) \in Seq(Nat \X Nat)
      /\ Contiguous(Tail(fetch.ranges), fetch.current)
      /\ Tail(fetch.ranges) = <<>> => b[2] = fetch.current
      /\ Tail(fetch.ranges) # <<>> => Tail(fetch.ranges)[1][1] = b[2] + 1
  BY <1>1, <1>2, <1>3, <1>4, TailContiguous
<1>5a. b[1] \in Nat /\ b[2] \in Nat /\ b[1] <= b[2] /\ fetch.latest < b[1]
  BY <1>3, <1>4, <1>5
<1>6. /\ fetch'.pc = "loop" /\ fetch'.first = fetch.first /\ fetch'.latest = fetch.latest
      /\ fetch'.current = fetch.current /\ fetch'.ranges = Tail(fetch.ranges)
  BY <1>1 DEF EVMInd, EVMTypeOK
<1>6a. BlockConfirms <= b[1] /\ fetch.first < b[1]
  <2> DEFINE f == fetch.first
             l == fetch.latest
             n == b[1]
  <2>1. f \in Nat /\ l \in Nat /\ BlockConfirms <= f /\ f <= l /\ l < n /\ n \in Nat
    BY <1>2, <1>3, <1>5a
  <2>2. BlockConfirms \in Nat
    BY TeleportEVMAssumption
  <2> HIDE DEF f, l, n
  <2>3. BlockConfirms <= n /\ f < n
    BY <2>1, <2>2
  <2>4. QED
    BY <2>3 DEF f, n
<1>7. /\ j \in [from : Nat, to : Nat, todo : SUBSET EVMAddresses, out : SUBSET EVMLogs]
      /\ j.from = b[1] - BlockConfirms /\ j.to = b[2] - BlockConfirms
      /\ j.todo = EVMAddresses /\ j.out = {}
  <2>1. b[1] - BlockConfirms \in Nat /\ b[2] - BlockConfirms \in Nat
    BY <1>5a, <1>6a, TeleportEVMAssumption
  <2>2. QED
    BY <2>1 DEF Job
<1> HIDE DEF j
<1>8. job'["fetch"] = j /\ job'["prefetch"] = job["prefetch"]
  BY <1>1 DEF EVMInd, EVMTypeOK, Routines
<1>9. EVMTypeOK'
  <2>1. fetch' \in [pc : {"start", "wait", "loop", "done"}, first : Nat, latest : Nat,
                    current : Nat, ranges : Seq(Nat \X Nat)]
    BY <1>1, <1>5 DEF EVMInd, EVMTypeOK
  <2>2. QED
    BY <1>1, <1>7, <2>1 DEF EVMInd, EVMTypeOK, Routines
<1>10. FetchState'
  <2>1. Tail(fetch.ranges) # <<>> => fetch.latest < Tail(fetch.ranges)[1][1]
    <3> HAVE Tail(fetch.ranges) # <<>>
    <3>1. Tail(fetch.ranges)[1][1] = b[2] + 1
      BY <1>5
    <3>2. fetch.latest < b[2] + 1
      BY <1>2, <1>5a
    <3>3. QED
      BY <3>1, <3>2
  <2>2. QED
    BY <1>1, <1>5, <1>6, <2>1 DEF EVMInd, FetchState
<1>11. FetchAsked'
  <2>1. FetchedUpTo = b[1] - 1
    BY <1>1, <1>4 DEF FetchedUpTo
  <2>2. FetchedUpTo' = b[2]
    <3>1. CASE Tail(fetch.ranges) = <<>>
      BY <1>5, <1>6, <3>1 DEF FetchedUpTo
    <3>2. CASE Tail(fetch.ranges) # <<>>
      <4>1. FetchedUpTo' = Tail(fetch.ranges)[1][1] - 1
        BY <1>6, <3>2 DEF FetchedUpTo
      <4>2. FetchedUpTo' = (b[2] + 1) - 1
        BY <1>5, <3>2, <4>1
      <4>3. QED
        BY <1>5a, <4>2
    <3>3. QED
      BY <3>1, <3>2
  <2> DEFINE lo == fetch.first + 1 - BlockConfirms
             mid == b[1] - 1 - BlockConfirms
             hi == b[2] - BlockConfirms
  <2>3. passed["fetch"] = EVMAddresses \X (lo..mid)
    BY <1>1, <2>1 DEF EVMInd, FetchAsked, JobOver
  <2>4. lo \in Int /\ mid \in Int /\ hi \in Int /\ lo <= mid + 1 /\ mid <= hi
        /\ mid + 1 = b[1] - BlockConfirms
    <3> DEFINE f == fetch.first
               m == b[1]
               n == b[2]
    <3>1. f \in Nat /\ m \in Nat /\ n \in Nat /\ m <= n /\ f < m /\ BlockConfirms \in Nat
      BY <1>2, <1>5a, <1>6a, TeleportEVMAssumption
    <3> HIDE DEF f, m, n
    <3>2. /\ f + 1 - BlockConfirms \in Int /\ m - 1 - BlockConfirms \in Int /\ n - BlockConfirms \in Int
          /\ f + 1 - BlockConfirms <= (m - 1 - BlockConfirms) + 1
          /\ m - 1 - BlockConfirms <= n - BlockConfirms
          /\ (m - 1 - BlockConfirms) + 1 = m - BlockConfirms
      BY <3>1
    <3>3. QED
      BY <3>2 DEF f, m, n
  <2> HIDE DEF lo, mid, hi
  <2>5. passed["fetch"] = (EVMAddresses \X (lo..hi)) \ (EVMAddresses \X ((mid + 1)..hi))
    BY <2>3, <2>4, RangeAbove
  <2>6. QED
    BY <1>1, <1>6, <1>7, <1>8, <2>2, <2>4, <2>5 DEF FetchAsked, lo, hi
<1>12. QED
  BY <1>1, <1>7, <1>8, <1>9, <1>10, <1>11, FetchLeavesAlone

\* After the last range fetch has come to the head it has read.
LEMMA FetchRangesOverKeeps == ASSUME EVMInd, FetchRangesOver PROVE EVMInd'
<1>1. /\ fetch.pc = "loop" /\ ~evmDone /\ JobOver("fetch") /\ fetch.ranges = <<>>
      /\ fetch' = [fetch EXCEPT !.pc = "wait", !.latest = fetch.current]
      /\ UNCHANGED <<evmHead, evmDone, prefetch, job, passed, evmSkipped, evmNulls, evmSent>>
  BY DEF FetchRangesOver
<1>2. fetch'.pc = "wait" /\ fetch'.first = fetch.first /\ fetch'.latest = fetch.current
  BY <1>1 DEF EVMInd, EVMTypeOK
<1>3. EVMTypeOK'
  BY <1>1 DEF EVMInd, EVMTypeOK
<1>4. FetchState'
  BY <1>1, <1>2 DEF EVMInd, EVMTypeOK, FetchState, JobOver
<1>5. FetchedUpTo = fetch.current /\ FetchedUpTo' = fetch.current
  BY <1>1, <1>2 DEF FetchedUpTo
<1>6. FetchAsked'
  BY <1>1, <1>2, <1>5 DEF EVMInd, FetchAsked
<1>7. QED
  BY <1>1, <1>3, <1>4, <1>6, FetchLeavesAlone

\* A routine that stops gives up the rest of its job.
LEMMA StopRoutineKeeps ==
    ASSUME EVMInd, NEW r \in Routines, StopRoutine(r) PROVE EVMInd'
<1>1. /\ evmDone /\ job[r].out = {} /\ job' = [job EXCEPT ![r].todo = {}]
      /\ UNCHANGED <<evmHead, evmDone, passed, evmSkipped, evmNulls, evmSent>>
  BY DEF StopRoutine
<1>2. job[r] \in [from : Nat, to : Nat, todo : SUBSET EVMAddresses, out : SUBSET EVMLogs]
  BY DEF EVMInd, EVMTypeOK
<1>3. /\ job'[r].todo = {} /\ job'[r].out = {}
      /\ \A q \in Routines \ {r} : job'[q] = job[q]
      /\ \A q \in Routines : /\ job'[q].out = job[q].out
                             /\ JobOver(q) => JobOver(q)'
  BY <1>1, <1>2 DEF EVMInd, EVMTypeOK, JobOver
<1>4. job' \in [Routines -> [from : Nat, to : Nat, todo : SUBSET EVMAddresses, out : SUBSET EVMLogs]]
  BY <1>1, <1>2 DEF EVMInd, EVMTypeOK
<1>5. /\ (EVMStart <= evmHead)' /\ SentWasAsked' /\ NotSentTwice' /\ OnlyConfirmed'
      /\ PrefetchCovers'
  BY <1>1, <1>3 DEF EVMInd, SentWasAsked, NotSentTwice, OnlyConfirmed, PrefetchCovers
<1>6. CASE r = "prefetch"
  <2>1. prefetch' = [prefetch EXCEPT !.pc = "done"] /\ fetch' = fetch
    BY <1>6 DEF StopRoutine
  <2>2. prefetch'.pc = "done" /\ "fetch" \in Routines /\ "fetch" # r /\ "prefetch" \in Routines
    BY <1>6, <2>1 DEF EVMInd, EVMTypeOK, Routines
  <2>3. EVMTypeOK'
    BY <1>1, <1>4, <2>1 DEF EVMInd, EVMTypeOK
  <2>4. FetchState' /\ FetchAsked'
    BY <1>1, <1>3, <2>1, <2>2 DEF EVMInd, FetchState, FetchAsked, FetchedUpTo
  <2>5. PrefetchAsked'
    BY <1>3, <1>6, <2>2 DEF PrefetchAsked, JobOver
  <2>6. QED
    BY <1>5, <2>3, <2>4, <2>5 DEF EVMInd
<1>7. CASE r = "fetch"
  <2>1. fetch' = [fetch EXCEPT !.pc = "done"] /\ prefetch' = prefetch
    BY <1>7 DEF StopRoutine
  <2>2. fetch'.pc = "done" /\ "prefetch" \in Routines /\ "prefetch" # r
    BY <1>7, <2>1 DEF EVMInd, EVMTypeOK, Routines
  <2>3. EVMTypeOK'
    BY <1>1, <1>4, <2>1 DEF EVMInd, EVMTypeOK
  <2>4. FetchState' /\ FetchAsked'
    BY <1>1, <1>3, <1>7, <2>2 DEF FetchState, FetchAsked, JobOver
  <2>5. PrefetchAsked'
    BY <1>1, <1>3, <2>1, <2>2 DEF EVMInd, PrefetchAsked
  <2>6. QED
    BY <1>5, <2>3, <2>4, <2>5 DEF EVMInd
<1>8. QED
  BY <1>6, <1>7 DEF Routines

\* A step that changes nothing keeps the invariant.
LEMMA EVMStutterKeeps == ASSUME EVMInd, UNCHANGED evmVars PROVE EVMInd'
  BY DEF EVMInd, evmVars, EVMTypeOK, FetchState, FetchAsked, PrefetchAsked, SentWasAsked,
         NotSentTwice, OnlyConfirmed, PrefetchCovers, FetchedUpTo, JobOver

\* A step that asks for nothing and sends nothing misses nothing.
LEMMA NothingNewMissed ==
    ASSUME NothingMissed, UNCHANGED <<passed, evmSkipped, evmSent>>,
           \A r \in Routines : job'[r].out = job[r].out
    PROVE  NothingMissed'
  BY DEF NothingMissed

\* Every log of an answer goes to out, and from out to sent.
LEMMA NothingMissedKeeps == ASSUME EVMInd, NothingMissed, EVMNext PROVE NothingMissed'
<1>1. CASE EVMNewBlock \/ EVMCancel \/ FetchTick \/ FetchTickNothingNew \/ FetchStart \/ FetchRangesOver
  <2>1. UNCHANGED <<passed, evmSkipped, evmSent, job>>
    BY <1>1 DEF EVMNewBlock, EVMCancel, FetchTick, FetchTickNothingNew, FetchStart,
                FetchRangesOver, evmVars
  <2>2. QED
    BY <2>1, NothingNewMissed
<1>2. ASSUME NEW r \in Routines, StopRoutine(r) PROVE NothingMissed'
  <2>1. job' = [job EXCEPT ![r].todo = {}] /\ UNCHANGED <<passed, evmSkipped, evmSent>>
    BY <1>2 DEF StopRoutine
  <2>2. \A q \in Routines : job'[q].out = job[q].out
    BY <2>1 DEF EVMInd, EVMTypeOK
  <2>3. QED
    BY <2>1, <2>2, NothingNewMissed
<1>3. CASE PrefetchStart \/ PrefetchNext
  <2>1. job["prefetch"].out = {} /\ UNCHANGED <<passed, evmSkipped, evmSent>>
    BY <1>3 DEF EVMInd, PrefetchAsked, JobOver, PrefetchStart, PrefetchNext
  <2>2. \/ job' = job
        \/ \E n, d : job' = [job EXCEPT !["prefetch"] = PrefetchRange(n, d)]
    BY <1>3 DEF PrefetchStart, PrefetchNext
  <2>3. \A q \in Routines : job'[q].out = job[q].out
    <3>1. CASE job' = job
      BY <3>1
    <3>2. ASSUME NEW n, NEW d, job' = [job EXCEPT !["prefetch"] = PrefetchRange(n, d)]
          PROVE  \A q \in Routines : job'[q].out = job[q].out
      <4>1. PrefetchRange(n, d).out = {}
        BY DEF PrefetchRange, Job
      <4>2. QED
        BY <2>1, <3>2, <4>1 DEF EVMInd, EVMTypeOK, Routines
    <3>3. QED
      BY <2>2, <3>1, <3>2
  <2>4. QED
    BY <2>1, <2>3, NothingNewMissed
<1>4. CASE FetchNextRange
  <2>1. job["fetch"].out = {} /\ UNCHANGED <<passed, evmSkipped, evmSent>>
    BY <1>4 DEF JobOver, FetchNextRange
  <2>2. PICK f, t : job' = [job EXCEPT !["fetch"] = Job(f, t)]
    BY <1>4 DEF FetchNextRange
  <2>3. Job(f, t).out = {}
    BY DEF Job
  <2>4. \A q \in Routines : job'[q].out = job[q].out
    BY <2>1, <2>2, <2>3 DEF EVMInd, EVMTypeOK, Routines
  <2>5. QED
    BY <2>1, <2>4, NothingNewMissed
<1>5. ASSUME NEW r \in Routines, FilterLogs(r) PROVE NothingMissed'
  <2>1. PICK a \in job[r].todo :
          /\ job' = [job EXCEPT ![r].todo = @ \ {a}, ![r].out = Events(a, job[r].from, job[r].to)]
          /\ passed' = [passed EXCEPT ![r] = @ \cup ({a} \X (job[r].from..job[r].to))]
    BY <1>5 DEF FilterLogs
  <2>2. job[r].out = {} /\ UNCHANGED <<evmSkipped, evmSent>>
    BY <1>5 DEF FilterLogs
  <2>3. /\ job'[r].out = Events(a, job[r].from, job[r].to)
        /\ passed'[r] = passed[r] \cup ({a} \X (job[r].from..job[r].to))
        /\ \A q \in Routines \ {r} : job'[q] = job[q] /\ passed'[q] = passed[q]
    BY <2>1 DEF EVMInd, EVMTypeOK
  <2>4. ASSUME NEW l \in EVMLogs, l.state = "ok", <<l.address, l.block>> \in passed'[r] \ evmSkipped[r]
        PROVE  l \in evmSent[r] \cup job'[r].out
    <3>1. CASE <<l.address, l.block>> \in passed[r]
      BY <2>2, <2>4, <3>1 DEF NothingMissed
    <3>2. CASE <<l.address, l.block>> \in {a} \X (job[r].from..job[r].to)
      BY <2>3, <2>4, <3>2 DEF Events
    <3>3. QED
      BY <2>3, <2>4, <3>1, <3>2
  <2>5. QED
    BY <2>2, <2>3, <2>4 DEF NothingMissed
<1>6. ASSUME NEW r \in Routines, SendEvent(r) PROVE NothingMissed'
  <2>1. PICK l \in job[r].out :
          /\ job' = [job EXCEPT ![r].out = @ \ {l}]
          /\ evmSent' = [evmSent EXCEPT ![r] = @ \cup {l}]
    BY <1>6 DEF SendEvent
  <2>2. UNCHANGED <<passed, evmSkipped>>
    BY <1>6 DEF SendEvent
  <2>3. \A q \in Routines : evmSent'[q] \cup job'[q].out = evmSent[q] \cup job[q].out
    BY <2>1 DEF EVMInd, EVMTypeOK
  <2>4. QED
    BY <2>2, <2>3 DEF NothingMissed
<1>7. ASSUME NEW r \in Routines, NullAnswer(r) PROVE NothingMissed'
  <2> DEFINE Left == job[r].todo \X (job[r].from..job[r].to)
  <2>1. /\ passed' = [passed EXCEPT ![r] = @ \cup Left]
        /\ evmSkipped' = [evmSkipped EXCEPT ![r] = @ \cup Left]
        /\ job' = [job EXCEPT ![r].todo = {}] /\ evmSent' = evmSent
    BY <1>7 DEF NullAnswer
  <2> HIDE DEF Left
  <2>2. \A q \in Routines : /\ job'[q].out = job[q].out
                            /\ passed'[q] \ evmSkipped'[q] \subseteq passed[q] \ evmSkipped[q]
    BY <2>1 DEF EVMInd, EVMTypeOK
  <2>3. QED
    BY <2>1, <2>2 DEF NothingMissed
<1>8. QED
  BY <1>1, <1>2, <1>3, <1>4, <1>5, <1>6, <1>7
  DEF EVMNext, PrefetchSteps, FetchSteps, Nulls, Stops, Routines

\* The inductive invariant is stronger than the property of the runs.
LEMMA EVMIndImplies == EVMInd /\ NothingMissed => BlocksAskedRight
<1> SUFFICES ASSUME EVMInd PROVE FetchedExactly
  BY DEF EVMInd, BlocksAskedRight
<1> SUFFICES ASSUME fetch.pc = "wait"
             PROVE  passed["fetch"] = EVMAddresses \X
                        ((fetch.first + 1 - BlockConfirms)..(fetch.latest - BlockConfirms))
  BY DEF FetchedExactly
<1>1. job["fetch"].todo = {} /\ FetchedUpTo = fetch.latest
  BY DEF EVMInd, FetchState, JobOver, FetchedUpTo
<1>2. QED
  BY <1>1 DEF EVMInd, FetchAsked

\* fetchEventsRoutine and prefetchEventsRoutine ask for confirmed blocks only,
\* fetch for every one after its start exactly once whatever the block limit,
\* the confirmations and the lag of the node, prefetch for every one of its
\* period, and both send every event of the blocks they ask for, but for the
\* contracts that a null answer makes them leave out, and none twice.
THEOREM EVMAsksRight == EVMSpec => []BlocksAskedRight
<1>1. EVMInit => EVMInd /\ NothingMissed
  <2>1. EVMInit => NothingMissed
    BY DEF EVMInit, NothingMissed
  <2>2. QED
    BY <2>1, EVMInitInd
<1>2. ASSUME EVMInd, [EVMNext]_evmVars PROVE EVMInd'
  <2>1. CASE EVMNewBlock \/ EVMCancel
    BY <1>2, <2>1, EVMNewBlockKeeps, EVMCancelKeeps
  <2>2. CASE PrefetchSteps
    BY <1>2, <2>2, PrefetchStartKeeps, PrefetchNextKeeps, FilterLogsKeeps, SendEventKeeps
    DEF PrefetchSteps, Routines
  <2>3. CASE FetchSteps
    BY <1>2, <2>3, FetchStartKeeps, FetchNextRangeKeeps, FetchRangesOverKeeps,
       FilterLogsKeeps, SendEventKeeps DEF FetchSteps, Routines
  <2>4. CASE FetchTick
    BY <1>2, <2>4, FetchTickKeeps
  <2>5. CASE FetchTickNothingNew \/ UNCHANGED evmVars
    BY <1>2, <2>5, EVMStutterKeeps DEF FetchTickNothingNew
  <2>6. CASE Stops
    BY <1>2, <2>6, StopRoutineKeeps DEF Stops
  <2>7. CASE Nulls
    BY <1>2, <2>7, NullAnswerKeeps DEF Nulls
  <2>8. QED
    BY <1>2, <2>1, <2>2, <2>3, <2>4, <2>5, <2>6, <2>7 DEF EVMNext
<1>3. ASSUME EVMInd, NothingMissed, [EVMNext]_evmVars PROVE NothingMissed'
  <2>1. CASE EVMNext
    BY <1>3, <2>1, NothingMissedKeeps
  <2>2. CASE UNCHANGED evmVars
    BY <1>3, <2>2 DEF NothingMissed, evmVars
  <2>3. QED
    BY <1>3, <2>1, <2>2
<1>4. EVMInd /\ NothingMissed => BlocksAskedRight
  BY EVMIndImplies
<1>5. QED
  BY <1>1, <1>2, <1>3, <1>4, PTL DEF EVMSpec

-----------------------------------------------------------------------------
(* EventStore: the newest message of every event is served *)

\* What Gc removes has reached the TTL.
LEMMA GcKeepsYoung ==
    ASSUME NEW s, NEW m \in s, EventAge(m) < EsTTL, EventAge(m) \in Int
    PROVE  m \in Gc(s)
  BY EventStoreAssumption DEF Gc

\* A young message, once collected, stays served, by itself or a newer one.
LEMMA CollectServes ==
    ASSUME StoreServesNewest, NEW m \in EsMsgs, CollectEvent(m)
    PROVE  StoreServesNewest'
<1> DEFINE curr == {n \in events : SameKey(n, m)}
           written == (events \ curr) \cup {m}
<1>1. /\ gccount < GcWrites /\ collected' = collected \cup {m}
      /\ esTime' = esTime /\ esDone' = esDone /\ AddEvent(m)
  BY DEF CollectEvent
<1>2. \A x \in EsMsgs : x \in MsgFields /\ EventAge(x) \in Int /\ x.messageDate \in Nat
  BY EventStoreAssumption DEF StoreServesNewest, ESTypeOK, MsgFields, EventAge
<1>3. \A x, y \in EsMsgs : hashUnique(x) = hashUnique(y) => x.eventDate = y.eventDate
  BY EventStoreAssumption DEF hashUnique
<1>4. events \subseteq EsMsgs /\ collected \subseteq EsMsgs /\ \A x : EventAge(x)' = EventAge(x)
  BY <1>1 DEF StoreServesNewest, ESTypeOK, EventAge
<1>5. ASSUME NEW x \in collected, EventAge(x) < EsTTL
      PROVE  \E n \in events : /\ hashIndex(n) = hashIndex(x) /\ hashUnique(n) = hashUnique(x)
                               /\ n.messageDate >= x.messageDate
  BY <1>5 DEF StoreServesNewest, NewestServed, mapEvents, Get, hashIndex
<1>6. CASE \A n \in curr : n.messageDate < m.messageDate
  <2>1. /\ gccount' = gccount + 1
        /\ events' = written \/ events' = Gc(written)
    BY <1>1, <1>6 DEF AddEvent
  <2>2. events' \subseteq written /\ written \subseteq collected'
    BY <1>1, <2>1 DEF Gc, StoreServesNewest, ESTypeOK
  <2>3. \A x \in written : EventAge(x) < EsTTL => x \in events'
    BY <1>2, <1>4, <2>1, GcKeepsYoung
  <2>4. ESTypeOK'
    <3>1. \A x, y \in events' : SameKey(x, y) => x = y
      BY <2>2 DEF StoreServesNewest, ESTypeOK, SameKey
    <3>2. gccount' \in 0..GcWrites
      BY <1>1, <2>1, EventStoreAssumption DEF StoreServesNewest, ESTypeOK
    <3>3. QED
      BY <1>1, <2>2, <3>1, <3>2 DEF StoreServesNewest, ESTypeOK, SameKey
  <2>5. ASSUME NEW x \in collected', EventAge(x)' < EsTTL
        PROVE  \E n \in events' : /\ hashIndex(n) = <<x.type, x.index>>
                                  /\ hashUnique(n) = hashUnique(x)
                                  /\ n.messageDate >= x.messageDate
    <3>1. PICK n \in written : /\ hashIndex(n) = hashIndex(x) /\ hashUnique(n) = hashUnique(x)
                               /\ n.messageDate >= x.messageDate
      <4>1. CASE x = m
        BY <1>2, <4>1
      <4>2. CASE x # m
        <5>1. x \in collected /\ EventAge(x) < EsTTL
          BY <1>1, <1>4, <2>5, <4>2
        <5>2. PICK n \in events : /\ hashIndex(n) = hashIndex(x) /\ hashUnique(n) = hashUnique(x)
                                  /\ n.messageDate >= x.messageDate
          BY <1>5, <5>1
        <5>3. CASE n \in curr
          <6>1. n.messageDate < m.messageDate /\ SameKey(n, m)
            BY <1>6, <5>3
          <6>2. m.messageDate >= x.messageDate
            BY <1>2, <1>4, <5>1, <5>2, <6>1
          <6>3. QED
            BY <5>2, <6>1, <6>2 DEF SameKey
        <5>4. QED
          BY <5>2, <5>3
      <4>3. QED
        BY <4>1, <4>2
    <3>2. n \in EsMsgs /\ x \in EsMsgs
      BY <1>1, <1>4, <2>2
    <3>3. EventAge(n) < EsTTL
      BY <1>3, <1>4, <2>5, <3>1, <3>2 DEF EventAge
    <3>4. n \in events'
      BY <2>3, <3>3
    <3>5. QED
      BY <3>1, <3>4 DEF hashIndex
  <2>6. QED
    BY <2>4, <2>5 DEF StoreServesNewest, NewestServed, mapEvents, Get
<1>7. CASE ~\A n \in curr : n.messageDate < m.messageDate
  <2>1. events' = events /\ gccount' = gccount
    BY <1>1, <1>7 DEF AddEvent
  <2>2. PICK n \in events : SameKey(n, m) /\ ~(n.messageDate < m.messageDate)
    BY <1>7
  <2>3. n.messageDate >= m.messageDate
    BY <1>2, <1>4, <2>2
  <2>4. ESTypeOK'
    BY <1>1, <2>1 DEF StoreServesNewest, ESTypeOK
  <2>5. ASSUME NEW x \in collected', EventAge(x)' < EsTTL
        PROVE  \E y \in events' : /\ hashIndex(y) = <<x.type, x.index>>
                                  /\ hashUnique(y) = hashUnique(x)
                                  /\ y.messageDate >= x.messageDate
    <3>1. CASE x = m
      BY <2>1, <2>2, <2>3, <3>1 DEF SameKey, hashIndex
    <3>2. CASE x # m
      BY <1>1, <1>4, <1>5, <2>1, <2>5, <3>2 DEF hashIndex
    <3>3. QED
      BY <3>1, <3>2
  <2>6. QED
    BY <2>4, <2>5 DEF StoreServesNewest, NewestServed, mapEvents, Get
<1>8. QED
  BY <1>6, <1>7

\* Of every event younger than the TTL the API of lair serves the newest
\* message that its collector got, in whatever order, and however often, they
\* came, and whenever garbage was collected.
THEOREM EventStoreServesNewest == ESSpec => []StoreServesNewest
<1>1. ESInit => StoreServesNewest
  BY EventStoreAssumption DEF ESInit, StoreServesNewest, ESTypeOK, NewestServed
<1>2. ASSUME StoreServesNewest, [ESNext]_esVars PROVE StoreServesNewest'
  <2>1. CASE ESAdvance
    <3>1. /\ esTime < EsMaxTime /\ esTime' = esTime + 1 /\ events' = events
          /\ gccount' = gccount /\ collected' = collected
      BY <2>1 DEF ESAdvance
    <3>2. ESTypeOK'
      BY <1>2, <3>1, EventStoreAssumption DEF StoreServesNewest, ESTypeOK
    <3>3. \A x \in collected : EventAge(x)' < EsTTL => EventAge(x) < EsTTL
      BY <1>2, <3>1, EventStoreAssumption
      DEF StoreServesNewest, ESTypeOK, MsgFields, EventAge
    <3>4. QED
      BY <1>2, <3>1, <3>2, <3>3 DEF StoreServesNewest, NewestServed, mapEvents, Get
  <2>2. CASE \E m \in EsMsgs : CollectEvent(m)
    BY <1>2, <2>2, CollectServes
  <2>3. CASE ESCancel \/ UNCHANGED esVars \/ \E m \in EsMsgs : CollectNothing(m)
    <3>1. /\ esTime' = esTime /\ events' = events /\ gccount' = gccount
          /\ collected' = collected
      BY <2>3 DEF ESCancel, CollectNothing, esVars
    <3>2. QED
      BY <1>2, <3>1 DEF StoreServesNewest, ESTypeOK, NewestServed, mapEvents, Get, EventAge
  <2>4. QED
    BY <1>2, <2>1, <2>2, <2>3 DEF ESNext
<1>3. QED
  BY <1>1, <1>2, PTL DEF ESSpec

-----------------------------------------------------------------------------
(* EventStoreRedis: an older message does not replace a newer one *)

\* The operation of a lair: what it is about, and what it has read.
Operations ==
    [pc : {"idle", "avail", "get", "incr", "set", "expire", "mget"},
     evt : RdEvents \cup {NoEvt}, msg : RdMsgs \cup {NoValue},
     seen : SUBSET (RdEvents \cup RdMsgs \cup {NoValue}),
     out : {"none", "limit", "error", "older", "added", "values"}]

\* Add has an event and a message and, between the comparison and Set, the key
\* holds an older one. With one lair this is inductive: nobody else writes.
RedisInd ==
    /\ stored \in [RdEvents -> RdMsgs \cup {NoValue}]
    /\ op \in [Lairs -> Operations]
    /\ \A l \in Lairs :
        op[l].pc \in {"avail", "get", "incr", "set", "expire"} =>
            /\ op[l].evt \in RdEvents /\ op[l].msg \in RdMsgs
            /\ op[l].pc \in {"incr", "set"} => stored[op[l].evt].date < op[l].msg.date

\* The outcomes of incrMemUsage: nothing to count, or counted and expiring, and Add
\* goes on; nothing counted, or counted without an end, or with one, and Add ends.
Diff(o) == o.msg.size - PrevOf(o).size
GoesOn(l) == op' = [op EXCEPT ![l] = [op[l] EXCEPT !.pc = "set"]]
Breaks(l) == op' = [op EXCEPT ![l] = [Idle EXCEPT !.out = "error"]]
Increased(l) ==
    /\ mem' = [mem EXCEPT ![memUsageKey(op[l].evt)] = @ + Diff(op[l])]
    /\ memTTL' = memTTL
Counted(l) ==
    LET k == memUsageKey(op[l].evt)
        past == MemExpiry(k) <= rdTime
    IN  /\ mem' = [mem EXCEPT ![k] = IF past THEN 0 ELSE @ + Diff(op[l])]
        /\ memTTL' = [memTTL EXCEPT ![k] = IF past THEN Never ELSE MemExpiry(k)]

LEMMA IncrCases ==
    ASSUME NEW l \in Lairs, IncrMemUsage(l)
    PROVE  /\ op[l].pc = "incr" /\ rdTime' = rdTime /\ stored' = stored /\ keyTTL' = keyTTL /\ rdDone' = rdDone
           /\ \/ /\ GoesOn(l) /\ adrift' = adrift
                 /\ \/ (MemLimit = 0 \/ Diff(op[l]) = 0) /\ mem' = mem /\ memTTL' = memTTL
                    \/ Counted(l)
              \/ Breaks(l) /\ adrift' = adrift /\ mem' = mem /\ memTTL' = memTTL
              \/ Breaks(l) /\ (Increased(l) \/ Counted(l)) /\ Drifts(op[l].evt.author, Diff(op[l]) < 0)
BY DEF IncrMemUsage, OpTo, GoesOn, Breaks, Increased, Counted, Diff

\* What the steps of the only lair do: its operation keeps its form, and a
\* message replaces an older one or is removed.
LEMMA RedisStep ==
    ASSUME NEW l, Lairs = {l}, RedisInd, [RDNext]_rdVars
    PROVE  /\ RedisInd'
           /\ \A e \in RdEvents : stored[e] # stored'[e] =>
                stored'[e] = NoValue \/ stored[e].date < stored'[e].date
<1> DEFINE Goal == /\ RedisInd'
                   /\ \A e \in RdEvents : stored[e] # stored'[e] =>
                        stored'[e] = NoValue \/ stored[e].date < stored'[e].date
           o == op[l]
<1>1. /\ stored \in [RdEvents -> RdMsgs \cup {NoValue}] /\ o \in Operations
      /\ op \in [Lairs -> Operations] /\ l \in Lairs
  BY DEF RedisInd
<1>2. Idle \in Operations
  BY DEF Idle, Operations
<1>3. \A m \in RdMsgs : m.date \in Nat /\ NoValue.date < m.date
  BY EventStoreRedisAssumption DEF RdMsgs, NoValue
<1>4. o.pc \in {"avail", "get", "incr", "set", "expire"} =>
        /\ o.evt \in RdEvents /\ o.msg \in RdMsgs
        /\ o.pc \in {"incr", "set"} => stored[o.evt].date < o.msg.date
  BY <1>1 DEF RedisInd
\* Steps that change the operation only.
<1>5. ASSUME NEW q \in Operations, op' = [op EXCEPT ![l] = q], stored' = stored,
             q.pc \in {"avail", "get", "incr", "set", "expire"} =>
                /\ q.evt \in RdEvents /\ q.msg \in RdMsgs
                /\ q.pc \in {"incr", "set"} => stored[q.evt].date < q.msg.date
      PROVE  Goal
  BY <1>1, <1>5 DEF RedisInd
<1>6. ASSUME NEW q \in Operations, OpTo(l, q), q.pc \in {"idle", "mget"}
      PROVE  Goal
  BY <1>5, <1>6 DEF OpTo
<1>7. \A x \in {"none", "limit", "error", "older", "added", "values"} :
        [Idle EXCEPT !.out = x] \in Operations /\ [Idle EXCEPT !.out = x].pc = "idle"
  BY DEF Idle, Operations
<1>8. CASE RDAdvance
  <2>1. stored' = [e \in RdEvents |-> IF keyTTL[e] <= rdTime' THEN NoValue ELSE stored[e]]
        /\ op' = op
    BY <1>8 DEF RDAdvance
  <2>2. \A e \in RdEvents : stored'[e] = stored[e] \/ stored'[e] = NoValue
    BY <2>1
  <2>3. stored' \in [RdEvents -> RdMsgs \cup {NoValue}]
    BY <1>1, <2>1
  <2>4. QED
    BY <1>1, <1>3, <2>1, <2>2, <2>3 DEF RedisInd
<1>9. ASSUME NEW e \in RdEvents, NEW m \in RdMsgs, AddStart(l, e, m) PROVE Goal
  <2> DEFINE q == [Idle EXCEPT !.pc = "avail", !.evt = e, !.msg = m]
  <2>1. q \in Operations /\ q.pc = "avail" /\ q.evt = e /\ q.msg = m
    BY DEF Idle, Operations
  <2> HIDE DEF q
  <2>2. OpTo(l, q)
    BY <1>9 DEF AddStart, q
  <2>3. QED
    BY <1>5, <2>1, <2>2 DEF OpTo
<1>10. CASE AvailMem(l)
  <2>1. CASE OpTo(l, [Idle EXCEPT !.out = "limit"]) \/ OpTo(l, [Idle EXCEPT !.out = "error"])
    BY <1>6, <1>7, <2>1
  <2>2. CASE OpTo(l, [o EXCEPT !.pc = "get"])
    <3> DEFINE q == [o EXCEPT !.pc = "get"]
    <3>1. q \in Operations /\ q.pc = "get" /\ q.evt = o.evt /\ q.msg = o.msg
      BY <1>1 DEF Operations
    <3> HIDE DEF q
    <3>2. o.pc = "avail"
      BY <1>10 DEF AvailMem
    <3>3. OpTo(l, q)
      BY <2>2 DEF q
    <3>4. QED
      BY <1>4, <1>5, <3>1, <3>2, <3>3 DEF OpTo
  <2>3. QED
    BY <1>10, <2>1, <2>2 DEF AvailMem
<1>11. CASE GetPrev(l)
  <2> DEFINE prev == stored[o.evt]
  <2>1. o.pc = "get" /\ o.evt \in RdEvents /\ o.msg \in RdMsgs /\ prev \in RdMsgs \cup {NoValue}
    BY <1>1, <1>4, <1>11 DEF GetPrev
  <2>2. CASE OpTo(l, [Idle EXCEPT !.out = "older"]) \/ OpTo(l, [Idle EXCEPT !.out = "error"])
    BY <1>6, <1>7, <2>2
  <2>3. CASE /\ OpTo(l, [o EXCEPT !.pc = "incr", !.seen = {prev}])
             /\ ~(prev # NoValue /\ prev.date >= o.msg.date)
    <3> DEFINE q == [o EXCEPT !.pc = "incr", !.seen = {prev}]
    <3>1. q \in Operations /\ q.pc = "incr" /\ q.evt = o.evt /\ q.msg = o.msg
      BY <1>1, <2>1 DEF Operations
    <3> HIDE DEF q
    <3>2. prev.date < o.msg.date
      BY <1>3, <2>1, <2>3
    <3>3. OpTo(l, q)
      BY <2>3 DEF q
    <3>4. QED
      BY <1>5, <2>1, <3>1, <3>2, <3>3 DEF OpTo
  <2>4. QED
    BY <1>11, <2>2, <2>3 DEF GetPrev
<1>12. CASE IncrMemUsage(l)
  <2>1. /\ o.pc = "incr" /\ stored' = stored
        /\ op' = [op EXCEPT ![l] = [o EXCEPT !.pc = "set"]] \/ op' = [op EXCEPT ![l] = [Idle EXCEPT !.out = "error"]]
    BY <1>1, <1>12, IncrCases DEF GoesOn, Breaks
  <2>2. CASE op' = [op EXCEPT ![l] = [Idle EXCEPT !.out = "error"]]
    BY <1>5, <1>7, <2>1, <2>2
  <2>3. CASE op' = [op EXCEPT ![l] = [o EXCEPT !.pc = "set"]]
    <3> DEFINE q == [o EXCEPT !.pc = "set"]
    <3>1. q \in Operations /\ q.pc = "set" /\ q.evt = o.evt /\ q.msg = o.msg
      BY <1>1 DEF Operations
    <3>2. op' = [op EXCEPT ![l] = q]
      BY <2>3
    <3> HIDE DEF q
    <3>3. QED
      BY <1>4, <1>5, <2>1, <3>1, <3>2
  <2>4. QED
    BY <2>1, <2>2, <2>3
<1>13. CASE SetValue(l)
  <2> DEFINE q == [o EXCEPT !.pc = "expire"]
  <2>1. q \in Operations /\ q.pc = "expire" /\ q.evt = o.evt /\ q.msg = o.msg
    BY <1>1 DEF Operations
  <2>2. /\ op' = [op EXCEPT ![l] = q] /\ o.pc = "set"
        /\ stored' = [stored EXCEPT ![o.evt] = o.msg] \/ stored' = stored
    BY <1>1, <1>13 DEF SetValue
  <2> HIDE DEF q
  <2>3. o.evt \in RdEvents /\ o.msg \in RdMsgs /\ stored[o.evt].date < o.msg.date
    BY <1>4, <2>2
  <2>4. stored' \in [RdEvents -> RdMsgs \cup {NoValue}] /\ op' \in [Lairs -> Operations]
        /\ op'[l] = q
    BY <1>1, <2>1, <2>2, <2>3
  <2>5. RedisInd'
    BY <2>1, <2>3, <2>4 DEF RedisInd
  <2>6. QED
    BY <1>1, <2>2, <2>3, <2>5
<1>14. CASE ExpireKey(l)
  <2>1. /\ op' = [op EXCEPT ![l] = [Idle EXCEPT !.out = "added"]]
        /\ \/ stored' = [stored EXCEPT ![o.evt] =
                           IF o.evt.date + RdTTL <= rdTime THEN NoValue ELSE @]
           \/ stored' = stored
    BY <1>14 DEF ExpireKey
  <2>2. /\ stored' \in [RdEvents -> RdMsgs \cup {NoValue}] /\ op' \in [Lairs -> Operations]
        /\ op'[l] = [Idle EXCEPT !.out = "added"]
        /\ \A e \in RdEvents : stored'[e] = stored[e] \/ stored'[e] = NoValue
    BY <1>1, <1>7, <2>1
  <2>3. QED
    BY <1>7, <2>2 DEF RedisInd
<1>15. CASE GetScan(l)
  <2> DEFINE q == [Idle EXCEPT !.pc = "mget", !.seen = {e \in RdEvents : stored[e] # NoValue}]
  <2>1. q \in Operations /\ q.pc = "mget"
    BY DEF Idle, Operations
  <2> HIDE DEF q
  <2>2. QED
    BY <1>6, <1>15, <2>1 DEF GetScan, q
<1>16. CASE GetValues(l)
  BY <1>6, <1>7, <1>16 DEF GetValues
<1>17. CASE RDCancel \/ UNCHANGED rdVars
  <2>1. stored' = stored /\ op' = op
    BY <1>17 DEF RDCancel, rdVars
  <2>2. QED
    BY <2>1 DEF RedisInd
<1>18. QED
  BY <1>8, <1>9, <1>10, <1>11, <1>12, <1>13, <1>14, <1>15, <1>16, <1>17 DEF RDNext

\* "If the new event is older than the existing one, we do not overwrite it":
\* with one lair, whatever fails or expires between the commands of Add. (With
\* two it does not hold: see the run of EventStoreTwo.cfg.)
THEOREM RedisKeepsNewest ==
    ASSUME NEW l, Lairs = {l}
    PROVE  RDSpec => NeverOverwrittenByOlder
<1>1. RDInit => RedisInd
  <2>1. Idle \in Operations /\ Idle.pc = "idle"
    BY DEF Idle, Operations
  <2>2. QED
    BY <2>1 DEF RDInit, RedisInd
<1>2. RedisInd /\ [RDNext]_rdVars => RedisInd'
  BY RedisStep
<1>3. RedisInd /\ [RDNext]_rdVars =>
        [\A e \in RdEvents : stored[e] # stored'[e] =>
            (stored'[e] = NoValue \/ stored[e].date < stored'[e].date)]_rdVars
  BY RedisStep
<1>4. QED
  BY <1>1, <1>2, <1>3, PTL DEF RDSpec, NeverOverwrittenByOlder

-----------------------------------------------------------------------------
(* EventStoreRedis: the limit of memory *)

\* What the counter of an event stands for while lair l is at work: between the
\* read of the key and the end of Add the size that was read or that is
\* written, whatever the key holds, until the counter expires.
ChargeOf(l, e) ==
    IF e = op[l].evt /\ op[l].pc \in {"incr", "set", "expire"}
    THEN IF MemExpiry(memUsageKey(e)) <= rdTime THEN 0
         ELSE IF op[l].pc = "incr" THEN PrevOf(op[l]).size ELSE op[l].msg.size
    ELSE stored[e].size
Charges(l) == [e \in RdEvents |-> ChargeOf(l, e)]
Sizes == [e \in RdEvents |-> stored[e].size]

EventsOf(Q) == {e \in RdEvents : memUsageKey(e) \in Q}
GoodKeys == {k \in MemKeys : k[1] \notin adrift}

\* Any set of counters covers what their events are charged. (Of sets of
\* counters, because an author has several and they expire one by one.)
CoveredBy(C, M, G) == \A Q \in SUBSET G : SumOver(C, EventsOf(Q)) <= SumOver(M, Q)
Covered(l) == CoveredBy(Charges(l), mem, GoodKeys)

\* A counter expires after the quantum of its events or not at all, and the key of
\* a message expires before its counter, except between Set and ExpireAt.
CountersExpire ==
    /\ \A k \in MemKeys : memTTL[k] \in {Never, MemExpiry(k)}
    /\ \A k \in GoodKeys : mem[k] \in Nat
JustSet(l, e) ==
    op[l].pc = "expire" /\ e = op[l].evt /\ stored[e] # NoValue /\ keyTTL[e] = Never
KeysExpire(l) ==
    \A e \in RdEvents :
        e.author \notin adrift /\ stored[e] # NoValue =>
            (keyTTL[e] = e.date + RdTTL /\ rdTime < keyTTL[e]) \/ JustSet(l, e)

\* What Add has read is there until it expires; after Set, the key holds no more
\* than was counted, although Set may have failed.
SeenIs(l) ==
    op[l].pc \in {"incr", "set"} =>
        \E p \in RdMsgs \cup {NoValue} : op[l].seen = {p} /\ stored[op[l].evt] \in {p, NoValue}
SetKept(l) ==
    op[l].pc = "expire" /\ op[l].evt.author \notin adrift =>
        stored[op[l].evt].size <= op[l].msg.size

\* Once the limit was compared, the message fits beside all that is stored.
Room(l) ==
    \A a \in Authors \ adrift :
        op[l].pc \in {"get", "incr", "set"} /\ op[l].evt.author = a /\ MemLimit > 0 =>
            Usage(a) + op[l].msg.size <= MemLimit

MemInd(l) ==
    /\ RedisInd /\ RDTypeOK /\ KeysExpire(l) /\ SeenIs(l) /\ SetKept(l)
    /\ CountersExpire /\ Covered(l) /\ Room(l) /\ LimitKept

LEMMA RedisKeys ==
    ASSUME NEW e \in RdEvents
    PROVE  /\ e.date \in Nat /\ e.author \in Authors
           /\ memUsageKey(e) \in MemKeys /\ memUsageKey(e)[1] = e.author
           /\ MemExpiry(memUsageKey(e)) \in Nat
           /\ e.date + RdTTL < MemExpiry(memUsageKey(e))
<1>1. /\ e.date \in Nat /\ e.author \in Authors /\ RdTTL \in Nat /\ Quantum \in Nat \ {0}
  BY EventStoreRedisAssumption
<1>2. memUsageKey(e) \in MemKeys /\ memUsageKey(e)[1] = e.author /\ memUsageKey(e)[2] = e.date \div Quantum
  BY DEF MemKeys, memUsageKey, QuantumOf
<1>3. e.date \div Quantum \in Nat /\ e.date < ((e.date \div Quantum) + 1) * Quantum
  BY <1>1, DivBounds
<1>4. ((e.date \div Quantum) + 1) * Quantum \in Nat
  BY <1>1, <1>3
<1>5. MemExpiry(memUsageKey(e)) = ((e.date \div Quantum) + 1) * Quantum + RdTTL
  BY <1>2 DEF MemExpiry
<1> HIDE DEF memUsageKey, MemExpiry
<1>6. /\ MemExpiry(memUsageKey(e)) \in Nat
      /\ e.date + RdTTL < MemExpiry(memUsageKey(e))
  BY <1>1, <1>3, <1>4, <1>5
<1> QED BY <1>1, <1>2, <1>6

LEMMA RedisFinite ==
    /\ IsFiniteSet(RdEvents) /\ IsFiniteSet(MemKeys)
    /\ \A Q \in SUBSET MemKeys : IsFiniteSet(Q) /\ IsFiniteSet(EventsOf(Q)) /\ EventsOf(Q) \subseteq RdEvents
<1>1. IsFiniteSet(RdEvents)
  BY EventStoreRedisAssumption
<1>2. IsFiniteSet(MemKeys)
  <2>1. [e \in RdEvents |-> memUsageKey(e)] \in Surjection(RdEvents, MemKeys)
    BY DEF Surjection, MemKeys
  <2> QED BY <1>1, <2>1, FS_Surjection
<1>3. ASSUME NEW Q \in SUBSET MemKeys
      PROVE  IsFiniteSet(Q) /\ IsFiniteSet(EventsOf(Q)) /\ EventsOf(Q) \subseteq RdEvents
  <2>1. EventsOf(Q) \subseteq RdEvents
    BY DEF EventsOf
  <2> QED BY <1>1, <1>2, <2>1, FS_Subset
<1> QED BY <1>1, <1>2, <1>3

\* Charges fall from C to D, and the counters of E expire with all they stand for,
\* while others may have grown.
ChargesFall(C, D, M, N, G, E) ==
    /\ \A e \in EventsOf(G) : C[e] \in Nat /\ D[e] \in Nat /\ D[e] <= C[e]
    /\ \A e \in EventsOf(G) : memUsageKey(e) \in E => D[e] = 0
    /\ \A k \in G : M[k] \in Nat /\ N[k] \in Nat /\ IF k \in E THEN N[k] = 0 ELSE M[k] <= N[k]

LEMMA CoverKept ==
    ASSUME NEW C, NEW C2, NEW M, NEW M2, NEW G \in SUBSET MemKeys, NEW G2 \in SUBSET G, NEW E,
           ChargesFall(C, C2, M, M2, G2, E), CoveredBy(C, M, G)
    PROVE  CoveredBy(C2, M2, G2)
<1> SUFFICES ASSUME NEW Q \in SUBSET G2 PROVE SumOver(C2, EventsOf(Q)) <= SumOver(M2, Q)
  BY DEF CoveredBy
<1> DEFINE R == Q \ E
           QE == EventsOf(Q)
           RE == EventsOf(R)
<1>1. R \subseteq Q /\ Q \in SUBSET MemKeys /\ R \in SUBSET MemKeys /\ R \in SUBSET G
  OBVIOUS
<1>2. IsFiniteSet(Q) /\ IsFiniteSet(R) /\ IsFiniteSet(QE) /\ IsFiniteSet(RE)
  BY <1>1, RedisFinite
<1>3. /\ RE \subseteq QE /\ QE \subseteq EventsOf(G2)
      /\ \A e \in QE \ RE : memUsageKey(e) \in E
  BY DEF EventsOf
<1>4. \A e \in QE : C[e] \in Nat /\ C2[e] \in Nat /\ C2[e] <= C[e]
  BY <1>3 DEF ChargesFall
<1>5. \A k \in Q : M2[k] \in Nat /\ M[k] \in Nat
  BY DEF ChargesFall
<1>6. \A e \in QE \ RE : C2[e] = 0
  BY <1>3 DEF ChargesFall
<1>7. \A k \in Q \ R : M2[k] = 0
  BY DEF ChargesFall
<1>8. \A k \in R : M[k] \in Nat /\ M2[k] \in Nat /\ M[k] <= M2[k]
  BY DEF ChargesFall
<1>9. SumOver(C, RE) <= SumOver(M, R)
  BY <1>1 DEF CoveredBy
<1>10. \A e \in RE : C[e] \in Nat /\ C2[e] \in Nat /\ C2[e] <= C[e]
  BY <1>3, <1>4
<1> HIDE DEF R, QE, RE
<1>11. SumOver(C2, QE) = SumOver(C2, RE)
  BY <1>2, <1>3, <1>4, <1>6, SumOfOthers
<1>12. SumOver(M2, Q) = SumOver(M2, R)
  BY <1>1, <1>2, <1>5, <1>7, SumOfOthers
<1>13. SumOver(M, R) <= SumOver(M2, R)
  BY <1>2, <1>8, SumGrows
<1>14. SumOver(C2, RE) <= SumOver(C, RE)
  BY <1>2, <1>10, SumGrows
<1>15. /\ SumOver(C2, RE) \in Nat /\ SumOver(C, RE) \in Nat
       /\ SumOver(M, R) \in Nat /\ SumOver(M2, R) \in Nat
  BY <1>2, <1>8, <1>10, UnitsCounted
<1>16. SumOver(C2, QE) <= SumOver(M2, Q)
  BY <1>9, <1>11, <1>12, <1>13, <1>14, <1>15
<1> QED BY <1>16 DEF QE

\* The counter of event x moves with its charge.
ChargeMoves(C, D, M, N, G, x) ==
    /\ \A e \in EventsOf(G) : C[e] \in Nat /\ D[e] \in Nat /\ (e # x => D[e] = C[e])
    /\ \A k \in G : M[k] \in Nat /\ N[k] \in Nat /\ (k # memUsageKey(x) => N[k] = M[k])
    /\ memUsageKey(x) \in G => N[memUsageKey(x)] = M[memUsageKey(x)] + D[x] - C[x]

LEMMA CoverMoved ==
    ASSUME NEW C, NEW C2, NEW M, NEW M2, NEW G \in SUBSET MemKeys, NEW x \in RdEvents,
           ChargeMoves(C, C2, M, M2, G, x), CoveredBy(C, M, G)
    PROVE  CoveredBy(C2, M2, G)
<1> SUFFICES ASSUME NEW Q \in SUBSET G PROVE SumOver(C2, EventsOf(Q)) <= SumOver(M2, Q)
  BY DEF CoveredBy
<1> DEFINE QE == EventsOf(Q)
           k0 == memUsageKey(x)
<1>1. Q \in SUBSET MemKeys /\ QE \subseteq EventsOf(G) /\ (x \in QE <=> k0 \in Q)
  BY DEF EventsOf
<1>2. IsFiniteSet(Q) /\ IsFiniteSet(QE)
  BY <1>1, RedisFinite
<1>3. \A e \in QE : C[e] \in Nat /\ C2[e] \in Nat /\ (e # x => C2[e] = C[e])
  BY <1>1 DEF ChargeMoves
<1>4. \A k \in Q : M[k] \in Nat /\ M2[k] \in Nat /\ (k # k0 => M2[k] = M[k])
  BY DEF ChargeMoves
<1>5. SumOver(C, QE) <= SumOver(M, Q)
  BY DEF CoveredBy
<1>6. k0 \in Q => M2[k0] = M[k0] + C2[x] - C[x]
  BY DEF ChargeMoves
<1>7. SumOver(C, QE) \in Nat /\ SumOver(M, Q) \in Nat
  BY <1>2, <1>3, <1>4, UnitsCounted
<1> HIDE DEF QE, k0
<1>8. CASE k0 \in Q
  <2>1. SumOver(C2, QE) = SumOver(C, QE) - C[x] + C2[x]
    <3>1. x \in QE /\ \A e \in QE \ {x} : C[e] = C2[e]
      BY <1>1, <1>3, <1>8
    <3> QED BY <1>2, <1>3, <3>1, SumChangesBy
  <2>2. SumOver(M2, Q) = SumOver(M, Q) - M[k0] + M2[k0]
    <3>1. \A k \in Q \ {k0} : M[k] = M2[k]
      BY <1>4
    <3> QED BY <1>2, <1>4, <1>8, <3>1, SumChangesBy
  <2>3. C[x] \in Nat /\ C2[x] \in Nat /\ M[k0] \in Nat
    BY <1>1, <1>3, <1>4, <1>8
  <2>4. SumOver(C2, QE) <= SumOver(M2, Q)
    BY <1>5, <1>6, <1>7, <1>8, <2>1, <2>2, <2>3
  <2> QED BY <2>4 DEF QE
<1>9. CASE k0 \notin Q
  <2>1. SumOver(C2, QE) = SumOver(C, QE)
    <3>1. \A e \in QE : C2[e] = C[e]
      BY <1>1, <1>3, <1>9
    <3> QED BY <3>1, SumOfEqual
  <2>2. SumOver(M2, Q) = SumOver(M, Q)
    <3>1. \A k \in Q : M2[k] = M[k]
      BY <1>4, <1>9
    <3> QED BY <3>1, SumOfEqual
  <2> QED BY <1>5, <2>1, <2>2 DEF QE
<1> QED BY <1>8, <1>9

LEMMA RedisSizes ==
    NoValue.size = 0 /\ \A m \in RdMsgs \cup {NoValue} : m.size \in Nat
<1>1. RdSizes \subseteq Nat
  BY EventStoreRedisAssumption
<1>2. \A m \in RdMsgs : m.size \in RdSizes
  BY DEF RdMsgs
<1>3. NoValue.size = 0 /\ NoValue.size \in Nat
  BY DEF NoValue
<1>4. \A m \in RdMsgs : m.size \in Nat
  BY <1>1, <1>2
<1>5. \A m \in RdMsgs \cup {NoValue} : m \in RdMsgs \/ m = NoValue
  OBVIOUS
<1> QED BY <1>3, <1>4, <1>5, Zenon

\* Sizes, charges and counters that count are natural numbers.
LEMMA MemTypes ==
    ASSUME NEW l, Lairs = {l}, MemInd(l)
    PROVE  /\ rdTime \in Nat /\ \A e \in RdEvents : stored[e].size \in Nat /\ ChargeOf(l, e) \in Nat
           /\ \A e \in RdEvents : Charges(l)[e] = ChargeOf(l, e)
           /\ GoodKeys \in SUBSET MemKeys /\ \A k \in GoodKeys : mem[k] \in Nat
<1>1. \A m \in RdMsgs \cup {NoValue} : m.size \in Nat
  BY RedisSizes
<1>2. stored \in [RdEvents -> RdMsgs \cup {NoValue}]
  BY DEF MemInd, RDTypeOK
<1>3. rdTime \in Nat
  BY EventStoreRedisAssumption DEF MemInd, RDTypeOK
<1>4. op[l].pc \in {"incr", "set", "expire"} => op[l].msg.size \in Nat
  BY <1>1 DEF MemInd, RedisInd
<1>5. op[l].pc \in {"incr", "set"} => PrevOf(op[l]).size \in Nat
  BY <1>1 DEF MemInd, SeenIs, PrevOf
<1>6. \A e \in RdEvents : ChargeOf(l, e) \in Nat
  BY <1>1, <1>2, <1>4, <1>5 DEF ChargeOf
<1>7. GoodKeys \in SUBSET MemKeys
  BY DEF GoodKeys
<1> QED BY <1>1, <1>2, <1>3, <1>6, <1>7 DEF MemInd, CountersExpire, Charges

\* An event that is not being written is charged what its key holds, or more.
Settled(l, e) == ~(e = op[l].evt /\ op[l].pc = "set") /\ ~JustSet(l, e)

LEMMA ChargedEnough ==
    ASSUME NEW l, Lairs = {l}, MemInd(l), NEW e \in RdEvents, e.author \notin adrift, Settled(l, e)
    PROVE  stored[e].size <= ChargeOf(l, e)
<1>1. rdTime \in Nat /\ stored[e].size \in Nat /\ ChargeOf(l, e) \in Nat
  BY MemTypes
<1>2. stored[e] # NoValue => ~(MemExpiry(memUsageKey(e)) <= rdTime)
  <2>1. stored[e] # NoValue => keyTTL[e] = e.date + RdTTL /\ rdTime < keyTTL[e]
    BY DEF MemInd, KeysExpire, Settled
  <2>2. e.date + RdTTL < MemExpiry(memUsageKey(e)) /\ MemExpiry(memUsageKey(e)) \in Nat /\ e.date \in Nat
    BY RedisKeys
  <2>3. e.date + RdTTL \in Nat
    BY <2>2, EventStoreRedisAssumption
  <2> QED BY <1>1, <2>1, <2>2, <2>3
<1>3. CASE stored[e] = NoValue
  BY <1>1, <1>3, RedisSizes
<1>4. CASE stored[e] # NoValue /\ e = op[l].evt /\ op[l].pc = "incr"
  <2>1. PICK p \in RdMsgs \cup {NoValue} : op[l].seen = {p} /\ stored[e] \in {p, NoValue}
    BY <1>4 DEF MemInd, SeenIs
  <2>2. PrevOf(op[l]) = p
    BY <2>1 DEF PrevOf
  <2>3. ChargeOf(l, e) = p.size /\ stored[e] = p
    BY <1>2, <1>4, <2>1, <2>2 DEF ChargeOf
  <2> QED BY <1>1, <2>3
<1>5. CASE stored[e] # NoValue /\ e = op[l].evt /\ op[l].pc = "expire"
  <2>1. ChargeOf(l, e) = op[l].msg.size
    BY <1>2, <1>5 DEF ChargeOf
  <2> QED BY <1>5, <2>1 DEF MemInd, SetKept
<1>6. CASE ~(e = op[l].evt /\ op[l].pc \in {"incr", "set", "expire"})
  <2>1. ChargeOf(l, e) = stored[e].size
    BY <1>6 DEF ChargeOf
  <2> QED BY <1>1, <2>1
<1> QED BY <1>3, <1>4, <1>5, <1>6 DEF Settled

\* The keys of an author and his events.
LEMMA AuthorsKeys ==
    ASSUME NEW a
    PROVE  LET K == {k \in MemKeys : k[1] = a}
           IN  /\ K \in SUBSET MemKeys /\ EventsOf(K) = {e \in RdEvents : e.author = a}
               /\ (a \notin adrift => K \subseteq GoodKeys)
<1>1. \A e \in RdEvents : memUsageKey(e) \in MemKeys /\ memUsageKey(e)[1] = e.author
  BY RedisKeys
<1> QED BY <1>1 DEF EventsOf, GoodKeys

\* What an author stores is covered, but for a message that is being written.
LEMMA UsageCovered ==
    ASSUME NEW l, Lairs = {l}, MemInd(l), NEW a, a \notin adrift,
           op[l].pc \in {"set", "expire"} => op[l].evt.author # a
    PROVE  Usage(a) <= AuthorMem(a) /\ Usage(a) \in Nat /\ AuthorMem(a) \in Nat
<1> DEFINE K == {k \in MemKeys : k[1] = a}
           E == {e \in RdEvents : e.author = a}
<1>1. K \in SUBSET MemKeys /\ EventsOf(K) = E /\ K \in SUBSET GoodKeys
  BY AuthorsKeys
<1>2. IsFiniteSet(E) /\ IsFiniteSet(K)
  BY <1>1, RedisFinite
<1>3. /\ \A e \in E : stored[e].size \in Nat /\ Charges(l)[e] \in Nat
      /\ \A k \in K : mem[k] \in Nat
  BY <1>1, MemTypes
<1>4. \A e \in E : stored[e].size <= Charges(l)[e]
  <2>1. \A e \in E : e \in RdEvents /\ e.author \notin adrift /\ Settled(l, e)
    BY DEF Settled, JustSet
  <2> QED BY <2>1, ChargedEnough, MemTypes
<1>5. \A e \in E : Sizes[e] = stored[e].size
  BY DEF Sizes
<1>6. Usage(a) = SumOver(Sizes, E)
  BY DEF Usage, Sizes
<1>7. SumOver(Charges(l), E) <= SumOver(mem, K)
  BY <1>1 DEF MemInd, Covered, CoveredBy
<1>8. AuthorMem(a) = SumOver(mem, K)
  BY DEF AuthorMem
<1> HIDE DEF K, E
<1>9. SumOver(Sizes, E) <= SumOver(Charges(l), E)
  BY <1>2, <1>3, <1>4, <1>5, SumGrows
<1>10. SumOver(Sizes, E) \in Nat /\ SumOver(Charges(l), E) \in Nat /\ SumOver(mem, K) \in Nat
  BY <1>2, <1>3, <1>5, UnitsCounted
<1> QED BY <1>6, <1>7, <1>8, <1>9, <1>10

\* Usage is a number, and falls when messages expire.
LEMMA UsageFalls ==
    ASSUME NEW l, Lairs = {l}, MemInd(l), NEW a, \A e \in RdEvents :
              stored'[e].size \in Nat /\ stored'[e].size <= stored[e].size
    PROVE  Usage(a)' <= Usage(a) /\ Usage(a) \in Nat /\ Usage(a)' \in Nat
<1> DEFINE E == {e \in RdEvents : e.author = a}
           s == [e \in RdEvents |-> stored[e].size]
           t == [e \in RdEvents |-> stored'[e].size]
<1>1. IsFiniteSet(E)
  BY RedisFinite, AuthorsKeys
<1>2. \A e \in E : s[e] \in Nat /\ t[e] \in Nat /\ t[e] <= s[e]
  BY MemTypes
<1>3. Usage(a) = SumOver(s, E) /\ Usage(a)' = SumOver(t, E)
  BY DEF Usage
<1> HIDE DEF E, s, t
<1>4. SumOver(t, E) <= SumOver(s, E) /\ SumOver(t, E) \in Nat /\ SumOver(s, E) \in Nat
  BY <1>1, <1>2, SumGrows, UnitsCounted
<1> QED BY <1>3, <1>4

\* The steps of Add and Get that leave the events alone: a counter may have grown,
\* or expired with its events.
LEMMA OpOnlyKeeps ==
    ASSUME NEW l, Lairs = {l}, MemInd(l), RedisInd', NEW q \in Operations,
           op' = [op EXCEPT ![l] = q],
           UNCHANGED <<rdTime, stored, keyTTL, rdDone>>,
           adrift \subseteq adrift', mem' \in [MemKeys -> Int],
           \A k \in MemKeys : memTTL'[k] \in {Never, MemExpiry(k)}, memTTL' \in [MemKeys -> Nat],
           \A k \in MemKeys : k[1] \notin adrift' =>
               (mem'[k] \in Nat /\ mem[k] <= mem'[k]) \/ (mem'[k] = 0 /\ MemExpiry(k) <= rdTime),
           op[l].pc # "set", q.pc \notin {"set", "expire"},
           \A e \in RdEvents : JustSet(l, e) => e.author \in adrift',
           q.pc = "incr" => q.evt \in RdEvents /\ q.seen = {stored[q.evt]},
           \A a \in Authors \ adrift' :
               q.pc \in {"get", "incr"} /\ q.evt.author = a /\ MemLimit > 0 =>
                   Usage(a) + q.msg.size <= MemLimit
    PROVE  MemInd(l)'
<1>1. rdTime' = rdTime /\ stored' = stored /\ keyTTL' = keyTTL /\ rdDone' = rdDone
  OBVIOUS
<1>2. op'[l] = q /\ q.pc \in {"idle", "avail", "get", "incr", "mget"}
  BY DEF MemInd, RedisInd, Operations
<1>3. RDTypeOK'
  BY <1>1, <1>2 DEF MemInd, RDTypeOK
<1>4. KeysExpire(l)'
  <2> SUFFICES ASSUME NEW e \in RdEvents, e.author \notin adrift', stored[e] # NoValue
               PROVE  keyTTL[e] = e.date + RdTTL /\ rdTime < keyTTL[e]
    BY <1>1 DEF KeysExpire
  <2>1. ~JustSet(l, e) /\ e.author \notin adrift
    OBVIOUS
  <2> QED BY <2>1 DEF MemInd, KeysExpire
<1>5. SeenIs(l)' /\ SetKept(l)'
  <2>1. q.pc = "incr" => stored[q.evt] \in RdMsgs \cup {NoValue}
    BY DEF MemInd, RDTypeOK
  <2> QED BY <1>1, <1>2, <2>1 DEF SeenIs, SetKept
<1>6. GoodKeys' \in SUBSET GoodKeys /\ GoodKeys \in SUBSET MemKeys
  BY DEF GoodKeys
<1>7. CountersExpire'
  <2>1. \A k \in GoodKeys' : mem'[k] \in Nat
    BY DEF GoodKeys
  <2> QED BY <2>1 DEF CountersExpire
<1>8. Room(l)' /\ LimitKept'
  <2>1. \A a : Usage(a)' = Usage(a)
    BY <1>1 DEF Usage
  <2> QED BY <1>1, <1>2, <2>1 DEF MemInd, Room, LimitKept
<1> DEFINE X == {k \in GoodKeys' : MemExpiry(k) <= rdTime /\ mem'[k] = 0}
<1>9. ASSUME NEW e \in EventsOf(GoodKeys')
      PROVE  /\ ChargeOf(l, e) \in Nat /\ ChargeOf(l, e)' \in Nat /\ ChargeOf(l, e)' <= ChargeOf(l, e)
             /\ memUsageKey(e) \in X => ChargeOf(l, e)' = 0
  <2>1. e \in RdEvents /\ e.author \notin adrift' /\ e.author \notin adrift
    <3>1. e \in RdEvents /\ memUsageKey(e)[1] \notin adrift'
      BY DEF EventsOf, GoodKeys
    <3> QED BY <3>1, RedisKeys
  <2>2. Settled(l, e)
    BY <2>1 DEF Settled
  <2>3. stored[e].size \in Nat /\ ChargeOf(l, e) \in Nat /\ stored[e].size <= ChargeOf(l, e)
    BY <2>1, <2>2, MemTypes, ChargedEnough
  <2>4. q.pc = "incr" /\ e = q.evt => PrevOf(q) = stored[e]
    BY DEF PrevOf
  <2>5. ChargeOf(l, e)' = stored[e].size \/ ChargeOf(l, e)' = 0
    BY <1>1, <1>2, <2>4 DEF ChargeOf
  <2>6. MemExpiry(memUsageKey(e)) <= rdTime => stored[e] = NoValue
    <3>1. stored[e] # NoValue => keyTTL[e] = e.date + RdTTL /\ rdTime < keyTTL[e]
      BY <1>1, <1>4, <1>2, <2>1 DEF KeysExpire, JustSet
    <3>2. e.date + RdTTL < MemExpiry(memUsageKey(e)) /\ MemExpiry(memUsageKey(e)) \in Nat /\ e.date \in Nat
      BY <2>1, RedisKeys
    <3>3. e.date + RdTTL \in Nat /\ rdTime \in Nat
      BY <3>2, EventStoreRedisAssumption, MemTypes
    <3> QED BY <3>1, <3>2, <3>3
  <2> QED BY <2>3, <2>5, <2>6, RedisSizes
<1>10. Covered(l)'
  <2> DEFINE C == Charges(l)
             D == Charges(l)'
  <2>1. \A e \in EventsOf(GoodKeys') : C[e] = ChargeOf(l, e) /\ D[e] = ChargeOf(l, e)'
    BY DEF Charges, EventsOf
  <2>2. \A k \in GoodKeys' : mem[k] \in Nat /\ mem'[k] \in Nat /\ IF k \in X THEN mem'[k] = 0 ELSE mem[k] <= mem'[k]
    <3>1. \A k \in GoodKeys' : k \in MemKeys /\ k[1] \notin adrift' /\ mem[k] \in Nat
      BY <1>6, MemTypes DEF GoodKeys
    <3> QED BY <3>1
  <2>3. CoveredBy(C, mem, GoodKeys)
    BY DEF MemInd, Covered
  <2> HIDE DEF C, D, X
  <2>4. ChargesFall(C, D, mem, mem', GoodKeys', X)
    BY <1>9, <2>1, <2>2 DEF ChargesFall
  <2>5. CoveredBy(D, mem', GoodKeys')
    BY <1>6, <2>3, <2>4, CoverKept
  <2> QED BY <2>5 DEF Covered, D
<1> QED BY <1>3, <1>4, <1>5, <1>7, <1>8, <1>10 DEF MemInd

\* Time passes: keys expire before the counter they belong to.
LEMMA RDAdvanceKeeps ==
    ASSUME NEW l, Lairs = {l}, MemInd(l), RedisInd', RDAdvance
    PROVE  MemInd(l)'
<1> DEFINE o == op[l]
           X == {k \in MemKeys : memTTL[k] <= rdTime'}
<1>1. /\ rdTime < RdMaxTime /\ rdTime' = rdTime + 1
      /\ op' = op /\ adrift' = adrift /\ rdDone' = rdDone
      /\ stored' = [e \in RdEvents |-> IF keyTTL[e] <= rdTime' THEN NoValue ELSE stored[e]]
      /\ keyTTL' = [e \in RdEvents |-> IF keyTTL[e] <= rdTime' THEN Never ELSE keyTTL[e]]
      /\ mem' = [k \in MemKeys |-> IF memTTL[k] <= rdTime' THEN 0 ELSE mem[k]]
      /\ memTTL' = [k \in MemKeys |-> IF memTTL[k] <= rdTime' THEN Never ELSE memTTL[k]]
  BY DEF RDAdvance
<1>2. /\ rdTime \in 0..RdMaxTime /\ RdMaxTime \in Nat /\ rdTime' \in 0..RdMaxTime
      /\ Never \in Nat /\ ~(Never <= rdTime')
  BY <1>1, EventStoreRedisAssumption DEF MemInd, RDTypeOK, Never
<1>3. RDTypeOK'
  <2>1. /\ stored \in [RdEvents -> RdMsgs \cup {NoValue}] /\ keyTTL \in [RdEvents -> Nat]
        /\ mem \in [MemKeys -> Int] /\ memTTL \in [MemKeys -> Nat] /\ rdDone \in BOOLEAN
    BY DEF MemInd, RDTypeOK
  <2>2. stored' \in [RdEvents -> RdMsgs \cup {NoValue}] /\ keyTTL' \in [RdEvents -> Nat]
        /\ mem' \in [MemKeys -> Int] /\ memTTL' \in [MemKeys -> Nat]
    BY <1>1, <1>2, <2>1
  <2> QED BY <1>1, <1>2, <2>1, <2>2 DEF MemInd, RDTypeOK
<1>4. \A e \in RdEvents : stored'[e] = stored[e] \/ stored'[e] = NoValue
  BY <1>1
<1>5. KeysExpire(l)'
  <2> SUFFICES ASSUME NEW e \in RdEvents, e.author \notin adrift, stored'[e] # NoValue
               PROVE  (keyTTL'[e] = e.date + RdTTL /\ rdTime' < keyTTL'[e]) \/ JustSet(l, e)'
    BY <1>1 DEF KeysExpire
  <2>1. stored'[e] = stored[e] /\ stored[e] # NoValue /\ ~(keyTTL[e] <= rdTime') /\ keyTTL'[e] = keyTTL[e]
    BY <1>1
  <2>2. keyTTL[e] = e.date + RdTTL \/ JustSet(l, e)
    BY <1>1, <2>1 DEF MemInd, KeysExpire
  <2>3. keyTTL[e] \in Nat
    BY DEF MemInd, RDTypeOK
  <2>4. JustSet(l, e) => JustSet(l, e)'
    BY <1>1, <2>1 DEF JustSet
  <2> QED BY <1>2, <2>1, <2>2, <2>3, <2>4
<1>6. SeenIs(l)' /\ SetKept(l)'
  <2>1. SeenIs(l)'
    <3>1. o.pc \in {"incr", "set"} => o.evt \in RdEvents
      BY DEF MemInd, RedisInd
    <3> QED BY <1>1, <1>4, <3>1 DEF MemInd, SeenIs
  <2>2. SetKept(l)'
    <3>1. o.pc = "expire" => o.evt \in RdEvents /\ o.msg.size \in Nat
      BY RedisSizes DEF MemInd, RedisInd
    <3> QED BY <1>1, <1>4, <3>1, RedisSizes DEF MemInd, SetKept
  <2> QED BY <2>1, <2>2
<1>7. CountersExpire'
  <2>1. GoodKeys' = GoodKeys /\ GoodKeys \subseteq MemKeys
    BY <1>1 DEF GoodKeys
  <2> QED BY <1>1, <2>1 DEF MemInd, CountersExpire
<1>13. \A k \in X : MemExpiry(k) <= rdTime'
  BY <1>1, <1>2 DEF MemInd, CountersExpire
<1>8. \A e \in RdEvents : stored'[e].size \in Nat /\ stored'[e].size <= stored[e].size
  BY <1>4, MemTypes, RedisSizes
<1>9. \A a : Usage(a)' <= Usage(a) /\ Usage(a) \in Nat /\ Usage(a)' \in Nat
  BY <1>8, UsageFalls
<1>10. Room(l)' /\ LimitKept'
  <2>1. o.pc \in {"get", "incr", "set"} => o.msg.size \in Nat
    BY RedisSizes DEF MemInd, RedisInd
  <2>2. MemLimit \in Nat
    BY EventStoreRedisAssumption
  <2>3. Room(l)'
    <3> SUFFICES ASSUME NEW a \in Authors \ adrift, o.pc \in {"get", "incr", "set"},
                        o.evt.author = a, MemLimit > 0
                 PROVE  Usage(a)' + o.msg.size <= MemLimit
      BY <1>1 DEF Room
    <3>1. Usage(a) + o.msg.size <= MemLimit
      BY DEF MemInd, Room
    <3>2. Usage(a)' <= Usage(a) /\ Usage(a) \in Nat /\ Usage(a)' \in Nat
      BY <1>9
    <3> QED BY <2>1, <2>2, <3>1, <3>2
  <2>4. LimitKept'
    <3> SUFFICES ASSUME NEW a \in Authors \ adrift, MemLimit > 0 PROVE Usage(a)' <= MemLimit
      BY <1>1 DEF LimitKept
    <3>1. Usage(a) <= MemLimit
      BY DEF MemInd, LimitKept
    <3>2. Usage(a)' <= Usage(a) /\ Usage(a) \in Nat /\ Usage(a)' \in Nat
      BY <1>9
    <3> QED BY <2>2, <3>1, <3>2
  <2> QED BY <2>3, <2>4
<1>11. \A e \in RdEvents : e.author \notin adrift =>
            /\ ChargeOf(l, e)' \in Nat /\ ChargeOf(l, e)' <= ChargeOf(l, e)
            /\ memUsageKey(e) \in X => ChargeOf(l, e)' = 0
  <2> SUFFICES ASSUME NEW e \in RdEvents, e.author \notin adrift
               PROVE  /\ ChargeOf(l, e)' \in Nat /\ ChargeOf(l, e)' <= ChargeOf(l, e)
                      /\ memUsageKey(e) \in X => ChargeOf(l, e)' = 0
    OBVIOUS
  <2>1. ChargeOf(l, e) \in Nat /\ stored'[e].size \in Nat /\ stored'[e].size <= stored[e].size
        /\ stored[e].size \in Nat
    BY <1>8, MemTypes
  <2>2. /\ memUsageKey(e) \in MemKeys /\ MemExpiry(memUsageKey(e)) \in Nat /\ e.date \in Nat
        /\ e.date + RdTTL < MemExpiry(memUsageKey(e)) /\ RdTTL \in Nat
    BY RedisKeys, EventStoreRedisAssumption
  <2>3. CASE e = o.evt /\ o.pc \in {"incr", "set", "expire"}
    <3>1. CASE MemExpiry(memUsageKey(e)) <= rdTime'
      <4>1. ChargeOf(l, e)' = 0
        BY <1>1, <2>3, <3>1 DEF ChargeOf
      <4> QED BY <2>1, <4>1
    <3>2. CASE ~(MemExpiry(memUsageKey(e)) <= rdTime')
      <4>1. ~(MemExpiry(memUsageKey(e)) <= rdTime) /\ memUsageKey(e) \notin X
        BY <1>1, <1>2, <1>13, <2>2, <3>2
      <4>2. ChargeOf(l, e)' = ChargeOf(l, e)
        BY <1>1, <2>3, <3>2, <4>1 DEF ChargeOf
      <4> QED BY <2>1, <4>1, <4>2
    <3> QED BY <3>1, <3>2
  <2>4. CASE ~(e = o.evt /\ o.pc \in {"incr", "set", "expire"})
    <3>1. ChargeOf(l, e) = stored[e].size /\ ChargeOf(l, e)' = stored'[e].size
      BY <1>1, <2>4 DEF ChargeOf
    <3>2. memUsageKey(e) \in X => stored'[e] = NoValue
      <4>1. stored'[e] # NoValue => e.date + RdTTL > rdTime'
        BY <1>1, <1>5, <2>4 DEF KeysExpire, JustSet
      <4> QED BY <1>2, <1>13, <2>2, <4>1
    <3> QED BY <2>1, <3>1, <3>2, RedisSizes
  <2> QED BY <2>3, <2>4
<1>12. Covered(l)'
  <2> DEFINE C == Charges(l)
             D == Charges(l)'
             M == mem'
  <2>1. GoodKeys' = GoodKeys /\ GoodKeys \in SUBSET MemKeys
    BY <1>1 DEF GoodKeys
  <2>2. \A e \in RdEvents : C[e] = ChargeOf(l, e) /\ D[e] = ChargeOf(l, e)'
    BY DEF Charges
  <2>3. \A e \in EventsOf(GoodKeys) : /\ C[e] \in Nat /\ D[e] \in Nat /\ D[e] <= C[e]
                                      /\ memUsageKey(e) \in X => D[e] = 0
    <3> HIDE DEF C, D, X
    <3>1. \A e \in EventsOf(GoodKeys) : e \in RdEvents /\ e.author \notin adrift
      BY RedisKeys DEF EventsOf, GoodKeys
    <3> QED BY <1>11, <2>2, <3>1, MemTypes
  <2>4. \A k \in GoodKeys : mem[k] \in Nat /\ M[k] \in Nat /\ IF k \in X THEN M[k] = 0 ELSE mem[k] <= M[k]
    BY <1>1, <2>1, MemTypes
  <2>5. ChargesFall(C, D, mem, M, GoodKeys, X) /\ CoveredBy(C, mem, GoodKeys)
    <3>1. CoveredBy(C, mem, GoodKeys)
      BY DEF MemInd, Covered
    <3> HIDE DEF C, D, M, X
    <3> QED BY <2>3, <2>4, <3>1 DEF ChargesFall
  <2> HIDE DEF C, D, M, X
  <2>6. CoveredBy(D, M, GoodKeys)
    BY <2>1, <2>5, CoverKept
  <2> QED BY <2>1, <2>6 DEF Covered, D, M
<1> QED BY <1>3, <1>5, <1>6, <1>7, <1>10, <1>12 DEF MemInd

\* No charge exceeds its counter.
LEMMA ChargeWithin ==
    ASSUME NEW C, NEW M, NEW G \in SUBSET MemKeys, NEW x \in RdEvents, memUsageKey(x) \in G,
           \A e \in EventsOf(G) : C[e] \in Nat, \A k \in G : M[k] \in Nat, CoveredBy(C, M, G)
    PROVE  C[x] <= M[memUsageKey(x)]
<1> DEFINE k == memUsageKey(x)
           E == EventsOf({k})
<1>1. {k} \in SUBSET G /\ {k} \in SUBSET MemKeys /\ x \in E /\ E \subseteq EventsOf(G)
  BY DEF EventsOf
<1>2. IsFiniteSet({k}) /\ IsFiniteSet(E)
  BY <1>1, RedisFinite
<1>3. SumOver(C, E) <= SumOver(M, {k})
  BY <1>1 DEF CoveredBy
<1>4. \A e \in E : C[e] \in Nat
  BY <1>1
<1>5. M[k] \in Nat /\ C[x] \in Nat
  BY <1>1
<1> HIDE DEF E, k
<1>6. SumOver(C, E) = SumOver(C, E \ {x}) + C[x]
  BY <1>1, <1>2, <1>4, SumTakesOut
<1>7. SumOver(C, E \ {x}) \in Nat
  <2>1. IsFiniteSet(E \ {x}) /\ \A e \in E \ {x} : C[e] \in Nat
    BY <1>2, <1>4, FS_Subset
  <2> QED BY <2>1, UnitsCounted
<1>8. SumOver(M, {k}) = SumOver(M, {}) + M[k]
  <2>1. \A y \in {k} : M[y] \in Nat
    BY <1>5
  <2>2. SumOver(M, {k}) = SumOver(M, {k} \ {k}) + M[k]
    BY <1>2, <2>1, SumTakesOut
  <2>3. {k} \ {k} = {}
    OBVIOUS
  <2> QED BY <2>2, <2>3
<1>9. SumOver(M, {}) = 0
  <2>1. Units(M, {}) = {}
    BY DEF Units
  <2>2. Cardinality({}) = 0 /\ IsFiniteSet({})
    BY FS_EmptySet
  <2>3. SumOver(M, {}) = Cardinality(Units(M, {}))
    BY <2>2, UnitsCounted
  <2> QED BY <2>1, <2>2, <2>3
<1>10. C[x] <= M[k]
  BY <1>3, <1>5, <1>6, <1>7, <1>8, <1>9
<1> QED BY <1>10 DEF k

\* An event whose counter is past has no key, and is not charged.
LEMMA PastIsFree ==
    ASSUME NEW l, Lairs = {l}, MemInd(l), NEW e \in RdEvents, e.author \notin adrift, ~JustSet(l, e),
           MemExpiry(memUsageKey(e)) <= rdTime
    PROVE  ChargeOf(l, e) = 0
<1>1. stored[e] = NoValue
  <2>1. stored[e] # NoValue => keyTTL[e] = e.date + RdTTL /\ rdTime < keyTTL[e]
    BY DEF MemInd, KeysExpire
  <2>2. e.date + RdTTL < MemExpiry(memUsageKey(e)) /\ MemExpiry(memUsageKey(e)) \in Nat /\ e.date \in Nat
    BY RedisKeys
  <2>3. e.date + RdTTL \in Nat /\ rdTime \in Nat
    BY <2>2, EventStoreRedisAssumption, MemTypes
  <2> QED BY <2>1, <2>2, <2>3
<1> QED BY <1>1, RedisSizes DEF ChargeOf

\* What incrMemUsage leaves: numbers, and expiries of the counters' own.
LEMMA IncrTypes ==
    ASSUME NEW l, Lairs = {l}, MemInd(l), op[l].pc = "incr"
    PROVE  /\ op[l] \in Operations /\ l \in Lairs /\ op[l].evt \in RdEvents /\ op[l].msg \in RdMsgs
           /\ memUsageKey(op[l].evt) \in MemKeys /\ memUsageKey(op[l].evt)[1] = op[l].evt.author
           /\ op[l].msg.size \in Nat /\ PrevOf(op[l]).size \in Nat /\ Diff(op[l]) \in Int
           /\ mem \in [MemKeys -> Int] /\ memTTL \in [MemKeys -> Nat] /\ rdTime \in Nat
           /\ Increased(l) \/ Counted(l) =>
                 /\ mem' \in [MemKeys -> Int] /\ memTTL' \in [MemKeys -> Nat]
                 /\ \A k \in MemKeys : memTTL'[k] \in {Never, MemExpiry(k)}
<1> DEFINE kx == memUsageKey(op[l].evt)
<1>1. op[l] \in Operations /\ l \in Lairs /\ op[l].evt \in RdEvents /\ op[l].msg \in RdMsgs
  BY DEF MemInd, RedisInd
<1>2. kx \in MemKeys /\ kx[1] = op[l].evt.author /\ MemExpiry(kx) \in Nat /\ Never \in Nat
  BY <1>1, RedisKeys, EventStoreRedisAssumption DEF Never
<1>3. PrevOf(op[l]) \in RdMsgs \cup {NoValue}
  BY DEF MemInd, SeenIs, PrevOf
<1>4. op[l].msg.size \in Nat /\ PrevOf(op[l]).size \in Nat
  BY <1>1, <1>3, RedisSizes
<1>5. Diff(op[l]) \in Int
  BY <1>4 DEF Diff
<1>6. mem \in [MemKeys -> Int] /\ memTTL \in [MemKeys -> Nat] /\ rdTime \in Nat
      /\ \A k \in MemKeys : memTTL[k] \in {Never, MemExpiry(k)}
  BY MemTypes DEF MemInd, RDTypeOK, CountersExpire
<1>7. ASSUME Increased(l) \/ Counted(l)
      PROVE  /\ mem' \in [MemKeys -> Int] /\ memTTL' \in [MemKeys -> Nat]
             /\ \A k \in MemKeys : memTTL'[k] \in {Never, MemExpiry(k)}
  <2>1. CASE Increased(l)
    BY <1>2, <1>5, <1>6, <2>1 DEF Increased
  <2>2. CASE Counted(l)
    <3>1. PICK v \in Int : mem' = [mem EXCEPT ![kx] = v]
      <4> DEFINE v == IF MemExpiry(kx) <= rdTime THEN 0 ELSE mem[kx] + Diff(op[l])
      <4>1. v \in Int
        BY <1>2, <1>5, <1>6
      <4>2. mem' = [mem EXCEPT ![kx] = v]
        BY <2>2 DEF Counted
      <4> HIDE DEF v, kx
      <4> QED BY <4>1, <4>2
    <3>2. PICK x \in {Never, MemExpiry(kx)} : memTTL' = [memTTL EXCEPT ![kx] = x]
      BY <2>2 DEF Counted
    <3> HIDE DEF kx
    <3> QED BY <1>2, <1>6, <3>1, <3>2
  <2> QED BY <1>7, <2>1, <2>2
<1> QED BY <1>1, <1>2, <1>4, <1>5, <1>6, <1>7

\* Add ends although the counter has moved: it has grown, or expired, or its
\* author is adrift.
LEMMA IncrBreaks ==
    ASSUME NEW l, Lairs = {l}, MemInd(l), RedisInd', op[l].pc = "incr", Breaks(l),
           UNCHANGED <<rdTime, stored, keyTTL, rdDone>>, Increased(l) \/ Counted(l),
           Drifts(op[l].evt.author, Diff(op[l]) < 0)
    PROVE  MemInd(l)'
<1> DEFINE kx == memUsageKey(op[l].evt)
           q == [Idle EXCEPT !.out = "error"]
           d == Diff(op[l])
<1>1. /\ kx \in MemKeys /\ kx[1] = op[l].evt.author /\ d \in Int /\ mem \in [MemKeys -> Int] /\ rdTime \in Nat
      /\ mem' \in [MemKeys -> Int] /\ memTTL' \in [MemKeys -> Nat]
      /\ \A k \in MemKeys : memTTL'[k] \in {Never, MemExpiry(k)}
  BY IncrTypes
<1>2. adrift \subseteq adrift' /\ (d < 0 => op[l].evt.author \in adrift')
  BY DEF Drifts
<1>3. q \in Operations /\ q.pc = "idle" /\ op' = [op EXCEPT ![l] = q]
  BY DEF Idle, Operations, Breaks
<1>4. /\ \A k \in MemKeys : k # kx => mem'[k] = mem[k]
      /\ mem'[kx] = mem[kx] + d \/ (mem'[kx] = 0 /\ MemExpiry(kx) <= rdTime)
  <2> HIDE DEF kx
  <2>1. CASE Increased(l)
    BY <1>1, <2>1 DEF Increased, kx
  <2>2. CASE Counted(l)
    BY <1>1, <2>2 DEF Counted, kx
  <2> QED BY <2>1, <2>2
<1>5. ASSUME NEW k \in MemKeys, k[1] \notin adrift'
      PROVE  (mem'[k] \in Nat /\ mem[k] <= mem'[k]) \/ (mem'[k] = 0 /\ MemExpiry(k) <= rdTime)
  <2>1. mem[k] \in Nat
    <3>1. k \in GoodKeys
      BY <1>2, <1>5 DEF GoodKeys
    <3> QED BY <3>1, MemTypes
  <2>2. CASE k # kx
    BY <1>4, <2>1, <2>2
  <2>3. CASE k = kx
    <3>1. ~(d < 0)
      BY <1>1, <1>2, <1>5, <2>3
    <3> HIDE DEF d
    <3> QED BY <1>1, <1>4, <2>1, <2>3, <3>1
  <2> QED BY <2>2, <2>3
<1> HIDE DEF q, kx, d
<1>6. op[l].pc # "set" /\ \A e \in RdEvents : ~JustSet(l, e)
  BY DEF JustSet
<1> QED BY <1>1, <1>2, <1>3, <1>5, <1>6, OpOnlyKeeps

\* IncrBy: the counter moves from what was read to what will be written.
LEMMA IncrKeeps ==
    ASSUME NEW l, Lairs = {l}, MemInd(l), RedisInd', op[l].pc = "incr", GoesOn(l),
           UNCHANGED <<rdTime, stored, keyTTL, adrift, rdDone>>,
           (Diff(op[l]) = 0 /\ mem' = mem /\ memTTL' = memTTL) \/ Counted(l)
    PROVE  MemInd(l)'
<1> DEFINE o == op[l]
           x == op[l].evt
           kx == memUsageKey(op[l].evt)
           d == Diff(op[l])
           p == PrevOf(op[l])
<1>1. /\ o \in Operations /\ l \in Lairs /\ x \in RdEvents /\ o.msg \in RdMsgs
      /\ kx \in MemKeys /\ kx[1] = x.author /\ o.msg.size \in Nat /\ p.size \in Nat /\ d = o.msg.size - p.size
      /\ mem \in [MemKeys -> Int] /\ rdTime \in Nat
      /\ mem' \in [MemKeys -> Int] /\ memTTL' \in [MemKeys -> Nat]
      /\ \A k \in MemKeys : memTTL'[k] \in {Never, MemExpiry(k)}
  <2>1. /\ memTTL \in [MemKeys -> Nat] /\ \A k \in MemKeys : memTTL[k] \in {Never, MemExpiry(k)}
    BY DEF MemInd, CountersExpire, RDTypeOK
  <2> QED BY <2>1, IncrTypes DEF Diff
<1>2. /\ op'[l].pc = "set" /\ op'[l].evt = x /\ op'[l].msg = o.msg /\ op'[l].seen = o.seen
      /\ rdTime' = rdTime /\ stored' = stored /\ keyTTL' = keyTTL /\ adrift' = adrift
  <2>1. op \in [Lairs -> Operations]
    BY DEF MemInd, RedisInd
  <2> QED BY <1>1, <2>1 DEF GoesOn, Operations
<1>3. GoodKeys' = GoodKeys /\ GoodKeys \in SUBSET MemKeys /\ \A k \in GoodKeys : mem[k] \in Nat
  BY <1>2, MemTypes DEF GoodKeys
<1>4. \A e \in EventsOf(GoodKeys) :
        /\ e \in RdEvents /\ e.author \notin adrift /\ ~JustSet(l, e) /\ ChargeOf(l, e) \in Nat
        /\ Charges(l)[e] = ChargeOf(l, e) /\ Charges(l)'[e] = ChargeOf(l, e)'
        /\ e # x => ChargeOf(l, e)' = ChargeOf(l, e)
  <2>1. \A e \in EventsOf(GoodKeys) : e \in RdEvents /\ e.author \notin adrift
    BY RedisKeys DEF EventsOf, GoodKeys
  <2>2. \A e \in RdEvents : e # x => ChargeOf(l, e)' = ChargeOf(l, e)
    BY <1>2 DEF ChargeOf
  <2> QED BY <2>1, <2>2, MemTypes DEF Charges, JustSet
<1>6. ASSUME CoveredBy(Charges(l)', mem', GoodKeys), \A k \in GoodKeys : mem'[k] \in Nat
      PROVE  MemInd(l)'
  <2>1. RDTypeOK' /\ CountersExpire' /\ Covered(l)'
    BY <1>1, <1>2, <1>3, <1>6 DEF MemInd, RDTypeOK, CountersExpire, Covered
  <2>2. KeysExpire(l)' /\ SeenIs(l)' /\ SetKept(l)'
    BY <1>2 DEF MemInd, KeysExpire, SeenIs, SetKept, JustSet
  <2>3. \A a : Usage(a)' = Usage(a)
    BY <1>2 DEF Usage
  <2>4. Room(l)' /\ LimitKept'
    BY <1>2, <2>3 DEF MemInd, Room, LimitKept
  <2> QED BY <2>1, <2>2, <2>4 DEF MemInd
<1>5. CASE MemExpiry(kx) <= rdTime
  <2>1. \A e \in RdEvents : e = x => ChargeOf(l, e)' = 0 /\ ChargeOf(l, e) = 0
    BY <1>2, <1>5 DEF ChargeOf
  <2>2. PICK X \in {{}, {kx}} :
           \A k \in GoodKeys : mem[k] \in Nat /\ mem'[k] \in Nat /\ IF k \in X THEN mem'[k] = 0 ELSE mem[k] <= mem'[k]
    <3>1. CASE mem' = mem
      BY <1>3, <3>1
    <3>2. CASE Counted(l)
      <4>1. mem' = [mem EXCEPT ![kx] = 0]
        BY <1>5, <3>2 DEF Counted
      <4> HIDE DEF kx
      <4>2. \A k \in GoodKeys : mem[k] \in Nat /\ mem'[k] \in Nat /\ IF k \in {kx} THEN mem'[k] = 0 ELSE mem[k] <= mem'[k]
        BY <1>1, <1>3, <4>1
      <4> QED BY <4>2
    <3> QED BY <3>1, <3>2
  <2>3. \A e \in EventsOf(GoodKeys) :
           /\ ChargeOf(l, e)' = ChargeOf(l, e) /\ ChargeOf(l, e) \in Nat
           /\ memUsageKey(e) \in X => ChargeOf(l, e)' = 0
    <3>1. \A e \in EventsOf(GoodKeys) : memUsageKey(e) = kx => ChargeOf(l, e) = 0
      BY <1>4, <1>5, PastIsFree
    <3>2. \A e \in EventsOf(GoodKeys) : ChargeOf(l, e)' = ChargeOf(l, e) /\ ChargeOf(l, e) \in Nat
      <4> HIDE DEF x
      <4> QED BY <1>4, <2>1
    <3>3. \A e : memUsageKey(e) \in X => memUsageKey(e) = kx
      <4> HIDE DEF kx
      <4> QED BY <2>2
    <3> HIDE DEF kx, x
    <3> QED BY <3>1, <3>2, <3>3
  <2> DEFINE C == Charges(l)
             D == Charges(l)'
  <2>4. CoveredBy(C, mem, GoodKeys) /\ \A e \in EventsOf(GoodKeys) : C[e] = ChargeOf(l, e) /\ D[e] = ChargeOf(l, e)'
    BY <1>4 DEF MemInd, Covered
  <2> HIDE DEF C, D
  <2>5. ChargesFall(C, D, mem, mem', GoodKeys, X)
    BY <2>2, <2>3, <2>4 DEF ChargesFall
  <2>6. CoveredBy(D, mem', GoodKeys)
    BY <1>3, <2>4, <2>5, CoverKept
  <2>7. \A k \in GoodKeys : mem'[k] \in Nat
    BY <2>2
  <2> QED BY <1>6, <2>6, <2>7 DEF D
<1>7. CASE ~(MemExpiry(kx) <= rdTime)
  <2>1. \A e \in RdEvents : e = x => ChargeOf(l, e)' = o.msg.size /\ ChargeOf(l, e) = p.size
    BY <1>2, <1>7 DEF ChargeOf
  <2>2. mem'[kx] = mem[kx] + d /\ \A k \in MemKeys : k # kx => mem'[k] = mem[k]
    <3>1. CASE d = 0 /\ mem' = mem
      <4> HIDE DEF d
      <4> QED BY <1>1, <3>1
    <3>2. CASE Counted(l)
      <4>1. mem' = [mem EXCEPT ![kx] = @ + d]
        BY <1>7, <3>2 DEF Counted
      <4> HIDE DEF kx, d
      <4> QED BY <1>1, <4>1
    <3> QED BY <3>1, <3>2
  <2> DEFINE C == Charges(l)
             D == Charges(l)'
  <2>3. /\ CoveredBy(C, mem, GoodKeys)
        /\ \A e \in EventsOf(GoodKeys) : /\ C[e] = ChargeOf(l, e) /\ D[e] = ChargeOf(l, e)' /\ C[e] \in Nat
                                         /\ e # x => D[e] = C[e]
        /\ C[x] = p.size /\ D[x] = o.msg.size
    <3>1. CoveredBy(C, mem, GoodKeys)
      BY DEF MemInd, Covered
    <3>2. x \in RdEvents
      BY <1>1
    <3>3. \A e \in RdEvents : C[e] = ChargeOf(l, e) /\ D[e] = ChargeOf(l, e)'
      BY DEF Charges
    <3>4. \A e \in EventsOf(GoodKeys) : C[e] = ChargeOf(l, e) /\ D[e] = ChargeOf(l, e)' /\ C[e] \in Nat
      BY <1>4
    <3>5. \A e \in EventsOf(GoodKeys) : e # x => D[e] = C[e]
      <4> HIDE DEF x, C, D
      <4> QED BY <1>4, <3>4
    <3> HIDE DEF C, D
    <3>6. C[x] = p.size /\ D[x] = o.msg.size
      <4> HIDE DEF x, o, p, C, D
      <4> QED BY <2>1, <3>2, <3>3
    <3> QED BY <3>1, <3>4, <3>5, <3>6
  <2> HIDE DEF C, D
  <2>4. kx \in GoodKeys => p.size <= mem[kx]
    <3>1. \A e \in EventsOf(GoodKeys) : C[e] \in Nat
      BY <2>3
    <3> QED BY <1>1, <1>3, <2>3, <3>1, ChargeWithin
  <2>5. \A k \in GoodKeys : mem'[k] \in Nat
    <3> SUFFICES ASSUME NEW k \in GoodKeys PROVE mem'[k] \in Nat
      OBVIOUS
    <3>1. mem[k] \in Nat /\ k \in MemKeys
      BY <1>3
    <3> HIDE DEF kx, d, p, o
    <3> QED BY <1>1, <2>2, <2>4, <3>1
  <2>6. ChargeMoves(C, D, mem, mem', GoodKeys, x)
    <3>1. \A e \in EventsOf(GoodKeys) : C[e] \in Nat /\ D[e] \in Nat /\ (e # x => D[e] = C[e])
      BY <1>1, <2>3
    <3>2. \A k \in GoodKeys : mem[k] \in Nat /\ mem'[k] \in Nat /\ (k # kx => mem'[k] = mem[k])
      BY <1>3, <2>2, <2>5
    <3>3. kx \in GoodKeys => mem'[kx] = mem[kx] + D[x] - C[x]
      <4>1. mem[kx] \in Int
        BY <1>1
      <4> HIDE DEF kx, d, p, o, x
      <4> QED BY <1>1, <2>2, <2>3, <4>1
    <3> QED BY <3>1, <3>2, <3>3 DEF ChargeMoves
  <2>7. CoveredBy(D, mem', GoodKeys)
    BY <1>1, <1>3, <2>3, <2>6, CoverMoved
  <2> QED BY <1>6, <2>5, <2>7 DEF D
<1> QED BY <1>5, <1>7

\* Set: the key takes the size that its counter has already been charged.
LEMMA SetValueKeeps ==
    ASSUME NEW l, Lairs = {l}, MemInd(l), RedisInd', SetValue(l)
    PROVE  MemInd(l)'
<1> DEFINE o == op[l]
           x == op[l].evt
<1>1. /\ o.pc = "set" /\ op' = [op EXCEPT ![l].pc = "expire"]
      /\ \/ /\ stored' = [stored EXCEPT ![x] = o.msg]
            /\ keyTTL' = [keyTTL EXCEPT ![x] = Never] /\ adrift' = adrift
         \/ Drifts(x.author, o.msg.size < PrevOf(o).size) /\ stored' = stored /\ keyTTL' = keyTTL
      /\ rdTime' = rdTime /\ mem' = mem /\ memTTL' = memTTL /\ rdDone' = rdDone
  BY DEF SetValue
<1>2. op \in [Lairs -> Operations] /\ l \in Lairs /\ x \in RdEvents /\ o.msg \in RdMsgs /\ o \in Operations
  BY <1>1 DEF MemInd, RedisInd
<1>3. op'[l].pc = "expire" /\ op'[l].evt = x /\ op'[l].msg = o.msg
  BY <1>1, <1>2 DEF Operations
<1>4. /\ stored \in [RdEvents -> RdMsgs \cup {NoValue}] /\ keyTTL \in [RdEvents -> Nat]
      /\ mem \in [MemKeys -> Int] /\ Never \in Nat
  BY EventStoreRedisAssumption DEF MemInd, RDTypeOK, Never
<1>5. RDTypeOK'
  <2>1. stored' \in [RdEvents -> RdMsgs \cup {NoValue}] /\ keyTTL' \in [RdEvents -> Nat]
    BY <1>1, <1>2, <1>4
  <2> QED BY <1>1, <1>3, <2>1 DEF MemInd, RDTypeOK
<1>6. \A e \in RdEvents : e # x => stored'[e] = stored[e] /\ keyTTL'[e] = keyTTL[e]
  BY <1>1, <1>4
<1>8. adrift \subseteq adrift' /\ GoodKeys' \in SUBSET GoodKeys /\ GoodKeys \in SUBSET MemKeys
  BY <1>1 DEF GoodKeys, Drifts
<1>7. KeysExpire(l)' /\ SeenIs(l)' /\ SetKept(l)'
  <2>1. KeysExpire(l)'
    <3> SUFFICES ASSUME NEW e \in RdEvents, e.author \notin adrift', stored'[e] # NoValue
                 PROVE  (keyTTL'[e] = e.date + RdTTL /\ rdTime' < keyTTL'[e]) \/ JustSet(l, e)'
      BY DEF KeysExpire
    <3>1. CASE stored' = stored /\ keyTTL' = keyTTL
      <4>1. ~JustSet(l, e)
        BY <1>1 DEF JustSet
      <4> QED BY <1>1, <1>8, <3>1, <4>1 DEF MemInd, KeysExpire
    <3>2. CASE /\ stored' = [stored EXCEPT ![x] = o.msg] /\ keyTTL' = [keyTTL EXCEPT ![x] = Never] /\ e = x
      BY <1>2, <1>3, <1>4, <3>2 DEF JustSet
    <3>3. CASE e # x
      <4>1. ~JustSet(l, e)
        BY <1>1 DEF JustSet
      <4> QED BY <1>1, <1>6, <1>8, <3>3, <4>1 DEF MemInd, KeysExpire
    <3> QED BY <1>1, <3>1, <3>2, <3>3
  <2>2. SetKept(l)'
    <3> SUFFICES ASSUME x.author \notin adrift' PROVE stored'[x].size <= o.msg.size
      BY <1>3 DEF SetKept
    <3>1. o.msg.size \in Nat /\ NoValue.size = 0
      BY <1>2, RedisSizes
    <3>2. CASE stored' = [stored EXCEPT ![x] = o.msg]
      <4>1. stored'[x] = o.msg
        BY <1>2, <1>4, <3>2
      <4> QED BY <3>1, <4>1
    <3>3. CASE Drifts(x.author, o.msg.size < PrevOf(o).size) /\ stored' = stored
      <4>1. PICK p \in RdMsgs \cup {NoValue} : o.seen = {p} /\ stored[x] \in {p, NoValue}
        BY <1>1 DEF MemInd, SeenIs
      <4>2. PrevOf(o) = p /\ p.size \in Nat
        BY <4>1, RedisSizes DEF PrevOf
      <4>3. ~(o.msg.size < p.size)
        BY <3>3, <4>2 DEF Drifts
      <4> QED BY <3>1, <3>3, <4>1, <4>2, <4>3
    <3> QED BY <1>1, <3>2, <3>3
  <2> QED BY <1>3, <2>1, <2>2 DEF SeenIs
<1>9. CountersExpire'
  BY <1>1, <1>8 DEF MemInd, CountersExpire
<1>10. Room(l)'
  BY <1>3 DEF Room
<1>11. LimitKept'
  <2> SUFFICES ASSUME NEW a \in Authors, a \notin adrift', MemLimit > 0 PROVE Usage(a)' <= MemLimit
    BY DEF LimitKept
  <2> DEFINE E == {e \in RdEvents : e.author = a}
             s == [e \in RdEvents |-> stored[e].size]
             t == [e \in RdEvents |-> stored'[e].size]
  <2>1. Usage(a) <= MemLimit /\ a \notin adrift
    BY <1>8 DEF MemInd, LimitKept
  <2>2. Usage(a) = SumOver(s, E) /\ Usage(a)' = SumOver(t, E)
    BY DEF Usage
  <2>3. \A e \in RdEvents : s[e] = stored[e].size /\ t[e] = stored'[e].size
    OBVIOUS
  <2>4. \A e \in RdEvents : s[e] \in Nat /\ t[e] \in Nat
    <3>1. \A e \in RdEvents : stored'[e] \in RdMsgs \cup {NoValue} /\ stored[e] \in RdMsgs \cup {NoValue}
      BY <1>4, <1>5 DEF RDTypeOK
    <3> QED BY <3>1, RedisSizes
  <2>5. IsFiniteSet(E) /\ E \subseteq RdEvents
    BY RedisFinite, AuthorsKeys
  <2>6. CASE x.author = a /\ stored' # stored
    <3>1. stored'[x] = o.msg /\ x \in E
      BY <1>1, <1>2, <1>4, <2>6
    <3>2. Usage(a) + o.msg.size <= MemLimit
      BY <1>1, <2>1, <2>6 DEF MemInd, Room
    <3>3. \A e \in E \ {x} : s[e] = t[e]
      BY <1>6, <2>3, <2>5
    <3>4. t[x] = o.msg.size /\ s[x] \in Nat /\ t[x] \in Nat
      BY <1>2, <2>3, <2>4, <3>1
    <3>5. \A e \in E : s[e] \in Nat /\ t[e] \in Nat
      BY <2>4, <2>5
    <3>6. MemLimit \in Nat
      BY EventStoreRedisAssumption
    <3> DEFINE y == op[l].evt
    <3> HIDE DEF E, s, t, y
    <3>7. y \in E /\ \A e \in E \ {y} : s[e] = t[e]
      BY <3>1, <3>3 DEF y
    <3>8. SumOver(t, E) = SumOver(s, E) - s[y] + t[y]
      BY <2>5, <3>5, <3>7, SumChangesBy
    <3>9. SumOver(s, E) \in Nat
      BY <2>5, <3>5, UnitsCounted
    <3>10. t[y] = o.msg.size /\ s[y] \in Nat /\ t[y] \in Nat
      BY <3>4 DEF y
    <3> QED BY <2>2, <3>2, <3>6, <3>8, <3>9, <3>10
  <2>7. CASE ~(x.author = a /\ stored' # stored)
    <3>1. \A e \in E : s[e] = t[e]
      BY <1>6, <2>3, <2>5, <2>7
    <3> HIDE DEF E, s, t
    <3>2. SumOver(s, E) = SumOver(t, E)
      BY <3>1, SumOfEqual
    <3> QED BY <2>1, <2>2, <3>2
  <2> QED BY <2>6, <2>7
<1>12. Covered(l)'
  <2> DEFINE C == Charges(l)
             D == Charges(l)'
  <2>1. \A e \in RdEvents : C[e] = ChargeOf(l, e) /\ D[e] = ChargeOf(l, e)'
    BY DEF Charges
  <2>2. \A e \in RdEvents : ChargeOf(l, e)' = ChargeOf(l, e)
    BY <1>1, <1>3, <1>6 DEF ChargeOf
  <2>3. \A e \in EventsOf(GoodKeys') : e \in RdEvents
    BY DEF EventsOf
  <2>4. \A e \in EventsOf(GoodKeys') : C[e] \in Nat /\ D[e] = C[e]
    <3> HIDE DEF C, D
    <3> QED BY <2>1, <2>2, <2>3, MemTypes
  <2>5. CoveredBy(C, mem, GoodKeys)
    BY DEF MemInd, Covered
  <2>6. \A k \in GoodKeys' : mem[k] \in Nat
    BY <1>8, MemTypes
  <2> HIDE DEF C, D
  <2>7. ChargesFall(C, D, mem, mem', GoodKeys', {})
    BY <1>1, <2>4, <2>6 DEF ChargesFall
  <2>8. CoveredBy(D, mem', GoodKeys')
    BY <1>8, <2>5, <2>7, CoverKept
  <2> QED BY <2>8 DEF Covered, D
<1> QED BY <1>5, <1>7, <1>9, <1>10, <1>11, <1>12 DEF MemInd

\* The expiry of the message's key is set, or the key is removed at once.
ExpirySet(l) ==
    LET x == op[l].evt
        at == x.date + RdTTL
    IN  /\ stored' = [stored EXCEPT ![x] = IF at <= rdTime THEN NoValue ELSE @]
        /\ keyTTL' = [keyTTL EXCEPT ![x] = IF at <= rdTime \/ stored[x] = NoValue THEN Never ELSE at]

\* ExpireAt: a key without a future goes at once.
LEMMA ExpireKeyKeeps ==
    ASSUME NEW l, Lairs = {l}, MemInd(l), RedisInd', ExpireKey(l), ExpirySet(l), adrift' = adrift
    PROVE  MemInd(l)'
<1> DEFINE o == op[l]
           x == op[l].evt
           at == op[l].evt.date + RdTTL
<1>1. /\ o.pc = "expire" /\ op' = [op EXCEPT ![l] = [Idle EXCEPT !.out = "added"]]
      /\ stored' = [stored EXCEPT ![x] = IF at <= rdTime THEN NoValue ELSE @]
      /\ keyTTL' = [keyTTL EXCEPT ![x] = IF at <= rdTime \/ stored[x] = NoValue THEN Never ELSE at]
      /\ rdTime' = rdTime /\ mem' = mem /\ memTTL' = memTTL /\ adrift' = adrift /\ rdDone' = rdDone
  BY DEF ExpireKey, ExpirySet
<1>2. op \in [Lairs -> Operations] /\ l \in Lairs /\ x \in RdEvents /\ o.msg \in RdMsgs
  BY <1>1 DEF MemInd, RedisInd
<1>3. op'[l].pc = "idle"
  BY <1>1, <1>2 DEF Idle
<1>4. /\ stored \in [RdEvents -> RdMsgs \cup {NoValue}] /\ keyTTL \in [RdEvents -> Nat]
      /\ mem \in [MemKeys -> Int] /\ Never \in Nat /\ rdTime \in Nat
  BY EventStoreRedisAssumption DEF MemInd, RDTypeOK, Never
<1>5. /\ at \in Nat /\ MemExpiry(memUsageKey(x)) \in Nat /\ at < MemExpiry(memUsageKey(x))
      /\ memUsageKey(x)[1] = x.author
  <2>1. /\ x.date \in Nat /\ MemExpiry(memUsageKey(x)) \in Nat
        /\ x.date + RdTTL < MemExpiry(memUsageKey(x)) /\ memUsageKey(x)[1] = x.author
    BY <1>2, RedisKeys
  <2>2. RdTTL \in Nat
    BY EventStoreRedisAssumption
  <2> QED BY <2>1, <2>2
<1>6. RDTypeOK'
  <2>1. stored' \in [RdEvents -> RdMsgs \cup {NoValue}]
    BY <1>1, <1>4
  <2>2. keyTTL' \in [RdEvents -> Nat]
    BY <1>1, <1>4, <1>5
  <2> QED BY <1>1, <1>3, <2>1, <2>2 DEF MemInd, RDTypeOK
<1>7. /\ \A e \in RdEvents : e # x => stored'[e] = stored[e] /\ keyTTL'[e] = keyTTL[e]
      /\ stored'[x] = IF at <= rdTime THEN NoValue ELSE stored[x]
      /\ keyTTL'[x] = IF at <= rdTime \/ stored[x] = NoValue THEN Never ELSE at
  BY <1>1, <1>2, <1>4
<1>8. KeysExpire(l)' /\ SeenIs(l)' /\ SetKept(l)' /\ Room(l)'
  <2>1. KeysExpire(l)'
    <3> SUFFICES ASSUME NEW e \in RdEvents, e.author \notin adrift, stored'[e] # NoValue
                 PROVE  keyTTL'[e] = e.date + RdTTL /\ rdTime' < keyTTL'[e]
      BY <1>1 DEF KeysExpire
    <3>1. CASE e = x
      BY <1>1, <1>4, <1>5, <1>7, <3>1
    <3>2. CASE e # x
      BY <1>1, <1>7, <3>2 DEF MemInd, KeysExpire, JustSet
    <3> QED BY <3>1, <3>2
  <2> QED BY <1>3, <2>1 DEF SeenIs, SetKept, Room
<1>9. GoodKeys' = GoodKeys /\ GoodKeys \in SUBSET MemKeys /\ GoodKeys \in SUBSET GoodKeys
  BY <1>1 DEF GoodKeys
<1>10. CountersExpire'
  BY <1>1, <1>9 DEF MemInd, CountersExpire
<1>11. \A e \in RdEvents : stored'[e].size \in Nat /\ stored'[e].size <= stored[e].size
  <2>1. \A e \in RdEvents : stored'[e] = stored[e] \/ stored'[e] = NoValue
    BY <1>7
  <2> QED BY <2>1, MemTypes, RedisSizes
<1>12. LimitKept'
  <2> SUFFICES ASSUME NEW a \in Authors \ adrift, MemLimit > 0 PROVE Usage(a)' <= MemLimit
    BY <1>1 DEF LimitKept
  <2>1. Usage(a) <= MemLimit
    BY DEF MemInd, LimitKept
  <2>2. Usage(a)' <= Usage(a) /\ Usage(a) \in Nat /\ Usage(a)' \in Nat
    BY <1>11, UsageFalls
  <2>3. MemLimit \in Nat
    BY EventStoreRedisAssumption
  <2> QED BY <2>1, <2>2, <2>3
<1>13. \A e \in EventsOf(GoodKeys) : /\ e \in RdEvents /\ ChargeOf(l, e) \in Nat
                                     /\ ChargeOf(l, e)' \in Nat /\ ChargeOf(l, e)' <= ChargeOf(l, e)
  <2> SUFFICES ASSUME NEW e \in EventsOf(GoodKeys)
               PROVE  /\ e \in RdEvents /\ ChargeOf(l, e) \in Nat
                      /\ ChargeOf(l, e)' \in Nat /\ ChargeOf(l, e)' <= ChargeOf(l, e)
    OBVIOUS
  <2>1. e \in RdEvents /\ memUsageKey(e)[1] \notin adrift
    BY DEF EventsOf, GoodKeys
  <2>2. ChargeOf(l, e) \in Nat /\ stored'[e].size \in Nat /\ stored[e].size \in Nat
    BY <1>11, <2>1, MemTypes
  <2>3. ChargeOf(l, e)' = stored'[e].size
    BY <1>3 DEF ChargeOf
  <2>4. stored'[e].size <= ChargeOf(l, e)
    <3>1. CASE e = x
      <4>1. stored[x].size <= o.msg.size /\ o.msg.size \in Nat
        BY <1>1, <1>2, <1>5, <2>1, <3>1, RedisSizes DEF MemInd, SetKept
      <4>2. CASE at <= rdTime
        BY <1>7, <2>2, <3>1, <4>2, RedisSizes
      <4>3. CASE ~(at <= rdTime)
        <5>1. ~(MemExpiry(memUsageKey(x)) <= rdTime)
          BY <1>4, <1>5, <4>3
        <5>2. ChargeOf(l, e) = o.msg.size
          BY <1>1, <3>1, <5>1 DEF ChargeOf
        <5>3. stored'[e] = stored[x]
          BY <1>7, <3>1, <4>3
        <5> QED BY <4>1, <5>2, <5>3
      <4> QED BY <4>2, <4>3
    <3>2. CASE e # x
      <4>1. ChargeOf(l, e) = stored[e].size
        BY <3>2 DEF ChargeOf
      <4> QED BY <1>7, <2>1, <2>2, <3>2, <4>1
    <3> QED BY <3>1, <3>2
  <2> QED BY <2>1, <2>2, <2>3, <2>4
<1>14. Covered(l)'
  <2> DEFINE C == Charges(l)
             D == Charges(l)'
  <2>1. \A e \in RdEvents : C[e] = ChargeOf(l, e) /\ D[e] = ChargeOf(l, e)'
    BY DEF Charges
  <2>2. CoveredBy(C, mem, GoodKeys)
    BY DEF MemInd, Covered
  <2>3. \A k \in GoodKeys : mem[k] \in Nat
    BY MemTypes
  <2> HIDE DEF C, D
  <2>4. \A e \in EventsOf(GoodKeys) : C[e] \in Nat /\ D[e] \in Nat /\ D[e] <= C[e]
    BY <1>13, <2>1
  <2>5. ChargesFall(C, D, mem, mem', GoodKeys, {})
    BY <1>1, <2>3, <2>4 DEF ChargesFall
  <2>6. CoveredBy(D, mem', GoodKeys)
    BY <1>9, <2>2, <2>5, CoverKept
  <2> QED BY <1>9, <2>6 DEF Covered, D
<1> QED BY <1>6, <1>8, <1>10, <1>12, <1>14 DEF MemInd

LEMMA RedisIdleKeeps ==
    ASSUME NEW l, Lairs = {l}, MemInd(l), RedisInd', RDCancel \/ UNCHANGED rdVars
    PROVE  MemInd(l)'
<1>1. /\ rdTime' = rdTime /\ stored' = stored /\ keyTTL' = keyTTL /\ mem' = mem /\ memTTL' = memTTL /\ op' = op
      /\ adrift' = adrift /\ rdDone' \in BOOLEAN
  BY DEF RDCancel, rdVars, MemInd, RDTypeOK
<1>2. RDTypeOK' /\ KeysExpire(l)' /\ SeenIs(l)' /\ SetKept(l)'
  BY <1>1 DEF MemInd, RDTypeOK, KeysExpire, SeenIs, SetKept, JustSet
<1>3. GoodKeys' = GoodKeys /\ Charges(l)' = Charges(l) /\ \A a : Usage(a)' = Usage(a)
  BY <1>1 DEF GoodKeys, Charges, ChargeOf, Usage
<1>4. CountersExpire' /\ Covered(l)' /\ Room(l)' /\ LimitKept'
  BY <1>1, <1>3 DEF MemInd, CountersExpire, Covered, Room, LimitKept
<1> QED BY <1>2, <1>4 DEF MemInd

LEMMA MemStep ==
    ASSUME NEW l, Lairs = {l}, MemLimit > 0, MemInd(l), [RDNext]_rdVars
    PROVE  MemInd(l)'
<1> DEFINE o == op[l]
<1>1. RedisInd'
  BY RedisStep DEF MemInd
<1>2. /\ op \in [Lairs -> Operations] /\ l \in Lairs /\ o \in Operations
      /\ o.pc \in {"avail", "get", "incr", "set", "expire"} => o.evt \in RdEvents /\ o.msg \in RdMsgs
  BY DEF MemInd, RedisInd
\* The database is left alone.
<1>0. ASSUME NEW q \in Operations, OpTo(l, q), o.pc \notin {"set", "expire"}, q.pc \notin {"set", "expire"},
             q.pc = "incr" => q.evt \in RdEvents /\ q.seen = {stored[q.evt]},
             \A a \in Authors \ adrift :
                 q.pc \in {"get", "incr"} /\ q.evt.author = a /\ MemLimit > 0 =>
                     Usage(a) + q.msg.size <= MemLimit
      PROVE  MemInd(l)'
  <2>1. /\ op' = [op EXCEPT ![l] = q] /\ UNCHANGED <<rdTime, stored, keyTTL, rdDone>>
        /\ mem' = mem /\ memTTL' = memTTL /\ adrift' = adrift
    BY <1>0 DEF OpTo
  <2>2. /\ mem \in [MemKeys -> Int] /\ memTTL \in [MemKeys -> Nat]
        /\ \A k \in MemKeys : memTTL[k] \in {Never, MemExpiry(k)}
        /\ \A k \in MemKeys : k[1] \notin adrift => mem[k] \in Nat /\ mem[k] <= mem[k]
    <3>1. \A k \in MemKeys : k[1] \notin adrift => mem[k] \in Nat
      BY MemTypes DEF GoodKeys
    <3> QED BY <3>1 DEF MemInd, RDTypeOK, CountersExpire
  <2>3. \A e \in RdEvents : ~JustSet(l, e)
    BY <1>0 DEF JustSet
  <2> QED BY <1>0, <1>1, <2>1, <2>2, <2>3, OpOnlyKeeps
\* Add or Get ends or begins.
<1>3. ASSUME NEW q \in Operations, OpTo(l, q), q.pc \in {"idle", "avail", "mget"},
             o.pc \notin {"set", "expire"}
      PROVE  MemInd(l)'
  BY <1>0, <1>3
<1>4. \A y \in {"none", "limit", "error", "older", "added", "values"} :
        [Idle EXCEPT !.out = y] \in Operations /\ [Idle EXCEPT !.out = y].pc = "idle"
  BY DEF Idle, Operations
<1>5. CASE RDAdvance
  BY <1>1, <1>5, RDAdvanceKeeps
<1>6. ASSUME NEW e \in RdEvents, NEW m \in RdMsgs, AddStart(l, e, m) PROVE MemInd(l)'
  <2> DEFINE q == [Idle EXCEPT !.pc = "avail", !.evt = e, !.msg = m]
  <2>1. q \in Operations /\ q.pc = "avail"
    BY DEF Idle, Operations
  <2> HIDE DEF q
  <2>2. OpTo(l, q) /\ o.pc = "idle"
    BY <1>6 DEF AddStart, q
  <2> QED BY <1>3, <2>1, <2>2
<1>7. CASE AvailMem(l)
  <2>1. o.pc = "avail"
    BY <1>7 DEF AvailMem
  <2>2. CASE OpTo(l, [Idle EXCEPT !.out = "limit"]) \/ OpTo(l, [Idle EXCEPT !.out = "error"])
    BY <1>3, <1>4, <2>1, <2>2
  <2>3. CASE /\ OpTo(l, [o EXCEPT !.pc = "get"])
             /\ ~(MemLimit > 0 /\ o.msg.size > MemLimit - AuthorMem(o.evt.author))
    <3> DEFINE q == [o EXCEPT !.pc = "get"]
    <3>1. q \in Operations /\ q.pc = "get" /\ q.evt = o.evt /\ q.msg = o.msg
      BY <1>2 DEF Operations
    <3>2. OpTo(l, q)
      BY <2>3
    <3> HIDE DEF q
    <3>3. ASSUME NEW a \in Authors \ adrift, q.evt.author = a, MemLimit > 0
          PROVE  Usage(a) + q.msg.size <= MemLimit
      <4>1. Usage(a) <= AuthorMem(a) /\ Usage(a) \in Nat /\ AuthorMem(a) \in Nat
        BY <2>1, UsageCovered
      <4>2. MemLimit \in Nat /\ o.msg.size \in Nat
        BY <1>2, <2>1, RedisSizes, EventStoreRedisAssumption
      <4>3. ~(o.msg.size > MemLimit - AuthorMem(a))
        BY <2>3, <3>1, <3>3
      <4> QED BY <3>1, <4>1, <4>2, <4>3
    <3> QED BY <1>0, <2>1, <3>1, <3>2, <3>3
  <2> QED BY <1>7, <2>2, <2>3 DEF AvailMem
<1>8. CASE GetPrev(l)
  <2> DEFINE prev == stored[o.evt]
  <2>1. o.pc = "get" /\ o.evt \in RdEvents /\ prev \in RdMsgs \cup {NoValue}
    BY <1>2, <1>8 DEF GetPrev, MemInd, RDTypeOK
  <2>2. CASE OpTo(l, [Idle EXCEPT !.out = "older"]) \/ OpTo(l, [Idle EXCEPT !.out = "error"])
    BY <1>3, <1>4, <2>1, <2>2
  <2>3. CASE OpTo(l, [o EXCEPT !.pc = "incr", !.seen = {prev}])
    <3> DEFINE q == [o EXCEPT !.pc = "incr", !.seen = {prev}]
    <3>1. q \in Operations /\ q.pc = "incr" /\ q.evt = o.evt /\ q.msg = o.msg /\ q.seen = {stored[q.evt]}
      BY <1>2, <2>1 DEF Operations
    <3>2. OpTo(l, q)
      BY <2>3
    <3> HIDE DEF q
    <3>3. \A a \in Authors \ adrift :
             q.evt.author = a /\ MemLimit > 0 => Usage(a) + q.msg.size <= MemLimit
      BY <2>1, <3>1 DEF MemInd, Room
    <3> QED BY <1>0, <2>1, <3>1, <3>2, <3>3
  <2> QED BY <1>8, <2>2, <2>3 DEF GetPrev
<1>9. CASE IncrMemUsage(l)
  <2>1. o.pc = "incr" /\ UNCHANGED <<rdTime, stored, keyTTL, rdDone>> /\ MemLimit # 0
    BY <1>2, <1>9, IncrCases, EventStoreRedisAssumption
  <2>2. CASE /\ GoesOn(l) /\ adrift' = adrift
             /\ (Diff(op[l]) = 0 /\ mem' = mem /\ memTTL' = memTTL) \/ Counted(l)
    BY <1>1, <2>1, <2>2, IncrKeeps
  <2>3. CASE Breaks(l) /\ adrift' = adrift /\ mem' = mem /\ memTTL' = memTTL
    BY <1>3, <1>4, <2>1, <2>3 DEF Breaks, OpTo
  <2>4. CASE Breaks(l) /\ (Increased(l) \/ Counted(l)) /\ Drifts(op[l].evt.author, Diff(op[l]) < 0)
    BY <1>1, <2>1, <2>4, IncrBreaks
  <2> QED BY <1>2, <1>9, <2>1, <2>2, <2>3, <2>4, IncrCases
<1>10. CASE SetValue(l)
  BY <1>1, <1>10, SetValueKeeps
<1>11. CASE ExpireKey(l)
  <2>1. CASE adrift' = adrift /\ ExpirySet(l)
    BY <1>1, <1>11, <2>1, ExpireKeyKeeps
  \* The key of a message that was not written keeps the expiry that it has.
  <2>2. CASE /\ stored' = stored /\ keyTTL' = keyTTL
             /\ Drifts(o.evt.author, stored[o.evt] # NoValue /\ keyTTL[o.evt] = Never)
    <3> DEFINE q == [Idle EXCEPT !.out = "added"]
    <3>1. /\ q \in Operations /\ q.pc = "idle" /\ op' = [op EXCEPT ![l] = q] /\ o.pc = "expire"
          /\ rdTime' = rdTime /\ rdDone' = rdDone /\ mem' = mem /\ memTTL' = memTTL
      BY <1>4, <1>11 DEF ExpireKey
    <3>2. /\ mem \in [MemKeys -> Int] /\ memTTL \in [MemKeys -> Nat]
          /\ \A k \in MemKeys : memTTL[k] \in {Never, MemExpiry(k)}
          /\ \A k \in MemKeys : k[1] \notin adrift => mem[k] \in Nat /\ mem[k] <= mem[k]
      <4>1. \A k \in MemKeys : k[1] \notin adrift => mem[k] \in Nat
        BY MemTypes DEF GoodKeys
      <4> QED BY <4>1 DEF MemInd, RDTypeOK, CountersExpire
    <3>3. adrift \subseteq adrift' /\ \A e \in RdEvents : JustSet(l, e) => e.author \in adrift'
      BY <2>2 DEF Drifts, JustSet
    <3> HIDE DEF q
    <3> QED BY <1>1, <2>2, <3>1, <3>2, <3>3, OpOnlyKeeps
  <2> QED BY <1>11, <2>1, <2>2 DEF ExpireKey, ExpirySet
<1>12. CASE GetScan(l)
  <2> DEFINE q == [Idle EXCEPT !.pc = "mget", !.seen = {e \in RdEvents : stored[e] # NoValue}]
  <2>1. q \in Operations /\ q.pc = "mget"
    BY DEF Idle, Operations
  <2> HIDE DEF q
  <2>2. OpTo(l, q) /\ o.pc = "idle"
    BY <1>12 DEF GetScan, q
  <2> QED BY <1>3, <2>1, <2>2
<1>13. CASE GetValues(l)
  BY <1>3, <1>4, <1>13 DEF GetValues
<1>14. CASE RDCancel \/ UNCHANGED rdVars
  BY <1>1, <1>14, RedisIdleKeeps
<1> QED BY <1>5, <1>6, <1>7, <1>8, <1>9, <1>10, <1>11, <1>12, <1>13, <1>14 DEF RDNext

LEMMA MemInitially == ASSUME NEW l, Lairs = {l}, RDInit PROVE MemInd(l)
<1>1. /\ rdTime = 0 /\ stored = [e \in RdEvents |-> NoValue] /\ keyTTL = [e \in RdEvents |-> Never]
      /\ mem = [k \in MemKeys |-> 0] /\ memTTL = [k \in MemKeys |-> Never] /\ op = [x \in Lairs |-> Idle] /\ adrift = {} /\ rdDone = FALSE
  BY DEF RDInit
<1>2. Idle \in Operations /\ Idle.pc = "idle"
  BY DEF Idle, Operations
<1>3. RedisInd /\ op[l] = Idle
  BY <1>1, <1>2 DEF RedisInd
<1>4. RDTypeOK
  <2>1. rdTime \in 0..RdMaxTime /\ Never \in Nat
    BY <1>1, EventStoreRedisAssumption DEF Never
  <2>2. \A x \in Lairs : op[x] = Idle
    BY <1>1
  <2>3. /\ stored \in [RdEvents -> RdMsgs \cup {NoValue}] /\ keyTTL \in [RdEvents -> Nat]
        /\ mem \in [MemKeys -> Int] /\ memTTL \in [MemKeys -> Nat]
    BY <1>1, <2>1
  <2> QED BY <1>1, <1>2, <2>1, <2>2, <2>3 DEF RDTypeOK
<1>5. KeysExpire(l) /\ SeenIs(l) /\ SetKept(l) /\ Room(l)
  BY <1>1, <1>2, <1>3 DEF KeysExpire, SeenIs, SetKept, Room
<1>6. CountersExpire
  BY <1>1 DEF CountersExpire, GoodKeys
<1>7. ASSUME NEW S, S \subseteq RdEvents, NEW f, \A e \in S : f[e] = 0 PROVE SumOver(f, S) = 0
  <2>1. IsFiniteSet(S) /\ IsFiniteSet({}) /\ Cardinality({}) = 0
    BY <1>7, RedisFinite, FS_Subset, FS_EmptySet
  <2>2. \A e \in S : 1..f[e] = {}
    BY <1>7
  <2>3. Units(f, S) = {}
    BY <2>2 DEF Units
  <2>4. SumOver(f, S) = Cardinality(Units(f, S))
    BY <1>7, <2>1, UnitsCounted
  <2> QED BY <2>1, <2>3, <2>4
<1>8. Covered(l)
  <2> SUFFICES ASSUME NEW Q \in SUBSET GoodKeys
               PROVE  SumOver(Charges(l), EventsOf(Q)) <= SumOver(mem, Q)
    BY DEF Covered, CoveredBy
  <2>1. Q \in SUBSET MemKeys /\ EventsOf(Q) \subseteq RdEvents
    BY DEF GoodKeys, EventsOf
  <2>2. \A e \in RdEvents : Charges(l)[e] = 0
    BY <1>1, <1>2, <1>3, RedisSizes DEF Charges, ChargeOf
  <2>3. SumOver(Charges(l), EventsOf(Q)) = 0
    BY <1>7, <2>1, <2>2
  <2>4. SumOver(mem, Q) \in Nat
    <3>1. IsFiniteSet(Q) /\ \A k \in Q : mem[k] \in Nat
      BY <1>1, <2>1, RedisFinite
    <3> QED BY <3>1, UnitsCounted
  <2> QED BY <2>3, <2>4
<1>9. LimitKept
  <2> SUFFICES ASSUME NEW a \in Authors, MemLimit > 0 PROVE Usage(a) <= MemLimit
    BY DEF LimitKept
  <2> DEFINE s == [e \in RdEvents |-> stored[e].size]
             E == {e \in RdEvents : e.author = a}
  <2>1. E \subseteq RdEvents /\ \A e \in E : s[e] = 0
    BY <1>1, RedisSizes
  <2>2. Usage(a) = SumOver(s, E)
    BY DEF Usage
  <2> HIDE DEF s, E
  <2>3. SumOver(s, E) = 0
    BY <1>7, <2>1
  <2> QED BY <2>2, <2>3, EventStoreRedisAssumption
<1> QED BY <1>3, <1>4, <1>5, <1>6, <1>8, <1>9 DEF MemInd

\* With one lair and a limit, whatever expires and whichever command of Add fails,
\* or is done although it fails: the counters of an author never fall behind what
\* his messages take, and he never takes more memory than the limit (Add with
\* getAvailMem and incrMemUsage of the Redis storage), for any events, sizes,
\* quantum and time to live; until one of the failures that Drifts records.
THEOREM RedisWithinLimit ==
    ASSUME NEW l, Lairs = {l}, MemLimit > 0
    PROVE  RDSpec => []MemoryWithinLimit
<1>1. RDInit => MemInd(l)
  BY MemInitially
<1>2. MemInd(l) /\ [RDNext]_rdVars => MemInd(l)'
  BY MemStep
<1>3. MemInd(l) => MemoryWithinLimit
  <2> SUFFICES ASSUME MemInd(l) PROVE MemoryAccounted
    BY DEF MemoryWithinLimit, MemInd
  <2> SUFFICES ASSUME NEW a \in Authors, a \notin adrift, AddingFor(a) = {}
               PROVE  Usage(a) <= AuthorMem(a)
    BY DEF MemoryAccounted
  <2>1. op[l].pc \in {"set", "expire"} => op[l].evt.author # a
    BY DEF AddingFor
  <2> QED BY <2>1, UsageCovered
<1> QED BY <1>1, <1>2, <1>3, PTL DEF RDSpec

-----------------------------------------------------------------------------
(* TeleportStarknet: which events are sent *)

Txs == [id : Nat, event : TxEvents]
TxsOf(n) == IF n \in 1..SnMaxBlock THEN ToSet(SnTxs[n]) ELSE {}
Blocks == [number : Nat, status : {"none", "ACCEPTED", "PENDING"}, txs : SUBSET Txs]
Walks == [pc : {"start", "wait", "loop", "process", "done"}, bn : Nat, last : Nat, block : Blocks]

\* Types, in more detail than SNTypeOK.
SNTypes ==
    /\ snHead \in SnStart..SnMaxBlock /\ snShown \in 0..Len(PendingTxs)
    /\ snDone \in BOOLEAN /\ snFirst \in Nat
    /\ walk \in [SnRoutines -> Walks]
    /\ holder \in SnRoutines \cup {"none"}
    /\ out \subseteq Txs /\ pendingTxs \subseteq Txs
    /\ pendingParent \in 0..snHead
    /\ snSent \in [SnRoutines -> SUBSET Txs]

\* The mutex is held by a routine that works on a block.
HolderWorks ==
    /\ holder = "none" => out = {}
    /\ holder # "none" => walk[holder].pc = "process"

\* The pending routine works on a block that is not older than the last one it
\* worked on; ...
PendingWalk ==
    LET w == walk["pending"] IN
    /\ w.pc \in {"wait", "process", "done"} /\ w.bn = 0 /\ w.last = 0
    /\ w.pc = "process" => /\ w.block.status = "PENDING"
                           /\ w.block.number \in (pendingParent + 1)..(snHead + 1)
                           /\ w.block.txs \subseteq TxsOf(w.block.number)

\* ... what it has sent is of that block or earlier ones, and remembered if it
\* is of that block; what it has left to send it has not sent.
PendingSent ==
    /\ \A tx \in snSent["pending"] :
        /\ \E n \in 1..(pendingParent + 1) : tx \in TxsOf(n)
        /\ tx \in TxsOf(pendingParent + 1) => tx \in pendingTxs
    /\ holder = "pending" => /\ out \subseteq TxsOf(pendingParent + 1) \cap pendingTxs
                             /\ out \cap snSent["pending"] = {}

\* The events of the blocks after the start of the accepted routine, up to k.
AcceptedUpTo(k) == UNION {Teleports(n) : n \in (snFirst + 1)..k}

\* The accepted routine has sent the events of the blocks below the one that it
\* works on.
AcceptedWalk ==
    LET w == walk["accepted"] IN
    /\ w.last <= snHead /\ w.bn <= w.last + 1
    /\ w.pc = "start" => snSent["accepted"] = {} /\ w.bn = 0 /\ w.last = 0
    /\ w.pc = "wait" => snFirst <= w.last /\ snSent["accepted"] = AcceptedUpTo(w.last)
    /\ w.pc \in {"loop", "process"} => snFirst + 1 <= w.bn
    /\ w.pc = "process" => w.bn <= w.last /\ w.block = AcceptedBlock(w.bn)
    /\ w.pc = "loop" \/ (w.pc = "process" /\ holder # "accepted") =>
        snSent["accepted"] = AcceptedUpTo(w.bn - 1)
    /\ holder = "accepted" => snSent["accepted"] \cup out = AcceptedUpTo(w.bn)
    /\ w.pc = "done" => snDone

\* The prefetch routine has sent the events of the blocks from the one above
\* the one that it works on to the one that it began with.
PrefetchWalk ==
    LET w == walk["prefetch"] IN
    /\ w.pc \in {"start", "loop", "process", "done"}
    /\ w.last <= snHead /\ w.bn <= w.last
    /\ w.pc = "process" => w.bn \in 1..w.last /\ w.block = AcceptedBlock(w.bn)
    /\ w.pc \in {"loop", "process"} =>
        \A n \in (w.bn + 1)..w.last : Teleports(n) \subseteq snSent["prefetch"]
    /\ holder = "prefetch" => Teleports(w.bn) \subseteq snSent["prefetch"] \cup out

\* The inductive invariant of the Starknet provider.
SNInd ==
    /\ SNTypes /\ HolderWorks /\ PendingWalk /\ PendingSent
    /\ AcceptedWalk /\ PrefetchWalk /\ SnPrefetchCovers

\* Every initial state satisfies the inductive invariant.
LEMMA SNInitInd == SNInit => SNInd
<1> SUFFICES ASSUME SNInit PROVE SNInd
  OBVIOUS
<1>1. NoBlock \in Blocks
  BY DEF NoBlock, Blocks
<1>2. /\ walk["pending"] = [pc |-> "wait", bn |-> 0, last |-> 0, block |-> NoBlock]
      /\ walk["accepted"] = [pc |-> "start", bn |-> 0, last |-> 0, block |-> NoBlock]
      /\ walk["prefetch"] = [pc |-> IF SnPeriod = 0 THEN "done" ELSE "start",
                             bn |-> 0, last |-> 0, block |-> NoBlock]
      /\ \A r \in SnRoutines : snSent[r] = {}
  BY DEF SNInit, SnRoutines
<1>3. walk \in [SnRoutines -> Walks]
  BY <1>1 DEF SNInit, Walks
<1>4. SnMaxBlock \in Nat /\ Len(PendingTxs) \in Nat
  BY TeleportStarknetAssumption DEF SnMaxBlock, PendingTxs, SNInit
<1>5. SNTypes
  <2>1. snHead \in SnStart..SnMaxBlock /\ pendingParent \in 0..snHead
    BY <1>4, TeleportStarknetAssumption DEF SNInit
  <2>2. snShown \in 0..Len(PendingTxs)
    BY <1>4 DEF SNInit
  <2>3. snSent \in [SnRoutines -> SUBSET Txs]
    BY DEF SNInit
  <2>4. QED
    BY <1>3, <2>1, <2>2, <2>3 DEF SNInit, SNTypes
<1>6. HolderWorks /\ PendingWalk /\ PendingSent
  BY <1>2 DEF SNInit, HolderWorks, PendingWalk, PendingSent, SnRoutines
<1>7. AcceptedWalk /\ PrefetchWalk /\ SnPrefetchCovers
  BY <1>2, <1>4, TeleportStarknetAssumption
  DEF SNInit, AcceptedWalk, PrefetchWalk, SnPrefetchCovers, SnRoutines
<1>8. QED
  BY <1>5, <1>6, <1>7 DEF SNInd

\* The inductive invariant is stronger than the property of the runs.
LEMMA SNIndImplies == SNInd => TeleportsComplete
<1> SUFFICES ASSUME SNInd PROVE TeleportsComplete
  OBVIOUS
<1>1. \A r \in SnRoutines : walk[r] \in Walks
  BY DEF SNInd, SNTypes
<1>2. snHead \in Nat
  BY TeleportStarknetAssumption DEF SNInd, SNTypes, SnMaxBlock
<1>3. \A r \in SnRoutines : walk[r].bn \in 0..(snHead + 1) /\ walk[r].last \in 0..snHead
  BY <1>1, <1>2 DEF SNInd, PendingWalk, AcceptedWalk, PrefetchWalk, SnRoutines, Walks
<1>4. SNTypeOK
  BY <1>1, <1>3 DEF SNInd, SNTypes, SNTypeOK, HolderWorks, Walks
<1>5. PendingSentOnce /\ SnPrefetchCovers
  BY DEF SNInd, PendingSent, PendingSentOnce
<1>6. AcceptedComplete
  BY DEF SNInd, AcceptedWalk, AcceptedComplete, AcceptedUpTo
<1>7. QED
  BY <1>4, <1>5, <1>6 DEF TeleportsComplete

\* The chain grows, or the context ends, under routines that do not move.
LEMMA SNChainKeeps ==
    ASSUME SNInd, SnNewTx \/ SnAccept \/ SnCancel \/ UNCHANGED snVars PROVE SNInd'
<1>1. /\ UNCHANGED <<walk, snFirst, holder, out, pendingParent, pendingTxs, snSent>>
      /\ snDone => snDone'
      /\ snHead' = snHead \/ (snHead < SnMaxBlock /\ snHead' = snHead + 1)
  BY DEF SnNewTx, SnAccept, SnCancel, snVars
<1>2. /\ snHead \in Nat /\ snHead' \in Nat /\ snHead <= snHead' /\ snHead' <= SnMaxBlock
      /\ SnStart <= snHead' /\ SnMaxBlock \in Nat /\ pendingParent \in Nat
  BY <1>1, TeleportStarknetAssumption DEF SNInd, SNTypes, SnMaxBlock
<1>3. snShown' \in 0..Len(PendingTxs')
  <2>1. PendingTxs \in Seq(Txs) /\ PendingTxs' \in Seq(Txs)
    BY <1>2, TeleportStarknetAssumption DEF PendingTxs, Txs, SnMaxBlock
  <2>2. CASE SnAccept
    BY <2>1, <2>2 DEF SnAccept
  <2>3. CASE SnNewTx
    BY <2>1, <2>3 DEF SnNewTx, SNInd, SNTypes, PendingTxs
  <2>4. CASE SnCancel \/ UNCHANGED snVars
    BY <2>1, <2>4 DEF SnCancel, snVars, SNInd, SNTypes, PendingTxs
  <2>5. QED
    BY <2>2, <2>3, <2>4
<1>4. SNTypes'
  <2>1. snDone' \in BOOLEAN
    BY DEF SnNewTx, SnAccept, SnCancel, snVars, SNInd, SNTypes
  <2>2. QED
    BY <1>1, <1>2, <1>3, <2>1, TeleportStarknetAssumption DEF SNInd, SNTypes
<1>5. HolderWorks' /\ PendingSent'
  BY <1>1 DEF SNInd, HolderWorks, PendingSent
<1>6. PendingWalk'
  BY <1>1, <1>2 DEF SNInd, PendingWalk
<1>7. AcceptedWalk'
  <2>1. walk["accepted"].last \in Nat
    BY DEF SNInd, SNTypes, Walks, SnRoutines
  <2>2. QED
    BY <1>1, <1>2, <2>1 DEF SNInd, AcceptedWalk, AcceptedUpTo, AcceptedBlock
<1>8. PrefetchWalk' /\ SnPrefetchCovers'
  <2>1. walk["prefetch"].last \in Nat
    BY DEF SNInd, SNTypes, Walks, SnRoutines
  <2>2. PrefetchWalk'
    BY <1>1, <1>2, <2>1 DEF SNInd, PrefetchWalk, AcceptedBlock
  <2>3. SnPrefetchCovers'
    BY <1>1, <1>2, <2>1, TeleportStarknetAssumption DEF SNInd, SnPrefetchCovers
  <2>4. QED
    BY <2>2, <2>3
<1>9. QED
  BY <1>4, <1>5, <1>6, <1>7, <1>8 DEF SNInd

\* A routine that does not hold the mutex moves; the others stand still.
LEMMA SNWalkKeeps ==
    ASSUME SNInd, NEW r \in SnRoutines, NEW w \in Walks, WalkTo(r, w), holder # r,
           snFirst' \in Nat, r # "accepted" => snFirst' = snFirst
    PROVE  /\ SNTypes' /\ HolderWorks' /\ PendingSent' /\ walk'[r] = w
           /\ \A q \in SnRoutines \ {r} : walk'[q] = walk[q]
           /\ r # "pending" => PendingWalk'
           /\ r # "accepted" => AcceptedWalk'
           /\ r # "prefetch" => PrefetchWalk' /\ SnPrefetchCovers'
<1>1. /\ walk' = [walk EXCEPT ![r] = w]
      /\ UNCHANGED <<snHead, snShown, snDone, holder, out, pendingParent, pendingTxs, snSent>>
  BY DEF WalkTo
<1>2. walk \in [SnRoutines -> Walks] /\ PendingTxs' = PendingTxs
  BY <1>1 DEF SNInd, SNTypes, PendingTxs
<1>3. /\ walk'[r] = w /\ walk' \in [SnRoutines -> Walks]
      /\ \A q \in SnRoutines \ {r} : walk'[q] = walk[q]
  BY <1>1, <1>2
<1>4. SNTypes' /\ HolderWorks' /\ PendingSent'
  BY <1>1, <1>2, <1>3 DEF SNInd, SNTypes, HolderWorks, PendingSent
<1>5. r # "pending" => PendingWalk'
  BY <1>1, <1>3 DEF SNInd, PendingWalk, SnRoutines
<1>6. r # "accepted" => AcceptedWalk'
  BY <1>1, <1>3 DEF SNInd, AcceptedWalk, SnRoutines, AcceptedUpTo, AcceptedBlock
<1>7. r # "prefetch" => PrefetchWalk' /\ SnPrefetchCovers'
  BY <1>1, <1>3 DEF SNInd, PrefetchWalk, SnPrefetchCovers, SnRoutines, AcceptedBlock
<1>8. QED
  BY <1>3, <1>4, <1>5, <1>6, <1>7

\* One more block of the accepted routine.
LEMMA AcceptedOneMore ==
    ASSUME snFirst \in Nat, NEW k \in Nat, snFirst + 1 <= k
    PROVE  AcceptedUpTo(k) = AcceptedUpTo(k - 1) \cup Teleports(k)
<1>1. (snFirst + 1)..k = ((snFirst + 1)..(k - 1)) \cup {k}
  OBVIOUS
<1>2. QED
  BY <1>1 DEF AcceptedUpTo

\* The transactions of a block.
LEMMA TxsAreTxs == ASSUME NEW n PROVE TxsOf(n) \subseteq Txs
<1>1. CASE n \in 1..SnMaxBlock
  <2>1. SnTxs[n] \in Seq(Txs)
    BY <1>1, TeleportStarknetAssumption DEF SnMaxBlock, Txs
  <2>2. QED
    BY <1>1, <2>1 DEF TxsOf, ToSet
<1>2. QED
  BY <1>1 DEF TxsOf

\* A block of the chain is a block.
LEMMA AcceptedIsBlock ==
    ASSUME NEW n \in 1..SnMaxBlock
    PROVE  AcceptedBlock(n) \in Blocks /\ Teleports(n) \subseteq Txs
<1>1. ToSet(SnTxs[n]) \subseteq Txs
  BY TxsAreTxs DEF TxsOf
<1>2. n \in Nat
  BY TeleportStarknetAssumption DEF SnMaxBlock
<1>3. QED
  BY <1>1, <1>2 DEF AcceptedBlock, Blocks, Teleports, Emitted

\* The steps of the prefetch routine.
LEMMA SNPrefetchKeeps == ASSUME SNInd, SnPrefetches PROVE SNInd'
<1> DEFINE w == walk["prefetch"]
<1>1. /\ w \in Walks /\ "prefetch" \in SnRoutines /\ snHead \in Nat /\ SnMaxBlock \in Nat
      /\ snHead \in 1..SnMaxBlock /\ snFirst \in Nat
  BY TeleportStarknetAssumption DEF SNInd, SNTypes, SnRoutines, SnMaxBlock
<1>2. CASE PrefetchLatest
  <2> DEFINE v == [w EXCEPT !.pc = "loop", !.bn = snHead, !.last = snHead]
  <2>1. w.pc = "start" /\ WalkTo("prefetch", v) /\ snFirst' = snFirst
    BY <1>2 DEF PrefetchLatest
  <2>2. v \in Walks /\ v.pc = "loop" /\ v.bn = snHead /\ v.last = snHead
    BY <1>1 DEF Walks
  <2> HIDE DEF v
  <2>3. holder # "prefetch"
    BY <2>1 DEF SNInd, HolderWorks
  <2>4. /\ SNTypes' /\ HolderWorks' /\ PendingSent' /\ PendingWalk' /\ AcceptedWalk'
        /\ walk'["prefetch"] = v
    BY <1>1, <2>1, <2>2, <2>3, SNWalkKeeps
  <2>5. PrefetchWalk' /\ SnPrefetchCovers'
    BY <1>1, <2>1, <2>2, <2>3, <2>4 DEF PrefetchWalk, SnPrefetchCovers, WalkTo
  <2>6. QED
    BY <2>4, <2>5 DEF SNInd
<1>3. CASE PrefetchBlock
  <2>1. w.pc = "loop" /\ ~snDone /\ snFirst' = snFirst
    BY <1>3 DEF PrefetchBlock
  <2>2. holder # "prefetch"
    BY <2>1 DEF SNInd, HolderWorks
  <2>3. /\ w.last <= snHead /\ w.bn <= w.last /\ w.bn \in Nat /\ w.last \in Nat
        /\ \A n \in (w.bn + 1)..w.last : Teleports(n) \subseteq snSent["prefetch"]
    BY <1>1, <2>1 DEF SNInd, PrefetchWalk, Walks
  <2>4. CASE w.bn = 0 \/ snHead - w.bn > SnPeriod
    <3> DEFINE v == [w EXCEPT !.pc = "done"]
    <3>1. WalkTo("prefetch", v)
      BY <1>3, <2>4 DEF PrefetchBlock
    <3>2. v \in Walks /\ v.pc = "done" /\ v.bn = w.bn /\ v.last = w.last
      BY <1>1 DEF Walks
    <3> HIDE DEF v
    <3>3. /\ SNTypes' /\ HolderWorks' /\ PendingSent' /\ PendingWalk' /\ AcceptedWalk'
          /\ walk'["prefetch"] = v
      BY <1>1, <2>1, <2>2, <3>1, <3>2, SNWalkKeeps
    <3>4. UNCHANGED <<snHead, snDone, holder, out, snSent>>
      BY <3>1 DEF WalkTo
    <3>5. PrefetchWalk'
      BY <2>2, <2>3, <3>2, <3>3, <3>4 DEF PrefetchWalk
    <3>6. \A n \in 1..w.last : snHead - n <= SnPeriod => n \in (w.bn + 1)..w.last
      BY <1>1, <2>3, <2>4, TeleportStarknetAssumption
    <3>7. SnPrefetchCovers'
      BY <2>3, <3>2, <3>3, <3>4, <3>6 DEF SnPrefetchCovers
    <3>8. QED
      BY <3>3, <3>5, <3>7 DEF SNInd
  <2>5. CASE ~(w.bn = 0 \/ snHead - w.bn > SnPeriod)
    <3> DEFINE v == [w EXCEPT !.pc = "process", !.block = AcceptedBlock(w.bn)]
    <3>1. WalkTo("prefetch", v)
      BY <1>3, <2>5 DEF PrefetchBlock
    <3>2. w.bn \in 1..w.last /\ w.bn \in 1..SnMaxBlock
      BY <1>1, <2>3, <2>5
    <3>3. /\ v \in Walks /\ v.pc = "process" /\ v.bn = w.bn /\ v.last = w.last
          /\ v.block = AcceptedBlock(w.bn)
      BY <1>1, <3>2, AcceptedIsBlock DEF Walks
    <3> HIDE DEF v
    <3>4. /\ SNTypes' /\ HolderWorks' /\ PendingSent' /\ PendingWalk' /\ AcceptedWalk'
          /\ walk'["prefetch"] = v
      BY <1>1, <2>1, <2>2, <3>1, <3>3, SNWalkKeeps
    <3>5. UNCHANGED <<snHead, snDone, holder, out, snSent>>
      BY <3>1 DEF WalkTo
    <3>6. PrefetchWalk' /\ SnPrefetchCovers'
      BY <2>2, <2>3, <3>2, <3>3, <3>4, <3>5 DEF PrefetchWalk, AcceptedBlock, SnPrefetchCovers
    <3>7. QED
      BY <3>4, <3>6 DEF SNInd
  <2>6. QED
    BY <2>4, <2>5
<1>4. QED
  BY <1>2, <1>3 DEF SnPrefetches

\* A tick of the pending routine fetches the pending block.
LEMMA SNPendingKeeps == ASSUME SNInd, PendingTick PROVE SNInd'
<1> DEFINE w == walk["pending"]
           v == [w EXCEPT !.pc = "process", !.block = PendingBlock]
<1>1. w.pc = "wait" /\ WalkTo("pending", v) /\ snFirst' = snFirst
  BY DEF PendingTick
<1>2. /\ w \in Walks /\ "pending" \in SnRoutines /\ snHead \in 1..SnMaxBlock /\ SnMaxBlock \in Nat
      /\ snFirst \in Nat
  BY TeleportStarknetAssumption DEF SNInd, SNTypes, SnRoutines, SnMaxBlock
<1>3. /\ PendingBlock.number = snHead + 1 /\ PendingBlock.status = "PENDING"
      /\ PendingBlock.txs \subseteq TxsOf(snHead + 1)
  <2>1. CASE snHead < SnMaxBlock
    <3>1. PendingTxs = SnTxs[snHead + 1] /\ snHead + 1 \in 1..SnMaxBlock
      BY <1>2, <2>1 DEF PendingTxs
    <3>2. SnTxs[snHead + 1] \in Seq(Txs)
      BY <3>1, TeleportStarknetAssumption DEF SnMaxBlock, Txs
    <3>3. \A i \in 1..snShown : i \in DOMAIN SnTxs[snHead + 1]
      BY <3>1, <3>2 DEF SNInd, SNTypes
    <3>4. QED
      BY <3>1, <3>3 DEF PendingBlock, TxsOf, ToSet
  <2>2. CASE ~(snHead < SnMaxBlock)
    <3>1. Len(<< >>) = 0 /\ PendingTxs = << >>
      BY <2>2 DEF PendingTxs
    <3>2. snShown = 0
      BY <3>1 DEF SNInd, SNTypes
    <3>3. QED
      BY <3>2 DEF PendingBlock
  <2>3. QED
    BY <2>1, <2>2
<1>4. PendingBlock \in Blocks
  <2>1. TxsOf(snHead + 1) \subseteq Txs
    BY TxsAreTxs
  <2>2. QED
    BY <1>2, <1>3, <2>1 DEF PendingBlock, Blocks
<1>5. /\ v \in Walks /\ v.pc = "process" /\ v.bn = w.bn /\ v.last = w.last
      /\ v.block = PendingBlock
  BY <1>2, <1>4 DEF Walks
<1> HIDE DEF v
<1>6. holder # "pending"
  BY <1>1 DEF SNInd, HolderWorks
<1>7. /\ SNTypes' /\ HolderWorks' /\ PendingSent' /\ AcceptedWalk' /\ PrefetchWalk'
      /\ SnPrefetchCovers' /\ walk'["pending"] = v
  BY <1>1, <1>2, <1>5, <1>6, SNWalkKeeps
<1>8. PendingWalk'
  <2>1. pendingParent' = pendingParent /\ snHead' = snHead
    BY <1>1 DEF WalkTo
  <2>2. snHead + 1 \in (pendingParent + 1)..(snHead + 1)
    BY <1>2 DEF SNInd, SNTypes
  <2>3. QED
    BY <1>3, <1>5, <1>7, <2>1, <2>2 DEF SNInd, PendingWalk
<1>9. QED
  BY <1>7, <1>8 DEF SNInd

\* The steps of the accepted routine.
LEMMA SNAcceptsKeeps == ASSUME SNInd, SnAccepts PROVE SNInd'
<1> DEFINE w == walk["accepted"]
<1>1. /\ w \in Walks /\ "accepted" \in SnRoutines /\ snHead \in Nat /\ SnMaxBlock \in Nat
      /\ snHead \in 1..SnMaxBlock /\ snFirst \in Nat /\ w.bn \in Nat /\ w.last \in Nat
  BY TeleportStarknetAssumption DEF SNInd, SNTypes, SnRoutines, SnMaxBlock, Walks
<1>2. w.pc # "process" => holder # "accepted"
  BY DEF SNInd, HolderWorks
<1>3. ASSUME NEW v \in Walks, WalkTo("accepted", v), w.pc # "process", snFirst' \in Nat,
             AcceptedWalk'
      PROVE  SNInd'
  BY <1>1, <1>2, <1>3, SNWalkKeeps DEF SNInd
<1>4. ASSUME NEW v \in Walks, WalkTo("accepted", v)
      PROVE  walk'["accepted"] = v /\ UNCHANGED <<snHead, snDone, holder, out, snSent>>
  BY <1>1, <1>4 DEF WalkTo, SNInd, SNTypes
<1>5. CASE AcceptedLatest
  <2> DEFINE v == [w EXCEPT !.pc = "wait", !.last = snHead]
  <2>1. w.pc = "start" /\ WalkTo("accepted", v) /\ snFirst' = snHead
    BY <1>5 DEF AcceptedLatest
  <2>2. v \in Walks /\ v.pc = "wait" /\ v.bn = w.bn /\ v.last = snHead
    BY <1>1 DEF Walks
  <2> HIDE DEF v
  <2>3. walk'["accepted"] = v /\ UNCHANGED <<snHead, snDone, holder, out, snSent>>
    BY <1>4, <2>1, <2>2
  <2>4. snSent["accepted"] = {} /\ w.bn = 0 /\ holder # "accepted"
    BY <1>2, <2>1 DEF SNInd, AcceptedWalk
  <2>5. AcceptedUpTo(snHead)' = {}
    <3>1. (snHead + 1)..snHead = {}
      BY <1>1
    <3>2. QED
      BY <2>1, <2>3, <3>1 DEF AcceptedUpTo
  <2>6. AcceptedWalk'
    BY <1>1, <2>1, <2>2, <2>3, <2>4, <2>5 DEF AcceptedWalk
  <2>7. QED
    BY <1>1, <1>3, <2>1, <2>2, <2>6
<1>6. CASE AcceptedTick
  <2> DEFINE v == [w EXCEPT !.pc = "loop", !.bn = w.last + 1, !.last = snHead]
  <2>1. w.pc = "wait" /\ WalkTo("accepted", v) /\ snFirst' = snFirst /\ snHead > w.last
    BY <1>6 DEF AcceptedTick
  <2>2. v \in Walks /\ v.pc = "loop" /\ v.bn = w.last + 1 /\ v.last = snHead
    <3>1. w.last + 1 \in Nat
      BY <1>1
    <3>2. QED
      BY <1>1, <3>1 DEF Walks
  <2> HIDE DEF v
  <2>3. walk'["accepted"] = v /\ UNCHANGED <<snHead, snDone, holder, out, snSent>>
    BY <1>4, <2>1, <2>2
  <2>4. snSent["accepted"] = AcceptedUpTo(w.last) /\ snFirst <= w.last /\ holder # "accepted"
    BY <1>2, <2>1 DEF SNInd, AcceptedWalk
  <2>5. v.bn - 1 = w.last /\ snFirst + 1 <= v.bn /\ v.bn <= v.last + 1
    BY <1>1, <2>1, <2>2, <2>4
  <2>6. AcceptedWalk'
    BY <1>1, <2>1, <2>2, <2>3, <2>4, <2>5 DEF AcceptedWalk, AcceptedUpTo
  <2>7. QED
    BY <1>1, <1>3, <2>1, <2>2, <2>6
<1>7. CASE AcceptedBlockFetched
  <2>1. w.pc = "loop" /\ snFirst' = snFirst
    BY <1>7 DEF AcceptedBlockFetched
  <2>2. /\ holder # "accepted" /\ snSent["accepted"] = AcceptedUpTo(w.bn - 1)
        /\ snFirst + 1 <= w.bn /\ w.bn <= w.last + 1 /\ w.last <= snHead
    BY <1>2, <2>1 DEF SNInd, AcceptedWalk
  <2>3. CASE w.bn <= w.last
    <3> DEFINE v == [w EXCEPT !.pc = "process", !.block = AcceptedBlock(w.bn)]
    <3>1. WalkTo("accepted", v)
      BY <1>7, <2>3 DEF AcceptedBlockFetched
    <3>2. w.bn \in 1..SnMaxBlock
      BY <1>1, <2>2, <2>3
    <3>3. /\ v \in Walks /\ v.pc = "process" /\ v.bn = w.bn /\ v.last = w.last
          /\ v.block = AcceptedBlock(w.bn)
      BY <1>1, <3>2, AcceptedIsBlock DEF Walks
    <3> HIDE DEF v
    <3>4. walk'["accepted"] = v /\ UNCHANGED <<snHead, snDone, holder, out, snSent>>
      BY <1>4, <3>1, <3>3
    <3>5. AcceptedWalk'
      BY <2>1, <2>2, <2>3, <3>3, <3>4 DEF AcceptedWalk, AcceptedUpTo, AcceptedBlock
    <3>6. QED
      BY <1>1, <1>3, <2>1, <3>1, <3>3, <3>5
  <2>4. CASE ~(w.bn <= w.last)
    <3> DEFINE v == [w EXCEPT !.pc = "wait"]
    <3>1. WalkTo("accepted", v)
      BY <1>7, <2>4 DEF AcceptedBlockFetched
    <3>2. v \in Walks /\ v.pc = "wait" /\ v.bn = w.bn /\ v.last = w.last
      BY <1>1 DEF Walks
    <3> HIDE DEF v
    <3>3. walk'["accepted"] = v /\ UNCHANGED <<snHead, snDone, holder, out, snSent>>
      BY <1>4, <3>1, <3>2
    <3>4. w.bn - 1 = w.last /\ snFirst <= w.last
      BY <1>1, <2>2, <2>4
    <3>5. AcceptedWalk'
      BY <2>1, <2>2, <3>2, <3>3, <3>4 DEF AcceptedWalk, AcceptedUpTo
    <3>6. QED
      BY <1>1, <1>3, <2>1, <3>1, <3>2, <3>5
  <2>5. QED
    BY <2>3, <2>4
<1>8. QED
  BY <1>5, <1>6, <1>7 DEF SnAccepts

\* A routine stops; it does not hold the mutex.
LEMMA SNStopKeeps == ASSUME SNInd, NEW r \in SnRoutines, SnStop(r) PROVE SNInd'
<1> DEFINE v == [walk[r] EXCEPT !.pc = "done"]
<1>1. /\ snDone /\ walk[r].pc \notin {"process", "done"} /\ WalkTo(r, v) /\ snFirst' = snFirst
      /\ walk[r] \in Walks /\ snFirst \in Nat
  BY DEF SnStop, SNInd, SNTypes
<1>2. v \in Walks /\ v.pc = "done" /\ v.bn = walk[r].bn /\ v.last = walk[r].last
  BY <1>1 DEF Walks
<1> HIDE DEF v
<1>3. holder # r
  BY <1>1 DEF SNInd, HolderWorks, SnRoutines
<1>4. /\ SNTypes' /\ HolderWorks' /\ PendingSent' /\ walk'[r] = v
      /\ r # "pending" => PendingWalk'
      /\ r # "accepted" => AcceptedWalk'
      /\ r # "prefetch" => PrefetchWalk' /\ SnPrefetchCovers'
  BY <1>1, <1>2, <1>3, SNWalkKeeps
<1>5. UNCHANGED <<snHead, snDone, holder, out, snSent>>
  BY <1>1 DEF WalkTo
<1>6. r = "pending" => PendingWalk'
  BY <1>2, <1>4 DEF SNInd, PendingWalk
<1>7. r = "accepted" => AcceptedWalk'
  BY <1>1, <1>2, <1>3, <1>4, <1>5 DEF SNInd, AcceptedWalk
<1>8. r = "prefetch" => PrefetchWalk' /\ SnPrefetchCovers'
  BY <1>1, <1>2, <1>3, <1>4, <1>5 DEF SNInd, PrefetchWalk, SnPrefetchCovers
<1>9. QED
  BY <1>4, <1>6, <1>7, <1>8 DEF SNInd

\* processBlock begins: of a pending block what it has not seen is sent, of
\* an accepted one everything.
LEMMA SNProcessKeeps == ASSUME SNInd, NEW r \in SnRoutines, Process(r) PROVE SNInd'
<1> DEFINE b == walk[r].block
           seen == IF pendingParent = b.number - 1 THEN pendingTxs ELSE {}
<1>1. /\ walk[r].pc = "process" /\ holder = "none" /\ holder' = r /\ out = {}
      /\ UNCHANGED <<snHead, snShown, snDone, walk, snFirst, snSent>>
  BY DEF Process, SNInd, HolderWorks
<1>2. /\ b \in Blocks /\ pendingParent \in Nat /\ snHead \in Nat /\ snFirst \in Nat
      /\ SnMaxBlock \in Nat /\ snHead <= SnMaxBlock
      /\ PendingTxs' = PendingTxs
  BY <1>1, TeleportStarknetAssumption DEF SNInd, SNTypes, Walks, SnMaxBlock, PendingTxs
<1>3. CASE r = "pending"
  <2>1. /\ b.status = "PENDING" /\ b.number \in (pendingParent + 1)..(snHead + 1)
        /\ b.txs \subseteq TxsOf(b.number) /\ b.number \in Nat
    BY <1>1, <1>2, <1>3 DEF SNInd, PendingWalk
  <2>2. /\ pendingParent' = b.number - 1 /\ pendingTxs' = seen \cup b.txs
        /\ out' = Emitted(b.txs \ seen)
    BY <2>1 DEF Process
  <2>3. /\ pendingParent' + 1 = b.number /\ pendingParent' \in 0..snHead /\ out' \subseteq b.txs
        /\ out' \cap seen = {} /\ pendingParent <= pendingParent'
    BY <1>2, <2>1, <2>2 DEF Emitted
  <2>4. SNTypes'
    BY <1>1, <1>2, <2>2, <2>3 DEF SNInd, SNTypes, Blocks
  <2>5. HolderWorks'
    BY <1>1, <1>3 DEF HolderWorks, SnRoutines
  <2>6. PendingWalk'
    <3>1. b.number \in (pendingParent' + 1)..(snHead + 1)
      BY <1>2, <2>1, <2>3
    <3>2. QED
      BY <1>1, <1>3, <2>1, <3>1 DEF SNInd, PendingWalk
  <2>7. ASSUME NEW tx \in snSent["pending"]
        PROVE  /\ \E n \in 1..(pendingParent' + 1) : tx \in TxsOf(n)
               /\ tx \in TxsOf(b.number) => tx \in seen
    <3>1. PICK n \in 1..(pendingParent + 1) : tx \in TxsOf(n)
      BY DEF SNInd, PendingSent
    <3>2. n \in 1..(pendingParent' + 1)
      BY <1>2, <2>1, <2>2, <3>1
    <3>3. ASSUME tx \in TxsOf(b.number) PROVE tx \in seen
      <4>1. n = b.number
        <5>1. n \in 1..SnMaxBlock /\ b.number \in 1..SnMaxBlock
          BY <3>1, <3>3 DEF TxsOf
        <5>2. QED
          BY <3>1, <3>3, <5>1, TeleportStarknetAssumption DEF TxsOf
      <4>2. pendingParent = b.number - 1 /\ pendingParent + 1 = b.number
        BY <1>2, <2>1, <4>1
      <4>3. tx \in pendingTxs
        BY <3>3, <4>2 DEF SNInd, PendingSent
      <4>4. QED
        BY <4>2, <4>3
    <3>4. QED
      BY <3>1, <3>2, <3>3
  <2>8. PendingSent'
    <3>1. out' \cap snSent["pending"] = {}
      BY <2>1, <2>3, <2>7
    <3>2. out' \subseteq TxsOf(b.number) \cap pendingTxs'
      BY <2>1, <2>2, <2>3
    <3>3. QED
      BY <1>1, <2>2, <2>3, <2>7, <3>1, <3>2 DEF PendingSent
  <2>9. AcceptedWalk' /\ PrefetchWalk' /\ SnPrefetchCovers'
    BY <1>1, <1>3
    DEF SNInd, AcceptedWalk, PrefetchWalk, SnPrefetchCovers, AcceptedUpTo, AcceptedBlock
  <2>10. QED
    BY <2>4, <2>5, <2>6, <2>8, <2>9 DEF SNInd
<1>4. CASE r \in {"accepted", "prefetch"}
  <2> DEFINE k == walk[r].bn
  <2>1. b = AcceptedBlock(k) /\ k \in 1..walk[r].last /\ walk[r].last <= snHead
    <3>1. walk[r] \in Walks
      BY DEF SNInd, SNTypes
    <3>2. CASE r = "accepted"
      BY <1>1, <1>2, <3>1, <3>2 DEF SNInd, AcceptedWalk, Walks
    <3>3. CASE r = "prefetch"
      BY <1>1, <3>1, <3>3 DEF SNInd, PrefetchWalk
    <3>4. QED
      BY <1>4, <3>2, <3>3
  <2>2. k \in 1..SnMaxBlock /\ k \in Nat
    <3>1. walk[r].last \in Nat
      BY DEF SNInd, SNTypes, Walks
    <3>2. QED
      BY <1>2, <2>1, <3>1
  <2>3. b.status = "ACCEPTED" /\ Emitted(b.txs) = Teleports(k)
    BY <2>1 DEF AcceptedBlock, Teleports
  <2>4. out' = Teleports(k) /\ pendingParent' = pendingParent /\ pendingTxs' = pendingTxs
    BY <2>3 DEF Process
  <2>5. out' \subseteq Txs
    BY <2>2, <2>4, AcceptedIsBlock
  <2>6. SNTypes'
    BY <1>1, <1>2, <2>4, <2>5 DEF SNInd, SNTypes
  <2>7. HolderWorks'
    BY <1>1, <1>4 DEF HolderWorks
  <2>8. PendingWalk' /\ PendingSent'
    BY <1>1, <1>4, <2>4 DEF SNInd, PendingWalk, PendingSent
  <2>9. AcceptedWalk'
    <3>1. CASE r = "accepted"
      <4>1. snSent["accepted"] = AcceptedUpTo(k - 1) /\ snFirst + 1 <= k
        BY <1>1, <3>1 DEF SNInd, AcceptedWalk
      <4>2. snSent["accepted"] \cup out' = AcceptedUpTo(k)
        BY <1>2, <2>2, <2>4, <4>1, AcceptedOneMore
      <4>3. QED
        BY <1>1, <3>1, <4>1, <4>2 DEF SNInd, AcceptedWalk, AcceptedUpTo, AcceptedBlock
    <3>2. CASE r # "accepted"
      BY <1>1, <3>2 DEF SNInd, AcceptedWalk, AcceptedUpTo, AcceptedBlock
    <3>3. QED
      BY <3>1, <3>2
  <2>10. PrefetchWalk' /\ SnPrefetchCovers'
    BY <1>1, <2>4 DEF SNInd, PrefetchWalk, SnPrefetchCovers, AcceptedBlock
  <2>11. QED
    BY <2>6, <2>7, <2>8, <2>9, <2>10 DEF SNInd
<1>5. QED
  BY <1>3, <1>4 DEF SnRoutines

\* An event goes from out to sent.
LEMMA SNSendKeeps == ASSUME SNInd, SnSend PROVE SNInd'
<1>1. PICK tx \in out : out' = out \ {tx} /\ snSent' = [snSent EXCEPT ![holder] = @ \cup {tx}]
  BY DEF SnSend
<1>2. /\ holder \in SnRoutines /\ tx \in Txs
      /\ UNCHANGED <<snHead, snShown, snDone, walk, snFirst, holder, pendingParent, pendingTxs>>
  BY <1>1 DEF SnSend, SNInd, SNTypes, HolderWorks
<1>3. /\ snSent'[holder] = snSent[holder] \cup {tx}
      /\ \A q \in SnRoutines \ {holder} : snSent'[q] = snSent[q]
      /\ \A q \in SnRoutines : snSent[q] \subseteq snSent'[q]
  BY <1>1, <1>2 DEF SNInd, SNTypes
<1>4. snSent'[holder] \cup out' = snSent[holder] \cup out
  BY <1>1, <1>3
<1>5. SNTypes' /\ HolderWorks'
  BY <1>1, <1>2 DEF SNInd, SNTypes, HolderWorks, PendingTxs
<1>6. PendingWalk'
  BY <1>2 DEF SNInd, PendingWalk
<1>7. PendingSent'
  <2>1. CASE holder = "pending"
    <3>1. tx \in TxsOf(pendingParent + 1) /\ tx \in pendingTxs /\ pendingParent + 1 \in 1..(pendingParent + 1)
      BY <2>1, TeleportStarknetAssumption DEF SNInd, SNTypes, PendingSent, SnMaxBlock
    <3>2. QED
      BY <1>1, <1>2, <1>3, <2>1, <3>1 DEF SNInd, PendingSent
  <2>2. CASE holder # "pending"
    BY <1>2, <1>3, <2>2 DEF SNInd, PendingSent, SnRoutines
  <2>3. QED
    BY <2>1, <2>2
<1>8. AcceptedWalk'
  <2>1. CASE holder = "accepted"
    <3>1. walk["accepted"].pc = "process"
      BY <1>2, <2>1 DEF SNInd, HolderWorks, SnRoutines
    <3>2. QED
      BY <1>2, <1>4, <2>1, <3>1 DEF SNInd, AcceptedWalk, AcceptedUpTo, AcceptedBlock
  <2>2. CASE holder # "accepted"
    BY <1>2, <1>3, <2>2 DEF SNInd, AcceptedWalk, AcceptedUpTo, AcceptedBlock, SnRoutines
  <2>3. QED
    BY <2>1, <2>2
<1>9. PrefetchWalk' /\ SnPrefetchCovers'
  <2>1. "prefetch" \in SnRoutines /\ snSent["prefetch"] \subseteq snSent'["prefetch"]
    BY <1>3 DEF SnRoutines
  <2>2. PrefetchWalk'
    BY <1>2, <1>4, <2>1 DEF SNInd, PrefetchWalk, AcceptedBlock
  <2>3. SnPrefetchCovers'
    BY <1>2, <2>1 DEF SNInd, SnPrefetchCovers
  <2>4. QED
    BY <2>2, <2>3
<1>10. QED
  BY <1>5, <1>6, <1>7, <1>8, <1>9 DEF SNInd

\* processBlock returns, and its routine goes to the next block.
LEMMA SNProcessedKeeps == ASSUME SNInd, Processed PROVE SNInd'
<1> DEFINE w == walk[holder]
           v == CASE holder = "pending"  -> [w EXCEPT !.pc = "wait", !.block = NoBlock]
                  [] holder = "prefetch" -> [w EXCEPT !.pc = "loop", !.block = NoBlock, !.bn = @ - 1]
                  [] holder = "accepted" -> [w EXCEPT !.pc = "loop", !.block = NoBlock, !.bn = @ + 1]
<1>1. /\ holder \in SnRoutines /\ out = {} /\ w.pc = "process" /\ w \in Walks
      /\ holder' = "none"
      /\ UNCHANGED <<snHead, snShown, snDone, snFirst, out, pendingParent, pendingTxs, snSent>>
  BY DEF Processed, SNInd, SNTypes, HolderWorks
<1>2. walk' = [walk EXCEPT ![holder] = v] /\ walk \in [SnRoutines -> Walks]
  BY DEF Processed, SNInd, SNTypes
<1>3. NoBlock \in Blocks /\ w.bn \in Nat /\ w.last \in Nat
  BY <1>1 DEF NoBlock, Blocks, Walks
<1>4. holder = "pending" => /\ v \in Walks /\ v.pc = "wait" /\ v.bn = w.bn /\ v.last = w.last
  BY <1>1, <1>3 DEF Walks
<1>5. holder = "prefetch" => /\ v \in Walks /\ v.pc = "loop" /\ v.bn = w.bn - 1 /\ v.last = w.last
                             /\ w.bn \in 1..w.last
  <2> HAVE holder = "prefetch"
  <2>1. w.bn \in 1..w.last
    BY <1>1 DEF SNInd, PrefetchWalk
  <2>2. w.bn - 1 \in Nat
    BY <1>3, <2>1
  <2>3. QED
    BY <1>1, <1>3, <2>1, <2>2 DEF Walks
<1>6. holder = "accepted" => /\ v \in Walks /\ v.pc = "loop" /\ v.bn = w.bn + 1 /\ v.last = w.last
  <2> HAVE holder = "accepted"
  <2>1. w.bn + 1 \in Nat
    BY <1>3
  <2>2. QED
    BY <1>1, <1>3, <2>1 DEF Walks
<1> HIDE DEF v
<1>7. /\ v \in Walks /\ walk' \in [SnRoutines -> Walks] /\ walk'[holder] = v
      /\ \A q \in SnRoutines \ {holder} : walk'[q] = walk[q]
  BY <1>1, <1>2, <1>4, <1>5, <1>6 DEF SnRoutines
<1>8. SNTypes' /\ HolderWorks'
  BY <1>1, <1>7 DEF SNInd, SNTypes, HolderWorks, PendingTxs
<1>9. PendingSent'
  BY <1>1 DEF SNInd, PendingSent
<1>10. PendingWalk'
  <2>1. CASE holder = "pending"
    BY <1>4, <1>7, <2>1 DEF SNInd, PendingWalk
  <2>2. CASE holder # "pending"
    BY <1>1, <1>7, <2>2 DEF SNInd, PendingWalk, SnRoutines
  <2>3. QED
    BY <2>1, <2>2
<1>11. AcceptedWalk'
  <2>1. CASE holder = "accepted"
    <3>1. /\ snSent["accepted"] = AcceptedUpTo(w.bn) /\ w.bn <= w.last /\ w.last <= snHead
          /\ snFirst + 1 <= w.bn
      BY <1>1, <2>1 DEF SNInd, AcceptedWalk
    <3>2. v.bn - 1 = w.bn /\ v.bn <= v.last + 1 /\ snFirst + 1 <= v.bn
      BY <1>3, <1>6, <2>1, <3>1 DEF SNInd, SNTypes
    <3>3. QED
      BY <1>1, <1>6, <1>7, <2>1, <3>1, <3>2 DEF AcceptedWalk, AcceptedUpTo
  <2>2. CASE holder # "accepted"
    BY <1>1, <1>7, <2>2 DEF SNInd, AcceptedWalk, AcceptedUpTo, AcceptedBlock, SnRoutines
  <2>3. QED
    BY <2>1, <2>2
<1>12. PrefetchWalk' /\ SnPrefetchCovers'
  <2>1. CASE holder = "prefetch"
    <3>1. /\ Teleports(w.bn) \subseteq snSent["prefetch"] /\ w.last <= snHead /\ w.bn <= w.last
          /\ \A n \in (w.bn + 1)..w.last : Teleports(n) \subseteq snSent["prefetch"]
      BY <1>1, <2>1 DEF SNInd, PrefetchWalk
    <3>2. \A n \in (v.bn + 1)..v.last : Teleports(n) \subseteq snSent["prefetch"]
      <4>1. (v.bn + 1)..v.last = {w.bn} \cup ((w.bn + 1)..w.last)
        BY <1>3, <1>5, <2>1
      <4>2. QED
        BY <3>1, <4>1
    <3>3. v.bn <= v.last /\ v.last <= snHead
      BY <1>3, <1>5, <2>1, <3>1
    <3>4. QED
      BY <1>1, <1>5, <1>7, <2>1, <3>2, <3>3 DEF PrefetchWalk, SnPrefetchCovers
  <2>2. CASE holder # "prefetch"
    BY <1>1, <1>7, <2>2 DEF SNInd, PrefetchWalk, SnPrefetchCovers, AcceptedBlock, SnRoutines
  <2>3. QED
    BY <2>1, <2>2
<1>13. QED
  BY <1>8, <1>9, <1>10, <1>11, <1>12 DEF SNInd

\* The Starknet provider sends every event of the blocks accepted since its
\* start, and of its prefetch period, and an event of a growing pending block
\* once, whatever the three routines do in between.
THEOREM StarknetComplete == SNSpec => []TeleportsComplete
<1>1. SNInit => SNInd
  BY SNInitInd
<1>2. ASSUME SNInd, [SNNext]_snVars PROVE SNInd'
  <2>1. CASE SnNewTx \/ SnAccept \/ SnCancel \/ UNCHANGED snVars
    BY <1>2, <2>1, SNChainKeeps
  <2>2. CASE SnPrefetches \/ PendingTick \/ SnAccepts
    BY <1>2, <2>2, SNPrefetchKeeps, SNPendingKeeps, SNAcceptsKeeps
  <2>3. CASE SnStops
    BY <1>2, <2>3, SNStopKeeps DEF SnStops
  <2>4. CASE SnProcess
    BY <1>2, <2>4, SNProcessKeeps DEF SnProcess
  <2>5. CASE SnSend \/ Processed
    BY <1>2, <2>5, SNSendKeeps, SNProcessedKeeps
  <2>6. QED
    BY <1>2, <2>1, <2>2, <2>3, <2>4, <2>5 DEF SNNext
<1>3. SNInd => TeleportsComplete
  BY SNIndImplies
<1>4. QED
  BY <1>1, <1>2, <1>3, PTL DEF SNSpec

-----------------------------------------------------------------------------
(* EventPublisher: replays *)

Periods == DOMAIN replayAfter

\* When an event is due for the i-th time.
DueAt(e, i) == EvtDate[e] + replayAfter[i]

\* Messages sent, the one that waits for the listener included.
Heard == handed \cup ({sending} \ {NoMsg})
Copies == {m \in Heard : m.copy}
Got(S, e, t) == \E x \in S : x.evt = e /\ x.date >= t

PubMsgs == {m \in [evt : Evts, date : Nat, copy : BOOLEAN] :
               EvtDate[m.evt] <= m.date /\ m.date <= pubTime}

PubTypes ==
    /\ pubTime \in 0..PubMaxTime /\ lastTick \in Nat /\ tickDue \in {NoTick} \cup 0..pubTime
    /\ turn \in [now : Nat, left : SUBSET Evts] /\ lastTick <= turn.now /\ turn.now <= pubTime
    /\ offered \subseteq Evts /\ \A e \in offered : EvtDate[e] <= pubTime
    /\ cache \subseteq Evts /\ turn.left \subseteq cache
    /\ mutex \in {"none", "collect", "replay"}
    /\ handed \subseteq PubMsgs /\ sending \in PubMsgs \cup {NoMsg} /\ pub \in PubMsgs \cup {NoMsg}
    /\ published \subseteq SignableEvts
    /\ ticks \subseteq 0..lastTick /\ lastTick \in ticks

\* A replay that the turns have missed, and one that the present turn misses: the
\* event has expired, or the loop ends at a period that was due at the last turn.
Skipped(e, i) ==
    \E t \in ticks :
        /\ DueAt(e, i) <= t /\ \A s \in ticks : s < t => s < DueAt(e, i)
        /\ \/ t > EvtDate[e] + expireAfter
           \/ \E j \in Periods :
                 /\ DueAt(e, j) \in ticks /\ DueAt(e, j) < t
                 /\ \A s \in ticks : s < t => s <= DueAt(e, j)
SkippedNow(e) ==
    turn.now > EvtDate[e] + expireAfter \/ \E j \in Periods : DueAt(e, j) = lastTick

\* What the holder of the mutex sends: a new event, or a copy of one that the
\* listener knows.
MutexHeld ==
    /\ mutex # "replay" => turn.now = lastTick /\ turn.left = {}
    /\ mutex = "none" => sending = NoMsg
    /\ mutex = "collect" => sending # NoMsg /\ ~sending.copy /\ lastTick <= sending.date
    /\ mutex = "replay" /\ sending # NoMsg =>
          sending.copy /\ sending.date = turn.now /\ Got(handed, sending.evt, 0)

\* The cache has what the listener knows, except what has expired.
CacheKeeps ==
    /\ \A e \in cache : Got(Heard, e, 0)
    /\ \A m \in Heard : m.evt \in cache \/ turn.now > EvtDate[m.evt] + expireAfter

\* What was due at the last tick has been delivered or missed; during a turn,
\* what is due at this one as well, except for the events still to look at.
DueDelivered ==
    /\ \A m \in handed, i \in Periods :
          DueAt(m.evt, i) <= lastTick => Got(handed, m.evt, DueAt(m.evt, i)) \/ Skipped(m.evt, i)
    /\ mutex = "replay" =>
          \A m \in handed, i \in Periods :
             lastTick < DueAt(m.evt, i) /\ DueAt(m.evt, i) <= turn.now =>
                m.evt \in turn.left \/ Got(Heard, m.evt, DueAt(m.evt, i)) \/ SkippedNow(m.evt)

\* Every copy has a period that fell due between it and the copy before.
OwnPeriods ==
    \A m \in Copies :
        /\ m.date <= lastTick \/ (mutex = "replay" /\ m.date = turn.now)
        /\ \E i \in Periods :
              /\ DueAt(m.evt, i) <= m.date
              /\ \A x \in Copies : x.evt = m.evt /\ x.date < m.date => x.date < DueAt(m.evt, i)

\* The inductive invariant of the replayer.
PubInd == PubTypes /\ MutexHeld /\ CacheKeeps /\ DueDelivered /\ OwnPeriods

LEMMA PubFacts ==
    /\ "none" \notin Evts /\ EvtDate \in [Evts -> Nat] /\ SignableEvts \subseteq Evts
    /\ ReplayPeriods \in Seq(Nat) /\ ReplayPeriods # <<>>
    /\ Interval \in Nat \ {0} /\ PubMaxTime \in Nat
    /\ NoTick \notin Nat
BY EventPublisherAssumption DEF NoTick

\* replayAfter has the configured periods, sorted.
LEMMA PeriodsSorted ==
    /\ Periods = 1..Len(ReplayPeriods) /\ Len(ReplayPeriods) \in Nat \ {0}
    /\ Len(replayAfter) = Len(ReplayPeriods)
    /\ \A i \in Periods : replayAfter[i] \in Nat
    /\ \A i, j \in Periods : i <= j => replayAfter[i] <= replayAfter[j]
    /\ Source = "evm" => /\ \A i \in Periods : replayAfter[i] \in ToSet(ReplayPeriods)
                         /\ \A p \in ToSet(ReplayPeriods) : \E i \in Periods : replayAfter[i] = p
<1> DEFINE f == ReplayDurations
           n == Len(ReplayPeriods)
           I == 1..n
<1>1. n \in Nat \ {0} /\ DOMAIN ReplayPeriods = I /\ \A i \in I : ReplayPeriods[i] \in Nat
  BY PubFacts
<1>2. DOMAIN f = I /\ \A i \in I : f[i] \in Nat
  BY <1>1 DEF ReplayDurations
<1>3. Source = "evm" => f = ReplayPeriods
  BY DEF ReplayDurations
<1> HIDE DEF f
<1>4. replayAfter = [i \in I |-> Kth(f, I, i)]
  BY <1>2 DEF replayAfter, f
<1>5. IsFiniteSet(I) /\ Cardinality(I) = n
  BY <1>1, FS_Interval
<1>6. ASSUME NEW i \in I PROVE Kth(f, I, i) \in {f[j] : j \in I}
  <2>1. i \in Nat /\ 1 <= i /\ i <= Cardinality(I)
    BY <1>1, <1>5
  <2> HIDE DEF I
  <2> QED BY <1>2, <1>5, <2>1, KthIsRanked
<1>7. \A i, j \in I : i <= j => Kth(f, I, i) <= Kth(f, I, j)
  BY <1>1, <1>2, <1>5, KthGrows
<1>8. \A j \in I : \E i \in I : Kth(f, I, i) = f[j]
  BY <1>1, <1>2, <1>5, KthHits
<1>9. \A i \in I : replayAfter[i] = Kth(f, I, i)
  BY <1>4
<1>10. Periods = I
  BY <1>4 DEF Periods
<1>11. \A i \in I : replayAfter[i] \in {f[j] : j \in I} /\ replayAfter[i] \in Nat
  BY <1>2, <1>6, <1>9
<1>12. Len(replayAfter) = n
  <2>1. replayAfter \in Seq(Nat)
    BY <1>1, <1>4, <1>11
  <2> QED BY <1>1, <1>4, <2>1
<1>13. ASSUME Source = "evm"
       PROVE  /\ \A i \in I : replayAfter[i] \in ToSet(ReplayPeriods)
              /\ \A p \in ToSet(ReplayPeriods) : \E i \in I : replayAfter[i] = p
  <2>1. ToSet(ReplayPeriods) = {f[j] : j \in I}
    BY <1>1, <1>3, <1>13 DEF ToSet
  <2> HIDE DEF I
  <2>2. \A i \in I : replayAfter[i] \in ToSet(ReplayPeriods)
    BY <1>11, <2>1
  <2>3. ASSUME NEW p \in ToSet(ReplayPeriods) PROVE \E i \in I : replayAfter[i] = p
    BY <1>8, <1>9, <2>1
  <2> QED BY <2>2, <2>3
<1> QED BY <1>1, <1>7, <1>9, <1>10, <1>11, <1>12, <1>13

\* An event expires after its last period.
LEMMA ExpiresLast ==
    ASSUME NEW e \in Evts
    PROVE  /\ EvtDate[e] \in Nat /\ expireAfter \in Nat
           /\ \A i \in Periods : DueAt(e, i) \in Nat /\ DueAt(e, i) <= EvtDate[e] + expireAfter
<1> DEFINE n == Len(ReplayPeriods)
<1>1. n \in 1..n /\ Len(replayAfter) = n /\ Periods = 1..n /\ EvtDate[e] \in Nat /\ Interval \in Nat
  BY PubFacts, PeriodsSorted
<1>2. \A i \in 1..n : replayAfter[i] \in Nat /\ replayAfter[i] <= replayAfter[n]
  BY <1>1, PeriodsSorted
<1>3. expireAfter = replayAfter[n] + Interval
  BY <1>1 DEF expireAfter
<1> HIDE DEF n
<1> QED BY <1>1, <1>2, <1>3 DEF DueAt

LEMMA PubInitInd == PubInit => PubInd
<1> SUFFICES ASSUME PubInit PROVE PubInd
  OBVIOUS
<1>1. Heard = {} /\ Copies = {}
  BY DEF PubInit, Heard, Copies
<1>2. PubTypes
  BY PubFacts DEF PubInit, PubTypes
<1>4. MutexHeld
  BY DEF PubInit, MutexHeld
<1> QED BY <1>1, <1>2, <1>4 DEF PubInit, PubInd, CacheKeeps, DueDelivered, OwnPeriods

LEMMA SkippedStays ==
    ASSUME ticks' = ticks, NEW e, NEW i
    PROVE  Skipped(e, i)' <=> Skipped(e, i)
BY DEF Skipped, DueAt, Periods

\* What does not change with the replayer's cache, its messages and its turn.
LEMMA PubStays ==
    ASSUME UNCHANGED <<handed, sending, cache, turn, lastTick, mutex, ticks>>, PubInd
    PROVE  MutexHeld' /\ CacheKeeps' /\ DueDelivered' /\ OwnPeriods'
<1>1. Heard' = Heard /\ Copies' = Copies
  BY DEF Heard, Copies
<1>2. MutexHeld'
  BY DEF PubInd, MutexHeld, Got
<1>3. CacheKeeps'
  BY <1>1 DEF PubInd, CacheKeeps, Got
<1>4. DueDelivered'
  BY <1>1 DEF PubInd, DueDelivered, Got, Skipped, SkippedNow
<1>5. OwnPeriods'
  BY <1>1 DEF PubInd, OwnPeriods
<1> QED BY <1>2, <1>3, <1>4, <1>5

\* Time goes on: a tick falls due at most an interval after the last one.
LEMMA PubAdvanceKeeps ==
    ASSUME PubInd, PubAdvance
    PROVE  PubInd'
<1>1. /\ pubTime' = pubTime + 1 /\ pubTime < PubMaxTime /\ pubTime \in Nat
      /\ tickDue' = IF pubTime' % Interval = 0 /\ tickDue = NoTick THEN pubTime' ELSE tickDue
      /\ UNCHANGED <<lastTick, offered, cache, mutex, turn, sending, pub, handed, published, ticks>>
  BY PubFacts DEF PubAdvance, PubInd, PubTypes
<1>2. PubMsgs \subseteq PubMsgs'
  BY <1>1 DEF PubMsgs
<1>3. pubTime' \in 0..PubMaxTime /\ pubTime <= pubTime'
  BY <1>1, PubFacts
<1>4. tickDue' \in {NoTick} \cup 0..pubTime'
  BY <1>1 DEF PubInd, PubTypes
<1>5. PubTypes'
  <2>1. \A e \in offered : EvtDate[e] <= pubTime'
    BY <1>1, PubFacts DEF PubInd, PubTypes
  <2>2. turn.now <= pubTime' /\ turn.now \in Nat
    BY <1>1 DEF PubInd, PubTypes
  <2> QED BY <1>1, <1>2, <1>3, <1>4, <2>1, <2>2 DEF PubInd, PubTypes
<1> QED BY <1>1, <1>5, PubStays DEF PubInd

\* Steps outside the replayer.
LEMMA PubOthersKeep ==
    ASSUME PubInd, PubCancel \/ Broadcast \/ (\E e \in Evts : Offer(e)) \/ UNCHANGED pubVars
    PROVE  PubInd'
<1>1. UNCHANGED <<pubTime, tickDue, lastTick, cache, mutex, turn, sending, handed, ticks>>
  BY DEF PubCancel, Broadcast, Offer, pubVars, replayVars
<1>2. PubMsgs' = PubMsgs
  BY <1>1 DEF PubMsgs
<1>3. pub' \in {pub, NoMsg} /\ published' \subseteq SignableEvts
  BY DEF PubCancel, Broadcast, Offer, pubVars, PubInd, PubTypes
<1>4. offered' \subseteq Evts /\ \A e \in offered' : EvtDate[e] <= pubTime
  BY DEF PubCancel, Broadcast, Offer, pubVars, replayVars, PubInd, PubTypes
<1>5. PubTypes'
  BY <1>1, <1>2, <1>3, <1>4 DEF PubInd, PubTypes
<1> QED BY <1>1, <1>5, PubStays DEF PubInd

\* A new event: what was due before the last tick is older than its message.
LEMMA CollectKeeps ==
    ASSUME PubInd, NEW e \in Evts, Collect(e)
    PROVE  PubInd'
<1> DEFINE m == Msg(e, pubTime, FALSE)
<1>1. /\ mutex = "none" /\ mutex' = "collect" /\ e \in offered /\ offered' = offered \ {e}
      /\ cache' = cache \cup {e} /\ sending' = m /\ sending = NoMsg
      /\ UNCHANGED <<pubTime, tickDue, lastTick, turn, pub, handed, published, ticks>>
  BY DEF Collect, PubInd, MutexHeld
<1>2. m.evt = e /\ m.date = pubTime /\ m.copy = FALSE /\ m # NoMsg
  BY PubFacts DEF Msg, NoMsg
<1>3. m \in PubMsgs /\ PubMsgs' = PubMsgs
  <2>1. EvtDate[e] <= pubTime /\ pubTime \in Nat
    BY <1>1, PubFacts DEF PubInd, PubTypes
  <2> QED BY <1>1, <2>1 DEF PubMsgs, Msg
<1> HIDE DEF m
<1>4. Heard = handed /\ Heard' = handed \cup {m} /\ Copies' = Copies
  <2>1. Heard = handed /\ Heard' = handed \cup {m}
    BY <1>1, <1>2 DEF Heard
  <2> QED BY <1>2, <2>1 DEF Copies
<1>5. PubTypes'
  BY <1>1, <1>3 DEF PubInd, PubTypes
<1>7. MutexHeld'
  BY <1>1, <1>2 DEF PubInd, MutexHeld, PubTypes
<1>8. CacheKeeps'
  <2>1. \A x \in Heard' : x.evt \in cache' \/ turn'.now > EvtDate[x.evt] + expireAfter
    BY <1>1, <1>2, <1>4 DEF PubInd, CacheKeeps
  <2>2. Got(Heard', e, 0)
    BY <1>2, <1>3, <1>4 DEF Got, PubMsgs
  <2>3. \A x \in cache' : Got(Heard', x, 0)
    BY <1>1, <1>4, <2>2 DEF PubInd, CacheKeeps, Got
  <2> QED BY <2>1, <2>3 DEF CacheKeeps
<1>9. DueDelivered'
  BY <1>1, SkippedStays DEF PubInd, DueDelivered, Got
<1>10. OwnPeriods'
  BY <1>1, <1>4 DEF PubInd, OwnPeriods
<1> QED BY <1>5, <1>7, <1>8, <1>9, <1>10 DEF PubInd

\* A tick: an event that is not in the cache has expired before the last one.
LEMMA ReplayTickKeeps ==
    ASSUME PubInd, ReplayTick
    PROVE  PubInd'
<1>1. /\ mutex = "none" /\ mutex' = "replay" /\ tickDue' = NoTick /\ sending = NoMsg
      /\ turn' = [now |-> pubTime, left |-> cache] /\ turn.now = lastTick
      /\ UNCHANGED <<pubTime, lastTick, offered, cache, sending, pub, handed, published, ticks>>
  BY DEF ReplayTick, PubInd, MutexHeld
<1>2. Heard = handed /\ Heard' = handed /\ Copies' = Copies /\ PubMsgs' = PubMsgs
  BY <1>1 DEF Heard, Copies, PubMsgs
<1>3. turn'.now = pubTime /\ turn'.left = cache
  BY <1>1
<1>4. PubTypes'
  BY <1>1, <1>2, <1>3 DEF PubInd, PubTypes
<1>5. \A m \in handed, i \in Periods :
        m.evt \in Evts /\ EvtDate[m.evt] \in Nat /\ expireAfter \in Nat /\ DueAt(m.evt, i) \in Nat
        /\ DueAt(m.evt, i) <= EvtDate[m.evt] + expireAfter
  BY ExpiresLast DEF PubInd, PubTypes, PubMsgs
<1>6. MutexHeld'
  BY <1>1 DEF MutexHeld
<1>7. CacheKeeps'
  <2>1. ASSUME NEW m \in handed, m.evt \notin cache
        PROVE  pubTime > EvtDate[m.evt] + expireAfter
    <3>1. turn.now > EvtDate[m.evt] + expireAfter /\ turn.now <= pubTime /\ turn.now \in Nat /\ pubTime \in Nat
      BY <1>2, <2>1 DEF PubInd, CacheKeeps, PubTypes
    <3>2. EvtDate[m.evt] + expireAfter \in Nat
      BY <2>1, ExpiresLast DEF PubInd, PubTypes, PubMsgs
    <3> QED BY <3>1, <3>2
  <2> QED BY <1>1, <1>2, <1>3, <2>1 DEF PubInd, CacheKeeps, Got
<1>8. DueDelivered'
  <2>1. ASSUME NEW m \in handed, NEW i \in Periods, lastTick < DueAt(m.evt, i)
        PROVE  m.evt \in cache
    <3>1. m.evt \in cache \/ lastTick > EvtDate[m.evt] + expireAfter
      BY <1>1, <1>2, <2>1 DEF PubInd, CacheKeeps
    <3>2. lastTick \in Nat
      BY DEF PubInd, PubTypes
    <3> QED BY <1>5, <2>1, <3>1, <3>2
  <2> QED BY <1>1, <1>2, <1>3, <2>1, SkippedStays DEF PubInd, DueDelivered, Got
<1>9. OwnPeriods'
  BY <1>1, <1>2, <1>3 DEF PubInd, OwnPeriods
<1> QED BY <1>4, <1>6, <1>7, <1>8, <1>9 DEF PubInd

\* The end of a turn, at which what this turn has missed is missed.
LEMMA ReplayOverKeeps ==
    ASSUME PubInd, ReplayOver
    PROVE  PubInd'
<1>1. /\ mutex = "replay" /\ mutex' = "none" /\ sending = NoMsg /\ turn.left = {} /\ lastTick' = turn.now
      /\ ticks' = ticks \cup {turn.now}
      /\ UNCHANGED <<pubTime, tickDue, offered, cache, turn, sending, pub, handed, published>>
  BY DEF ReplayOver
<1>2. Heard = handed /\ Heard' = handed /\ Copies' = Copies /\ PubMsgs' = PubMsgs
  BY <1>1 DEF Heard, Copies, PubMsgs
<1>3. /\ lastTick \in Nat /\ turn.now \in Nat /\ lastTick <= turn.now /\ lastTick \in ticks
      /\ \A s \in ticks : s \in Nat /\ s <= lastTick
  BY DEF PubInd, PubTypes
<1>4. PubTypes'
  <2>1. (\A s \in ticks : s \in 0..turn.now) /\ turn.now \in 0..turn.now
    BY <1>3
  <2>2. ticks' \subseteq 0..turn.now
    BY <1>1, <2>1, Zenon
  <2> QED BY <1>1, <1>2, <2>2 DEF PubInd, PubTypes
<1>5. MutexHeld'
  BY <1>1 DEF PubInd, MutexHeld
<1>6. CacheKeeps'
  BY <1>1, <1>2 DEF PubInd, CacheKeeps, Got
<1>7. DueDelivered'
  <2> SUFFICES ASSUME NEW m \in handed, NEW i \in Periods, DueAt(m.evt, i) <= turn.now
               PROVE  Got(handed, m.evt, DueAt(m.evt, i)) \/ Skipped(m.evt, i)'
    BY <1>1 DEF DueDelivered, Got, DueAt, Periods
  <2> DEFINE e == m.evt
             due == DueAt(e, i)
  <2>1. e \in Evts /\ EvtDate[e] \in Nat /\ expireAfter \in Nat /\ due \in Nat /\ \A j \in Periods : DueAt(e, j) \in Nat
    BY ExpiresLast DEF PubInd, PubTypes, PubMsgs
  <2> HIDE DEF e, due
  <2>2. CASE due <= lastTick
    <3>1. Got(handed, e, due) \/ Skipped(e, i)
      BY <2>2 DEF PubInd, DueDelivered, e, due
    <3>2. ASSUME Skipped(e, i) PROVE Skipped(e, i)'
      <4>1. PICK t \in ticks :
              /\ due <= t /\ \A s \in ticks : s < t => s < due
              /\ \/ t > EvtDate[e] + expireAfter
                 \/ \E j \in Periods : /\ DueAt(e, j) \in ticks /\ DueAt(e, j) < t
                                       /\ \A s \in ticks : s < t => s <= DueAt(e, j)
        BY <3>2 DEF Skipped, due
      <4>2. t \in ticks' /\ \A s \in ticks' : s < t => s \in ticks
        BY <1>1, <1>3
      <4>3. \/ t > EvtDate[e] + expireAfter
            \/ \E j \in Periods : /\ DueAt(e, j) \in ticks' /\ DueAt(e, j) < t
                                  /\ \A s \in ticks' : s < t => s <= DueAt(e, j)
        BY <1>1, <4>1, <4>2
      <4>4. due <= t /\ \A s \in ticks' : s < t => s < due
        BY <4>1, <4>2
      <4> QED BY <4>2, <4>3, <4>4 DEF Skipped, due, DueAt, Periods
    <3> QED BY <3>1, <3>2 DEF e, due
  <2>3. CASE lastTick < due
    <3>1. Got(handed, e, due) \/ SkippedNow(e)
      BY <1>1, <1>2, <2>3 DEF PubInd, DueDelivered, e, due
    <3>2. ASSUME SkippedNow(e) PROVE Skipped(e, i)'
      <4>1. turn.now \in ticks' /\ \A s \in ticks' : s < turn.now => s < due /\ s <= lastTick
        BY <1>1, <1>3, <2>1, <2>3
      <4>2. \/ turn.now > EvtDate[e] + expireAfter
            \/ \E j \in Periods : /\ DueAt(e, j) \in ticks' /\ DueAt(e, j) < turn.now
                                  /\ \A s \in ticks' : s < turn.now => s <= DueAt(e, j)
        <5>1. lastTick < turn.now
          BY <1>3, <2>1, <2>3 DEF due, e
        <5> QED BY <1>1, <1>3, <3>2, <4>1, <5>1 DEF SkippedNow
      <4>3. due <= turn.now
        BY DEF due, e
      <4> QED BY <4>1, <4>2, <4>3 DEF Skipped, due, DueAt, Periods
    <3> QED BY <3>1, <3>2 DEF e, due
  <2> QED BY <1>3, <2>1, <2>2, <2>3
<1>8. OwnPeriods'
  <2>1. \A m \in Copies : m.date \in Nat
    BY <1>2 DEF PubInd, PubTypes, PubMsgs, Copies
  <2>2. \A m \in Copies : m.date <= lastTick'
    BY <1>1, <1>3, <2>1 DEF PubInd, OwnPeriods
  <2> QED BY <1>2, <2>2 DEF PubInd, OwnPeriods
<1> QED BY <1>4, <1>5, <1>6, <1>7, <1>8 DEF PubInd

\* The listener takes what was offered to it.
LEMMA HandOverKeeps ==
    ASSUME PubInd, HandOver
    PROVE  PubInd'
<1>1. /\ sending # NoMsg /\ pub' = sending /\ sending' = NoMsg /\ handed' = handed \cup {sending}
      /\ mutex' = IF mutex = "collect" THEN "none" ELSE mutex
      /\ UNCHANGED <<pubTime, tickDue, lastTick, offered, cache, turn, published, ticks>>
  BY DEF HandOver
<1>2. /\ mutex \in {"collect", "replay"} /\ sending \in PubMsgs /\ PubMsgs' = PubMsgs
      /\ sending.evt \in Evts /\ sending.date \in Nat
  BY <1>1 DEF PubInd, PubTypes, MutexHeld, PubMsgs
<1>3. Heard' = Heard /\ Heard' = handed' /\ Copies' = Copies
  BY <1>1 DEF Heard, Copies
<1>4. PubTypes'
  BY <1>1, <1>2 DEF PubInd, PubTypes
<1>5. MutexHeld'
  BY <1>1, <1>2 DEF PubInd, MutexHeld
<1>6. handed \subseteq handed' /\ \A ev, t : Got(handed, ev, t) => Got(handed', ev, t)
  BY <1>1 DEF Got
<1>7. CacheKeeps'
  BY <1>1, <1>3, <1>6 DEF PubInd, CacheKeeps
<1>8. DueDelivered'
  <2>1. ASSUME NEW i \in Periods, DueAt(sending.evt, i) <= lastTick
        PROVE  Got(handed', sending.evt, DueAt(sending.evt, i)) \/ Skipped(sending.evt, i)
    <3>1. CASE mutex = "collect"
      <4>1. lastTick <= sending.date /\ lastTick \in Nat /\ DueAt(sending.evt, i) \in Nat
        BY <1>2, <3>1, PubFacts, PeriodsSorted DEF PubInd, MutexHeld, PubTypes, DueAt
      <4>2. sending.date >= DueAt(sending.evt, i)
        BY <1>2, <2>1, <4>1
      <4> QED BY <1>1, <4>2 DEF Got
    <3>2. CASE mutex = "replay"
      <4>1. \E m \in handed : m.evt = sending.evt
        BY <1>1, <3>2 DEF PubInd, MutexHeld, Got
      <4> QED BY <1>6, <2>1, <4>1 DEF PubInd, DueDelivered
    <3> QED BY <1>2, <3>1, <3>2
  <2>2. \A m \in handed', i \in Periods :
            DueAt(m.evt, i) <= lastTick => Got(handed', m.evt, DueAt(m.evt, i)) \/ Skipped(m.evt, i)
    BY <1>1, <1>6, <2>1 DEF PubInd, DueDelivered
  <2>3. ASSUME mutex' = "replay", NEW m \in handed', NEW i \in Periods,
               lastTick < DueAt(m.evt, i), DueAt(m.evt, i) <= turn.now
        PROVE  m.evt \in turn.left \/ Got(Heard, m.evt, DueAt(m.evt, i)) \/ SkippedNow(m.evt)
    <3>1. mutex = "replay"
      BY <1>1, <1>2, <2>3
    <3>2. \E x \in handed : x.evt = m.evt
      BY <1>1, <2>3, <3>1 DEF PubInd, MutexHeld, Got
    <3> QED BY <2>3, <3>1, <3>2 DEF PubInd, DueDelivered
  <2> QED BY <1>1, <1>3, <2>2, <2>3, SkippedStays DEF DueDelivered, Got, DueAt, SkippedNow, Periods
<1>9. OwnPeriods'
  <2>1. \A m \in Copies : m.date <= lastTick \/ (mutex' = "replay" /\ m.date = turn.now)
    BY <1>1, <1>2 DEF PubInd, OwnPeriods
  <2> QED BY <1>1, <1>3, <2>1 DEF PubInd, OwnPeriods
<1> QED BY <1>4, <1>5, <1>7, <1>8, <1>9 DEF PubInd

\* What falls due between the last tick and this one is replayed now, unless it
\* has expired, or the loop over the periods ends at one that was due at the last
\* tick. The loop gets as far as the first period whose window is not over.
LEMMA DueIsReplayed ==
    ASSUME PubInd, NEW e \in Evts, NEW k \in Periods, lastTick < DueAt(e, k), DueAt(e, k) <= turn.now,
           ~(Age(e) <= expireAfter /\ IsReplayed(e))
    PROVE  SkippedNow(e)
<1> DEFINE n == Len(ReplayPeriods)
           S == {i \in 1..n : Until(i) >= Age(e)}
<1>1. turn.now \in Nat /\ lastTick \in Nat /\ lastTick <= turn.now /\ EvtDate[e] \in Nat /\ expireAfter \in Nat
  BY ExpiresLast DEF PubInd, PubTypes
<1>2. /\ n \in Nat /\ Periods = 1..n /\ DOMAIN replayAfter = 1..n
      /\ \A i \in 1..n : replayAfter[i] \in Nat
      /\ \A i, j \in 1..n : i <= j => replayAfter[i] <= replayAfter[j]
  BY PeriodsSorted DEF Periods
<1> HIDE DEF n
<1>3. k \in S
  BY <1>1, <1>2 DEF Until, Age, DueAt
<1>4. PICK i \in S : \A j \in S : i <= j
  <2>1. S \subseteq Nat
    BY <1>2
  <2> HIDE DEF S
  <2> QED BY <1>3, <2>1, LeastExists
<1>5. i \in 1..n /\ i <= k /\ k \in 1..n /\ Until(i) >= Age(e)
  BY <1>3, <1>4
<1>6. Age(e) \in Int /\ \A j \in 1..n : Until(j) \in Int
  BY <1>1, <1>2 DEF Age, Until
<1>7. \A j \in 1..(i - 1) : Until(j) < Age(e)
  <2>1. ASSUME NEW j \in 1..(i - 1) PROVE Until(j) < Age(e)
    <3>1. j \in 1..n /\ ~(i <= j)
      BY <1>2, <1>5
    <3>2. j \notin S
      BY <1>4, <3>1
    <3> QED BY <1>6, <3>1, <3>2
  <2> QED BY <2>1
<1>8. Age(e) >= replayAfter[i]
  <2>1. replayAfter[i] <= replayAfter[k] /\ replayAfter[i] \in Nat /\ replayAfter[k] \in Nat
    BY <1>2, <1>5
  <2> QED BY <1>1, <2>1 DEF Age, DueAt
<1>9. CASE Age(e) < Until(i)
  <2>1. IsReplayed(e)
    BY <1>2, <1>5, <1>7, <1>8, <1>9 DEF IsReplayed
  <2>2. ~(Age(e) <= expireAfter)
    BY <2>1
  <2> QED BY <1>1, <1>6, <2>2 DEF SkippedNow, Age
<1>10. CASE Age(e) = Until(i)
  <2>1. DueAt(e, i) = lastTick
    <3>1. replayAfter[i] \in Nat /\ turn.now - EvtDate[e] = replayAfter[i] + (turn.now - lastTick)
      BY <1>2, <1>5, <1>10 DEF Age, Until
    <3> QED BY <1>1, <3>1 DEF DueAt
  <2> QED BY <1>2, <1>5, <2>1 DEF SkippedNow
<1> QED BY <1>5, <1>6, <1>9, <1>10

\* A replay belongs to a period that has fallen due since the last tick.
LEMMA ReplayedIsDue ==
    ASSUME PubInd, NEW e \in Evts, IsReplayed(e)
    PROVE  \E i \in Periods : lastTick < DueAt(e, i) /\ DueAt(e, i) <= turn.now
<1>1. PICK i \in Periods : Age(e) >= replayAfter[i] /\ Age(e) < Until(i)
  BY DEF IsReplayed, Periods
<1>2. turn.now \in Nat /\ lastTick \in Nat /\ EvtDate[e] \in Nat /\ replayAfter[i] \in Nat
  BY PubFacts, PeriodsSorted DEF PubInd, PubTypes
<1>3. lastTick < DueAt(e, i) /\ DueAt(e, i) <= turn.now
  BY <1>1, <1>2 DEF Age, Until, DueAt
<1> QED BY <1>3

\* One event of a turn.
LEMMA ReplayNextKeeps ==
    ASSUME PubInd, ReplayNext
    PROVE  PubInd'
<1>1. PICK e \in turn.left :
        /\ turn' = [turn EXCEPT !.left = @ \ {e}]
        /\ cache' = IF Age(e) > expireAfter THEN cache \ {e} ELSE cache
        /\ sending' = IF Age(e) <= expireAfter /\ IsReplayed(e) THEN Msg(e, turn.now, TRUE) ELSE NoMsg
  BY DEF ReplayNext
<1>2. /\ mutex = "replay" /\ mutex' = "replay" /\ sending = NoMsg
      /\ UNCHANGED <<pubTime, tickDue, lastTick, offered, pub, handed, published, ticks>>
  BY DEF ReplayNext
<1>3. /\ e \in Evts /\ e \in cache /\ turn.now \in Nat /\ lastTick \in Nat /\ pubTime \in Nat
      /\ lastTick <= turn.now /\ turn.now <= pubTime
  BY PubFacts DEF PubInd, PubTypes
<1>4. turn'.now = turn.now /\ turn'.left = turn.left \ {e} /\ turn' \in [now : Nat, left : SUBSET Evts]
  BY <1>1 DEF PubInd, PubTypes
<1>5. Heard = handed /\ handed \subseteq Heard' /\ PubMsgs' = PubMsgs
  BY <1>2 DEF Heard, PubMsgs
<1>6. \A x, t : Got(handed, x, t) => Got(Heard', x, t)
  BY <1>5 DEF Got
<1>7. \E m \in handed : m.evt = e
  BY <1>3, <1>5 DEF PubInd, CacheKeeps, Got
<1>9. \A i \in Periods : DueAt(e, i) \in Nat
  BY <1>3, PubFacts, PeriodsSorted DEF DueAt
<1>10. \A x : SkippedNow(x)' <=> SkippedNow(x)
  BY <1>2, <1>4 DEF SkippedNow, DueAt, Periods
<1>11. CASE Age(e) <= expireAfter /\ IsReplayed(e)
  <2> DEFINE m == Msg(e, turn.now, TRUE)
  <2>1. m.evt = e /\ m.date = turn.now /\ m.copy = TRUE /\ m # NoMsg /\ sending' = m
    BY <1>1, <1>3, <1>11, PubFacts DEF Msg, NoMsg
  <2>2. PICK k \in Periods : lastTick < DueAt(e, k) /\ DueAt(e, k) <= turn.now
    BY <1>3, <1>11, ReplayedIsDue
  <2>3. EvtDate[e] <= turn.now
    <3>1. EvtDate[e] \in Nat /\ replayAfter[k] \in Nat
      BY <1>3, PubFacts, PeriodsSorted
    <3> QED BY <1>3, <2>2, <3>1 DEF DueAt
  <2>4. m \in PubMsgs
    BY <1>3, <2>3 DEF PubMsgs, Msg
  <2> HIDE DEF m
  <2>5. cache' = cache
    <3>1. Age(e) \in Int /\ expireAfter \in Int
      BY <1>3, PubFacts, PeriodsSorted DEF Age, expireAfter
    <3>2. ~(Age(e) > expireAfter)
      BY <1>11, <3>1
    <3> QED BY <1>1, <3>2
  <2>6. Heard' = handed \cup {m} /\ Copies' = Copies \cup {m}
    <3>1. Heard' = handed \cup {m}
      BY <1>2, <2>1 DEF Heard
    <3> QED BY <1>5, <2>1, <3>1 DEF Copies
  <2>7. PubTypes'
    BY <1>2, <1>4, <1>5, <2>1, <2>4, <2>5 DEF PubInd, PubTypes
  <2>8. MutexHeld'
    <3>1. \E x \in handed : x.evt = e /\ x.date >= 0
      BY <1>7 DEF PubInd, PubTypes, PubMsgs
    <3> QED BY <1>2, <1>4, <2>1, <3>1 DEF MutexHeld, Got
  <2>9. CacheKeeps'
    <3>1. \A x \in cache : Got(Heard', x, 0)
      BY <1>5, <1>6 DEF PubInd, CacheKeeps
    <3>2. \A x \in Heard' : x.evt \in cache \/ turn.now > EvtDate[x.evt] + expireAfter
      BY <1>3, <1>5, <2>1, <2>6 DEF PubInd, CacheKeeps
    <3> QED BY <1>2, <1>4, <2>5, <3>1, <3>2 DEF CacheKeeps, Got
  <2>10. DueDelivered'
    <3>1. ASSUME NEW x \in handed, NEW i \in Periods, lastTick < DueAt(x.evt, i), DueAt(x.evt, i) <= turn.now
          PROVE  x.evt \in turn'.left \/ Got(Heard', x.evt, DueAt(x.evt, i)) \/ SkippedNow(x.evt)
      <4>1. CASE x.evt = e
        BY <1>3, <2>1, <2>6, <3>1, <4>1, <1>9 DEF Got
      <4>2. CASE x.evt # e
        BY <1>2, <1>4, <1>5, <1>6, <3>1, <4>2 DEF PubInd, DueDelivered
      <4> QED BY <4>1, <4>2
    <3> QED BY <1>2, <1>4, <1>10, <3>1, SkippedStays DEF PubInd, DueDelivered, Got, DueAt
  <2>11. OwnPeriods'
    <3>1. \A x \in Copies : x.date \in Nat /\ (x.date <= lastTick \/ x.date = turn.now)
      BY <1>5 DEF PubInd, OwnPeriods, PubTypes, PubMsgs, Copies
    <3>2. \A x \in Copies' : x.date < turn.now => x.date <= lastTick
      BY <1>3, <2>1, <2>6, <3>1
    <3>3. \A x \in Copies' : x.evt = e /\ x.date < m.date => x.date < DueAt(e, k)
      BY <1>3, <1>9, <2>1, <2>2, <2>6, <3>1, <3>2
    <3>4. DueAt(m.evt, k) <= m.date /\ \A x \in Copies' : x.evt = m.evt /\ x.date < m.date => x.date < DueAt(m.evt, k)
      BY <2>1, <2>2, <3>3
    <3>5. ASSUME NEW x \in Copies
          PROVE  \E i \in Periods :
                    /\ DueAt(x.evt, i) <= x.date
                    /\ \A y \in Copies' : y.evt = x.evt /\ y.date < x.date => y.date < DueAt(x.evt, i)
      <4>1. PICK i \in Periods :
                    /\ DueAt(x.evt, i) <= x.date
                    /\ \A y \in Copies : y.evt = x.evt /\ y.date < x.date => y.date < DueAt(x.evt, i)
        BY <3>5 DEF PubInd, OwnPeriods
      <4>2. ~(m.date < x.date)
        BY <1>3, <2>1, <3>1, <3>5
      <4> QED BY <2>6, <4>1, <4>2
    <3>6. \A x \in Copies' : x.date <= lastTick' \/ (mutex' = "replay" /\ x.date = turn'.now)
      BY <1>2, <1>4, <2>1, <2>6, <3>1
    <3>7. \A x \in Copies' : \E i \in Periods :
                    /\ DueAt(x.evt, i) <= x.date
                    /\ \A y \in Copies' : y.evt = x.evt /\ y.date < x.date => y.date < DueAt(x.evt, i)
      BY <2>6, <3>4, <3>5
    <3> QED BY <3>6, <3>7 DEF OwnPeriods, DueAt
  <2> QED BY <2>7, <2>8, <2>9, <2>10, <2>11 DEF PubInd
<1>12. CASE ~(Age(e) <= expireAfter /\ IsReplayed(e))
  <2>1. sending' = NoMsg /\ Heard' = handed /\ Copies' = Copies
    BY <1>1, <1>2, <1>5, <1>12 DEF Heard, Copies
  <2>2. cache' \subseteq cache /\ turn'.left \subseteq cache'
    BY <1>1, <1>4 DEF PubInd, PubTypes
  <2>3. PubTypes'
    BY <1>2, <1>4, <1>5, <2>1, <2>2 DEF PubInd, PubTypes
  <2>4. MutexHeld'
    BY <1>2, <2>1 DEF MutexHeld
  <2>5. ASSUME NEW i \in Periods, lastTick < DueAt(e, i), DueAt(e, i) <= turn.now
        PROVE  SkippedNow(e)
    BY <1>3, <1>12, <2>5, DueIsReplayed
  <2>6. Age(e) > expireAfter => turn.now > EvtDate[e] + expireAfter
    BY <1>3, ExpiresLast DEF Age
  <2>7. CacheKeeps'
    <3>1. \A x \in cache' : Got(Heard', x, 0)
      BY <1>5, <2>1, <2>2 DEF PubInd, CacheKeeps
    <3>2. \A x \in handed : x.evt \in cache' \/ turn.now > EvtDate[x.evt] + expireAfter
      BY <1>1, <1>5, <2>6 DEF PubInd, CacheKeeps
    <3> QED BY <1>2, <1>4, <2>1, <3>1, <3>2 DEF CacheKeeps, Got
  <2>8. DueDelivered'
    <3>1. ASSUME NEW x \in handed, NEW i \in Periods, lastTick < DueAt(x.evt, i), DueAt(x.evt, i) <= turn.now
          PROVE  x.evt \in turn'.left \/ Got(handed, x.evt, DueAt(x.evt, i)) \/ SkippedNow(x.evt)
      <4>1. CASE x.evt = e
        BY <2>5, <3>1, <4>1
      <4>2. CASE x.evt # e
        BY <1>2, <1>4, <1>5, <3>1, <4>2 DEF PubInd, DueDelivered
      <4> QED BY <4>1, <4>2
    <3> QED BY <1>2, <1>4, <1>10, <2>1, <3>1, SkippedStays DEF PubInd, DueDelivered, Got, DueAt
  <2>9. OwnPeriods'
    BY <1>2, <1>4, <2>1 DEF PubInd, OwnPeriods
  <2> QED BY <2>3, <2>4, <2>7, <2>8, <2>9 DEF PubInd
<1> QED BY <1>11, <1>12

\* An event has as many copies as periods at most: two copies have two periods.
LEMMA CopiesHavePeriods ==
    ASSUME PubInd, NEW e \in Evts
    PROVE  Cardinality({m \in handed : m.evt = e /\ m.copy}) <= Len(replayAfter)
<1> DEFINE C == {m \in handed : m.evt = e /\ m.copy}
           Own(m, i) == DueAt(e, i) <= m.date /\ \A x \in C : x.date < m.date => x.date < DueAt(e, i)
           f == [m \in C |-> CHOOSE i \in Periods : Own(m, i)]
<1>1. C \subseteq Copies /\ \A m \in C : m \in PubMsgs /\ m.evt = e /\ m.copy = TRUE
  BY DEF Copies, Heard, PubInd, PubTypes, PubMsgs
<1>2. \A m \in C : m = [evt |-> e, date |-> m.date, copy |-> TRUE] /\ m.date \in Nat
  BY <1>1 DEF PubMsgs
<1>3. \A m \in C : \E i \in Periods : Own(m, i)
  BY <1>1 DEF PubInd, OwnPeriods
<1>4. \A i \in Periods : DueAt(e, i) \in Nat
  BY PubFacts, PeriodsSorted DEF DueAt
<1> HIDE DEF C
<1>5. \A m \in C : f[m] \in Periods /\ Own(m, f[m])
  <2> HIDE DEF Own
  <2> QED BY <1>3
<1>6. ASSUME NEW x \in C, NEW y \in C, f[x] = f[y] PROVE x = y
  <2>1. x.date \in Nat /\ y.date \in Nat /\ DueAt(e, f[x]) \in Nat
    BY <1>2, <1>4, <1>5
  <2>2. /\ DueAt(e, f[x]) <= x.date /\ DueAt(e, f[x]) <= y.date
        /\ y.date < x.date => y.date < DueAt(e, f[x])
        /\ x.date < y.date => x.date < DueAt(e, f[x])
    <3> HIDE DEF f
    <3> QED BY <1>5, <1>6
  <2>3. x.date = y.date
    <3> HIDE DEF f
    <3> QED BY <2>1, <2>2
  <2> QED BY <1>2, <2>3
<1>7. f \in [C -> Periods]
  <2> HIDE DEF Own
  <2> QED BY <1>3
<1> HIDE DEF f
<1>8. f \in Injection(C, Periods)
  BY <1>6, <1>7 DEF Injection, IsInjective
<1>9. IsFiniteSet(Periods) /\ Cardinality(Periods) = Len(replayAfter)
  <2>1. Periods = 1..Len(replayAfter) /\ Len(replayAfter) \in Nat \ {0}
    BY PeriodsSorted
  <2> QED BY <2>1, FS_Interval
<1> QED BY <1>8, <1>9, FS_Injection DEF C

LEMMA PubIndImplies ==
    ASSUME PubInd, Source = "evm"
    PROVE  ReplaysKeepPeriods
<1>1. PubTypeOK
  <2>1. \A m \in PubMsgs : m.evt \in Evts /\ m.date \in EvtDate[m.evt]..pubTime /\ m.copy \in BOOLEAN
    BY PubFacts DEF PubMsgs, PubInd, PubTypes
  <2>2. lastTick \in 0..pubTime
    BY PubFacts DEF PubInd, PubTypes
  <2> QED BY <2>1, <2>2 DEF PubTypeOK, PubInd, PubTypes, MutexHeld
<1>2. DeliveredAfterEachPeriod
  <2> SUFFICES ASSUME NEW m \in handed, NEW p \in ToSet(ReplayPeriods), EvtDate[m.evt] + p <= lastTick
               PROVE  \/ Missed(m.evt, EvtDate[m.evt] + p)
                      \/ \E x \in handed : x.evt = m.evt /\ x.date >= EvtDate[m.evt] + p
    BY DEF DeliveredAfterEachPeriod
  <2>1. PICK i \in Periods : replayAfter[i] = p
    BY PeriodsSorted
  <2>2. Got(handed, m.evt, DueAt(m.evt, i)) \/ Skipped(m.evt, i)
    BY <2>1 DEF PubInd, DueDelivered, DueAt
  <2>3. Skipped(m.evt, i) => Missed(m.evt, EvtDate[m.evt] + p)
    BY <2>1, PeriodsSorted DEF Skipped, Missed, DueAt
  <2> QED BY <2>1, <2>2, <2>3 DEF DueAt, Got
<1>3. ReplayedOncePerPeriod
  BY CopiesHavePeriods DEF ReplayedOncePerPeriod
<1> QED BY <1>1, <1>2, <1>3 DEF ReplaysKeepPeriods

\* The replayer hands every event over again after each of its periods, once per
\* period, whatever the order in which events are found, ticks are served and the
\* listener reads and however late the ticks are served, with the two gaps of
\* Missed: a turn that comes more than an interval after the last period, and one
\* that follows a turn at which another replay of the event was due to the unit.
THEOREM ReplaysAreKept ==
    ASSUME Source = "evm"
    PROVE  PubSpec => []ReplaysKeepPeriods
<1>1. PubInd /\ [PubNext]_pubVars => PubInd'
  <2> SUFFICES ASSUME PubInd, [PubNext]_pubVars PROVE PubInd'
    OBVIOUS
  <2>1. CASE PubAdvance
    BY <2>1, PubAdvanceKeeps
  <2>2. CASE PubCancel \/ Broadcast \/ (\E e \in Evts : Offer(e)) \/ UNCHANGED pubVars
    BY <2>2, PubOthersKeep
  <2>3. CASE \E e \in Evts : Collect(e)
    BY <2>3, CollectKeeps
  <2>4. CASE ReplayTick \/ ReplayNext \/ ReplayOver
    BY <2>4, ReplayTickKeeps, ReplayNextKeeps, ReplayOverKeeps
  <2>5. CASE HandOver
    BY <2>5, HandOverKeeps
  <2> QED BY <2>1, <2>2, <2>3, <2>4, <2>5 DEF PubNext, Replays
<1>2. PubInd => ReplaysKeepPeriods
  BY PubIndImplies
<1> QED BY <1>1, <1>2, PubInitInd, PTL DEF PubSpec
===============================================================================
