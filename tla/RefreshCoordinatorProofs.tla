----------------------- MODULE RefreshCoordinatorProofs -----------------------
(***************************************************************************)
(* What RefreshCoordinator does for any number of requests, readers, kinds *)
(* of refresh, local calls, faults and changes upstream.                   *)
(***************************************************************************)
EXTENDS RefreshCoordinator, TLAPS

(***************************************************************************)
(* Why the queue works.                                                    *)
(***************************************************************************)
\* Each writer but the first comes after a crash.
WritersAreCounted == /\ writer.gen <= faults + 1
                     /\ ~writer.up => writer.gen <= faults

\* What poll() holds while it answers is the outcome of a refresh of its kind.
AnswersWithOutcome ==
  /\ poll.at \in {"handling", "answering"} => poll.kind \in Kind
  /\ poll.at = "answering" => poll.out \in [ok : BOOLEAN, ver : Nat]

\* poll() has a refresh on the chain exactly while it waits for one.
OnChain(j) == job[j].st \in {"queued", "running"}
HandlingIsQueued == OnChain("poll") <=> poll.at = "handling"

\* The work on the chain is a line from the only piece that may run to tail.
IsLine(n, q) ==
  /\ \A i, k \in 1 .. n : q[i] = q[k] => i = k
  /\ \A j \in Job : OnChain(j) <=> \E i \in 1 .. n : q[i] = j
  /\ \A i \in 1 .. n : job[q[i]].after = IF i = 1 THEN NoJob ELSE q[i - 1]
  /\ \A i \in 1 .. n : job[q[i]].st = "running" => i = 1
  /\ tail = IF n = 0 THEN NoJob ELSE q[n]
ChainIsLine == \E n \in Nat : \E q \in [1 .. n -> Job] : IsLine(n, q)

\* Whatever the writer knows of is a request that has been made.
KnownIsAsked ==
  \A r \in Req :
    \/ file[r] # "none" \/ resp[r] # NoResponse
    \/ r \in poll.listing \union poll.claimed \union poll.batch \union poll.item
    => req[r] # "new"

\* A refresh that has begun, and its outcome, have seen every change that the requests
\* of the group were asked after; and these are of its kind.
GroupIsFresh ==
  /\ poll.at \in {"handling", "answering"} => \A r \in poll.batch : KindOf[r] = poll.kind
  /\ poll.at = "handling" /\ job["poll"].st = "running" =>
       \A r \in poll.batch : job["poll"].ver >= asked[r]
  /\ poll.at = "answering" => \A r \in poll.batch : poll.out.ver >= asked[r]
LocalIsFresh ==
  \A l \in Local : job[l].st \in {"running", "done"} => job[l].ver >= asked[l]
AskedBefore == \A x \in Calls : asked[x] <= upstream

\* A call only waits for a writer it knows, and what poll() is about to remove
\* has been answered.
WaitsForWriter == \A r \in Req : req[r] \in Waiting => reader[ReaderOf[r]].of # 0
ItemIsAnswered ==
  \A r \in poll.item : r \in answered /\ (Awaiting(r) => resp[r] # NoResponse)

\* Inductive, all together.
ChainInv == HandlingIsQueued /\ ChainIsLine
FreshInv == KnownIsAsked /\ GroupIsFresh /\ LocalIsFresh /\ AskedBefore /\ FreshAnswer
QueueInv == WaitsForWriter /\ ItemIsAnswered /\ WaitingIsQueued
CoordinatorInv ==
  /\ TypeOK /\ WritersAreCounted /\ AnswersWithOutcome
  /\ ChainInv /\ FreshInv /\ QueueInv
-----------------------------------------------------------------------------
\* One step from a state with the right types.
LEMMA TypeStep ==
  ASSUME TypeOK, WritersAreCounted, AnswersWithOutcome, HandlingIsQueued, [Next]_vars
  PROVE  TypeOK' /\ WritersAreCounted' /\ AnswersWithOutcome'
<1>. DEFINE Goal == TypeOK' /\ WritersAreCounted' /\ AnswersWithOutcome'
<1>. USE ReqAssumption, BoundAssumption, JobAssumption, ResponseAssumption
     DEF TypeOK, WritersAreCounted, AnswersWithOutcome, Polls, Response, Job, Calls,
         Waiting, Outcome, Idle, NotQueued, readerVars, fileVars, chainVars, history
<1>1. CASE Edit
  BY <1>1 DEF Edit
<1>2. CASE WriterCrash
  <2>1. /\ faults < MaxFaults /\ faults' = faults + 1 /\ writer.up
        /\ writer' = [writer EXCEPT !.up = FALSE]
        /\ poll' = Idle /\ tail' = NoJob /\ job' = [j \in Job |-> NotQueued]
        /\ UNCHANGED <<upstream, reader, req, file, whole, resp, asked, unread, answered>>
    BY <1>2 DEF WriterCrash
  <2>2. job' \in [Job -> [st : {"none", "queued", "running", "done"},
                         after : Job \union {NoJob}, ver : Nat]]
    BY <2>1
  <2>3. poll' \in Polls
    BY <2>1
  <2>4. WritersAreCounted' /\ AnswersWithOutcome' /\ faults' \in 0 .. MaxFaults
    BY <2>1
  <2>5. writer' \in [up : BOOLEAN, gen : 1 .. MaxFaults + 1]
    BY <2>1
  <2>. QED
    BY <2>1, <2>2, <2>3, <2>4, <2>5
<1>3. CASE StartWriter
  BY <1>3 DEF StartWriter
<1>4. CASE PollFails
  <2>1. file' \in [Req -> {"none", "request", "processing"}]
    BY <1>4 DEF PollFails
  <2>2. poll' \in Polls /\ AnswersWithOutcome'
    BY <1>4 DEF PollFails
  <2>. QED
    BY <1>4, <2>1, <2>2 DEF PollFails
<1>5. ASSUME NEW c \in Reader, StartReader(c) PROVE Goal
  BY <1>5 DEF StartReader
<1>6. ASSUME NEW c \in Reader, ReaderCrash(c) PROVE Goal
  <2>1. reader' \in [Reader -> [up : BOOLEAN, of : 0 .. MaxFaults + 1]]
    <3>1. reader[c] \in [up : BOOLEAN, of : 0 .. MaxFaults + 1]
      OBVIOUS
    <3>2. [reader[c] EXCEPT !.up = FALSE] \in [up : BOOLEAN, of : 0 .. MaxFaults + 1]
      BY ONLY <3>1
    <3>. QED
      BY <1>6, <3>2 DEF ReaderCrash
  <2>. QED
    BY <1>6, <2>1 DEF ReaderCrash
<1>7. ASSUME NEW r \in Req, Refuse(r) PROVE Goal
  BY <1>7 DEF Refuse
<1>8. ASSUME NEW r \in Req, CreateRequest(r) PROVE Goal
  BY <1>8 DEF CreateRequest
<1>9. ASSUME NEW r \in Req, TimeOut(r) PROVE Goal
  BY <1>9 DEF TimeOut, Settle
<1>10. ASSUME NEW r \in Req, WriteRequest(r) PROVE Goal
  BY <1>10 DEF WriteRequest
<1>11. ASSUME NEW r \in Req, TakeResponse(r) PROVE Goal
  BY <1>11 DEF TakeResponse, Settle
<1>12. ASSUME NEW r \in Req, MissWriter(r) PROVE Goal
  BY <1>12 DEF MissWriter, Settle
<1>13. ASSUME NEW l \in Local, CallLocal(l) PROVE Goal
  BY <1>13 DEF CallLocal, Enqueue
<1>14. CASE StartPoll
  BY <1>14 DEF StartPoll
<1>15. CASE EndGroup
  BY <1>15 DEF EndGroup
<1>16. ASSUME NEW k \in Kind, BeginGroup(k) PROVE Goal
  BY <1>16 DEF BeginGroup, Enqueue
<1>17. ASSUME NEW r \in Req, Claim(r) PROVE Goal
  <2>1. /\ poll.at = "claiming"
        /\ UNCHANGED <<upstream, faults, writer, reader, req, whole, resp, job, tail,
                       asked, answered>>
    BY <1>17 DEF Claim
  <2>2. /\ file' \in [Req -> {"none", "request", "processing"}]
        /\ unread' \subseteq Req
    BY <1>17 DEF Claim
  <2>3. CASE poll' = [poll EXCEPT !.listing = @ \ {r}]
    <3>1. poll' \in Polls /\ poll'.at = "claiming"
      BY <2>1, <2>3
    <3>. QED
      BY <2>1, <2>2, <3>1
  <2>4. CASE poll' = [poll EXCEPT !.listing = @ \ {r}, !.claimed = @ \union {r}]
    <3>1. poll' \in Polls /\ poll'.at = "claiming"
      BY <2>1, <2>4
    <3>. QED
      BY <2>1, <2>2, <3>1
  <2>. QED
    BY <1>17, <2>3, <2>4 DEF Claim
<1>18. ASSUME NEW r \in Req, Answer(r) PROVE Goal
  BY <1>18 DEF Answer
<1>19. ASSUME NEW r \in Req, Retire(r) PROVE Goal
  BY <1>19 DEF Retire
<1>20. ASSUME NEW j \in Job, StartJob(j) PROVE Goal
  BY <1>20 DEF StartJob
<1>21. ASSUME NEW j \in Job, FinishJob(j) PROVE Goal
  <2>1. PICK ok \in BOOLEAN :
          /\ job' = Settled(j, ok)
          /\ tail' = IF tail = j THEN NoJob ELSE tail
          /\ poll' = IF j # "poll" THEN poll
                     ELSE [poll EXCEPT !.at = "answering",
                             !.out = [ok |-> ok, ver |-> job[j].ver]]
    BY <1>21 DEF FinishJob
  <2>2. UNCHANGED <<upstream, faults, writer, reader, req, file, whole, resp, asked,
                    unread, answered>>
    BY <1>21 DEF FinishJob
  <2>3. job' \in [Job -> [st : {"none", "queued", "running", "done"},
                         after : Job \union {NoJob}, ver : Nat]]
    <3>. SUFFICES ASSUME NEW k \in Job
                  PROVE  job'[k] \in [st : {"none", "queued", "running", "done"},
                                      after : Job \union {NoJob}, ver : Nat]
      BY <2>1 DEF Settled
    <3>1. CASE k = j
      <4>1. job'[k] = [job[j] EXCEPT !.st = "done"]
        BY <2>1, <3>1 DEF Settled
      <4>. QED
        BY <4>1
    <3>2. CASE k # j /\ job[k].after = j
      <4>1. job'[k] = [job[k] EXCEPT !.after = NoJob]
        BY <2>1, <3>2 DEF Settled
      <4>. QED
        BY <4>1
    <3>3. CASE k # j /\ job[k].after # j
      BY <2>1, <3>3 DEF Settled
    <3>. QED
      BY <3>1, <3>2, <3>3
  <2>4. poll' \in Polls /\ AnswersWithOutcome'
    <3>1. CASE j # "poll"
      BY <2>1, <3>1
    <3>2. CASE j = "poll"
      <4>1. poll.at = "handling"
        BY <1>21, <3>2 DEF FinishJob, HandlingIsQueued, OnChain
      <4>2. poll' = [poll EXCEPT !.at = "answering",
                                 !.out = [ok |-> ok, ver |-> job[j].ver]]
        BY <2>1, <3>2
      <4>3. [ok |-> ok, ver |-> job[j].ver] \in [ok : BOOLEAN, ver : Nat]
        OBVIOUS
      <4>. QED
        BY <4>1, <4>2, <4>3
    <3>. QED
      BY <3>1, <3>2
  <2>5. tail' \in Job \union {NoJob}
    BY <2>1
  <2>. QED
    BY <2>2, <2>3, <2>4, <2>5
<1>22. CASE UNCHANGED vars
  BY <1>22 DEF vars
<1>23. ASSUME NEW r \in Req, ReadFails(r) PROVE Goal
  <2>1. /\ poll.at = "claiming" /\ poll' = [poll EXCEPT !.listing = @ \ {r}]
        /\ faults < MaxFaults /\ faults' = faults + 1
        /\ UNCHANGED <<upstream, writer, reader, req, whole, resp, job, tail, asked,
                       answered>>
    BY <1>23 DEF ReadFails
  <2>2. /\ file' \in [Req -> {"none", "request", "processing"}]
        /\ unread' \subseteq Req
    BY <1>23 DEF ReadFails
  <2>3. poll' \in Polls /\ poll'.at = "claiming"
    BY <2>1
  <2>4. faults' \in 0 .. MaxFaults /\ WritersAreCounted'
    BY <2>1
  <2>5. AnswersWithOutcome'
    BY <2>3
  <2>. QED
    BY <2>1, <2>2, <2>3, <2>4, <2>5
<1>. QED
  BY <1>1, <1>2, <1>3, <1>4, <1>5, <1>6, <1>7, <1>8, <1>9, <1>10, <1>11, <1>12, <1>13,
     <1>14, <1>15, <1>16, <1>17, <1>18, <1>19, <1>20, <1>21, <1>22, <1>23
  DEF Next, ReaderStep, PollStep, ChainStep
-----------------------------------------------------------------------------
(***************************************************************************)
(* The promise chain is a line of jobs, and only its head runs.            *)
(***************************************************************************)
LEMMA LineGrows ==
  ASSUME TypeOK, ChainIsLine, NEW j \in Job, ~OnChain(j), Enqueue(j)
  PROVE  /\ ChainIsLine'
         /\ \A k \in Job : OnChain(k)' <=> OnChain(k) \/ k = j
<1>0. PICK n \in Nat : \E q \in [1 .. n -> Job] : IsLine(n, q)
  BY DEF ChainIsLine
<1>1. PICK q \in [1 .. n -> Job] : IsLine(n, q)
  BY <1>0
<1>. DEFINE p == [i \in 1 .. n + 1 |-> IF i = n + 1 THEN j ELSE q[i]]
<1>2. /\ \A k \in Job : k # j => job'[k] = job[k]
      /\ job'[j].st = "queued" /\ job'[j].after = tail
      /\ tail' = j
  BY DEF Enqueue, TypeOK, NotQueued
<1>3. \A i \in 1 .. n : q[i] \in Job /\ q[i] # j
  BY <1>1 DEF IsLine
<1>4. p \in [1 .. n + 1 -> Job]
  BY <1>3
<1>5. \A k \in Job : OnChain(k)' <=> OnChain(k) \/ k = j
  BY <1>2 DEF OnChain
<1>6. \A i, k \in 1 .. n + 1 : p[i] = p[k] => i = k
  BY <1>1, <1>3 DEF IsLine
<1>7. ASSUME NEW k \in Job
      PROVE  OnChain(k)' <=> \E i \in 1 .. n + 1 : p[i] = k
  <2>1. CASE k = j
    <3>1. n + 1 \in 1 .. n + 1 /\ p[n + 1] = k
      BY <2>1
    <3>. QED
      BY <2>1, <1>5, <3>1
  <2>2. CASE k # j
    <3>1. (\E i \in 1 .. n + 1 : p[i] = k) <=> (\E i \in 1 .. n : q[i] = k)
      BY <2>2
    <3>. QED
      BY <2>2, <1>1, <1>5, <3>1 DEF IsLine
  <2>. QED
    BY <2>1, <2>2
<1>8. ASSUME NEW i \in 1 .. n + 1
      PROVE  /\ job'[p[i]].after = IF i = 1 THEN NoJob ELSE p[i - 1]
             /\ job'[p[i]].st = "running" => i = 1
  <2>1. CASE i = n + 1
    BY <2>1, <1>1, <1>2 DEF IsLine
  <2>2. CASE i \in 1 .. n
    BY <2>2, <1>1, <1>2, <1>3 DEF IsLine
  <2>. QED
    BY <2>1, <2>2
<1>9. tail' = p[n + 1] /\ n + 1 \in Nat
  BY <1>2
<1>10. IsLine(n + 1, p)'
  <2>. HIDE DEF p
  <2>. QED
    BY <1>6, <1>7, <1>8, <1>9 DEF IsLine
<1>. HIDE DEF p
<1>. QED
  BY <1>4, <1>5, <1>9, <1>10 DEF ChainIsLine

LEMMA HeadStarts ==
  ASSUME TypeOK, JobAssumption, ChainIsLine, NEW j \in Job, StartJob(j)
  PROVE  /\ ChainIsLine'
         /\ \A k \in Job : OnChain(k)' <=> OnChain(k)
<1>0. PICK n \in Nat : \E q \in [1 .. n -> Job] : IsLine(n, q)
  BY DEF ChainIsLine
<1>1. PICK q \in [1 .. n -> Job] : IsLine(n, q)
  BY <1>0
<1>2. /\ \A k \in Job : k # j => job'[k] = job[k]
      /\ job'[j].st = "running" /\ job'[j].after = job[j].after
      /\ job[j].st = "queued" /\ job[j].after = NoJob
      /\ tail' = tail
  BY DEF StartJob, TypeOK
<1>3. \A k \in Job : OnChain(k)' <=> OnChain(k)
  BY <1>2 DEF OnChain
<1>4. \A i \in 1 .. n : q[i] = j => i = 1
  BY <1>1, <1>2 DEF IsLine, JobAssumption, Job
<1>5. IsLine(n, q)'
  BY <1>1, <1>2, <1>3, <1>4 DEF IsLine
<1>. QED
  BY <1>3, <1>5 DEF ChainIsLine

LEMMA HeadLeaves ==
  ASSUME TypeOK, JobAssumption, ChainIsLine, NEW j \in Job, FinishJob(j)
  PROVE  /\ ChainIsLine'
         /\ \A k \in Job : OnChain(k)' <=> OnChain(k) /\ k # j
<1>0. PICK n \in Nat : \E q \in [1 .. n -> Job] : IsLine(n, q)
  BY DEF ChainIsLine
<1>1. PICK q \in [1 .. n -> Job] : IsLine(n, q)
  BY <1>0
<1>. DEFINE p == [i \in 1 .. n - 1 |-> q[i + 1]]
<1>2. /\ job[j].st = "running"
      /\ job'[j].st = "done"
      /\ \A k \in Job : k # j =>
           /\ job'[k].st = job[k].st
           /\ job'[k].after = IF job[k].after = j THEN NoJob ELSE job[k].after
      /\ tail' = IF tail = j THEN NoJob ELSE tail
  BY DEF FinishJob, Settled, TypeOK
<1>3. n >= 1 /\ q[1] = j
  BY <1>1, <1>2 DEF IsLine, OnChain
<1>4. \A i \in 2 .. n : q[i] \in Job /\ q[i] # j
  BY <1>1, <1>3 DEF IsLine
<1>5. \A k \in Job : OnChain(k)' <=> OnChain(k) /\ k # j
  BY <1>2 DEF OnChain
<1>6. p \in [1 .. n - 1 -> Job] /\ n - 1 \in Nat
  BY <1>3
<1>7. \A i, k \in 1 .. n - 1 : p[i] = p[k] => i = k
  BY <1>1, <1>3 DEF IsLine
<1>8. ASSUME NEW k \in Job
      PROVE  OnChain(k)' <=> \E i \in 1 .. n - 1 : p[i] = k
  <2>1. ASSUME NEW i \in 1 .. n - 1, p[i] = k PROVE OnChain(k)'
    BY <2>1, <1>1, <1>3, <1>4, <1>5 DEF IsLine
  <2>2. ASSUME OnChain(k)' PROVE \E i \in 1 .. n - 1 : p[i] = k
    <3>1. PICK i \in 1 .. n : q[i] = k
      BY <2>2, <1>1, <1>5 DEF IsLine
    <3>2. i # 1
      BY <3>1, <2>2, <1>3, <1>5
    <3>3. i - 1 \in 1 .. n - 1 /\ p[i - 1] = k
      BY <3>1, <3>2
    <3>. QED
      BY <3>3
  <2>. QED
    BY <2>1, <2>2
<1>9. ASSUME NEW i \in 1 .. n - 1
      PROVE  /\ job'[p[i]].after = IF i = 1 THEN NoJob ELSE p[i - 1]
             /\ job'[p[i]].st = "running" => i = 1
  <2>1. i + 1 \in 1 .. n /\ p[i] = q[i + 1] /\ q[i + 1] \in Job /\ q[i + 1] # j
    BY <1>4
  <2>2. job[q[i + 1]].after = q[i] /\ job[q[i + 1]].st # "running"
    BY <2>1, <1>1 DEF IsLine
  <2>3. CASE i = 1
    BY <2>1, <2>2, <2>3, <1>2, <1>3
  <2>4. CASE i # 1
    <3>1. q[i] # j /\ p[i - 1] = q[i]
      BY <2>4, <1>4
    <3>. QED
      BY <2>1, <2>2, <2>4, <3>1, <1>2
  <2>. QED
    BY <2>3, <2>4
<1>10. tail' = IF n - 1 = 0 THEN NoJob ELSE p[n - 1]
  BY <1>1, <1>2, <1>3, <1>4 DEF IsLine
<1>11. IsLine(n - 1, p)'
  <2>. HIDE DEF p
  <2>. QED
    BY <1>7, <1>8, <1>9, <1>10 DEF IsLine
<1>. HIDE DEF p
<1>. QED
  BY <1>5, <1>6, <1>11 DEF ChainIsLine

\* One step keeps the line, and poll()'s refresh on it while poll() waits.
LEMMA ChainStepHolds ==
  ASSUME TypeOK, ChainInv, [Next]_vars
  PROVE  ChainInv'
<1>. USE DEF ChainInv
<1>. "poll" \in Job /\ \A l \in Local : l \in Job /\ l # "poll"
  BY JobAssumption DEF Job
<1>1. ASSUME UNCHANGED <<job, tail>>, poll'.at = "handling" <=> poll.at = "handling"
      PROVE  ChainInv'
  <2>1. ChainIsLine'
    <3>1. PICK n \in Nat : \E q \in [1 .. n -> Job] : IsLine(n, q)
      BY DEF ChainIsLine
    <3>2. PICK q \in [1 .. n -> Job] : IsLine(n, q)
      BY <3>1
    <3>3. IsLine(n, q)'
      BY <1>1, <3>2 DEF IsLine, OnChain
    <3>. QED
      BY <3>3 DEF ChainIsLine
  <2>2. HandlingIsQueued'
    BY <1>1 DEF HandlingIsQueued, OnChain
  <2>. QED
    BY <2>1, <2>2
<1>2. CASE WriterCrash
  <2>1. /\ \A j \in Job : job'[j].st = "none"
        /\ tail' = NoJob /\ poll'.at = "idle"
    BY <1>2 DEF WriterCrash, NotQueued, Idle
  <2>2. IsLine(0, [i \in 1 .. 0 |-> "poll"])'
    BY <2>1 DEF IsLine, OnChain
  <2>3. [i \in 1 .. 0 |-> "poll"] \in [1 .. 0 -> Job]
    OBVIOUS
  <2>. QED
    BY <2>1, <2>2, <2>3 DEF ChainIsLine, HandlingIsQueued, OnChain
<1>3. ASSUME NEW l \in Local, CallLocal(l) PROVE ChainInv'
  <2>1. ~OnChain(l) /\ Enqueue(l) /\ poll' = poll
    BY <1>3 DEF CallLocal, OnChain
  <2>2. ChainIsLine' /\ \A k \in Job : OnChain(k)' <=> OnChain(k) \/ k = l
    BY <2>1, LineGrows
  <2>. QED
    BY <2>1, <2>2 DEF HandlingIsQueued
<1>4. ASSUME NEW k \in Kind, BeginGroup(k) PROVE ChainInv'
  <2>1. ~OnChain("poll") /\ Enqueue("poll") /\ poll'.at = "handling"
    BY <1>4 DEF BeginGroup, HandlingIsQueued, TypeOK, Polls
  <2>2. ChainIsLine' /\ OnChain("poll")'
    BY <2>1, LineGrows
  <2>. QED
    BY <2>1, <2>2 DEF HandlingIsQueued
<1>5. ASSUME NEW j \in Job, StartJob(j) PROVE ChainInv'
  <2>1. ChainIsLine' /\ \A k \in Job : OnChain(k)' <=> OnChain(k)
    BY <1>5, HeadStarts, JobAssumption
  <2>2. poll' = poll
    BY <1>5 DEF StartJob
  <2>. QED
    BY <2>1, <2>2 DEF HandlingIsQueued
<1>6. ASSUME NEW j \in Job, FinishJob(j) PROVE ChainInv'
  <2>1. ChainIsLine' /\ \A k \in Job : OnChain(k)' <=> OnChain(k) /\ k # j
    BY <1>6, HeadLeaves, JobAssumption
  <2>2. poll'.at = IF j # "poll" THEN poll.at ELSE "answering"
    BY <1>6 DEF FinishJob, TypeOK, Polls
  <2>. QED
    BY <2>1, <2>2 DEF HandlingIsQueued
<1>7. CASE Edit \/ StartWriter \/ UNCHANGED vars
  BY <1>1, <1>7 DEF Edit, StartWriter, vars, chainVars
<1>8. CASE PollFails
  BY <1>1, <1>8 DEF PollFails, chainVars, Idle
<1>9. ASSUME NEW c \in Reader, StartReader(c) \/ ReaderCrash(c) PROVE ChainInv'
  BY <1>1, <1>9 DEF StartReader, ReaderCrash, chainVars
<1>10. ASSUME NEW r \in Req, Refuse(r) \/ CreateRequest(r) \/ TimeOut(r) \/ ReaderStep(r)
       PROVE  ChainInv'
  BY <1>1, <1>10
  DEF Refuse, CreateRequest, TimeOut, ReaderStep, WriteRequest, TakeResponse, MissWriter,
      Settle, chainVars
<1>11. CASE StartPoll \/ EndGroup
  <2>1. UNCHANGED <<job, tail>> /\ poll.at # "handling"
    BY <1>11 DEF StartPoll, EndGroup, chainVars
  <2>2. poll'.at \in {"idle", "claiming"}
    <3>1. CASE StartPoll
      BY <3>1 DEF StartPoll, Idle
    <3>2. CASE EndGroup
      BY <3>2 DEF EndGroup, Idle
    <3>. QED
      BY <1>11, <3>1, <3>2
  <2>. QED
    BY <1>1, <2>1, <2>2
<1>12. ASSUME NEW r \in Req, Claim(r) \/ ReadFails(r) \/ Answer(r) \/ Retire(r)
       PROVE  ChainInv'
  <2>1. UNCHANGED <<job, tail>>
    BY <1>12 DEF Claim, ReadFails, Answer, Retire, chainVars
  <2>2. poll'.at = poll.at
    BY <1>12 DEF Claim, ReadFails, Answer, Retire, TypeOK, Polls
  <2>. QED
    BY <1>1, <2>1, <2>2
<1>. QED
  BY <1>2, <1>3, <1>4, <1>5, <1>6, <1>7, <1>8, <1>9, <1>10, <1>11, <1>12
  DEF Next, PollStep, ChainStep
-----------------------------------------------------------------------------
(***************************************************************************)
(* A call is answered by a refresh that began after it.                    *)
(***************************************************************************)
LEMMA FreshStep ==
  ASSUME TypeOK, TypeOK', ChainInv, AnswersWithOutcome, FreshInv, [Next]_vars
  PROVE  FreshInv'
<1>. USE JobAssumption
     DEF FreshInv, KnownIsAsked, GroupIsFresh, LocalIsFresh, AskedBefore, FreshAnswer
<1>. DEFINE JobRec == [st : {"none", "queued", "running", "done"},
                       after : Job \union {NoJob}, ver : Nat]
<1>0. /\ upstream \in Nat
      /\ \A x \in Calls : asked[x] \in Nat
      /\ asked \in [Calls -> Nat]
      /\ Req \subseteq Calls /\ Local \subseteq Calls /\ Local \subseteq Job
      /\ "poll" \in Job /\ "poll" \notin Local
      /\ job \in [Job -> JobRec] /\ poll \in Polls
      /\ poll.batch \subseteq Req
  BY BoundAssumption DEF TypeOK, Calls, Job, Polls
<1>1. CASE Edit
  BY <1>0, <1>1 DEF Edit, readerVars, fileVars, chainVars, history
<1>2. CASE WriterCrash
  BY <1>0, <1>2 DEF WriterCrash, readerVars, fileVars, history, Idle, NotQueued
<1>3. CASE StartWriter
  BY <1>0, <1>3 DEF StartWriter, readerVars, fileVars, chainVars, history
<1>4. CASE PollFails
  <2>1. /\ poll'.at = "idle" /\ poll'.listing = {} /\ poll'.claimed = {}
        /\ poll'.batch = {} /\ poll'.item = {}
        /\ UNCHANGED <<upstream, req, resp, job, asked>>
    BY <1>4 DEF PollFails, readerVars, chainVars, history, Idle
  <2>2. \A x \in Req : file'[x] # "none" => file[x] # "none"
    BY <1>4 DEF PollFails, TypeOK
  <2>. QED
    BY <1>0, <2>1, <2>2
<1>5. ASSUME NEW c \in Reader, StartReader(c) \/ ReaderCrash(c) PROVE FreshInv'
  BY <1>0, <1>5 DEF StartReader, ReaderCrash, fileVars, chainVars, history
<1>6. ASSUME NEW r \in Req, Refuse(r) PROVE FreshInv'
  BY <1>0, <1>6 DEF Refuse, fileVars, chainVars, history, TypeOK
<1>7. ASSUME NEW r \in Req, CreateRequest(r) PROVE FreshInv'
  <2>1. /\ req' = [req EXCEPT ![r] = "creating"] /\ req[r] = "new"
        /\ file' = [file EXCEPT ![r] = "request"]
        /\ asked' = [asked EXCEPT ![r] = upstream]
        /\ UNCHANGED <<upstream, resp, poll, job>>
    BY <1>7 DEF CreateRequest, chainVars
  <2>2. resp[r] = NoResponse /\ r \notin poll.batch /\ r \notin Local
    BY <2>1
  <2>3. KnownIsAsked'
    BY <2>1 DEF TypeOK
  <2>4. \A x \in Calls : x # r => asked'[x] = asked[x]
    BY <2>1, <1>0
  <2>5. GroupIsFresh' /\ LocalIsFresh' /\ FreshAnswer'
    BY <2>1, <2>2, <2>4, <1>0
  <2>6. AskedBefore'
    BY <2>1, <1>0
  <2>. QED
    BY <2>3, <2>5, <2>6
<1>8. ASSUME NEW r \in Req, WriteRequest(r) PROVE FreshInv'
  BY <1>0, <1>8 DEF WriteRequest, chainVars, history, TypeOK
<1>9. ASSUME NEW r \in Req, TimeOut(r) \/ TakeResponse(r) \/ MissWriter(r) PROVE FreshInv'
  <2>1. PICK outcome \in Outcome : Settle(r, outcome)
    BY <1>9 DEF TimeOut, TakeResponse, MissWriter, Outcome
  <2>. QED
    BY <2>1, <1>0 DEF Settle, Outcome, chainVars, history, TypeOK
<1>10. ASSUME NEW l \in Local, CallLocal(l) PROVE FreshInv'
  <2>1. /\ asked' = [asked EXCEPT ![l] = upstream]
        /\ job'[l].st = "queued" /\ \A j \in Job : j # l => job'[j] = job[j]
        /\ UNCHANGED <<upstream, req, file, resp, poll>>
    BY <1>10, <1>0 DEF CallLocal, Enqueue, NotQueued, readerVars, fileVars
  <2>2. \A x \in Calls : x # l => asked'[x] = asked[x]
    BY <2>1, <1>0
  <2>3. l \notin Req /\ l # "poll"
    OBVIOUS
  <2>. QED
    BY <2>1, <2>2, <2>3, <1>0
<1>11. CASE StartPoll
  <2>1. /\ poll'.at = "claiming" /\ poll'.listing = {r \in Req : file[r] # "none"}
        /\ poll'.claimed = {} /\ poll'.batch = {} /\ poll'.item = {}
        /\ UNCHANGED <<upstream, req, file, resp, job, asked>>
    BY <1>11 DEF StartPoll, Idle, readerVars, fileVars, chainVars, history
  <2>. QED
    BY <2>1, <1>0
<1>12. CASE EndGroup
  <2>1. /\ poll'.at \in {"idle", "claiming"}
        /\ poll'.listing = {} /\ poll'.batch = {} /\ poll'.item = {}
        /\ poll'.claimed = poll.claimed
        /\ UNCHANGED <<upstream, req, file, resp, job, asked>>
    BY <1>12 DEF EndGroup, Idle, readerVars, fileVars, chainVars, history
  <2>. QED
    BY <2>1, <1>0
<1>13. ASSUME NEW k \in Kind, BeginGroup(k) PROVE FreshInv'
  <2>1. /\ poll'.at = "handling" /\ poll'.kind = k
        /\ poll'.batch = {r \in poll.claimed : KindOf[r] = k}
        /\ poll'.claimed \subseteq poll.claimed
        /\ poll'.listing = poll.listing /\ poll'.item = poll.item
        /\ job'["poll"].st = "queued" /\ \A j \in Job : j # "poll" => job'[j] = job[j]
        /\ UNCHANGED <<upstream, req, file, resp, asked>>
    BY <1>13, <1>0 DEF BeginGroup, Enqueue, NotQueued, readerVars, fileVars, history, Polls
  <2>. QED
    BY <2>1, <1>0
<1>14. ASSUME NEW r \in Req, Claim(r) \/ ReadFails(r) PROVE FreshInv'
  <2>1. /\ poll.at = "claiming" /\ r \in poll.listing
        /\ UNCHANGED <<upstream, req, resp, job, asked>>
    BY <1>14 DEF Claim, ReadFails, readerVars, chainVars
  <2>2. \A x \in Req : file'[x] # "none" => file[x] # "none"
    BY <1>14 DEF Claim, ReadFails, TypeOK
  <2>3. /\ poll'.at = "claiming" /\ poll'.batch = poll.batch /\ poll'.item = poll.item
        /\ poll'.listing \union poll'.claimed \subseteq poll.listing \union poll.claimed
    <3>1. CASE poll' = [poll EXCEPT !.listing = @ \ {r}]
      BY <2>1, <3>1, <1>0 DEF Polls
    <3>2. CASE poll' = [poll EXCEPT !.listing = @ \ {r}, !.claimed = @ \union {r}]
      BY <2>1, <3>2, <1>0 DEF Polls
    <3>. QED
      BY <1>14, <3>1, <3>2 DEF Claim, ReadFails
  <2>. QED
    BY <2>1, <2>2, <2>3, <1>0
<1>15. ASSUME NEW r \in Req, Answer(r) PROVE FreshInv'
  <2>1. /\ poll.at = "answering" /\ r \in poll.batch
        /\ resp' = [resp EXCEPT ![r] = [ok |-> poll.out.ok, kind |-> poll.kind,
                                        ver |-> poll.out.ver]]
        /\ poll'.at = poll.at /\ poll'.out = poll.out /\ poll'.kind = poll.kind
        /\ poll'.listing = poll.listing /\ poll'.claimed = poll.claimed
        /\ poll'.batch = poll.batch /\ poll'.item = {r}
        /\ UNCHANGED <<upstream, req, file, job, asked>>
    BY <1>15, <1>0 DEF Answer, readerVars, chainVars, Polls
  <2>2. resp'[r].ver = poll.out.ver /\ resp'[r].kind = poll.kind
        /\ \A x \in Req : x # r => resp'[x] = resp[x]
    BY <2>1 DEF TypeOK
  <2>. QED
    BY <2>1, <2>2, <1>0
<1>16. ASSUME NEW r \in Req, Retire(r) PROVE FreshInv'
  <2>1. /\ poll'.at = poll.at /\ poll'.out = poll.out /\ poll'.kind = poll.kind
        /\ poll'.listing = poll.listing /\ poll'.claimed = poll.claimed
        /\ poll'.batch \subseteq poll.batch /\ poll'.item = {}
        /\ \A x \in Req : file'[x] # "none" => file[x] # "none"
        /\ UNCHANGED <<upstream, req, resp, job, asked>>
    BY <1>16, <1>0 DEF Retire, readerVars, chainVars, history, Polls, TypeOK
  <2>. QED
    BY <2>1, <1>0
<1>17. ASSUME NEW j \in Job, StartJob(j) PROVE FreshInv'
  <2>1. /\ job[j].st = "queued"
        /\ job'[j].st = "running" /\ job'[j].ver = upstream
        /\ \A i \in Job : i # j => job'[i] = job[i]
        /\ UNCHANGED <<upstream, req, file, resp, poll, asked>>
    BY <1>17, <1>0 DEF StartJob, readerVars, fileVars, history
  <2>. QED
    BY <2>1, <1>0
<1>18. ASSUME NEW j \in Job, FinishJob(j) PROVE FreshInv'
  <2>1. /\ job[j].st = "running" /\ job'[j].st = "done" /\ job'[j].ver = job[j].ver
        /\ \A i \in Job : i # j => job'[i].st = job[i].st /\ job'[i].ver = job[i].ver
        /\ UNCHANGED <<upstream, req, file, resp, asked>>
    BY <1>18, <1>0 DEF FinishJob, Settled, readerVars, fileVars, history
  <2>2. KnownIsAsked' /\ LocalIsFresh' /\ AskedBefore' /\ FreshAnswer'
    <3>1. /\ poll'.listing = poll.listing /\ poll'.claimed = poll.claimed
          /\ poll'.batch = poll.batch /\ poll'.item = poll.item
      BY <1>18, <1>0 DEF FinishJob, Polls
    <3>. QED
      BY <2>1, <3>1, <1>0
  <2>3. CASE j = "poll"
    <3>1. poll.at = "handling"
      BY <2>1, <2>3 DEF ChainInv, HandlingIsQueued, OnChain
    <3>2. /\ poll'.at = "answering" /\ poll'.out.ver = job["poll"].ver
          /\ poll'.batch = poll.batch /\ poll'.kind = poll.kind
      BY <1>18, <2>3, <1>0 DEF FinishJob, Polls
    <3>. QED
      BY <2>1, <2>2, <2>3, <3>1, <3>2, <1>0
  <2>4. CASE j # "poll"
    <3>1. poll' = poll
      BY <1>18, <2>4 DEF FinishJob
    <3>. QED
      BY <2>1, <2>2, <2>4, <3>1, <1>0
  <2>. QED
    BY <2>3, <2>4
<1>19. CASE UNCHANGED vars
  BY <1>19 DEF vars
<1>. QED
  BY <1>1, <1>2, <1>3, <1>4, <1>5, <1>6, <1>7, <1>8, <1>9, <1>10, <1>11, <1>12, <1>13,
     <1>14, <1>15, <1>16, <1>17, <1>18, <1>19
  DEF Next, ReaderStep, PollStep, ChainStep
-----------------------------------------------------------------------------
(***************************************************************************)
(* No call that still waits is forgotten.                                  *)
(***************************************************************************)
\* What the reader processes look like matters to QueueInv, not to the rest.
LEMMA QueueStep ==
  ASSUME TypeOK, TypeOK', AnswersWithOutcome, KnownIsAsked, QueueInv, [Next]_vars
  PROVE  QueueInv'
<1>. USE ReqAssumption
     DEF QueueInv, WaitsForWriter, ItemIsAnswered, WaitingIsQueued, Awaiting, RequesterRuns
<1>0. /\ \A r \in Req : ReaderOf[r] \in Reader
      /\ poll \in Polls
      /\ req \in [Req -> {"new"} \union Waiting \union Outcome]
      /\ file \in [Req -> {"none", "request", "processing"}]
      /\ resp \in [Req -> Response \union {NoResponse}]
      /\ poll.item \subseteq Req
  BY DEF TypeOK, Polls
<1>1. ASSUME UNCHANGED <<reader, req, file, resp, unread, answered>>,
             poll'.item \in {{}, poll.item}
      PROVE  QueueInv'
  BY <1>1
<1>2. CASE Edit \/ StartWriter \/ UNCHANGED vars
  BY <1>1, <1>2 DEF Edit, StartWriter, vars, readerVars, fileVars, history
<1>3. CASE WriterCrash
  BY <1>1, <1>3 DEF WriterCrash, Idle, readerVars, fileVars, history
<1>4. ASSUME NEW l \in Local, CallLocal(l) PROVE QueueInv'
  BY <1>1, <1>4 DEF CallLocal, readerVars, fileVars
<1>5. ASSUME NEW k \in Kind, BeginGroup(k) PROVE QueueInv'
  BY <1>0, <1>1, <1>5 DEF BeginGroup, readerVars, fileVars, history, Polls
<1>6. CASE StartPoll
  BY <1>1, <1>6 DEF StartPoll, Idle, readerVars, fileVars, history
<1>7. CASE EndGroup
  BY <1>1, <1>7 DEF EndGroup, Idle, readerVars, fileVars, history
<1>8. ASSUME NEW j \in Job, StartJob(j) PROVE QueueInv'
  BY <1>1, <1>8 DEF StartJob, readerVars, fileVars, history
<1>9. ASSUME NEW j \in Job, FinishJob(j) PROVE QueueInv'
  <2>1. UNCHANGED <<reader, req, file, resp, unread, answered>>
    BY <1>9 DEF FinishJob, readerVars, fileVars, history
  <2>2. poll'.item = poll.item
    BY <1>0, <1>9 DEF FinishJob, Polls
  <2>. QED
    BY <1>1, <2>1, <2>2
<1>10. ASSUME NEW c \in Reader, StartReader(c) PROVE QueueInv'
  <2>1. /\ reader[c].of = 0 /\ reader'[c].of \in {writer.gen, 0}
        /\ \A d \in Reader : d # c => reader'[d] = reader[d]
        /\ UNCHANGED <<poll, req, file, resp, unread, answered>>
    BY <1>10 DEF StartReader, fileVars, history, TypeOK
  <2>2. \A r \in Req : req[r] \in Waiting => ReaderOf[r] # c
    BY <2>1
  <2>. QED
    BY <1>0, <2>1, <2>2
<1>11. ASSUME NEW c \in Reader, ReaderCrash(c) PROVE QueueInv'
  <2>1. /\ \A d \in Reader : reader'[d].of = reader[d].of /\ (reader'[d].up => reader[d].up)
        /\ UNCHANGED <<poll, req, file, resp, unread, answered>>
    BY <1>11 DEF ReaderCrash, fileVars, history, TypeOK
  <2>. QED
    BY <1>0, <2>1
<1>12. ASSUME NEW r \in Req, Refuse(r) PROVE QueueInv'
  BY <1>0, <1>12 DEF Refuse, fileVars, history, Waiting
<1>13. ASSUME NEW r \in Req, CreateRequest(r) PROVE QueueInv'
  <2>1. /\ req[r] = "new" /\ req' = [req EXCEPT ![r] = "creating"]
        /\ file' = [file EXCEPT ![r] = "request"]
        /\ UNCHANGED <<reader, resp, poll, unread, answered>>
    BY <1>13 DEF CreateRequest
  <2>2. reader[ReaderOf[r]].of # 0
    BY <1>0, <1>13 DEF CreateRequest, WriterRuns, TypeOK
  <2>3. r \notin poll.item
    BY <2>1 DEF KnownIsAsked
  <2>. QED
    BY <1>0, <2>1, <2>2, <2>3
<1>14. ASSUME NEW r \in Req, WriteRequest(r) PROVE QueueInv'
  BY <1>0, <1>14 DEF WriteRequest, Waiting, history
<1>15. ASSUME NEW r \in Req, TimeOut(r) \/ TakeResponse(r) \/ MissWriter(r) PROVE QueueInv'
  <2>1. PICK outcome \in Outcome : Settle(r, outcome)
    BY <1>15 DEF TimeOut, TakeResponse, MissWriter, Outcome
  <2>. QED
    BY <2>1, <1>0 DEF Settle, Outcome, Waiting, history
<1>16. ASSUME NEW r \in Req, Claim(r) PROVE QueueInv'
  <2>1. UNCHANGED <<reader, req, resp, answered>>
    BY <1>16 DEF Claim, readerVars
  <2>2. poll'.item = poll.item
    BY <1>0, <1>16 DEF Claim, Polls
  <2>3. /\ unread \subseteq unread'
        /\ \A x \in Req : x # r => file'[x] = file[x]
        /\ file'[r] = "none" => file[r] = "none" \/ r \in unread' \/ ~RequesterRuns(r)
    BY <1>0, <1>16 DEF Claim
  <2>. QED
    BY <1>0, <2>1, <2>2, <2>3
<1>17. ASSUME NEW r \in Req, Answer(r) PROVE QueueInv'
  <2>1. /\ poll'.item = {r} /\ answered' = answered \union {r}
        /\ UNCHANGED <<reader, req, file, unread>>
    BY <1>0, <1>17 DEF Answer, readerVars, Polls
  <2>2. resp'[r] # NoResponse /\ \A x \in Req : x # r => resp'[x] = resp[x]
    <3>1. resp'[r] = [ok |-> poll.out.ok, kind |-> poll.kind, ver |-> poll.out.ver]
          /\ \A x \in Req : x # r => resp'[x] = resp[x]
      BY <1>0, <1>17 DEF Answer
    <3>2. [ok |-> poll.out.ok, kind |-> poll.kind, ver |-> poll.out.ver] \in Response
      BY <1>0, <1>17 DEF Answer, AnswersWithOutcome, Response
    <3>. QED
      BY <3>1, <3>2, ResponseAssumption
  <2>. QED
    BY <1>0, <2>1, <2>2
<1>18. ASSUME NEW r \in Req, Retire(r) PROVE QueueInv'
  <2>1. /\ r \in poll.item /\ poll'.item = {}
        /\ file' = [file EXCEPT ![r] = "none"]
        /\ UNCHANGED <<reader, req, resp, unread, answered>>
    BY <1>0, <1>18 DEF Retire, readerVars, history, Polls
  <2>. QED
    BY <1>0, <2>1
<1>19. ASSUME NEW r \in Req, ReadFails(r) PROVE QueueInv'
  <2>1. /\ UNCHANGED <<reader, req, resp, answered>>
        /\ unread \subseteq unread' /\ r \in unread'
        /\ \A x \in Req : x # r => file'[x] = file[x]
    BY <1>0, <1>19 DEF ReadFails, readerVars
  <2>2. poll'.item = poll.item
    BY <1>0, <1>19 DEF ReadFails, Polls
  <2>. QED
    BY <1>0, <2>1, <2>2
<1>20. CASE PollFails
  <2>1. /\ poll'.item = {}
        /\ UNCHANGED <<reader, req, resp, unread, answered>>
    BY <1>20 DEF PollFails, Idle, readerVars, history
  <2>2. \A x \in Req : file[x] # "none" => file'[x] # "none"
    BY <1>0, <1>20 DEF PollFails
  <2>. QED
    BY <1>0, <2>1, <2>2
<1>. QED
  BY <1>2, <1>3, <1>4, <1>5, <1>6, <1>7, <1>8, <1>9, <1>10, <1>11, <1>12, <1>13,
     <1>14, <1>15, <1>16, <1>17, <1>18, <1>19, <1>20
  DEF Next, ReaderStep, PollStep, ChainStep
-----------------------------------------------------------------------------
LEMMA InitHolds ==
  ASSUME Init
  PROVE  CoordinatorInv
<1>. USE ReqAssumption, BoundAssumption, JobAssumption DEF Init
<1>1. TypeOK
  <2>1. job \in [Job -> [st : {"none", "queued", "running", "done"},
                         after : Job \union {NoJob}, ver : Nat]]
    BY DEF NotQueued
  <2>2. poll \in Polls
    BY DEF Idle, Polls
  <2>. QED
    BY <2>1, <2>2 DEF TypeOK, Calls
<1>2. WritersAreCounted /\ AnswersWithOutcome
  BY DEF WritersAreCounted, AnswersWithOutcome, Idle
<1>3. ChainInv
  <2>1. /\ \A j \in Job : job[j].st = "none"
        /\ tail = NoJob /\ poll.at = "idle" /\ "poll" \in Job
    BY DEF NotQueued, Idle, Job
  <2>2. IsLine(0, [i \in 1 .. 0 |-> "poll"])
    BY <2>1 DEF IsLine, OnChain
  <2>3. [i \in 1 .. 0 |-> "poll"] \in [1 .. 0 -> Job]
    OBVIOUS
  <2>. QED
    BY <2>1, <2>2, <2>3 DEF ChainInv, ChainIsLine, HandlingIsQueued, OnChain
<1>4. FreshInv
  BY DEF FreshInv, KnownIsAsked, GroupIsFresh, LocalIsFresh, AskedBefore, FreshAnswer,
         Idle, NotQueued, Job
<1>5. QueueInv
  BY DEF QueueInv, WaitsForWriter, ItemIsAnswered, WaitingIsQueued, Awaiting, Waiting, Idle
<1>. QED
  BY <1>1, <1>2, <1>3, <1>4, <1>5 DEF CoordinatorInv

LEMMA StepHolds ==
  ASSUME CoordinatorInv, [Next]_vars
  PROVE  CoordinatorInv'
<1>1. TypeOK' /\ WritersAreCounted' /\ AnswersWithOutcome'
  BY TypeStep DEF CoordinatorInv, ChainInv
<1>2. ChainInv'
  BY ChainStepHolds DEF CoordinatorInv
<1>3. FreshInv'
  BY <1>1, FreshStep DEF CoordinatorInv
<1>4. QueueInv'
  BY <1>1, QueueStep DEF CoordinatorInv, FreshInv
<1>. QED
  BY <1>1, <1>2, <1>3, <1>4 DEF CoordinatorInv

\* The head of a line is the only piece of it that runs.
LEMMA LineRunsOne ==
  ASSUME ChainIsLine
  PROVE  OneJobAtATime
<1>1. PICK n \in Nat : \E q \in [1 .. n -> Job] : IsLine(n, q)
  BY DEF ChainIsLine
<1>2. PICK q \in [1 .. n -> Job] : IsLine(n, q)
  BY <1>1
<1>3. \A j \in Job : job[j].st = "running" => n >= 1 /\ q[1] = j
  BY <1>2 DEF IsLine, OnChain
<1>. QED
  BY <1>3 DEF OneJobAtATime

\* The invariant of the queue: the promise chain is a line of jobs, poll() has a
\* refresh on it while it waits for one, what it holds is fresh, and a call that
\* waits is on disk unless the writer could not read it.
THEOREM CoordinatorInvariant == Spec => []CoordinatorInv
<1>1. Init => CoordinatorInv
  BY InitHolds
<1>2. CoordinatorInv /\ [Next]_vars => CoordinatorInv'
  BY StepHolds
<1>. QED
  BY <1>1, <1>2, PTL DEF Spec

\* Type correctness, for any number of readers, requests and faults.
THEOREM TypeCorrect == Spec => []TypeOK
<1>1. CoordinatorInv => TypeOK
  BY DEF CoordinatorInv
<1>. QED
  BY <1>1, CoordinatorInvariant, PTL

\* "Serializes all handlers through one promise chain": enqueue() makes a line of
\* the local calls and poll()'s refreshes, so that no two of them ever run at once.
THEOREM OneAtATime == Spec => []OneJobAtATime
<1>1. CoordinatorInv => OneJobAtATime
  BY LineRunsOne DEF CoordinatorInv, ChainInv
<1>. QED
  BY <1>1, CoordinatorInvariant, PTL

\* A call of run() is never answered by a refresh that began before it was made,
\* nor by one of another kind.
THEOREM AnswersAreFresh == Spec => []FreshAnswer
<1>1. CoordinatorInv => FreshAnswer
  BY DEF CoordinatorInv, FreshInv
<1>. QED
  BY <1>1, CoordinatorInvariant, PTL

\* Over crashes, replaced writers and failed polls, a call of request() that still
\* waits has its request or its response on disk, unless the writer could not
\* read the request.
THEOREM WaitingQueued == Spec => []WaitingIsQueued
<1>1. CoordinatorInv => WaitingIsQueued
  BY DEF CoordinatorInv, QueueInv
<1>. QED
  BY <1>1, CoordinatorInvariant, PTL

\* A request file a writer has claimed is removed only when it has been answered,
\* when its process has died, or when the writer could not read it.
THEOREM AcceptedKept == Spec => AcceptedJobKept
<1>. DEFINE Kept == \A r \in Req : file[r] = "processing" /\ file'[r] = "none" =>
                      r \in answered \/ ~RequesterRuns(r) \/ r \in unread'
<1>1. CoordinatorInv /\ [Next]_vars => [Kept]_vars
  <2>. SUFFICES ASSUME CoordinatorInv, Next, NEW r \in Req,
                       file[r] = "processing", file'[r] = "none"
                PROVE  r \in answered \/ ~RequesterRuns(r) \/ r \in unread'
    OBVIOUS
  <2>1. file \in [Req -> {"none", "request", "processing"}] /\ ItemIsAnswered /\ file' # file
    BY DEF CoordinatorInv, TypeOK, QueueInv
  <2>2. ASSUME NEW x \in Req, Claim(x) PROVE r \in unread' \/ ~RequesterRuns(r)
    BY <2>1, <2>2 DEF Claim
  <2>6. ASSUME NEW x \in Req, ReadFails(x) PROVE r \in unread'
    BY <2>1, <2>6 DEF ReadFails
  <2>7. CASE PollFails
    BY <2>1, <2>7 DEF PollFails
  <2>3. ASSUME NEW x \in Req, Retire(x) PROVE r \in answered
    BY <2>1, <2>3 DEF Retire, ItemIsAnswered
  <2>4. ASSUME NEW x \in Req, CreateRequest(x) PROVE FALSE
    BY <2>1, <2>4 DEF CreateRequest
  <2>5. ASSUME NEW x \in Req, NEW outcome, Settle(x, outcome) PROVE FALSE
    BY <2>1, <2>5 DEF Settle
  <2>. QED
    BY <2>1, <2>2, <2>3, <2>4, <2>5, <2>6, <2>7
    DEF Next, ReaderStep, PollStep, ChainStep, Edit, WriterCrash, StartWriter,
        StartReader, ReaderCrash, Refuse, TimeOut, WriteRequest, TakeResponse, MissWriter,
        CallLocal, StartPoll, EndGroup, BeginGroup, Answer, StartJob, FinishJob, fileVars
<1>2. [][Kept]_vars => AcceptedJobKept
  BY PTL DEF AcceptedJobKept
<1>. QED
  BY <1>1, <1>2, CoordinatorInvariant, PTL DEF Spec
=============================================================================
