------------------------- MODULE RefreshCoordinator -------------------------
(***************************************************************************)
(* The refresh queue of src/src/runtime/refresh-coordinator.ts.  Reader    *)
(* processes leave request files beside the cache; the one process that    *)
(* holds the writer lease polls for them, runs one refresh for all the     *)
(* requests of a kind it found together, and leaves a response file for    *)
(* each.  The writer's own tool calls and these refreshes go through one   *)
(* promise chain.                                                          *)
(*                                                                         *)
(* Steps are the file system calls and the await points.  The writer may   *)
(* crash at any of them and be replaced by a new process; a reader may     *)
(* crash, or give up waiting.                                              *)
(***************************************************************************)
EXTENDS Naturals, FiniteSets

CONSTANTS
  Req,        \* request ids (randomUUID: each is used once)
  Reader,     \* reader processes
  Kind,       \* the refresh kinds
  Local,      \* calls of run() in the writer process: tools and the interval
  ReaderOf,   \* ReaderOf[r]: the process that makes request r
  KindOf,     \* KindOf[r]: the refresh it asks for
  NoResponse, \* the response file does not exist
  NoJob,      \* the head of the promise chain: Promise.resolve()
  MaxEdits,   \* bound: changes made upstream
  MaxFaults   \* bound: writer crashes and file operations of poll() that throw

ASSUME ReqAssumption == /\ ReaderOf \in [Req -> Reader]
                        /\ KindOf \in [Req -> Kind]
ASSUME BoundAssumption == MaxEdits \in Nat /\ MaxFaults \in Nat
ASSUME JobAssumption == /\ "poll" \notin Local /\ NoJob \notin Local \union {"poll"}
                        /\ Req \cap Local = {}

VARIABLES
  upstream,   \* how many changes the upstream data has seen
  faults,     \* writer crashes and failed file operations so far
  writer,     \* [up, gen]: is a writer running, and which one (its pid)
  reader,     \* [up, of]: is the process running, and the writerPid it holds
  req,        \* req[r]: where the call request() for r is
  file,       \* file[r]: the request file: none, request or processing
  whole,      \* the requests whose file has been written, not only created
  resp,       \* resp[r]: the response file
  poll,       \* the writer's poll(): where it is and what it holds
  job,        \* job[j]: a piece of work on the promise chain
  tail,       \* localTail: the last job put on the chain
  asked,      \* history: upstream when a request or local call was made
  unread,     \* history: requests removed because the writer could not read them
  answered    \* history: requests a response was published for

vars == <<upstream, faults, writer, reader, req, file, whole, resp, poll, job,
          tail, asked, unread, answered>>
readerVars == <<reader, req>>
fileVars == <<file, whole, resp>>
chainVars == <<job, tail>>
history == <<asked, unread, answered>>

Job == Local \union {"poll"}
Calls == Req \union Local

Waiting == {"creating", "waiting"}
Outcome == {"returned", "thrown"}

Response == [ok : BOOLEAN, kind : Kind, ver : Nat]
ASSUME ResponseAssumption == NoResponse \notin Response

Idle == [at |-> "idle", listing |-> {}, claimed |-> {}, batch |-> {},
         kind |-> NoResponse, out |-> NoResponse, item |-> {}]
NotQueued == [st |-> "none", after |-> NoJob, ver |-> 0]

\* process.kill(writerPid, 0): the writer this reader found is still there.
WriterRuns(c) == writer.up /\ reader[c].of = writer.gen
RequesterRuns(r) == reader[ReaderOf[r]].up

\* A reader call that is still going on in a live process.
Awaiting(r) == req[r] \in Waiting /\ RequesterRuns(r)

Init ==
  /\ upstream = 0
  /\ faults = 0
  /\ writer = [up |-> TRUE, gen |-> 1]
  /\ reader = [c \in Reader |-> [up |-> FALSE, of |-> 0]]
  /\ req = [r \in Req |-> "new"]
  /\ file = [r \in Req |-> "none"]
  /\ whole = {}
  /\ resp = [r \in Req |-> NoResponse]
  /\ poll = Idle
  /\ job = [j \in Job |-> NotQueued]
  /\ tail = NoJob
  /\ asked = [x \in Calls |-> 0]
  /\ unread = {}
  /\ answered = {}
-----------------------------------------------------------------------------
(***************************************************************************)
(* The world around the queue.                                             *)
(***************************************************************************)
Edit ==
  /\ upstream < MaxEdits
  /\ upstream' = upstream + 1
  /\ UNCHANGED <<faults, writer, readerVars, fileVars, poll, chainVars, history>>

\* A process loses the lease: it learns the writer's pid, or no pid at all.
StartReader(c) ==
  /\ reader[c] = [up |-> FALSE, of |-> 0]
  /\ writer.up
  /\ \E gen \in {writer.gen, 0} :
       reader' = [reader EXCEPT ![c] = [up |-> TRUE, of |-> gen]]
  /\ UNCHANGED <<upstream, faults, writer, req, fileVars, poll, chainVars, history>>

\* The reader process is killed; its files stay.
ReaderCrash(c) ==
  /\ reader[c].up
  /\ reader' = [reader EXCEPT ![c].up = FALSE]
  /\ UNCHANGED <<upstream, faults, writer, req, fileVars, poll, chainVars, history>>

\* The writer process is gone, and with it its poll and its promise chain.  So it
\* is after a clean shutdown: stop() clears the timer, and a poll in flight goes
\* on until the process exits, which may be at any of its steps.
WriterCrash ==
  /\ writer.up /\ faults < MaxFaults
  /\ faults' = faults + 1
  /\ writer' = [writer EXCEPT !.up = FALSE]
  /\ poll' = Idle
  /\ job' = [j \in Job |-> NotQueued]
  /\ tail' = NoJob
  /\ UNCHANGED <<upstream, readerVars, fileVars, history>>

\* Another process takes the lease and calls start(): a new pid.
StartWriter ==
  /\ ~writer.up
  /\ writer' = [up |-> TRUE, gen |-> writer.gen + 1]
  /\ UNCHANGED <<upstream, faults, readerVars, fileVars, poll, chainVars, history>>
-----------------------------------------------------------------------------
(***************************************************************************)
(* A reader's call: run() and request().                                   *)
(***************************************************************************)
\* No writerPid, or a writer that has exited: the call throws.
Refuse(r) ==
  /\ req[r] = "new" /\ RequesterRuns(r)
  /\ ~WriterRuns(ReaderOf[r])
  /\ req' = [req EXCEPT ![r] = "thrown"]
  /\ UNCHANGED <<upstream, faults, writer, reader, fileVars, poll, chainVars, history>>

\* writeFileSync(requestPath, ..., wx) first creates an empty file ...
CreateRequest(r) ==
  /\ req[r] = "new" /\ RequesterRuns(r)
  /\ WriterRuns(ReaderOf[r])
  /\ req' = [req EXCEPT ![r] = "creating"]
  /\ file' = [file EXCEPT ![r] = "request"]
  /\ asked' = [asked EXCEPT ![r] = upstream]
  /\ UNCHANGED <<upstream, faults, writer, reader, whole, resp, poll, chainVars,
                 unread, answered>>

\* ... and then writes to it, under whatever name it has, or none, by then.
WriteRequest(r) ==
  /\ req[r] = "creating" /\ RequesterRuns(r)
  /\ req' = [req EXCEPT ![r] = "waiting"]
  /\ whole' = IF file[r] = "none" THEN whole ELSE whole \union {r}
  /\ UNCHANGED <<upstream, faults, writer, reader, file, resp, poll, chainVars,
                 history>>

\* The `finally` of request(): the request and the response go, a file the
\* writer has claimed stays.
M_CleanAll(r, outcome) ==
  /\ req' = [req EXCEPT ![r] = outcome]
  /\ file' = [file EXCEPT ![r] = "none"]
  /\ resp' = [resp EXCEPT ![r] = NoResponse]
  /\ UNCHANGED <<upstream, faults, writer, reader, whole, poll, chainVars, history>>
Settle(r, outcome) ==
  /\ req' = [req EXCEPT ![r] = outcome]
  /\ file' = [file EXCEPT ![r] = IF @ = "request" THEN "none" ELSE @]
  /\ resp' = [resp EXCEPT ![r] = NoResponse]
  /\ UNCHANGED <<upstream, faults, writer, reader, whole, poll, chainVars, history>>

TakeResponse(r) ==
  /\ req[r] = "waiting" /\ RequesterRuns(r)
  /\ resp[r] # NoResponse
  /\ Settle(r, IF resp[r].ok THEN "returned" ELSE "thrown")

\* The response was not there, and then the writer does not run: the call gives
\* up, even if the writer has answered between the two looks.
MissWriter(r) ==
  /\ req[r] = "waiting" /\ RequesterRuns(r)
  /\ ~WriterRuns(ReaderOf[r])
  /\ Settle(r, "thrown")

\* 55 s have passed.
TimeOut(r) ==
  /\ req[r] = "waiting" /\ RequesterRuns(r)
  /\ Settle(r, "thrown")
-----------------------------------------------------------------------------
(***************************************************************************)
(* The writer's promise chain: enqueue().                                  *)
(***************************************************************************)
\* Work put on the chain waits for the promise that was last on it.
M_EnqueueNow(j) ==
  /\ job' = [job EXCEPT ![j] = [NotQueued EXCEPT !.st = "queued"]]
  /\ tail' = j
Enqueue(j) ==
  /\ job' = [job EXCEPT ![j] = [NotQueued EXCEPT !.st = "queued", !.after = tail]]
  /\ tail' = j

\* run() in the writer process.
CallLocal(l) ==
  /\ writer.up
  /\ job[l].st = "none"
  /\ Enqueue(l)
  /\ asked' = [asked EXCEPT ![l] = upstream]
  /\ UNCHANGED <<upstream, faults, writer, readerVars, fileVars, poll, unread, answered>>

\* The predecessor has settled: the work starts, and sees upstream as it is now.
StartJob(j) ==
  /\ job[j].st = "queued" /\ job[j].after = NoJob
  /\ job' = [job EXCEPT ![j].st = "running", ![j].ver = upstream]
  /\ UNCHANGED <<upstream, faults, writer, readerVars, fileVars, poll, tail, history>>

\* The work has settled, with a result or an error: its promise is resolved
\* for whoever waits for it, on the chain or in poll().
M_Settled(j, ok) ==
  [k \in Job |->
     IF k = j THEN [job[j] EXCEPT !.st = "done"]
     ELSE IF job[k].after = j /\ ok THEN [job[k] EXCEPT !.after = NoJob] ELSE job[k]]
Settled(j, ok) ==
  [k \in Job |->
     IF k = j THEN [job[j] EXCEPT !.st = "done"]
     ELSE IF job[k].after = j THEN [job[k] EXCEPT !.after = NoJob] ELSE job[k]]

FinishJob(j) ==
  /\ job[j].st = "running"
  /\ \E ok \in BOOLEAN :
       /\ job' = Settled(j, ok)
       /\ tail' = IF tail = j THEN NoJob ELSE tail
       /\ poll' = IF j # "poll" THEN poll
                  ELSE [poll EXCEPT !.at = "answering",
                          !.out = [ok |-> ok, ver |-> job[j].ver]]
  /\ UNCHANGED <<upstream, faults, writer, readerVars, fileVars, history>>
-----------------------------------------------------------------------------
(***************************************************************************)
(* The writer's poll().                                                    *)
(***************************************************************************)
\* readdirSync, when no earlier poll is still at work.
StartPoll ==
  /\ writer.up /\ poll.at = "idle"
  /\ \E r \in Req : file[r] # "none"
  /\ poll' = [Idle EXCEPT !.at = "claiming",
                          !.listing = {r \in Req : file[r] # "none"}]
  /\ UNCHANGED <<upstream, faults, writer, readerVars, fileVars, chainVars, history>>

\* One name of the listing: the rename to .processing, unless the reader has
\* withdrawn the file, and the parse of what is in it.  It is kept for this poll
\* when it is whole and its process runs, and removed otherwise.  A half-written
\* one does not parse.
Claim(r) ==
  /\ poll.at = "claiming" /\ r \in poll.listing
  /\ LET accepted == r \in whole /\ RequesterRuns(r) IN
     \/ /\ file[r] = "none"
        /\ poll' = [poll EXCEPT !.listing = @ \ {r}]
        /\ UNCHANGED <<file, unread>>
     \/ /\ file[r] # "none" /\ accepted
        /\ poll' = [poll EXCEPT !.listing = @ \ {r}, !.claimed = @ \union {r}]
        /\ file' = [file EXCEPT ![r] = "processing"]
        /\ UNCHANGED unread
     \/ /\ file[r] # "none" /\ ~accepted
        /\ poll' = [poll EXCEPT !.listing = @ \ {r}]
        /\ file' = [file EXCEPT ![r] = "none"]
        /\ unread' = IF r \in whole THEN unread ELSE unread \union {r}
  /\ UNCHANGED <<upstream, faults, writer, readerVars, whole, resp, chainVars,
                 asked, answered>>

\* readFileSync throws: the same catch takes that for a corrupt request and
\* removes the file, whole or not, running requester or not.
ReadFails(r) ==
  /\ poll.at = "claiming" /\ r \in poll.listing /\ file[r] # "none"
  /\ faults < MaxFaults
  /\ faults' = faults + 1
  /\ poll' = [poll EXCEPT !.listing = @ \ {r}]
  /\ file' = [file EXCEPT ![r] = "none"]
  /\ unread' = unread \union {r}
  /\ UNCHANGED <<upstream, writer, readerVars, whole, resp, chainVars, asked,
                 answered>>

\* All claimed requests of one kind are answered by one call of its handler,
\* which goes to the end of the promise chain.
M_JoinRunning(k) ==
  /\ poll.at = "claiming" /\ poll.listing = {}
  /\ \E r \in poll.claimed : KindOf[r] = k
  /\ poll' = [poll EXCEPT !.at = "handling",
                          !.batch = {r \in poll.claimed : KindOf[r] = k},
                          !.claimed = {r \in @ : KindOf[r] # k}, !.kind = k]
  /\ IF \E l \in Local : job[l].st = "running"
     THEN \E l \in Local :
            /\ job[l].st = "running"
            /\ job' = [job EXCEPT !["poll"] = job[l]]
            /\ UNCHANGED tail
     ELSE Enqueue("poll")
  /\ UNCHANGED <<upstream, faults, writer, readerVars, fileVars, history>>
BeginGroup(k) ==
  /\ poll.at = "claiming" /\ poll.listing = {}
  /\ \E r \in poll.claimed : KindOf[r] = k
  /\ poll' = [poll EXCEPT !.at = "handling",
                          !.batch = {r \in poll.claimed : KindOf[r] = k},
                          !.claimed = {r \in @ : KindOf[r] # k}, !.kind = k]
  /\ Enqueue("poll")
  /\ UNCHANGED <<upstream, faults, writer, readerVars, fileVars, history>>

\* The response of one request of the group appears, whole, by a rename.
Answer(r) ==
  /\ poll.at = "answering" /\ poll.item = {} /\ r \in poll.batch
  /\ resp' = [resp EXCEPT ![r] = [ok |-> poll.out.ok, kind |-> poll.kind,
                                  ver |-> poll.out.ver]]
  /\ poll' = [poll EXCEPT !.item = {r}]
  /\ answered' = answered \union {r}
  /\ UNCHANGED <<upstream, faults, writer, readerVars, file, whole, chainVars,
                 asked, unread>>

\* Then its request is removed.
M_RetireGroup(r) ==
  /\ poll.at = "answering" /\ poll.item = {r}
  /\ file' = [q \in Req |-> IF q \in poll.batch THEN "none" ELSE file[q]]
  /\ poll' = [poll EXCEPT !.item = {}, !.batch = {}]
  /\ UNCHANGED <<upstream, faults, writer, readerVars, whole, resp, chainVars,
                 history>>
Retire(r) ==
  /\ poll.at = "answering" /\ poll.item = {r}
  /\ file' = [file EXCEPT ![r] = "none"]
  /\ poll' = [poll EXCEPT !.item = {}, !.batch = @ \ {r}]
  /\ UNCHANGED <<upstream, faults, writer, readerVars, whole, resp, chainVars,
                 history>>

\* The group is done, or nothing was claimed: on to the next kind, or the end.
EndGroup ==
  /\ \/ poll.at = "answering"
     \/ poll.at = "claiming" /\ poll.listing = {} /\ poll.claimed = {}
  /\ poll.batch = {}
  /\ poll' = IF poll.claimed = {} THEN Idle
             ELSE [Idle EXCEPT !.at = "claiming", !.claimed = poll.claimed]
  /\ UNCHANGED <<upstream, faults, writer, readerVars, fileVars, chainVars, history>>

\* Another file operation of poll() throws: what it has claimed, or renamed just
\* now and could not remove, is left for a later poll.
M_PollSticks ==
  /\ poll.at \in {"claiming", "answering"} /\ faults < MaxFaults
  /\ faults' = faults + 1
  /\ poll' = [Idle EXCEPT !.at = "stuck"]
  /\ UNCHANGED <<upstream, writer, readerVars, fileVars, chainVars, history>>
PollFails ==
  /\ poll.at \in {"claiming", "answering"} /\ faults < MaxFaults
  /\ faults' = faults + 1
  /\ poll' = Idle
  /\ \/ UNCHANGED file
     \/ \E r \in poll.listing : /\ file[r] # "none"
                               /\ file' = [file EXCEPT ![r] = "processing"]
  /\ UNCHANGED <<upstream, writer, readerVars, whole, resp, chainVars, history>>
-----------------------------------------------------------------------------
ReaderStep(r) ==
  WriteRequest(r) \/ TakeResponse(r) \/ MissWriter(r)

PollStep ==
  \/ StartPoll \/ EndGroup
  \/ \E k \in Kind : BeginGroup(k)
  \/ \E r \in Req : Claim(r) \/ Answer(r) \/ Retire(r)

ChainStep == \E j \in Job : StartJob(j) \/ FinishJob(j)

Next ==
  \/ Edit \/ WriterCrash \/ StartWriter \/ PollFails
  \/ \E c \in Reader : StartReader(c) \/ ReaderCrash(c)
  \/ \E r \in Req : \/ Refuse(r) \/ CreateRequest(r) \/ TimeOut(r) \/ ReaderStep(r)
                    \/ ReadFails(r)
  \/ \E l \in Local : CallLocal(l)
  \/ PollStep \/ ChainStep

\* The event loop of a live process comes back to its timers and callbacks, and
\* a refresh ends.  Nobody has to make a call, crash, or start a process.
Fairness ==
  /\ WF_vars(PollStep)
  /\ \A j \in Job : WF_vars(StartJob(j) \/ FinishJob(j))
  /\ \A r \in Req : WF_vars(ReaderStep(r))

Spec == Init /\ [][Next]_vars /\ Fairness
-----------------------------------------------------------------------------
\* What poll() may hold at an await.
Polls == [at : {"idle", "claiming", "handling", "answering"},
          listing : SUBSET Req, claimed : SUBSET Req, batch : SUBSET Req, item : SUBSET Req,
          kind : Kind \union {NoResponse},
          out : [ok : BOOLEAN, ver : Nat] \union {NoResponse}]

\* Type invariant; a response always says what became of which kind of refresh.
TypeOK ==
  /\ upstream \in 0 .. MaxEdits /\ faults \in 0 .. MaxFaults
  /\ writer \in [up : BOOLEAN, gen : 1 .. MaxFaults + 1]
  /\ reader \in [Reader -> [up : BOOLEAN, of : 0 .. MaxFaults + 1]]
  /\ req \in [Req -> {"new"} \union Waiting \union Outcome]
  /\ file \in [Req -> {"none", "request", "processing"}]
  /\ whole \subseteq Req /\ unread \subseteq Req /\ answered \subseteq Req
  /\ resp \in [Req -> Response \union {NoResponse}]
  /\ poll \in Polls
  /\ job \in [Job -> [st : {"none", "queued", "running", "done"},
                      after : Job \union {NoJob}, ver : Nat]]
  /\ tail \in Job \union {NoJob}
  /\ asked \in [Calls -> 0 .. MaxEdits]

\* "Serializes all handlers through one promise chain": whatever readers and
\* local calls do, two refreshes never run at the same time.
OneJobAtATime ==
  \A i, j \in Job : job[i].st = "running" /\ job[j].st = "running" => i = j

\* A refresh forces a re-sync: the run a call is answered with started after the
\* call was made, so it has seen every change made upstream before it; and it is
\* a run of the kind that was asked for.
FreshAnswer ==
  /\ \A r \in Req : resp[r] # NoResponse /\ resp[r].ok =>
       resp[r].ver >= asked[r] /\ resp[r].kind = KindOf[r]
  /\ \A l \in Local : job[l].st = "done" => job[l].ver >= asked[l]

\* A call that is waiting has its request or its response on disk; the one
\* exception is a request the writer could not read, half-written or not.
WaitingIsQueued ==
  \A r \in Req : Awaiting(r) =>
    file[r] # "none" \/ resp[r] # NoResponse \/ r \in unread

\* "Leaving it in place on timeout lets a replacement writer recover it": a claimed
\* request only goes when it has been answered, its process has died, or a writer
\* could not read it.  A timeout of the call, a crash or a failed poll of the
\* writer leave it for a later poll.
AcceptedJobKept ==
  [][\A r \in Req : file[r] = "processing" /\ file'[r] = "none" =>
       r \in answered \/ ~RequesterRuns(r) \/ r \in unread']_vars

\* Once there is a writer that stays, every request file is dealt with: nothing
\* a dead reader, a dead writer or a failed poll left behind blocks the queue.
QueueDrains ==
  <>[](writer.up) => \A r \in Req : file[r] # "none" ~> file[r] = "none"

\* A failed or slow refresh does not break the chain: work put on it is settled.
ChainMoves ==
  <>[](writer.up) =>
    \A j \in Job : job[j].st \in {"queued", "running"}
                     ~> job[j].st \notin {"queued", "running"}
=============================================================================
