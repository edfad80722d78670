-------------------------------- MODULE Dcp --------------------------------
(***************************************************************************)
(* The driver of the DCP coprocessor (src/decept/dcp/dcp.cpp) together     *)
(* with the coprocessor itself, which runs concurrently with the program.  *)
(*                                                                         *)
(* A task is an execution context of the program: the main loop, or an     *)
(* interrupt handler or thread that may run between any two of its steps.  *)
(* A task makes one blocking call at a time.  Every such call hands one    *)
(* work packet to a channel (scheduleWork), spins until the channel is no  *)
(* longer active and then reads how the job ended (isChannelComplete, or   *)
(* waitForChannelComplete, which takes the same steps).                    *)
(***************************************************************************)
EXTENDS Integers

CONSTANTS Tasks,       \* the execution contexts of the program
          Channels,    \* the DCP's channels, kChannel0 .. kChannel3
          NoTask,      \* the command pointer of a channel never used
          ChannelsOf,  \* the channels each task submits its jobs to
          ClearsErrorCode, \* whether clearing the eight status flags of a
                           \* channel also clears its error code
          MaxSema      \* bound: how many counts failed jobs leave behind on
                       \* a channel's semaphore

ASSUME DcpAssumption ==
  /\ NoTask \notin Tasks
  /\ ChannelsOf \in [Tasks -> SUBSET Channels]
  /\ ClearsErrorCode \in BOOLEAN
  /\ MaxSema \in Nat

\* The tasks whose channels no other task uses: how a program must assign
\* channels if calls of a task are to be undisturbed by those of the others.
Owners ==
  {t \in Tasks : \A u \in Tasks \ {t} : ChannelsOf[t] \cap ChannelsOf[u] = {}}

VARIABLES clockOn,  \* CCM::CCGR0::DCP
          busy,     \* STAT.READY_CHANNELS: the channel is active
          cmd,      \* CHnCMDPTR: whose work packet the channel points to
          sema,     \* CHnSEMA.VALUE
          err,      \* CHnSTAT.ERROR_CODE # 0
          pc,       \* where each task is in its current call
          chan,     \* the channel of that call
          outcome   \* history: how the hardware ended the call's job

hwVars   == <<busy, cmd, sema, err>>
callVars == <<pc, chan, outcome>>
dcpVars  == <<clockOn, busy, cmd, sema, err, pc, chan, outcome>>

\* States::kComplete and States::kNotScheduled are where a call's last poll
\* ends; States::kContinue keeps it polling.
Returned == {"complete", "notScheduled"}
InCall   == {"check", "start", "poll", "status", "clear"}

Quiescent == \A t \in Tasks : pc[t] = "idle"

Init ==
  /\ clockOn = FALSE
  /\ busy = [c \in Channels |-> FALSE]
  /\ cmd = [c \in Channels |-> NoTask]
  /\ sema = [c \in Channels |-> 0]
  /\ err = [c \in Channels |-> FALSE]
  /\ pc = [t \in Tasks |-> "idle"]
  /\ chan \in {f \in [Tasks -> Channels] : \A t \in Tasks : f[t] \in ChannelsOf[t]}
  /\ outcome = [t \in Tasks |-> "none"]

-----------------------------------------------------------------------------
(* The subsystem as a whole. *)

\* dcp::init(): clock on, soft reset, status cleared, all channels enabled.
\* The program calls it, and deinit(), with no call in progress.
DcpInit ==
  /\ Quiescent
  /\ clockOn' = TRUE
  /\ busy' = [c \in Channels |-> FALSE]
  /\ sema' = [c \in Channels |-> 0]
  /\ err' = [c \in Channels |-> FALSE]
  /\ UNCHANGED <<cmd, pc, chan, outcome>>

\* dcp::deinit(): no register access if the clock is off, else reset it.
DcpDeinit ==
  /\ Quiescent
  /\ clockOn
  /\ clockOn' = FALSE
  /\ busy' = [c \in Channels |-> FALSE]
  /\ sema' = [c \in Channels |-> 0]
  /\ err' = [c \in Channels |-> FALSE]
  /\ UNCHANGED <<cmd, pc, chan, outcome>>

-----------------------------------------------------------------------------
(* A call.  Submit and Await are the two ways a client enters one: with a  *)
(* fresh work packet, or, when its workScheduled flag says that a job is   *)
(* already there, straight at the poll.                                    *)

Enter(t, c, where) ==
  /\ pc[t] = "idle"
  /\ clockOn
  /\ c \in ChannelsOf[t]
  /\ pc' = [pc EXCEPT ![t] = where]
  /\ chan' = [chan EXCEPT ![t] = c]
  /\ outcome' = [outcome EXCEPT ![t] = "none"]
  /\ UNCHANGED <<clockOn, busy, cmd, sema, err>>

Submit(t, c) == Enter(t, c, "check")
Await(t, c)  == Enter(t, c, "poll")

\* The read of STAT before the atomic block; while the channel is active
\* the client calls scheduleWork() again.
ScheduleWorkCheck(t) ==
  /\ pc[t] = "check"
  /\ ~busy[chan[t]]
  /\ pc' = [pc EXCEPT ![t] = "start"]
  /\ UNCHANGED <<clockOn, busy, cmd, sema, err, chan, outcome>>

\* The atomic block, when the channel was taken since the first read.
ScheduleWorkTaken(t) ==
  /\ pc[t] = "start"
  /\ busy[chan[t]]
  /\ pc' = [pc EXCEPT ![t] = "check"]
  /\ UNCHANGED <<clockOn, busy, cmd, sema, err, chan, outcome>>

\* Mutant: the job is started without counting the semaphore up.
StartWithoutCount(t) ==
  /\ pc[t] = "start"
  /\ ~busy[chan[t]]
  /\ cmd' = [cmd EXCEPT ![chan[t]] = t]
  /\ busy' = [busy EXCEPT ![chan[t]] = TRUE]
  /\ pc' = [pc EXCEPT ![t] = "poll"]
  /\ UNCHANGED <<clockOn, sema, err, chan, outcome>>

\* Mutant: no re-check inside the atomic block.
StartWithoutRecheck(t) ==
  /\ pc[t] = "start"
  /\ cmd' = [cmd EXCEPT ![chan[t]] = t]
  /\ sema' = [sema EXCEPT ![chan[t]] = @ + 1]
  /\ busy' = [busy EXCEPT ![chan[t]] = TRUE]
  /\ pc' = [pc EXCEPT ![t] = "poll"]
  /\ UNCHANGED <<clockOn, err, chan, outcome>>

\* The atomic block: command pointer, then the semaphore starts the job.
ScheduleWorkStart(t) ==
  /\ pc[t] = "start"
  /\ ~busy[chan[t]]
  /\ cmd' = [cmd EXCEPT ![chan[t]] = t]
  /\ sema' = [sema EXCEPT ![chan[t]] = @ + 1]
  /\ busy' = [busy EXCEPT ![chan[t]] = TRUE]
  /\ pc' = [pc EXCEPT ![t] = "poll"]
  /\ UNCHANGED <<clockOn, err, chan, outcome>>

\* Mutant: the status is read whether or not the channel is active.
PollOnce(t) ==
  /\ pc[t] = "poll"
  /\ pc' = [pc EXCEPT ![t] = "status"]
  /\ UNCHANGED <<clockOn, busy, cmd, sema, err, chan, outcome>>

\* Mutant: waits for the semaphore to reach zero.
PollSemaphore(t) ==
  /\ pc[t] = "poll"
  /\ sema[chan[t]] = 0
  /\ pc' = [pc EXCEPT ![t] = "status"]
  /\ UNCHANGED <<clockOn, busy, cmd, sema, err, chan, outcome>>

\* isChannelComplete() returns kContinue while the channel is active.
Poll(t) ==
  /\ pc[t] = "poll"
  /\ ~busy[chan[t]]
  /\ pc' = [pc EXCEPT ![t] = "status"]
  /\ UNCHANGED <<clockOn, busy, cmd, sema, err, chan, outcome>>

\* Mutant: only the semaphore tells a failure.
StatusSemaphoreOnly(t) ==
  /\ pc[t] = "status"
  /\ pc' = [pc EXCEPT ![t] = IF sema[chan[t]] # 0 THEN "clear" ELSE "complete"]
  /\ UNCHANGED <<clockOn, busy, cmd, sema, err, chan, outcome>>

\* The channel's semaphore and error code decide how the call ends.
Status(t) ==
  /\ pc[t] = "status"
  /\ pc' = [pc EXCEPT ![t] = IF sema[chan[t]] # 0 \/ err[chan[t]]
                             THEN "clear" ELSE "complete"]
  /\ UNCHANGED <<clockOn, busy, cmd, sema, err, chan, outcome>>

\* Mutant: returns without clearing the channel's status.
ClearNothing(t) ==
  /\ pc[t] = "clear"
  /\ pc' = [pc EXCEPT ![t] = "notScheduled"]
  /\ UNCHANGED <<clockOn, busy, cmd, sema, err, chan, outcome>>

\* CHnSTAT_CLR = 0xFF.  The write covers the error flags; the error code is
\* in other bits of the register.  The semaphore stays.
ClearStatus(t) ==
  /\ pc[t] = "clear"
  /\ err' = IF ClearsErrorCode THEN [err EXCEPT ![chan[t]] = FALSE] ELSE err
  /\ pc' = [pc EXCEPT ![t] = "notScheduled"]
  /\ UNCHANGED <<clockOn, busy, cmd, sema, chan, outcome>>

\* The client has taken the answer.
Retire(t) ==
  /\ pc[t] \in Returned
  /\ pc' = [pc EXCEPT ![t] = "idle"]
  /\ outcome' = [outcome EXCEPT ![t] = "none"]
  /\ UNCHANGED <<clockOn, busy, cmd, sema, err, chan>>

TaskStep(t) ==
  \/ ScheduleWorkCheck(t)
  \/ ScheduleWorkTaken(t)
  \/ ScheduleWorkStart(t)
  \/ Poll(t)
  \/ Status(t)
  \/ ClearStatus(t)

-----------------------------------------------------------------------------
(* The coprocessor: runs the packet that CHnCMDPTR points to. *)

\* The packet asks for the semaphore to be decremented (DECR_SEMAPHORE).
HwDone(c) ==
  /\ busy[c]
  /\ busy' = [busy EXCEPT ![c] = FALSE]
  /\ sema' = [sema EXCEPT ![c] = @ - 1]
  /\ outcome' = [outcome EXCEPT ![cmd[c]] = "done"]
  /\ UNCHANGED <<clockOn, cmd, err, pc, chan>>

\* A job that fails sets an error code, or stops before the decrement, or
\* both: the two signs by which the driver knows a failure.
HwError(c) ==
  \E code, left \in BOOLEAN :
    /\ code \/ left
    /\ left => sema[c] <= MaxSema
    /\ busy[c]
    /\ busy' = [busy EXCEPT ![c] = FALSE]
    /\ sema' = [sema EXCEPT ![c] = IF left THEN @ ELSE @ - 1]
    /\ err' = [err EXCEPT ![c] = @ \/ code]
    /\ outcome' = [outcome EXCEPT ![cmd[c]] = "error"]
    /\ UNCHANGED <<clockOn, cmd, pc, chan>>

HwStep(c) == HwDone(c) \/ HwError(c)

-----------------------------------------------------------------------------

Next ==
  \/ DcpInit
  \/ DcpDeinit
  \/ \E t \in Tasks : \/ \E c \in ChannelsOf[t] : Submit(t, c)
                      \/ TaskStep(t)
                      \/ Retire(t)
  \/ \E c \in Channels : HwStep(c)

Spec == Init /\ [][Next]_dcpVars

\* A task's steps are taken eventually: interrupt handlers return.  A job
\* that was started ends, well or badly.
Fairness ==
  /\ \A t \in Tasks : WF_dcpVars(TaskStep(t))
  /\ \A c \in Channels : WF_dcpVars(HwStep(c))

FairSpec == Spec /\ Fairness

-----------------------------------------------------------------------------
(* Properties. *)

TypeOK ==
  /\ clockOn \in BOOLEAN
  /\ busy \in [Channels -> BOOLEAN]
  /\ cmd \in [Channels -> Tasks \cup {NoTask}]
  /\ sema \in [Channels -> Nat]
  /\ err \in [Channels -> BOOLEAN]
  /\ pc \in [Tasks -> {"idle"} \cup InCall \cup Returned]
  /\ chan \in [Tasks -> Channels]
  /\ \A t \in Tasks : chan[t] \in ChannelsOf[t]
  /\ outcome \in [Tasks -> {"none", "done", "error"}]

\* A work packet lives in its client's context, which the client resets once
\* the call returns.  So while the coprocessor runs a packet, the task that
\* submitted it must still be polling that very channel.
NoReturnWhileRunning ==
  \A c \in Channels :
    busy[c] => cmd[c] \in Tasks /\ pc[cmd[c]] = "poll" /\ chan[cmd[c]] = c

\* What the re-check inside the atomic block is for: a channel that is
\* running a packet never has its command pointer or its semaphore changed
\* under it, whichever tasks submit to it at once.
NoClobber ==
  [][\A c \in Channels :
       busy[c] /\ busy'[c] => cmd'[c] = cmd[c] /\ sema'[c] = sema[c]]_dcpVars

\* Completion is reported to a caller only if its own job ran without error
\* ("NotScheduled for error, or Complete for complete").  The status that is
\* read is the channel's, not the job's: needs a channel of one's own, whatever
\* the other tasks do on theirs.
Truthful ==
  \A t \in Owners : pc[t] = "complete" => outcome[t] = "done"

\* Failure is reported only to a caller whose own job failed, or on a channel
\* whose semaphore an earlier failed job never decremented: no error code is
\* left for the next call.  Needs a channel of one's own, and ClearsErrorCode.
FailureIsOwn ==
  \A t \in Owners :
    pc[t] = "notScheduled" => outcome[t] = "error" \/ sema[chan[t]] # 0

\* Every blocking call of a task on its own channel returns: the spin loops end.
\* A task that shares its channel may find it taken for ever.
EveryCallReturns ==
  \A t \in Owners : pc[t] \in InCall ~> pc[t] \in Returned

=============================================================================
