----------------------------- MODULE DcpProofs -----------------------------
(***************************************************************************)
(* Proofs about the DCP driver, for any tasks, channels and bound.         *)
(*                                                                         *)
(* Owned holds whatever channels the tasks use.  Own is about a job and    *)
(* the call it belongs to, and about Owners: only for them is the          *)
(* status of a channel the status of the caller's job.                     *)
(***************************************************************************)
EXTENDS Dcp, TLAPS

\* A running job is counted by its channel's semaphore.
SemaCountsJob == \A c \in Channels : busy[c] => sema[c] # 0

Owned == TypeOK /\ SemaCountsJob /\ NoReturnWhileRunning

-----------------------------------------------------------------------------

LEMMA InitOwned == Init => Owned
<1> SUFFICES ASSUME Init PROVE Owned
  OBVIOUS
<1>1. chan \in [Tasks -> Channels] /\ \A t \in Tasks : chan[t] \in ChannelsOf[t]
  BY DEF Init
<1>2. TypeOK
  BY <1>1 DEF Init, TypeOK, InCall, Returned
<1>3. SemaCountsJob /\ NoReturnWhileRunning
  BY DEF Init, SemaCountsJob, NoReturnWhileRunning
<1> QED
  BY <1>2, <1>3 DEF Owned

\* Every step of the driver and of the coprocessor keeps the type invariant,
\* the count of the running job and the packet's owner at its poll.
LEMMA NextOwned == Owned /\ [Next]_dcpVars => Owned'
<1> SUFFICES ASSUME Owned, [Next]_dcpVars PROVE Owned'
  OBVIOUS
<1> USE DcpAssumption DEF Owned, TypeOK, SemaCountsJob, NoReturnWhileRunning, InCall, Returned
<1>1. CASE DcpInit
  BY <1>1 DEF DcpInit
<1>2. CASE DcpDeinit
  BY <1>2 DEF DcpDeinit
<1>3. ASSUME NEW t \in Tasks, NEW c \in ChannelsOf[t], Submit(t, c) PROVE Owned'
  <2>1. c \in Channels
    OBVIOUS
  <2> QED
    BY <1>3, <2>1 DEF Submit, Enter
<1>4. ASSUME NEW t \in Tasks, ScheduleWorkCheck(t) PROVE Owned'
  BY <1>4 DEF ScheduleWorkCheck
<1>5. ASSUME NEW t \in Tasks, ScheduleWorkTaken(t) PROVE Owned'
  BY <1>5 DEF ScheduleWorkTaken
<1>6. ASSUME NEW t \in Tasks, ScheduleWorkStart(t) PROVE Owned'
  BY <1>6 DEF ScheduleWorkStart
<1>7. ASSUME NEW t \in Tasks, Poll(t) PROVE Owned'
  BY <1>7 DEF Poll
<1>8. ASSUME NEW t \in Tasks, Status(t) PROVE Owned'
  BY <1>8 DEF Status
<1>9. ASSUME NEW t \in Tasks, ClearStatus(t) PROVE Owned'
  BY <1>9 DEF ClearStatus
<1>10. ASSUME NEW t \in Tasks, Retire(t) PROVE Owned'
  BY <1>10 DEF Retire
<1>11. ASSUME NEW c \in Channels, HwDone(c) PROVE Owned'
  <2>1. busy[c] /\ cmd[c] \in Tasks /\ sema[c] - 1 \in Nat
    BY <1>11 DEF HwDone
  <2>2. TypeOK'
    <3>1. sema' \in [Channels -> Nat]
      BY <1>11, <2>1 DEF HwDone
    <3>2. busy' \in [Channels -> BOOLEAN] /\ outcome' \in [Tasks -> {"none", "done", "error"}]
      BY <1>11, <2>1 DEF HwDone
    <3> QED
      BY <1>11, <3>1, <3>2 DEF HwDone
  <2>3. SemaCountsJob'
    BY <1>11, <2>1 DEF HwDone
  <2>4. NoReturnWhileRunning'
    BY <1>11, <2>1 DEF HwDone
  <2> QED
    BY <2>2, <2>3, <2>4
<1>12. ASSUME NEW c \in Channels, HwError(c) PROVE Owned'
  <2>1. busy[c] /\ cmd[c] \in Tasks /\ sema[c] - 1 \in Nat
    BY <1>12 DEF HwError
  <2>2. TypeOK'
    <3>1. sema' \in [Channels -> Nat]
      BY <1>12, <2>1 DEF HwError
    <3>2. busy' \in [Channels -> BOOLEAN] /\ outcome' \in [Tasks -> {"none", "done", "error"}]
      BY <1>12, <2>1 DEF HwError
    <3>3. err' \in [Channels -> BOOLEAN]
      BY <1>12 DEF HwError
    <3> QED
      BY <1>12, <3>1, <3>2, <3>3 DEF HwError
  <2>3. SemaCountsJob'
    BY <1>12, <2>1 DEF HwError
  <2>4. NoReturnWhileRunning'
    BY <1>12, <2>1 DEF HwError
  <2> QED
    BY <2>2, <2>3, <2>4
<1>13. CASE UNCHANGED dcpVars
  BY <1>13 DEF dcpVars
<1> QED
  BY <1>1, <1>2, <1>3, <1>4, <1>5, <1>6, <1>7, <1>8, <1>9, <1>10, <1>11, <1>12, <1>13
  DEF Next, TaskStep, HwStep

LEMMA AlwaysOwned == Spec => []Owned
BY InitOwned, NextOwned, PTL DEF Spec

-----------------------------------------------------------------------------

\* The state of the driver is always of its type; the semaphore, which the
\* coprocessor decrements, never goes below zero.
THEOREM TypeCorrect == Spec => []TypeOK
<1>1. Owned => TypeOK
  BY DEF Owned
<1> QED
  BY <1>1, AlwaysOwned, PTL

\* No call returns while the coprocessor still runs its work packet, even
\* when several tasks use one channel.
THEOREM PacketOutlivesJob == Spec => []NoReturnWhileRunning
<1>1. Owned => NoReturnWhileRunning
  BY DEF Owned
<1> QED
  BY <1>1, AlwaysOwned, PTL

\* No task replaces the packet of a running channel or counts its semaphore
\* up: the re-check inside scheduleWork()'s atomic block suffices.
THEOREM RunningChannelUntouched == Spec => NoClobber
<1> DEFINE Untouched == \A c \in Channels :
                          busy[c] /\ busy'[c] => cmd'[c] = cmd[c] /\ sema'[c] = sema[c]
<1>1. Owned /\ [Next]_dcpVars => [Untouched]_dcpVars
  <2> SUFFICES ASSUME Owned, Next PROVE Untouched
    BY DEF dcpVars
  <2> USE DEF Owned, TypeOK
  <2>1. CASE DcpInit \/ DcpDeinit
    BY <2>1 DEF DcpInit, DcpDeinit
  <2>2. ASSUME NEW t \in Tasks, ScheduleWorkStart(t) PROVE Untouched
    BY <2>2 DEF ScheduleWorkStart
  <2>3. ASSUME NEW c \in Channels, HwStep(c) PROVE Untouched
    BY <2>3 DEF HwStep, HwDone, HwError
  <2>4. CASE UNCHANGED <<cmd, sema>>
    BY <2>4
  <2> QED
    BY <2>1, <2>2, <2>3, <2>4
    DEF Next, TaskStep, Submit, Enter, ScheduleWorkCheck, ScheduleWorkTaken, Poll, Status,
        ClearStatus, Retire
<1> QED
  BY <1>1, AlwaysOwned, PTL DEF Spec, NoClobber

-----------------------------------------------------------------------------
(* The job and the call it belongs to. *)

\* What the driver will take for a failure of t's job.
FailureShows(t) == err[chan[t]] \/ sema[chan[t]] # 0

\* A job has no outcome before it ends; from then on the channel's registers
\* show a failure until its call has read them.
Own ==
  \A t \in Owners :
    /\ pc[t] = "poll" => \/ busy[chan[t]] /\ cmd[chan[t]] = t
                         \/ outcome[t] = "done"
                         \/ outcome[t] = "error" /\ FailureShows(t)
    /\ pc[t] = "status" => \/ outcome[t] = "done"
                           \/ outcome[t] = "error" /\ FailureShows(t)
    /\ pc[t] = "complete" => outcome[t] = "done"

\* No other task is on a channel of a task that owns it.
LEMMA OneTaskPerChannel ==
  ASSUME TypeOK, NEW t \in Owners, NEW u \in Tasks, chan[u] \in ChannelsOf[t]
  PROVE  t = u
BY DEF Owners, TypeOK

LEMMA NextOwn == Owned /\ Own /\ [Next]_dcpVars => Own'
<1> SUFFICES ASSUME Owned, Own, [Next]_dcpVars PROVE Own'
  OBVIOUS
<1> DEFINE OwnOf(t) ==
      /\ pc[t] = "poll" => \/ busy[chan[t]] /\ cmd[chan[t]] = t
                           \/ outcome[t] = "done"
                           \/ outcome[t] = "error" /\ FailureShows(t)
      /\ pc[t] = "status" => \/ outcome[t] = "done"
                             \/ outcome[t] = "error" /\ FailureShows(t)
      /\ pc[t] = "complete" => outcome[t] = "done"
<1> SUFFICES ASSUME NEW u \in Owners PROVE OwnOf(u)'
  BY DEF Own
<1>0. OwnOf(u) /\ TypeOK /\ u \in Tasks /\ chan[u] \in Channels /\ chan[u] \in ChannelsOf[u]
  BY DEF Own, Owned, Owners, TypeOK
<1> HIDE DEF Own
<1> USE DEF TypeOK, FailureShows
<1>1. CASE DcpInit \/ DcpDeinit
  BY <1>0, <1>1 DEF DcpInit, DcpDeinit, Quiescent
<1>2. ASSUME NEW t \in Tasks, NEW c \in ChannelsOf[t], Submit(t, c) PROVE OwnOf(u)'
  <2>1. pc'[t] = "check" /\ chan' = [chan EXCEPT ![t] = c]
    BY <1>0, <1>2 DEF Submit, Enter
  <2> QED
    BY <1>0, <1>2, <2>1 DEF Submit, Enter
<1>3. ASSUME NEW t \in Tasks, ScheduleWorkStart(t) PROVE OwnOf(u)'
  <2>1. u # t => chan[u] # chan[t]
    BY <1>0, OneTaskPerChannel
  <2> QED
    BY <1>0, <1>3, <2>1 DEF ScheduleWorkStart
<1>4. ASSUME NEW t \in Tasks, ScheduleWorkCheck(t) \/ ScheduleWorkTaken(t) \/ Retire(t)
      PROVE OwnOf(u)'
  BY <1>0, <1>4 DEF ScheduleWorkCheck, ScheduleWorkTaken, Retire, Returned
<1>5. ASSUME NEW t \in Tasks, Poll(t) PROVE OwnOf(u)'
  BY <1>0, <1>5 DEF Poll
<1>6. ASSUME NEW t \in Tasks, Status(t) PROVE OwnOf(u)'
  BY <1>0, <1>6 DEF Status
<1>7. ASSUME NEW t \in Tasks, ClearStatus(t) PROVE OwnOf(u)'
  <2>1. u # t => chan[u] # chan[t]
    BY <1>0, OneTaskPerChannel
  <2> QED
    BY <1>0, <1>7, <2>1 DEF ClearStatus
<1>8. ASSUME NEW c \in Channels, HwDone(c) PROVE OwnOf(u)'
  <2>1. cmd[c] \in Tasks /\ chan[cmd[c]] = c
    BY <1>8 DEF HwDone, Owned, NoReturnWhileRunning
  <2>2. u # cmd[c] => chan[u] # c
    BY <1>0, <2>1, OneTaskPerChannel
  <2> QED
    BY <1>0, <1>8, <2>1, <2>2 DEF HwDone
<1>9. ASSUME NEW c \in Channels, HwError(c) PROVE OwnOf(u)'
  <2>1. cmd[c] \in Tasks /\ chan[cmd[c]] = c /\ pc[cmd[c]] = "poll" /\ sema[c] # 0
    BY <1>9 DEF HwError, Owned, NoReturnWhileRunning, SemaCountsJob
  <2>2. u # cmd[c] => chan[u] # c
    BY <1>0, <2>1, OneTaskPerChannel
  <2>3. u = cmd[c] => outcome'[u] = "error" /\ FailureShows(u)' /\ pc'[u] = "poll"
    BY <1>0, <1>9, <2>1 DEF HwError
  <2> QED
    BY <1>0, <1>9, <2>1, <2>2, <2>3 DEF HwError
<1>10. CASE UNCHANGED dcpVars
  BY <1>0, <1>10 DEF dcpVars
<1> QED
  BY <1>1, <1>2, <1>3, <1>4, <1>5, <1>6, <1>7, <1>8, <1>9, <1>10 DEF Next, TaskStep, HwStep

\* A call of a task on a channel of its own reports completion only if its own job
\* ran without error, whatever other tasks share among themselves.
THEOREM CompletionIsTruthful == Spec => []Truthful
<1>1. Init => Own
  BY DcpAssumption DEF Init, Own, Owners
<1>2. Own => Truthful
  BY DEF Own, Truthful
<1>3. Owned /\ Own /\ [Next]_dcpVars => Own'
  BY NextOwn
<1> QED
  BY <1>1, <1>2, <1>3, AlwaysOwned, PTL DEF Spec

-----------------------------------------------------------------------------
(* The error code and the call that clears it. *)

\* A call whose job has not ended has no outcome.
Pending ==
  /\ \A t \in Tasks : pc[t] \in {"check", "start"} => outcome[t] = "none"
  /\ \A c \in Channels : busy[c] => outcome[cmd[c]] = "none"

LEMMA NextPending == Owned /\ Pending /\ [Next]_dcpVars => Pending'
<1> SUFFICES ASSUME Owned, Pending, [Next]_dcpVars PROVE Pending'
  OBVIOUS
<1> USE DcpAssumption DEF Owned, TypeOK, NoReturnWhileRunning, Pending
<1>1. CASE DcpInit \/ DcpDeinit
  BY <1>1 DEF DcpInit, DcpDeinit, Quiescent
<1>2. ASSUME NEW t \in Tasks, NEW c \in ChannelsOf[t], Submit(t, c) PROVE Pending'
  BY <1>2 DEF Submit, Enter
<1>3. ASSUME NEW t \in Tasks, TaskStep(t) PROVE Pending'
  BY <1>3 DEF TaskStep, ScheduleWorkCheck, ScheduleWorkTaken, ScheduleWorkStart, Poll, Status,
              ClearStatus
<1>4. ASSUME NEW t \in Tasks, Retire(t) PROVE Pending'
  BY <1>4 DEF Retire, Returned
<1>5. ASSUME NEW c \in Channels, HwStep(c) PROVE Pending'
  BY <1>5 DEF HwStep, HwDone, HwError
<1>6. CASE UNCHANGED dcpVars
  BY <1>6 DEF dcpVars
<1> QED
  BY <1>1, <1>2, <1>3, <1>4, <1>5, <1>6 DEF Next

LEMMA AlwaysPending == Spec => []Pending
<1>1. Init => Pending
  BY DEF Init, Pending
<1> QED
  BY <1>1, NextPending, AlwaysOwned, PTL DEF Spec

\* An error code belongs to a call that will still clear it; a call that is about
\* to report failure has a failed job, or found an old count on the semaphore.
Blame ==
  /\ Pending
  /\ \A t \in Owners : \A c \in ChannelsOf[t] :
       err[c] => /\ chan[t] = c
                 /\ pc[t] \in {"poll", "status", "clear"}
                 /\ outcome[t] = "error"
  /\ \A t \in Owners :
       pc[t] \in {"clear", "notScheduled"} => outcome[t] = "error" \/ sema[chan[t]] # 0

LEMMA NextBlame ==
  ClearsErrorCode /\ Owned /\ Blame /\ [Next]_dcpVars => Blame'
<1> SUFFICES ASSUME ClearsErrorCode, Owned, Blame, [Next]_dcpVars
             PROVE  Blame'
  OBVIOUS
<1>0. Owners \subseteq Tasks /\ \A t \in Tasks : ChannelsOf[t] \subseteq Channels
  BY DcpAssumption DEF Owners
<1> USE <1>0
<1> USE DEF Owned, TypeOK, NoReturnWhileRunning, Blame, Pending, InCall, Returned
<1>1. CASE DcpInit \/ DcpDeinit
  BY <1>1 DEF DcpInit, DcpDeinit, Quiescent
<1>2. ASSUME NEW t \in Tasks, NEW c \in ChannelsOf[t], Submit(t, c) PROVE Blame'
  BY <1>2 DEF Submit, Enter
<1>3. ASSUME NEW t \in Tasks, ScheduleWorkStart(t) PROVE Blame'
  BY <1>3 DEF ScheduleWorkStart
<1>4. ASSUME NEW t \in Tasks, ScheduleWorkCheck(t) \/ ScheduleWorkTaken(t) \/ Retire(t)
      PROVE Blame'
  BY <1>4 DEF ScheduleWorkCheck, ScheduleWorkTaken, Retire
<1>5. ASSUME NEW t \in Tasks, Poll(t) PROVE Blame'
  BY <1>5 DEF Poll
<1>6. ASSUME NEW t \in Tasks, Status(t) PROVE Blame'
  <2>1. t \in Owners /\ err[chan[t]] => outcome[t] = "error"
    OBVIOUS
  <2> QED
    BY <1>6, <2>1 DEF Status
<1>7. ASSUME NEW t \in Tasks, ClearStatus(t) PROVE Blame'
  <2>1. ~err'[chan[t]] /\ \A c \in Channels : err'[c] => err[c] /\ c # chan[t]
    BY <1>7 DEF ClearStatus
  <2>2. \A u \in Tasks : chan'[u] = chan[u] /\ outcome'[u] = outcome[u]
                         /\ (u # t => pc'[u] = pc[u])
    BY <1>7 DEF ClearStatus
  <2>3. pc[t] = "clear" /\ pc'[t] = "notScheduled"
    BY <1>7 DEF ClearStatus
  <2>4. ASSUME NEW u \in Owners, NEW c \in ChannelsOf[u], err'[c]
        PROVE  /\ chan'[u] = c
               /\ pc'[u] \in {"poll", "status", "clear"}
               /\ outcome'[u] = "error"
    <3>1. c \in Channels /\ err[c] /\ c # chan[t]
      BY <2>1, <2>4
    <3>2. u # t
      BY <3>1
    <3> QED
      BY <2>2, <3>1, <3>2
  <2>5. \A u \in Tasks : pc'[u] \in {"check", "start"} => outcome'[u] = "none"
    BY <2>2, <2>3
  <2>6. \A c \in Channels : busy'[c] => outcome'[cmd'[c]] = "none"
    BY <1>7 DEF ClearStatus
  <2>7. \A u \in Owners : pc'[u] \in {"clear", "notScheduled"}
                         => outcome'[u] = "error" \/ sema'[chan'[u]] # 0
    BY <1>7, <2>2, <2>3 DEF ClearStatus
  <2> QED
    BY <2>4, <2>5, <2>6, <2>7
<1>8. ASSUME NEW c \in Channels, HwDone(c) PROVE Blame'
  <2>1. cmd[c] \in Tasks /\ chan[cmd[c]] = c /\ pc[cmd[c]] = "poll" /\ outcome[cmd[c]] = "none"
    BY <1>8 DEF HwDone
  <2>2. \A u \in Owners : c \in ChannelsOf[u] => u = cmd[c]
    BY <2>1, OneTaskPerChannel
  <2> QED
    BY <1>8, <2>1, <2>2 DEF HwDone
<1>9. ASSUME NEW c \in Channels, HwError(c) PROVE Blame'
  <2>1. cmd[c] \in Tasks /\ chan[cmd[c]] = c /\ pc[cmd[c]] = "poll" /\ outcome[cmd[c]] = "none"
    BY <1>9 DEF HwError
  <2>2. \A u \in Owners : c \in ChannelsOf[u] => u = cmd[c]
    BY <2>1, OneTaskPerChannel
  <2> QED
    BY <1>9, <2>1, <2>2 DEF HwError
<1>10. CASE UNCHANGED dcpVars
  BY <1>10 DEF dcpVars
<1> QED
  BY <1>1, <1>2, <1>3, <1>4, <1>5, <1>6, <1>7, <1>8, <1>9, <1>10 DEF Next, TaskStep, HwStep

\* With a coprocessor whose error code goes with its error flags, a call of a task
\* on a channel of its own reports failure only if its own job failed or an earlier
\* failure left a count on the channel's semaphore.
THEOREM FailureIsTruthful ==
  ClearsErrorCode => (Spec => []FailureIsOwn)
<1>1. Init => Blame
  BY DcpAssumption DEF Init, Blame, Pending, Owners
<1>2. Blame => FailureIsOwn
  BY DEF Blame, FailureIsOwn
<1> SUFFICES ASSUME ClearsErrorCode PROVE Spec => []FailureIsOwn
  OBVIOUS
<1>3. Owned /\ Blame /\ [Next]_dcpVars => Blame'
  BY NextBlame
<1> QED
  BY <1>1, <1>2, <1>3, AlwaysOwned, PTL DEF Spec

=============================================================================
