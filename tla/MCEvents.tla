------------------------------ MODULE MCEvents ------------------------------
(***************************************************************************)
(* The programs that wait for signals, input, timers or messages, one of   *)
(* which runs in a behaviour.                                              *)
(***************************************************************************)
EXTENDS Machine, Naturals, FiniteSets

CONSTANTS PipeSize, MaxSignals, MaxKeys, NumSigs, QueueMax, MaxSleep, MaxInts,
          MaxMsgs, QueueSize, Workers, Fds, MaxEvents, MaxBuf, MaxBytes, MaxOpens,
          NumPipes, MaxWrites, PollCap, FdSetSize, MaxFds, MaxSent, Rounds

(* A pipe holds something; the sizes are numbers, and no thread of a       *)
(* notification is main().                                                 *)
ASSUME EventsAssumption ==
    /\ PipeSize \in Nat \ {0} /\ "main" \notin Workers
    /\ MaxEvents \in Nat /\ MaxBuf \in Nat /\ MaxSleep \in Nat /\ MaxWrites \in Nat
    /\ NumPipes \in Nat /\ FdSetSize \in Nat /\ MaxFds \in Nat /\ Rounds \in Nat

SI == INSTANCE SignalIO
SG == INSTANCE Signals
MQ == INSTANCE MqNotify
PL == INSTANCE Polling
HA == INSTANCE Handlers

MCInit == SI!Init \/ SG!Init \/ MQ!Init \/ PL!Init \/ HA!Init
MCNext == SI!Next \/ SG!Next \/ MQ!Next \/ PL!Next \/ HA!Next

MCSpec ==
    /\ MCInit /\ [][MCNext]_machine
    /\ SI!Fairness /\ SG!Fairness /\ MQ!Fairness /\ PL!Fairness /\ HA!Fairness

-----------------------------------------------------------------------------
(* Nothing that has arrived is left lying: a signal is reported, input is  *)
(* read whatever the flag says, no message stays in the queue while its    *)
(* reader waits, and no FIFO that has input is closed.                     *)
NothingStranded ==
    /\ SI!SignalReported /\ SI!NoStrandedInput
    /\ MQ!NoStrandedMessage /\ PL!InputConsumed

(* What is reported is what happened: sig_receiver and catch_rtsigs count  *)
(* the signals that were queued, t_nanosleep sleeps as long as it was      *)
(* asked to, timed_read says whether its read() was interrupted,           *)
(* poll_pipes and t_select name the descriptors that are ready, and the    *)
(* handlers of the small signal programs leave main() what they should.    *)
ReportsTrue == SG!CountsSignals /\ SG!SleptAsAsked /\ PL!ReadyTrue /\ HA!HandlersTrue

(* What each program waits for ends it. *)
EventsEnd ==
    /\ SI!SignalEnds /\ SI!HashEnds /\ SG!SigintEnds /\ SG!TimersEnd /\ PL!EpollEnds
    /\ PL!PollingEnds /\ HA!HandlersEnd
=============================================================================
