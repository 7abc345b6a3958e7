-------------------------- MODULE MCMailOutboxLive --------------------------
(***************************************************************************)
(* The outbox under the fairness its scheduling gives, for liveness.       *)
(*                                                                         *)
(* A crash, a refused save or an operator's retry that recurs forever      *)
(* starves any queue; MaxInterruptions bounds them.  The timer fires every *)
(* MAIL_DELIVERY_SECONDS and the main loop serves its sources in turn, so  *)
(* a tick that is possible again and again is taken (strong fairness); the *)
(* process is restarted, the clock advances, and a sweep that has begun    *)
(* runs on: the transport answers or times out.                            *)
(***************************************************************************)
EXTENDS MailOutbox

CONSTANT MaxInterruptions

VARIABLE interruptions

liveVars == <<vars, interruptions>>

Interrupt ==
    /\ interruptions < MaxInterruptions
    /\ interruptions' = interruptions + 1
    /\ Crash \/ SaveFails \/ \E m \in Messages : Retry(m)

Undisturbed ==
    /\ UNCHANGED interruptions
    /\ \/ \E m \in Messages : Enqueue(m) \/ Cancel(m) \/ Forget(m) \/ Pause(m)
       \/ \E a \in Accounts \cup {NoAccount} : Configure(a)
       \/ TimerSweep \/ RequestedSweep \/ \E m \in Messages : DeliverOne(m)
       \/ SweepStep
       \/ RelayAccepts \/ RelayRefuses
       \/ \E m \in Messages : LateAccept(m) \/ LateLoss(m)
       \/ Restart \/ Tick

LiveSpec ==
    /\ Init /\ interruptions = 0
    /\ [][Interrupt \/ Undisturbed]_liveVars
    /\ WF_liveVars(SweepStep /\ UNCHANGED interruptions)
    /\ WF_liveVars(Restart /\ UNCHANGED interruptions)
    /\ WF_liveVars(Tick /\ UNCHANGED interruptions)
    /\ SF_liveVars(TimerSweep /\ UNCHANGED interruptions)

Connected == smtp # NoAccount

\* While the organization keeps a connection, a row a crash left "sending" is
\* recovered: nothing stays in flight for ever.
InterruptedIsRecovered ==
    \A m \in Messages :
        <>[]Connected => (mail[m].state = "sending" ~> mail[m].state # "sending")

\* A waiting message whose campaign is not held back is attempted, however
\* many other messages fail in front of it.
WaitingIsAttempted ==
    \A m \in Messages :
        <>[](Connected /\ m \notin paused) =>
            (mail[m].state \in {"queued", "failed"} ~>
                mail[m].state \notin {"queued", "failed"})
=============================================================================
