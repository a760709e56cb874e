------------------------------ MODULE MqNotify ------------------------------
(***************************************************************************)
(* Programs of the book, and of exercises 52-05 and 52-06, that learn from *)
(* mq_notify() that a message has come to an empty queue, and then read    *)
(* until the queue is empty again.  A registration is used up by one       *)
(* notification, a signal or a new thread.                                 *)
(*                                                                         *)
(* A program is given by the step that follows each of its steps:          *)
(*   first, notify   mq_notify()                                           *)
(*   drain           mq_receive() until it fails with EAGAIN               *)
(*   wait            sigsuspend() or sigwaitinfo()                         *)
(*   check, sleep    if (gotSig), and the work until it is asked again     *)
(*   pause           for ever                                              *)
(***************************************************************************)
EXTENDS Naturals, Sequences

CONSTANTS MaxMsgs,   \* messages sent
          Early      \* messages that may be in the queue at the start

VARIABLES kind, queue, sent, reg, sig, pc, gotSig, setups, drains, got, lost
vars_notify == <<kind, queue, sent, reg, sig, pc, gotSig, setups, drains, got, lost>>

\* Mutant of mq_notify_sig: the queue is emptied before it registers again.
mq_notify_sig_late == [first |-> "wait", wait |-> "drain", drain |-> "notify", notify |-> "wait"]
mq_notify_sig == [first |-> "wait", wait |-> "notify", notify |-> "drain", drain |-> "wait"]
mq_notify_sig_52_5 == [first |-> "wait", wait |-> "notify", notify |-> "drain", drain |-> "exit"]
mq_notify_sig_52_6 == [first |-> "drain", drain |-> "wait", wait |-> "notify", notify |-> "drain"]
mq_notify_sigwaitinfo == [first |-> "wait", wait |-> "notify", notify |-> "drain", drain |-> "wait"]
\* Mutant of mq_notify_via_signal: the queue is emptied before it registers.
mq_notify_via_signal_late ==
  [first |-> "sleep", sleep |-> "check", check |-> "drain", drain |-> "notify", notify |-> "sleep"]
mq_notify_via_signal ==
  [first |-> "drain", drain |-> "sleep", sleep |-> "check", check |-> "notify", notify |-> "drain"]
mq_notify_thread == [first |-> "pause"]
mq_notify_via_thread == [first |-> "drain", drain |-> "pause"]

Control ==
  [sig |-> mq_notify_sig, sig5 |-> mq_notify_sig_52_5, sig6 |-> mq_notify_sig_52_6,
   info |-> mq_notify_sigwaitinfo, poll |-> mq_notify_via_signal,
   thread |-> mq_notify_thread, drained |-> mq_notify_via_thread]
Threaded == kind \in {"thread", "drained"}
Blocked == kind \in {"sig", "sig5", "info"}

Init_notify ==
  /\ kind \in DOMAIN Control
  /\ sent \in 0..Early /\ queue = [i \in 1..sent |-> i]
  /\ reg = FALSE /\ sig = FALSE /\ pc = "first" /\ gotSig = FALSE
  /\ setups = 0 /\ drains = 0 /\ got = <<>> /\ lost = FALSE

Then(step) == pc' = Control[kind][step]

-----------------------------------------------------------------------------
\* The kernel: a message for an empty queue uses up the registration
mq_send ==
  /\ sent < MaxMsgs /\ sent' = sent + 1 /\ queue' = Append(queue, sent')
  /\ IF queue = <<>> /\ reg
     THEN /\ reg' = FALSE
          /\ IF Threaded THEN setups' = setups + 1 /\ UNCHANGED sig ELSE sig' = TRUE /\ UNCHANGED setups
     ELSE UNCHANGED <<reg, setups, sig>>
  /\ UNCHANGED <<kind, pc, gotSig, drains, got, lost>>

\* where the signal is not blocked the handler runs at once: it sets gotSig
\* (mq_notify_via_signal), or does nothing (52-06)
handler ==
  /\ sig /\ ~Blocked /\ (kind = "sig6" => pc # "wait")
  /\ sig' = FALSE
  /\ gotSig' = (kind = "poll") /\ lost' = (lost \/ kind = "sig6")
  /\ UNCHANGED <<kind, queue, sent, reg, pc, setups, drains, got>>

-----------------------------------------------------------------------------
\* mq_notify() fails with EBUSY if there is a registration
mq_notify(ok, busy) == IF reg THEN busy /\ UNCHANGED reg ELSE reg' = TRUE /\ ok
\* Notice, on the way into a program, a queue that no message will come to empty
Missed == queue # <<>> /\ Control[kind]["first"] # "drain"

Register ==
  /\ pc \in {"first", "notify"}
  /\ mq_notify(Then(pc), pc' = "busy")
  /\ lost' = (lost \/ (pc = "first" /\ Missed))
  /\ UNCHANGED <<kind, queue, sent, sig, gotSig, setups, drains, got>>

Receive_notify == queue' = Tail(queue) /\ got' = Append(got, Head(queue))
Drain ==
  /\ pc = "drain"
  /\ IF queue # <<>> THEN Receive_notify /\ UNCHANGED pc ELSE Then(pc) /\ UNCHANGED <<queue, got>>
  /\ UNCHANGED <<kind, sent, reg, sig, gotSig, setups, drains, lost>>

Wait ==
  /\ pc = "wait" /\ sig /\ sig' = FALSE /\ Then(pc)
  /\ UNCHANGED <<kind, queue, sent, reg, gotSig, setups, drains, got, lost>>
Poll ==
  /\ \/ pc = "sleep" /\ Then(pc) /\ UNCHANGED gotSig
     \/ pc = "check" /\ gotSig /\ gotSig' = FALSE /\ Then(pc)
     \/ pc = "check" /\ ~gotSig /\ pc' = "sleep" /\ UNCHANGED gotSig
  /\ UNCHANGED <<kind, queue, sent, reg, sig, setups, drains, got, lost>>

\* threadFunc(): notifySetup(), then drainQueue(); several may run
threadFunc ==
  /\ \/ /\ setups > 0 /\ setups' = setups - 1
        /\ mq_notify(drains' = drains + 1 /\ UNCHANGED pc, pc' = "busy" /\ UNCHANGED drains)
        /\ UNCHANGED <<queue, got>>
     \/ /\ drains > 0
        /\ IF queue # <<>> THEN Receive_notify /\ UNCHANGED drains ELSE drains' = drains - 1 /\ UNCHANGED <<queue, got>>
        /\ UNCHANGED <<setups, reg, pc>>
  /\ UNCHANGED <<kind, sent, sig, gotSig, lost>>

Main == Register \/ Drain \/ Wait \/ Poll
Handlers == handler \/ threadFunc
Next_notify == mq_send \/ Handlers \/ Main

Spec_notify == Init_notify /\ [][Next_notify]_vars_notify

-----------------------------------------------------------------------------
\* Types.
TypeOK_notify ==
  /\ kind \in DOMAIN Control /\ sent \in 0..MaxMsgs /\ reg \in BOOLEAN /\ sig \in BOOLEAN
  /\ pc \in {"first", "notify", "drain", "wait", "sleep", "check", "pause", "exit", "busy"}
  /\ gotSig \in BOOLEAN /\ setups \in 0..MaxMsgs /\ drains \in 0..MaxMsgs

Waiting == pc \in {"wait", "pause"} /\ ~sig /\ setups = 0 /\ drains = 0
\* A program never waits for a notification that cannot come: with messages
\* in the queue, or without a registration.  Two exceptions: messages that
\* were there before the first mq_notify() where the queue is not emptied
\* first, and in 52-06 a signal that came before sigwaitinfo().  No program
\* fails because it is registered already, and none reads a message twice.
NoneMissed ==
  /\ pc # "busy"
  /\ Waiting /\ ~lost => queue = <<>> /\ reg
  /\ got = [i \in 1..Len(got) |-> i]

\* Again and again the queue is empty, if the program has not ended and no
\* notification was lost.
Emptied == queue = <<>> \/ lost \/ pc = "exit"
=============================================================================
