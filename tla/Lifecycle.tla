------------------------------ MODULE Lifecycle ------------------------------
(***************************************************************************)
(* What run_server promises whoever starts the engine, with no word of fds,  *)
(* handlers or threads: it starts as a whole or fails; a shutdown, once      *)
(* asked for, is not forgotten; a worker serves until then; the report comes *)
(* when all have ended, and success after it; and being asked to end, by a   *)
(* signal too, never cuts the workers' service short.  Only a client that is *)
(* gone may: the write to it can end the process.                          *)
(***************************************************************************)
EXTENDS Integers

CONSTANTS Workers,
          Reports    \* whether the requests are reported

NoReport == -1

VARIABLES work,      \* each worker: "idle", "serving", "ended"
          asked,     \* whether a shutdown was asked for
          recorded,  \* how many requests were recorded
          report,    \* how many are reported
          outcome    \* "none" yet, "success", "failure", "killed", "broken_pipe"

vars == <<work, asked, recorded, report, outcome>>

All(state) == \A w \in Workers : work[w] = state

Init ==
    /\ work = [w \in Workers |-> "idle"]
    /\ ~asked
    /\ recorded = 0
    /\ report = NoReport
    /\ outcome = "none"

Ask ==
    /\ asked' = TRUE
    /\ UNCHANGED <<work, recorded, report, outcome>>

Begin(w) ==
    /\ work[w] = "idle"
    /\ work' = [work EXCEPT ![w] = "serving"]
    /\ UNCHANGED <<asked, recorded, report, outcome>>

Record(w) ==
    /\ work[w] = "serving"
    /\ recorded' = recorded + 1
    /\ UNCHANGED <<work, asked, report, outcome>>

Leave(w) ==
    /\ work[w] = "serving" /\ asked
    /\ work' = [work EXCEPT ![w] = "ended"]
    /\ UNCHANGED <<asked, recorded, report, outcome>>

\* The reply's client is gone, and the write of it raises SIGPIPE.
BreakPipe(w) ==
    /\ work[w] = "serving"
    /\ outcome' = "broken_pipe"
    /\ UNCHANGED <<work, asked, recorded, report>>

Report ==
    /\ All("ended")
    /\ Reports /\ report = NoReport
    /\ report' = recorded
    /\ UNCHANGED <<work, asked, recorded, outcome>>

\* "killed" is a signal that asks the process to end where it has no handler for it.
End ==
    /\ \/ /\ All("ended") /\ (Reports => report # NoReport)
          /\ outcome' = "success"
       \/ All("idle") /\ outcome' = "failure"
       \/ (All("idle") \/ All("ended")) /\ outcome' = "killed"
    /\ UNCHANGED <<work, asked, recorded, report>>

Next ==
    /\ outcome = "none"
    /\ \/ Ask \/ Report \/ End
       \/ \E w \in Workers : Begin(w) \/ Record(w) \/ Leave(w) \/ BreakPipe(w)

Spec == Init /\ [][Next]_vars
=============================================================================
