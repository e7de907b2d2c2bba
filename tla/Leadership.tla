---------------------------- MODULE Leadership ----------------------------
(***************************************************************************)
(* The manager's processes and the lease (runWithLeaderElection).  Every   *)
(* process has a main goroutine in elector.Run and, once elected, one that *)
(* runs the controller; when either ends it has to end the other, and the  *)
(* process exits and is started again.                                     *)
(*                                                                         *)
(* The elector is a library.  It renews the lease or gives up after        *)
(* renewDeadline, while others wait for the longer leaseDuration, which    *)
(* the library validates.  With timers that fire on time nobody is elected *)
(* before the last leader's elector has given up or its process is dead.   *)
(***************************************************************************)
EXTENDS Naturals

CONSTANT Process    \* the replicas of the manager

VARIABLES elector,    \* elector.Run: "off" without a process, then "acquire",
                      \* "renew" and "done"
          controller  \* ctrl.Run: "idle" before it is called, "starting" until
                      \* the caches are synced, "running", "returned"

electionVars == <<elector, controller>>

LeadershipTypeOK ==
    /\ elector \in [Process -> {"off", "acquire", "renew", "done"}]
    /\ controller \in [Process -> {"idle", "starting", "running", "returned"}]

LeadershipInit ==
    /\ elector = [p \in Process |-> "acquire"]
    /\ controller = [p \in Process |-> "idle"]

\* p's controller runs with a context that is not cancelled.
Leads(p) == elector[p] = "renew" /\ controller[p] = "running"

Goes(p, from, to) == elector[p] = from /\ elector' = [elector EXCEPT ![p] = to]

\* run, up to elector.Run.
StartProcess(p) == Goes(p, "off", "acquire") /\ UNCHANGED controller

\* elector.Run gets the lease and starts the goroutine of OnStartedLeading.
AcquireLease(p) ==
    /\ \A q \in Process : elector[q] # "renew"
    /\ Goes(p, "acquire", "renew")
    /\ UNCHANGED controller

Enters(p, from, to) == controller[p] = from /\ controller' = [controller EXCEPT ![p] = to]

\* OnStartedLeading sets leading and calls ctrl.Run.  The goroutine may come
\* to it after the elector has given up.
StartLeading(p) ==
    /\ elector[p] \in {"renew", "done"}
    /\ Enters(p, "idle", "starting")
    /\ UNCHANGED elector

\* ctrl.Run has read the boot ConfigMap and synced its caches.
StartWorkers(p) ==
    /\ elector[p] = "renew"
    /\ Enters(p, "starting", "running")
    /\ UNCHANGED elector

\* ctrl.Run returns the error of InitializeMirror.
RunFails(p) == elector[p] = "renew" /\ Enters(p, "starting", "returned") /\ UNCHANGED elector

\* Its context was cancelled, and ctrl.Run returns when no worker is left.
RunReturns(p) ==
    /\ elector[p] = "done"
    /\ Enters(p, "starting", "returned") \/ Enters(p, "running", "returned")
    /\ UNCHANGED elector

\* A plausible bug: the elector goes on without a controller.
KeepsElecting(p) ==
    controller[p] = "returned" /\ elector[p] = "renew" /\ UNCHANGED electionVars

\* The cancel() after ctrl.Run has returned.
CancelElection(p) ==
    /\ controller[p] = "returned"
    /\ Goes(p, "renew", "done")
    /\ UNCHANGED controller

\* The elector cannot renew the lease, or the process gets a signal: the
\* context of ctrl.Run is cancelled.
StopElecting(p) ==
    /\ Goes(p, "renew", "done") \/ Goes(p, "acquire", "done")
    /\ UNCHANGED controller

ProcessGone(p) ==
    /\ elector' = [elector EXCEPT ![p] = "off"]
    /\ controller' = [controller EXCEPT ![p] = "idle"]

\* runWithLeaderElection after elector.Run: the process was not leading yet,
\* or the controller has returned, or leaderRunErrTimeout has passed.
ExitProcess(p) == elector[p] = "done" /\ ProcessGone(p)

\* The process dies.
CrashProcess(p) == elector[p] # "off" /\ ProcessGone(p)
===========================================================================
