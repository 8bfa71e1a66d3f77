------------------------------- MODULE MCLive -------------------------------
(***************************************************************************)
(* What must eventually happen: of the tasks, and of tasks that look up an *)
(* address, side by side.  A behaviour is one of Task or one of Arp.       *)
(***************************************************************************)
EXTENDS Task, Arp

VARIABLE livePart

liveVars == <<livePart, vars, arpVars>>

Scheduling == livePart = "tasks"
Resolving == livePart = "arp"

LiveInit == livePart \in {"tasks", "arp"} /\ Init /\ ArpInit

LiveNext ==
    /\ UNCHANGED livePart
    /\ \/ Scheduling /\ Next /\ UNCHANGED arpVars
       \/ Resolving /\ ArpNext /\ UNCHANGED vars

(* The fairness of each, of its own behaviours.                             *)
LiveFairness ==
    /\ WF_vars(Scheduling /\ Timer)
    /\ WF_vars(Scheduling /\ PickNext)
    /\ WF_vars(Scheduling /\ (ProcessSignals \/ SignalExit))
    /\ \A p \in Pids : SF_vars(Scheduling /\ KernelStep(p))
    /\ \A t \in Resolvers : WF_arpVars(Resolving /\ ResolverStep(t))

LiveSpec == LiveInit /\ [][LiveNext]_liveVars /\ LiveFairness

(* Every runnable task gets the CPU again and again (schedule).             *)
RunnableScheduled == Scheduling => EveryTaskScheduled

(* SIGKILL terminates its target, asleep or not (process_signals).          *)
KilledTerminates == Scheduling => KillTerminates

(* arp_resolve returns, whether an answer comes or not.                     *)
ResolveReturns == Resolving => ArpReturns

(* Programs never signal init or the idle task.                             *)
OrdinaryTasks == 3..MaxPid

MCMacs == {<<"mac", ip>> : ip \in Ips}
MCHostMac == [ip \in Ips |-> <<"mac", ip>>]
=============================================================================
