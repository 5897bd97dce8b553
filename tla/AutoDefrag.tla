----------------------------- MODULE AutoDefrag -----------------------------
(***************************************************************************)
(* The background defragmentation coordinator (src/src/auto_defrag.rs):    *)
(* threads that call set_config and shutdown on one controller, the worker *)
(* thread the controller starts and joins, the condition variable on which *)
(* the worker sleeps, and the end of the manager that the worker only      *)
(* holds a weak reference to.                                              *)
(*                                                                         *)
(* Every step is one critical section of the config, shutdown or worker    *)
(* mutex, one notification or one join.                                    *)
(***************************************************************************)
EXTENDS Naturals

CONSTANTS Caller,      \* threads that share the DiskManager
          Ops,         \* what they call: "enable", "disable", "stop"
          MaxCalls,    \* bound: number of calls
          SpawnFails   \* whether starting a thread may fail

ASSUME CallAssumption ==
    /\ Ops \subseteq {"enable", "disable", "stop"}
    /\ MaxCalls \in Nat
    /\ SpawnFails \in BOOLEAN

VARIABLES
    enabled,  \* config.enabled
    stop,     \* the flag under the shutdown mutex
    handle,   \* the worker whose JoinHandle is stored, 0 when None
    owned,    \* a DiskManager still owns the inner state
    pc,       \* pc[c]: where the call of c is
    joining,  \* joining[c]: the worker that c joins
    wpc       \* wpc[w]: where worker thread w is

(* Observers. *)
VARIABLES
    calls,    \* calls made so far
    last      \* the last call made, "several" when it began during another

vars == <<enabled, stop, handle, owned, pc, joining, wpc, calls, last>>
caller == <<pc, joining>>
observers == <<calls, last>>

(* A call starts at most one worker. *)
Worker == 1 .. MaxCalls

Live == {w \in Worker : wpc[w] \notin {"unborn", "exited"}}

Started == {w \in Worker : wpc[w] # "unborn"}

TypeOK ==
    /\ enabled \in BOOLEAN /\ stop \in BOOLEAN /\ owned \in BOOLEAN
    /\ handle \in {0} \cup Started
    /\ pc \in [Caller -> {"idle", "notify", "branch", "ensure", "stop",
                          "notifyStop", "take", "join", "clear"}]
    /\ joining \in [Caller -> {0} \cup Started]
    /\ wpc \in [Worker -> {"unborn", "check", "enter", "waiting", "woken",
                           "upgrade", "run", "pass", "exited"}]
    /\ calls \in 0 .. MaxCalls
    /\ last \in {"none", "enable", "disable", "stop", "several"}

Init ==
    /\ enabled = FALSE
    /\ stop = FALSE
    /\ handle = 0
    /\ owned = TRUE
    /\ pc = [c \in Caller |-> "idle"]
    /\ joining = [c \in Caller |-> 0]
    /\ wpc = [w \in Worker |-> "unborn"]
    /\ calls = 0
    /\ last = "none"

(* No call is in progress. *)
Quiet == \A c \in Caller : pc[c] = "idle"

(* A call begins, alone or while others are in progress. *)
Begins(op) ==
    /\ calls < MaxCalls
    /\ calls' = calls + 1
    /\ last' = IF Quiet THEN op ELSE "several"

Goto(c, step) == pc' = [pc EXCEPT ![c] = step]

WGoto(w, step) == wpc' = [wpc EXCEPT ![w] = step]

(* Condvar::notify_all wakes the workers that wait, and only those. *)
NotifyAll == wpc' = [w \in Worker |-> IF wpc[w] = "waiting" THEN "woken" ELSE wpc[w]]

----------------------------------------------------------------------------
(* set_config and shutdown *)

SetConfig(c, op) ==
    /\ pc[c] = "idle" /\ owned
    /\ op \in Ops \ {"stop"}
    /\ Begins(op)
    /\ enabled' = (op = "enable")
    /\ Goto(c, "notify")
    /\ UNCHANGED <<stop, handle, owned, joining, wpc>>

Notify(c) ==
    /\ pc[c] = "notify"
    /\ NotifyAll
    /\ Goto(c, "branch")
    /\ UNCHANGED <<enabled, stop, handle, owned, joining, observers>>

(* Mutant of Branch: disabling tells the worker and does not wait for it. *)
Branch_NoStop(c) ==
    /\ pc[c] = "branch"
    /\ Goto(c, IF enabled THEN "ensure" ELSE "idle")
    /\ UNCHANGED <<enabled, stop, handle, owned, joining, wpc, observers>>

Branch(c) ==
    /\ pc[c] = "branch"
    /\ Goto(c, IF enabled THEN "ensure" ELSE "stop")
    /\ UNCHANGED <<enabled, stop, handle, owned, joining, wpc, observers>>

NextWorker == CHOOSE w \in Worker \ Started : \A v \in 1 .. w - 1 : v \in Started

(* Mutant of EnsureWorker: a handle is stored although the spawn failed. *)
EnsureWorker_KeepsFailed(c) ==
    /\ pc[c] = "ensure"
    /\ \/ handle # 0 /\ UNCHANGED <<handle, wpc>>
       \/ /\ handle = 0
          /\ WGoto(NextWorker, "check")
          /\ handle' = NextWorker
       \/ handle = 0 /\ SpawnFails /\ handle' = NextWorker /\ UNCHANGED wpc
    /\ Goto(c, "idle")
    /\ UNCHANGED <<enabled, stop, owned, joining, observers>>

(* ensure_worker: the handle is checked, not whether the thread still runs. *)
EnsureWorker(c) ==
    /\ pc[c] = "ensure"
    /\ \/ handle # 0 /\ UNCHANGED <<handle, wpc>>
       \/ /\ handle = 0
          /\ WGoto(NextWorker, "check")
          /\ handle' = NextWorker
       \/ handle = 0 /\ SpawnFails /\ UNCHANGED <<handle, wpc>>
    /\ Goto(c, "idle")
    /\ UNCHANGED <<enabled, stop, owned, joining, observers>>

(* stop_auto_defrag: the configuration keeps its enabled flag. *)
StopCall(c) ==
    /\ pc[c] = "idle" /\ owned
    /\ "stop" \in Ops
    /\ Begins("stop")
    /\ Goto(c, "stop")
    /\ UNCHANGED <<enabled, stop, handle, owned, joining, wpc>>

SetStop(c) ==
    /\ pc[c] = "stop"
    /\ stop' = TRUE
    /\ Goto(c, "notifyStop")
    /\ UNCHANGED <<enabled, handle, owned, joining, wpc, observers>>

NotifyStop(c) ==
    /\ pc[c] = "notifyStop"
    /\ NotifyAll
    /\ Goto(c, "take")
    /\ UNCHANGED <<enabled, stop, handle, owned, joining, observers>>

TakeHandle(c) ==
    /\ pc[c] = "take"
    /\ handle' = 0
    /\ joining' = [joining EXCEPT ![c] = handle]
    /\ Goto(c, IF handle = 0 THEN "clear" ELSE "join")
    /\ UNCHANGED <<enabled, stop, owned, wpc, observers>>

(* Mutant of Join: the handle is dropped, which detaches the thread. *)
Join_Detached(c) ==
    /\ pc[c] = "join"
    /\ joining' = [joining EXCEPT ![c] = 0]
    /\ Goto(c, "clear")
    /\ UNCHANGED <<enabled, stop, handle, owned, wpc, observers>>

Join(c) ==
    /\ pc[c] = "join"
    /\ wpc[joining[c]] = "exited"
    /\ joining' = [joining EXCEPT ![c] = 0]
    /\ Goto(c, "clear")
    /\ UNCHANGED <<enabled, stop, handle, owned, wpc, observers>>

ClearStop(c) ==
    /\ pc[c] = "clear"
    /\ stop' = FALSE
    /\ Goto(c, "idle")
    /\ UNCHANGED <<enabled, handle, owned, joining, wpc, observers>>

(* The last DiskManager is dropped.  Nothing calls shutdown. *)
DropManager ==
    /\ owned /\ Quiet
    /\ owned' = FALSE
    /\ UNCHANGED <<enabled, stop, handle, caller, wpc, observers>>

----------------------------------------------------------------------------
(* run_worker *)

ReadConfig(w) ==
    /\ wpc[w] = "check"
    /\ WGoto(w, IF enabled THEN "enter" ELSE "exited")
    /\ UNCHANGED <<enabled, stop, handle, owned, caller, observers>>

(* wait_timeout releases the shutdown mutex without having looked at stop. *)
EnterWait(w) ==
    /\ wpc[w] = "enter"
    /\ WGoto(w, "waiting")
    /\ UNCHANGED <<enabled, stop, handle, owned, caller, observers>>

Timeout(w) ==
    /\ wpc[w] = "waiting"
    /\ WGoto(w, "woken")
    /\ UNCHANGED <<enabled, stop, handle, owned, caller, observers>>

(* Mutant of LeaveWait: the worker does not look at stop after the wait. *)
LeaveWait_IgnoresStop(w) ==
    /\ wpc[w] = "woken"
    /\ WGoto(w, "upgrade")
    /\ UNCHANGED <<enabled, stop, handle, owned, caller, observers>>

LeaveWait(w) ==
    /\ wpc[w] = "woken"
    /\ WGoto(w, IF stop THEN "exited" ELSE "upgrade")
    /\ UNCHANGED <<enabled, stop, handle, owned, caller, observers>>

(* Mutant of Upgrade: the worker holds a strong reference. *)
Upgrade_Strong(w) ==
    /\ wpc[w] = "upgrade"
    /\ WGoto(w, "run")
    /\ UNCHANGED <<enabled, stop, handle, owned, caller, observers>>

(* Weak::upgrade succeeds while a manager or another pass owns the state. *)
Upgrade(w) ==
    /\ wpc[w] = "upgrade"
    /\ LET alive == owned \/ \E v \in Worker : wpc[v] \in {"run", "pass"}
       IN  WGoto(w, IF alive THEN "run" ELSE "exited")
    /\ UNCHANGED <<enabled, stop, handle, owned, caller, observers>>

(* run_once: nothing when disabled; else a measurement and, unless it is   *)
(* skipped or fails, a pass.                                               *)
RunOnce(w) ==
    /\ wpc[w] = "run"
    /\ \/ WGoto(w, "check")
       \/ enabled /\ WGoto(w, "pass")
    /\ UNCHANGED <<enabled, stop, handle, owned, caller, observers>>

EndPass(w) ==
    /\ wpc[w] = "pass"
    /\ WGoto(w, "check")
    /\ UNCHANGED <<enabled, stop, handle, owned, caller, observers>>

----------------------------------------------------------------------------
CallerStep(c) ==
    \/ Notify(c) \/ Branch(c) \/ EnsureWorker(c)
    \/ SetStop(c) \/ NotifyStop(c) \/ TakeHandle(c) \/ Join(c) \/ ClearStop(c)

WorkerStep(w) ==
    \/ ReadConfig(w) \/ EnterWait(w) \/ Timeout(w) \/ LeaveWait(w)
    \/ Upgrade(w) \/ RunOnce(w) \/ EndPass(w)

(* The process may stay like this for ever. *)
Finished == ~owned /\ Live = {} /\ UNCHANGED vars

Next ==
    \/ \E c \in Caller : \/ \E op \in Ops : SetConfig(c, op)
                         \/ StopCall(c)
                         \/ CallerStep(c)
    \/ \E w \in Worker : WorkerStep(w)
    \/ DropManager
    \/ Finished

(* Threads run, and a wait with a timeout ends: nothing else is assumed.   *)
(* No call is ever obliged to happen.                                      *)
Fairness ==
    /\ \A c \in Caller : WF_vars(CallerStep(c))
    /\ \A w \in Worker : WF_vars(WorkerStep(w))

Spec == Init /\ [][Next]_vars /\ Fairness

----------------------------------------------------------------------------
(* Properties *)

(* No worker thread escapes the controller, however the calls of several   *)
(* threads overlap: the handle of a thread that runs is stored, or a       *)
(* stop_worker that has taken it is joining the thread.  So two workers    *)
(* are only ever alive while a call is in progress, and never for longer.  *)
NoStrayWorker == \A w \in Live : w = handle \/ \E c \in Caller : joining[c] = w

(* "Disabling it stops the thread and waits for the current pass to        *)
(* finish" (set_auto_defrag): once a disabling or stopping call that did   *)
(* not overlap another has returned, there is no worker thread, so no pass *)
(* is running either, whatever calls overlapped before it.                 *)
StoppedOnReturn == Quiet /\ last \in {"disable", "stop"} => Live = {}

(* "Stops the worker thread and waits for it to finish" (stop_worker):     *)
(* a call that no other overlaps returns, also when the notification came  *)
(* before the worker waited, and whatever calls overlapped before it.      *)
CallsReturn == \A c \in Caller : pc[c] # "idle" ~> pc[c] = "idle" \/ last = "several"

(* Not so in the code, and not checked: every call returns.                *)
EveryCallReturns == \A c \in Caller : pc[c] # "idle" ~> pc[c] = "idle"

(* "as soon as the last DiskManager clone is dropped, the upgrade fails    *)
(* and the thread exits" (run_worker), though nobody tells it to stop.     *)
WorkerLeaves == ~owned ~> Live = {}

(* "Whether the background coordinator is running" (AutoDefragConfig::     *)
(* enabled), "(re)starts or stops the worker" (set_config): when no call   *)
(* is in progress and the configuration is enabled, a worker runs.         *)
EnabledMeansRunning == Quiet /\ owned /\ enabled => Live # {}
=============================================================================
