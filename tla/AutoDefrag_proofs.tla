-------------------------- MODULE AutoDefrag_proofs --------------------------
(***************************************************************************)
(* Machine-checked proofs about AutoDefrag, for any number of calling      *)
(* threads and of calls, and however the calls overlap.                    *)
(***************************************************************************)
EXTENDS AutoDefrag, FiniteSetTheorems, TLAPS

-----------------------------------------------------------------------------
(* Type correctness *)

\* The calls that may still start a worker.
Starting == {c \in Caller : pc[c] \in {"notify", "branch", "ensure"}}

\* A call starts at most one worker, and workers are numbered in order: there
\* is always a number left for a call that may still start one.
Numbered ==
    /\ IsFiniteSet(Starting)
    /\ \E k \in Nat : Started = 1 .. k /\ k + Cardinality(Starting) <= calls

Typed == TypeOK /\ Numbered

-----------------------------------------------------------------------------
(* The threads that run, and the calls that stop them *)

\* A worker that runs is known, and a call holds a handle only to join it.
Known ==
    /\ NoStrayWorker
    /\ \A c \in Caller : joining[c] # 0 => pc[c] = "join"

\* The last call began when no other was in progress, and none has begun since.
Alone ==
    last # "several" =>
      \A c, d \in Caller : pc[c] # "idle" /\ pc[d] # "idle" => c = d

\* Such a call that disables or stops the worker takes its handle before it ends.
Stopping ==
    last \in {"disable", "stop"} =>
      /\ \A c \in Caller : /\ pc[c] # "ensure"
                           /\ pc[c] \in {"notify", "branch"} => ~enabled
      /\ \/ handle = 0
         \/ \E c \in Caller : pc[c] \in {"notify", "branch", "stop", "notifyStop", "take"}

IInv == Typed /\ Known /\ Alone /\ Stopping

-----------------------------------------------------------------------------
(* Steps of workers *)

Places == {"unborn", "check", "enter", "waiting", "woken", "upgrade", "run", "pass", "exited"}

Steps == {"idle", "notify", "branch", "ensure", "stop", "notifyStop", "take", "join", "clear"}

\* No worker is born, and none that has exited runs again.
Carries ==
    /\ wpc' \in [Worker -> Places]
    /\ \A w \in Worker : /\ wpc'[w] = "unborn" <=> wpc[w] = "unborn"
                         /\ wpc[w] = "exited" => wpc'[w] = "exited"

\* Then the same workers are started, and no more of them run.
LEMMA CarriesKeeps ==
  ASSUME Carries
  PROVE  Started' = Started /\ Live' \subseteq Live
BY DEF Carries, Started, Live

\* A notification wakes workers and does nothing else.
LEMMA NotifyCarries ==
  ASSUME TypeOK, NotifyAll
  PROVE  Carries
<1>1. wpc \in [Worker -> Places]
  BY DEF TypeOK, Places
<1> QED BY <1>1 DEF NotifyAll, Carries, Places

\* So does a step of the worker's own loop.
LEMMA WorkerCarries ==
  ASSUME TypeOK, NEW w \in Worker, WorkerStep(w)
  PROVE  Carries /\ UNCHANGED <<enabled, stop, handle, owned, pc, joining, calls, last>>
<1>1. wpc \in [Worker -> Places]
  BY DEF TypeOK, Places
<1>2. PICK s \in Places \ {"unborn"} : WGoto(w, s) /\ wpc[w] \notin {"unborn", "exited"}
  BY DEF WorkerStep, ReadConfig, EnterWait, Timeout, LeaveWait, Upgrade, RunOnce, EndPass, Places
<1>3. Carries
  BY <1>1, <1>2 DEF Carries, WGoto, Places
<1> QED
  BY <1>3 DEF WorkerStep, ReadConfig, EnterWait, Timeout, LeaveWait, Upgrade, RunOnce, EndPass,
              caller, observers

-----------------------------------------------------------------------------
(* Type correctness *)

\* A step that starts no worker and no call that may.
LEMMA NumberedKeeps ==
  ASSUME Typed, TypeOK', Started' = Started, Starting' \subseteq Starting, calls' = calls
  PROVE  Typed'
<1>1. IsFiniteSet(Starting) /\ IsFiniteSet(Starting')
      /\ Cardinality(Starting) \in Nat /\ Cardinality(Starting') \in Nat
      /\ Cardinality(Starting') <= Cardinality(Starting)
  <2>1. IsFiniteSet(Starting)
    BY DEF Typed, Numbered
  <2>2. IsFiniteSet(Starting') /\ Cardinality(Starting') <= Cardinality(Starting)
    BY <2>1, FS_Subset
  <2> QED BY <2>1, <2>2, FS_CardinalityType
<1>2. PICK k \in Nat : Started = 1 .. k /\ k + Cardinality(Starting) <= calls
  BY DEF Typed, Numbered
<1>3. calls \in Nat
  BY CallAssumption DEF Typed, TypeOK
<1>4. k + Cardinality(Starting') <= calls'
  BY <1>1, <1>2, <1>3
<1> QED BY <1>1, <1>2, <1>4 DEF Typed, Numbered

\* What a caller's step does to the place of its call.
LEMMA GotoMoves ==
  ASSUME TypeOK, NEW c \in Caller, NEW s \in Steps, Goto(c, s)
  PROVE  /\ pc' \in [Caller -> Steps] /\ pc'[c] = s
         /\ \A d \in Caller : d # c => pc'[d] = pc[d]
BY DEF TypeOK, Goto, Steps

\* The next worker is the first one that was never started.
LEMMA NextIsFirst ==
  ASSUME NEW k \in Nat, k < MaxCalls, Started = 1 .. k
  PROVE  NextWorker = k + 1 /\ k + 1 \in Worker
<1>1. k + 1 \in Worker \ Started /\ \A v \in 1 .. (k + 1) - 1 : v \in Started
  BY CallAssumption DEF Worker
<1>2. NextWorker \in Worker \ Started /\ \A v \in 1 .. NextWorker - 1 : v \in Started
  BY <1>1 DEF NextWorker
<1>3. NextWorker \in Nat /\ NextWorker > k
  BY <1>2, CallAssumption DEF Worker
<1>4. ~ (k + 1 < NextWorker)
  <2> SUFFICES ASSUME k + 1 < NextWorker PROVE FALSE
    OBVIOUS
  <2>1. k + 1 \in 1 .. NextWorker - 1
    BY <1>3
  <2> QED BY <1>1, <1>2, <2>1
<1> QED BY <1>1, <1>3, <1>4

\* A worker is started only when there is a number left for it.
LEMMA SpawnTyped ==
  ASSUME Typed, NEW c \in Caller, pc[c] = "ensure"
  PROVE  \E k \in Nat : /\ Started = 1 .. k /\ k < MaxCalls /\ NextWorker = k + 1
                        /\ NextWorker \in Worker
                        /\ k + 1 + Cardinality(Starting \ {c}) <= calls
<1>1. IsFiniteSet(Starting) /\ c \in Starting
  BY DEF Typed, Numbered, Starting
<1>2. PICK k \in Nat : Started = 1 .. k /\ k + Cardinality(Starting) <= calls
  BY DEF Typed, Numbered
<1>3. calls \in Nat /\ calls <= MaxCalls
  BY CallAssumption DEF Typed, TypeOK
<1>4. /\ Cardinality(Starting) \in Nat /\ Cardinality(Starting \ {c}) \in Nat
      /\ Cardinality(Starting \ {c}) = Cardinality(Starting) - 1
  BY <1>1, FS_RemoveElement, FS_CardinalityType
<1>5. k < MaxCalls /\ k + 1 + Cardinality(Starting \ {c}) <= calls
  BY <1>2, <1>3, <1>4, CallAssumption
<1> QED BY <1>2, <1>5, NextIsFirst

\* The step of ensure_worker that starts a thread.
Spawn(c) ==
    /\ pc[c] = "ensure" /\ handle = 0
    /\ WGoto(NextWorker, "check") /\ handle' = NextWorker
    /\ Goto(c, "idle")
    /\ UNCHANGED <<enabled, stop, owned, joining, observers>>

\* It keeps the types, and the only new worker is the one whose handle is stored.
LEMMA SpawnKeeps ==
  ASSUME Typed, NEW c \in Caller, Spawn(c)
  PROVE  /\ Typed' /\ Live' \subseteq Live \cup {handle'}
         /\ pc'[c] = "idle" /\ \A d \in Caller : d # c => pc'[d] = pc[d]
<1>1. PICK k \in Nat : /\ Started = 1 .. k /\ k < MaxCalls /\ NextWorker = k + 1
                       /\ NextWorker \in Worker
                       /\ k + 1 + Cardinality(Starting \ {c}) <= calls
  BY SpawnTyped DEF Spawn
<1>2. /\ pc' \in [Caller -> Steps] /\ pc'[c] = "idle"
      /\ \A d \in Caller : d # c => pc'[d] = pc[d]
  BY GotoMoves DEF Spawn, Typed, Steps
<1>3. /\ wpc' \in [Worker -> Places] /\ wpc'[NextWorker] = "check"
      /\ \A w \in Worker : w # NextWorker => wpc'[w] = wpc[w]
  BY <1>1 DEF Spawn, WGoto, Typed, TypeOK, Places
<1>4. Started' = Started \cup {NextWorker}
  BY <1>1, <1>3, Zenon DEF Started
<1>5. Started' = 1 .. k + 1 /\ Started \subseteq Started'
  BY <1>1, <1>4
<1>6. TypeOK'
  BY <1>2, <1>3, <1>4, <1>5 DEF Spawn, Typed, TypeOK, Steps, Places, observers
<1>7. Starting' = Starting \ {c}
  BY <1>2 DEF Starting
<1>8. IsFiniteSet(Starting')
  BY <1>7, FS_RemoveElement, SMTT(60) DEF Typed, Numbered
<1>9. Numbered'
  <2>1. k + 1 \in Nat /\ calls' = calls
    BY DEF Spawn, observers
  <2> QED BY <1>1, <1>5, <1>7, <1>8, <2>1, SMTT(60) DEF Numbered
<1>10. Live' \subseteq Live \cup {handle'}
  BY <1>3 DEF Live, Spawn
<1> QED BY <1>2, <1>6, <1>9, <1>10 DEF Typed

\* The steps of a call other than its first one and the start of a thread.
Moves(c, s) ==
    /\ Carries /\ Goto(c, s) /\ s \in Steps \ {"notify"}
    /\ s \in {"branch", "ensure"} => pc[c] \in {"notify", "branch"}
    /\ stop' \in BOOLEAN /\ handle' \in {0, handle}
    /\ joining' \in [Caller -> {0} \cup Started]
    /\ UNCHANGED <<enabled, owned, calls, last>>

\* A step of a caller that carries its worker along keeps the state well-formed.
LEMMA MovesTyped ==
  ASSUME Typed, NEW c \in Caller, NEW s, Moves(c, s)
  PROVE  Typed'
<1>1. s \in Steps /\ Started' = Started
  BY CarriesKeeps DEF Moves
<1>2. /\ pc' \in [Caller -> Steps] /\ pc'[c] = s
      /\ \A d \in Caller : d # c => pc'[d] = pc[d]
  BY <1>1, GotoMoves DEF Moves, Typed
<1>3. TypeOK'
  BY <1>1, <1>2 DEF Moves, Carries, Typed, TypeOK, Steps, Places
<1>4. Starting' \subseteq Starting
  BY <1>2 DEF Moves, Starting
<1> QED BY <1>1, <1>3, <1>4, NumberedKeeps DEF Moves

\* Every step of a call is one of these.
LEMMA CallerMoves ==
  ASSUME Typed, NEW c \in Caller, CallerStep(c)
  PROVE  Spawn(c) \/ \E s \in Steps : Moves(c, s)
<1>1. /\ TypeOK /\ wpc \in [Worker -> Places] /\ stop \in BOOLEAN /\ enabled \in BOOLEAN
      /\ handle \in {0} \cup Started /\ joining \in [Caller -> {0} \cup Started]
  BY DEF Typed, TypeOK, Places
<1>2. wpc' = wpc => Carries
  BY <1>1 DEF Carries
<1>3. CASE Notify(c)
  BY <1>1, <1>3, NotifyCarries DEF Notify, Moves, Steps, observers
<1>4. CASE Branch(c)
  <2>1. CASE enabled
    BY <1>1, <1>2, <1>4, <2>1 DEF Branch, Moves, Steps, observers
  <2>2. CASE ~enabled
    BY <1>1, <1>2, <1>4, <2>2 DEF Branch, Moves, Steps, observers
  <2> QED BY <2>1, <2>2
<1>5. CASE EnsureWorker(c)
  <2>1. CASE UNCHANGED <<handle, wpc>>
    BY <1>1, <1>2, <1>5, <2>1 DEF EnsureWorker, Moves, Steps, observers
  <2>2. CASE handle = 0 /\ WGoto(NextWorker, "check") /\ handle' = NextWorker
    BY <1>5, <2>2 DEF EnsureWorker, Spawn
  <2> QED BY <1>5, <2>1, <2>2 DEF EnsureWorker
<1>6. CASE SetStop(c)
  BY <1>1, <1>2, <1>6 DEF SetStop, Moves, Steps, observers
<1>7. CASE NotifyStop(c)
  BY <1>1, <1>7, NotifyCarries DEF NotifyStop, Moves, Steps, observers
<1>8. CASE TakeHandle(c)
  <2>1. joining' \in [Caller -> {0} \cup Started]
    BY <1>1, <1>8 DEF TakeHandle
  <2>2. CASE handle = 0
    BY <1>1, <1>2, <1>8, <2>1, <2>2 DEF TakeHandle, Moves, Steps, observers
  <2>3. CASE handle # 0
    BY <1>1, <1>2, <1>8, <2>1, <2>3 DEF TakeHandle, Moves, Steps, observers
  <2> QED BY <2>2, <2>3
<1>9. CASE Join(c)
  <2>1. joining' \in [Caller -> {0} \cup Started]
    BY <1>1, <1>9 DEF Join
  <2> QED BY <1>1, <1>2, <1>9, <2>1 DEF Join, Moves, Steps, observers
<1>10. CASE ClearStop(c)
  BY <1>1, <1>2, <1>10, Zenon DEF ClearStop, Moves, Steps, observers
<1> QED
  BY <1>3, <1>4, <1>5, <1>6, <1>7, <1>8, <1>9, <1>10 DEF CallerStep

\* The first step of set_config, and of stop_worker.
LEMMA CallTyped ==
  ASSUME Typed, NEW c \in Caller,
         (\E op \in Ops : SetConfig(c, op)) \/ StopCall(c)
  PROVE  Typed'
<1>1. TypeOK /\ calls \in Nat /\ calls < MaxCalls /\ calls' = calls + 1 /\ calls' \in 0 .. MaxCalls
      /\ wpc' = wpc /\ pc[c] = "idle"
  BY CallAssumption DEF SetConfig, StopCall, Begins, Typed, TypeOK
<1>2. PICK s \in {"notify", "stop"} : Goto(c, s)
  BY DEF SetConfig, StopCall
<1>3. /\ pc' \in [Caller -> Steps] /\ pc'[c] = s
      /\ \A d \in Caller : d # c => pc'[d] = pc[d]
  BY <1>1, <1>2, GotoMoves DEF Steps
<1>4. Started' = Started
  BY <1>1 DEF Started
<1>5. TypeOK'
  <2>1. last' \in {"none", "enable", "disable", "stop", "several"} /\ enabled' \in BOOLEAN
    BY <1>1, CallAssumption, Zenon DEF SetConfig, StopCall, Begins, TypeOK
  <2>2. UNCHANGED <<stop, handle, owned, joining>>
    BY DEF SetConfig, StopCall
  <2> QED BY <1>1, <1>3, <1>4, <2>1, <2>2 DEF TypeOK, Steps
<1>6. Starting' \subseteq Starting \cup {c}
  BY <1>3 DEF Starting
<1>7. IsFiniteSet(Starting') /\ Cardinality(Starting) \in Nat /\ Cardinality(Starting') \in Nat
      /\ Cardinality(Starting') <= Cardinality(Starting) + 1
  <2>1. IsFiniteSet(Starting)
    BY DEF Typed, Numbered
  <2>2. /\ IsFiniteSet(Starting \cup {c}) /\ Cardinality(Starting) \in Nat
        /\ Cardinality(Starting \cup {c}) <= Cardinality(Starting) + 1
    <3>1. Cardinality(Starting) \in Nat
      BY <2>1, FS_CardinalityType
    <3>2. /\ IsFiniteSet(Starting \cup {c})
          /\ Cardinality(Starting \cup {c}) =
               IF c \in Starting THEN Cardinality(Starting) ELSE Cardinality(Starting) + 1
      BY <2>1, FS_AddElement
    <3> QED BY <3>1, <3>2
  <2>3. IsFiniteSet(Starting') /\ Cardinality(Starting') <= Cardinality(Starting \cup {c})
    BY <1>6, <2>2, FS_Subset
  <2>4. Cardinality(Starting') \in Nat /\ Cardinality(Starting \cup {c}) \in Nat
    BY <2>2, <2>3, FS_CardinalityType
  <2> QED BY <2>2, <2>3, <2>4
<1>8. PICK k \in Nat : Started = 1 .. k /\ k + Cardinality(Starting) <= calls
  BY DEF Typed, Numbered
<1>9. k + Cardinality(Starting') <= calls'
  BY <1>1, <1>7, <1>8
<1> QED BY <1>4, <1>5, <1>7, <1>8, <1>9 DEF Typed, Numbered

\* So does every step.
LEMMA TypedNext == Typed /\ [Next]_vars => Typed'
<1> SUFFICES ASSUME Typed, [Next]_vars PROVE Typed'
  OBVIOUS
<1>1. ASSUME NEW c \in Caller, NEW op \in Ops, SetConfig(c, op) PROVE Typed'
  BY <1>1, CallTyped
<1>2. ASSUME NEW c \in Caller, StopCall(c) PROVE Typed'
  BY <1>2, CallTyped
<1>3. ASSUME NEW c \in Caller, CallerStep(c) PROVE Typed'
  BY <1>3, CallerMoves, SpawnKeeps, MovesTyped
<1>4. ASSUME NEW w \in Worker, WorkerStep(w) PROVE Typed'
  <2>1. Carries /\ UNCHANGED <<enabled, stop, handle, owned, pc, joining, calls, last>>
    BY <1>4, WorkerCarries DEF Typed
  <2>2. Started' = Started /\ Starting' = Starting
    BY <2>1, CarriesKeeps DEF Starting
  <2>3. TypeOK'
    BY <2>1, <2>2 DEF Typed, TypeOK, Carries, Places
  <2> QED BY <2>1, <2>2, <2>3, NumberedKeeps
<1>5. CASE DropManager \/ UNCHANGED vars
  <2>1. UNCHANGED <<enabled, stop, handle, pc, joining, wpc, calls, last>> /\ owned' \in BOOLEAN
    BY <1>5, Zenon DEF DropManager, vars, caller, observers, Typed, TypeOK
  <2>2. Started' = Started /\ Starting' = Starting
    BY <2>1 DEF Started, Starting
  <2>3. TypeOK'
    BY <2>1, <2>2 DEF Typed, TypeOK
  <2> QED BY <2>1, <2>2, <2>3, NumberedKeeps
<1> QED BY <1>1, <1>2, <1>3, <1>4, <1>5 DEF Next, Finished

\* No worker has been started.
LEMMA TypedInit == Init => Typed
<1> SUFFICES ASSUME Init PROVE Typed
  OBVIOUS
<1>1. Started = {} /\ Starting = {} /\ calls = 0
  BY DEF Init, Started, Starting
<1>2. TypeOK
  <2>1. 0 \in 0 .. MaxCalls
    BY CallAssumption
  <2> QED BY <2>1, Zenon DEF Init, TypeOK
<1>3. Started = 1 .. 0
  BY <1>1
<1>4. IsFiniteSet(Starting) /\ Cardinality(Starting) = 0
  BY <1>1, FS_EmptySet
<1>5. 0 + Cardinality(Starting) <= calls
  BY <1>1, <1>4
<1> QED BY <1>2, <1>3, <1>4, <1>5 DEF Typed, Numbered

\* However the calls of several threads overlap, the handles stored and joined
\* are those of threads that were started.
THEOREM TypeCorrect == Spec => []TypeOK
<1>1. Typed => TypeOK
  BY DEF Typed
<1> QED BY <1>1, TypedInit, TypedNext, PTL DEF Spec

-----------------------------------------------------------------------------
(* No worker escapes, and none is left once it has been stopped *)

\* A step that changes neither the call nor the handles.
LEMMA SafeIdle ==
  ASSUME IInv, Live' \subseteq Live, UNCHANGED <<enabled, handle, pc, joining, last>>
  PROVE  Known' /\ Alone' /\ Stopping'
<1>1. Known'
  BY DEF IInv, Known, NoStrayWorker
<1>2. Alone'
  BY DEF IInv, Alone
<1> QED BY <1>1, <1>2 DEF IInv, Stopping

\* A call begins: when another is in progress, it is one of several.
LEMMA SafeCall ==
  ASSUME IInv, NEW c \in Caller,
         (\E op \in Ops : SetConfig(c, op)) \/ StopCall(c)
  PROVE  Known' /\ Alone' /\ Stopping'
<1>1. TypeOK /\ Known /\ UNCHANGED <<handle, joining, wpc>> /\ pc[c] = "idle"
  BY DEF IInv, Typed, SetConfig, StopCall
<1>2. PICK s \in {"notify", "stop"} :
        /\ Goto(c, s) /\ (last' = "disable" => ~enabled')
        /\ last' = "stop" => s = "stop"
  <2>1. CASE StopCall(c)
    BY <2>1 DEF StopCall, Begins
  <2>2. CASE \E op \in Ops : SetConfig(c, op)
    BY <2>2 DEF SetConfig, Begins
  <2> QED BY <2>1, <2>2
<1>3. pc'[c] = s /\ \A d \in Caller : d # c => pc'[d] = pc[d]
  BY <1>1, <1>2, GotoMoves DEF Steps
<1>4. last' # "several" => \A d \in Caller : d # c => pc'[d] = "idle"
  <2>1. last' # "several" => Quiet
    BY DEF SetConfig, StopCall, Begins
  <2> QED BY <1>3, <2>1 DEF Quiet
<1>5. Known'
  BY <1>1, <1>3 DEF Known, NoStrayWorker, Live
<1>6. Alone'
  BY <1>4 DEF Alone
<1>7. Stopping'
  BY <1>2, <1>3, <1>4 DEF Stopping
<1> QED BY <1>5, <1>6, <1>7

\* The handle of a thread that is started is stored where there was none.
LEMMA SafeSpawn ==
  ASSUME IInv, NEW c \in Caller, Spawn(c)
  PROVE  Known' /\ Alone' /\ Stopping'
<1>1. /\ Live' \subseteq Live \cup {handle'} /\ pc'[c] = "idle"
      /\ \A d \in Caller : d # c => pc'[d] = pc[d]
  BY SpawnKeeps DEF IInv
<1>2. pc[c] = "ensure" /\ handle = 0 /\ UNCHANGED <<joining, last, enabled>>
  BY DEF Spawn, observers
<1>3. \A w \in Live : w # 0
  BY CallAssumption DEF Live, Worker
<1>4. Known'
  BY <1>1, <1>2, <1>3 DEF IInv, Known, NoStrayWorker
<1>5. Alone'
  BY <1>1, <1>2 DEF IInv, Alone
<1>6. last \notin {"disable", "stop"}
  BY <1>2 DEF IInv, Stopping
<1> QED BY <1>2, <1>4, <1>5, <1>6 DEF Stopping

\* What the other steps of a call do to the handles.
LEMMA KnownMove ==
  ASSUME IInv, NEW c \in Caller, NEW s \in Steps, Moves(c, s), CallerStep(c), ~ Spawn(c)
  PROVE  Known'
<1>1. /\ Live' \subseteq Live
      /\ pc'[c] = s /\ \A d \in Caller : d # c => pc'[d] = pc[d]
  BY CarriesKeeps, GotoMoves DEF Moves, IInv, Typed
<1>2. joining \in [Caller -> {0} \cup Started] /\ Known
  BY DEF IInv, Typed, TypeOK
<1>3. \A w \in Live : w # 0 /\ wpc[w] # "exited"
  BY CallAssumption DEF Live, Worker
<1>4. CASE TakeHandle(c)
  <2>1. /\ handle' = 0 /\ joining'[c] = handle /\ joining[c] = 0
        /\ \A d \in Caller : d # c => joining'[d] = joining[d]
    BY <1>2, <1>4 DEF TakeHandle, Known
  <2>2. handle # 0 => s = "join"
    <3>1. Goto(c, IF handle = 0 THEN "clear" ELSE "join")
      BY <1>4 DEF TakeHandle
    <3> QED BY <1>1, <3>1, GotoMoves DEF IInv, Typed, Steps
  <2>3. NoStrayWorker'
    BY <1>1, <1>2, <1>3, <2>1 DEF Known, NoStrayWorker
  <2> QED BY <1>1, <1>2, <2>1, <2>2, <2>3 DEF Known
<1>5. CASE Join(c)
  <2>1. /\ wpc[joining[c]] = "exited" /\ joining'[c] = 0 /\ UNCHANGED handle
        /\ \A d \in Caller : d # c => joining'[d] = joining[d]
    BY <1>2, <1>5 DEF Join
  <2>2. NoStrayWorker'
    BY <1>1, <1>2, <1>3, <2>1 DEF Known, NoStrayWorker
  <2> QED BY <1>1, <1>2, <2>1, <2>2 DEF Known
<1>6. CASE Notify(c) \/ Branch(c) \/ EnsureWorker(c) \/ SetStop(c) \/ NotifyStop(c) \/ ClearStop(c)
  <2>1. UNCHANGED <<handle, joining>> /\ pc[c] # "join"
    BY <1>6 DEF Notify, Branch, EnsureWorker, SetStop, NotifyStop, ClearStop, Spawn
  <2> QED BY <1>1, <1>2, <2>1 DEF Known, NoStrayWorker
<1> QED BY <1>4, <1>5, <1>6 DEF CallerStep

\* They take a call that disables or stops the worker to its end.
LEMMA StoppingMove ==
  ASSUME IInv, NEW c \in Caller, NEW s \in Steps, Moves(c, s), CallerStep(c), ~ Spawn(c)
  PROVE  Alone' /\ Stopping'
<1>1. /\ UNCHANGED <<enabled, last>> /\ handle' \in {0, handle}
      /\ pc'[c] = s /\ \A d \in Caller : d # c => pc'[d] = pc[d]
  BY GotoMoves DEF Moves, IInv, Typed
<1>2. pc[c] # "idle"
  BY DEF CallerStep, Notify, Branch, EnsureWorker, SetStop, NotifyStop, TakeHandle, Join, ClearStop
<1>3. Alone'
  BY <1>1, <1>2 DEF IInv, Alone
<1>4. SUFFICES ASSUME last \in {"disable", "stop"} PROVE Stopping'
  BY <1>1, <1>3 DEF Stopping
<1>5. \A d \in Caller : d # c => pc[d] = "idle" /\ pc'[d] = "idle"
  BY <1>1, <1>2, <1>4 DEF IInv, Alone
<1>6. /\ pc[c] # "ensure" /\ (pc[c] \in {"notify", "branch"} => ~enabled)
      /\ \/ handle = 0
         \/ pc[c] \in {"notify", "branch", "stop", "notifyStop", "take"}
  BY <1>4, <1>5 DEF IInv, Stopping
<1>7. \/ pc[c] = "notify" /\ s = "branch"
      \/ pc[c] = "branch" /\ s = (IF enabled THEN "ensure" ELSE "stop")
      \/ pc[c] = "stop" /\ s = "notifyStop"
      \/ pc[c] = "notifyStop" /\ s = "take"
      \/ pc[c] = "take" /\ s \in {"join", "clear"} /\ handle' = 0
      \/ pc[c] \in {"join", "clear"} /\ s \in {"clear", "idle"}
  <2>1. pc \in [Caller -> Steps] /\ \A t : Goto(c, t) => pc'[c] = t
    BY DEF IInv, Typed, TypeOK, Goto, Steps
  <2> QED
    BY <1>1, <1>6, <2>1 DEF CallerStep, Notify, Branch, EnsureWorker, SetStop, NotifyStop,
                            TakeHandle, Join, ClearStop
<1>8. /\ pc'[c] # "ensure" /\ (pc'[c] \in {"notify", "branch"} => ~enabled)
      /\ \/ handle' = 0
         \/ pc'[c] \in {"notify", "branch", "stop", "notifyStop", "take"}
  BY <1>1, <1>6, <1>7
<1> QED BY <1>1, <1>3, <1>5, <1>8 DEF Stopping

\* Every step keeps the invariant.
LEMMA IInvNext == IInv /\ [Next]_vars => IInv'
<1> SUFFICES ASSUME IInv, [Next]_vars PROVE Known' /\ Alone' /\ Stopping'
  BY TypedNext DEF IInv
<1>1. ASSUME NEW c \in Caller, NEW op \in Ops, SetConfig(c, op) PROVE Known' /\ Alone' /\ Stopping'
  BY <1>1, SafeCall
<1>2. ASSUME NEW c \in Caller, StopCall(c) PROVE Known' /\ Alone' /\ Stopping'
  BY <1>2, SafeCall
<1>3. ASSUME NEW c \in Caller, CallerStep(c) PROVE Known' /\ Alone' /\ Stopping'
  <2>1. CASE Spawn(c)
    BY <2>1, SafeSpawn
  <2>2. CASE ~ Spawn(c)
    <3>1. PICK s \in Steps : Moves(c, s)
      BY <1>3, <2>2, CallerMoves DEF IInv
    <3> QED BY <1>3, <2>2, <3>1, KnownMove, StoppingMove
  <2> QED BY <2>1, <2>2
<1>4. ASSUME NEW w \in Worker, WorkerStep(w) PROVE Known' /\ Alone' /\ Stopping'
  BY <1>4, WorkerCarries, CarriesKeeps, SafeIdle DEF IInv, Typed
<1>5. CASE DropManager \/ UNCHANGED vars
  <2>1. UNCHANGED <<enabled, handle, pc, joining, wpc, last>>
    BY <1>5 DEF DropManager, vars, caller, observers
  <2>2. Live' = Live
    BY <2>1 DEF Live
  <2> QED BY <2>1, <2>2, SafeIdle
<1> QED BY <1>1, <1>2, <1>3, <1>4, <1>5 DEF Next, Finished

\* No worker lives and no call is in progress.
LEMMA IInvInit == Init => IInv
<1> SUFFICES ASSUME Init PROVE IInv
  OBVIOUS
<1>1. Live = {}
  BY DEF Init, Live
<1> QED BY <1>1, TypedInit DEF Init, IInv, Known, NoStrayWorker, Alone, Stopping

\* What the invariant says about the worker threads.
LEMMA IInvImplies == IInv => NoStrayWorker /\ StoppedOnReturn
<1> SUFFICES ASSUME IInv PROVE StoppedOnReturn
  BY DEF IInv, Known
<1>1. \A w \in Live : w # 0
  BY CallAssumption DEF Live, Worker
<1> QED BY <1>1 DEF IInv, Known, NoStrayWorker, Stopping, Quiet, StoppedOnReturn

\* However the calls of several threads overlap, the handle of every worker
\* thread that runs is stored or being joined: none is ever detached.
THEOREM NoStray == Spec => []NoStrayWorker
BY IInvInit, IInvNext, IInvImplies, PTL DEF Spec

\* No worker thread is left once a call that disables or stops it, and that no
\* other call overlaps, has returned, whatever calls overlapped before it.
THEOREM Stopped == Spec => []StoppedOnReturn
BY IInvInit, IInvNext, IInvImplies, PTL DEF Spec
=============================================================================
