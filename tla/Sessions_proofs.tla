-------------------------- MODULE Sessions_proofs --------------------------
(***************************************************************************)
(* Machine-checked proofs about Sessions, for every number of processes,   *)
(* attempts, requests and crashes, every limit on the connections of a     *)
(* master and on the retries of an open, every mixture of plain and        *)
(* encrypted opens, and both transports.                                   *)
(***************************************************************************)
EXTENDS Sessions, TLAPS

-----------------------------------------------------------------------------
(* The inductive invariant *)

\* A process that is opening the image, or has it open itself, has no connection.
Publishing == {"publish", "publish_new"}
Bound == Publishing \cup {"exists", "create", "lock"}
Serving == {"master", "local", "drop"}
Leaving == {"join", "cleanup", "cleanup_token"}
Alone == {"out", "probe", "unlink", "unlink_token", "bind", "in_use", "direct"}
           \cup Bound \cup Serving \cup Leaving
Joined == {"token", "auth", "client", "send", "wait"}

ServerAt(pc) == IF pc \in Bound THEN "bound" ELSE IF pc \in Serving THEN "serving" ELSE "none"

Process ==
  [pc : Alone \cup Joined, kind : Kind, srv : {"none", "bound", "serving"}, secret : Nat,
   conn : Procs \cup {None, Broken}, acc : BOOLEAN, cred : Nat, retry : Nat,
   resend : BOOLEAN, att : 0 .. MaxAttempt, exists : BOOLEAN, second : BOOLEAN,
   req : Nat, box : {"empty", "request", "reply"}]

\* What holds of a process by itself.
Local(f) ==
  /\ f \in Process
  /\ f.srv = ServerAt(f.pc)
  /\ f.acc => f.conn \in Procs
  /\ f.pc \in Alone => f.conn = None
  /\ f.pc \in Alone \cup {"token", "auth"} => f.box = "empty"
  /\ f.box # "empty" => f.pc = "wait" \/ f.conn = Broken
  /\ f.pc \in {"send", "wait"} \/ f.resend => f.req # 0
  /\ f.pc = "local" => f.resend
  /\ f.pc = "master" => ~f.resend

\* The requests the image holds, or held when it was overwritten.
Stored == lost \cup (IF Formatted THEN image ELSE {})

\* The request in hand has been run in the attempt under way.
HasRun(f) ==
  (f.pc = "wait" /\ f.box = "reply") \/ (f.resend /\ f.pc \in {"drop"} \cup Leaving)

\* The process has the image open.
Holds(f) ==
  f.pc \in Serving \cup {"join", "direct"} \/ (f.pc \in {"cleanup", "cleanup_token"} /\ f.resend)

\* The process may still remove or overwrite the rendezvous.
Rival(f) == f.srv # "none" \/ f.pc \in Removing

TypesOK ==
  /\ path \in Procs \cup {None, Stale} /\ lock \in Procs \cup {None}
  /\ image \in {Absent, Empty} \/ image \in SUBSET (1 .. MaxRequests)
  /\ retries \in Nat /\ kinds \subseteq Kind
  /\ binds \in Nat /\ token \in 0 .. binds
  /\ requests \in 0 .. MaxRequests
  /\ execs \in [1 .. MaxRequests -> Nat]
  /\ proc \in [Procs -> Process]

LocalsOK ==
  \A p \in Procs : /\ Local(proc[p]) /\ proc[p].retry <= retries
                   /\ proc[p].secret <= binds /\ proc[p].req <= requests

HolderOK == \A p \in Procs : Holds(proc[p]) => lock = p

PeersOK ==
  \A p, s \in Procs : proc[p].acc /\ proc[p].conn = s => proc[s].pc \in Serving \cup {"join"}

StoredOK ==
  /\ acked \subseteq Stored
  /\ \A p \in Procs : HasRun(proc[p]) => proc[p].req \in Stored

RunsOK ==
  /\ \A r \in 1 .. MaxRequests : r > requests => execs[r] = 0
  /\ \A p \in Procs : proc[p].req # 0 =>
       execs[proc[p].req] <= proc[p].att + (IF HasRun(proc[p]) THEN 1 ELSE 0)
  /\ \A p, q \in Procs : proc[p].req # 0 /\ proc[p].req = proc[q].req => p = q

\* A process that is not exposed has the rendezvous to itself from bind to close.
ReachOK ==
  \A p \in Procs : p \notin exposed /\ proc[p].srv # "none" =>
    /\ path = p
    /\ \A q \in Procs \ {p} : ~ Rival(proc[q])
    /\ proc[p].pc \notin Publishing => token = proc[p].secret

IInv ==
  TypesOK /\ LocalsOK /\ HolderOK /\ PeersOK /\ StoredOK /\ RunsOK /\ ReachOK

-----------------------------------------------------------------------------
(* The numbers of requests *)

\* Counts are natural numbers, ordered as usual.
LEMMA Counts ==
  /\ \A k, n : k \in 0 .. n => k \in Nat
  /\ \A n \in Nat : n <= n /\ n + 0 = n /\ 0 \in 0 .. n
  /\ \A a, b \in Nat : a <= b => a + 1 <= b + 1 /\ a <= b + 1
OBVIOUS

\* The number of a request that was made is one of the numbers there are.
LEMMA RequestNumber ==
  ASSUME NEW n \in Nat, NEW k \in 0 .. n, NEW r \in Nat, r # 0, r <= k
  PROVE  /\ r \in 1 .. n /\ r \in 1 .. k
         /\ \A i \in 1 .. n : i > k => i # r
         /\ \A i \in 1 .. k : i \in 1 .. n
OBVIOUS

\* The number of the next request is one of them as well, and new.
LEMMA NextNumber ==
  ASSUME NEW n \in Nat, NEW k \in 0 .. n, k < n
  PROVE  /\ k + 1 \in 1 .. n /\ k + 1 \in 0 .. n /\ k + 1 \in Nat /\ k \in Nat
         /\ k <= k + 1 /\ k + 1 <= k + 1 /\ k + 1 > k /\ k + 1 # 0
         /\ \A r \in 1 .. n : r > k + 1 => r # k + 1 /\ r > k
         /\ \A r \in 1 .. k : r \in 1 .. n /\ r # k + 1
         /\ \A r \in Nat : r <= k => r <= k + 1 /\ (r # 0 => r \in 1 .. k)
OBVIOUS

-----------------------------------------------------------------------------
(* A step of one process, and what it may do to the others *)

\* The processes other than p stay as they are, or lose their connection.
Others(p) ==
  \A q \in Procs \ {p} :
    LET f == proc[q]
        g == proc'[q]
    IN  /\ g.pc = f.pc /\ g.srv = f.srv /\ g.secret = f.secret /\ g.resend = f.resend
        /\ g.att = f.att /\ g.retry = f.retry /\ g.req = f.req /\ g.box = f.box
        /\ g.acc => f.acc /\ g.conn = f.conn
        /\ Local(g)

\* The processes that a master's server thread has a worker for.
Server(f) == f.pc \in Serving \cup {"join"}

StepLocal(p) ==
  /\ Local(proc'[p])
  /\ binds' \in Nat /\ requests' \in 0 .. MaxRequests
  /\ binds <= binds' /\ requests <= requests' /\ retries' = retries
  /\ proc'[p].retry <= retries /\ proc'[p].secret <= binds' /\ proc'[p].req <= requests'

StepHolder(p) ==
  /\ Holds(proc'[p]) => lock' = p
  /\ lock' = lock \/ lock \in {None, p}

StepPeers(p) ==
  /\ proc'[p].acc => \E s \in Procs \ {p} : proc'[p].conn = s /\ Server(proc[s])
  /\ \/ Server(proc'[p])
     \/ \A q \in Procs \ {p} : ~ (proc'[q].acc /\ proc'[q].conn = p)

StepStored(p) ==
  /\ Stored \subseteq Stored'
  /\ acked' \subseteq acked \cup Stored'
  /\ HasRun(proc'[p]) => \/ proc'[p].req \in Stored'
                         \/ HasRun(proc[p]) /\ proc'[p].req = proc[p].req

StepRuns(p) ==
  /\ \A r \in 1 .. MaxRequests : r > requests' => execs'[r] = 0
  /\ \A r \in 1 .. requests : r # proc[p].req => execs'[r] = execs[r]
  /\ proc'[p].req # 0 =>
       execs'[proc'[p].req] <= proc'[p].att + (IF HasRun(proc'[p]) THEN 1 ELSE 0)
  /\ proc'[p].req \in {0, proc[p].req} \/ proc'[p].req > requests

StepReach(p) ==
  /\ exposed \subseteq exposed' \cup {p}
  /\ \A q \in Procs \ {p} :
       q \notin exposed' /\ proc[q].srv # "none" /\ path = q /\ ~ Rival(proc[p])
         => UNCHANGED <<path, token>> /\ ~ Rival(proc'[p])
  /\ p \notin exposed' /\ proc'[p].srv # "none" =>
       /\ path' = p
       /\ \A q \in Procs \ {p} : ~ Rival(proc[q])
       /\ proc'[p].pc \notin Publishing => token' = proc'[p].secret

Step(p) ==
  /\ Others(p) /\ TypesOK'
  /\ StepLocal(p) /\ StepHolder(p) /\ StepPeers(p)
  /\ StepStored(p) /\ StepRuns(p) /\ StepReach(p)

\* A step of one process that satisfies these conditions keeps the invariant.
LEMMA StepKeeps ==
  ASSUME IInv, NEW p \in Procs, Step(p)
  PROVE  IInv'
<1>1. TypesOK /\ LocalsOK /\ HolderOK /\ PeersOK /\ StoredOK /\ RunsOK /\ ReachOK
  BY Zenon DEF IInv
<1>2. Others(p) /\ TypesOK' /\ StepLocal(p) /\ StepHolder(p) /\ StepPeers(p)
      /\ StepStored(p) /\ StepRuns(p) /\ StepReach(p)
  BY Zenon DEF Step
<1>3. LocalsOK'
  <2> SUFFICES ASSUME NEW q \in Procs
               PROVE  /\ Local(proc'[q]) /\ proc'[q].retry <= retries'
                      /\ proc'[q].secret <= binds' /\ proc'[q].req <= requests'
    BY DEF LocalsOK
  <2>1. CASE q = p
    BY <1>2, <2>1, Zenon DEF StepLocal
  <2>2. CASE q # p
    <3>1. /\ Local(proc'[q]) /\ proc'[q].secret = proc[q].secret /\ proc'[q].req = proc[q].req
          /\ proc'[q].retry = proc[q].retry
      BY <1>2, <2>2, Zenon DEF Others
    <3>2. proc[q].secret \in Nat /\ proc[q].req \in Nat
      BY <1>1 DEF LocalsOK, Local, Process
    <3>3. proc[q].secret <= binds /\ proc[q].req <= requests /\ proc[q].retry <= retries
      BY <1>1, Zenon DEF LocalsOK
    <3>4. /\ binds <= binds' /\ requests <= requests' /\ retries' = retries
          /\ binds \in Nat /\ binds' \in Nat /\ requests \in Nat /\ requests' \in Nat
      BY <1>1, <1>2, SessionsAssumption DEF StepLocal, TypesOK
    <3> QED BY <3>1, <3>2, <3>3, <3>4
  <2> QED BY <2>1, <2>2
<1>4. HolderOK'
  <2> SUFFICES ASSUME NEW q \in Procs, Holds(proc'[q]) PROVE lock' = q
    BY DEF HolderOK
  <2>1. CASE q = p
    BY <1>2, <2>1 DEF StepHolder
  <2>2. CASE q # p
    <3>1. Holds(proc[q])
      BY <1>2, <2>2 DEF Others, Holds
    <3> QED BY <1>1, <1>2, <2>2, <3>1, SessionsAssumption DEF HolderOK, StepHolder
  <2> QED BY <2>1, <2>2
<1>5. PeersOK'
  <2> SUFFICES ASSUME NEW q \in Procs, NEW s \in Procs, proc'[q].acc, proc'[q].conn = s
               PROVE  Server(proc'[s])
    BY DEF PeersOK, Server
  <2>1. CASE q = p
    <3>1. s # p /\ Server(proc[s])
      BY <1>2, <2>1 DEF StepPeers
    <3> QED BY <1>2, <3>1 DEF Others, Server
  <2>2. CASE q # p
    <3>1. proc[q].acc /\ proc[q].conn = s
      BY <1>2, <2>2 DEF Others
    <3>2. Server(proc[s])
      BY <1>1, <3>1 DEF PeersOK, Server
    <3>3. CASE s = p
      BY <1>2, <2>2, <3>3 DEF StepPeers
    <3>4. CASE s # p
      BY <1>2, <3>2, <3>4 DEF Others, Server
    <3> QED BY <3>3, <3>4
  <2> QED BY <2>1, <2>2
<1>6. StoredOK'
  <2>1. acked' \subseteq Stored'
    BY <1>1, <1>2 DEF StoredOK, StepStored
  <2>2. ASSUME NEW q \in Procs, HasRun(proc'[q]) PROVE proc'[q].req \in Stored'
    <3>1. HasRun(proc[q]) => proc[q].req \in Stored'
      BY <1>1, <1>2 DEF StoredOK, StepStored
    <3>2. CASE q = p
      BY <1>2, <2>2, <3>1, <3>2 DEF StepStored
    <3>3. CASE q # p
      <4>1. HasRun(proc[q]) /\ proc'[q].req = proc[q].req
        BY <1>2, <2>2, <3>3 DEF Others, HasRun
      <4> QED BY <3>1, <4>1
    <3> QED BY <3>2, <3>3
  <2> QED BY <2>1, <2>2 DEF StoredOK, HasRun
<1>7. RunsOK'
  <2>0. ASSUME NEW q \in Procs \ {p}
        PROVE  /\ proc'[q].req = proc[q].req /\ proc'[q].att = proc[q].att
               /\ HasRun(proc'[q]) <=> HasRun(proc[q])
               /\ proc[q].req \in Nat /\ proc[q].req <= requests /\ requests \in Nat
    <3>1. /\ proc'[q].req = proc[q].req /\ proc'[q].att = proc[q].att
          /\ HasRun(proc'[q]) <=> HasRun(proc[q])
      BY <1>2, Zenon DEF Others, HasRun
    <3>2. proc[q].req \in Nat /\ proc[q].req <= requests /\ requests \in 0 .. MaxRequests
      BY <1>1, Zenon DEF LocalsOK, Local, Process, TypesOK
    <3>3. requests \in Nat
      BY <3>2, Counts, Zenon
    <3> QED BY <3>1, <3>2, <3>3, Zenon
  <2>1. ASSUME NEW q \in Procs, proc'[q].req # 0
        PROVE  execs'[proc'[q].req] <= proc'[q].att + (IF HasRun(proc'[q]) THEN 1 ELSE 0)
    <3>1. CASE q = p
      BY <1>2, <2>1, <3>1 DEF StepRuns
    <3>2. CASE q # p
      <4>1. proc[q].req \in 1 .. requests
        BY <2>0, <2>1, <3>2
      <4>2. proc[q].req # proc[p].req
        BY <1>1, <3>2, <4>1 DEF RunsOK
      <4>3. execs'[proc[q].req] = execs[proc[q].req]
        BY <1>2, <4>1, <4>2 DEF StepRuns
      <4>4. execs[proc[q].req] <= proc[q].att + (IF HasRun(proc[q]) THEN 1 ELSE 0)
        BY <1>1, <4>1 DEF RunsOK
      <4> QED BY <2>0, <3>2, <4>3, <4>4, Zenon
    <3> QED BY <3>1, <3>2
  <2>2. ASSUME NEW q \in Procs \ {p}, proc'[q].req # 0 PROVE proc'[q].req # proc'[p].req
    <3>1. proc[q].req # 0 /\ proc[q].req # proc[p].req
      BY <1>1, <2>0, <2>2 DEF RunsOK
    <3>2. proc'[p].req \in {0, proc[p].req} \/ proc'[p].req > requests
      BY <1>2 DEF StepRuns
    <3>3. proc'[p].req \in Nat
      BY <1>2 DEF StepLocal, Local, Process
    <3> QED BY <2>0, <3>1, <3>2, <3>3
  <2>3. ASSUME NEW q \in Procs, NEW t \in Procs, proc'[q].req # 0, proc'[q].req = proc'[t].req
        PROVE  q = t
    <3>1. CASE q = p \/ t = p
      BY <2>2, <2>3, <3>1
    <3>2. CASE q # p /\ t # p
      BY <1>1, <2>0, <2>3, <3>2, Zenon DEF RunsOK
    <3> QED BY <3>1, <3>2
  <2>4. \A r \in 1 .. MaxRequests : r > requests' => execs'[r] = 0
    BY <1>2 DEF StepRuns
  <2> QED BY <2>1, <2>3, <2>4, Zenon DEF RunsOK, HasRun
<1>8. ReachOK'
  <2>0. \A q \in Procs \ {p} : /\ Rival(proc'[q]) <=> Rival(proc[q])
                               /\ proc'[q].srv = proc[q].srv /\ proc'[q].pc = proc[q].pc
                               /\ proc'[q].secret = proc[q].secret
    BY <1>2, Zenon DEF Others, Rival
  <2> SUFFICES ASSUME NEW q \in Procs, q \notin exposed', proc'[q].srv # "none"
               PROVE  /\ path' = q
                      /\ \A s \in Procs \ {q} : ~ Rival(proc'[s])
                      /\ proc'[q].pc \notin Publishing => token' = proc'[q].secret
    BY Zenon DEF ReachOK, Rival
  <2>1. CASE q = p
    BY <1>2, <2>0, <2>1, Zenon DEF StepReach
  <2>2. CASE q # p
    <3>1. q \notin exposed /\ proc[q].srv # "none"
      BY <1>2, <2>0, <2>2, Zenon DEF StepReach
    <3>2. /\ path = q /\ \A s \in Procs \ {q} : ~ Rival(proc[s])
          /\ proc[q].pc \notin Publishing => token = proc[q].secret
      BY <1>1, <3>1, Zenon DEF ReachOK
    <3>3. UNCHANGED <<path, token>> /\ ~ Rival(proc'[p])
      BY <1>2, <2>2, <3>1, <3>2 DEF StepReach
    <3> QED BY <2>0, <2>2, <3>2, <3>3, Zenon
  <2> QED BY <2>1, <2>2
<1> QED
  BY <1>2, <1>3, <1>4, <1>5, <1>6, <1>7, <1>8, Zenon DEF IInv

-----------------------------------------------------------------------------
(* Steps that run nothing and take nothing *)

\* What a process does to its own state when it takes no lock, asks nothing and
\* runs nothing.
Mild(f, g) ==
  /\ Local(g) /\ g.retry <= retries
  /\ g.secret \in {0, f.secret} /\ g.req \in {0, f.req}
  /\ Holds(g) => Holds(f)
  /\ HasRun(g) => HasRun(f) /\ g.req = f.req
  /\ g.req # 0 => \/ g.att = f.att /\ (HasRun(f) => HasRun(g))
                  \/ g.att = f.att + 1

\* The same when it is not accepted, and neither starts to listen nor to remove.
Quiet(f, g) ==
  /\ Mild(f, g)
  /\ g.acc => f.acc /\ g.conn = f.conn
  /\ Rival(g) => Rival(f)
  /\ g.srv # "none" => /\ f.srv # "none" /\ g.secret = f.secret
                       /\ g.pc \notin Publishing => f.pc \notin Publishing

\* An accepted connection leads to another process, which serves it.
LEMMA KeptPeer ==
  ASSUME IInv, NEW p \in Procs, proc[p].acc
  PROVE  \E s \in Procs \ {p} : proc[p].conn = s /\ Server(proc[s])
<1>1. Local(proc[p])
  BY DEF IInv, LocalsOK
<1>2. proc[p].conn \in Procs /\ proc[p].pc \notin Alone
  BY <1>1, SessionsAssumption DEF Local
<1>3. Server(proc[proc[p].conn])
  BY <1>2 DEF IInv, PeersOK, Server
<1>4. proc[p].conn # p
  BY <1>2, <1>3, Zenon DEF Server, Alone, Leaving
<1> QED BY <1>2, <1>3, <1>4

\* Such a step may also change what others see of a process, overwrite the image
\* if it notes what is lost, and acknowledge a request that has been run.
LEMMA MoveStep ==
  ASSUME IInv, NEW p \in Procs, NEW g, proc' \in [Procs -> Process], proc'[p] = g,
         Others(p), Mild(proc[p], g),
         path' \in Procs \cup {None, Stale}, token' \in 0 .. binds, StepReach(p),
         Stored \subseteq Stored', acked' \subseteq acked \cup Stored,
         lock' = lock \/ (lock = p /\ lock' = None /\ ~ Holds(g)),
         Server(g) \/ \A q \in Procs \ {p} : ~ (proc'[q].acc /\ proc'[q].conn = p),
         g.acc => \E s \in Procs \ {p} : g.conn = s /\ Server(proc[s]),
         image' \in {Absent, Empty} \/ image' \in SUBSET (1 .. MaxRequests),
         UNCHANGED <<binds, requests, execs, retries, kinds>>
  PROVE  IInv'
<1> DEFINE f == proc[p]
<1>1. TypesOK /\ HolderOK /\ RunsOK
  BY Zenon DEF IInv
<1>2. Local(f) /\ f.secret <= binds /\ f.req <= requests /\ Local(g)
  BY Zenon DEF IInv, LocalsOK, Mild
<1>3. /\ f.secret \in Nat /\ f.req \in Nat /\ f.att \in Nat
      /\ g.secret \in Nat /\ g.req \in Nat /\ g.att \in Nat
      /\ binds \in Nat /\ requests \in 0 .. MaxRequests /\ requests \in Nat
  BY <1>1, <1>2, SessionsAssumption DEF Local, Process, TypesOK
<1> HIDE DEF f
<1>4. TypesOK'
  <2>1. lock' \in Procs \cup {None}
    BY <1>1, Zenon DEF TypesOK
  <2> QED BY <1>1, <2>1, Zenon DEF TypesOK
<1>5. StepLocal(p)
  <2>1. g.secret <= binds /\ g.req <= requests /\ binds <= binds /\ requests <= requests
    BY <1>2, <1>3 DEF Mild, f
  <2> QED BY <1>3, <2>1, Zenon DEF StepLocal, Mild
<1>6. StepHolder(p)
  BY <1>1, Zenon DEF StepHolder, Mild, HolderOK
<1>7. StepPeers(p)
  BY Zenon DEF StepPeers
<1>8. StepStored(p)
  BY Zenon DEF StepStored, Mild
<1>9. StepRuns(p)
  <2>1. \A r \in 1 .. MaxRequests : r > requests' => execs'[r] = 0
    BY <1>1, Zenon DEF RunsOK
  <2>2. ASSUME g.req # 0 PROVE execs[g.req] <= g.att + (IF HasRun(g) THEN 1 ELSE 0)
    <3>1. g.req = f.req /\ f.req \in 1 .. MaxRequests
      BY <1>2, <1>3, <2>2, SessionsAssumption DEF Mild, f
    <3>2. execs[f.req] \in Nat
      BY <1>1, <3>1, Zenon DEF TypesOK
    <3>3. execs[f.req] <= f.att + (IF HasRun(f) THEN 1 ELSE 0)
      BY <1>1, <2>2, <3>1, Zenon DEF RunsOK, f
    <3>4. (g.att = f.att /\ (HasRun(f) => HasRun(g))) \/ g.att = f.att + 1
      BY <2>2, Zenon DEF Mild, f
    <3>5. CASE HasRun(f)
      BY <1>3, <3>1, <3>2, <3>3, <3>4, <3>5
    <3>6. CASE ~ HasRun(f)
      BY <1>3, <3>1, <3>2, <3>3, <3>4, <3>6
    <3> QED BY <3>5, <3>6, Zenon
  <2>3. g.req \in {0, proc[p].req}
    BY Zenon DEF Mild
  <2> QED BY <2>1, <2>2, <2>3, Zenon DEF StepRuns
<1> QED
  BY <1>4, <1>5, <1>6, <1>7, <1>8, <1>9, StepKeeps, Zenon DEF Step

\* Steps that leave the rendezvous alone, or close the process's own listener.
LEMMA QuietStep ==
  ASSUME IInv, NEW p \in Procs, NEW g, proc' \in [Procs -> Process], proc'[p] = g,
         Others(p), Quiet(proc[p], g),
         path' = path \/ (path' = Closed(p) /\ g.srv = "none"),
         lock' = lock \/ (lock = p /\ lock' = None /\ ~ Holds(g)),
         Server(g) \/ \A q \in Procs \ {p} : ~ (proc'[q].acc /\ proc'[q].conn = p),
         Stored \subseteq Stored',
         image' \in {Absent, Empty} \/ image' \in SUBSET (1 .. MaxRequests),
         UNCHANGED <<token, binds, requests, execs, retries, kinds, acked, exposed>>
  PROVE  IInv'
<1>1. TypesOK /\ ReachOK
  BY Zenon DEF IInv
<1>2. path' \in Procs \cup {None, Stale} /\ token' \in 0 .. binds
  BY <1>1, Zenon DEF TypesOK, Closed
<1>3. StepReach(p)
  <2>1. ASSUME NEW q \in Procs \ {p}, path = q, ~ Rival(proc[p])
        PROVE  UNCHANGED <<path, token>> /\ ~ Rival(proc'[p])
    <3>1. path' = path
      BY <2>1, Zenon DEF Closed
    <3> QED BY <2>1, <3>1, Zenon DEF Quiet
  <2>2. ASSUME p \notin exposed', proc'[p].srv # "none"
        PROVE  /\ path' = p /\ \A q \in Procs \ {p} : ~ Rival(proc[q])
               /\ proc'[p].pc \notin Publishing => token' = proc'[p].secret
    <3>1. path' = path /\ p \notin exposed /\ proc[p].srv # "none"
      BY <2>2, Zenon DEF Quiet
    <3> QED BY <1>1, <2>2, <3>1, Zenon DEF ReachOK, Quiet
  <2>3. exposed \subseteq exposed' \cup {p}
    BY Zenon
  <2> QED BY <2>1, <2>2, <2>3, Zenon DEF StepReach
<1>4. g.acc => \E s \in Procs \ {p} : g.conn = s /\ Server(proc[s])
  BY KeptPeer, Zenon DEF Quiet
<1>5. Mild(proc[p], g)
  BY Zenon DEF Quiet
<1> QED BY <1>2, <1>3, <1>4, <1>5, MoveStep, Zenon

\* A process that changes its own state only.
LEMMA SetMoves ==
  ASSUME IInv, NEW p \in Procs, NEW g \in Process, Set(p, g)
  PROVE  /\ proc' \in [Procs -> Process] /\ proc'[p] = g /\ Others(p)
         /\ \A q \in Procs \ {p} : proc'[q] = proc[q]
<1>1. proc \in [Procs -> Process] /\ proc' = [proc EXCEPT ![p] = g]
  BY Zenon DEF IInv, TypesOK, Set
<1>2. proc' \in [Procs -> Process] /\ proc'[p] = g
      /\ \A q \in Procs \ {p} : proc'[q] = proc[q]
  BY <1>1
<1>3. \A q \in Procs : Local(proc[q])
  BY Zenon DEF IInv, LocalsOK
<1>4. Others(p)
  BY <1>2, <1>3, Zenon DEF Others
<1> QED BY <1>2, <1>4

\* A process that loses its connection is as it was otherwise.
LEMMA CutKeeps ==
  ASSUME NEW f, Local(f), f.conn \in Procs
  PROVE  LET g == [f EXCEPT !.conn = Broken, !.acc = FALSE]
         IN  /\ Local(g) /\ ~ g.acc
             /\ g.pc = f.pc /\ g.srv = f.srv /\ g.secret = f.secret /\ g.resend = f.resend
             /\ g.att = f.att /\ g.retry = f.retry /\ g.req = f.req /\ g.box = f.box
<1> DEFINE g == [f EXCEPT !.conn = Broken, !.acc = FALSE]
<1>1. f \in Process /\ f.pc \notin Alone
  BY SessionsAssumption DEF Local
<1>2. /\ g \in Process /\ g.conn = Broken /\ ~ g.acc
      /\ g.pc = f.pc /\ g.srv = f.srv /\ g.secret = f.secret /\ g.resend = f.resend
      /\ g.att = f.att /\ g.retry = f.retry /\ g.req = f.req /\ g.box = f.box
  BY <1>1, Zenon DEF Process
<1> HIDE DEF g
<1>3. Local(g)
  BY <1>1, <1>2 DEF Local
<1> QED BY <1>2, <1>3 DEF g

\* A process whose listener is closed: the connections nobody accepted end.
LEMMA ResetMoves ==
  ASSUME IInv, NEW p \in Procs, NEW g \in Process, Reset(p, g)
  PROVE  proc' \in [Procs -> Process] /\ proc'[p] = g /\ Others(p)
<1>1. \A q \in Procs : Local(proc[q])
  BY Zenon DEF IInv, LocalsOK
<1>2. proc'[p] = g
  BY Zenon DEF Reset
<1>3. ASSUME NEW q \in Procs \ {p}
      PROVE  \/ proc'[q] = proc[q]
             \/ /\ proc[q].conn = p
                /\ proc'[q] = [proc[q] EXCEPT !.conn = Broken, !.acc = FALSE]
  <2>1. CASE proc[q].conn = p /\ ~ proc[q].acc
    <3>1. proc[q] \in Process /\ proc'[q] = [proc[q] EXCEPT !.conn = Broken]
      BY <1>1, <2>1 DEF Reset, Local
    <3>2. [proc[q] EXCEPT !.conn = Broken] = [proc[q] EXCEPT !.conn = Broken, !.acc = FALSE]
      BY <2>1, <3>1, Zenon DEF Process
    <3> QED BY <2>1, <3>1, <3>2
  <2>2. CASE ~ (proc[q].conn = p /\ ~ proc[q].acc)
    BY <2>2 DEF Reset
  <2> QED BY <2>1, <2>2
<1>4. Others(p)
  <2> SUFFICES ASSUME NEW q \in Procs \ {p}
               PROVE  LET f == proc[q]
                          h == proc'[q]
                      IN  /\ h.pc = f.pc /\ h.srv = f.srv /\ h.secret = f.secret
                          /\ h.resend = f.resend /\ h.att = f.att /\ h.retry = f.retry
                          /\ h.req = f.req /\ h.box = f.box
                          /\ h.acc => f.acc /\ h.conn = f.conn
                          /\ Local(h)
    BY Zenon DEF Others
  <2>1. CASE proc'[q] = proc[q]
    BY <1>1, <2>1, Zenon
  <2>2. CASE /\ proc[q].conn = p
             /\ proc'[q] = [proc[q] EXCEPT !.conn = Broken, !.acc = FALSE]
    <3> DEFINE f == proc[q]
               g_q == [f EXCEPT !.conn = Broken, !.acc = FALSE]
    <3>1. Local(f) /\ f.conn \in Procs
      BY <1>1, <2>2, Zenon
    <3> HIDE DEF f
    <3>2. /\ Local(g_q) /\ ~ g_q.acc
          /\ g_q.pc = f.pc /\ g_q.srv = f.srv /\ g_q.secret = f.secret /\ g_q.resend = f.resend
          /\ g_q.att = f.att /\ g_q.retry = f.retry /\ g_q.req = f.req /\ g_q.box = f.box
      BY <3>1, CutKeeps, Zenon
    <3>3. proc'[q] = g_q
      BY <2>2, Zenon DEF f
    <3> HIDE DEF g_q
    <3> QED BY <3>2, <3>3, Zenon DEF f
  <2> QED BY <1>3, <2>1, <2>2, Zenon
<1>5. \A q \in Procs : proc'[q] \in Process
  BY <1>2, <1>4, Zenon DEF Others, Local
<1>6. proc' = [q \in Procs |-> proc'[q]]
  BY Zenon DEF Reset
<1> QED BY <1>2, <1>4, <1>5, <1>6

-----------------------------------------------------------------------------
(* What becomes of a process *)

\* A fresh record is that of a process without a session.
LEMMA OutLocal ==
  /\ Local(Out) /\ Out \in Process
  /\ Out.pc = "out" /\ Out.srv = "none" /\ Out.secret = 0 /\ Out.conn = None /\ ~ Out.acc
  /\ Out.retry = 0 /\ ~ Out.resend /\ Out.req = 0 /\ Out.box = "empty"
<1>1. Out \in Process
  BY SessionsAssumption DEF Out, Process, Alone, Kind
<1> QED
  BY <1>1 DEF Out, Local, ServerAt, Bound, Publishing, Serving, Alone

\* To be gone is a quiet step from anywhere.
LEMMA OutQuiet ==
  ASSUME NEW f, retries \in Nat
  PROVE  Quiet(f, Out) /\ ~ Holds(Out) /\ ~ HasRun(Out)
<1>1. ~ Holds(Out) /\ ~ HasRun(Out) /\ ~ Rival(Out)
  BY OutLocal DEF Holds, HasRun, Rival, Removing, Serving, Leaving
<1>2. 0 <= retries
  OBVIOUS
<1> QED BY <1>1, <1>2, OutLocal, Zenon DEF Quiet, Mild

\* Nothing of a process changes but where it is and what it remembers.
Same(f, g) ==
  /\ g.srv = f.srv /\ g.secret = f.secret /\ g.conn = f.conn /\ g.acc = f.acc
  /\ g.retry = f.retry /\ g.resend = f.resend /\ g.att = f.att /\ g.req = f.req /\ g.box = f.box

\* Assigning to the fields that are not among those changes nothing else.
LEMMA Assigned ==
  ASSUME NEW f \in Process, NEW pc \in Alone \cup Joined
  PROVE  /\ LET g == [f EXCEPT !.pc = pc]
            IN  g \in Process /\ g.pc = pc /\ Same(f, g) /\ g.second = f.second
         /\ \A b \in BOOLEAN :
              LET g == [f EXCEPT !.pc = pc, !.second = b]
              IN  g \in Process /\ g.pc = pc /\ Same(f, g)
         /\ \A b \in BOOLEAN :
              LET g == [f EXCEPT !.pc = pc, !.exists = b]
              IN  g \in Process /\ g.pc = pc /\ Same(f, g)
         /\ \A n \in Nat :
              LET g == [f EXCEPT !.pc = pc, !.cred = n]
              IN  g \in Process /\ g.pc = pc /\ Same(f, g)
BY Zenon DEF Process, Same

\* Resetting the second chance to bind changes nothing else.
LEMMA SecondReset ==
  ASSUME NEW f \in Process
  PROVE  LET g == [f EXCEPT !.second = FALSE] IN g \in Process /\ g.pc = f.pc /\ Same(f, g)
BY Zenon DEF Process, Same

\* A process without a connection that goes on by itself.
LEMMA MovedMild ==
  ASSUME NEW f, Local(f), f.pc \in Alone, f.retry <= retries,
         NEW g \in Process, Same(f, g), g.pc \in Alone \ {"local", "master"},
         ServerAt(g.pc) = ServerAt(f.pc), Holds(g) => Holds(f), HasRun(g) <=> HasRun(f)
  PROVE  Mild(f, g) /\ ~ f.acc /\ ~ g.acc
<1>1. ~ f.acc
  BY SessionsAssumption DEF Local
<1>2. Local(g)
  BY Zenon DEF Local, Same, Alone, Bound, Publishing, Serving, Leaving
<1> QED BY <1>1, <1>2, Zenon DEF Mild, Same

\* The variables of an open that ended.
LEMMA SettledFields ==
  ASSUME NEW f \in Process
  PROVE  LET g == Settled(f)
         IN  /\ g \in Process /\ g.pc = f.pc /\ g.srv = f.srv /\ g.secret = f.secret
             /\ g.conn = f.conn /\ g.acc = f.acc /\ g.retry = 0 /\ g.resend = f.resend
             /\ g.att = f.att /\ g.req = f.req /\ g.box = f.box
<1>1. (IF f.kind = "encrypt" THEN "password" ELSE f.kind) \in Kind /\ 0 \in Nat
  BY DEF Process, Kind
<1> QED BY <1>1, Zenon DEF Settled, Process

\* Where an open can fail.
Failing == {"in_use", "publish_new", "lock", "auth"}

\* An open is given up.
LEMMA GivenUpQuiet ==
  ASSUME NEW f, Local(f), f.pc \in Failing, retries \in Nat
  PROVE  LET g == GivenUp(f) IN Quiet(f, g) /\ g.srv = "none" /\ ~ Holds(g)
<1> DEFINE h == Settled(f)
           g == [h EXCEPT !.pc = "send", !.srv = "none", !.conn = Broken, !.acc = FALSE,
                          !.secret = 0]
<1>1. f \in Process
  BY Zenon DEF Local
<1>2. CASE f.resend
  <2>1. GivenUp(f) = g
    BY <1>2, Zenon DEF GivenUp
  <2>2. h \in Process /\ h.retry = 0 /\ h.resend = f.resend /\ h.att = f.att /\ h.req = f.req
        /\ h.box = f.box
    BY <1>1, SettledFields, Zenon
  <2> HIDE DEF h
  <2>3. /\ g \in Process /\ g.pc = "send" /\ g.srv = "none" /\ g.conn = Broken /\ g.acc = FALSE
        /\ g.secret = 0 /\ g.retry = 0 /\ g.resend = f.resend /\ g.att = f.att
        /\ g.req = f.req /\ g.box = f.box
    <3>1. 0 \in Nat
      OBVIOUS
    <3> QED BY <2>2, <3>1, Zenon DEF Process, Joined
  <2> HIDE DEF g
  <2>4. f.box = "empty" /\ f.req # 0 /\ ~ HasRun(f)
    BY <1>2, Zenon DEF Local, Alone, Bound, Publishing, HasRun, Failing, Leaving
  <2>5. Local(g)
    BY <2>3, <2>4, Zenon DEF Local, ServerAt, Alone, Bound, Publishing, Serving, Leaving
  <2>6. ~ Holds(g) /\ ~ HasRun(g) /\ ~ Rival(g)
    BY <2>3, Zenon DEF Holds, HasRun, Serving, Leaving, Rival, Removing
  <2>7. 0 <= retries
    OBVIOUS
  <2> QED BY <2>1, <2>3, <2>4, <2>5, <2>6, <2>7, Zenon DEF Quiet, Mild
<1>3. CASE ~ f.resend
  BY <1>3, OutLocal, OutQuiet, Zenon DEF GivenUp
<1> QED BY <1>2, <1>3, Zenon

\* An open starts over, or is given up after the last retry.
LEMMA AgainQuiet ==
  ASSUME NEW f, Local(f), f.pc \in Failing, retries \in Nat
  PROVE  Quiet(f, Again(f)) /\ Again(f).srv = "none" /\ ~ Holds(Again(f))
<1> DEFINE g == [f EXCEPT !.pc = "probe", !.retry = @ + 1, !.srv = "none", !.conn = None,
                          !.acc = FALSE, !.secret = 0]
<1>1. f \in Process
  BY Zenon DEF Local
<1>2. CASE f.retry < retries
  <2>1. Again(f) = g
    BY <1>2, Zenon DEF Again
  <2>2. f.retry + 1 \in Nat /\ f.retry + 1 <= retries /\ 0 \in Nat
    BY <1>1, <1>2 DEF Process
  <2>3. /\ g \in Process /\ g.pc = "probe" /\ g.srv = "none" /\ g.conn = None /\ g.acc = FALSE
        /\ g.secret = 0 /\ g.retry = f.retry + 1 /\ g.resend = f.resend /\ g.att = f.att
        /\ g.req = f.req /\ g.box = f.box
    BY <1>1, <2>2, Zenon DEF Process, Alone
  <2> HIDE DEF g
  <2>4. f.box = "empty" /\ (f.resend => f.req # 0) /\ ~ HasRun(f)
    BY Zenon DEF Local, Alone, Bound, Publishing, HasRun, Failing, Leaving
  <2>5. Local(g)
    BY <2>3, <2>4, Zenon DEF Local, ServerAt, Alone, Bound, Publishing, Serving, Leaving
  <2>6. ~ Holds(g) /\ ~ HasRun(g) /\ ~ Rival(g)
    BY <2>3, Zenon DEF Holds, HasRun, Serving, Leaving, Rival, Removing
  <2> QED BY <2>1, <2>2, <2>3, <2>4, <2>5, <2>6, Zenon DEF Quiet, Mild
<1>3. CASE ~ (f.retry < retries)
  BY <1>3, GivenUpQuiet, Zenon DEF Again
<1> QED BY <1>2, <1>3, Zenon

\* A request goes on to its next attempt, or fails after the last one.
LEMMA ReopenedQuiet ==
  ASSUME NEW f, Local(f), f.pc \in {"send", "wait"}, f.conn = Broken, retries \in Nat,
         f.retry <= retries
  PROVE  Quiet(f, Reopened(f))
<1> DEFINE e == [f EXCEPT !.pc = "client", !.req = 0, !.att = 0, !.resend = FALSE,
                          !.conn = Broken]
           g == [f EXCEPT !.pc = "probe", !.att = @ + 1, !.retry = 0, !.resend = TRUE,
                          !.conn = None, !.acc = FALSE, !.box = "empty"]
<1>1. f \in Process /\ f.req # 0 /\ ~ f.acc /\ f.srv = "none"
  BY SessionsAssumption DEF Local, ServerAt, Bound, Publishing, Serving
<1>2. 0 \in 0 .. MaxAttempt /\ 0 \in Nat /\ 0 <= retries
  BY SessionsAssumption
<1>3. CASE f.att = MaxAttempt
  <2>1. Reopened(f) = e
    BY <1>3, Zenon DEF Reopened
  <2>2. /\ e \in Process /\ e.pc = "client" /\ e.srv = f.srv /\ e.conn = Broken /\ e.acc = f.acc
        /\ e.secret = f.secret /\ e.req = 0 /\ e.box = f.box /\ e.retry = f.retry
        /\ e.resend = FALSE
    BY <1>1, <1>2, Zenon DEF Process, Joined
  <2> HIDE DEF e
  <2>3. Local(e)
    BY <1>1, <2>2, Zenon DEF Local, ServerAt, Alone, Bound, Publishing, Serving, Leaving
  <2>4. ~ Holds(e) /\ ~ HasRun(e) /\ ~ Rival(e)
    BY <1>1, <2>2, Zenon DEF Holds, HasRun, Serving, Rival, Removing
  <2> QED BY <1>1, <2>1, <2>2, <2>3, <2>4, Zenon DEF Quiet, Mild
<1>4. CASE f.att # MaxAttempt
  <2>1. Reopened(f) = g
    BY <1>4, Zenon DEF Reopened
  <2>2. f.att + 1 \in 0 .. MaxAttempt
    BY <1>1, <1>4, SessionsAssumption DEF Process
  <2>3. /\ g \in Process /\ g.pc = "probe" /\ g.srv = f.srv /\ g.conn = None /\ g.acc = FALSE
        /\ g.secret = f.secret /\ g.resend = TRUE /\ g.att = f.att + 1 /\ g.retry = 0
        /\ g.req = f.req /\ g.box = "empty"
    BY <1>1, <1>2, <2>2, Zenon DEF Process, Alone
  <2> HIDE DEF g
  <2>4. Local(g)
    BY <1>1, <2>3, Zenon DEF Local, ServerAt, Alone, Bound, Publishing, Serving, Leaving
  <2>5. ~ Holds(g) /\ ~ HasRun(g) /\ ~ Rival(g)
    BY <1>1, <2>3, Zenon DEF Holds, HasRun, Serving, Leaving, Rival, Removing
  <2> QED BY <1>1, <1>2, <2>1, <2>3, <2>4, <2>5, Zenon DEF Quiet, Mild
<1> QED BY <1>3, <1>4, Zenon

\* A connection that the server thread has not accepted yet.
LEMMA ConnectedQuiet ==
  ASSUME NEW f, Local(f), f.pc \in {"probe", "in_use"}, f.retry <= retries, NEW s \in Procs
  PROVE  Quiet(f, Connected(f, s))
<1> DEFINE g == Connected(f, s)
<1>1. f \in Process
  BY Zenon DEF Local
<1>2. /\ g \in Process /\ g.pc = "token" /\ g.srv = f.srv /\ g.conn = s /\ g.acc = FALSE
      /\ g.secret = f.secret /\ g.resend = f.resend /\ g.att = f.att /\ g.retry = f.retry
      /\ g.req = f.req /\ g.box = "empty"
  BY <1>1, Zenon DEF Process, Connected, Joined
<1> HIDE DEF g
<1>3. f.srv = "none" /\ (f.resend => f.req # 0) /\ ~ HasRun(f)
  BY Zenon DEF Local, HasRun, ServerAt, Bound, Publishing, Serving, Leaving
<1>4. Local(g)
  BY <1>2, <1>3, Zenon DEF Local, ServerAt, Alone, Bound, Publishing, Serving, Leaving
<1>5. ~ Holds(g) /\ ~ HasRun(g) /\ ~ Rival(g)
  BY <1>2, <1>3, Zenon DEF Holds, HasRun, Serving, Leaving, Rival, Removing
<1> QED BY <1>2, <1>3, <1>4, <1>5, Zenon DEF Quiet, Mild, g

\* Nobody has an accepted connection to a process that does not serve.
LEMMA NoPeers ==
  ASSUME IInv, NEW p \in Procs, ~ Server(proc[p])
  PROVE  \A q \in Procs : ~ (proc[q].acc /\ proc[q].conn = p)
BY Zenon DEF IInv, PeersOK, Server

\* A process that moves on by itself, with no worker of its own to leave behind.
LEMMA QuietSet ==
  ASSUME IInv, NEW p \in Procs, NEW g, Set(p, g), Quiet(proc[p], g),
         Server(g) \/ ~ Server(proc[p]),
         UNCHANGED <<path, token, lock, image, binds, requests, execs, retries, kinds,
                     acked, lost, exposed>>
  PROVE  IInv'
<1>1. g \in Process /\ TypesOK
  BY Zenon DEF Quiet, Mild, Local, IInv
<1>2. /\ proc' \in [Procs -> Process] /\ proc'[p] = g /\ Others(p)
      /\ \A q \in Procs \ {p} : proc'[q] = proc[q]
  BY <1>1, SetMoves, Zenon
<1>3. Server(g) \/ \A q \in Procs \ {p} : ~ (proc'[q].acc /\ proc'[q].conn = p)
  BY <1>2, NoPeers, Zenon
<1>4. Stored \subseteq Stored' /\ (image' \in {Absent, Empty} \/ image' \in SUBSET (1 .. MaxRequests))
  BY <1>1, Zenon DEF Stored, Formatted, TypesOK
<1> QED BY <1>2, <1>3, <1>4, QuietStep, Zenon

-----------------------------------------------------------------------------
(* The steps of an open *)

\* What the invariant says of one process and of the variables around it.
LEMMA Facts ==
  ASSUME IInv, NEW p \in Procs
  PROVE  /\ Local(proc[p]) /\ proc[p] \in Process /\ proc[p].retry <= retries
         /\ proc[p].secret <= binds /\ proc[p].req <= requests
         /\ TypesOK /\ HolderOK /\ StoredOK /\ RunsOK /\ ReachOK /\ retries \in Nat
BY Zenon DEF IInv, LocalsOK, Local, TypesOK

\* A process that goes on by itself and may become one that removes.
LEMMA MovedStep ==
  ASSUME IInv, NEW p \in Procs, NEW g \in Process, Set(p, g), Mild(proc[p], g), ~ g.acc,
         ~ Server(proc[p]), StepReach(p), acked' \subseteq acked \cup Stored,
         path' \in Procs \cup {None, Stale}, token' \in 0 .. binds,
         UNCHANGED <<lock, image, binds, requests, execs, retries, kinds, lost>>
  PROVE  IInv'
<1>1. /\ proc' \in [Procs -> Process] /\ proc'[p] = g /\ Others(p)
      /\ \A q \in Procs \ {p} : proc'[q] = proc[q]
  BY SetMoves, Zenon
<1>2. \A q \in Procs \ {p} : ~ (proc'[q].acc /\ proc'[q].conn = p)
  BY <1>1, NoPeers, Zenon
<1>3. Stored \subseteq Stored' /\ (image' \in {Absent, Empty} \/ image' \in SUBSET (1 .. MaxRequests))
  BY Facts, Zenon DEF Stored, Formatted, TypesOK
<1> QED BY <1>1, <1>2, <1>3, MoveStep, Zenon

\* An open begins by looking for a master.
LEMMA StartOpenKeeps ==
  ASSUME IInv, NEW p \in Procs, NEW kind \in kinds, StartOpen(p, kind)
  PROVE  IInv'
<1> DEFINE f == proc[p]
           g == [Out EXCEPT !.pc = "probe", !.kind = kind]
<1>1. /\ f.pc = "out" /\ Set(p, g)
      /\ UNCHANGED <<path, token, lock, image, binds, requests, execs, retries, kinds,
                     acked, lost, exposed>>
  BY Zenon DEF StartOpen, At, Config, Rendezvous, Image, Ghosts
<1>2. kind \in Kind
  BY Facts, Zenon DEF TypesOK
<1>3. /\ g \in Process /\ g.pc = "probe" /\ g.srv = "none" /\ g.secret = 0 /\ g.conn = None
      /\ g.acc = FALSE /\ g.retry = 0 /\ g.resend = FALSE /\ g.req = 0 /\ g.box = "empty"
  <2> HIDE DEF Out
  <2>1. g \in Process
    BY <1>2, OutLocal, Zenon DEF Process, Alone
  <2> QED BY <2>1, OutLocal, Zenon DEF Process
<1> HIDE DEF g
<1>4. Local(g)
  BY <1>3, Zenon DEF Local, ServerAt, Alone, Bound, Publishing, Serving, Leaving
<1>5. ~ Holds(g) /\ ~ HasRun(g) /\ ~ Rival(g) /\ ~ Server(f)
  BY <1>1, <1>3, Zenon DEF Holds, HasRun, Serving, Leaving, Rival, Removing, Server
<1>6. 0 <= retries
  BY Facts
<1> QED BY <1>1, <1>3, <1>4, <1>5, <1>6, QuietSet, Zenon DEF Quiet, Mild, g

\* A process that looks for a master, on its way from one step to the next.
Searching == {"probe", "unlink", "unlink_token", "bind", "in_use"}

\* Going from one step of the search to another takes nothing.
LEMMA SearchMild ==
  ASSUME NEW f, Local(f), f.pc \in Searching, f.retry <= retries,
         NEW g \in Process, Same(f, g), g.pc \in Searching
  PROVE  /\ Mild(f, g) /\ ~ f.acc /\ ~ g.acc /\ g.srv = "none" /\ f.srv = "none" /\ ~ Server(f)
         /\ g.pc \notin Removing => Quiet(f, g)
<1>1. /\ f.pc \in Alone /\ g.pc \in Alone \ {"local", "master"}
      /\ ServerAt(g.pc) = "none" /\ ServerAt(f.pc) = "none"
  BY Zenon DEF Searching, Alone, ServerAt, Bound, Publishing, Serving
<1>2. ~ Holds(g) /\ ~ HasRun(g) /\ ~ HasRun(f) /\ ~ Server(f)
  BY Zenon DEF Searching, Holds, HasRun, Serving, Leaving, Server
<1>3. Mild(f, g) /\ ~ f.acc /\ ~ g.acc
  BY <1>1, <1>2, MovedMild, Zenon
<1>4. g.srv = "none" /\ f.srv = "none"
  BY <1>1, Zenon DEF Local, Same
<1> QED BY <1>2, <1>3, <1>4, Zenon DEF Quiet, Rival

\* The probe finds nobody, a master, or a path that leads nowhere; the process
\* bound to that is exposed.
LEMMA ProbeKeeps ==
  ASSUME IInv, NEW p \in Procs, Probe(p)
  PROVE  IInv'
<1> DEFINE f == proc[p]
           h == [f EXCEPT !.second = FALSE]
           b == [h EXCEPT !.pc = "bind"]
           u == [h EXCEPT !.pc = "unlink"]
<1>1. /\ Local(f) /\ f \in Process /\ f.retry <= retries /\ TypesOK /\ f.pc = "probe"
      /\ UNCHANGED <<path, token, lock, image, binds, requests, execs, retries, kinds,
                     acked, lost>>
  BY Facts, Zenon DEF Probe, At, Config, Rendezvous, Image, Counters
<1>2. h \in Process /\ h.pc = "probe" /\ Same(f, h)
  BY <1>1, SecondReset, Zenon
<1> HIDE DEF h
<1>3. /\ b \in Process /\ b.pc = "bind" /\ Same(h, b) /\ u \in Process /\ u.pc = "unlink"
      /\ Same(h, u)
  BY <1>2, Assigned, Zenon DEF Alone
<1> HIDE DEF b, u
<1>4. Same(f, b) /\ Same(f, u)
  BY <1>2, <1>3, Zenon DEF Same
<1>5. CASE Set(p, b) /\ UNCHANGED exposed
  <2>1. Quiet(f, b) /\ ~ Server(f)
    BY <1>1, <1>3, <1>4, SearchMild, Zenon DEF Searching, Removing
  <2> QED BY <1>1, <1>5, <2>1, QuietSet, Zenon
<1>6. CASE /\ path # None /\ Set(p, u) /\ exposed' = exposed \cup ({path} \cap Procs)
  <2>1. Mild(f, u) /\ ~ u.acc /\ u.srv = "none" /\ ~ Server(f)
    BY <1>1, <1>3, <1>4, SearchMild, Zenon DEF Searching
  <2>2. proc'[p] = u
    BY <1>3, <1>6, SetMoves, Zenon
  <2>3. StepReach(p)
    BY <1>6, <2>1, <2>2, Zenon DEF StepReach
  <2>4. acked' \subseteq acked \cup Stored /\ path' \in Procs \cup {None, Stale}
        /\ token' \in 0 .. binds
    BY <1>1, Zenon DEF TypesOK
  <2> QED BY <1>1, <1>3, <1>6, <2>1, <2>3, <2>4, MovedStep, Zenon
<1>7. CASE Answers(path) /\ Set(p, Connected(h, path)) /\ UNCHANGED exposed
  <2>1. path \in Procs
    BY <1>7, Zenon DEF Answers, Listens
  <2>2. Local(h) /\ h.retry <= retries /\ ~ Server(f)
    BY <1>1, <1>2, SearchMild, Zenon DEF Searching, Mild
  <2>3. Quiet(h, Connected(h, path))
    BY <1>2, <2>1, <2>2, ConnectedQuiet, Zenon
  <2>4. Quiet(f, Connected(h, path))
    BY <1>1, <1>2, <2>3, Zenon DEF Quiet, Mild, Same, Holds, HasRun, Rival
  <2> QED BY <1>1, <1>7, <2>2, <2>4, QuietSet, Zenon
<1> QED BY <1>5, <1>6, <1>7, Zenon DEF Probe, b, u, h

\* The path is in use: the process connects, removes it once, or tries again.
\* A path it removes is not one that leads to a process.
LEMMA InUseKeeps ==
  ASSUME IInv, NEW p \in Procs, InUse(p)
  PROVE  IInv'
<1> DEFINE f == proc[p]
           u == [f EXCEPT !.pc = "unlink", !.second = TRUE]
<1>1. /\ Local(f) /\ f \in Process /\ f.retry <= retries /\ TypesOK /\ f.pc = "in_use"
      /\ retries \in Nat
      /\ UNCHANGED <<path, token, lock, image, binds, requests, execs, retries, kinds,
                     acked, lost, exposed>>
  BY Facts, Zenon DEF InUse, At, Config, Rendezvous, Image, Counters, Ghosts
<1>2. ~ Server(f)
  BY <1>1, Zenon DEF Server, Serving
<1>3. CASE Set(p, Again(f))
  <2>1. Quiet(f, Again(f))
    BY <1>1, AgainQuiet, Zenon DEF Failing
  <2> QED BY <1>1, <1>2, <1>3, <2>1, QuietSet, Zenon
<1>4. CASE ~ Listens(path) /\ ~ network /\ Set(p, u)
  <2>1. u \in Process /\ u.pc = "unlink" /\ Same(f, u)
    BY <1>1, Assigned, Zenon DEF Alone
  <2> HIDE DEF u
  <2>2. Mild(f, u) /\ ~ u.acc /\ u.srv = "none"
    BY <1>1, <2>1, SearchMild, Zenon DEF Searching
  <2>3. proc'[p] = u
    BY <1>4, <2>1, SetMoves, Zenon
  <2>4. \A q \in Procs : path = q => proc[q].srv = "none"
    <3>1. \A q \in Procs : proc[q].srv \in {"none", "bound", "serving"}
      BY <1>1, Zenon DEF TypesOK, Process
    <3> QED BY <1>4, <3>1, Zenon DEF Listens
  <2>5. StepReach(p)
    BY <1>1, <2>2, <2>3, <2>4, Zenon DEF StepReach
  <2>6. acked' \subseteq acked \cup Stored /\ path' \in Procs \cup {None, Stale}
        /\ token' \in 0 .. binds
    BY <1>1, Zenon DEF TypesOK
  <2> QED BY <1>1, <1>2, <1>4, <2>1, <2>2, <2>5, <2>6, MovedStep, Zenon
<1>5. CASE Listens(path) /\ Set(p, Connected(f, path))
  <2>1. path \in Procs
    BY <1>5, Zenon DEF Listens
  <2>2. Quiet(f, Connected(f, path))
    BY <1>1, <2>1, ConnectedQuiet, Zenon
  <2> QED BY <1>1, <1>2, <1>5, <2>2, QuietSet, Zenon
<1> QED BY <1>3, <1>4, <1>5, Zenon DEF InUse

\* A client reads the secret that is published then.
LEMMA ReadTokenKeeps ==
  ASSUME IInv, NEW p \in Procs, ReadToken(p)
  PROVE  IInv'
<1> DEFINE f == proc[p]
           g == [f EXCEPT !.pc = "auth", !.cred = token]
<1>1. /\ Local(f) /\ f \in Process /\ f.retry <= retries /\ f.pc = "token" /\ Set(p, g)
      /\ token \in 0 .. binds
      /\ UNCHANGED <<path, token, lock, image, binds, requests, execs, retries, kinds,
                     acked, lost, exposed>>
  BY Facts, Zenon DEF ReadToken, At, TypesOK, Config, Rendezvous, Image, Counters, Ghosts
<1>2. g \in Process /\ g.pc = "auth" /\ Same(f, g)
  <2>1. token \in Nat
    BY <1>1, Counts, Zenon
  <2> QED BY <1>1, <2>1, Assigned, Zenon DEF Joined
<1> HIDE DEF g
<1>3. Local(g)
  BY <1>1, <1>2, Zenon DEF Local, Same, ServerAt, Alone, Bound, Publishing, Serving, Leaving
<1>4. f.srv = "none" /\ ~ Server(f)
  BY <1>1, Zenon DEF Local, ServerAt, Bound, Publishing, Serving, Server
<1>5. ~ Holds(g) /\ ~ HasRun(g) /\ ~ HasRun(f) /\ ~ Rival(g)
  BY <1>1, <1>2, <1>4, Zenon DEF Same, Holds, HasRun, Serving, Leaving, Rival, Removing
<1>6. Quiet(f, g)
  BY <1>1, <1>2, <1>3, <1>4, <1>5, Zenon DEF Quiet, Mild, Same
<1> QED BY <1>1, <1>4, <1>6, QuietSet, Zenon DEF g

\* The master knows the client, which goes on; or the open is tried again or
\* given up.
LEMMA AuthenticateKeeps ==
  ASSUME IInv, NEW p \in Procs, Authenticate(p)
  PROVE  IInv'
<1> DEFINE f == proc[p]
           h == Settled(f)
           pc == IF f.resend THEN "send" ELSE "client"
           g == [h EXCEPT !.pc = pc]
<1>1. /\ Local(f) /\ f \in Process /\ f.retry <= retries /\ f.pc = "auth" /\ retries \in Nat
      /\ UNCHANGED <<path, token, lock, image, binds, requests, execs, retries, kinds,
                     acked, lost, exposed>>
  BY Facts, Zenon DEF Authenticate, At, Config, Rendezvous, Image, Counters, Ghosts
<1>2. ~ Server(f) /\ f.srv = "none"
  BY <1>1, Zenon DEF Local, ServerAt, Bound, Publishing, Serving, Server
<1>3. CASE Set(p, Again(f))
  <2>1. Quiet(f, Again(f))
    BY <1>1, AgainQuiet, Zenon DEF Failing
  <2> QED BY <1>1, <1>2, <1>3, <2>1, QuietSet, Zenon
<1>4. CASE Set(p, GivenUp(f))
  <2>1. Quiet(f, GivenUp(f))
    BY <1>1, GivenUpQuiet, Zenon DEF Failing
  <2> QED BY <1>1, <1>2, <1>4, <2>1, QuietSet, Zenon
<1>5. CASE Set(p, g)
  <2>1. /\ h \in Process /\ h.srv = f.srv /\ h.secret = f.secret
        /\ h.conn = f.conn /\ h.acc = f.acc /\ h.retry = 0 /\ h.resend = f.resend
        /\ h.att = f.att /\ h.req = f.req /\ h.box = f.box
    BY <1>1, SettledFields, Zenon
  <2> HIDE DEF h
  <2>2. g \in Process /\ g.pc = pc /\ Same(h, g)
    <3>1. pc \in Alone \cup Joined
      BY Zenon DEF Joined
    <3> HIDE DEF pc
    <3> QED BY <2>1, <3>1, Assigned, Zenon
  <2> HIDE DEF g
  <2>3. Local(g)
    <3>1. /\ g.srv = "none" /\ g.box = "empty" /\ (g.acc => g.conn \in Procs)
          /\ g.resend => g.req # 0
      BY <1>1, <1>2, <2>1, <2>2, Zenon DEF Same, Local
    <3>2. /\ ServerAt(pc) = "none" /\ pc \notin Alone /\ pc \notin {"token", "auth", "local", "master"}
          /\ pc \in {"send", "wait"} => f.resend
      BY Zenon DEF ServerAt, Alone, Bound, Publishing, Serving, Leaving
    <3>3. g.pc \in {"send", "wait"} \/ g.resend => g.req # 0
      BY <2>1, <2>2, <3>1, <3>2, Zenon DEF Same
    <3> HIDE DEF pc
    <3> QED BY <2>2, <3>1, <3>2, <3>3, Zenon DEF Local
  <2>4. ~ Holds(g) /\ ~ HasRun(g) /\ ~ HasRun(f) /\ ~ Rival(g)
    BY <1>1, <1>2, <2>1, <2>2, Zenon DEF Same, Holds, HasRun, Serving, Leaving, Rival, Removing
  <2>5. 0 <= retries
    BY <1>1
  <2>6. Quiet(f, g)
    BY <1>1, <1>2, <2>1, <2>2, <2>3, <2>4, <2>5, Zenon DEF Quiet, Mild, Same
  <2> QED BY <1>1, <1>2, <1>5, <2>6, QuietSet, Zenon
<1> QED BY <1>3, <1>4, <1>5, Zenon DEF Authenticate

\* The rendezvous is removed by a process that was about to.
LEMMA UnlinkKeeps ==
  ASSUME IInv, NEW p \in Procs, Unlink(p) \/ UnlinkToken(p)
  PROVE  IInv'
<1> DEFINE f == proc[p]
<1>1. /\ Local(f) /\ f \in Process /\ f.retry <= retries /\ TypesOK
      /\ f.pc \in {"unlink", "unlink_token"}
  BY Facts, Zenon DEF Unlink, UnlinkToken, At
<1>2. PICK pc \in {"bind", "unlink_token"} : Set(p, [f EXCEPT !.pc = pc])
  BY Zenon DEF Unlink, UnlinkToken
<1> DEFINE g == [f EXCEPT !.pc = pc]
<1>3. g \in Process /\ g.pc = pc /\ Same(f, g)
  BY <1>1, Assigned, Zenon DEF Alone
<1> HIDE DEF g
<1>4. Mild(f, g) /\ ~ g.acc /\ g.srv = "none" /\ ~ Server(f)
  BY <1>1, <1>3, SearchMild, Zenon DEF Searching
<1>5. /\ UNCHANGED <<lock, image, binds, requests, execs, retries, kinds, acked, lost, exposed>>
      /\ path' \in {path, None} /\ token' \in {token, 0}
  BY Zenon DEF Unlink, UnlinkToken, Config, Image, Counters, Ghosts
<1>6. path' \in Procs \cup {None, Stale} /\ token' \in 0 .. binds
  BY <1>1, <1>5 DEF TypesOK
<1>7. proc'[p] = g
  BY <1>2, <1>3, SetMoves, Zenon DEF g
<1>8. Rival(f)
  BY <1>1, Zenon DEF Rival, Removing
<1>9. StepReach(p) /\ acked' \subseteq acked \cup Stored
  BY <1>4, <1>5, <1>7, <1>8, Zenon DEF StepReach
<1> QED BY <1>2, <1>3, <1>4, <1>5, <1>6, <1>9, MovedStep, Zenon DEF g

\* Binding takes a free path.  The process is exposed if another one may still
\* remove it.
LEMMA BindKeeps ==
  ASSUME IInv, NEW p \in Procs, Bind(p)
  PROVE  IInv'
<1> DEFINE f == proc[p]
           g == [f EXCEPT !.pc = "publish", !.srv = "bound", !.secret = binds + 1]
           i == [f EXCEPT !.pc = "in_use"]
<1>1. /\ Local(f) /\ f \in Process /\ f.retry <= retries /\ f.req <= requests
      /\ TypesOK /\ RunsOK /\ f.pc = "bind"
      /\ UNCHANGED <<token, lock, image, requests, execs, retries, kinds, acked, lost>>
  BY Facts, Zenon DEF Bind, At, Config, Image
<1>2. ~ Server(f)
  BY <1>1, Zenon DEF Server, Serving
<1>3. CASE path # None
  <2>1. Set(p, i) /\ UNCHANGED <<path, binds, exposed>>
    BY <1>3, Zenon DEF Bind
  <2>2. i \in Process /\ i.pc = "in_use" /\ Same(f, i)
    BY <1>1, Assigned, Zenon DEF Alone
  <2> HIDE DEF i
  <2>3. Quiet(f, i)
    BY <1>1, <2>2, SearchMild, Zenon DEF Searching, Removing
  <2> QED BY <1>1, <1>2, <2>1, <2>3, QuietSet, Zenon
<1>4. CASE path = None
  <2>1. /\ Set(p, g) /\ path' = p /\ binds' = binds + 1
        /\ exposed' = IF Rivals(p) = {} THEN exposed \ {p} ELSE exposed \cup {p}
    BY <1>4, Zenon DEF Bind
  <2>2. /\ binds \in Nat /\ binds + 1 \in Nat /\ binds <= binds + 1 /\ binds + 1 <= binds + 1
        /\ requests \in 0 .. MaxRequests /\ requests <= requests /\ token \in 0 .. (binds + 1)
    BY <1>1, SessionsAssumption DEF TypesOK
  <2>3. /\ g \in Process /\ g.pc = "publish" /\ g.resend = f.resend /\ g.srv = "bound"
        /\ g.secret = binds + 1 /\ g.conn = f.conn /\ g.acc = f.acc /\ g.att = f.att
        /\ g.retry = f.retry /\ g.req = f.req /\ g.box = f.box
    BY <1>1, <2>2, Zenon DEF Process, Alone, Bound, Publishing
  <2>4. /\ proc' \in [Procs -> Process] /\ proc'[p] = g /\ Others(p)
        /\ \A q \in Procs \ {p} : proc'[q] = proc[q]
    BY <2>1, <2>3, SetMoves, Zenon
  <2> HIDE DEF g
  <2>5. f.conn = None /\ ~ f.acc /\ ~ Holds(g) /\ ~ HasRun(g) /\ ~ HasRun(f)
    BY <1>1, <2>3, SessionsAssumption, Zenon DEF Local, Alone, Holds, HasRun, Serving, Leaving
  <2>6. Local(g)
    BY <1>1, <2>3, <2>5, Zenon DEF Local, ServerAt, Alone, Bound, Publishing, Serving, Leaving
  <2>7. TypesOK'
    <3>1. path' \in Procs \cup {None, Stale} /\ binds' \in Nat /\ token' \in 0 .. binds'
      BY <1>1, <2>1, <2>2, Zenon
    <3> QED BY <1>1, <2>4, <3>1, Zenon DEF TypesOK
  <2>8. StepLocal(p)
    BY <1>1, <2>1, <2>2, <2>3, <2>4, <2>6, Zenon DEF StepLocal
  <2>9. StepHolder(p) /\ StepStored(p)
    BY <1>1, <2>4, <2>5, Zenon DEF StepHolder, StepStored, Stored, Formatted
  <2>10. StepPeers(p)
    BY <1>2, <2>3, <2>4, <2>5, NoPeers, Zenon DEF StepPeers
  <2>11. StepRuns(p)
    BY <1>1, <2>3, <2>4, <2>5, Zenon DEF StepRuns, RunsOK
  <2>12. StepReach(p)
    <3>1. exposed \subseteq exposed' \cup {p}
      BY <2>1, Zenon
    <3>2. p \notin exposed' => \A q \in Procs \ {p} : ~ Rival(proc[q])
      BY <2>1, Zenon DEF Rivals, Rival
    <3>3. path \notin Procs
      BY <1>4, SessionsAssumption, Zenon
    <3> QED BY <2>1, <2>3, <2>4, <3>1, <3>2, <3>3, Zenon DEF StepReach, Publishing
  <2> QED
    BY <2>4, <2>7, <2>8, <2>9, <2>10, <2>11, <2>12, StepKeeps, Zenon DEF Step
<1> QED BY <1>3, <1>4

\* A process with a listener that goes on to the next step of its open.
LEMMA BoundMild ==
  ASSUME NEW f, Local(f), f.pc \in Bound, f.retry <= retries,
         NEW g \in Process, Same(f, g), g.pc \in Bound
  PROVE  /\ Mild(f, g) /\ ~ f.acc /\ ~ g.acc /\ f.srv = "bound" /\ g.srv = "bound" /\ Rival(f)
         /\ ~ Server(f) /\ ~ Holds(f) /\ ~ HasRun(f) /\ f.conn = None /\ f.box = "empty"
<1>1. /\ f.pc \in Alone /\ g.pc \in Alone \ {"local", "master"}
      /\ ServerAt(g.pc) = "bound" /\ ServerAt(f.pc) = "bound"
  BY Zenon DEF Alone, ServerAt, Bound, Publishing, Serving
<1>2. ~ Holds(g) /\ ~ HasRun(g) /\ ~ HasRun(f) /\ ~ Server(f) /\ ~ Holds(f)
  BY Zenon DEF Bound, Publishing, Holds, HasRun, Serving, Leaving, Server
<1>3. Mild(f, g) /\ ~ f.acc /\ ~ g.acc
  BY <1>1, <1>2, MovedMild, Zenon
<1>4. g.srv = "bound" /\ f.srv = "bound" /\ f.conn = None /\ f.box = "empty"
  BY <1>1, Zenon DEF Local, Same
<1> QED BY <1>2, <1>3, <1>4, Zenon DEF Rival

\* An open that failed closes its listener; it may have overwritten the image.
LEMMA FailedOpen ==
  ASSUME IInv, NEW p \in Procs, proc[p].pc \in Bound,
         NEW h, Quiet(proc[p], h), h.srv = "none", Reset(p, h), path' = Closed(p),
         Stored \subseteq Stored',
         image' \in {Absent, Empty} \/ image' \in SUBSET (1 .. MaxRequests),
         UNCHANGED <<token, lock, binds, requests, execs, retries, kinds, acked, exposed>>
  PROVE  IInv'
<1>1. h \in Process
  BY Zenon DEF Quiet, Mild, Local
<1>2. proc' \in [Procs -> Process] /\ proc'[p] = h /\ Others(p)
  BY <1>1, ResetMoves, Zenon
<1>3. ~ Server(proc[p])
  BY Zenon DEF Server, Serving, Bound, Publishing
<1>4. \A q \in Procs : ~ (proc[q].acc /\ proc[q].conn = p)
  BY <1>3, NoPeers, Zenon
<1>5. \A q \in Procs \ {p} : ~ (proc'[q].acc /\ proc'[q].conn = p)
  BY <1>2, <1>4 DEF Others
<1> QED BY <1>2, <1>5, QuietStep, Zenon

\* The secret is published by the process that is bound to the path, unless
\* there is one already.
LEMMA PublishKeeps ==
  ASSUME IInv, NEW p \in Procs, Publish(p) \/ PublishNew(p)
  PROVE  IInv'
<1> DEFINE f == proc[p]
<1>1. /\ Local(f) /\ f \in Process /\ f.retry <= retries /\ f.secret <= binds
      /\ TypesOK /\ ReachOK /\ retries \in Nat /\ f.pc \in Publishing
      /\ UNCHANGED <<lock, image, binds, requests, execs, retries, kinds, acked, lost, exposed>>
  BY Facts, Zenon DEF Publish, PublishNew, At, Config, Image, Counters, Ghosts, Publishing
<1>2. f.secret \in 0 .. binds /\ 0 \in 0 .. binds
  BY <1>1 DEF TypesOK, Process
<1>3. CASE f.pc = "publish_new" /\ Reset(p, Again(f)) /\ path' = Closed(p) /\ UNCHANGED token
  <2>1. Quiet(f, Again(f)) /\ Again(f).srv = "none" /\ f.pc \in Bound
    BY <1>1, <1>3, AgainQuiet, Zenon DEF Failing, Bound
  <2>2. Stored \subseteq Stored' /\ (image' \in {Absent, Empty} \/ image' \in SUBSET (1 .. MaxRequests))
    BY <1>1, Zenon DEF Stored, Formatted, TypesOK
  <2> QED BY <1>1, <1>3, <2>1, <2>2, FailedOpen, Zenon
<1>4. ASSUME NEW pc \in {"publish_new", "exists"}, Set(p, [f EXCEPT !.pc = pc]), path' = path,
             token' \in 0 .. binds,
             pc = "exists" /\ path = p => token' = f.secret
      PROVE  IInv'
  <2> DEFINE g == [f EXCEPT !.pc = pc]
  <2>1. g \in Process /\ g.pc = pc /\ Same(f, g)
    BY <1>1, Assigned, Zenon DEF Alone, Bound, Publishing
  <2>2. proc'[p] = g
    BY <1>4, <2>1, SetMoves, Zenon
  <2> HIDE DEF g
  <2>3. Mild(f, g) /\ ~ g.acc /\ f.srv = "bound" /\ Rival(f) /\ ~ Server(f)
    BY <1>1, <2>1, BoundMild, Zenon DEF Bound, Publishing
  <2>4. p \notin exposed => path = p /\ \A q \in Procs \ {p} : ~ Rival(proc[q])
    BY <1>1, <2>3, Zenon DEF ReachOK
  <2>5. StepReach(p)
    BY <1>1, <1>4, <2>1, <2>2, <2>3, <2>4, Zenon DEF StepReach, Same, Publishing
  <2>6. acked' \subseteq acked \cup Stored /\ path' \in Procs \cup {None, Stale}
    BY <1>1, <1>4, Zenon DEF TypesOK
  <2> QED BY <1>1, <1>4, <2>1, <2>3, <2>5, <2>6, MovedStep, Zenon DEF g
<1>5. CASE Publish(p)
  <2>1. token' \in 0 .. binds
    BY <1>1, <1>2, <1>5, Zenon DEF Publish, TypesOK
  <2>2. CASE network
    <3>1. Set(p, [f EXCEPT !.pc = "exists"]) /\ path' = path /\ (path = p => token' = f.secret)
      BY <1>5, <2>2, Zenon DEF Publish
    <3> QED BY <1>4, <2>1, <3>1, Zenon
  <2>3. CASE ~ network
    <3>1. Set(p, [f EXCEPT !.pc = "publish_new"]) /\ path' = path
      BY <1>5, <2>3, Zenon DEF Publish
    <3> QED BY <1>4, <2>1, <3>1, Zenon
  <2> QED BY <2>2, <2>3, Zenon
<1>6. CASE f.pc = "publish_new" /\ token' = f.secret /\ Set(p, [f EXCEPT !.pc = "exists"])
           /\ path' = path
  BY <1>2, <1>4, <1>6, Zenon
<1> QED BY <1>3, <1>5, <1>6, Zenon DEF PublishNew, At

\* The image is looked for, then created if it is absent; what it held when it
\* was truncated is lost.
LEMMA CreateKeeps ==
  ASSUME IInv, NEW p \in Procs, Exists(p) \/ Create(p)
  PROVE  IInv'
<1> DEFINE f == proc[p]
<1>1. /\ Local(f) /\ f \in Process /\ f.retry <= retries /\ TypesOK /\ ReachOK
      /\ f.pc \in {"exists", "create"}
      /\ UNCHANGED <<path, token, lock, binds, requests, execs, retries, kinds, acked, exposed>>
  BY Facts, Zenon DEF Exists, Create, At, Config, Rendezvous, Image, Counters, Ghosts
<1>2. /\ image' \in {image, Empty} /\ lost \subseteq lost'
      /\ Formatted => image' = image \/ image \subseteq lost'
  <2>1. CASE Exists(p)
    BY <2>1, Zenon DEF Exists, Image, Ghosts
  <2>2. CASE Create(p)
    <3>1. CASE f.kind = "encrypt"
      BY <2>2, <3>1, Zenon DEF Create, Formatted
    <3>2. CASE f.kind # "encrypt"
      BY <2>2, <3>2, Zenon DEF Create, Formatted
    <3> QED BY <3>1, <3>2
  <2> QED BY <2>1, <2>2, Zenon
<1>3. Stored \subseteq Stored'
  <2>1. CASE Formatted /\ image' = image
    BY <1>2, <2>1, Zenon DEF Stored, Formatted
  <2>2. CASE ~ Formatted \/ image \subseteq lost'
    BY <1>2, <2>2, Zenon DEF Stored
  <2> QED BY <1>2, <2>1, <2>2, Zenon
<1>4. image' \in {Absent, Empty} \/ image' \in SUBSET (1 .. MaxRequests)
  BY <1>1, <1>2, Zenon DEF TypesOK
<1>5. PICK pc \in {"create", "lock"}, e \in BOOLEAN :
        Set(p, [f EXCEPT !.pc = pc, !.exists = e])
  <2>1. CASE Exists(p)
    <3>1. Set(p, [f EXCEPT !.pc = "create", !.exists = image # Absent])
          /\ (image # Absent) \in BOOLEAN
      BY <2>1, Zenon DEF Exists
    <3> QED BY <3>1, Zenon
  <2>2. CASE Create(p)
    <3>1. Set(p, [f EXCEPT !.pc = "lock"])
      BY <2>2, Zenon DEF Create
    <3>2. [f EXCEPT !.pc = "lock"] = [f EXCEPT !.pc = "lock", !.exists = f.exists]
          /\ f.exists \in BOOLEAN
      BY <1>1, Zenon DEF Process
    <3> QED BY <3>1, <3>2, Zenon
  <2> QED BY <2>1, <2>2, Zenon
<1> DEFINE g == [f EXCEPT !.pc = pc, !.exists = e]
<1>6. g \in Process /\ g.pc = pc /\ Same(f, g)
  BY <1>1, Assigned, Zenon DEF Alone, Bound
<1>7. /\ proc' \in [Procs -> Process] /\ proc'[p] = g /\ Others(p)
      /\ \A q \in Procs \ {p} : proc'[q] = proc[q]
  BY <1>5, <1>6, SetMoves, Zenon
<1> HIDE DEF g
<1>8. Mild(f, g) /\ ~ f.acc /\ ~ g.acc /\ f.srv = "bound" /\ g.srv = "bound" /\ ~ Server(f)
      /\ Rival(f)
  BY <1>1, <1>6, BoundMild, Zenon DEF Bound
<1>9. Quiet(f, g)
  BY <1>1, <1>6, <1>8, Zenon DEF Quiet, Same, Publishing
<1>10. \A q \in Procs \ {p} : ~ (proc'[q].acc /\ proc'[q].conn = p)
  BY <1>7, <1>8, NoPeers, Zenon
<1> QED BY <1>1, <1>3, <1>4, <1>7, <1>9, <1>10, QuietStep, Zenon

\* The image is locked, and then formatted or mounted; or the open fails, and
\* the listener is closed.  What the image held when it got a new superblock
\* and cannot be read any more is lost.
LEMMA LockKeeps ==
  ASSUME IInv, NEW p \in Procs, Lock(p)
  PROVE  IInv'
<1> DEFINE f == proc[p]
           h == Settled(f)
           pc == IF f.resend THEN "local" ELSE "master"
           g == [h EXCEPT !.srv = "serving", !.pc = pc]
<1>1. /\ Local(f) /\ f \in Process /\ f.retry <= retries /\ f.secret <= binds
      /\ f.req <= requests /\ TypesOK /\ ReachOK /\ RunsOK /\ retries \in Nat /\ f.pc = "lock"
      /\ UNCHANGED <<token, binds, requests, execs, retries, kinds, acked, exposed>>
  BY Facts, Zenon DEF Lock, At, Config, Counters
<1>2. Same(f, f) /\ f.pc \in Bound
  BY <1>1, Zenon DEF Same, Bound
<1>3. /\ ~ f.acc /\ f.srv = "bound" /\ ~ Server(f) /\ ~ HasRun(f) /\ f.conn = None
      /\ f.box = "empty" /\ Rival(f)
  BY <1>1, <1>2, BoundMild, Zenon
<1>4. CASE lock # None
  <2>1. Reset(p, Again(f)) /\ path' = Closed(p) /\ UNCHANGED <<lock, image, lost>>
    BY <1>4, Zenon DEF Lock, Image
  <2>2. Quiet(f, Again(f)) /\ Again(f).srv = "none"
    BY <1>1, AgainQuiet, Zenon DEF Failing
  <2>3. Stored \subseteq Stored' /\ (image' \in {Absent, Empty} \/ image' \in SUBSET (1 .. MaxRequests))
    BY <1>1, <2>1, Zenon DEF Stored, Formatted, TypesOK
  <2> QED BY <1>1, <1>2, <2>1, <2>2, <2>3, FailedOpen, Zenon
<1>5. ASSUME lock = None
      PROVE  /\ Stored \subseteq Stored'
             /\ image' \in {Absent, Empty} \/ image' \in SUBSET (1 .. MaxRequests)
  <2>1. /\ image' = IF Rekeyed(f) \/ (Formats(f) /\ image = Empty) THEN {} ELSE image
        /\ lost' = IF Rekeyed(f) THEN lost \cup image ELSE lost
    BY <1>5, Zenon DEF Lock
  <2>2. CASE Rekeyed(f)
    BY <2>1, <2>2, Zenon DEF Stored
  <2>3. CASE ~ Rekeyed(f) /\ Formats(f) /\ image = Empty
    BY <2>1, <2>3, Zenon DEF Stored, Formatted
  <2>4. CASE ~ Rekeyed(f) /\ ~ (Formats(f) /\ image = Empty)
    BY <1>1, <2>1, <2>4, Zenon DEF Stored, Formatted, TypesOK
  <2> QED BY <2>2, <2>3, <2>4, Zenon
<1>6. CASE lock = None /\ ~ Opens(f)
  <2>1. Reset(p, GivenUp(f)) /\ path' = Closed(p) /\ UNCHANGED lock
    BY <1>6, Zenon DEF Lock
  <2>2. Quiet(f, GivenUp(f)) /\ GivenUp(f).srv = "none"
    BY <1>1, GivenUpQuiet, Zenon DEF Failing
  <2> QED BY <1>1, <1>2, <1>5, <1>6, <2>1, <2>2, FailedOpen, Zenon
<1>7. CASE lock = None /\ Opens(f)
  <2>1. lock' = p /\ Set(p, g) /\ UNCHANGED path
    BY <1>7, Zenon DEF Lock
  <2>2. /\ h \in Process /\ h.secret = f.secret /\ h.conn = f.conn /\ h.acc = f.acc /\ h.retry = 0
        /\ h.resend = f.resend /\ h.att = f.att /\ h.req = f.req /\ h.box = f.box
    BY <1>1, SettledFields, Zenon
  <2> HIDE DEF h
  <2>3. pc \in Serving \ {"drop"} /\ (pc = "local" <=> f.resend)
    BY Zenon DEF Serving
  <2> HIDE DEF pc
  <2>4. /\ g \in Process /\ g.pc = pc /\ g.resend = f.resend /\ g.srv = "serving"
        /\ g.secret = f.secret /\ g.conn = f.conn /\ g.acc = f.acc /\ g.att = f.att
        /\ g.retry = 0 /\ g.req = f.req /\ g.box = f.box
    <3>1. pc \in Alone \cup Joined
      BY <2>3, Zenon DEF Alone
    <3> QED BY <2>2, <3>1, Zenon DEF Process
  <2>5. /\ proc' \in [Procs -> Process] /\ proc'[p] = g /\ Others(p)
        /\ \A q \in Procs \ {p} : proc'[q] = proc[q]
    BY <2>1, <2>4, SetMoves, Zenon
  <2> HIDE DEF g
  <2>6. pc \in {"local", "master"} /\ ~ HasRun(g) /\ Server(g)
    BY <2>3, <2>4, Zenon DEF HasRun, Server, Serving, Leaving
  <2>7. Local(g)
    <3>1. f.resend => f.req # 0
      BY <1>1, Zenon DEF Local
    <3>2. pc \in Alone /\ ServerAt(pc) = "serving" /\ pc \notin {"send", "wait"}
      BY <2>6, Zenon DEF Alone, ServerAt, Bound, Publishing, Serving
    <3>3. pc = "master" => ~ f.resend
      BY <2>3
    <3> QED BY <1>3, <2>3, <2>4, <3>1, <3>2, <3>3, Zenon DEF Local
  <2>8. TypesOK'
    BY <1>1, <1>5, <1>7, <2>1, <2>5, Zenon DEF TypesOK
  <2>9. StepLocal(p)
    <3>1. /\ 0 <= retries /\ binds <= binds /\ requests <= requests /\ binds \in Nat
          /\ requests \in 0 .. MaxRequests
      BY <1>1, SessionsAssumption DEF TypesOK
    <3> QED BY <1>1, <2>4, <2>5, <2>7, <3>1, Zenon DEF StepLocal
  <2>10. StepHolder(p) /\ StepPeers(p)
    BY <1>3, <1>7, <2>1, <2>4, <2>5, <2>6, Zenon DEF StepHolder, StepPeers
  <2>11. StepStored(p)
    BY <1>1, <1>5, <1>7, <2>5, <2>6, Zenon DEF StepStored
  <2>12. StepRuns(p)
    BY <1>1, <1>3, <2>4, <2>5, <2>6, Zenon DEF StepRuns, RunsOK
  <2>13. StepReach(p)
    <3>1. f.pc \notin Publishing /\ f.srv # "none"
      BY <1>1, <1>3, Zenon DEF Publishing
    <3>2. p \notin exposed => /\ path = p /\ token = f.secret
                              /\ \A q \in Procs \ {p} : ~ Rival(proc[q])
      BY <1>1, <3>1, Zenon DEF ReachOK
    <3> QED BY <1>1, <1>3, <2>1, <2>4, <2>5, <3>2, Zenon DEF StepReach
  <2> QED
    BY <2>5, <2>8, <2>9, <2>10, <2>11, <2>12, <2>13, StepKeeps, Zenon DEF Step
<1> QED BY <1>4, <1>6, <1>7, Zenon

\* A connection is cut.
LEMMA CutStep ==
  ASSUME IInv, NEW p \in Procs, proc[p].conn \in Procs,
         Set(p, [proc[p] EXCEPT !.conn = Broken, !.acc = FALSE]),
         UNCHANGED <<path, token, lock, image, binds, requests, execs, retries, kinds,
                     acked, lost, exposed>>
  PROVE  IInv'
<1> DEFINE f == proc[p]
           c == [f EXCEPT !.conn = Broken, !.acc = FALSE]
<1>1. Local(f) /\ f.retry <= retries
  BY Facts, Zenon
<1>2. f.pc \notin Alone
  BY <1>1, SessionsAssumption, Zenon DEF Local
<1>3. /\ Local(c) /\ ~ c.acc /\ c.pc = f.pc /\ c.srv = f.srv /\ c.secret = f.secret
      /\ c.resend = f.resend /\ c.att = f.att /\ c.retry = f.retry /\ c.req = f.req
      /\ c.box = f.box
  BY <1>1, CutKeeps, Zenon
<1> HIDE DEF c
<1>4. ~ Server(f) /\ f.srv = "none"
  BY <1>1, <1>2, Zenon DEF Local, Server, Alone, ServerAt, Leaving
<1>5. (Holds(c) <=> Holds(f)) /\ (HasRun(c) <=> HasRun(f)) /\ (Rival(c) <=> Rival(f))
  BY <1>3, Zenon DEF Holds, HasRun, Rival
<1>6. Quiet(f, c)
  BY <1>1, <1>3, <1>4, <1>5, Zenon DEF Quiet, Mild
<1> QED BY <1>4, <1>6, QuietSet, Zenon DEF c

\* The server thread accepts a connection, or cuts it.
LEMMA AcceptKeeps ==
  ASSUME IInv, NEW s \in Procs, NEW p \in Procs, Accept(s, p)
  PROVE  IInv'
<1> DEFINE f == proc[p]
           a == [f EXCEPT !.acc = TRUE]
           b == [f EXCEPT !.conn = Broken]
<1>1. /\ Local(f) /\ f \in Process /\ f.retry <= retries /\ TypesOK
      /\ f.conn = s /\ ~ f.acc /\ proc[s].srv = "serving" /\ (Set(p, a) \/ Set(p, b))
      /\ UNCHANGED <<path, token, lock, image, binds, requests, execs, retries, kinds,
                     acked, lost, exposed>>
  BY Facts, Zenon DEF Accept, Config, Rendezvous, Image, Counters, Ghosts
<1>2. f.pc \notin Alone /\ Server(proc[s])
  <2>1. f.pc \notin Alone
    BY <1>1, SessionsAssumption, Zenon DEF Local
  <2>2. Local(proc[s])
    BY Facts, Zenon
  <2>3. Server(proc[s])
    BY <1>1, <2>2 DEF Local, ServerAt, Bound, Serving, Server
  <2> QED BY <2>1, <2>3
<1>3. s # p /\ ~ Server(f) /\ f.srv = "none"
  BY <1>1, <1>2, Zenon DEF Local, Server, Alone, ServerAt, Leaving
<1>4. CASE Set(p, b)
  <2>1. b = [f EXCEPT !.conn = Broken, !.acc = FALSE]
    BY <1>1, Zenon DEF Process
  <2> QED BY <1>1, <1>4, <2>1, CutStep, Zenon
<1>5. CASE Set(p, a)
  <2>1. /\ a \in Process /\ a.acc /\ a.conn = s /\ a.pc = f.pc /\ a.srv = f.srv
        /\ a.secret = f.secret /\ a.resend = f.resend /\ a.att = f.att /\ a.req = f.req
        /\ a.retry = f.retry /\ a.box = f.box
    BY <1>1, Zenon DEF Process
  <2>2. /\ proc' \in [Procs -> Process] /\ proc'[p] = a /\ Others(p)
        /\ \A q \in Procs \ {p} : proc'[q] = proc[q]
    BY <1>5, <2>1, SetMoves, Zenon
  <2> HIDE DEF a
  <2>3. Local(a)
    BY <1>1, <1>2, <2>1, Zenon DEF Local
  <2>4. (Holds(a) <=> Holds(f)) /\ (HasRun(a) <=> HasRun(f)) /\ (Rival(a) <=> Rival(f))
    BY <2>1, Zenon DEF Holds, HasRun, Rival
  <2>5. Mild(f, a)
    BY <1>1, <2>1, <2>3, <2>4, Zenon DEF Mild
  <2>6. StepReach(p)
    BY <1>1, <1>3, <2>1, <2>2, <2>4, Zenon DEF StepReach
  <2>7. \A q \in Procs \ {p} : ~ (proc'[q].acc /\ proc'[q].conn = p)
    BY <1>3, <2>2, NoPeers, Zenon
  <2>8. \E t \in Procs \ {p} : a.conn = t /\ Server(proc[t])
    BY <1>2, <1>3, <2>1, Zenon
  <2>9. /\ Stored \subseteq Stored' /\ acked' \subseteq acked \cup Stored
        /\ image' \in {Absent, Empty} \/ image' \in SUBSET (1 .. MaxRequests)
        /\ path' \in Procs \cup {None, Stale} /\ token' \in 0 .. binds
    BY <1>1, Zenon DEF Stored, Formatted, TypesOK
  <2> QED BY <1>1, <2>2, <2>5, <2>6, <2>7, <2>8, <2>9, MoveStep, Zenon
<1> QED BY <1>1, <1>4, <1>5, Zenon

\* A peer that takes too long over the handshake is cut.
LEMMA HandshakeTimeoutKeeps ==
  ASSUME IInv, NEW p \in Procs, HandshakeTimeout(p)
  PROVE  IInv'
<1>1. proc[p].conn \in Procs
  BY Facts, Zenon DEF HandshakeTimeout, Local
<1>2. /\ Set(p, [proc[p] EXCEPT !.conn = Broken, !.acc = FALSE])
      /\ UNCHANGED <<path, token, lock, image, binds, requests, execs, retries, kinds,
                     acked, lost, exposed>>
  BY Zenon DEF HandshakeTimeout, Config, Rendezvous, Image, Counters, Ghosts
<1> QED BY <1>1, <1>2, CutStep, Zenon

-----------------------------------------------------------------------------
(* The steps of a request *)

\* Running a request adds it to the image, which keeps what it held.
LEMMA RunStores ==
  ASSUME TypesOK, NEW r \in 1 .. MaxRequests, Run(r), lost' = lost
  PROVE  /\ Stored \subseteq Stored' /\ r \in Stored'
         /\ image' \in SUBSET (1 .. MaxRequests)
         /\ execs \in [1 .. MaxRequests -> Nat] /\ execs' \in [1 .. MaxRequests -> Nat]
         /\ \A i \in 1 .. MaxRequests : i # r => execs'[i] = execs[i]
         /\ execs'[r] = execs[r] + 1
<1>1. Formatted /\ image' = image \cup {r} /\ execs' = [execs EXCEPT ![r] = @ + 1]
  BY Zenon DEF Run
<1>2. image' \in SUBSET (1 .. MaxRequests)
  BY <1>1, Zenon DEF TypesOK, Formatted
<1>3. Formatted'
  BY <1>2, SessionsAssumption, Zenon DEF Formatted
<1>4. Stored \subseteq Stored' /\ r \in Stored'
  BY <1>1, <1>3, Zenon DEF Stored
<1>5. /\ execs \in [1 .. MaxRequests -> Nat] /\ execs' \in [1 .. MaxRequests -> Nat]
      /\ \A i \in 1 .. MaxRequests : i # r => execs'[i] = execs[i]
      /\ execs'[r] = execs[r] + 1
  BY <1>1 DEF TypesOK
<1> QED BY <1>2, <1>4, <1>5, Zenon

\* A direct session runs a new request on the image it has locked.
LEMMA RunDirectKeeps ==
  ASSUME IInv, NEW p \in Procs, RunDirect(p)
  PROVE  IInv'
<1> DEFINE f == proc[p]
           n == requests + 1
<1>1. /\ Local(f) /\ f \in Process /\ f.retry <= retries /\ f.secret <= binds
      /\ f.req <= requests /\ TypesOK /\ HolderOK /\ RunsOK /\ ReachOK
      /\ f.pc \in {"master", "direct"} /\ requests < MaxRequests
      /\ requests' = n /\ Run(n) /\ acked' = acked \cup {n}
      /\ UNCHANGED <<path, token, lock, proc, binds, retries, kinds, lost, exposed>>
  BY Facts, Zenon DEF RunDirect, Config, Rendezvous
<1>2. /\ binds \in Nat /\ binds <= binds /\ f.req \in Nat
      /\ n \in 1 .. MaxRequests /\ n \in 0 .. MaxRequests
      /\ n \in Nat /\ requests \in Nat
      /\ requests <= n /\ n <= n /\ n > requests /\ n # 0
      /\ \A r \in 1 .. MaxRequests : r > n => r # n /\ r > requests
      /\ \A r \in 1 .. requests : r \in 1 .. MaxRequests /\ r # n
      /\ \A r \in Nat : r <= requests => r <= n /\ (r # 0 => r \in 1 .. requests)
  <2>1. requests \in 0 .. MaxRequests /\ binds \in Nat /\ requests < MaxRequests
    BY <1>1, Zenon DEF TypesOK
  <2>2. MaxRequests \in Nat
    BY SessionsAssumption, Zenon
  <2>3. f.req \in Nat
    BY <1>1, Zenon DEF Process
  <2>4. binds <= binds
    BY <2>1, Counts, Zenon
  <2> QED BY <2>1, <2>2, <2>3, <2>4, NextNumber, Zenon
<1> HIDE DEF n
<1>3. /\ Stored \subseteq Stored' /\ n \in Stored'
      /\ image' \in SUBSET (1 .. MaxRequests)
      /\ execs' \in [1 .. MaxRequests -> Nat]
      /\ \A i \in 1 .. MaxRequests : i # n => execs'[i] = execs[i]
  BY <1>1, <1>2, RunStores, Zenon
<1>4. lock = p
  BY <1>1, Zenon DEF HolderOK, Holds, Serving
<1>5. Others(p)
  BY <1>1, Facts, Zenon DEF Others
<1>6. TypesOK'
  BY <1>1, <1>2, <1>3, Zenon DEF TypesOK
<1>7. StepLocal(p)
  <2>1. f.req <= n
    BY <1>1, <1>2, Zenon
  <2> QED BY <1>1, <1>2, <2>1, Zenon DEF StepLocal
<1>8. StepHolder(p)
  BY <1>1, <1>4, Zenon DEF StepHolder
<1>9. StepReach(p)
  <2>1. exposed \subseteq exposed' \cup {p}
    BY <1>1, Zenon
  <2> QED BY <1>1, <2>1, Zenon DEF StepReach, ReachOK
<1>10. StepPeers(p)
  <2>1. ~ f.acc
    BY <1>1, SessionsAssumption DEF Local, Alone, Serving
  <2>2. Server(f) \/ \A q \in Procs \ {p} : ~ (proc[q].acc /\ proc[q].conn = p)
    BY NoPeers, Zenon
  <2> QED BY <1>1, <2>1, <2>2, Zenon DEF StepPeers
<1>11. StepStored(p)
  <2>1. ~ HasRun(f)
    BY <1>1, Zenon DEF HasRun, Leaving
  <2> QED BY <1>1, <1>3, <2>1, Zenon DEF StepStored
<1>12. StepRuns(p)
  <2>1. ASSUME NEW r \in 1 .. MaxRequests, r > requests' PROVE execs'[r] = 0
    <3>1. r # n /\ r > requests
      BY <1>1, <1>2, <2>1, Zenon
    <3> QED BY <1>1, <1>3, <3>1, Zenon DEF RunsOK
  <2>2. ASSUME NEW r \in 1 .. requests PROVE execs'[r] = execs[r]
    BY <1>2, <1>3, Zenon
  <2>3. ASSUME f.req # 0 PROVE execs'[f.req] <= f.att + (IF HasRun(f) THEN 1 ELSE 0)
    <3>1. f.req \in 1 .. requests
      BY <1>1, <1>2, <2>3, Zenon
    <3> QED BY <1>1, <2>2, <2>3, <3>1, Zenon DEF RunsOK
  <2> QED BY <1>1, <2>1, <2>2, <2>3, Zenon DEF StepRuns
<1> QED
  BY <1>5, <1>6, <1>7, <1>8, <1>9, <1>10, <1>11, <1>12, StepKeeps, Zenon DEF Step

\* A client starts a request of a new number, which nobody has run.
LEMMA StartRequestKeeps ==
  ASSUME IInv, NEW p \in Procs, StartRequest(p)
  PROVE  IInv'
<1> DEFINE f == proc[p]
           n == requests + 1
           g == [f EXCEPT !.pc = "send", !.req = n, !.att = 0]
<1>1. /\ Local(f) /\ f \in Process /\ f.retry <= retries /\ f.secret <= binds
      /\ TypesOK /\ RunsOK /\ f.pc = "client"
      /\ requests < MaxRequests /\ requests' = n /\ Set(p, g)
      /\ UNCHANGED <<path, token, lock, image, binds, execs, retries, kinds, acked, lost, exposed>>
  BY Facts, Zenon DEF StartRequest, At, Config, Rendezvous, Image, Ghosts
<1>2. /\ 0 \in 0 .. MaxAttempt /\ binds \in Nat /\ binds <= binds
      /\ n \in 1 .. MaxRequests /\ n \in 0 .. MaxRequests
      /\ n \in Nat /\ requests \in Nat
      /\ requests <= n /\ n <= n /\ n > requests /\ n # 0
      /\ \A r \in 1 .. MaxRequests : r > n => r # n /\ r > requests
  <2>1. requests \in 0 .. MaxRequests /\ binds \in Nat /\ requests < MaxRequests
    BY <1>1, Zenon DEF TypesOK
  <2>2. MaxRequests \in Nat /\ MaxAttempt \in Nat
    BY SessionsAssumption, Zenon
  <2>3. 0 \in 0 .. MaxAttempt /\ binds <= binds
    BY <2>1, <2>2, Counts, Zenon
  <2> QED BY <2>1, <2>2, <2>3, NextNumber, Zenon
<1> HIDE DEF n
<1>3. /\ g \in Process /\ g.pc = "send" /\ g.resend = f.resend /\ g.srv = f.srv
      /\ g.secret = f.secret /\ g.conn = f.conn /\ g.acc = f.acc /\ g.att = 0
      /\ g.retry = f.retry /\ g.req = n /\ g.box = f.box
  BY <1>1, <1>2, Zenon DEF Process, Joined
<1>4. /\ proc' \in [Procs -> Process] /\ proc'[p] = g /\ Others(p)
      /\ \A q \in Procs \ {p} : proc'[q] = proc[q]
  BY <1>1, <1>3, SetMoves, Zenon
<1> HIDE DEF g
<1>5. Local(g)
  BY <1>1, <1>2, <1>3, Zenon DEF Local, ServerAt, Alone, Bound, Publishing, Serving, Leaving
<1>6. f.srv = "none" /\ ~ Server(f)
  BY <1>1, Zenon DEF Local, ServerAt, Bound, Publishing, Serving, Server
<1>7. ~ HasRun(g) /\ ~ Holds(g) /\ ~ Rival(g)
  BY <1>3, <1>6, Zenon DEF HasRun, Holds, Rival, Serving, Leaving, Removing
<1>8. TypesOK'
  BY <1>1, <1>2, <1>4, Zenon DEF TypesOK
<1>9. StepLocal(p)
  BY <1>1, <1>2, <1>3, <1>4, <1>5, Zenon DEF StepLocal
<1>10. StepHolder(p) /\ StepReach(p)
  BY <1>1, <1>3, <1>4, <1>6, <1>7, Zenon DEF StepHolder, StepReach
<1>11. StepPeers(p)
  <2>1. g.acc => \E s \in Procs \ {p} : g.conn = s /\ Server(proc[s])
    BY <1>3, KeptPeer, Zenon
  <2>2. \A q \in Procs \ {p} : ~ (proc'[q].acc /\ proc'[q].conn = p)
    BY <1>4, <1>6, NoPeers, Zenon
  <2> QED BY <1>4, <2>1, <2>2, Zenon DEF StepPeers
<1>12. StepStored(p)
  BY <1>1, <1>4, <1>7, Zenon DEF StepStored, Stored, Formatted
<1>13. StepRuns(p)
  <2>1. ASSUME NEW r \in 1 .. MaxRequests, r > requests' PROVE execs'[r] = 0
    BY <1>1, <1>2, <2>1, Zenon DEF RunsOK
  <2>2. execs'[g.req] <= g.att + (IF HasRun(g) THEN 1 ELSE 0)
    <3>1. execs[n] = 0
      BY <1>1, <1>2, Zenon DEF RunsOK
    <3>2. 0 <= 0 + 0
      OBVIOUS
    <3> QED BY <1>1, <1>3, <1>7, <3>1, <3>2, Zenon
  <2>3. g.req > requests
    BY <1>2, <1>3, Zenon
  <2> QED BY <1>1, <1>4, <2>1, <2>2, <2>3, Zenon DEF StepRuns
<1> QED
  BY <1>4, <1>8, <1>9, <1>10, <1>11, <1>12, <1>13, StepKeeps, Zenon DEF Step

\* A request is written to the connection, or the session opened again.
LEMMA SendKeeps ==
  ASSUME IInv, NEW p \in Procs, Send(p)
  PROVE  IInv'
<1> DEFINE f == proc[p]
           g == [f EXCEPT !.pc = "wait", !.box = "request"]
<1>1. /\ Local(f) /\ f \in Process /\ f.retry <= retries /\ retries \in Nat /\ f.pc = "send"
      /\ UNCHANGED <<path, token, lock, image, binds, requests, execs, retries, kinds,
                     acked, lost, exposed>>
  BY Facts, Zenon DEF Send, At, Config, Rendezvous, Image, Counters, Ghosts
<1>2. f.srv = "none" /\ ~ Server(f)
  BY <1>1, Zenon DEF Local, ServerAt, Bound, Publishing, Serving, Server
<1>3. CASE f.conn = Broken
  <2>1. Set(p, Reopened(f)) /\ Quiet(f, Reopened(f))
    BY <1>1, <1>3, ReopenedQuiet, Zenon DEF Send
  <2> QED BY <1>1, <1>2, <2>1, QuietSet, Zenon
<1>4. CASE f.conn # Broken
  <2>1. Set(p, g)
    BY <1>4, Zenon DEF Send
  <2>2. /\ g \in Process /\ g.pc = "wait" /\ g.resend = f.resend /\ g.srv = f.srv
        /\ g.secret = f.secret /\ g.conn = f.conn /\ g.acc = f.acc /\ g.att = f.att
        /\ g.retry = f.retry /\ g.req = f.req /\ g.box = "request"
    BY <1>1, Zenon DEF Process, Joined
  <2> HIDE DEF g
  <2>3. Local(g)
    BY <1>1, <2>2, Zenon DEF Local, ServerAt, Alone, Bound, Publishing, Serving, Leaving
  <2>4. ~ Holds(g) /\ ~ HasRun(g) /\ ~ HasRun(f) /\ ~ Rival(g)
    BY <1>1, <1>2, <2>2, Zenon DEF Holds, HasRun, Rival, Serving, Leaving, Removing
  <2>5. Quiet(f, g)
    BY <1>1, <1>2, <2>2, <2>3, <2>4, Zenon DEF Quiet, Mild
  <2> QED BY <1>1, <1>2, <2>1, <2>5, QuietSet, Zenon
<1> QED BY <1>3, <1>4

\* A request is run for a process, by itself or by the worker of its connection;
\* it was not run in this attempt before.
LEMMA RunStep ==
  ASSUME IInv, NEW p \in Procs, NEW g, Set(p, g), Local(g), ~ HasRun(proc[p]), HasRun(g),
         g.req = proc[p].req, g.req # 0, g.att = proc[p].att, g.srv = proc[p].srv,
         g.secret = proc[p].secret, g.acc = proc[p].acc, g.conn = proc[p].conn,
         g.retry = proc[p].retry,
         g.pc \in {"wait", "drop"}, Holds(g) => Holds(proc[p]),
         Server(g) <=> Server(proc[p]), proc[p].pc \notin Publishing, Run(g.req),
         UNCHANGED <<path, token, lock, binds, requests, retries, kinds, acked, lost, exposed>>
  PROVE  IInv'
<1> DEFINE f == proc[p]
<1>1. /\ Local(f) /\ g \in Process /\ f.retry <= retries /\ f.secret <= binds /\ f.req <= requests
      /\ TypesOK /\ HolderOK /\ RunsOK /\ ReachOK
  BY Facts, Zenon DEF Local
<1>2. /\ requests \in 0 .. MaxRequests /\ MaxRequests \in Nat /\ requests \in Nat /\ binds \in Nat
      /\ f.att \in Nat /\ g.req \in Nat
  <2>1. requests \in 0 .. MaxRequests /\ binds \in Nat
    BY <1>1, Zenon DEF TypesOK
  <2>2. MaxRequests \in Nat
    BY SessionsAssumption, Zenon
  <2>3. f.att \in 0 .. MaxAttempt /\ g.req \in Nat
    BY <1>1, Zenon DEF Local, Process
  <2> QED BY <2>1, <2>2, <2>3, Counts, Zenon
<1>3. /\ g.req \in 1 .. MaxRequests /\ g.req <= requests
      /\ \A r \in 1 .. MaxRequests : r > requests => r # g.req
      /\ \A r \in 1 .. requests : r \in 1 .. MaxRequests
  <2>1. g.req <= requests
    BY <1>1, Zenon
  <2> QED BY <1>2, <2>1, RequestNumber, Zenon
<1>4. /\ proc' \in [Procs -> Process] /\ proc'[p] = g /\ Others(p)
      /\ \A q \in Procs \ {p} : proc'[q] = proc[q]
  BY <1>1, SetMoves, Zenon
<1>5. /\ Stored \subseteq Stored' /\ g.req \in Stored'
      /\ image' \in SUBSET (1 .. MaxRequests)
      /\ execs \in [1 .. MaxRequests -> Nat] /\ execs' \in [1 .. MaxRequests -> Nat]
      /\ \A r \in 1 .. MaxRequests : r # g.req => execs'[r] = execs[r]
      /\ execs'[g.req] = execs[g.req] + 1
  BY <1>1, <1>3, RunStores, Zenon
<1>6. TypesOK'
  BY <1>1, <1>4, <1>5, Zenon DEF TypesOK
<1>7. StepLocal(p)
  <2>1. binds <= binds /\ requests <= requests
    BY <1>2, Counts, Zenon
  <2>2. g.secret <= binds /\ g.req <= requests /\ g.retry <= retries
    BY <1>1, Zenon
  <2> QED BY <1>2, <1>4, <2>1, <2>2, Zenon DEF StepLocal
<1>8. StepHolder(p)
  BY <1>1, <1>4, Zenon DEF StepHolder, HolderOK
<1>9. StepPeers(p)
  <2>1. g.acc => \E s \in Procs \ {p} : g.conn = s /\ Server(proc[s])
    BY KeptPeer, Zenon
  <2>2. ~ Server(g) => \A q \in Procs \ {p} : ~ (proc'[q].acc /\ proc'[q].conn = p)
    <3>1. ~ Server(proc[p]) => \A q \in Procs : ~ (proc[q].acc /\ proc[q].conn = p)
      BY NoPeers, Zenon
    <3> QED BY <1>4, <3>1, Zenon
  <2> QED BY <1>4, <2>1, <2>2, Zenon DEF StepPeers
<1>10. StepStored(p)
  BY <1>4, <1>5, Zenon DEF StepStored
<1>11. StepRuns(p)
  <2>1. ASSUME NEW r \in 1 .. MaxRequests, r > requests' PROVE execs'[r] = 0
    <3>1. r # g.req /\ r > requests
      BY <1>3, <2>1, Zenon
    <3> QED BY <1>1, <1>5, <3>1, Zenon DEF RunsOK
  <2>2. ASSUME NEW r \in 1 .. requests, r # f.req PROVE execs'[r] = execs[r]
    BY <1>3, <1>5, <2>2, Zenon
  <2>3. execs'[g.req] <= g.att + 1
    <3>1. execs[g.req] <= f.att
      <4>1. execs[g.req] <= f.att + 0
        BY <1>1, Zenon DEF RunsOK
      <4> QED BY <1>2, <4>1, Counts, Zenon
    <3>2. execs[g.req] \in Nat
      BY <1>3, <1>5, Zenon
    <3> QED BY <1>2, <1>5, <3>1, <3>2, Counts, Zenon
  <2> QED BY <1>4, <2>1, <2>2, <2>3, Zenon DEF StepRuns
<1>12. StepReach(p)
  <2>1. g.srv # "none" => g.pc = "drop"
    BY Zenon DEF Local, ServerAt, Bound, Publishing, Serving
  <2>2. Rival(g) => Rival(f)
    BY <2>1, Zenon DEF Rival, Removing
  <2>3. exposed \subseteq exposed' \cup {p}
    BY Zenon
  <2> QED BY <1>1, <1>4, <2>2, <2>3, Zenon DEF StepReach, ReachOK
<1> QED
  BY <1>4, <1>6, <1>7, <1>8, <1>9, <1>10, <1>11, <1>12, StepKeeps, Zenon DEF Step

\* The worker of a connection runs the request it was sent.
LEMMA HandleKeeps ==
  ASSUME IInv, NEW p \in Procs, Handle(p)
  PROVE  IInv'
<1> DEFINE f == proc[p]
           g == [f EXCEPT !.box = "reply"]
<1>1. /\ Local(f) /\ f \in Process /\ f.box = "request" /\ f.conn \in Procs
      /\ Run(f.req) /\ Set(p, g)
      /\ UNCHANGED <<path, token, lock, binds, requests, retries, kinds, acked, lost, exposed>>
  BY Facts, Zenon DEF Handle, Config, Rendezvous, Counters
<1>2. f.pc = "wait" /\ f.req # 0
  BY <1>1, SessionsAssumption DEF Local
<1>3. /\ g \in Process /\ g.pc = f.pc /\ g.resend = f.resend /\ g.srv = f.srv
      /\ g.secret = f.secret /\ g.conn = f.conn /\ g.acc = f.acc /\ g.att = f.att
      /\ g.retry = f.retry /\ g.req = f.req /\ g.box = "reply"
  BY <1>1, Zenon DEF Process
<1> HIDE DEF g
<1>4. Local(g)
  BY <1>1, <1>2, <1>3, Zenon DEF Local, ServerAt, Alone, Bound, Publishing, Serving, Leaving
<1>5. /\ ~ HasRun(f) /\ HasRun(g) /\ ~ Holds(g) /\ ~ Server(f) /\ ~ Server(g)
      /\ f.pc \notin Publishing
  BY <1>1, <1>2, <1>3, Zenon DEF HasRun, Holds, Server, Serving, Leaving, Publishing
<1> QED BY <1>1, <1>2, <1>3, <1>4, <1>5, RunStep, Zenon

\* A client that became the master runs its request itself.
LEMMA RunLocalKeeps ==
  ASSUME IInv, NEW p \in Procs, RunLocal(p)
  PROVE  IInv'
<1> DEFINE f == proc[p]
           g == [f EXCEPT !.pc = "drop"]
<1>1. /\ Local(f) /\ f \in Process /\ f.pc = "local" /\ Run(f.req) /\ Set(p, g)
      /\ UNCHANGED <<path, token, lock, binds, requests, retries, kinds, acked, lost, exposed>>
  BY Facts, Zenon DEF RunLocal, At, Config, Rendezvous, Counters
<1>2. f.resend /\ f.req # 0
  BY <1>1, Zenon DEF Local
<1>3. Holds(f) /\ Server(f) /\ ~ HasRun(f) /\ f.pc \notin Publishing
  BY <1>1, Zenon DEF Holds, Server, Serving, HasRun, Leaving, Publishing
<1>4. g \in Process /\ g.pc = "drop" /\ Same(f, g)
  BY <1>1, Assigned, Zenon DEF Alone, Serving
<1> HIDE DEF g
<1>5. Local(g)
  BY <1>1, <1>4, Zenon DEF Same, Local, ServerAt, Alone, Bound, Publishing, Serving, Leaving
<1>6. HasRun(g) /\ Server(g)
  BY <1>2, <1>4, Zenon DEF Same, HasRun, Server, Serving
<1> QED BY <1>1, <1>2, <1>3, <1>4, <1>5, <1>6, RunStep, Zenon DEF Same

\* An answer is returned, of a request that has been run; or the connection is
\* found broken, and the session opened again.
LEMMA ReceiveKeeps ==
  ASSUME IInv, NEW p \in Procs, Receive(p)
  PROVE  IInv'
<1> DEFINE f == proc[p]
           d == [f EXCEPT !.pc = "client", !.req = 0, !.att = 0, !.box = "empty",
                          !.resend = FALSE]
           g == IF f.resend THEN [d EXCEPT !.conn = Broken, !.acc = FALSE] ELSE d
<1>1. /\ Local(f) /\ f \in Process /\ f.retry <= retries /\ retries \in Nat
      /\ TypesOK /\ StoredOK /\ f.pc = "wait"
      /\ UNCHANGED <<path, token, lock, image, binds, requests, execs, retries, kinds,
                     lost, exposed>>
  BY Facts, Zenon DEF Receive, At, Config, Rendezvous, Image, Counters
<1>2. f.srv = "none" /\ ~ Server(f)
  BY <1>1, Zenon DEF Local, ServerAt, Bound, Publishing, Serving, Server
<1>3. CASE f.conn = Broken
  <2>1. Set(p, Reopened(f)) /\ UNCHANGED acked
    BY <1>3, Zenon DEF Receive
  <2>2. Quiet(f, Reopened(f))
    BY <1>1, <1>3, ReopenedQuiet, Zenon
  <2> QED BY <1>1, <1>2, <2>1, <2>2, QuietSet, Zenon
<1>4. CASE f.conn # Broken
  <2>1. f.box = "reply" /\ acked' = acked \cup {f.req} /\ Set(p, g)
    BY <1>4, Zenon DEF Receive
  <2>2. /\ d \in Process /\ d.pc = "client" /\ d.resend = FALSE /\ d.srv = f.srv /\ d.req = 0
        /\ d.secret = f.secret /\ d.conn = f.conn /\ d.acc = f.acc /\ d.box = "empty"
        /\ d.retry = f.retry
    <3>1. 0 \in Nat /\ 0 \in 0 .. MaxAttempt
      BY SessionsAssumption
    <3> QED BY <1>1, <3>1, Zenon DEF Process, Joined
  <2> HIDE DEF d
  <2>3. /\ g \in Process /\ g.pc = "client" /\ g.resend = FALSE /\ g.srv = f.srv /\ g.req = 0
        /\ g.secret = f.secret /\ g.box = "empty" /\ g.retry = f.retry
        /\ (g.conn = f.conn /\ g.acc = f.acc) \/ (g.conn = Broken /\ g.acc = FALSE)
    <3>1. CASE f.resend
      <4> DEFINE e == [d EXCEPT !.conn = Broken, !.acc = FALSE]
      <4>1. /\ e \in Process /\ e.pc = d.pc /\ e.resend = d.resend /\ e.srv = d.srv
            /\ e.req = d.req /\ e.secret = d.secret /\ e.box = d.box /\ e.retry = d.retry
            /\ e.conn = Broken /\ e.acc = FALSE
        BY <2>2, Zenon DEF Process
      <4>2. g = e
        BY <3>1, Zenon
      <4> HIDE DEF e, g
      <4> QED BY <2>2, <4>1, <4>2, Zenon
    <3>2. CASE ~ f.resend
      BY <2>2, <3>2, Zenon
    <3> QED BY <3>1, <3>2, Zenon
  <2>4. /\ proc' \in [Procs -> Process] /\ proc'[p] = g /\ Others(p)
        /\ \A q \in Procs \ {p} : proc'[q] = proc[q]
    BY <2>1, <2>3, SetMoves, Zenon
  <2> HIDE DEF g
  <2>5. Local(g)
    BY <1>1, <2>3, Zenon DEF Local, ServerAt, Alone, Bound, Publishing, Serving, Leaving
  <2>6. ~ Holds(g) /\ ~ HasRun(g) /\ ~ Rival(g)
    BY <1>2, <2>3, Zenon DEF Holds, HasRun, Rival, Serving, Leaving, Removing
  <2>7. Mild(f, g)
    BY <1>1, <2>3, <2>5, <2>6, Zenon DEF Mild
  <2>8. StepReach(p)
    BY <1>1, <1>2, <2>3, <2>4, <2>6, Zenon DEF StepReach
  <2>9. /\ Stored \subseteq Stored' /\ acked' \subseteq acked \cup Stored
        /\ image' \in {Absent, Empty} \/ image' \in SUBSET (1 .. MaxRequests)
        /\ path' \in Procs \cup {None, Stale} /\ token' \in 0 .. binds
    <3>1. f.req \in Stored
      BY <1>1, <2>1, Zenon DEF StoredOK, HasRun
    <3> QED BY <1>1, <2>1, <3>1, Zenon DEF Stored, Formatted, TypesOK
  <2>10. \A q \in Procs \ {p} : ~ (proc'[q].acc /\ proc'[q].conn = p)
    BY <1>2, <2>4, NoPeers, Zenon
  <2>11. g.acc => \E s \in Procs \ {p} : g.conn = s /\ Server(proc[s])
    BY <2>3, KeptPeer, Zenon
  <2> QED BY <1>1, <2>4, <2>7, <2>8, <2>9, <2>10, <2>11, MoveStep, Zenon
<1> QED BY <1>3, <1>4

-----------------------------------------------------------------------------
(* The steps of closing, and crashes *)

\* A session ends: a master begins to stop its server, the others are done.
LEMMA CloseKeeps ==
  ASSUME IInv, NEW p \in Procs, Close(p)
  PROVE  IInv'
<1> DEFINE f == proc[p]
           g == [f EXCEPT !.pc = "drop"]
<1>1. /\ Local(f) /\ f \in Process /\ f.retry <= retries /\ retries \in Nat /\ TypesOK
      /\ f.pc \in {"client", "master", "direct"}
      /\ UNCHANGED <<path, token, image, binds, requests, execs, retries, kinds, acked,
                     lost, exposed>>
  BY Facts, Zenon DEF Close, Config, Rendezvous, Counters, Ghosts
<1>2. CASE f.pc = "master"
  <2>1. Set(p, g) /\ UNCHANGED lock
    BY <1>2, Zenon DEF Close, At
  <2>2. g \in Process /\ g.pc = "drop" /\ Same(f, g)
    BY <1>1, Assigned, Zenon DEF Alone, Serving
  <2> HIDE DEF g
  <2>3. f.srv = "serving" /\ ~ f.resend
    BY <1>1, <1>2, Zenon DEF Local, ServerAt, Bound, Publishing, Serving
  <2>4. /\ Holds(f) /\ ~ HasRun(f) /\ ~ HasRun(g) /\ Server(g) /\ Rival(f)
        /\ ServerAt(g.pc) = ServerAt(f.pc) /\ g.pc \in Alone \ {"local", "master"}
        /\ f.pc \in Alone /\ f.pc \notin Publishing
    BY <1>2, <2>2, <2>3, Zenon DEF Same, Holds, HasRun, Serving, Leaving, Server, Rival,
       ServerAt, Alone, Bound, Publishing
  <2>5. Mild(f, g) /\ ~ f.acc /\ ~ g.acc
    BY <1>1, <2>2, <2>4, MovedMild, Zenon
  <2>6. Quiet(f, g)
    BY <2>2, <2>3, <2>4, <2>5, Zenon DEF Quiet, Same
  <2> QED BY <1>1, <2>1, <2>4, <2>6, QuietSet, Zenon
<1>3. CASE f.pc # "master"
  <2>1. Set(p, Out) /\ lock' = IF lock = p THEN None ELSE lock
    BY <1>3, Zenon DEF Close, At
  <2>2. /\ proc' \in [Procs -> Process] /\ proc'[p] = Out /\ Others(p)
        /\ \A q \in Procs \ {p} : proc'[q] = proc[q]
    BY <2>1, OutLocal, SetMoves, Zenon
  <2>3. \A q \in Procs \ {p} : ~ (proc'[q].acc /\ proc'[q].conn = p)
    <3>1. ~ Server(f)
      BY <1>1, <1>3, Zenon DEF Server, Serving
    <3> QED BY <2>2, <3>1, NoPeers, Zenon
  <2>4. Quiet(f, Out) /\ ~ Holds(Out)
    BY <1>1, OutQuiet, Zenon
  <2>5. lock' = lock \/ (lock = p /\ lock' = None /\ ~ Holds(Out))
    BY <2>1, <2>4, Zenon
  <2>6. Stored \subseteq Stored' /\ (image' \in {Absent, Empty} \/ image' \in SUBSET (1 .. MaxRequests))
    BY <1>1, Zenon DEF Stored, Formatted, TypesOK
  <2> QED BY <1>1, <2>2, <2>3, <2>4, <2>5, <2>6, QuietStep, Zenon
<1> QED BY <1>2, <1>3

\* The server stops listening.
LEMMA StopServerKeeps ==
  ASSUME IInv, NEW p \in Procs, StopServer(p)
  PROVE  IInv'
<1> DEFINE f == proc[p]
           g == [f EXCEPT !.pc = "join", !.srv = "none"]
<1>1. /\ Local(f) /\ f \in Process /\ f.retry <= retries /\ TypesOK
      /\ f.pc = "drop" /\ Reset(p, g) /\ path' = Closed(p)
      /\ UNCHANGED <<token, lock, image, binds, requests, execs, retries, kinds, acked,
                     lost, exposed>>
  BY Facts, Zenon DEF StopServer, At, Config, Image, Counters, Ghosts
<1>2. /\ g \in Process /\ g.pc = "join" /\ g.resend = f.resend /\ g.srv = "none"
      /\ g.secret = f.secret /\ g.conn = f.conn /\ g.acc = f.acc /\ g.att = f.att
      /\ g.retry = f.retry /\ g.req = f.req /\ g.box = f.box
  BY <1>1, Zenon DEF Process, Alone, Leaving
<1>3. proc' \in [Procs -> Process] /\ proc'[p] = g /\ Others(p)
  BY <1>1, <1>2, ResetMoves, Zenon
<1> HIDE DEF g
<1>4. Local(g)
  BY <1>1, <1>2, Zenon DEF Local, ServerAt, Alone, Bound, Publishing, Serving, Leaving
<1>5. /\ Holds(f) /\ (HasRun(g) <=> HasRun(f)) /\ Rival(f) /\ Server(g)
  <2>1. Rival(f)
    BY <1>1, Zenon DEF Local, Rival, ServerAt, Bound, Publishing, Serving
  <2> QED BY <1>1, <1>2, <2>1, Zenon DEF Holds, HasRun, Serving, Leaving, Server
<1>6. Quiet(f, g)
  BY <1>1, <1>2, <1>4, <1>5, Zenon DEF Quiet, Mild
<1>7. Stored \subseteq Stored' /\ (image' \in {Absent, Empty} \/ image' \in SUBSET (1 .. MaxRequests))
  BY <1>1, Zenon DEF Stored, Formatted, TypesOK
<1> QED BY <1>1, <1>2, <1>3, <1>5, <1>6, <1>7, QuietStep, Zenon

\* What a process that goes from one step of closing to the next keeps.
LEMMA LeavingMild ==
  ASSUME NEW f, Local(f), f.pc \in Leaving, f.retry <= retries,
         NEW g \in Process, Same(f, g), g.pc \in Leaving \ {"join"}
  PROVE  /\ Mild(f, g) /\ ~ f.acc /\ ~ g.acc /\ f.srv = "none" /\ g.srv = "none"
         /\ Rival(f) /\ (Holds(g) <=> f.resend) /\ Quiet(f, g)
<1>1. /\ f.pc \in Alone /\ g.pc \in Alone \ {"local", "master"}
      /\ ServerAt(g.pc) = "none" /\ ServerAt(f.pc) = "none"
  BY Zenon DEF Alone, ServerAt, Bound, Publishing, Serving, Leaving
<1>2. /\ (Holds(g) => Holds(f)) /\ (HasRun(g) <=> HasRun(f)) /\ (Holds(g) <=> f.resend)
      /\ Rival(f)
  BY Zenon DEF Same, Holds, HasRun, Serving, Leaving, Rival, Removing
<1>3. Mild(f, g) /\ ~ f.acc /\ ~ g.acc
  BY <1>1, <1>2, MovedMild, Zenon
<1>4. g.srv = "none" /\ f.srv = "none"
  BY <1>1, Zenon DEF Local, Same
<1> QED BY <1>2, <1>3, <1>4, Zenon DEF Quiet

\* Its workers have left; the image is closed unless a request kept it open.
LEMMA JoinKeeps ==
  ASSUME IInv, NEW p \in Procs, Join(p)
  PROVE  IInv'
<1> DEFINE f == proc[p]
           g == [f EXCEPT !.pc = "cleanup"]
<1>1. /\ Local(f) /\ f \in Process /\ f.retry <= retries /\ TypesOK /\ HolderOK
      /\ f.pc = "join" /\ Set(p, g) /\ Peers(p) = {}
      /\ lock' = IF f.resend THEN lock ELSE None
      /\ UNCHANGED <<path, token, image, binds, requests, execs, retries, kinds, acked,
                     lost, exposed>>
  BY Facts, Zenon DEF Join, At, Config, Rendezvous, Counters, Ghosts
<1>2. g \in Process /\ g.pc = "cleanup" /\ Same(f, g)
  BY <1>1, Assigned, Zenon DEF Alone, Leaving
<1>3. /\ proc' \in [Procs -> Process] /\ proc'[p] = g /\ Others(p)
      /\ \A q \in Procs \ {p} : proc'[q] = proc[q]
  BY <1>1, <1>2, SetMoves, Zenon
<1> HIDE DEF g
<1>4. Quiet(f, g) /\ (Holds(g) <=> f.resend)
  BY <1>1, <1>2, LeavingMild, Zenon DEF Leaving
<1>5. lock = p
  BY <1>1, Zenon DEF HolderOK, Holds
<1>6. lock' = lock \/ (lock = p /\ lock' = None /\ ~ Holds(g))
  BY <1>1, <1>4, <1>5, Zenon
<1>7. \A q \in Procs \ {p} : ~ (proc'[q].acc /\ proc'[q].conn = p)
  BY <1>1, <1>3, Zenon DEF Peers
<1>8. Stored \subseteq Stored' /\ (image' \in {Absent, Empty} \/ image' \in SUBSET (1 .. MaxRequests))
  BY <1>1, Zenon DEF Stored, Formatted, TypesOK
<1> QED BY <1>1, <1>3, <1>4, <1>6, <1>7, <1>8, QuietStep, Zenon

\* The rendezvous is removed at the end, and a request that took over returns.
LEMMA CleanupKeeps ==
  ASSUME IInv, NEW p \in Procs, Cleanup(p) \/ CleanupToken(p)
  PROVE  IInv'
<1> DEFINE f == proc[p]
           d == [Out EXCEPT !.pc = "direct"]
           t == [f EXCEPT !.pc = "cleanup_token"]
<1>1. /\ Local(f) /\ f \in Process /\ f.retry <= retries /\ retries \in Nat
      /\ TypesOK /\ StoredOK /\ f.pc \in {"cleanup", "cleanup_token"}
      /\ path' \in {path, None} /\ token' \in {token, 0}
      /\ UNCHANGED <<lock, image, binds, requests, execs, retries, kinds, lost, exposed>>
  BY Facts, Zenon DEF Cleanup, CleanupToken, At, Config, Image, Counters
<1>2. path' \in Procs \cup {None, Stale} /\ token' \in 0 .. binds
  BY <1>1 DEF TypesOK
<1>3. ~ Server(f) /\ Rival(f)
  BY <1>1, Zenon DEF Server, Serving, Rival, Removing
<1>4. ASSUME NEW g \in Process, Set(p, g), Mild(f, g), ~ g.acc, g.srv = "none",
             acked' \subseteq acked \cup Stored
      PROVE  IInv'
  <2>1. proc'[p] = g
    BY <1>4, SetMoves, Zenon
  <2>2. StepReach(p)
    BY <1>1, <1>3, <1>4, <2>1, Zenon DEF StepReach
  <2> QED BY <1>1, <1>2, <1>3, <1>4, <2>2, MovedStep, Zenon
<1>5. CASE Set(p, t) /\ UNCHANGED acked
  <2>1. t \in Process /\ t.pc = "cleanup_token" /\ Same(f, t)
    BY <1>1, Assigned, Zenon DEF Alone, Leaving
  <2> HIDE DEF t
  <2>2. Mild(f, t) /\ ~ t.acc /\ t.srv = "none"
    BY <1>1, <2>1, LeavingMild, Zenon DEF Leaving
  <2> QED BY <1>4, <1>5, <2>1, <2>2, Zenon
<1>6. CASE Left(p)
  <2>1. CASE f.resend
    <3>1. Set(p, d) /\ acked' = acked \cup {f.req}
      BY <1>6, <2>1, Zenon DEF Left
    <3>2. d \in Process /\ d.pc = "direct" /\ Same(Out, d)
      BY OutLocal, Assigned, Zenon DEF Alone
    <3> HIDE DEF d
    <3>3. /\ d.srv = "none" /\ d.secret = 0 /\ d.conn = None /\ d.acc = FALSE /\ d.retry = 0
          /\ d.resend = FALSE /\ d.req = 0 /\ d.box = "empty"
      BY <3>2, OutLocal, Zenon DEF Same, Out
    <3>4. Local(d)
      BY <3>2, <3>3, Zenon DEF Local, ServerAt, Alone, Bound, Publishing, Serving, Leaving
    <3>5. Holds(f) /\ HasRun(f) /\ ~ HasRun(d)
      BY <1>1, <2>1, <3>2, <3>3, Zenon DEF Holds, HasRun, Leaving
    <3>6. 0 <= retries
      BY <1>1
    <3>7. Mild(f, d)
      BY <3>3, <3>4, <3>5, <3>6, Zenon DEF Mild
    <3>8. acked' \subseteq acked \cup Stored
      BY <1>1, <3>1, <3>5, Zenon DEF StoredOK
    <3> QED BY <1>4, <3>1, <3>2, <3>3, <3>7, <3>8, Zenon
  <2>2. CASE ~ f.resend
    <3>1. Set(p, Out) /\ acked' = acked
      BY <1>6, <2>2, Zenon DEF Left
    <3>2. Mild(f, Out)
      BY <1>1, OutQuiet, Zenon DEF Quiet
    <3> QED BY <1>4, <3>1, <3>2, OutLocal, Zenon
  <2> QED BY <2>1, <2>2, Zenon
<1> QED BY <1>5, <1>6, Zenon DEF Cleanup, CleanupToken

\* A process dies: every connection to it ends.
LEMMA DiesKeeps ==
  ASSUME IInv, NEW p \in Procs, Dies(p)
  PROVE  IInv'
<1>1. \A q \in Procs : Local(proc[q])
  BY Facts, Zenon
<1>2. /\ path' = Closed(p) /\ lock' = IF lock = p THEN None ELSE lock
      /\ UNCHANGED <<token, image, binds, requests, execs, retries, kinds, acked, lost, exposed>>
  BY Zenon DEF Dies, Config, Ghosts
<1>3. proc' = [q \in Procs |->
         IF q = p THEN Out
         ELSE IF proc[q].conn = p THEN [proc[q] EXCEPT !.conn = Broken, !.acc = FALSE]
         ELSE proc[q]]
  BY Zenon DEF Dies
<1>4. proc'[p] = Out
  BY <1>3, Zenon
<1>5. ASSUME NEW q \in Procs \ {p}
      PROVE  \/ proc[q].conn # p /\ proc'[q] = proc[q]
             \/ /\ proc[q].conn = p
                /\ proc'[q] = [proc[q] EXCEPT !.conn = Broken, !.acc = FALSE]
  BY <1>3, Zenon
<1>6. ASSUME NEW q \in Procs \ {p}
      PROVE  LET f == proc[q]
                 g == proc'[q]
             IN  /\ g.pc = f.pc /\ g.srv = f.srv /\ g.secret = f.secret
                 /\ g.resend = f.resend /\ g.att = f.att /\ g.retry = f.retry
                 /\ g.req = f.req /\ g.box = f.box
                 /\ g.acc => f.acc /\ g.conn = f.conn
                 /\ Local(g) /\ ~ (g.acc /\ g.conn = p)
  <2>1. CASE proc[q].conn # p /\ proc'[q] = proc[q]
    BY <1>1, <2>1, Zenon
  <2>2. CASE /\ proc[q].conn = p
             /\ proc'[q] = [proc[q] EXCEPT !.conn = Broken, !.acc = FALSE]
    <3> DEFINE f == proc[q]
               g_q == [f EXCEPT !.conn = Broken, !.acc = FALSE]
    <3>1. Local(f) /\ f.conn \in Procs
      BY <1>1, <2>2, Zenon
    <3> HIDE DEF f
    <3>2. /\ Local(g_q) /\ ~ g_q.acc
          /\ g_q.pc = f.pc /\ g_q.srv = f.srv /\ g_q.secret = f.secret /\ g_q.resend = f.resend
          /\ g_q.att = f.att /\ g_q.retry = f.retry /\ g_q.req = f.req /\ g_q.box = f.box
      BY <3>1, CutKeeps, Zenon
    <3>3. proc'[q] = g_q
      BY <2>2, Zenon DEF f
    <3> HIDE DEF g_q
    <3> QED BY <3>2, <3>3, Zenon DEF f
  <2> QED BY <1>5, <2>1, <2>2, Zenon
<1>7. Others(p)
  BY <1>6, Zenon DEF Others
<1>8. proc' \in [Procs -> Process]
  <2>1. \A q \in Procs : proc'[q] \in Process
    BY <1>4, <1>6, OutLocal, Zenon DEF Local
  <2>2. proc' = [q \in Procs |-> proc'[q]]
    BY <1>3, Zenon
  <2> QED BY <2>1, <2>2, Zenon
<1>9. Quiet(proc[p], Out) /\ ~ Holds(Out) /\ Out.srv = "none"
  BY Facts, OutQuiet, OutLocal, Zenon
<1>10. lock' = lock \/ (lock = p /\ lock' = None /\ ~ Holds(Out))
  BY <1>2, <1>9, Zenon
<1>11. \A q \in Procs \ {p} : ~ (proc'[q].acc /\ proc'[q].conn = p)
  BY <1>6, Zenon
<1>12. Stored \subseteq Stored' /\ (image' \in {Absent, Empty} \/ image' \in SUBSET (1 .. MaxRequests))
  BY <1>2, Facts, Zenon DEF Stored, Formatted, TypesOK
<1> QED BY <1>2, <1>4, <1>7, <1>8, <1>9, <1>10, <1>11, <1>12, QuietStep, Zenon

-----------------------------------------------------------------------------
(* The theorems *)

\* The inductive invariant holds initially.
LEMMA IInit == Init => IInv
<1> SUFFICES ASSUME Init PROVE IInv
  OBVIOUS
<1>1. \A p \in Procs : proc[p] = Out
  BY Zenon DEF Init
<1>2. ~ Holds(Out) /\ ~ HasRun(Out)
  BY OutLocal, Zenon DEF Holds, HasRun, Serving, Leaving
<1>3. TypesOK
  <2>1. retries \in Nat /\ kinds \subseteq Kind
    BY SessionsAssumption, Zenon DEF Init
  <2>2. proc \in [Procs -> Process]
    BY OutLocal, Zenon DEF Init
  <2>3. execs \in [1 .. MaxRequests -> Nat]
    BY DEF Init
  <2>4. 0 \in 0 .. MaxRequests /\ 0 \in 0 .. 0 /\ 0 \in Nat
    BY SessionsAssumption
  <2> QED BY <2>1, <2>2, <2>3, <2>4, Zenon DEF TypesOK, Init
<1>4. LocalsOK
  <2>1. 0 <= 0 /\ 0 <= retries
    BY <1>3 DEF TypesOK
  <2> QED BY <1>1, <2>1, OutLocal, Zenon DEF Init, LocalsOK
<1>5. HolderOK /\ PeersOK /\ StoredOK /\ ReachOK
  BY <1>1, <1>2, OutLocal, Zenon DEF Init, HolderOK, PeersOK, StoredOK, ReachOK
<1>6. RunsOK
  BY <1>1, OutLocal, Zenon DEF Init, RunsOK
<1> QED BY <1>3, <1>4, <1>5, <1>6, Zenon DEF IInv

\* Every step of every process keeps it.
LEMMA INext == IInv /\ [Next]_vars => IInv'
<1> SUFFICES ASSUME IInv, [Next]_vars PROVE IInv'
  OBVIOUS
<1>1. ASSUME NEW p \in Procs, NEW kind \in kinds, StartOpen(p, kind) PROVE IInv'
  BY <1>1, StartOpenKeeps, Zenon
<1>2. ASSUME NEW p \in Procs,
             \/ RunDirect(p) \/ StartRequest(p) \/ Close(p) \/ Crash(p)
             \/ HandshakeTimeout(p) \/ Fault(p)
      PROVE  IInv'
  BY <1>2, RunDirectKeeps, StartRequestKeeps, CloseKeeps, HandshakeTimeoutKeeps, DiesKeeps,
     Zenon DEF Crash, Fault
<1>3. ASSUME NEW p \in Procs, Steps(p) PROVE IInv'
  BY <1>3, ProbeKeeps, UnlinkKeeps, BindKeeps, InUseKeeps, PublishKeeps, CreateKeeps, LockKeeps,
     ReadTokenKeeps, AuthenticateKeeps, SendKeeps, HandleKeeps, ReceiveKeeps, RunLocalKeeps,
     StopServerKeeps, JoinKeeps, CleanupKeeps, Zenon DEF Steps
<1>4. ASSUME NEW s \in Procs, NEW p \in Procs, Accept(s, p) PROVE IInv'
  BY <1>4, AcceptKeeps, Zenon
<1>5. CASE UNCHANGED vars
  BY <1>5, Zenon DEF vars, IInv, TypesOK, LocalsOK, HolderOK, PeersOK, StoredOK, RunsOK, ReachOK,
     Stored, Formatted
<1> QED BY <1>1, <1>2, <1>3, <1>4, <1>5, Zenon DEF Next

\* What the invariant says about the properties the model checker looks at.
LEMMA IInvImplies ==
  ASSUME IInv
  PROVE  TypeOK /\ OnlyTheHolderUses /\ AckedIsKept /\ MasterIsReachable /\ RunsAtMostPerAttempt
<1>1. TypesOK /\ LocalsOK /\ HolderOK /\ PeersOK /\ StoredOK /\ RunsOK /\ ReachOK
  BY Zenon DEF IInv
<1>2. TypeOK
  <2>1. \A p \in Procs : /\ proc[p].conn \in Procs \cup {None, Broken}
                         /\ proc[p].acc => proc[p].conn \in Procs
                         /\ proc[p].att \in 0 .. MaxAttempt
                         /\ proc[p].retry \in Nat /\ proc[p].retry <= retries
    BY <1>1, Zenon DEF LocalsOK, Local, Process
  <2>2. \A n \in Nat : n <= retries => n \in 0 .. retries
    BY <1>1 DEF TypesOK
  <2>3. Formatted => image \subseteq 1 .. MaxRequests
    BY <1>1, Zenon DEF TypesOK, Formatted
  <2> QED BY <1>1, <2>1, <2>2, <2>3, Zenon DEF TypesOK, TypeOK
<1>3. OnlyTheHolderUses
  <2> SUFFICES ASSUME NEW p \in Procs, Uses(p) PROVE lock = p
    BY Zenon DEF OnlyTheHolderUses
  <2>1. Peers(p) # {} => Server(proc[p])
    BY <1>1, Zenon DEF Peers, PeersOK, Server
  <2>2. Holds(proc[p])
    BY <2>1, Zenon DEF Uses, Server, Serving, Holds
  <2> QED BY <1>1, <2>2, Zenon DEF HolderOK
<1>4. AckedIsKept
  BY <1>1, Zenon DEF AckedIsKept, StoredOK, Stored
<1>5. MasterIsReachable
  <2> SUFFICES ASSUME NEW p \in Procs \ exposed, proc[p].srv = "serving"
               PROVE  path = p /\ token = proc[p].secret
    BY Zenon DEF MasterIsReachable
  <2>1. proc[p].pc \notin Publishing
    BY <1>1, Zenon DEF LocalsOK, Local, ServerAt, Bound
  <2> QED BY <1>1, <2>1, Zenon DEF ReachOK
<1>6. RunsAtMostPerAttempt
  <2> SUFFICES ASSUME NEW p \in Procs, proc[p].req # 0
               PROVE  execs[proc[p].req] <= proc[p].att + 1
    BY Zenon DEF RunsAtMostPerAttempt
  <2>1. /\ proc[p].req \in Nat /\ proc[p].att \in Nat /\ proc[p].req <= requests
        /\ requests \in 0 .. MaxRequests /\ MaxRequests \in Nat
    <3>1. /\ proc[p].req \in Nat /\ proc[p].att \in 0 .. MaxAttempt
          /\ proc[p].req <= requests /\ requests \in 0 .. MaxRequests
      BY <1>1, Zenon DEF LocalsOK, Local, Process, TypesOK
    <3> QED BY <3>1, SessionsAssumption, Counts, Zenon
  <2>2. proc[p].req \in 1 .. MaxRequests
    BY <2>1, RequestNumber, Zenon
  <2>3. execs[proc[p].req] \in Nat
    BY <1>1, <2>2, Zenon DEF TypesOK
  <2>4. execs[proc[p].req] <= proc[p].att + (IF HasRun(proc[p]) THEN 1 ELSE 0)
    BY <1>1, Zenon DEF RunsOK
  <2> QED BY <2>1, <2>3, <2>4, Counts, Zenon
<1> QED BY <1>2, <1>3, <1>4, <1>5, <1>6, Zenon

\* The inductive invariant always holds.
LEMMA IInvAlways == Spec => []IInv
BY IInit, INext, PTL DEF Spec

\* The rendezvous, the secret, the lock, the image and the processes keep their
\* types; the retries of an open and the attempts of a request stay in bounds.
THEOREM TypeCorrect == Spec => []TypeOK
BY IInvAlways, IInvImplies, PTL

\* Whoever runs on the image has its lock: a master until the last worker of its
\* server has ended, and a client that took over.
THEOREM Exclusive == Spec => []OnlyTheHolderUses
BY IInvAlways, IInvImplies, PTL

\* A request that was acknowledged stays in the image through crashes, failovers,
\* new masters and processes that find the image absent together; unless the image
\* was truncated by create_encrypted, or given a new key, with the request in it.
THEOREM Kept == Spec => []AckedIsKept
BY IInvAlways, IInvImplies, PTL

\* The rendezvous leads to a process that serves and the published secret is its
\* own, from its open to its close, when nobody else was listening or unlinking as
\* it bound and nobody has judged it dead since.  No later open, retry, failover,
\* close or crash of another process takes the rendezvous away from it.
THEOREM Reachable == Spec => []MasterIsReachable
BY IInvAlways, IInvImplies, PTL

\* A request runs at most once in each attempt of its client.
THEOREM OncePerAttempt == Spec => []RunsAtMostPerAttempt
BY IInvAlways, IInvImplies, PTL
=============================================================================
