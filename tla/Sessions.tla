------------------------------ MODULE Sessions ------------------------------
(***************************************************************************)
(* Processes that share an image.  The first to open it becomes the        *)
(* master: it binds the rendezvous (a Unix socket, or in network mode a    *)
(* file naming a TCP address), takes the lock on the image and serves the  *)
(* others, which are its clients.  A client whose connection breaks opens  *)
(* the image again, as a client of a new master or as the master itself,   *)
(* and sends its request again.                                            *)
(*                                                                         *)
(* Every step between two system calls that other processes can observe is *)
(* an action of its own.  Waiting loops (connect attempts, waiting for the *)
(* secret to appear) end at any time: either the awaited thing happened,   *)
(* or the loop gave up.  A request is a number; running it adds it to the  *)
(* image.  There is one password; every open names the same size and       *)
(* journal flag.                                                           *)
(***************************************************************************)
EXTENDS Integers, FiniteSets, FiniteSetsExt, TLC

CONSTANTS Procs,
          Setups,       \* the settings of the variables below to check
          MaxAttempt,   \* last attempt of a send (4 in the code)
          MaxOpens, MaxRequests, MaxCrashes     \* bounds on what users do

VARIABLES network,  \* whether the rendezvous is a file naming a TCP address
          limit,    \* connections a master accepts (256 in the code)
          retries,  \* retries of one open (5 in the code)
          kinds,    \* the kinds of open there are
          path,     \* the rendezvous: None, Stale, or the process bound to it
          token,    \* the published secret, 0 when there is none
          lock,     \* the process holding the lock on the image, or None
          image,    \* Absent, Empty, or the set of requests it holds
          enc,      \* whether its superblock says it is encrypted
          proc,     \* process -> where it is
          binds, opens, requests, crashes   \* counters: secrets, bounds
VARIABLES acked,    \* requests whose caller was told they succeeded
          execs,    \* request -> how often it was run
          lost,     \* requests in an image that was truncated or formatted again
          exposed   \* processes whose rendezvous another one may remove

vars == <<network, limit, retries, kinds, path, token, lock, image, enc, proc, binds, opens, requests,
          crashes, acked, execs, lost, exposed>>

CONSTANTS None, Stale, Absent, Empty, Broken

Kind == {"plain", "password", "encrypt"}

ASSUME SessionsAssumption ==
  /\ \A s \in Setups : s.retries \in Nat /\ s.kinds \subseteq Kind
  /\ MaxAttempt \in Nat /\ MaxRequests \in Nat
  /\ Procs \cap {None, Stale, Broken} = {} /\ None \notin {Stale, Broken}
  /\ Absent # Empty /\ \A S \in SUBSET (1 .. MaxRequests) : S \notin {Absent, Empty}

Out == [pc |-> "out", kind |-> "plain", srv |-> "none", secret |-> 0, conn |-> None, acc |-> FALSE,
        cred |-> 0, retry |-> 0, resend |-> FALSE, att |-> 0, exists |-> FALSE,
        second |-> FALSE, req |-> 0, box |-> "empty"]

Init ==
  /\ \E s \in Setups : /\ network = s.network /\ limit = s.limit
                      /\ retries = s.retries /\ kinds = s.kinds
  /\ path = None /\ token = 0 /\ lock = None /\ image = Absent /\ enc = FALSE
  /\ proc = [p \in Procs |-> Out]
  /\ binds = 0 /\ opens = 0 /\ requests = 0 /\ crashes = 0
  /\ acked = {} /\ execs = [r \in 1 .. MaxRequests |-> 0]
  /\ lost = {} /\ exposed = {}

At(p, pc) == proc[p].pc = pc
Set(p, f) == proc' = [proc EXCEPT ![p] = f]

Config == <<network, limit, retries, kinds>>
Rendezvous == <<path, token>>
Image == <<lock, image, enc>>
Counters == <<binds, opens, requests, crashes>>
Ghosts == <<acked, execs, lost, exposed>>

Formatted == image \notin {Absent, Empty}

-----------------------------------------------------------------------------
(* Opening: bind_or_connect *)

StartOpen(p, kind) ==
  /\ At(p, "out") /\ opens < MaxOpens
  /\ opens' = opens + 1
  /\ Set(p, [Out EXCEPT !.pc = "probe", !.kind = kind])
  /\ UNCHANGED <<Config, Rendezvous, Image, binds, requests, crashes, Ghosts>>

\* The connections a master has accepted.
Peers(s) == {q \in Procs : proc[q].conn = s /\ proc[q].acc}

\* A listener takes connections before its owner serves them; in network mode
\* its address is known once the file is written.  The first probe of network
\* mode also wants an answer to a ping, which a master at its limit refuses.
Listens(s) ==
  /\ s \in Procs /\ proc[s].srv \in {"bound", "serving"}
  /\ network => token = proc[s].secret
Answers(s) ==
  Listens(s) /\ (network => proc[s].srv = "serving" /\ Cardinality(Peers(s)) < limit)

\* Connected, but not yet accepted by the master's server thread.
Connected(f, s) == [f EXCEPT !.pc = "token", !.conn = s, !.acc = FALSE, !.box = "empty"]

\* Nothing there: bind.  Something answers: connect.  Else it counts as stale;
\* so does, in network mode, a master that is too slow to answer the ping.
Probe(p) ==
  LET f == [proc[p] EXCEPT !.second = FALSE]
  IN  /\ At(p, "probe")
      /\ \/ path = None /\ Set(p, [f EXCEPT !.pc = "bind"]) /\ UNCHANGED exposed
         \/ Answers(path) /\ Set(p, Connected(f, path)) /\ UNCHANGED exposed
         \/ /\ path # None /\ (Answers(path) => network)
            /\ Set(p, [f EXCEPT !.pc = "unlink"])
            /\ exposed' = exposed \cup ({path} \cap Procs)
      /\ UNCHANGED <<Config, Rendezvous, Image, Counters, acked, execs, lost>>

\* The path is removed, whoever is bound to it by now; then, in local mode, the
\* secret.  In network mode the file holds both.
Unlink(p) ==
  /\ At(p, "unlink")
  /\ path' = None
  /\ token' = IF network THEN 0 ELSE token
  /\ Set(p, [proc[p] EXCEPT !.pc = IF network THEN "bind" ELSE "unlink_token"])
  /\ UNCHANGED <<Config, Image, Counters, Ghosts>>

UnlinkToken(p) ==
  /\ At(p, "unlink_token")
  /\ token' = 0
  /\ Set(p, [proc[p] EXCEPT !.pc = "bind"])
  /\ UNCHANGED <<Config, path, Image, Counters, Ghosts>>

\* What an open that ended leaves of its arguments and variables: the
\* password, for requests that open again; they do not create the image.
Settled(f) ==
  [f EXCEPT !.kind = IF @ = "encrypt" THEN "password" ELSE @,
            !.retry = 0, !.exists = FALSE, !.second = FALSE, !.cred = 0]

\* An open that failed is given up (an open returns an error, a request goes on
\* to its next attempt with the connection it had), or starts over.
GivenUp(f) ==
  IF f.resend
  THEN [Settled(f) EXCEPT !.pc = "send", !.srv = "none", !.conn = Broken, !.acc = FALSE,
                         !.secret = 0]
  ELSE Out
Again(f) ==
  IF f.retry < retries
  THEN [f EXCEPT !.pc = "probe", !.retry = @ + 1, !.srv = "none", !.conn = None,
                 !.acc = FALSE, !.secret = 0]
  ELSE GivenUp(f)

\* Who may still remove or overwrite a rendezvous that p is about to bind: a
\* process with a listener of its own, or one about to unlink.
Removing == {"unlink", "unlink_token", "join", "cleanup", "cleanup_token"}
Rivals(p) == {q \in Procs \ {p} : proc[q].srv # "none" \/ proc[q].pc \in Removing}

\* Mutant: the path is bound over whatever is there.
Bind_Replaces(p) ==
  /\ At(p, "bind")
  /\ path' = p /\ binds' = binds + 1
  /\ Set(p, [proc[p] EXCEPT !.pc = "publish", !.srv = "bound", !.secret = binds + 1])
  /\ exposed' = IF Rivals(p) = {} THEN exposed \ {p} ELSE exposed \cup {p}
  /\ UNCHANGED <<Config, token, Image, opens, requests, crashes, acked, execs, lost>>

Bind(p) ==
  LET f == proc[p]
  IN  /\ At(p, "bind")
      /\ \/ /\ path = None
            /\ path' = p /\ binds' = binds + 1
            /\ Set(p, [f EXCEPT !.pc = "publish", !.srv = "bound", !.secret = binds + 1])
            /\ exposed' = IF Rivals(p) = {} THEN exposed \ {p} ELSE exposed \cup {p}
         \/ /\ path # None
            /\ UNCHANGED <<path, binds, exposed>>
            /\ Set(p, [f EXCEPT !.pc = "in_use"])
      /\ UNCHANGED <<Config, token, Image, opens, requests, crashes, acked, execs, lost>>

\* Another process bound first: connect to it.  When that fails, local mode
\* removes the path and binds once more; a second failure is an error.
InUse(p) ==
  /\ At(p, "in_use")
  /\ \/ Listens(path) /\ Set(p, Connected(proc[p], path))
     \/ /\ ~Listens(path)
        /\ Set(p, IF network \/ proc[p].second THEN Again(proc[p])
                  ELSE [proc[p] EXCEPT !.pc = "unlink", !.second = TRUE])
  /\ UNCHANGED <<Config, Rendezvous, Image, Counters, Ghosts>>

\* A path whose listener is closed stays behind; the connections nobody has
\* accepted yet are reset.
Closed(p) == IF path = p THEN Stale ELSE path

Reset(p, f) ==
  proc' = [q \in Procs |->
    IF q = p THEN f
    ELSE IF proc[q].conn = p /\ ~proc[q].acc THEN [proc[q] EXCEPT !.conn = Broken]
    ELSE proc[q]]

\* The secret.  In network mode it is written to the file that was bound, which
\* may have been unlinked since.  In local mode a secret found is removed, and
\* the new file must not exist: when it does, the listener is dropped.
Publish(p) ==
  /\ At(p, "publish")
  /\ token' = IF ~network THEN 0 ELSE IF path = p THEN proc[p].secret ELSE token
  /\ Set(p, [proc[p] EXCEPT !.pc = IF network THEN "exists" ELSE "publish_new"])
  /\ UNCHANGED <<Config, path, Image, Counters, Ghosts>>

PublishNew(p) ==
  /\ At(p, "publish_new")
  /\ \/ /\ token = 0
        /\ token' = proc[p].secret
        /\ Set(p, [proc[p] EXCEPT !.pc = "exists"]) /\ UNCHANGED path
     \/ /\ token # 0
        /\ Reset(p, Again(proc[p])) /\ path' = Closed(p) /\ UNCHANGED token
  /\ UNCHANGED <<Config, Image, Counters, Ghosts>>

-----------------------------------------------------------------------------
(* Opening the image as master: init_or_open_with_key *)

Exists(p) ==
  /\ At(p, "exists")
  /\ Set(p, [proc[p] EXCEPT !.pc = "create", !.exists = image # Absent])
  /\ UNCHANGED <<Config, Rendezvous, Image, Counters, Ghosts>>

\* The file is opened, and created; to make an encrypted image it is truncated
\* as well, before the lock is asked for.
Create(p) ==
  LET truncate == proc[p].kind = "encrypt"
  IN  /\ At(p, "create")
      /\ image' = IF image = Absent \/ truncate THEN Empty ELSE image
      /\ lost' = IF truncate /\ Formatted THEN lost \cup image ELSE lost
      /\ Set(p, [proc[p] EXCEPT !.pc = "lock"])
      /\ UNCHANGED <<Config, Rendezvous, lock, enc, Counters, acked, execs, exposed>>

\* The lock is free.  A new image is formatted.  One that another process has
\* formatted meanwhile gets a new superblock, under which only plain contents
\* can be read as before, and the open then fails for want of the root inode.
\* An old image is mounted, if it is one and the password it needs is there.
Formats(f) == ~f.exists \/ f.kind = "encrypt"
Rekeyed(f) == Formatted /\ Formats(f) /\ (enc \/ f.kind = "encrypt")
Opens(f) == IF Formats(f) THEN image = Empty
            ELSE Formatted /\ (enc => f.kind = "password")

Lock(p) ==
  LET f == proc[p]
      served == [Settled(f) EXCEPT !.srv = "serving",
                                   !.pc = IF f.resend THEN "local" ELSE "master"]
  IN  /\ At(p, "lock")
      /\ \/ /\ lock # None
            /\ Reset(p, Again(f)) /\ path' = Closed(p) /\ UNCHANGED <<Image, lost>>
         \/ /\ lock = None
            /\ enc' = IF Formats(f) THEN f.kind = "encrypt" ELSE enc
            /\ image' = IF Rekeyed(f) \/ (Formats(f) /\ image = Empty) THEN {} ELSE image
            /\ lost' = IF Rekeyed(f) THEN lost \cup image ELSE lost
            /\ \/ Opens(f) /\ lock' = p /\ Set(p, served) /\ UNCHANGED path
               \/ ~Opens(f) /\ Reset(p, GivenUp(f)) /\ path' = Closed(p) /\ UNCHANGED lock
      /\ UNCHANGED <<Config, token, Counters, acked, execs, exposed>>

-----------------------------------------------------------------------------
(* Opening as client, and the master's side of a connection *)

ReadToken(p) ==
  /\ At(p, "token")
  /\ Set(p, [proc[p] EXCEPT !.pc = "auth", !.cred = token])
  /\ UNCHANGED <<Config, Rendezvous, Image, Counters, Ghosts>>

\* The server thread accepts a connection; over the limit it is shut down.
Accept(s, p) ==
  /\ proc[s].srv = "serving" /\ proc[p].conn = s /\ ~proc[p].acc
  /\ Set(p, IF Cardinality(Peers(s)) < limit THEN [proc[p] EXCEPT !.acc = TRUE]
            ELSE [proc[p] EXCEPT !.conn = Broken])
  /\ UNCHANGED <<Config, Rendezvous, Image, Counters, Ghosts>>

\* A peer that takes too long over the handshake is dropped.
HandshakeTimeout(p) ==
  /\ proc[p].acc /\ proc[p].pc \in {"token", "auth"}
  /\ Set(p, [proc[p] EXCEPT !.conn = Broken, !.acc = FALSE])
  /\ UNCHANGED <<Config, Rendezvous, Image, Counters, Ghosts>>

\* The handshake, or the end of the connection before it.  An encrypted image
\* takes the password and a plain one the secret; a client with the other one
\* gives up, one with a wrong secret tries again.
Authenticate(p) ==
  LET f == proc[p]
      known == enc \/ f.cred = proc[f.conn].secret
  IN  /\ At(p, "auth")
      /\ f.acc \/ f.conn = Broken
      /\ Set(p, IF f.conn = Broken THEN Again(f)
                ELSE IF enc # (f.kind # "plain") THEN GivenUp(f)
                ELSE IF known
                THEN [Settled(f) EXCEPT !.pc = IF f.resend THEN "send" ELSE "client"]
                ELSE Again(f))
      /\ UNCHANGED <<Config, Rendezvous, Image, Counters, Ghosts>>

-----------------------------------------------------------------------------
(* Requests *)

Run(r) ==
  Formatted /\ image' = image \cup {r} /\ execs' = [execs EXCEPT ![r] = @ + 1]

\* A direct session (the master, or a client that took over) runs its own.
RunDirect(p) ==
  /\ proc[p].pc \in {"master", "direct"} /\ requests < MaxRequests
  /\ requests' = requests + 1
  /\ Run(requests + 1) /\ acked' = acked \cup {requests + 1}
  /\ UNCHANGED <<Config, Rendezvous, lock, enc, proc, binds, opens, crashes, lost, exposed>>

StartRequest(p) ==
  /\ At(p, "client") /\ requests < MaxRequests
  /\ requests' = requests + 1
  /\ Set(p, [proc[p] EXCEPT !.pc = "send", !.req = requests + 1, !.att = 0])
  /\ UNCHANGED <<Config, Rendezvous, Image, binds, opens, crashes, Ghosts>>

\* Mutant: the attempts are not counted.
Reopened_NotCounted(f) ==
  [f EXCEPT !.pc = "probe", !.retry = 0, !.resend = TRUE,
            !.conn = None, !.acc = FALSE, !.box = "empty"]

\* Mutant: one attempt too many.
Reopened_OneMore(f) ==
  IF f.att > MaxAttempt THEN [f EXCEPT !.pc = "client", !.req = 0, !.att = 0, !.resend = FALSE, !.conn = Broken]
  ELSE [f EXCEPT !.pc = "probe", !.att = @ + 1, !.retry = 0, !.resend = TRUE,
                 !.conn = None, !.acc = FALSE, !.box = "empty"]

\* One attempt: the request is written, or the connection is found broken and
\* the session is opened again; the last attempt returns the error.
Reopened(f) ==
  IF f.att = MaxAttempt THEN [f EXCEPT !.pc = "client", !.req = 0, !.att = 0, !.resend = FALSE, !.conn = Broken]
  ELSE [f EXCEPT !.pc = "probe", !.att = @ + 1, !.retry = 0, !.resend = TRUE,
                 !.conn = None, !.acc = FALSE, !.box = "empty"]

Send(p) ==
  LET f == proc[p]
  IN  /\ At(p, "send")
      /\ Set(p, IF f.conn = Broken THEN Reopened(f)
                ELSE [f EXCEPT !.pc = "wait", !.box = "request"])
      /\ UNCHANGED <<Config, Rendezvous, Image, Counters, Ghosts>>

\* The connection's worker runs the request and answers.
Handle(p) ==
  LET f == proc[p]
  IN  /\ f.box = "request" /\ f.conn \in Procs /\ f.acc
      /\ Run(f.req)
      /\ Set(p, [f EXCEPT !.box = "reply"])
      /\ UNCHANGED <<Config, Rendezvous, lock, enc, Counters, acked, lost, exposed>>

\* Mutant: a connection that ends without an answer counts as one.
Receive_EofIsDone(p) ==
  LET f == proc[p]
      done == [f EXCEPT !.pc = "client", !.req = 0, !.att = 0, !.box = "empty",
                        !.resend = FALSE]
  IN  /\ At(p, "wait")
      /\ f.box = "reply" \/ f.conn = Broken
      /\ acked' = acked \cup {f.req}
      /\ Set(p, IF f.resend THEN [done EXCEPT !.conn = Broken, !.acc = FALSE] ELSE done)
      /\ UNCHANGED <<Config, Rendezvous, Image, Counters, execs, lost, exposed>>

\* The answer is returned.  A connection made for this request is dropped; the
\* session keeps its first connection, which is the broken one.
Receive(p) ==
  LET f == proc[p]
      done == [f EXCEPT !.pc = "client", !.req = 0, !.att = 0, !.box = "empty",
                        !.resend = FALSE]
  IN  /\ At(p, "wait")
      /\ \/ /\ f.box = "reply" /\ f.conn # Broken
            /\ acked' = acked \cup {f.req}
            /\ Set(p, IF f.resend THEN [done EXCEPT !.conn = Broken, !.acc = FALSE] ELSE done)
         \/ /\ f.conn = Broken
            /\ UNCHANGED acked
            /\ Set(p, Reopened(f))
      /\ UNCHANGED <<Config, Rendezvous, Image, Counters, execs, lost, exposed>>

\* The client became the master: it runs the request itself, keeps the image
\* open, and drops the server it just started before the call returns.
RunLocal(p) ==
  /\ At(p, "local")
  /\ Run(proc[p].req)
  /\ Set(p, [proc[p] EXCEPT !.pc = "drop"])
  /\ UNCHANGED <<Config, Rendezvous, lock, enc, Counters, acked, lost, exposed>>

-----------------------------------------------------------------------------
(* Closing *)

\* A client's connection ends with its session; so does the worker at the
\* other end.
Close(p) ==
  /\ proc[p].pc \in {"client", "master", "direct"}
  /\ IF At(p, "master") THEN Set(p, [proc[p] EXCEPT !.pc = "drop"]) /\ UNCHANGED lock
     ELSE Set(p, Out) /\ lock' = IF lock = p THEN None ELSE lock
  /\ UNCHANGED <<Config, Rendezvous, image, enc, Counters, Ghosts>>

\* The server is told to stop, and stops listening.
StopServer(p) ==
  /\ At(p, "drop")
  /\ path' = Closed(p)
  /\ Reset(p, [proc[p] EXCEPT !.pc = "join", !.srv = "none"])
  /\ UNCHANGED <<Config, token, Image, Counters, Ghosts>>

\* Mutant: the workers are not joined.
Join_NoWait(p) ==
  /\ At(p, "join")
  /\ lock' = IF proc[p].resend THEN lock ELSE None
  /\ Set(p, [proc[p] EXCEPT !.pc = "cleanup"])
  /\ UNCHANGED <<Config, Rendezvous, image, enc, Counters, Ghosts>>

\* Its workers are joined, each of which lasts as long as its peer stays.  Then
\* the last reference to the image goes, unless a request kept one.
Join(p) ==
  /\ At(p, "join") /\ Peers(p) = {}
  /\ lock' = IF proc[p].resend THEN lock ELSE None
  /\ Set(p, [proc[p] EXCEPT !.pc = "cleanup"])
  /\ UNCHANGED <<Config, Rendezvous, image, enc, Counters, Ghosts>>

\* The path is removed, whoever it belongs to by now; then, in local mode, the
\* secret.  A request that took over returns.
Left(p) ==
  IF proc[p].resend
  THEN Set(p, [Out EXCEPT !.pc = "direct"]) /\ acked' = acked \cup {proc[p].req}
  ELSE Set(p, Out) /\ UNCHANGED acked

Cleanup(p) ==
  /\ At(p, "cleanup")
  /\ path' = None
  /\ IF network THEN token' = 0 /\ Left(p)
     ELSE Set(p, [proc[p] EXCEPT !.pc = "cleanup_token"]) /\ UNCHANGED <<token, acked>>
  /\ UNCHANGED <<Config, Image, Counters, execs, lost, exposed>>

CleanupToken(p) ==
  /\ At(p, "cleanup_token")
  /\ token' = 0 /\ Left(p)
  /\ UNCHANGED <<Config, path, Image, Counters, execs, lost, exposed>>

\* A process dies: the system closes its descriptors and drops its lock.
Dies(p) ==
  /\ path' = Closed(p)
  /\ lock' = IF lock = p THEN None ELSE lock
  /\ proc' = [q \in Procs |->
       IF q = p THEN Out
       ELSE IF proc[q].conn = p THEN [proc[q] EXCEPT !.conn = Broken, !.acc = FALSE]
       ELSE proc[q]]
  /\ UNCHANGED <<Config, token, image, enc, binds, opens, requests, Ghosts>>

Crash(p) ==
  /\ crashes < MaxCrashes /\ ~At(p, "out")
  /\ crashes' = crashes + 1
  /\ Dies(p)

\* The mapping of an image that was truncated: running a request touches pages
\* behind the end of the file, and the system ends the process.
Fault(p) ==
  /\ lock = p /\ ~Formatted
  /\ \/ proc[p].pc \in {"master", "direct", "local"}
     \/ \E q \in Peers(p) : proc[q].box = "request"
  /\ Dies(p) /\ UNCHANGED crashes

-----------------------------------------------------------------------------

\* What a process does by itself once a call is under way.
Steps(p) ==
  \/ Probe(p) \/ Unlink(p) \/ UnlinkToken(p) \/ Bind(p) \/ InUse(p)
  \/ Publish(p) \/ PublishNew(p) \/ Exists(p) \/ Create(p) \/ Lock(p) \/ ReadToken(p) \/ Authenticate(p)
  \/ Send(p) \/ Handle(p) \/ Receive(p) \/ RunLocal(p)
  \/ StopServer(p) \/ Join(p) \/ Cleanup(p) \/ CleanupToken(p)

Next ==
  \/ \E p \in Procs : \E kind \in kinds : StartOpen(p, kind)
  \/ \E p \in Procs : RunDirect(p) \/ StartRequest(p) \/ Close(p) \/ Crash(p)
  \/ \E p \in Procs : HandshakeTimeout(p) \/ Fault(p)
  \/ \E p \in Procs : Steps(p)
  \/ \E s, p \in Procs : Accept(s, p)

\* Threads that can run do run; nothing makes a user open, close or ask.
Fairness == \A p \in Procs : WF_vars(Steps(p)) /\ \A s \in Procs : WF_vars(Accept(s, p))

Spec == Init /\ [][Next]_vars /\ Fairness

-----------------------------------------------------------------------------

TypeOK ==
  /\ path \in Procs \cup {None, Stale} /\ token \in 0 .. binds
  /\ lock \in Procs \cup {None}
  /\ Formatted => image \subseteq 1 .. MaxRequests
  /\ \A p \in Procs : /\ proc[p].conn \in Procs \cup {None, Broken}
                      /\ proc[p].acc => proc[p].conn \in Procs
                      /\ proc[p].att \in 0 .. MaxAttempt /\ proc[p].retry \in 0 .. retries

\* Whoever touches the image holds its lock: the master, its workers until the
\* last of them has left, and a client that took over.
Uses(p) == proc[p].pc \in {"master", "direct", "local", "drop", "join"} \/ Peers(p) # {}
OnlyTheHolderUses == \A p \in Procs : Uses(p) => lock = p

\* A request whose caller was told it succeeded is in the image, through
\* crashes, failovers, closings, new masters and processes that all find the
\* image absent; unless a create_encrypted call truncated the image with the
\* request in it, or the superblock was written anew over encrypted contents.
AckedIsKept == acked \subseteq lost \cup (IF Formatted THEN image ELSE {})

\* A process that serves can be reached: the rendezvous leads to it and the
\* secret published is its own, for as long as it serves; if, when it bound,
\* no other process was listening or about to unlink, and none has since taken
\* it for dead.  Nothing that starts later can take the rendezvous from it.
MasterIsReachable ==
  \A p \in Procs \ exposed :
    proc[p].srv = "serving" => path = p /\ token = proc[p].secret

\* Not so in the code, and not checked: whoever serves can be reached.
EveryMasterIsReachable ==
  \A p \in Procs : proc[p].srv = "serving" => path = p /\ token = proc[p].secret

\* Nor this: the image is not truncated while a process uses it.
HolderKeepsItsImage == \A p \in Procs : Uses(p) => Formatted

\* A request is run again only by an attempt that follows a broken connection:
\* never more often than it was attempted.
RunsAtMostPerAttempt ==
  \A p \in Procs : proc[p].req # 0 => execs[proc[p].req] <= proc[p].att + 1

\* A request ends, with an answer or an error, also when the master exits while
\* it is under way.
Asking(p) == proc[p].req # 0
RequestsReturn == \A p \in Procs : Asking(p) ~> ~Asking(p)
=============================================================================
