------------------------- MODULE RuntimeCredentials -------------------------
(***************************************************************************)
(* The client certificate of a Runtime worker: the RuntimeCredentialManager*)
(* that obtains and stores it, the HTTP client that all requests share and *)
(* the WebSocket connects that load it, and the start of the worker after  *)
(* a crash.  Certificates are numbered in the order they are issued; the   *)
(* numbers up to `due` are to be renewed, those up to `expired` are        *)
(* rejected by the server.  0 stands for no certificate.                   *)
(***************************************************************************)
EXTENDS Integers, FiniteSets

CONSTANTS
  Requests,     \* tasks that make requests on the shared HTTP client
  Connects,     \* tasks that open a WebSocket, each with a context of its own
  Renewer,      \* the renew loop
  Setup,        \* _setup_transport
  NoTask,
  MaxTicks,     \* bound: how many certificates fall due, and expire
  MaxFailures,  \* bound: failed POSTs, failed writes, TLS failures for no reason
  MaxCancels,   \* bound: requests and connects that are cancelled
  MaxStarts     \* bound: starts of the process

ASSUME CredentialsAssumption ==
  /\ {MaxTicks, MaxFailures, MaxCancels, MaxStarts} \subseteq Nat
  /\ NoTask \notin Requests \cup Connects \cup {Renewer, Setup}
  /\ Requests \cap Connects = {} /\ Renewer # Setup
  /\ {Renewer, Setup} \cap (Requests \cup Connects) = {}

Tasks == Requests \cup Connects \cup {Renewer, Setup}

VARIABLES
  up,        \* the process: "down", "opening" (run has not set up), "running"
  files,     \* the certificate in each file of data_dir
  disk,      \* _disk: the certificate that the manager knows of
  lock,      \* _lock
  writing,   \* the threads of _persist: their certificate, files written
  pc, force, \* each task, and the argument of its ensure
  got,       \* the certificate that the task was issued, 0 if none
  sent,      \* the client and certificate its request is sent with
  client,    \* _client and the certificate of its TLS context
  closed,    \* the clients that were closed
  issued, due, expired,
  orphaned,  \* history: a renewal was cancelled while it was written
  abandoned, \* history: a request was cancelled while it closed the client
  failures, cancels, starts

disks == <<files, disk, writing, issued>>
clients == <<client, closed>>
time == <<due, expired>>
bounds == <<failures, cancels, starts>>
history == <<orphaned, abandoned>>
vars == <<up, disks, lock, pc, force, got, sent, clients, time, history, bounds>>

\* Mutant: the new certificate is put in place before the JSON that knows of it.
FileCertFirst == <<"cert", "ca", "json">>

\* The order in which _persist replaces them.  The key file, the second of
\* four, is left out: it is written whenever the JSON is and never changes.
File == <<"json", "cert", "ca">>
Files == {"json", "cert", "ca"}
None == [client |-> 0, cert |-> 0]

TypeOK ==
  /\ up \in {"down", "opening", "running"}
  /\ files \in [Files -> 0..issued]
  /\ disk \in 0..issued
  /\ lock \in Tasks \cup {NoTask}
  /\ writing \subseteq [cert : 1..issued, wrote : 0..2]
  /\ pc \in [Tasks -> {"idle", "wants", "posting", "writing", "sending", "closing", "resending"}]
  /\ force \in [Tasks -> BOOLEAN]
  /\ got \in [Tasks -> 0..issued]
  /\ sent \in [Tasks -> [client : 0..client.client, cert : 0..issued]]
  /\ client \in [client : Nat, cert : 0..issued] /\ closed \subseteq 1..client.client
  /\ expired \in 0..due /\ due \in 0..issued
  /\ orphaned \in BOOLEAN /\ abandoned \in BOOLEAN
  /\ failures \in 0..MaxFailures /\ cancels \in 0..MaxCancels /\ starts \in 0..MaxStarts
  /\ lock = NoTask <=> \A t \in Tasks : pc[t] \notin {"posting", "writing"}

\* A data_dir in which open() has bound the node to its key, and no more.
Init ==
  /\ up = "down"
  /\ files = [f \in Files |-> 0] /\ disk = 0 /\ writing = {} /\ issued = 0
  /\ lock = NoTask
  /\ pc = [t \in Tasks |-> "idle"] /\ force = [t \in Tasks |-> FALSE]
  /\ got = [t \in Tasks |-> 0] /\ sent = [t \in Tasks |-> None]
  /\ client = None /\ closed = {}
  /\ due = 0 /\ expired = 0
  /\ orphaned = FALSE /\ abandoned = FALSE
  /\ failures = 0 /\ cancels = 0 /\ starts = 0

-----------------------------------------------------------------------------
NeedsRenewal == disk <= due
IsOpen == client.client \notin closed

Goes(t, label) == pc' = [pc EXCEPT ![t] = label]
Fails == failures < MaxFailures /\ failures' = failures + 1 /\ UNCHANGED <<cancels, starts>>

\* The task is back in its loop, with or without success.
Ends(t) ==
  /\ Goes(t, "idle")
  /\ force' = [force EXCEPT ![t] = FALSE]
  /\ got' = [got EXCEPT ![t] = 0] /\ sent' = [sent EXCEPT ![t] = None]

\* An exception; that of the setup ends the start of the worker.
Raises(t) ==
  /\ Ends(t)
  /\ up' = IF t = Setup THEN "down" ELSE up

Sends(t, c, label) ==
  /\ Goes(t, label) /\ sent' = [sent EXCEPT ![t] = c]
  /\ got' = IF force[t] THEN got ELSE [got EXCEPT ![t] = 0]
  /\ UNCHANGED <<up, force>>

\* build_runtime_ssl_context reads the files and raises when one is missing.
Loadable == files["cert"] # 0 /\ files["ca"] # 0

\* Mutant: the client that is closed is not replaced.
ReplacesNothing(t, label) ==
  IF ~Loadable
  THEN Raises(t) /\ UNCHANGED clients
  ELSE Sends(t, client, label) /\ UNCHANGED clients

\* self._client = AsyncClient(build_runtime_ssl_context(mtls))
Replaces(t, label) ==
  IF ~Loadable
  THEN Raises(t) /\ UNCHANGED clients
  ELSE LET new == [client |-> client.client + 1, cert |-> files["cert"]]
       IN  client' = new /\ UNCHANGED closed /\ Sends(t, new, label)

\* What comes after ensure(), up to the next await.
RequestGoesOn(t) ==
  CASE ~force[t] /\ IsOpen -> Sends(t, client, "sending") /\ UNCHANGED clients
    [] ~force[t] /\ ~IsOpen -> Raises(t) /\ UNCHANGED clients
    [] force[t] /\ IsOpen ->
         /\ closed' = closed \cup {client.client}
         /\ Goes(t, "closing") /\ UNCHANGED <<up, force, got, sent, client>>
    [] force[t] /\ ~IsOpen -> Replaces(t, "resending")

ConnectGoesOn(t) ==
  /\ UNCHANGED clients
  /\ IF ~Loadable
     THEN Raises(t)
     ELSE Sends(t, [client |-> 0, cert |-> files["cert"]],
                IF force[t] THEN "resending" ELSE "sending")

\* manager.mtls raises when nothing was issued; the HTTP client is built.
SetupGoesOn ==
  IF disk = 0 \/ ~Loadable
  THEN Raises(Setup) /\ UNCHANGED clients
  ELSE /\ client' = [client |-> client.client + 1, cert |-> files["cert"]]
       /\ up' = "running" /\ Ends(Setup) /\ UNCHANGED closed

GoesOn(t) ==
  CASE t \in Requests -> RequestGoesOn(t)
    [] t \in Connects -> ConnectGoesOn(t)
    [] t = Setup -> SetupGoesOn
    [] t = Renewer -> Ends(t) /\ UNCHANGED <<up, clients>>

-----------------------------------------------------------------------------
(* ensure *)

\* A request, a connect, the renew loop when the certificate falls due.
Begin(t) ==
  /\ up = "running" /\ pc[t] = "idle" /\ t # Setup
  /\ t = Renewer => NeedsRenewal
  /\ Goes(t, "wants")
  /\ UNCHANGED <<up, disks, lock, force, got, sent, clients, time, history, bounds>>

\* `async with self._lock`; nothing to renew: it is released at once.
Ensured(t) ==
  /\ pc[t] = "wants" /\ lock = NoTask
  /\ ~force[t] /\ ~NeedsRenewal
  /\ GoesOn(t)
  /\ UNCHANGED <<disks, lock, time, history, bounds>>

Issue(t) ==
  /\ pc[t] = "wants" /\ lock = NoTask
  /\ force[t] \/ NeedsRenewal
  /\ lock' = t /\ Goes(t, "posting")
  /\ UNCHANGED <<up, disks, force, got, sent, clients, time, history, bounds>>

\* Mutant: ensure() does not wait for the thread.
IssuedUnsaved(t) ==
  /\ pc[t] = "posting"
  /\ issued' = issued + 1 /\ disk' = issued'
  /\ writing' = writing \cup {[cert |-> issued', wrote |-> 0]}
  /\ lock' = NoTask
  /\ IF t \in Requests /\ force[t] /\ IsOpen
     THEN /\ closed' = closed \cup {client.client} /\ Goes(t, "closing")
          /\ got' = [got EXCEPT ![t] = issued']
          /\ UNCHANGED <<up, force, sent, client>>
     ELSE GoesOn(t)
  /\ UNCHANGED <<files, time, history, bounds>>

\* The endpoint answers: memory knows the certificate before any file does.
Issued(t) ==
  /\ pc[t] = "posting"
  /\ issued' = issued + 1 /\ disk' = issued'
  /\ got' = [got EXCEPT ![t] = issued']
  /\ writing' = writing \cup {[cert |-> issued', wrote |-> 0]}
  /\ Goes(t, "writing")
  /\ UNCHANGED <<up, files, lock, force, sent, clients, time, history, bounds>>

\* Mutant: a failed POST does not give the lock back.
IssueFailsLocked(t) ==
  /\ pc[t] = "posting" /\ Fails
  /\ Raises(t)
  /\ UNCHANGED <<disks, lock, clients, time, history>>

IssueFails(t) ==
  /\ pc[t] = "posting" /\ Fails
  /\ lock' = NoTask /\ Raises(t)
  /\ UNCHANGED <<disks, clients, time, history>>

\* _persist runs in a thread; os.replace makes a file whole or not there.
Write(w) ==
  LET more == [w EXCEPT !.wrote = @ + 1]
  IN  /\ files' = [files EXCEPT ![File[more.wrote]] = w.cert]
      /\ writing' = (writing \ {w}) \cup IF more.wrote < 3 THEN {more} ELSE {}
      /\ UNCHANGED <<up, disk, issued, lock, pc, force, got, sent, clients, time, history, bounds>>

Waits(t, w) == pc[t] = "writing" /\ got[t] = w.cert

WriteFails(w) ==
  /\ Fails
  /\ writing' = writing \ {w}
  /\ UNCHANGED <<files, disk, issued, clients, time, history>>
  /\ \/ \E t \in Tasks : Waits(t, w) /\ lock' = NoTask /\ Raises(t)
     \/ /\ ~\E t \in Tasks : Waits(t, w)
        /\ UNCHANGED <<up, lock, pc, force, got, sent>>

\* The thread has ended and the task that waits for it goes on.
Persisted(t) ==
  /\ pc[t] = "writing" /\ ~\E w \in writing : Waits(t, w)
  /\ lock' = NoTask
  /\ GoesOn(t)
  /\ UNCHANGED <<disks, time, history, bounds>>

-----------------------------------------------------------------------------
(* A request or a connect *)

Sent(t) == pc[t] \in {"sending", "resending"}

Answered(t) ==
  /\ Sent(t) /\ sent[t].cert > expired
  /\ Ends(t)
  /\ UNCHANGED <<up, disks, lock, clients, time, history, bounds>>

\* Another task closed the client under the request: no TLS failure.
Killed(t) ==
  /\ Sent(t) /\ sent[t].client \in closed
  /\ Ends(t)
  /\ UNCHANGED <<up, disks, lock, clients, time, history, bounds>>

\* The certificate is rejected, or the connection fails with an error that
\* _credential_tls_failure takes for that.
Rejected(t) ==
  /\ Sent(t)
  /\ IF sent[t].cert <= expired THEN UNCHANGED bounds ELSE Fails
  /\ IF pc[t] = "sending"
     THEN /\ force' = [force EXCEPT ![t] = TRUE]
          /\ sent' = [sent EXCEPT ![t] = None]
          /\ Goes(t, "wants") /\ UNCHANGED got
     ELSE Ends(t)
  /\ UNCHANGED <<up, disks, lock, clients, time, history>>

\* aclose() has returned; the client is built on the files as they are now.
ClientClosed(t) ==
  /\ pc[t] = "closing"
  /\ Replaces(t, "resending")
  /\ UNCHANGED <<disks, lock, time, history, bounds>>

\* The task of a request or a connect is cancelled at an await.
Cancelled(t) ==
  /\ t \in Requests \cup Connects /\ pc[t] # "idle" /\ cancels < MaxCancels
  /\ cancels' = cancels + 1 /\ UNCHANGED <<failures, starts>>
  /\ Ends(t)
  /\ lock' = IF lock = t THEN NoTask ELSE lock
  /\ orphaned' = (orphaned \/ \E w \in writing : Waits(t, w))
  /\ abandoned' = (abandoned \/ pc[t] = "closing")
  /\ UNCHANGED <<up, disks, clients, time>>

-----------------------------------------------------------------------------
(* Time and the process *)

FallsDue ==
  /\ due < issued /\ issued <= MaxTicks /\ due' = issued
  /\ UNCHANGED <<up, disks, lock, pc, force, got, sent, clients, expired, history, bounds>>

Expires ==
  /\ expired < due /\ expired' = due
  /\ UNCHANGED <<up, disks, lock, pc, force, got, sent, clients, due, history, bounds>>

\* run: open() loads the JSON file and nothing else, then ensure().
Start ==
  /\ up = "down" /\ starts < MaxStarts
  /\ starts' = starts + 1 /\ UNCHANGED <<failures, cancels>>
  /\ up' = "opening" /\ disk' = files["json"]
  /\ Goes(Setup, "wants")
  /\ UNCHANGED <<files, writing, issued, lock, force, got, sent, clients, time, history>>

\* The process ends: what threads and tasks had not done is not done.
Crash ==
  /\ up # "down" /\ starts < MaxStarts
  /\ up' = "down" /\ writing' = {} /\ lock' = NoTask
  /\ pc' = [t \in Tasks |-> "idle"] /\ force' = [t \in Tasks |-> FALSE]
  /\ got' = [t \in Tasks |-> 0] /\ sent' = [t \in Tasks |-> None]
  /\ disk' = 0 /\ client' = None /\ closed' = {} /\ abandoned' = FALSE
  /\ UNCHANGED <<files, issued, time, orphaned, bounds>>

TaskStep(t) ==
  \/ Begin(t) \/ Ensured(t) \/ Issue(t) \/ Issued(t) \/ IssueFails(t) \/ Persisted(t)
  \/ Answered(t) \/ Killed(t) \/ Rejected(t) \/ ClientClosed(t)

ThreadStep == \E w \in writing : Write(w) \/ WriteFails(w)

Next ==
  \/ \E t \in Tasks : TaskStep(t) \/ Cancelled(t)
  \/ ThreadStep \/ FallsDue \/ Expires \/ Start \/ Crash

Spec == Init /\ [][Next]_vars

\* The loops go on making requests, a call is answered or fails, threads
\* write.  Strong fairness, because asyncio.Lock is FIFO: a task that waits
\* for it is passed over only while it is held.
Fairness ==
  /\ \A t \in Tasks : SF_vars(TaskStep(t))
  /\ WF_vars(ThreadStep) /\ WF_vars(Start)

FairSpec == Spec /\ Fairness

-----------------------------------------------------------------------------
(* Properties *)

\* A request that met a rejected certificate is sent again with one at least
\* as new as the one it was issued (_request, WebSocketRuntimeTransport.connect:
\* ensure(True) returns when every file is written, and holds the lock till
\* then), unless a cancelled renewal left a thread that writes older files.
ResentWithRenewed ==
  \A t \in Tasks : pc[t] = "resending" /\ ~orphaned => sent[t].cert >= got[t]

\* Whatever crash or failed write cut _persist short, the JSON that the next
\* start loads is at least as new as the certificate that it uses: what it
\* knows of renewal is never older than the certificate (_load_or_create).
JsonIsNewest == ~orphaned => files["cert"] <= files["json"]

ClientUsable == IsOpen /\ client.cert > expired

\* A client whose certificate has expired, or that was closed for it, is
\* replaced by one that works, also after a start on what a crash left,
\* although renewals fail for a while; not when the request that replaces it
\* was cancelled in aclose().
ClientRepaired ==
  up = "running" ~> ClientUsable \/ abandoned \/ up # "running"

\* "renews its 24-hour client certificate automatically" (README.md:261): a
\* shared client that was closed for its renewal is open again.
ClientReopens == up = "running" /\ ~IsOpen ~> IsOpen \/ up # "running"
=============================================================================
