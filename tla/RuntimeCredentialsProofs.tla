---------------------- MODULE RuntimeCredentialsProofs ----------------------
(***************************************************************************)
(* Proofs about RuntimeCredentials, for every set of requests and connects *)
(* and every bound on failures, cancellations, starts and certificates.    *)
(***************************************************************************)
EXTENDS RuntimeCredentials, TLAPS

Labels == {"idle", "wants", "posting", "writing", "sending", "closing", "resending"}

\* The types that the proofs reason with: TypeOK but for the lock.
Types ==
  /\ up \in {"down", "opening", "running"}
  /\ issued \in Nat
  /\ files \in [Files -> 0..issued]
  /\ disk \in 0..issued
  /\ lock \in Tasks \cup {NoTask}
  /\ writing \subseteq [cert : 1..issued, wrote : 0..2]
  /\ pc \in [Tasks -> Labels]
  /\ force \in [Tasks -> BOOLEAN]
  /\ got \in [Tasks -> 0..issued]
  /\ client \in [client : Nat, cert : 0..issued] /\ closed \subseteq 1..client.client
  /\ sent \in [Tasks -> [client : 0..client.client, cert : 0..issued]]
  /\ due \in 0..issued /\ expired \in 0..due
  /\ orphaned \in BOOLEAN /\ abandoned \in BOOLEAN
  /\ failures \in 0..MaxFailures /\ cancels \in 0..MaxCancels /\ starts \in 0..MaxStarts

\* _lock is held by the task that posts or waits for its thread, and by no other.
Holds == \A t \in Tasks : lock = t <=> pc[t] \in {"posting", "writing"}

\* Who runs: the setup while the process opens, and everybody else once the
\* setup has built the client.
Running ==
  /\ up = "running" => client.client > 0
  /\ \A t \in Tasks : pc[t] # "idle" => up = IF t = Setup THEN "opening" ELSE "running"
  /\ pc[Setup] \in {"idle", "wants", "posting", "writing"}

\* What is being written is the newest certificate.
Newest == \A t \in Tasks : pc[t] = "writing" => got[t] = issued

\* Without an orphan there is one thread at most, the lock's holder waits for
\* it, and it has written what its count says, the JSON first.
Threads ==
  ~orphaned => \A w \in writing :
    /\ \E t \in Tasks : Waits(t, w)
    /\ \A v \in writing : v = w
    /\ w.wrote > 0 => files["json"] = w.cert
    /\ w.wrote > 1 => files["cert"] = w.cert

\* Without an orphan, a task whose thread has ended finds its certificate on disk.
OnDisk ==
  ~orphaned => \A t \in Tasks :
    /\ pc[t] = "writing" /\ (\A w \in writing : ~Waits(t, w)) => files["cert"] = got[t]
    /\ pc[t] = "closing" => files["cert"] >= got[t]

IInv ==
  /\ Types /\ Holds /\ Running /\ Newest /\ Threads /\ OnDisk
  /\ ResentWithRenewed /\ JsonIsNewest

-----------------------------------------------------------------------------
(* What the parts of an action do *)

LEMMA TasksFacts ==
  /\ NoTask \notin Tasks /\ Setup \in Tasks /\ Setup # Renewer
  /\ Setup \notin Requests /\ Setup \notin Connects
  /\ Renewer \notin Requests /\ Renewer \notin Connects
  /\ \A t \in Tasks : t \in Requests \/ t \in Connects \/ t = Renewer \/ t = Setup
  /\ \A t \in Requests : t \notin Connects
BY CredentialsAssumption DEF Tasks

\* What ensure() leaves to do does not touch the manager: the task ends, or it
\* sends or closes, and what it sends again is loaded from the files.
GoneOn(t) ==
  /\ up' \in {"down", "opening", "running"} /\ (t # Setup => up' = up)
  /\ force' \in [Tasks -> BOOLEAN]
  /\ client' \in [client : Nat, cert : 0..issued]
  /\ closed' \subseteq 1..client'.client
  /\ sent' \in [Tasks -> [client : 0..client'.client, cert : 0..issued]]
  /\ got' \in [Tasks -> 0..issued]
  /\ \A u \in Tasks \ {t} : sent'[u] = sent[u] /\ got'[u] = got[u]
  /\ got'[t] \in {0, got[t]}
  /\ client'.client >= client.client
  /\ up' = "running" => client'.client > 0
  /\ \E label \in {"idle", "sending", "closing", "resending"} :
       /\ pc' = [pc EXCEPT ![t] = label]
       /\ label # "idle" => t # Setup
       /\ label \in {"closing", "resending"} => force[t] \/ pc[t] = "closing"
       /\ label = "resending" => sent'[t].cert = files["cert"]
       /\ t = Setup => up' # "opening"

LEMMA EndsTypes ==
  ASSUME Types, NEW t \in Tasks, Ends(t), UNCHANGED clients
  PROVE  /\ force' \in [Tasks -> BOOLEAN]
         /\ client' \in [client : Nat, cert : 0..issued]
         /\ closed' \subseteq 1..client'.client
         /\ sent' \in [Tasks -> [client : 0..client'.client, cert : 0..issued]]
         /\ got' \in [Tasks -> 0..issued]
         /\ \A u \in Tasks \ {t} : sent'[u] = sent[u] /\ got'[u] = got[u]
         /\ got'[t] = 0
         /\ pc' = [pc EXCEPT ![t] = "idle"]
         /\ client' = client
<1>1. client' = client /\ closed' = closed
  BY DEF clients
<1>2. None \in [client : 0..client.client, cert : 0..issued]
  BY DEF None, Types
<1>3. sent' \in [Tasks -> [client : 0..client.client, cert : 0..issued]]
  BY <1>2 DEF Ends, Types
<1> QED
  BY <1>1, <1>3 DEF Ends, Types, Goes

LEMMA RaisesGoesOn ==
  ASSUME Types, Running, NEW t \in Tasks, Raises(t), UNCHANGED clients,
         t = Setup \/ up = "running"
  PROVE  GoneOn(t)
<1>1. up' = IF t = Setup THEN "down" ELSE up
  BY DEF Raises
<1>2. Ends(t)
  BY DEF Raises
<1>3. client.client >= client.client /\ client.client \in Nat
  BY DEF Types
<1> QED
  BY <1>1, <1>2, <1>3, EndsTypes DEF GoneOn, Types, Running

LEMMA SendsGoesOn ==
  ASSUME Types, Running, NEW t \in Tasks, t # Setup, up = "running",
         NEW c, NEW label \in {"sending", "resending"}, Sends(t, c, label),
         client' \in [client : Nat, cert : 0..issued], client'.client >= client.client,
         closed' = closed,
         c \in [client : 0..client'.client, cert : 0..issued],
         label = "resending" => c.cert = files["cert"] /\ (force[t] \/ pc[t] = "closing")
  PROVE  GoneOn(t)
<1>1. sent' = [sent EXCEPT ![t] = c] /\ pc' = [pc EXCEPT ![t] = label]
  BY DEF Sends, Goes
<1>2. \A u \in Tasks : sent[u] \in [client : 0..client'.client, cert : 0..issued]
  BY DEF Types
<1>3. sent' \in [Tasks -> [client : 0..client'.client, cert : 0..issued]]
  BY <1>1, <1>2 DEF Types
<1>4. closed' \subseteq 1..client'.client
  BY DEF Types
<1>5. up' = up /\ force' = force
  BY DEF Sends
<1>6. /\ got' \in [Tasks -> 0..issued]
      /\ \A u \in Tasks \ {t} : got'[u] = got[u]
      /\ got'[t] \in {0, got[t]}
  BY DEF Sends, Types
<1>7. client'.client > 0
  BY DEF Running, Types
<1>8. sent'[t] = c
  BY <1>1 DEF Types
<1> QED
  BY <1>1, <1>3, <1>4, <1>5, <1>6, <1>7, <1>8 DEF GoneOn, Types

LEMMA LoadableTypes ==
  ASSUME Types
  PROVE  files["cert"] \in 0..issued
BY DEF Types, Files

LEMMA ReplacesGoesOn ==
  ASSUME Types, Running, NEW t \in Tasks, t # Setup, up = "running",
         force[t] \/ pc[t] = "closing", Replaces(t, "resending")
  PROVE  GoneOn(t)
<1>1. CASE ~Loadable
  BY <1>1, RaisesGoesOn DEF Replaces
<1>2. CASE Loadable
  <2> DEFINE new == [client |-> client.client + 1, cert |-> files["cert"]]
  <2>1. client' = new /\ closed' = closed /\ Sends(t, new, "resending")
    BY <1>2 DEF Replaces
  <2>2. client.client \in Nat
    BY DEF Types
  <2>3. /\ new \in [client : Nat, cert : 0..issued] /\ new.client >= client.client
        /\ new \in [client : 0..new.client, cert : 0..issued] /\ new.cert = files["cert"]
    BY <2>2, LoadableTypes
  <2> HIDE DEF new
  <2> QED
    BY <2>1, <2>3, SendsGoesOn
<1> QED
  BY <1>1, <1>2

LEMMA RequestGone ==
  ASSUME Types, Running, NEW t \in Tasks, t # Setup, up = "running", RequestGoesOn(t)
  PROVE  GoneOn(t)
<1>0. client.client \in Nat /\ client.client > 0
  BY DEF Types, Running
<1>1. CASE ~force[t] /\ IsOpen
  <2>1. Sends(t, client, "sending") /\ client' = client /\ closed' = closed
    BY <1>1 DEF RequestGoesOn, clients
  <2>2. client \in [client : 0..client.client, cert : 0..issued]
    BY <1>0 DEF Types
  <2> QED
    BY <1>0, <2>1, <2>2, SendsGoesOn DEF Types
<1>2. CASE ~force[t] /\ ~IsOpen
  BY <1>2, RaisesGoesOn DEF RequestGoesOn
<1>3. CASE force[t] /\ IsOpen
  <2>1. /\ closed' = closed \cup {client.client} /\ pc' = [pc EXCEPT ![t] = "closing"]
        /\ UNCHANGED <<up, force, got, sent, client>>
    BY <1>3 DEF RequestGoesOn, Goes
  <2>2. closed \subseteq 1..client.client /\ client.client \in 1..client.client
    BY <1>0 DEF Types
  <2>3. closed' \subseteq 1..client'.client
    BY <2>1, <2>2
  <2> QED
    BY <1>0, <1>3, <2>1, <2>3 DEF GoneOn, Types, Running
<1>4. CASE force[t] /\ ~IsOpen
  BY <1>4, ReplacesGoesOn DEF RequestGoesOn
<1> QED
  BY <1>1, <1>2, <1>3, <1>4 DEF Types

LEMMA ConnectGone ==
  ASSUME Types, Running, NEW t \in Tasks, t # Setup, up = "running", ConnectGoesOn(t)
  PROVE  GoneOn(t)
<1>1. client' = client /\ closed' = closed
  BY DEF ConnectGoesOn, clients
<1>2. CASE ~Loadable
  BY <1>2, RaisesGoesOn DEF ConnectGoesOn
<1>3. CASE Loadable
  <2> DEFINE c == [client |-> 0, cert |-> files["cert"]]
             label == IF force[t] THEN "resending" ELSE "sending"
  <2>1. Sends(t, c, label)
    BY <1>3 DEF ConnectGoesOn
  <2>2. client \in [client : Nat, cert : 0..issued] /\ client.client >= client.client
    BY DEF Types
  <2>3. c \in [client : 0..client.client, cert : 0..issued] /\ c.cert = files["cert"]
    BY <2>2, LoadableTypes
  <2>4. label \in {"resending", "sending"} /\ (label = "resending" => force[t])
    OBVIOUS
  <2> HIDE DEF c, label
  <2> QED
    BY <1>1, <2>1, <2>2, <2>3, <2>4, SendsGoesOn
<1> QED
  BY <1>2, <1>3

LEMMA SetupGone ==
  ASSUME Types, Running, SetupGoesOn
  PROVE  GoneOn(Setup)
<1>1. CASE disk = 0 \/ ~Loadable
  BY <1>1, RaisesGoesOn, TasksFacts DEF SetupGoesOn
<1>2. CASE ~(disk = 0 \/ ~Loadable)
  <2>1. /\ client' = [client |-> client.client + 1, cert |-> files["cert"]]
        /\ up' = "running" /\ Ends(Setup) /\ closed' = closed
    BY <1>2 DEF SetupGoesOn
  <2>2. client.client \in Nat
    BY DEF Types
  <2>3. /\ client' \in [client : Nat, cert : 0..issued] /\ client'.client = client.client + 1
    BY <2>1, <2>2, LoadableTypes
  <2>4. closed' \subseteq 1..client'.client
    BY <2>1, <2>2, <2>3 DEF Types
  <2>5. sent' = [sent EXCEPT ![Setup] = None]
    BY <2>1 DEF Ends
  <2>6. None \in [client : 0..client'.client, cert : 0..issued]
    BY <2>2, <2>3 DEF None, Types
  <2>7. \A u \in Tasks : sent[u] \in [client : 0..client'.client, cert : 0..issued]
    BY <2>2, <2>3 DEF Types
  <2>8. sent' \in [Tasks -> [client : 0..client'.client, cert : 0..issued]]
    BY <2>5, <2>6, <2>7 DEF Types
  <2>9. /\ force' \in [Tasks -> BOOLEAN] /\ got' \in [Tasks -> 0..issued]
        /\ \A u \in Tasks \ {Setup} : sent'[u] = sent[u] /\ got'[u] = got[u]
        /\ got'[Setup] = 0
        /\ pc' = [pc EXCEPT ![Setup] = "idle"]
    BY <2>1, <2>5, TasksFacts DEF Ends, Types, Goes
  <2> QED
    BY <2>1, <2>2, <2>3, <2>4, <2>8, <2>9 DEF GoneOn
<1> QED
  BY <1>1, <1>2

LEMMA Gone ==
  ASSUME Types, Running, NEW t \in Tasks, pc[t] # "idle", GoesOn(t)
  PROVE  GoneOn(t)
<1>1. t = Setup \/ up = "running"
  BY DEF Running
<1>2. CASE t \in Requests
  BY <1>1, <1>2, RequestGone, TasksFacts DEF GoesOn
<1>3. CASE t \in Connects
  <2>1. ConnectGoesOn(t)
    BY <1>3, TasksFacts DEF GoesOn
  <2> QED
    BY <1>1, <1>3, <2>1, ConnectGone, TasksFacts
<1>4. CASE t = Setup
  <2>1. SetupGoesOn
    BY <1>4, TasksFacts DEF GoesOn
  <2> QED
    BY <1>4, <2>1, SetupGone
<1>5. CASE t = Renewer
  <2>1. Ends(t) /\ UNCHANGED clients /\ up' = up
    BY <1>5, TasksFacts DEF GoesOn
  <2>2. client.client >= client.client
    BY DEF Types
  <2> QED
    BY <1>1, <1>5, <2>1, <2>2, EndsTypes, TasksFacts DEF GoneOn, Types, Running
<1> QED
  BY <1>2, <1>3, <1>4, <1>5, TasksFacts

-----------------------------------------------------------------------------
(* Every action keeps the invariant *)

\* The task goes on after ensure() or aclose(), and gives the lock back.
LEMMA WorkGoesOn ==
  ASSUME IInv, NEW t \in Tasks, GoneOn(t), pc[t] \in {"wants", "writing", "closing"},
         lock' = IF pc[t] = "writing" THEN NoTask ELSE lock,
         pc[t] = "writing" => \A w \in writing : ~Waits(t, w),
         pc[t] = "wants" => ~force[t],
         UNCHANGED <<disks, time, history, bounds>>
  PROVE  IInv'
<1>1. PICK label \in {"idle", "sending", "closing", "resending"} :
         /\ pc' = [pc EXCEPT ![t] = label]
         /\ label # "idle" => t # Setup
         /\ label \in {"closing", "resending"} => force[t] \/ pc[t] = "closing"
         /\ label = "resending" => sent'[t].cert = files["cert"]
         /\ t = Setup => up' # "opening"
  BY DEF GoneOn
<1>2. /\ files' = files /\ disk' = disk /\ writing' = writing /\ issued' = issued
      /\ due' = due /\ expired' = expired /\ orphaned' = orphaned
      /\ abandoned' = abandoned /\ failures' = failures /\ cancels' = cancels
      /\ starts' = starts
  BY DEF disks, time, history, bounds
<1>3. /\ pc \in [Tasks -> Labels] /\ NoTask \notin Tasks /\ Setup \in Tasks
      /\ pc'[t] = label /\ \A u \in Tasks \ {t} : pc'[u] = pc[u]
  BY <1>1, TasksFacts DEF IInv, Types
<1>4. Types'
  <2>1. pc' \in [Tasks -> Labels] /\ lock' \in Tasks \cup {NoTask}
    BY <1>1 DEF IInv, Types, Labels
  <2> QED
    BY <1>2, <2>1 DEF IInv, Types, GoneOn
<1>5. Holds'
  BY <1>3 DEF IInv, Holds
<1>6. Running'
  BY <1>1, <1>3 DEF IInv, Running, GoneOn, Types
<1>7. Newest'
  BY <1>2, <1>3 DEF IInv, Newest, GoneOn
<1>8. ~orphaned /\ pc[t] = "writing" => writing = {} /\ files["cert"] = got[t]
  BY <1>3 DEF IInv, Threads, OnDisk, Waits, Holds
<1>9. Threads'
  BY <1>2, <1>3, <1>8 DEF IInv, Threads, Waits, GoneOn
<1>10. got \in [Tasks -> 0..issued] /\ files["cert"] \in 0..issued /\ issued \in Nat
  BY LoadableTypes DEF IInv, Types
<1>11. pc[t] \in {"writing", "closing"} /\ ~orphaned => files["cert"] >= got[t]
  BY <1>8, <1>10 DEF IInv, OnDisk
<1>12. OnDisk'
  BY <1>2, <1>3, <1>10, <1>11 DEF IInv, OnDisk, Waits, GoneOn
<1>13. ResentWithRenewed'
  BY <1>1, <1>2, <1>3, <1>10, <1>11 DEF IInv, ResentWithRenewed, GoneOn
<1>14. JsonIsNewest'
  BY <1>2 DEF IInv, JsonIsNewest
<1> QED
  BY <1>4, <1>5, <1>6, <1>7, <1>9, <1>12, <1>13, <1>14 DEF IInv

LEMMA EnsuredKeeps ==
  ASSUME IInv, NEW t \in Tasks, Ensured(t) \/ Persisted(t) \/ ClientClosed(t)
  PROVE  IInv'
<1>1. Types /\ Running /\ NoTask \notin Tasks
  BY TasksFacts DEF IInv
<1>2. CASE Ensured(t)
  <2>1. /\ pc[t] = "wants" /\ ~force[t] /\ GoesOn(t) /\ lock' = lock
        /\ UNCHANGED <<disks, time, history, bounds>>
    BY <1>2 DEF Ensured
  <2> QED
    BY <1>1, <2>1, Gone, WorkGoesOn
<1>3. CASE Persisted(t)
  <2>1. /\ pc[t] = "writing" /\ (\A w \in writing : ~Waits(t, w)) /\ GoesOn(t)
        /\ lock' = NoTask /\ UNCHANGED <<disks, time, history, bounds>>
    BY <1>3 DEF Persisted
  <2> QED
    BY <1>1, <2>1, Gone, WorkGoesOn
<1>4. CASE ClientClosed(t)
  <2>1. /\ pc[t] = "closing" /\ Replaces(t, "resending") /\ lock' = lock
        /\ UNCHANGED <<disks, time, history, bounds>>
    BY <1>4 DEF ClientClosed
  <2>2. t # Setup /\ up = "running"
    BY <1>1, <2>1 DEF Running
  <2>3. GoneOn(t)
    BY <1>1, <2>1, <2>2, ReplacesGoesOn
  <2> QED
    BY <2>1, <2>3, WorkGoesOn
<1> QED
  BY <1>2, <1>3, <1>4

\* A task that only moves on, with the lock as its new label requires.
LEMMA MovesOn ==
  ASSUME IInv, NEW t \in Tasks, NEW label \in {"idle", "wants", "posting"},
         pc' = [pc EXCEPT ![t] = label],
         pc[t] # "idle" \/ t # Setup, label # "idle" => up = "running" \/ pc[t] # "idle",
         up' = IF t = Setup /\ label = "idle" THEN "down" ELSE up,
         lock' = IF label = "posting" THEN t ELSE IF lock = t THEN NoTask ELSE lock,
         label = "posting" => lock = NoTask,
         force' \in [Tasks -> BOOLEAN],
         got' \in [Tasks -> 0..issued], \A u \in Tasks \ {t} : got'[u] = got[u],
         sent' \in [Tasks -> [client : 0..client.client, cert : 0..issued]],
         \A u \in Tasks \ {t} : sent'[u] = sent[u],
         failures' \in 0..MaxFailures, cancels' \in 0..MaxCancels,
         starts' = starts, orphaned' \in BOOLEAN, abandoned' \in BOOLEAN,
         orphaned => orphaned',
         ~orphaned' => \A w \in writing : ~Waits(t, w),
         UNCHANGED <<disks, clients, time>>
  PROVE  IInv'
<1>1. /\ files' = files /\ disk' = disk /\ writing' = writing /\ issued' = issued
      /\ due' = due /\ expired' = expired /\ client' = client /\ closed' = closed
  BY DEF disks, time, clients
<1>2. /\ pc \in [Tasks -> Labels] /\ NoTask \notin Tasks /\ Setup \in Tasks
      /\ pc'[t] = label /\ \A u \in Tasks \ {t} : pc'[u] = pc[u]
  BY TasksFacts DEF IInv, Types
<1>3. Types'
  BY <1>1, <1>2 DEF IInv, Types, Labels
<1>4. Holds'
  BY <1>2 DEF IInv, Holds
<1>5. Running'
  BY <1>1, <1>2 DEF IInv, Running
<1>6. Newest'
  BY <1>1, <1>2 DEF IInv, Newest
<1>7. Threads'
  BY <1>1, <1>2 DEF IInv, Threads, Waits
<1>8. OnDisk'
  BY <1>1, <1>2 DEF IInv, OnDisk, Waits
<1>9. ResentWithRenewed' /\ JsonIsNewest'
  BY <1>1, <1>2 DEF IInv, ResentWithRenewed, JsonIsNewest
<1> QED
  BY <1>3, <1>4, <1>5, <1>6, <1>7, <1>8, <1>9 DEF IInv

LEMMA RaisesKeeps ==
  ASSUME IInv, NEW t \in Tasks, pc[t] # "idle", Ends(t),
         up' = IF t = Setup THEN "down" ELSE up,
         lock' = IF lock = t THEN NoTask ELSE lock,
         failures' \in 0..MaxFailures, cancels' \in 0..MaxCancels,
         starts' = starts, orphaned' \in BOOLEAN, abandoned' \in BOOLEAN,
         orphaned => orphaned',
         ~orphaned' => \A w \in writing : ~Waits(t, w),
         UNCHANGED <<disks, clients, time>>
  PROVE  IInv'
<1>1. Types
  BY DEF IInv
<1>2. /\ force' \in [Tasks -> BOOLEAN] /\ got' \in [Tasks -> 0..issued]
      /\ \A u \in Tasks \ {t} : sent'[u] = sent[u] /\ got'[u] = got[u]
      /\ sent' \in [Tasks -> [client : 0..client'.client, cert : 0..issued]]
      /\ client' = client /\ pc' = [pc EXCEPT ![t] = "idle"]
  BY <1>1, EndsTypes
<1> QED
  BY <1>2, MovesOn

LEMMA BeginKeeps ==
  ASSUME IInv, NEW t \in Tasks, Begin(t)
  PROVE  IInv'
<1>1. /\ pc[t] = "idle" /\ t # Setup /\ up = "running" /\ pc' = [pc EXCEPT ![t] = "wants"]
      /\ UNCHANGED <<up, disks, lock, force, got, sent, clients, time>>
      /\ failures' = failures /\ cancels' = cancels /\ starts' = starts
      /\ orphaned' = orphaned /\ abandoned' = abandoned
  BY DEF Begin, Goes, bounds, history
<1>2. lock # t
  BY <1>1 DEF IInv, Holds
<1>3. \A w \in writing : ~Waits(t, w)
  BY <1>1 DEF Waits
<1>4. /\ force \in [Tasks -> BOOLEAN] /\ got \in [Tasks -> 0..issued]
      /\ sent \in [Tasks -> [client : 0..client.client, cert : 0..issued]]
      /\ orphaned \in BOOLEAN /\ abandoned \in BOOLEAN
      /\ failures \in 0..MaxFailures /\ cancels \in 0..MaxCancels
  BY DEF IInv, Types
<1> QED
  BY <1>1, <1>2, <1>3, <1>4, MovesOn

LEMMA IssueKeeps ==
  ASSUME IInv, NEW t \in Tasks, Issue(t)
  PROVE  IInv'
<1>1. /\ pc[t] = "wants" /\ lock = NoTask /\ lock' = t /\ pc' = [pc EXCEPT ![t] = "posting"]
      /\ UNCHANGED <<up, disks, force, got, sent, clients, time>>
      /\ failures' = failures /\ cancels' = cancels /\ starts' = starts
      /\ orphaned' = orphaned /\ abandoned' = abandoned
  BY DEF Issue, Goes, bounds, history
<1>2. \A w \in writing : ~Waits(t, w)
  BY <1>1 DEF Waits
<1>3. /\ force \in [Tasks -> BOOLEAN] /\ got \in [Tasks -> 0..issued]
      /\ sent \in [Tasks -> [client : 0..client.client, cert : 0..issued]]
      /\ orphaned \in BOOLEAN /\ abandoned \in BOOLEAN
      /\ failures \in 0..MaxFailures /\ cancels \in 0..MaxCancels
  BY DEF IInv, Types
<1> QED
  BY <1>1, <1>2, <1>3, MovesOn

LEMMA FailsTypes ==
  ASSUME Types, Fails
  PROVE  failures' \in 0..MaxFailures /\ cancels' = cancels /\ starts' = starts
BY CredentialsAssumption DEF Types, Fails

LEMMA IssueFailsKeeps ==
  ASSUME IInv, NEW t \in Tasks, IssueFails(t)
  PROVE  IInv'
<1>1. /\ pc[t] = "posting" /\ Fails /\ lock' = NoTask /\ Raises(t)
      /\ UNCHANGED <<disks, clients, time>>
      /\ orphaned' = orphaned /\ abandoned' = abandoned
  BY DEF IssueFails, history
<1>2. lock = t
  BY <1>1 DEF IInv, Holds
<1>3. \A w \in writing : ~Waits(t, w)
  BY <1>1 DEF Waits
<1>4. /\ orphaned \in BOOLEAN /\ abandoned \in BOOLEAN /\ cancels \in 0..MaxCancels
  BY DEF IInv, Types
<1>5. failures' \in 0..MaxFailures /\ cancels' = cancels /\ starts' = starts
  BY <1>1, FailsTypes DEF IInv
<1> QED
  BY <1>1, <1>2, <1>3, <1>4, <1>5, RaisesKeeps DEF Raises

LEMMA RequestEndsKeeps ==
  ASSUME IInv, NEW t \in Tasks, Answered(t) \/ Killed(t)
  PROVE  IInv'
<1>1. /\ pc[t] \in {"sending", "resending"} /\ Ends(t) /\ up' = up /\ lock' = lock
      /\ UNCHANGED <<disks, clients, time>>
      /\ failures' = failures /\ cancels' = cancels /\ starts' = starts
      /\ orphaned' = orphaned /\ abandoned' = abandoned
  BY DEF Answered, Killed, Sent, bounds, history
<1>2. lock # t /\ t # Setup
  BY <1>1 DEF IInv, Holds, Running
<1>3. \A w \in writing : ~Waits(t, w)
  BY <1>1 DEF Waits
<1>4. /\ orphaned \in BOOLEAN /\ abandoned \in BOOLEAN /\ cancels \in 0..MaxCancels
      /\ failures \in 0..MaxFailures
  BY DEF IInv, Types
<1> QED
  BY <1>1, <1>2, <1>3, <1>4, RaisesKeeps

LEMMA RejectedKeeps ==
  ASSUME IInv, NEW t \in Tasks, Rejected(t)
  PROVE  IInv'
<1>1. /\ pc[t] \in {"sending", "resending"} /\ up' = up /\ lock' = lock
      /\ UNCHANGED <<disks, clients, time>>
      /\ orphaned' = orphaned /\ abandoned' = abandoned
  BY DEF Rejected, Sent, history
<1>2. lock # t /\ t # Setup
  BY <1>1 DEF IInv, Holds, Running
<1>3. \A w \in writing : ~Waits(t, w)
  BY <1>1 DEF Waits
<1>4. /\ orphaned \in BOOLEAN /\ abandoned \in BOOLEAN /\ cancels \in 0..MaxCancels
      /\ failures \in 0..MaxFailures
  BY DEF IInv, Types
<1>5. failures' \in 0..MaxFailures /\ cancels' = cancels /\ starts' = starts
  BY <1>4, FailsTypes DEF IInv, Rejected, bounds
<1>6. CASE pc[t] = "sending"
  <2>1. /\ force' = [force EXCEPT ![t] = TRUE] /\ sent' = [sent EXCEPT ![t] = None]
        /\ pc' = [pc EXCEPT ![t] = "wants"] /\ got' = got
    BY <1>6 DEF Rejected, Goes
  <2>2. None \in [client : 0..client.client, cert : 0..issued]
    BY DEF None, IInv, Types
  <2>3. /\ force' \in [Tasks -> BOOLEAN] /\ got' \in [Tasks -> 0..issued]
        /\ sent' \in [Tasks -> [client : 0..client.client, cert : 0..issued]]
        /\ \A u \in Tasks \ {t} : sent'[u] = sent[u] /\ got'[u] = got[u]
    BY <2>1, <2>2 DEF IInv, Types
  <2> QED
    BY <1>1, <1>2, <1>3, <1>4, <1>5, <2>1, <2>3, MovesOn
<1>7. CASE pc[t] = "resending"
  <2>1. Ends(t)
    BY <1>7 DEF Rejected
  <2> QED
    BY <1>1, <1>2, <1>3, <1>4, <1>5, <2>1, RaisesKeeps
<1> QED
  BY <1>1, <1>6, <1>7

LEMMA CancelledKeeps ==
  ASSUME IInv, NEW t \in Tasks, Cancelled(t)
  PROVE  IInv'
<1>1. /\ t \in Requests \cup Connects /\ pc[t] # "idle" /\ Ends(t) /\ up' = up
      /\ lock' = IF lock = t THEN NoTask ELSE lock
      /\ UNCHANGED <<disks, clients, time>>
      /\ cancels < MaxCancels /\ cancels' = cancels + 1
      /\ failures' = failures /\ starts' = starts
      /\ orphaned' = (orphaned \/ \E w \in writing : Waits(t, w))
      /\ abandoned' = (abandoned \/ pc[t] = "closing")
  BY DEF Cancelled
<1>2. t # Setup
  BY <1>1, TasksFacts
<1>3. /\ orphaned' \in BOOLEAN /\ abandoned' \in BOOLEAN
      /\ failures' \in 0..MaxFailures /\ cancels' \in 0..MaxCancels
  BY <1>1, CredentialsAssumption DEF IInv, Types
<1> QED
  BY <1>1, <1>2, <1>3, RaisesKeeps

LEMMA IssuedKeeps ==
  ASSUME IInv, NEW t \in Tasks, Issued(t)
  PROVE  IInv'
<1> DEFINE w == [cert |-> issued + 1, wrote |-> 0]
<1>1. /\ pc[t] = "posting" /\ issued' = issued + 1 /\ disk' = issued + 1
      /\ got' = [got EXCEPT ![t] = issued + 1] /\ writing' = writing \cup {w}
      /\ pc' = [pc EXCEPT ![t] = "writing"]
      /\ UNCHANGED <<up, files, lock, force, sent, client, closed, due, expired,
                     orphaned, abandoned, failures, cancels, starts>>
  BY DEF Issued, Goes, clients, time, history, bounds
<1>2. /\ pc \in [Tasks -> Labels] /\ Setup \in Tasks /\ issued \in Nat
      /\ got \in [Tasks -> 0..issued] /\ files["cert"] \in 0..issued
      /\ pc'[t] = "writing" /\ \A u \in Tasks \ {t} : pc'[u] = pc[u]
      /\ got'[t] = issued + 1 /\ \A u \in Tasks \ {t} : got'[u] = got[u]
  BY <1>1, TasksFacts, LoadableTypes DEF IInv, Types
<1>3. lock = t /\ \A u \in Tasks \ {t} : pc[u] \notin {"posting", "writing"}
  BY <1>1 DEF IInv, Holds
<1>4. ~orphaned => writing = {}
  BY <1>1, <1>3 DEF IInv, Threads, Waits
<1>5. w \in [cert : 1..issued', wrote : 0..2] /\ w.cert = issued + 1 /\ w.wrote = 0
  BY <1>1, <1>2
<1> HIDE DEF w
<1>6. Types'
  <2>1. 0..issued \subseteq 0..(issued + 1) /\ issued + 1 \in 0..(issued + 1)
    BY <1>2
  <2>2. /\ files \in [Files -> 0..(issued + 1)] /\ disk' \in 0..(issued + 1)
        /\ got' \in [Tasks -> 0..(issued + 1)]
        /\ client \in [client : Nat, cert : 0..(issued + 1)]
        /\ due \in 0..(issued + 1) /\ issued + 1 \in Nat
    BY <1>1, <1>2, <2>1 DEF IInv, Types
  <2>3. sent \in [Tasks -> [client : 0..client.client, cert : 0..(issued + 1)]]
    BY <2>1 DEF IInv, Types
  <2>4. writing' \subseteq [cert : 1..(issued + 1), wrote : 0..2]
    BY <1>1, <1>2, <1>5 DEF IInv, Types
  <2>5. pc' \in [Tasks -> Labels]
    BY <1>1 DEF IInv, Types, Labels
  <2> QED
    BY <1>1, <2>2, <2>3, <2>4, <2>5 DEF IInv, Types
<1>7. Holds'
  BY <1>1, <1>2, <1>3 DEF IInv, Holds
<1>8. Running'
  BY <1>1, <1>2 DEF IInv, Running
<1>9. Newest'
  BY <1>1, <1>2, <1>3 DEF Newest
<1>10. Threads'
  BY <1>1, <1>2, <1>4, <1>5 DEF Threads, Waits
<1>11. OnDisk'
  BY <1>1, <1>2, <1>3, <1>5 DEF IInv, OnDisk, Waits
<1>12. ResentWithRenewed' /\ JsonIsNewest'
  BY <1>1, <1>2 DEF IInv, ResentWithRenewed, JsonIsNewest
<1> QED
  BY <1>6, <1>7, <1>8, <1>9, <1>10, <1>11, <1>12 DEF IInv

\* A thread replaces the next file.
LEMMA WriteKeeps ==
  ASSUME IInv, NEW w \in writing, Write(w)
  PROVE  IInv'
<1> DEFINE more == [w EXCEPT !.wrote = @ + 1]
<1>1. /\ files' = [files EXCEPT ![File[more.wrote]] = w.cert]
      /\ writing' = (writing \ {w}) \cup IF more.wrote < 3 THEN {more} ELSE {}
      /\ UNCHANGED <<up, disk, issued, lock, pc, force, got, sent, client, closed, due, expired,
                     orphaned, abandoned, failures, cancels, starts>>
  BY DEF Write, clients, time, history, bounds
<1>2. /\ w.cert \in 1..issued /\ w.wrote \in 0..2 /\ issued \in Nat
      /\ w = [cert |-> w.cert, wrote |-> w.wrote]
      /\ files \in [Files -> 0..issued] /\ got \in [Tasks -> 0..issued]
  BY DEF IInv, Types
<1>3. more.cert = w.cert /\ more.wrote = w.wrote + 1 /\ more = [cert |-> w.cert, wrote |-> w.wrote + 1]
  BY <1>2
<1>4. more.wrote < 3 => more \in [cert : 1..issued, wrote : 0..2]
  BY <1>2, <1>3
<1>5. /\ w.wrote = 0 => File[more.wrote] = "json"
      /\ w.wrote = 1 => File[more.wrote] = "cert"
      /\ w.wrote = 2 => File[more.wrote] = "ca"
  BY <1>3 DEF File
<1> HIDE DEF more
<1>6. /\ files' \in [Files -> 0..issued]
      /\ files'["json"] = IF w.wrote = 0 THEN w.cert ELSE files["json"]
      /\ files'["cert"] = IF w.wrote = 1 THEN w.cert ELSE files["cert"]
  BY <1>1, <1>2, <1>5 DEF Files
<1>7. Types'
  <2>1. writing' \subseteq [cert : 1..issued, wrote : 0..2]
    BY <1>1, <1>4 DEF IInv, Types
  <2> QED
    BY <1>1, <1>6, <2>1 DEF IInv, Types
<1>8. Holds' /\ Running' /\ Newest'
  BY <1>1 DEF IInv, Holds, Running, Newest
<1>9. ~orphaned => /\ writing = {w}
                   /\ \E t \in Tasks : Waits(t, w)
                   /\ w.cert = issued
                   /\ w.wrote > 0 => files["json"] = w.cert
                   /\ w.wrote > 1 => files["cert"] = w.cert
  BY DEF IInv, Threads, Newest, Waits
<1>10. ~orphaned => writing' = IF w.wrote < 2 THEN {more} ELSE {}
  BY <1>1, <1>2, <1>3, <1>9
<1>11. Threads'
  BY <1>1, <1>2, <1>3, <1>6, <1>9, <1>10 DEF Threads, Waits
<1>12. ~orphaned => files'["cert"] >= files["cert"] /\ files'["cert"] \in Nat /\ files["cert"] \in 0..issued
  BY <1>2, <1>6, <1>9 DEF Files
<1>13. OnDisk'
  <2> SUFFICES ASSUME ~orphaned, NEW t \in Tasks
               PROVE  /\ pc[t] = "writing" /\ (\A v \in writing' : ~Waits(t, v))
                           => files'["cert"] = got[t]
                      /\ pc[t] = "closing" => files'["cert"] >= got[t]
    BY <1>1 DEF OnDisk, Waits
  <2>1. pc[t] = "closing" => files'["cert"] >= got[t]
    BY <1>2, <1>12 DEF IInv, OnDisk
  <2>2. CASE pc[t] = "writing"
    <3>1. Waits(t, w)
      BY <1>9, <2>2 DEF IInv, Newest, Waits
    <3>2. w.wrote < 2 => Waits(t, more)
      BY <1>3, <3>1 DEF Waits
    <3>3. w.wrote = 2 => files'["cert"] = got[t]
      BY <1>6, <1>9, <3>1 DEF Waits
    <3> QED
      BY <1>2, <1>10, <2>1, <3>2, <3>3
  <2> QED
    BY <2>1, <2>2
<1>14. ResentWithRenewed'
  BY <1>1 DEF IInv, ResentWithRenewed
<1>15. JsonIsNewest'
  BY <1>1, <1>2, <1>6, <1>9, <1>12 DEF IInv, JsonIsNewest
<1> QED
  BY <1>7, <1>8, <1>11, <1>13, <1>14, <1>15 DEF IInv

LEMMA WriteFailsKeeps ==
  ASSUME IInv, NEW w \in writing, WriteFails(w)
  PROVE  IInv'
<1>1. /\ writing' = writing \ {w} /\ Fails
      /\ UNCHANGED <<files, disk, issued, client, closed, due, expired, orphaned, abandoned,
                     cancels, starts>>
  BY DEF WriteFails, Fails, clients, time, history
<1>2. failures' \in 0..MaxFailures
  BY <1>1, FailsTypes DEF IInv
<1>3. ASSUME NEW t \in Tasks, Waits(t, w), lock' = NoTask, Raises(t)
      PROVE  IInv'
  <2>1. /\ pc[t] = "writing" /\ got[t] = w.cert /\ Ends(t) /\ UNCHANGED clients
        /\ up' = IF t = Setup THEN "down" ELSE up
    BY <1>1, <1>3 DEF Waits, Raises, clients
  <2>2. /\ force' \in [Tasks -> BOOLEAN] /\ got' \in [Tasks -> 0..issued]
        /\ \A u \in Tasks \ {t} : sent'[u] = sent[u] /\ got'[u] = got[u]
        /\ sent' \in [Tasks -> [client : 0..client'.client, cert : 0..issued]]
        /\ pc' = [pc EXCEPT ![t] = "idle"]
    BY <2>1, EndsTypes DEF IInv
  <2>3. /\ pc \in [Tasks -> Labels] /\ NoTask \notin Tasks /\ Setup \in Tasks
        /\ pc'[t] = "idle" /\ \A u \in Tasks \ {t} : pc'[u] = pc[u]
    BY <2>2, TasksFacts DEF IInv, Types
  <2>4. lock = t /\ (\A u \in Tasks \ {t} : pc[u] # "writing")
    BY <2>1 DEF IInv, Holds
  <2>5. Types'
    BY <1>1, <1>2, <1>3, <2>1, <2>2 DEF IInv, Types, Labels
  <2>6. Holds'
    BY <1>3, <2>3, <2>4 DEF IInv, Holds
  <2>7. Running'
    BY <1>1, <2>1, <2>3 DEF IInv, Running
  <2>8. Newest' /\ OnDisk'
    BY <1>1, <2>2, <2>3, <2>4 DEF IInv, Newest, OnDisk, Waits
  <2>9. ~orphaned => writing' = {}
    BY <1>1 DEF IInv, Threads
  <2>10. Threads'
    BY <1>1, <2>9 DEF Threads
  <2>11. ResentWithRenewed' /\ JsonIsNewest'
    BY <1>1, <2>2, <2>3 DEF IInv, ResentWithRenewed, JsonIsNewest
  <2> QED
    BY <2>5, <2>6, <2>7, <2>8, <2>10, <2>11 DEF IInv
<1>4. ASSUME ~\E t \in Tasks : Waits(t, w), UNCHANGED <<up, lock, pc, force, got, sent>>
      PROVE  IInv'
  <2>1. orphaned
    BY <1>4 DEF IInv, Threads
  <2>2. Types'
    BY <1>1, <1>2, <1>4 DEF IInv, Types
  <2> QED
    BY <1>1, <1>4, <2>1, <2>2 DEF IInv, Holds, Running, Newest, Threads, OnDisk, JsonIsNewest,
                                  ResentWithRenewed
<1> QED
  BY <1>3, <1>4 DEF WriteFails

LEMMA TimeKeeps ==
  ASSUME IInv, FallsDue \/ Expires
  PROVE  IInv'
<1>1. UNCHANGED <<up, files, disk, writing, issued, lock, pc, force, got, sent, client, closed,
                  orphaned, abandoned, failures, cancels, starts>>
  BY DEF FallsDue, Expires, disks, clients, history, bounds
<1>2. due' \in 0..issued /\ expired' \in 0..due'
  BY DEF FallsDue, Expires, IInv, Types
<1>3. Types'
  BY <1>1, <1>2 DEF IInv, Types
<1> QED
  BY <1>1, <1>3 DEF IInv, Holds, Running, Newest, Threads, OnDisk, Waits, ResentWithRenewed,
                    JsonIsNewest

LEMMA StartKeeps ==
  ASSUME IInv, Start
  PROVE  IInv'
<1>1. /\ up = "down" /\ up' = "opening" /\ disk' = files["json"]
      /\ pc' = [pc EXCEPT ![Setup] = "wants"] /\ starts < MaxStarts /\ starts' = starts + 1
      /\ UNCHANGED <<files, writing, issued, lock, force, got, sent, client, closed, due, expired,
                     orphaned, abandoned, failures, cancels>>
  BY DEF Start, Goes, clients, time, history
<1>2. /\ pc \in [Tasks -> Labels] /\ Setup \in Tasks /\ \A t \in Tasks : pc[t] = "idle"
      /\ pc'[Setup] = "wants" /\ \A t \in Tasks \ {Setup} : pc'[t] = "idle"
  BY <1>1, TasksFacts DEF IInv, Types, Running
<1>3. Types'
  <2>1. starts' \in 0..MaxStarts
    BY <1>1, CredentialsAssumption DEF IInv, Types
  <2>2. disk' \in 0..issued /\ pc' \in [Tasks -> Labels]
    BY <1>1 DEF IInv, Types, Files, Labels
  <2> QED
    BY <1>1, <2>1, <2>2 DEF IInv, Types
<1>4. Holds' /\ Running' /\ Newest'
  BY <1>1, <1>2 DEF IInv, Holds, Running, Newest
<1>5. ~orphaned => writing = {}
  BY <1>2 DEF IInv, Threads, Waits
<1>6. Threads' /\ OnDisk'
  BY <1>1, <1>2, <1>5 DEF Threads, OnDisk
<1>7. ResentWithRenewed' /\ JsonIsNewest'
  BY <1>1, <1>2 DEF IInv, ResentWithRenewed, JsonIsNewest
<1> QED
  BY <1>3, <1>4, <1>6, <1>7 DEF IInv

LEMMA CrashKeeps ==
  ASSUME IInv, Crash
  PROVE  IInv'
<1>1. /\ up' = "down" /\ writing' = {} /\ lock' = NoTask
      /\ pc' = [t \in Tasks |-> "idle"] /\ force' = [t \in Tasks |-> FALSE]
      /\ got' = [t \in Tasks |-> 0] /\ sent' = [t \in Tasks |-> None]
      /\ disk' = 0 /\ client' = None /\ closed' = {} /\ abandoned' = FALSE
      /\ UNCHANGED <<files, issued, due, expired, orphaned, failures, cancels, starts>>
  BY DEF Crash, time, bounds
<1>2. issued \in Nat
  BY DEF IInv, Types
<1>3. /\ client' \in [client : Nat, cert : 0..issued] /\ client'.client = 0
      /\ None \in [client : 0..0, cert : 0..issued]
  BY <1>1, <1>2 DEF None
<1>4. Types'
  <2>1. sent' \in [Tasks -> [client : 0..client'.client, cert : 0..issued]]
    BY <1>1, <1>3
  <2>2. /\ got' \in [Tasks -> 0..issued] /\ pc' \in [Tasks -> Labels]
        /\ force' \in [Tasks -> BOOLEAN] /\ disk' \in 0..issued
    BY <1>1, <1>2 DEF Labels
  <2> QED
    BY <1>1, <1>2, <1>3, <2>1, <2>2 DEF IInv, Types
<1>5. Holds' /\ Running' /\ Newest' /\ Threads' /\ OnDisk'
  BY <1>1, TasksFacts DEF Holds, Running, Newest, Threads, OnDisk
<1>6. ResentWithRenewed' /\ JsonIsNewest'
  BY <1>1 DEF IInv, ResentWithRenewed, JsonIsNewest
<1> QED
  BY <1>4, <1>5, <1>6 DEF IInv

LEMMA InitInv == Init => IInv
<1> SUFFICES ASSUME Init
             PROVE  IInv
  OBVIOUS
<1>1. /\ client = [client |-> 0, cert |-> 0] /\ issued = 0 /\ closed = {} /\ writing = {}
      /\ sent = [t \in Tasks |-> [client |-> 0, cert |-> 0]]
  BY DEF Init, None
<1>2. /\ client \in [client : Nat, cert : 0..issued] /\ client.client = 0
      /\ [client |-> 0, cert |-> 0] \in [client : 0..client.client, cert : 0..issued]
  BY <1>1
<1>3. sent \in [Tasks -> [client : 0..client.client, cert : 0..issued]]
  BY <1>1, <1>2
<1>4. Types
  <2>1. 0 \in 0..MaxFailures /\ 0 \in 0..MaxCancels /\ 0 \in 0..MaxStarts
    BY CredentialsAssumption
  <2>2. /\ got \in [Tasks -> 0..issued] /\ pc \in [Tasks -> Labels]
        /\ force \in [Tasks -> BOOLEAN] /\ disk \in 0..issued
        /\ files \in [Files -> 0..issued] /\ due \in 0..issued /\ expired \in 0..due
    BY <1>1 DEF Init, Labels
  <2> QED
    BY <1>1, <1>2, <1>3, <2>1, <2>2 DEF Init, Types
<1>5. Holds /\ Running /\ Newest /\ Threads /\ OnDisk
  BY TasksFacts DEF Init, Holds, Running, Newest, Threads, OnDisk
<1>6. ResentWithRenewed /\ JsonIsNewest
  BY <1>1 DEF Init, ResentWithRenewed, JsonIsNewest, Files
<1> QED
  BY <1>4, <1>5, <1>6 DEF IInv

LEMMA StepInv == IInv /\ [Next]_vars => IInv'
<1> SUFFICES ASSUME IInv, [Next]_vars
             PROVE  IInv'
  OBVIOUS
<1>1. ASSUME NEW t \in Tasks, TaskStep(t)
      PROVE  IInv'
  BY <1>1, BeginKeeps, EnsuredKeeps, IssueKeeps, IssuedKeeps, IssueFailsKeeps, RequestEndsKeeps,
     RejectedKeeps DEF TaskStep
<1>2. ASSUME NEW t \in Tasks, Cancelled(t)
      PROVE  IInv'
  BY <1>2, CancelledKeeps
<1>3. CASE ThreadStep
  BY <1>3, WriteKeeps, WriteFailsKeeps DEF ThreadStep
<1>4. CASE FallsDue \/ Expires
  BY <1>4, TimeKeeps
<1>5. CASE Start \/ Crash
  BY <1>5, StartKeeps, CrashKeeps
<1>6. CASE UNCHANGED vars
  <2>1. UNCHANGED <<up, files, disk, writing, issued, lock, pc, force, got, sent, client, closed,
                    due, expired, orphaned, abandoned, failures, cancels, starts>>
    BY <1>6 DEF vars, disks, clients, time, history, bounds
  <2>2. Types'
    BY <2>1 DEF IInv, Types
  <2> QED
    BY <2>1, <2>2 DEF IInv, Holds, Running, Newest, Threads, OnDisk, Waits, ResentWithRenewed,
                      JsonIsNewest
<1> QED
  BY <1>1, <1>2, <1>3, <1>4, <1>5, <1>6 DEF Next

-----------------------------------------------------------------------------
(* The theorems *)

\* Memory, the files, the threads that write them and the tasks that wait for
\* the threads agree in every reachable state of the manager and the client.
THEOREM InvariantHolds == Spec => []IInv
BY InitInv, StepInv, PTL DEF Spec

\* The type invariant, and _lock is held while somebody posts or waits for the
\* thread of _persist, and at no other time.
THEOREM TypeCorrect == Spec => []TypeOK
<1>1. IInv => TypeOK
  BY TasksFacts DEF IInv, Types, Holds, TypeOK, Labels
<1> QED
  BY <1>1, InvariantHolds, PTL

\* A request that met a rejected certificate is not sent again with an older
\* one than it was issued (_request and WebSocketRuntimeTransport.connect).
THEOREM ResendsRenewed == Spec => []ResentWithRenewed
<1>1. IInv => ResentWithRenewed
  BY DEF IInv
<1> QED
  BY <1>1, InvariantHolds, PTL

\* No crash, failed write or cancelled request leaves a certificate on disk that
\* the JSON of _load_or_create does not know of, except through an orphan.
THEOREM JsonKnowsTheCertificate == Spec => []JsonIsNewest
<1>1. IInv => JsonIsNewest
  BY DEF IInv
<1> QED
  BY <1>1, InvariantHolds, PTL
=============================================================================
