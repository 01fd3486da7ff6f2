---------------------------- MODULE SessionRouter ----------------------------
(***************************************************************************)
(* The sessions that a server routes connections to: SessionRouter and the *)
(* disconnecting and closing of Server (packages/server/src), with the     *)
(* application's line of session management and its session workers        *)
(* (packages/coding-agent/src/experimental).                               *)
(*                                                                         *)
(* An action is what runs between two awaits.  Frames, the handshake and   *)
(* the payloads of calls are left out; the messages of one connection      *)
(* arrive in order.  What the server publishes of attachments waits for    *)
(* the socket of the client to take it, and its sender with it.            *)
(***************************************************************************)
EXTENDS Naturals, Sequences, FiniteSets

CONSTANTS Client,           \* the connections
          Session,          \* the durable sessions
          MaxHosts,         \* bound: handles opened
          MaxAttachments,   \* bound: attachments created
          MaxRequests,      \* bound: management requests
          MaxCalls,         \* bound: session service calls
          MaxCrashes        \* bound: workers that die

ASSUME RouterAssumption ==
  /\ Client # {} /\ Session # {}
  /\ MaxHosts \in Nat \ {0} /\ MaxAttachments \in Nat /\ MaxRequests \in Nat
  /\ MaxCalls \in Nat /\ MaxCrashes \in Nat

VARIABLES conn,         \* is the connection of a client up
          view,         \* the attachment a client was told of last; 0 for none
          sent,         \* what is published to a client and its socket has not taken
          line,         \* the management requests, one at a time for all clients
          job,          \* how far the first of them is
          queue,        \* clientOperations: the operations of a client, one at a time
          host,         \* the handles, and whether they are in hostedSessions
          att,          \* the attachments
          route,        \* attachmentsByClient; 0 for none
          call,         \* the session service calls
          removed,      \* the sessions deleted from the catalogue
          closing,      \* how far close() is
          owed,         \* client operations that close() still waits for
          asked,        \* how many management requests there have been
          crashes,      \* how many workers have died
          lost,         \* history: clients whose last switch failed half way
          late          \* history: clients attached after their connection closed

vars == <<conn, view, sent, line, job, queue, host, att, route, call, removed, closing, owed,
          asked, crashes, lost, late>>

-------------------------------------------------------------------------------
HostId == 1..MaxHosts
AttId  == 1..MaxAttachments
CallId == 1..MaxCalls

Management == {"attach", "detach", "remove", "create"}

Request   == [client : Client, op : Management, session : Session]
Operation == [kind : {"attach", "detach", "disconnect", "call"}, call : 0..MaxCalls]

Job == [pc : {"none", "queued", "detaching", "opening", "discarding", "acquired", "switching",
              "leasing", "undoing", "publishing", "removing", "stopping"},
        host : 0..MaxHosts,       \* hosted
        current : 0..MaxAttachments,
        new : 0..MaxAttachments]

Hosted == [session : Session, mapped : BOOLEAN, handle : {"unused", "open", "stopping", "gone"}]

\* member: it is in hosted.attachments.  lease: the lease and its release;
\* release: what releasing has come to; waits: the operations it waits for.
Attachment == [client : Client, host : HostId, member : BOOLEAN,
               lease : {"none", "acquiring", "failed", "held", "releasing", "released"},
               release : {"no", "draining", "releasing", "done"},
               waits : SUBSET CallId, publish : BOOLEAN]

Call == [att : 0..MaxAttachments, state : {"unused", "queued", "running", "settled"}]

\* up: the attachment begins; otherwise it has ended.
Message == [att : AttId, up : BOOLEAN]

Idle == [pc |-> "none", host |-> 0, current |-> 0, new |-> 0]

Closing == closing # "no"

\* disconnectedClients: from disconnect() to the end of its operation.
Disconnected(c) == \E k \in DOMAIN queue[c] : queue[c][k].kind = "disconnect"

Members(h) == {a \in AttId : att[a].member /\ att[a].host = h}

Running(a) == {k \in CallId : call[k].att = a /\ call[k].state = "running"}

MappedTo(s) == {h \in HostId : host[h].mapped /\ host[h].session = s}

NextAtt  == Cardinality({a \in AttId : att[a].lease # "none"}) + 1
NextHost == Cardinality({h \in HostId : host[h].handle # "unused"}) + 1
NextCall == Cardinality({k \in CallId : call[k].state # "unused"}) + 1

\* publishAttachment, up to the await: nothing is sent to a closed connection.
Publish(c, a, up) ==
  sent' = IF conn[c] THEN [sent EXCEPT ![c] = Append(@, [att |-> a, up |-> up])] ELSE sent

\* send() has not settled: the socket is open and has not taken the bytes.
Pending(a, up) ==
  \E k \in DOMAIN sent[att[a].client] : sent[att[a].client][k] = [att |-> a, up |-> up]

Told(m) == IF m.up THEN m.att ELSE 0

\* What a client knows when it has read all there is.
Informed(c) == IF sent[c] = <<>> THEN view[c] ELSE Told(sent[c][Len(sent[c])])

Operate(q, c, kind, k) == [q EXCEPT ![c] = Append(@, [kind |-> kind, call |-> k])]

\* Faulty variant of Pop: an operation that close() does not wait for is counted.
PopCounted(c) ==
  /\ queue' = [queue EXCEPT ![c] = Tail(@)]
  /\ owed' = [owed EXCEPT ![c] = @ - 1]

\* The first operation of a client ends.
Pop(c) ==
  /\ queue' = [queue EXCEPT ![c] = Tail(@)]
  /\ owed' = [owed EXCEPT ![c] = IF @ = 0 THEN 0 ELSE @ - 1]

At(c, kind) == queue[c] # <<>> /\ Head(queue[c]).kind = kind

First == Head(line)

-------------------------------------------------------------------------------
(***************************************************************************)
(* releaseAttachment.                                                      *)
(***************************************************************************)
\* Faulty variant of Releasing: the operations are not waited for.
ReleasingAtOnce(f, as, publish) ==
  [a \in AttId |->
     IF a \in as /\ f[a].release = "no"
     THEN [f[a] EXCEPT !.release = "draining", !.publish = publish]
     ELSE f[a]]

\* The first call decides whether the end is published; later ones join it.
Releasing(f, as, publish) ==
  [a \in AttId |->
     IF a \in as /\ f[a].release = "no"
     THEN [f[a] EXCEPT !.release = "draining", !.waits = Running(a), !.publish = publish]
     ELSE f[a]]

\* The promise of releaseAttachment has settled, its publication with it.
Released(as) == \A a \in as : att[a].release = "done" /\ ~Pending(a, FALSE)

\* clearAttachment, up to the await.
Clear(a, lease) ==
  LET c == att[a].client
  IN /\ att' = [att EXCEPT ![a].lease = lease, ![a].release = "done", ![a].member = FALSE]
     /\ route' = IF route[c] = a THEN [route EXCEPT ![c] = 0] ELSE route
     /\ IF route[c] = a /\ att[a].publish
        THEN Publish(c, a, FALSE) /\ lost' = lost \ {c}
        ELSE UNCHANGED <<sent, lost>>

\* The operations have settled: lease.release() begins, if the lease was acquired.
Drained(a) ==
  /\ att[a].release = "draining"
  /\ \A k \in att[a].waits : call[k].state = "settled"
  /\ \/ /\ att[a].lease = "held"
        /\ att' = [att EXCEPT ![a].lease = "releasing", ![a].release = "releasing"]
        /\ UNCHANGED <<route, sent, lost>>
     \/ att[a].lease = "failed" /\ Clear(a, "failed")
  /\ UNCHANGED <<conn, view, line, job, queue, host, call, removed, closing, owed, asked, crashes,
                 late>>

\* lease.release() ends, well or not.
EndRelease(a) ==
  /\ att[a].release = "releasing"
  /\ Clear(a, "released")
  /\ UNCHANGED <<conn, view, line, job, queue, host, call, removed, closing, owed, asked, crashes,
                 late>>

-------------------------------------------------------------------------------
(***************************************************************************)
(* The connections and what they ask for.                                  *)
(***************************************************************************)
\* handleRequest, for the services of the server: serialize() puts it in line.
Ask(c, op, s) ==
  /\ conn[c] /\ asked < MaxRequests
  /\ asked' = asked + 1
  /\ line' = Append(line, [client |-> c, op |-> op, session |-> s])
  /\ UNCHANGED <<conn, view, sent, job, queue, host, att, route, call, removed, closing, owed,
                 crashes, lost, late>>

\* executeServiceCall, for the attachment that the client knows.
Invoke(c) ==
  /\ conn[c] /\ view[c] # 0 /\ NextCall <= MaxCalls
  /\ call' = [call EXCEPT ![NextCall] = [att |-> view[c], state |-> "queued"]]
  /\ queue' = Operate(queue, c, "call", NextCall)
  /\ UNCHANGED <<conn, view, sent, line, job, host, att, route, removed, closing, owed, asked,
                 crashes, lost, late>>

\* startServiceCall, requireAttachment.  A worker that is going rejects at once.
Admit(c) ==
  /\ At(c, "call")
  /\ LET k == Head(queue[c]).call
         admitted == ~Closing /\ ~Disconnected(c) /\ route[c] = call[k].att
         served   == admitted /\ host[att[call[k].att].host].handle = "open"
     IN call' = [call EXCEPT ![k].state = IF served THEN "running" ELSE "settled"]
  /\ Pop(c)
  /\ UNCHANGED <<conn, view, sent, line, job, host, att, route, removed, closing, asked, crashes,
                 lost, late>>

Settle(k) ==
  /\ call[k].state = "running"
  /\ call' = [call EXCEPT ![k].state = "settled"]
  /\ UNCHANGED <<conn, view, sent, line, job, queue, host, att, route, removed, closing, owed,
                 asked, crashes, lost, late>>

\* The socket takes what was sent first, and the client reads it.  Nothing makes it.
Take(c) ==
  /\ sent[c] # <<>>
  /\ view' = [view EXCEPT ![c] = Told(Head(sent[c]))]
  /\ sent' = [sent EXCEPT ![c] = Tail(@)]
  /\ UNCHANGED <<conn, line, job, queue, host, att, route, call, removed, closing, owed, asked,
                 crashes, lost, late>>

\* disconnect() of the server for connections cs: what was still to be sent is
\* given up with the socket, and the client drops what it knew.
Disconnecting(cs) ==
  /\ conn' = [c \in Client |-> conn[c] /\ c \notin cs]
  /\ view' = [c \in Client |-> IF c \in cs THEN 0 ELSE view[c]]
  /\ sent' = [c \in Client |-> IF c \in cs THEN <<>> ELSE sent[c]]
  /\ lost' = lost \ cs
  /\ queue' = [c \in Client |->
       IF c \in cs THEN Append(queue[c], [kind |-> "disconnect", call |-> 0]) ELSE queue[c]]

Disconnect(c) ==
  /\ conn[c]
  /\ Disconnecting({c})
  /\ UNCHANGED <<line, job, host, att, route, call, removed, closing, owed, asked, crashes, late>>

\* disconnect(): the operation lasts as long as the release.
BeginRelease(c) ==
  /\ At(c, "disconnect")
  /\ route[c] # 0 /\ att[route[c]].release = "no"
  /\ att' = Releasing(att, {route[c]}, FALSE)
  /\ UNCHANGED <<conn, view, sent, line, job, queue, host, route, call, removed, closing, owed,
                 asked, crashes, lost, late>>

\* Faulty variant of EndDisconnect: what the client holds is left.
EndDisconnectHolding(c) ==
  /\ At(c, "disconnect")
  /\ Pop(c)
  /\ UNCHANGED <<conn, view, sent, line, job, host, att, route, call, removed, closing, asked,
                 crashes, lost, late>>

EndDisconnect(c) ==
  /\ At(c, "disconnect") /\ route[c] = 0
  /\ Pop(c)
  /\ UNCHANGED <<conn, view, sent, line, job, host, att, route, call, removed, closing, asked,
                 crashes, lost, late>>

-------------------------------------------------------------------------------
(***************************************************************************)
(* The line: its first request.                                            *)
(***************************************************************************)
\* The request is over: the next one begins.
Done == line' = Tail(line) /\ job' = Idle

\* attachClient() and detachClient() queue an operation of the client.
Enter ==
  /\ line # <<>> /\ job = Idle /\ First.op \in {"attach", "detach"}
  /\ IF First.op = "attach" /\ Closing
     THEN Done /\ UNCHANGED queue
     ELSE /\ job' = [Idle EXCEPT !.pc = "queued"]
          /\ queue' = Operate(queue, First.client, First.op, 0)
          /\ UNCHANGED line
  /\ UNCHANGED <<conn, view, sent, host, att, route, call, removed, closing, owed, asked, crashes,
                 lost, late>>

\* Faulty variant of StartDetach: the end of the attachment is not published.
StartDetachSilently ==
  /\ job.pc = "queued" /\ At(First.client, "detach")
  /\ LET current == route[First.client]
     IN IF current = 0
        THEN Pop(First.client) /\ Done /\ UNCHANGED att
        ELSE /\ job' = [job EXCEPT !.pc = "detaching", !.current = current]
             /\ att' = Releasing(att, {current}, FALSE)
             /\ UNCHANGED <<queue, owed, line>>
  /\ UNCHANGED <<conn, view, sent, host, route, call, removed, closing, asked, crashes, lost,
                 late>>

\* detachClient, up to the await of the release.
StartDetach ==
  /\ job.pc = "queued" /\ At(First.client, "detach")
  /\ LET current == route[First.client]
     IN IF current = 0
        THEN Pop(First.client) /\ Done /\ UNCHANGED att
        ELSE /\ job' = [job EXCEPT !.pc = "detaching", !.current = current]
             /\ att' = Releasing(att, {current}, TRUE)
             /\ UNCHANGED <<queue, owed, line>>
  /\ UNCHANGED <<conn, view, sent, host, route, call, removed, closing, asked, crashes, lost,
                 late>>

EndDetach ==
  /\ job.pc = "detaching" /\ Released({job.current})
  /\ Pop(First.client) /\ Done
  /\ UNCHANGED <<conn, view, sent, host, att, route, call, removed, closing, asked, crashes, lost,
                 late>>

\* create() of another session: it only takes its time.
Create ==
  /\ line # <<>> /\ First.op = "create"
  /\ Done
  /\ UNCHANGED <<conn, view, sent, queue, host, att, route, call, removed, closing, owed, asked,
                 crashes, lost, late>>

-------------------------------------------------------------------------------
(***************************************************************************)
(* attachClientNow.                                                        *)
(***************************************************************************)
Asker == First.client

Refused == Closing \/ Disconnected(Asker)

\* The connection was forgotten before the attach began: its context is aborted.
Forgotten(c) == ~conn[c] /\ ~Disconnected(c)

EndAttach == Pop(Asker) /\ Done

\* Up to the await of acquire().
StartAttach ==
  /\ job.pc = "queued" /\ At(Asker, "attach")
  /\ LET current == route[Asker]
         same    == current # 0 /\ host[att[current].host].session = First.session
         hosted  == MappedTo(First.session)
     IN IF Refused \/ same
        THEN EndAttach
        ELSE /\ job' = [Idle EXCEPT !.pc = IF hosted = {} THEN "opening" ELSE "acquired",
                                    !.current = current,
                                    !.host = IF hosted = {} THEN 0 ELSE CHOOSE h \in hosted : TRUE]
             /\ UNCHANGED <<queue, owed, line>>
  /\ late' = IF Forgotten(Asker) /\ ~Refused /\ MappedTo(First.session) # {}
             THEN late \cup {Asker} ELSE late
  /\ UNCHANGED <<conn, view, sent, host, att, route, call, removed, closing, asked, crashes,
                 lost>>

\* open(): resolveSession rejects when its context is aborted.  A handle opened
\* while the server closes is closed again.
Open ==
  /\ job.pc = "opening" /\ First.session \notin removed /\ NextHost <= MaxHosts
  /\ ~Forgotten(Asker)
  /\ host' = [host EXCEPT ![NextHost] =
       [session |-> First.session, mapped |-> ~Closing,
        handle |-> IF Closing THEN "stopping" ELSE "open"]]
  /\ job' = [job EXCEPT !.pc = IF Closing THEN "discarding" ELSE "acquired", !.host = NextHost]
  /\ UNCHANGED <<conn, view, sent, line, queue, att, route, call, removed, closing, owed, asked,
                 crashes, lost, late>>

\* Faulty variant of OpenFails: the failure does not end the request in line.
OpenFailsInLine ==
  /\ \/ job.pc = "opening"
     \/ job.pc = "discarding" /\ host[job.host].handle = "gone"
  /\ Pop(Asker) /\ job' = [Idle EXCEPT !.pc = "queued"]
  /\ UNCHANGED <<conn, view, sent, line, host, att, route, call, removed, closing, asked, crashes,
                 lost, late>>

\* resolveSession or openSession fails, or the handle is closed again.
OpenFails ==
  /\ \/ job.pc = "opening"
     \/ job.pc = "discarding" /\ host[job.host].handle = "gone"
  /\ EndAttach
  /\ UNCHANGED <<conn, view, sent, host, att, route, call, removed, closing, asked, crashes, lost,
                 late>>

\* Faulty variant of Acquired: the current attachment is kept.
AcquiredBeside ==
  /\ job.pc = "acquired"
  /\ IF Refused
     THEN EndAttach
     ELSE job' = [job EXCEPT !.pc = "switching", !.current = 0] /\ UNCHANGED <<queue, owed, line>>
  /\ UNCHANGED <<conn, view, sent, host, att, route, call, removed, closing, asked, crashes, lost,
                 late>>

\* The session is there: the current attachment goes first, unpublished.
Acquired ==
  /\ job.pc = "acquired"
  /\ IF Refused
     THEN EndAttach /\ UNCHANGED att
     ELSE /\ job' = [job EXCEPT !.pc = "switching"]
          /\ att' = IF job.current = 0 THEN att ELSE Releasing(att, {job.current}, FALSE)
          /\ UNCHANGED <<queue, owed, line>>
  /\ UNCHANGED <<conn, view, sent, host, route, call, removed, closing, asked, crashes, lost,
                 late>>

\* The attachment is created and its lease asked for.
Lease ==
  /\ job.pc = "switching" /\ NextAtt <= MaxAttachments
  /\ job.current # 0 => Released({job.current})
  /\ att' = [att EXCEPT ![NextAtt] =
       [client |-> Asker, host |-> job.host, member |-> TRUE, lease |-> "acquiring",
        release |-> "no", waits |-> {}, publish |-> FALSE]]
  /\ job' = [job EXCEPT !.pc = "leasing", !.new = NextAtt]
  /\ UNCHANGED <<conn, view, sent, line, queue, host, route, call, removed, closing, owed, asked,
                 crashes, lost, late>>

\* A switch that ends with neither attachment, and nothing published.
Losing == IF Informed(Asker) # 0 /\ route[Asker] = 0 THEN lost \cup {Asker} ELSE lost

LeaseFails ==
  /\ job.pc = "leasing"
  /\ att' = [att EXCEPT ![job.new].lease = "failed", ![job.new].member = FALSE]
  /\ EndAttach
  /\ lost' = Losing
  /\ UNCHANGED <<conn, view, sent, host, route, call, removed, closing, asked, crashes, late>>

\* The session, the attachment, the client and the server are still there.
StillWanted(a) == host[job.host].mapped /\ att[a].member /\ ~Refused

LeaseHeld ==
  /\ job.pc = "leasing"
  /\ LET held == [att EXCEPT ![job.new].lease = "held"]
     IN IF StillWanted(job.new)
        THEN /\ att' = held
             /\ route' = [route EXCEPT ![Asker] = job.new]
             /\ Publish(Asker, job.new, TRUE)
             /\ lost' = lost \ {Asker}
             /\ job' = [job EXCEPT !.pc = "publishing"]
        ELSE /\ att' = Releasing(held, {job.new}, TRUE)
             /\ job' = [job EXCEPT !.pc = "undoing"]
             /\ UNCHANGED <<route, sent, lost>>
  /\ UNCHANGED <<conn, view, line, queue, host, call, removed, closing, owed, asked, crashes,
                 late>>

\* The client's socket has taken the attachment, or is closed.
Attached ==
  /\ job.pc = "publishing" /\ ~Pending(job.new, TRUE)
  /\ EndAttach
  /\ UNCHANGED <<conn, view, sent, host, att, route, call, removed, closing, asked, crashes, lost,
                 late>>

Undone ==
  /\ job.pc = "undoing" /\ Released({job.new})
  /\ EndAttach
  /\ lost' = Losing
  /\ UNCHANGED <<conn, view, sent, host, att, route, call, removed, closing, asked, crashes,
                 late>>

-------------------------------------------------------------------------------
(***************************************************************************)
(* removeSession, workers, close.                                          *)
(***************************************************************************)
\* Handles hs begin to close: what runs on their workers is rejected.
Stopping(hs) ==
  /\ host' = [h \in HostId |-> IF h \in hs /\ host[h].handle = "open"
                               THEN [host[h] EXCEPT !.handle = "stopping"] ELSE host[h]]
  /\ call' = [k \in CallId |-> IF call[k].state = "running" /\ att[call[k].att].host \in hs
                               THEN [call[k] EXCEPT !.state = "settled"] ELSE call[k]]

\* The session may be deleted, unless the context of the request is aborted.
Deleting == removed' \in {removed} \cup IF conn[Asker] THEN {removed \cup {First.session}} ELSE {}

StartRemove ==
  /\ line # <<>> /\ job = Idle /\ First.op = "remove"
  /\ LET hosted == MappedTo(First.session)
     IN \/ /\ Closing
           /\ Done /\ UNCHANGED <<att, removed>>
        \/ /\ ~Closing /\ hosted = {}
           /\ Done /\ Deleting /\ UNCHANGED att
        \/ /\ ~Closing /\ hosted # {}
           /\ LET h == CHOOSE h \in hosted : TRUE
              IN /\ job' = [Idle EXCEPT !.pc = "removing", !.host = h]
                 /\ att' = Releasing(att, Members(h), TRUE)
           /\ UNCHANGED <<line, removed>>
  /\ UNCHANGED <<conn, view, sent, queue, host, route, call, closing, owed, asked, crashes, lost,
                 late>>

\* The attachments there were are released, and their ends taken: the handle is
\* closed.
StopRemoved ==
  /\ job.pc = "removing" /\ Members(job.host) = {}
  /\ \A a \in AttId : att[a].host = job.host => ~Pending(a, FALSE)
  /\ Stopping({job.host})
  /\ job' = [job EXCEPT !.pc = "stopping"]
  /\ UNCHANGED <<conn, view, sent, line, queue, att, route, removed, closing, owed, asked,
                 crashes, lost, late>>

\* Not deleted if a release failed.
EndRemove ==
  /\ job.pc = "stopping" /\ host[job.host].handle = "gone"
  /\ host' = [host EXCEPT ![job.host].mapped = FALSE]
  /\ Deleting
  /\ Done
  /\ UNCHANGED <<conn, view, sent, queue, att, route, call, closing, owed, asked, crashes, lost,
                 late>>

Gone(h) == host' = [host EXCEPT ![h].handle = "gone"]

\* The worker has terminated, killed if it must be.  A close() that rejects is
\* left out.
Stopped(h) ==
  /\ host[h].handle = "stopping"
  /\ Gone(h)
  /\ UNCHANGED <<conn, view, sent, line, job, queue, att, route, call, removed, closing, owed,
                 asked, crashes, lost, late>>

\* A worker dies, or retires for want of demand.
Crash(h) ==
  /\ host[h].handle = "open" /\ crashes < MaxCrashes
  /\ crashes' = crashes + 1
  /\ Gone(h)
  /\ call' = [k \in CallId |-> IF call[k].state = "running" /\ att[call[k].att].host = h
                               THEN [call[k] EXCEPT !.state = "settled"] ELSE call[k]]
  /\ UNCHANGED <<conn, view, sent, line, job, queue, att, route, removed, closing, owed, asked,
                 lost, late>>

\* handle.terminated, invalidate().
Invalidate(h) ==
  /\ host[h].handle = "gone" /\ host[h].mapped
  /\ host' = [host EXCEPT ![h].mapped = FALSE]
  /\ att' = Releasing(att, Members(h), TRUE)
  /\ UNCHANGED <<conn, view, sent, line, job, queue, route, call, removed, closing, owed, asked,
                 crashes, lost, late>>

\* close() of the server, up to its listeners.
Close ==
  /\ closing = "no"
  /\ closing' = "listeners"
  /\ UNCHANGED <<conn, view, sent, line, job, queue, host, att, route, call, removed, owed, asked,
                 crashes, lost, late>>

\* closeServerState: every connection is disconnected; closeInternal waits for
\* the client operations there are.
CloseConnections ==
  /\ closing = "listeners"
  /\ Disconnecting({c \in Client : conn[c]})
  /\ owed' = [c \in Client |-> Len(queue'[c])]
  /\ closing' = "operations"
  /\ UNCHANGED <<line, job, host, att, route, call, removed, asked, crashes, late>>

MappedHosts == {h \in HostId : host[h].mapped}

\* Faulty variant of CloseAttachments: an attach that is under way is not waited for.
CloseAttachmentsEarly ==
  /\ closing = "operations"
  /\ att' = Releasing(att, UNION {Members(h) : h \in MappedHosts}, TRUE)
  /\ closing' = "attachments"
  /\ UNCHANGED <<conn, view, sent, line, job, queue, host, route, call, removed, owed, asked,
                 crashes, lost, late>>

CloseAttachments ==
  /\ closing = "operations" /\ \A c \in Client : owed[c] = 0
  /\ att' = Releasing(att, UNION {Members(h) : h \in MappedHosts}, TRUE)
  /\ closing' = "attachments"
  /\ UNCHANGED <<conn, view, sent, line, job, queue, host, route, call, removed, owed, asked,
                 crashes, lost, late>>

CloseHandles ==
  /\ closing = "attachments" /\ \A h \in MappedHosts : Members(h) = {}
  /\ Stopping(MappedHosts)
  /\ closing' = "handles"
  /\ UNCHANGED <<conn, view, sent, line, job, queue, att, route, removed, owed, asked, crashes,
                 lost, late>>

EndClose ==
  /\ closing = "handles" /\ \A h \in MappedHosts : host[h].handle = "gone"
  /\ host' = [h \in HostId |-> [host[h] EXCEPT !.mapped = FALSE]]
  /\ route' = [c \in Client |-> 0]
  /\ closing' = "closed"
  /\ UNCHANGED <<conn, view, sent, line, job, queue, att, call, removed, owed, asked, crashes,
                 lost, late>>

-------------------------------------------------------------------------------
Init ==
  /\ conn = [c \in Client |-> TRUE] /\ view = [c \in Client |-> 0]
  /\ sent = [c \in Client |-> <<>>]
  /\ line = <<>> /\ job = Idle
  /\ queue = [c \in Client |-> <<>>]
  /\ host = [h \in HostId |-> [session |-> CHOOSE s \in Session : TRUE, mapped |-> FALSE,
                               handle |-> "unused"]]
  /\ att = [a \in AttId |->
       [client |-> CHOOSE c \in Client : TRUE, host |-> 1, member |-> FALSE, lease |-> "none",
        release |-> "no", waits |-> {}, publish |-> FALSE]]
  /\ route = [c \in Client |-> 0]
  /\ call = [k \in CallId |-> [att |-> 0, state |-> "unused"]]
  /\ removed = {} /\ closing = "no" /\ owed = [c \in Client |-> 0]
  /\ asked = 0 /\ crashes = 0 /\ lost = {} /\ late = {}

Router ==
  \/ \E a \in AttId : Drained(a) \/ EndRelease(a)
  \/ \E c \in Client : Admit(c) \/ BeginRelease(c) \/ EndDisconnect(c)
  \/ Enter \/ StartDetach \/ EndDetach \/ Create
  \/ StartAttach \/ Open \/ OpenFails \/ Acquired
  \/ Lease \/ LeaseFails \/ LeaseHeld \/ Attached \/ Undone
  \/ StartRemove \/ StopRemoved \/ EndRemove
  \/ CloseConnections \/ CloseAttachments \/ CloseHandles \/ EndClose

Workers ==
  \/ \E h \in HostId : Stopped(h) \/ Invalidate(h)
  \/ \E k \in CallId : Settle(k)

Environment ==
  \/ \E c \in Client : \/ \E op \in Management, s \in Session : Ask(c, op, s)
                       \/ Invoke(c) \/ Take(c) \/ Disconnect(c)
  \/ \E h \in HostId : Crash(h)
  \/ Close

Next == Router \/ Workers \/ Environment

Spec == Init /\ [][Next]_vars

\* The promises of the server are carried on, a worker answers or dies, and a
\* handle that is closed ends; what they can do is bounded.  A client need not
\* read.
FairSpec == Spec /\ WF_vars(Router \/ Workers)

-------------------------------------------------------------------------------
(***************************************************************************)
(* Properties.                                                             *)
(***************************************************************************)
TypeOK ==
  /\ conn \in [Client -> BOOLEAN] /\ view \in [Client -> 0..MaxAttachments]
  /\ sent \in [Client -> Seq(Message)]
  /\ line \in Seq(Request) /\ job \in Job
  /\ queue \in [Client -> Seq(Operation)]
  /\ host \in [HostId -> Hosted] /\ att \in [AttId -> Attachment]
  /\ route \in [Client -> 0..MaxAttachments] /\ call \in [CallId -> Call]
  /\ removed \subseteq Session
  /\ closing \in {"no", "listeners", "operations", "attachments", "handles", "closed"}
  /\ owed \in [Client -> Nat]
  /\ asked \in 0..MaxRequests /\ crashes \in 0..MaxCrashes
  /\ lost \subseteq Client /\ late \subseteq Client

\* A lease that nobody has begun to release is the one its client is routed to,
\* in a session that is hosted: detaching, removing the session, its worker's end
\* and close() all find it.
HeldIsRouted ==
  \A a \in AttId : att[a].lease = "held" /\ att[a].release = "no" =>
    /\ route[att[a].client] = a
    /\ att[a].member /\ host[att[a].host].mapped

\* README.md of the server: an attachment is released only after the admitted
\* calls settle.  A removal only waits for the calls there were when it began;
\* closing the handle ends the others.
ReleasedQuiet ==
  \A k \in CallId : call[k].state = "running" =>
    \/ att[call[k].att].lease = "held"
    \/ job.pc \in {"removing", "stopping"} /\ att[call[k].att].host = job.host

\* A client that has read all there is knows the attachment it is routed to, and
\* none when it is routed to none, but while an attach of its own is under way.  A
\* switch that fails after it has released the old attachment leaves the client
\* with that.
ViewFollows ==
  \A c \in Client : conn[c] =>
    \/ Informed(c) = route[c]
    \/ job.pc \in {"switching", "leasing", "undoing"} /\ Asker = c
    \/ c \in lost

\* After close() no worker is left to this server and no lease is held that
\* nobody releases.
CloseReleasesAll ==
  closing = "closed" =>
    /\ \A h \in HostId : host[h].handle \in {"unused", "gone"}
    /\ \A a \in AttId : /\ att[a].lease # "acquiring"
                        /\ att[a].lease = "held" => att[a].release # "no"

Holds(c) == {a \in AttId : att[a].client = c /\ att[a].lease \in {"acquiring", "held", "releasing"}}

\* conformance.test.ts: connection loss releases its attachment.
ConnectionLossReleases == \A c \in Client : ~conn[c] ~> Holds(c) = {}

\* It does, but for a client whose attach to a session that is hosted was still in
\* line: it is attached when its connection has been forgotten.  (A connection
\* stays lost.)
LossReleasesUnlessLate == []<>(\A c \in Client : ~conn[c] => Holds(c) = {} \/ c \in late)

\* If every client takes what is sent to it, or goes, no request waits for ever
\* behind another, nor close() for what it waits for: the line is empty again and
\* again, and what is closing is closed at last.  send() has no time limit, so a
\* client that is connected and does not read holds its own attach or the removal
\* of its session, and the requests of all clients behind it.
RequestsEnd ==
  (\A c \in Client : []<>(sent[c] = <<>>)) => []<>(line = <<>> /\ (Closing => closing = "closed"))
=============================================================================
