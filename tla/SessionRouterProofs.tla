-------------------------- MODULE SessionRouterProofs --------------------------
(***************************************************************************)
(* Proofs about SessionRouter, for every set of clients and sessions and   *)
(* every bound.                                                            *)
(***************************************************************************)
EXTENDS SessionRouter, NaturalSets

-------------------------------------------------------------------------------
(***************************************************************************)
(* The inductive invariant.                                                *)
(***************************************************************************)
Attaching == {"opening", "discarding", "acquired", "switching", "leasing", "undoing",
              "publishing"}
Removing  == {"removing", "stopping"}

\* Identifiers are given out in order.
Numbered ==
  /\ \A a, b \in AttId : b <= a /\ att[a].lease # "none" => att[b].lease # "none"
  /\ \A h, g \in HostId : g <= h /\ host[h].handle # "unused" => host[g].handle # "unused"

\* What releasing has come to, and the lease.
Leases == \A a \in AttId : att[a].release = "releasing" <=> att[a].lease = "releasing"

\* The job is that of the first request.
LineOK ==
  /\ job.pc = "none" => job = Idle
  /\ job.pc # "none" => line # <<>>
  /\ job.pc \in Attaching \cup {"queued", "detaching"} => First.op \in {"attach", "detach"}
  /\ job.pc \in Removing => First.op = "remove"
  /\ job.pc \in Attaching \cup Removing => job.pc = "opening" \/ job.host \in HostId

\* An attach or a detach that has started is the operation its client is at.
AtWork ==
  /\ job.pc \in Attaching => At(Asker, "attach")
  /\ job.pc = "detaching" => At(Asker, "detach")

\* The attachment that an attach replaces is released before the new one is
\* created; a detach releases the only one.
SwitchOK ==
  /\ job.pc \in {"detaching", "opening", "acquired", "switching"} =>
       /\ route[Asker] \in {0, job.current}
       /\ job.current # 0 => att[job.current].client = Asker
  /\ job.pc = "switching" /\ job.current # 0 => att[job.current].release # "no"

LeasingOK ==
  /\ job.pc \in {"leasing", "undoing"} => job.new \in AttId /\ route[Asker] = 0
  /\ job.pc = "leasing" =>
       /\ att[job.new].client = Asker /\ att[job.new].host = job.host
       /\ att[job.new].lease = "acquiring"
       /\ att[job.new].release = "no" \/ ~host[job.host].mapped
  /\ \A a \in AttId : att[a].lease = "acquiring" => job.pc = "leasing" /\ job.new = a

\* A client is routed to an attachment of its own, until that is released.
RouteOK ==
  \A c \in Client : route[c] # 0 =>
    /\ route[c] \in AttId
    /\ att[route[c]].client = c /\ att[route[c]].member
    /\ att[route[c]].lease \in {"held", "releasing"} /\ att[route[c]].release # "done"

\* While the attachment of a client is released, something keeps the client from
\* its calls.
EndingOK ==
  \A c \in Client : route[c] # 0 /\ att[route[c]].release # "no" =>
    \/ At(c, "detach") \/ At(c, "disconnect")
    \/ job.pc = "switching" /\ Asker = c
    \/ job.pc = "removing" /\ job.host = att[route[c]].host
    \/ host[att[route[c]].host].handle = "gone"
    \/ Closing

\* An end that is not published is that of a switch or of a lost connection.
PublishOK ==
  \A c \in Client : route[c] # 0 /\ conn[c] =>
    \/ att[route[c]].release = "no" \/ att[route[c]].publish
    \/ job.pc = "switching" /\ Asker = c

HostOK ==
  \A h \in HostId :
    /\ host[h].mapped => host[h].handle # "unused"
    /\ host[h].mapped \/ \/ host[h].handle \in {"unused", "gone"}
                         \/ job.pc = "discarding" /\ job.host = h /\ host[h].handle = "stopping"

\* When a removed session is closed, it has no attachments.
EmptiedOK == job.pc = "stopping" => \A a \in AttId : ~(att[a].member /\ att[a].host = job.host)

\* A running call is waited for, or its attachment is not released yet; but for
\* the removal, which only waits for the calls there were.
CallOK ==
  \A k \in CallId : call[k].state = "running" =>
    /\ call[k].att \in AttId
    /\ host[att[call[k].att].host].handle = "open"
    /\ \/ /\ att[call[k].att].lease = "held"
          /\ \/ att[call[k].att].release = "no"
             \/ att[call[k].att].release = "draining" /\ k \in att[call[k].att].waits
       \/ job.pc \in Removing /\ att[call[k].att].host = job.host

\* What waits in the queues.
QueueOK ==
  \A c \in Client : \A i \in DOMAIN queue[c] :
    /\ queue[c][i].kind = "call" =>
         queue[c][i].call \in CallId /\ call[queue[c][i].call].att \in AttId
    /\ queue[c][i].kind = "disconnect" => ~conn[c]
    /\ queue[c][i].kind = "attach" =>
         closing \in {"no", "listeners"} \/ i <= owed[c]

\* close() goes from stage to stage; from the third no attach is under way.
CloseOK ==
  /\ closing \notin {"no", "listeners"} => \A c \in Client : ~conn[c]
  /\ closing \in {"attachments", "handles", "closed"} =>
       /\ \A c \in Client : owed[c] = 0
       /\ \A a \in AttId : att[a].lease = "held" => att[a].release # "no"
  /\ closing = "closed" => \A h \in HostId : ~host[h].mapped

IInv == /\ TypeOK /\ Numbered /\ Leases /\ LineOK /\ AtWork /\ SwitchOK /\ LeasingOK
        /\ RouteOK /\ HeldIsRouted /\ EndingOK /\ PublishOK
        /\ HostOK /\ EmptiedOK /\ CallOK /\ QueueOK /\ CloseOK /\ ViewFollows

-------------------------------------------------------------------------------
(***************************************************************************)
(* The helpers.                                                            *)
(***************************************************************************)
LEMMA NextHostIsFree ==
  ASSUME TypeOK, Numbered
  PROVE  /\ NextHost \in Nat \ {0}
         /\ NextHost <= MaxHosts => NextHost \in HostId /\ host[NextHost].handle = "unused"
         /\ \A h \in HostId : host[h].handle # "unused" <=> h < NextHost
<1> DEFINE S == {h \in HostId : host[h].handle # "unused"}
<1>1. S \in SUBSET (1..MaxHosts) /\ MaxHosts \in Nat
  BY RouterAssumption DEF HostId
<1>2. \A h \in S : \A g \in 1..MaxHosts : g <= h => g \in S
  BY DEF Numbered, HostId
<1>3. Cardinality(S) \in Nat /\ S = 1..Cardinality(S)
  BY <1>1, <1>2, SegmentIs
<1>4. NextHost = Cardinality(S) + 1
  BY DEF NextHost
<1>5. NextHost \in Nat \ {0} /\ \A h \in HostId : h \in S <=> h < NextHost
  <2>1. \A h \in 1..MaxHosts : h \in 1..Cardinality(S) <=> h < Cardinality(S) + 1
    BY <1>1, <1>3
  <2> HIDE DEF S
  <2> QED
    BY <1>1, <1>3, <1>4, <2>1 DEF HostId
<1>6. NextHost <= MaxHosts => NextHost \in HostId
  BY <1>1, <1>5 DEF HostId
<1> QED
  BY <1>5, <1>6

LEMMA NextAttIsFree ==
  ASSUME TypeOK, Numbered
  PROVE  /\ NextAtt \in Nat \ {0}
         /\ NextAtt <= MaxAttachments => NextAtt \in AttId /\ att[NextAtt].lease = "none"
         /\ \A a \in AttId : att[a].lease # "none" <=> a < NextAtt
<1> DEFINE S == {a \in AttId : att[a].lease # "none"}
<1>1. S \in SUBSET (1..MaxAttachments) /\ MaxAttachments \in Nat
  BY RouterAssumption DEF AttId
<1>2. \A a \in S : \A b \in 1..MaxAttachments : b <= a => b \in S
  BY DEF Numbered, AttId
<1>3. Cardinality(S) \in Nat /\ S = 1..Cardinality(S)
  BY <1>1, <1>2, SegmentIs
<1>4. NextAtt = Cardinality(S) + 1
  BY DEF NextAtt
<1>5. NextAtt \in Nat \ {0} /\ \A a \in AttId : a \in S <=> a < NextAtt
  <2>1. \A a \in 1..MaxAttachments : a \in 1..Cardinality(S) <=> a < Cardinality(S) + 1
    BY <1>1, <1>3
  <2> HIDE DEF S
  <2> QED
    BY <1>1, <1>3, <1>4, <2>1 DEF AttId
<1>6. NextAtt <= MaxAttachments => NextAtt \in AttId
  BY <1>1, <1>5 DEF AttId
<1> QED
  BY <1>5, <1>6

LEMMA NextCallIs == NextCall <= MaxCalls => NextCall \in CallId
<1> DEFINE S == {k \in CallId : call[k].state # "unused"}
<1>1. S \in SUBSET (0..MaxCalls) /\ MaxCalls \in Nat
  BY RouterAssumption DEF CallId
<1>2. Cardinality(S) \in Nat
  BY <1>1, BoundedIsFinite
<1>3. NextCall = Cardinality(S) + 1
  BY DEF NextCall
<1> QED
  BY <1>1, <1>2, <1>3 DEF CallId

\* Releasing changes nothing but how far the release of the chosen ones is.
LEMMA ReleasingIs ==
  ASSUME NEW f \in [AttId -> Attachment], NEW as, NEW p \in BOOLEAN
  PROVE  /\ Releasing(f, as, p) \in [AttId -> Attachment]
         /\ \A a \in AttId : LET r == Releasing(f, as, p)[a] IN
              /\ r.client = f[a].client /\ r.host = f[a].host
              /\ r.member = f[a].member /\ r.lease = f[a].lease
              /\ a \in as /\ f[a].release = "no" =>
                   r.release = "draining" /\ r.waits = Running(a) /\ r.publish = p
              /\ ~(a \in as /\ f[a].release = "no") => r = f[a]
<1>1. \A a \in AttId : Running(a) \in SUBSET CallId
  BY DEF Running
<1> QED
  BY <1>1, ZenonT(60) DEF Releasing, Attachment

\* The first operation of a client, and what joins or leaves its queue.
LEMMA AppendIs ==
  ASSUME NEW s \in Seq(Operation), NEW o \in Operation
  PROVE  /\ Append(s, o) \in Seq(Operation) /\ Append(s, o) # <<>>
         /\ DOMAIN Append(s, o) = 1..(Len(s) + 1) /\ DOMAIN s = 1..Len(s) /\ Len(s) \in Nat
         /\ Len(Append(s, o)) = Len(s) + 1
         /\ \A i \in DOMAIN s : Append(s, o)[i] = s[i]
         /\ Append(s, o)[Len(s) + 1] = o
         /\ s # <<>> => Head(Append(s, o)) = Head(s)
BY SMTT(30)

LEMMA TailIs ==
  ASSUME NEW s \in Seq(Operation), s # <<>>
  PROVE  /\ Tail(s) \in Seq(Operation) /\ Head(s) \in Operation /\ Head(s) = s[1]
         /\ DOMAIN s = 1..Len(s) /\ Len(s) \in Nat \ {0}
         /\ DOMAIN Tail(s) = 1..(Len(s) - 1)
         /\ \A i \in DOMAIN Tail(s) : i + 1 \in DOMAIN s /\ Tail(s)[i] = s[i + 1]
OBVIOUS

\* What follows from the invariant for the first request.
LEMMA AskerIs ==
  ASSUME TypeOK, line # <<>>
  PROVE  /\ First \in Request /\ Asker \in Client /\ First.session \in Session
         /\ First.op \in Management /\ Tail(line) \in Seq(Request)
<1>1. Head(line) \in Request /\ Tail(line) \in Seq(Request)
  BY DEF TypeOK
<1> QED
  BY <1>1 DEF First, Asker, Request

\* What an operation that joins a client's queue leaves as it was.
LEMMA QueueGrows ==
  ASSUME TypeOK, NEW c \in Client, NEW kind, NEW k, [kind |-> kind, call |-> k] \in Operation,
         queue' = Operate(queue, c, kind, k)
  PROVE  /\ queue' \in [Client -> Seq(Operation)]
         /\ \A d \in Client : queue[d] # <<>> => queue'[d] # <<>> /\ Head(queue'[d]) = Head(queue[d])
         /\ \A d \in Client : \A i \in DOMAIN queue'[d] :
              \/ i \in DOMAIN queue[d] /\ queue'[d][i] = queue[d][i]
              \/ d = c /\ queue'[d][i] = [kind |-> kind, call |-> k]
<1> DEFINE o == [kind |-> kind, call |-> k]
<1>1. queue[c] \in Seq(Operation) /\ queue'[c] = Append(queue[c], o)
      /\ queue' \in [Client -> Seq(Operation)] /\ \A d \in Client : d # c => queue'[d] = queue[d]
  <2>1. queue[c] \in Seq(Operation) /\ Append(queue[c], o) \in Seq(Operation)
    BY DEF TypeOK
  <2>2. queue' = [queue EXCEPT ![c] = Append(@, o)]
    BY DEF Operate
  <2> HIDE DEF o
  <2> QED
    BY <2>1, <2>2 DEF TypeOK
<1> HIDE DEF o
<1>2. /\ queue[c] # <<>> => queue'[c] # <<>> /\ Head(queue'[c]) = Head(queue[c])
      /\ \A i \in DOMAIN queue'[c] :
           (i \in DOMAIN queue[c] /\ queue'[c][i] = queue[c][i]) \/ queue'[c][i] = o
  <2>1. o \in Operation
    BY DEF o
  <2> QED
    BY <1>1, <2>1, AppendIs
<1> QED
  BY <1>1, <1>2 DEF o

\* The last message of a client, when another joins it or the first one leaves.
LEMMA MessagesAre ==
  ASSUME NEW s \in Seq(Message)
  PROVE  /\ \A m \in Message : /\ Append(s, m) \in Seq(Message) /\ Append(s, m) # <<>>
                                /\ Append(s, m)[Len(Append(s, m))] = m
         /\ s # <<>> => /\ Head(s) \in Message /\ Tail(s) \in Seq(Message)
                        /\ Tail(s) = <<>> => Head(s) = s[Len(s)]
                        /\ Tail(s) # <<>> => Tail(s)[Len(Tail(s))] = s[Len(s)]
<1>1. ASSUME NEW m \in Message
      PROVE  /\ Append(s, m) \in Seq(Message) /\ Append(s, m) # <<>>
             /\ Append(s, m)[Len(Append(s, m))] = m
  BY SMTT(30)
<1>2. ASSUME s # <<>>
      PROVE  /\ Head(s) \in Message /\ Tail(s) \in Seq(Message)
             /\ Tail(s) = <<>> => Head(s) = s[Len(s)]
             /\ Tail(s) # <<>> => Tail(s)[Len(Tail(s))] = s[Len(s)]
  <2>1. /\ Head(s) \in Message /\ Tail(s) \in Seq(Message) /\ Head(s) = s[1]
        /\ Len(s) \in Nat \ {0} /\ Len(Tail(s)) = Len(s) - 1
        /\ \A i \in 1..(Len(s) - 1) : Tail(s)[i] = s[i + 1]
    BY <1>2
  <2>2. Tail(s) = <<>> => Len(s) = 1
    <3>1. Len(<<>>) = 0
      OBVIOUS
    <3>2. Tail(s) = <<>> => Len(Tail(s)) = Len(<<>>)
      BY Zenon
    <3> QED
      BY <2>1, <3>1, <3>2
  <2>3. Tail(s) # <<>> => Len(s) - 1 \in 1..(Len(s) - 1)
    BY <2>1
  <2> QED
    BY <2>1, <2>2, <2>3
<1> QED
  BY <1>1, <1>2

\* What a publication changes of what the clients are told.
LEMMA PublishIs ==
  ASSUME TypeOK, NEW c \in Client, NEW a \in AttId, NEW up \in BOOLEAN, Publish(c, a, up),
         view' = view
  PROVE  /\ sent' \in [Client -> Seq(Message)]
         /\ \A d \in Client : d # c => Informed(d)' = Informed(d)
         /\ conn[c] => Informed(c)' = IF up THEN a ELSE 0
<1> DEFINE m == [att |-> a, up |-> up]
<1>1. sent \in [Client -> Seq(Message)] /\ sent[c] \in Seq(Message)
  BY DEF TypeOK
<1>2. m \in Message
  BY DEF Message
<1>3. Told(m) = IF up THEN a ELSE 0
  BY DEF Told
<1>4. sent' = IF conn[c] THEN [sent EXCEPT ![c] = Append(@, m)] ELSE sent
  BY DEF Publish
<1> HIDE DEF m
<1>5. /\ Append(sent[c], m) \in Seq(Message) /\ Append(sent[c], m) # <<>>
      /\ Append(sent[c], m)[Len(Append(sent[c], m))] = m
  BY <1>1, <1>2, MessagesAre
<1>6. CASE conn[c]
  <2>1. sent' \in [Client -> Seq(Message)] /\ sent'[c] = Append(sent[c], m)
        /\ \A d \in Client : d # c => sent'[d] = sent[d]
    BY <1>1, <1>4, <1>5, <1>6
  <2> QED
    BY <1>3, <1>5, <2>1 DEF Informed
<1>7. CASE ~conn[c]
  BY <1>1, <1>4, <1>7 DEF Informed
<1> QED
  BY <1>6, <1>7

\* What remains when the first operation of a client ends.
LEMMA QueueShrinks ==
  ASSUME TypeOK, NEW c \in Client, queue[c] # <<>>, Pop(c)
  PROVE  /\ queue' \in [Client -> Seq(Operation)] /\ owed' \in [Client -> Nat]
         /\ \A d \in Client : d # c => queue'[d] = queue[d] /\ owed'[d] = owed[d]
         /\ \A d \in Client : owed[d] = 0 => owed'[d] = 0
         /\ \A i \in DOMAIN queue'[c] :
              /\ i \in Nat /\ i + 1 \in DOMAIN queue[c] /\ queue'[c][i] = queue[c][i + 1]
              /\ i + 1 <= owed[c] => i <= owed'[c]
<1>1. queue[c] \in Seq(Operation) /\ queue'[c] = Tail(queue[c]) /\ owed[c] \in Nat
      /\ owed'[c] = (IF owed[c] = 0 THEN 0 ELSE owed[c] - 1)
      /\ \A d \in Client : d # c => queue'[d] = queue[d] /\ owed'[d] = owed[d]
  BY DEF Pop, TypeOK
<1>2. Tail(queue[c]) \in Seq(Operation)
      /\ \A i \in DOMAIN Tail(queue[c]) :
           i \in Nat /\ i + 1 \in DOMAIN queue[c] /\ Tail(queue[c])[i] = queue[c][i + 1]
  BY <1>1, TailIs
<1>3. queue' \in [Client -> Seq(Operation)] /\ owed' \in [Client -> Nat]
  <2>1. (IF owed[c] = 0 THEN 0 ELSE owed[c] - 1) \in Nat
    BY <1>1
  <2> QED
    BY <1>2, <2>1 DEF Pop, TypeOK
<1>4. \A i \in DOMAIN queue'[c] : i + 1 <= owed[c] => i <= owed'[c]
  BY <1>1, <1>2
<1> QED
  BY <1>1, <1>2, <1>3, <1>4

\* The fields have their types.
LEMMA FieldsAre ==
  ASSUME TypeOK
  PROVE  /\ \A a \in AttId : /\ att[a].host \in HostId /\ att[a].client \in Client
                             /\ att[a].waits \in SUBSET CallId
         /\ \A k \in CallId : call[k].att \in 0..MaxAttachments
         /\ \A c \in Client : route[c] # 0 => route[c] \in AttId
         /\ \A c \in Client : view[c] # 0 => view[c] \in AttId
         /\ job.current # 0 => job.current \in AttId
         /\ job.host # 0 => job.host \in HostId
         /\ \A c \in Client : queue[c] \in Seq(Operation)
<1>1. \A a \in AttId : att[a] \in Attachment
  BY DEF TypeOK
<1>2. \A k \in CallId : call[k] \in Call
  BY DEF TypeOK
<1>3. \A c \in Client : route[c] \in 0..MaxAttachments /\ view[c] \in 0..MaxAttachments
  BY DEF TypeOK
<1>4. job.current \in 0..MaxAttachments /\ job.host \in 0..MaxHosts
  BY DEF TypeOK, Job
<1>5. MaxAttachments \in Nat /\ MaxHosts \in Nat
  BY RouterAssumption
<1>6. \A n \in 0..MaxAttachments : n # 0 => n \in AttId
  BY <1>5 DEF AttId
<1>7. \A n \in 0..MaxHosts : n # 0 => n \in HostId
  BY <1>5 DEF HostId
<1>8. \A c \in Client : queue[c] \in Seq(Operation)
  BY DEF TypeOK
<1> QED
  BY <1>1, <1>2, <1>3, <1>4, <1>6, <1>7, <1>8 DEF Attachment, Call

\* While something is done for the first request, there is one.
LEMMA WorkIs ==
  ASSUME IInv
  PROVE  job.pc # "none" => /\ line # <<>> /\ Asker \in Client /\ First \in Request
                            /\ First.session \in Session /\ Tail(line) \in Seq(Request)
BY AskerIs DEF IInv, LineOK

\* An operation that ends leaves the others as they were.
LEMMA PopKeepsQueues ==
  ASSUME IInv, NEW c \in Client, queue[c] # <<>>, Pop(c), UNCHANGED <<conn, closing>>,
         \A k \in CallId : call[k].att \in AttId => call'[k].att \in AttId
  PROVE  QueueOK'
<1>1. QueueOK /\ TypeOK
  BY DEF IInv
<1>2. /\ \A d \in Client : d # c => queue'[d] = queue[d] /\ owed'[d] = owed[d]
      /\ \A i \in DOMAIN queue'[c] :
           /\ i + 1 \in DOMAIN queue[c] /\ queue'[c][i] = queue[c][i + 1]
           /\ i + 1 <= owed[c] => i <= owed'[c]
  BY <1>1, QueueShrinks
<1> SUFFICES ASSUME NEW d \in Client, NEW i \in DOMAIN queue'[d]
             PROVE  /\ queue'[d][i].kind = "call" =>
                         queue'[d][i].call \in CallId /\ call'[queue'[d][i].call].att \in AttId
                    /\ queue'[d][i].kind = "disconnect" => ~conn[d]
                    /\ queue'[d][i].kind = "attach" => closing \in {"no", "listeners"} \/ i <= owed'[d]
  BY DEF QueueOK
<1>3. CASE d # c
  BY <1>1, <1>2, <1>3 DEF QueueOK
<1>4. CASE d = c
  BY <1>1, <1>2, <1>4 DEF QueueOK
<1> QED
  BY <1>3, <1>4

-------------------------------------------------------------------------------
(***************************************************************************)
(* The steps of the connections.                                           *)
(***************************************************************************)
LEMMA AskStep ==
  ASSUME IInv, NEW c \in Client, NEW op \in Management, NEW s \in Session, Ask(c, op, s)
  PROVE  IInv'
<1> USE DEF IInv
<1>1. /\ line' \in Seq(Request) /\ line' # <<>> /\ asked' \in 0..MaxRequests
      /\ job.pc # "none" => First' = First /\ Asker' = Asker
  <2>1. line \in Seq(Request) /\ line' = Append(line, [client |-> c, op |-> op, session |-> s])
    BY DEF Ask, TypeOK
  <2>2. [client |-> c, op |-> op, session |-> s] \in Request
    BY DEF Request
  <2>3. line' \in Seq(Request) /\ line' # <<>> /\ (line # <<>> => Head(line') = Head(line))
    BY <2>1, <2>2
  <2>4. asked' \in 0..MaxRequests
    BY RouterAssumption DEF Ask, TypeOK
  <2> QED
    BY <2>3, <2>4 DEF First, Asker, LineOK
<1>2. UNCHANGED <<conn, view, sent, job, queue, host, att, route, call, removed, closing, owed,
                  crashes, lost, late>>
  BY DEF IInv, Ask
<1>3. Numbered' /\ Leases' /\ RouteOK' /\ HeldIsRouted' /\ HostOK' /\ EmptiedOK' /\ CallOK' /\
       QueueOK' /\ CloseOK'
  BY <1>2 DEF Numbered, Leases, RouteOK, HeldIsRouted, HostOK, EmptiedOK, CallOK, QueueOK, CloseOK
<1>4. TypeOK'
  BY <1>1, <1>2 DEF TypeOK
<1>5. LineOK'
  BY <1>1, <1>2 DEF LineOK, Attaching, Removing
<1>6. AtWork'
  BY <1>1, <1>2 DEF AtWork, At, Attaching
<1>7. SwitchOK'
  BY <1>1, <1>2 DEF SwitchOK
<1>8. LeasingOK'
  BY <1>1, <1>2 DEF LeasingOK
<1>9. EndingOK'
  BY <1>1, <1>2 DEF EndingOK, At, Closing
<1>10. PublishOK'
  BY <1>1, <1>2 DEF PublishOK
<1>11. ViewFollows'
  BY <1>1, <1>2 DEF ViewFollows, Informed
<1> QED
  BY <1>3, <1>4, <1>5, <1>6, <1>7, <1>8, <1>9, <1>10, <1>11 DEF IInv

LEMMA InvokeStep ==
  ASSUME IInv, NEW c \in Client, Invoke(c)
  PROVE  IInv'
<1> USE DEF IInv
<1>1. /\ NextCall \in CallId /\ view[c] \in AttId
      /\ [kind |-> "call", call |-> NextCall] \in Operation
      /\ call' \in [CallId -> Call]
      /\ call'[NextCall] = [att |-> view[c], state |-> "queued"]
      /\ \A k \in CallId : k # NextCall => call'[k] = call[k]
      /\ queue' = Operate(queue, c, "call", NextCall)
  <2>1. NextCall \in CallId /\ view[c] \in AttId
    BY NextCallIs, FieldsAre DEF Invoke
  <2>2. /\ [kind |-> "call", call |-> NextCall] \in Operation
        /\ [att |-> view[c], state |-> "queued"] \in Call
    BY <2>1, RouterAssumption DEF Operation, Call, CallId, AttId
  <2>3. /\ call' = [call EXCEPT ![NextCall] = [att |-> view[c], state |-> "queued"]]
        /\ queue' = Operate(queue, c, "call", NextCall)
    BY DEF Invoke
  <2> QED
    BY <2>1, <2>2, <2>3 DEF TypeOK
<1>2. First' = First /\ Asker' = Asker
      /\ UNCHANGED <<conn, view, sent, line, job, host, att, route, removed, closing, owed, asked,
                     crashes, lost, late>>
  BY DEF IInv, Invoke, First, Asker
<1>3. /\ queue' \in [Client -> Seq(Operation)]
      /\ \A d \in Client : queue[d] # <<>> => queue'[d] # <<>> /\ Head(queue'[d]) = Head(queue[d])
      /\ \A d \in Client : \A i \in DOMAIN queue'[d] :
           \/ i \in DOMAIN queue[d] /\ queue'[d][i] = queue[d][i]
           \/ d = c /\ queue'[d][i] = [kind |-> "call", call |-> NextCall]
  BY <1>1, QueueGrows
<1>4. Numbered' /\ Leases' /\ LineOK' /\ SwitchOK' /\ LeasingOK' /\ RouteOK' /\ HeldIsRouted' /\
       PublishOK' /\ HostOK' /\ EmptiedOK' /\ CloseOK' /\ ViewFollows'
  BY <1>2 DEF Numbered, Leases, LineOK, SwitchOK, LeasingOK, RouteOK, HeldIsRouted, PublishOK,
         HostOK, EmptiedOK, CloseOK, ViewFollows, Informed
<1>5. TypeOK'
  BY <1>1, <1>2, <1>3 DEF TypeOK
<1>6. AtWork'
  BY <1>1, <1>2, <1>3, WorkIs DEF AtWork, At, Attaching
<1>7. EndingOK'
  BY <1>1, <1>2, <1>3 DEF EndingOK, At, Closing
<1>8. CallOK'
  BY <1>1, <1>2, <1>3 DEF CallOK
<1>9. QueueOK'
  <2> SUFFICES ASSUME NEW d \in Client, NEW i \in DOMAIN queue'[d]
               PROVE  /\ queue'[d][i].kind = "call" =>
                           queue'[d][i].call \in CallId /\ call'[queue'[d][i].call].att \in AttId
                      /\ queue'[d][i].kind = "disconnect" => ~conn[d]
                      /\ queue'[d][i].kind = "attach" => closing \in {"no", "listeners"} \/ i <= owed[d]
    BY <1>2 DEF QueueOK
  <2>1. CASE i \in DOMAIN queue[d] /\ queue'[d][i] = queue[d][i]
    BY <1>1, <2>1 DEF QueueOK
  <2>2. CASE queue'[d][i] = [kind |-> "call", call |-> NextCall]
    BY <1>1, <2>2
  <2> QED
    BY <1>3, <2>1, <2>2
<1> QED
  BY <1>4, <1>5, <1>6, <1>7, <1>8, <1>9 DEF IInv

LEMMA SettleStep ==
  ASSUME IInv, NEW k \in CallId, Settle(k)
  PROVE  IInv'
<1> USE DEF IInv
<1>1. /\ call' \in [CallId -> Call]
      /\ \A i \in CallId : /\ call'[i].att = call[i].att
                           /\ call'[i].state = IF i = k THEN "settled" ELSE call[i].state
  BY DEF Settle, TypeOK, Call
<1>2. First' = First /\ Asker' = Asker
      /\ UNCHANGED <<conn, view, sent, line, job, queue, host, att, route, removed, closing, owed,
                     asked, crashes, lost, late>>
  BY DEF IInv, Settle, First, Asker
<1>3. Numbered' /\ Leases' /\ LineOK' /\ AtWork' /\ SwitchOK' /\ LeasingOK' /\ RouteOK' /\
       HeldIsRouted' /\ EndingOK' /\ PublishOK' /\ HostOK' /\ EmptiedOK' /\ CloseOK' /\ ViewFollows'
  BY <1>2 DEF Numbered, Leases, LineOK, AtWork, At, SwitchOK, LeasingOK, RouteOK, HeldIsRouted,
         EndingOK, Closing, PublishOK, HostOK, EmptiedOK, CloseOK, ViewFollows, Informed
<1>4. TypeOK'
  BY <1>1, <1>2 DEF TypeOK
<1>5. CallOK'
  BY <1>1, <1>2 DEF CallOK
<1>6. QueueOK'
  BY <1>1, <1>2 DEF QueueOK
<1> QED
  BY <1>3, <1>4, <1>5, <1>6 DEF IInv

LEMMA BeginReleaseStep ==
  ASSUME IInv, NEW c \in Client, BeginRelease(c)
  PROVE  IInv'
<1> USE DEF IInv
<1>1. /\ route[c] \in AttId /\ route[c] # 0 /\ att[route[c]].release = "no"
      /\ At(c, "disconnect")
      /\ att' \in [AttId -> Attachment]
      /\ \A a \in AttId : /\ att'[a].client = att[a].client /\ att'[a].host = att[a].host
                          /\ att'[a].member = att[a].member /\ att'[a].lease = att[a].lease
                          /\ a # route[c] => att'[a] = att[a]
      /\ att'[route[c]].release = "draining" /\ att'[route[c]].waits = Running(route[c])
  <2> DEFINE published == FALSE
  <2>1. /\ At(c, "disconnect")
        /\ route[c] # 0 /\ att[route[c]].release = "no"
        /\ att' = Releasing(att, {route[c]}, published) /\ published \in BOOLEAN
    BY DEF BeginRelease
  <2> HIDE DEF published
  <2>2. route[c] \in AttId
    BY <2>1, FieldsAre
  <2>3. att \in [AttId -> Attachment]
    BY DEF TypeOK
  <2> QED
    BY <2>1, <2>2, <2>3, ReleasingIs
<1>2. First' = First /\ Asker' = Asker
      /\ UNCHANGED <<conn, view, sent, line, job, queue, host, route, call, removed, closing,
                     owed, asked, crashes, lost, late>>
  BY DEF IInv, BeginRelease, First, Asker
<1>3. LineOK' /\ AtWork' /\ HostOK' /\ QueueOK' /\ ViewFollows'
  BY <1>2 DEF LineOK, AtWork, At, HostOK, QueueOK, ViewFollows, Informed
<1>4. TypeOK'
  BY <1>1, <1>2 DEF TypeOK
<1>5. Numbered'
  BY <1>1, <1>2 DEF Numbered
<1>6. Leases'
  BY <1>1, <1>2 DEF Leases
<1>7. SwitchOK'
  BY <1>1, <1>2, WorkIs, FieldsAre DEF SwitchOK
<1>8. LeasingOK'
  <2>1. job.pc = "leasing" => job.new # route[c]
    BY <1>1 DEF LeasingOK, RouteOK
  <2> QED
    BY <1>1, <1>2, <2>1 DEF LeasingOK
<1>9. RouteOK'
  BY <1>1, <1>2 DEF RouteOK
<1>10. HeldIsRouted'
  BY <1>1, <1>2 DEF HeldIsRouted
<1>11. EndingOK'
  BY <1>1, <1>2, FieldsAre DEF EndingOK, RouteOK, At, Closing
<1>12. PublishOK'
  <2>1. At(c, "disconnect") => ~conn[c]
    BY TailIs, FieldsAre DEF QueueOK, At
  <2> QED
    BY <1>1, <1>2, <2>1 DEF PublishOK, RouteOK
<1>13. EmptiedOK'
  BY <1>1, <1>2 DEF EmptiedOK
<1>14. CallOK'
  BY <1>1, <1>2 DEF CallOK, Running
<1>15. CloseOK'
  BY <1>1, <1>2 DEF CloseOK
<1> QED
  BY <1>3, <1>4, <1>5, <1>6, <1>7, <1>8, <1>9, <1>10, <1>11, <1>12, <1>13, <1>14, <1>15 DEF IInv

LEMMA EndDisconnectStep ==
  ASSUME IInv, NEW c \in Client, EndDisconnect(c)
  PROVE  IInv'
<1> USE DEF IInv
<1>1. At(c, "disconnect") /\ route[c] = 0 /\ Pop(c) /\ queue[c] # <<>>
  BY DEF EndDisconnect, At
<1>2. First' = First /\ Asker' = Asker
      /\ UNCHANGED <<conn, view, sent, line, job, host, att, route, call, removed, closing, asked,
                     crashes, lost, late>>
  BY DEF IInv, EndDisconnect, First, Asker
<1>3. /\ queue' \in [Client -> Seq(Operation)] /\ owed' \in [Client -> Nat]
      /\ \A d \in Client : d # c => queue'[d] = queue[d] /\ owed'[d] = owed[d]
      /\ \A d \in Client : owed[d] = 0 => owed'[d] = 0
      /\ \A i \in DOMAIN queue'[c] :
           /\ i \in Nat /\ i + 1 \in DOMAIN queue[c] /\ queue'[c][i] = queue[c][i + 1]
           /\ i + 1 <= owed[c] => i <= owed'[c]
  BY <1>1, QueueShrinks
<1>4. Numbered' /\ Leases' /\ LineOK' /\ SwitchOK' /\ LeasingOK' /\ RouteOK' /\ HeldIsRouted' /\
       PublishOK' /\ HostOK' /\ EmptiedOK' /\ CallOK' /\ ViewFollows'
  BY <1>2 DEF Numbered, Leases, LineOK, SwitchOK, LeasingOK, RouteOK, HeldIsRouted, PublishOK,
         HostOK, EmptiedOK, CallOK, ViewFollows, Informed
<1>5. TypeOK'
  BY <1>1, <1>2, <1>3 DEF TypeOK
<1>6. AtWork'
  BY <1>1, <1>2, <1>3, WorkIs DEF AtWork, At, Attaching
<1>7. EndingOK'
  BY <1>1, <1>2, <1>3 DEF EndingOK, At, Closing
<1>8. QueueOK'
  BY <1>1, <1>2, PopKeepsQueues
<1>9. CloseOK'
  BY <1>1, <1>2, <1>3 DEF CloseOK
<1> QED
  BY <1>4, <1>5, <1>6, <1>7, <1>8, <1>9 DEF IInv

LEMMA AdmitStep ==
  ASSUME IInv, NEW c \in Client, Admit(c)
  PROVE  IInv'
<1> USE DEF IInv
<1> DEFINE k == Head(queue[c]).call
<1>1. /\ k \in CallId /\ call[k].att \in AttId
      /\ At(c, "call") /\ queue[c] # <<>> /\ Pop(c)
      /\ call' \in [CallId -> Call]
      /\ \A i \in CallId : call'[i].att = call[i].att /\ (i # k => call'[i] = call[i])
      /\ call'[k].state = "running" =>
           /\ ~Closing /\ ~Disconnected(c) /\ route[c] = call[k].att
           /\ host[att[call[k].att].host].handle = "open"
  <2>1. At(c, "call") /\ queue[c] # <<>> /\ Pop(c)
    BY DEF Admit, At
  <2>2. k \in CallId /\ call[k].att \in AttId
    BY <2>1, FieldsAre, TailIs DEF QueueOK, At
  <2> DEFINE served == /\ ~Closing /\ ~Disconnected(c) /\ route[c] = call[k].att
                       /\ host[att[call[k].att].host].handle = "open"
             state == IF served THEN "running" ELSE "settled"
  <2>3. call' = [call EXCEPT ![k].state = state]
    BY DEF Admit
  <2>4. state \in {"running", "settled"} /\ (state = "running" => served)
    OBVIOUS
  <2> HIDE DEF k, state, served
  <2>5. call' \in [CallId -> Call]
    BY <2>2, <2>3, <2>4 DEF TypeOK, Call
  <2>6. /\ \A i \in CallId : call'[i].att = call[i].att /\ (i # k => call'[i] = call[i])
        /\ call'[k].state = state
    BY <2>2, <2>3 DEF TypeOK, Call
  <2> QED
    BY <2>1, <2>2, <2>4, <2>5, <2>6 DEF served
<1>2. First' = First /\ Asker' = Asker
      /\ UNCHANGED <<conn, view, sent, line, job, host, att, route, removed, closing, asked,
                     crashes, lost, late>>
  BY DEF IInv, Admit, First, Asker
<1>3. /\ queue' \in [Client -> Seq(Operation)] /\ owed' \in [Client -> Nat]
      /\ \A d \in Client : d # c => queue'[d] = queue[d] /\ owed'[d] = owed[d]
      /\ \A d \in Client : owed[d] = 0 => owed'[d] = 0
  BY <1>1, QueueShrinks
<1> HIDE DEF k
<1>4. Numbered' /\ Leases' /\ LineOK' /\ SwitchOK' /\ LeasingOK' /\ RouteOK' /\ HeldIsRouted' /\
       PublishOK' /\ HostOK' /\ EmptiedOK' /\ ViewFollows'
  BY <1>2 DEF Numbered, Leases, LineOK, SwitchOK, LeasingOK, RouteOK, HeldIsRouted, PublishOK,
         HostOK, EmptiedOK, ViewFollows, Informed
<1>5. TypeOK'
  BY <1>1, <1>2, <1>3 DEF TypeOK
<1>6. AtWork'
  BY <1>1, <1>2, <1>3, WorkIs DEF AtWork, At, Attaching
<1>7. EndingOK'
  <2> SUFFICES ASSUME NEW d \in Client, route'[d] # 0, att'[route'[d]].release # "no"
               PROVE  \/ At(d, "detach")' \/ At(d, "disconnect")'
                      \/ job'.pc = "switching" /\ Asker' = d
                      \/ job'.pc = "removing" /\ job'.host = att'[route'[d]].host
                      \/ host'[att'[route'[d]].host].handle = "gone"
                      \/ Closing'
    BY DEF EndingOK
  <2>1. \/ At(d, "detach") \/ At(d, "disconnect")
        \/ job.pc = "switching" /\ Asker = d
        \/ job.pc = "removing" /\ job.host = att[route[d]].host
        \/ host[att[route[d]].host].handle = "gone"
        \/ Closing
    BY <1>2 DEF EndingOK
  <2>2. d # c => (At(d, "detach")' <=> At(d, "detach"))
                 /\ (At(d, "disconnect")' <=> At(d, "disconnect"))
    BY <1>3 DEF At
  <2>3. ~At(c, "detach") /\ ~At(c, "disconnect")
    BY <1>1 DEF At
  <2>4. Closing' <=> Closing
    BY <1>2 DEF Closing
  <2> QED
    BY <1>2, <2>1, <2>2, <2>3, <2>4
<1>8. CallOK'
  <2> SUFFICES ASSUME NEW i \in CallId, call'[i].state = "running"
               PROVE  /\ call[i].att \in AttId
                      /\ host[att[call[i].att].host].handle = "open"
                      /\ \/ /\ att[call[i].att].lease = "held"
                            /\ \/ att[call[i].att].release = "no"
                               \/ att[call[i].att].release = "draining" /\ i \in att[call[i].att].waits
                         \/ job.pc \in Removing /\ att[call[i].att].host = job.host
    BY <1>1, <1>2 DEF CallOK
  <2>1. CASE i # k
    BY <1>1, <2>1 DEF CallOK
  <2>2. CASE i = k
    <3>1. route[c] = call[k].att /\ route[c] # 0 /\ att[route[c]].lease \in {"held", "releasing"}
      BY <1>1, <2>2, RouterAssumption DEF RouteOK, AttId
    <3>2. ~At(c, "detach") /\ ~At(c, "disconnect") /\ ~Closing
      BY <1>1, <2>2 DEF At
    <3>3. ~(job.pc = "switching" /\ Asker = c)
      BY <1>1, <3>2 DEF AtWork, At, Attaching
    <3>4. host[att[route[c]].host].handle = "open"
      BY <1>1, <2>2, <3>1
    <3>5. att[route[c]].release = "no" \/ (job.pc = "removing" /\ att[route[c]].host = job.host)
      BY <3>1, <3>2, <3>3, <3>4 DEF EndingOK
    <3>6. att[route[c]].release = "no" => att[route[c]].lease = "held"
      BY <3>1 DEF RouteOK, Leases
    <3> QED
      BY <1>1, <2>2, <3>1, <3>4, <3>5, <3>6 DEF Removing
  <2> QED
    BY <2>1, <2>2
<1>9. QueueOK'
  BY <1>1, <1>2, PopKeepsQueues
<1>10. CloseOK'
  BY <1>1, <1>2, <1>3 DEF CloseOK
<1> QED
  BY <1>4, <1>5, <1>6, <1>7, <1>8, <1>9, <1>10 DEF IInv

LEMMA DisconnectStep ==
  ASSUME IInv, NEW c \in Client, Disconnect(c)
  PROVE  IInv'
<1> USE DEF IInv
<1>1. /\ conn' \in [Client -> BOOLEAN] /\ view' \in [Client -> 0..MaxAttachments]
      /\ lost' \subseteq Client /\ sent' \in [Client -> Seq(Message)]
      /\ \A d \in Client : conn'[d] = (conn[d] /\ d # c) /\ (d # c => Informed(d)' = Informed(d))
      /\ \A d \in Client : d \in lost /\ d # c => d \in lost'
      /\ [kind |-> "disconnect", call |-> 0] \in Operation
      /\ queue' = Operate(queue, c, "disconnect", 0)
  <2>1. /\ conn' = [d \in Client |-> conn[d] /\ d \notin {c}]
        /\ view' = [d \in Client |-> IF d \in {c} THEN 0 ELSE view[d]]
        /\ sent' = [d \in Client |-> IF d \in {c} THEN <<>> ELSE sent[d]]
        /\ lost' = lost \ {c}
        /\ queue' = [d \in Client |-> IF d \in {c}
                       THEN Append(queue[d], [kind |-> "disconnect", call |-> 0]) ELSE queue[d]]
    BY DEF Disconnect, Disconnecting
  <2>2. queue' = Operate(queue, c, "disconnect", 0)
    BY <2>1 DEF Operate, TypeOK
  <2>3. [kind |-> "disconnect", call |-> 0] \in Operation
    BY RouterAssumption DEF Operation
  <2>4. sent' \in [Client -> Seq(Message)]
        /\ \A d \in Client : d # c => Informed(d)' = Informed(d)
    BY <2>1 DEF TypeOK, Informed
  <2>5. /\ conn' \in [Client -> BOOLEAN]
        /\ \A d \in Client : conn'[d] = (conn[d] /\ d # c)
    BY <2>1 DEF TypeOK
  <2>6. view' \in [Client -> 0..MaxAttachments]
    BY <2>1, RouterAssumption DEF TypeOK
  <2>7. lost' \subseteq Client /\ \A d \in Client : d \in lost /\ d # c => d \in lost'
    BY <2>1 DEF TypeOK
  <2> QED
    BY <2>2, <2>3, <2>4, <2>5, <2>6, <2>7
<1>2. First' = First /\ Asker' = Asker
      /\ UNCHANGED <<line, job, host, att, route, call, removed, closing, owed, asked, crashes,
                     late>>
  BY DEF IInv, Disconnect, First, Asker
<1>3. /\ queue' \in [Client -> Seq(Operation)]
      /\ \A d \in Client : queue[d] # <<>> => queue'[d] # <<>> /\ Head(queue'[d]) = Head(queue[d])
      /\ \A d \in Client : \A i \in DOMAIN queue'[d] :
           \/ i \in DOMAIN queue[d] /\ queue'[d][i] = queue[d][i]
           \/ d = c /\ queue'[d][i] = [kind |-> "disconnect", call |-> 0]
  BY <1>1, QueueGrows
<1>4. Numbered' /\ Leases' /\ LineOK' /\ SwitchOK' /\ LeasingOK' /\ RouteOK' /\ HeldIsRouted' /\
       HostOK' /\ EmptiedOK' /\ CallOK'
  BY <1>2 DEF Numbered, Leases, LineOK, SwitchOK, LeasingOK, RouteOK, HeldIsRouted, HostOK,
         EmptiedOK, CallOK
<1>5. TypeOK'
  BY <1>1, <1>2, <1>3 DEF TypeOK
<1>6. AtWork'
  BY <1>1, <1>2, <1>3, WorkIs DEF AtWork, At, Attaching
<1>7. EndingOK'
  BY <1>1, <1>2, <1>3 DEF EndingOK, At, Closing
<1>8. PublishOK'
  BY <1>1, <1>2, <1>3 DEF PublishOK
<1>9. QueueOK'
  <2> SUFFICES ASSUME NEW d \in Client, NEW i \in DOMAIN queue'[d]
               PROVE  /\ queue'[d][i].kind = "call" =>
                           queue'[d][i].call \in CallId /\ call[queue'[d][i].call].att \in AttId
                      /\ queue'[d][i].kind = "disconnect" => ~conn'[d]
                      /\ queue'[d][i].kind = "attach" => closing \in {"no", "listeners"} \/ i <= owed[d]
    BY <1>2 DEF QueueOK
  <2>1. CASE i \in DOMAIN queue[d] /\ queue'[d][i] = queue[d][i]
    BY <1>1, <2>1 DEF QueueOK
  <2>2. CASE d = c /\ queue'[d][i] = [kind |-> "disconnect", call |-> 0]
    BY <1>1, <2>2
  <2> QED
    BY <1>3, <2>1, <2>2
<1>10. CloseOK'
  BY <1>1, <1>2, <1>3 DEF CloseOK
<1>11. ViewFollows'
  BY <1>1, <1>2 DEF ViewFollows
<1> QED
  BY <1>4, <1>5, <1>6, <1>7, <1>8, <1>9, <1>10, <1>11 DEF IInv

\* What a client is told last is what it knows when it has read all there is.
LEMMA TakeStep ==
  ASSUME IInv, NEW c \in Client, Take(c)
  PROVE  IInv'
<1> USE DEF IInv
<1>1. /\ view' \in [Client -> 0..MaxAttachments] /\ sent' \in [Client -> Seq(Message)]
      /\ \A d \in Client : Informed(d)' = Informed(d)
  <2>1. /\ sent[c] # <<>> /\ sent' = [sent EXCEPT ![c] = Tail(sent[c])]
        /\ view' = [view EXCEPT ![c] = Told(Head(sent[c]))]
    BY DEF Take
  <2>2. /\ sent \in [Client -> Seq(Message)] /\ sent[c] \in Seq(Message)
        /\ view \in [Client -> 0..MaxAttachments]
    BY DEF TypeOK
  <2>3. /\ Head(sent[c]) \in Message /\ Tail(sent[c]) \in Seq(Message)
        /\ Tail(sent[c]) = <<>> => Head(sent[c]) = sent[c][Len(sent[c])]
        /\ Tail(sent[c]) # <<>> => Tail(sent[c])[Len(Tail(sent[c]))] = sent[c][Len(sent[c])]
    BY <2>1, <2>2, MessagesAre
  <2>4. \A m \in Message : Told(m) \in 0..MaxAttachments
    BY RouterAssumption DEF Told, Message, AttId
  <2>5. /\ view' \in [Client -> 0..MaxAttachments] /\ sent' \in [Client -> Seq(Message)]
        /\ view'[c] = Told(Head(sent[c])) /\ sent'[c] = Tail(sent[c])
        /\ \A d \in Client : d # c => view'[d] = view[d] /\ sent'[d] = sent[d]
    BY <2>1, <2>2, <2>3, <2>4
  <2>6. Informed(c)' = Informed(c)
    BY <2>1, <2>3, <2>5 DEF Informed
  <2> QED
    BY <2>5, <2>6 DEF Informed
<1>2. First' = First /\ Asker' = Asker
      /\ UNCHANGED <<conn, line, job, queue, host, att, route, call, removed, closing, owed,
                     asked, crashes, lost, late>>
  BY DEF Take, First, Asker
<1>3. TypeOK'
  BY <1>1, <1>2 DEF TypeOK
<1>4. Numbered' /\ Leases' /\ LineOK' /\ AtWork' /\ SwitchOK' /\ LeasingOK'
  BY <1>2 DEF Numbered, Leases, LineOK, AtWork, At, SwitchOK, LeasingOK
<1>5. RouteOK' /\ HeldIsRouted' /\ EndingOK' /\ PublishOK' /\ HostOK' /\ EmptiedOK'
  BY <1>2 DEF RouteOK, HeldIsRouted, EndingOK, PublishOK, HostOK, EmptiedOK, At, Closing
<1>6. CallOK' /\ QueueOK' /\ CloseOK'
  BY <1>2 DEF CallOK, QueueOK, CloseOK
<1>7. ViewFollows'
  BY <1>1, <1>2 DEF ViewFollows
<1> QED
  BY <1>3, <1>4, <1>5, <1>6, <1>7 DEF IInv

-------------------------------------------------------------------------------
(***************************************************************************)
(* The steps of a release.                                                 *)
(***************************************************************************)
\* clearAttachment, after the release of the lease or of one that failed.
LEMMA ClearStep ==
  ASSUME IInv, NEW a \in AttId, NEW lease \in {"failed", "released"}, Clear(a, lease),
         att[a].lease \in {"failed", "releasing"},
         UNCHANGED <<conn, view, line, job, queue, host, call, removed, closing, owed, asked,
                     crashes, late>>
  PROVE  IInv'
<1> USE DEF IInv
<1>1. /\ att' \in [AttId -> Attachment] /\ route' \in [Client -> 0..MaxAttachments]
      /\ sent' \in [Client -> Seq(Message)] /\ lost' \subseteq Client
      /\ \A b \in AttId : /\ att'[b].client = att[b].client /\ att'[b].host = att[b].host
                          /\ b # a => att'[b] = att[b]
      /\ att'[a].lease = lease /\ att'[a].release = "done" /\ ~att'[a].member
      /\ \A c \in Client : route'[c] = IF route[c] = a THEN 0 ELSE route[c]
      /\ \A c \in Client : route[c] # a \/ ~att[a].publish =>
           Informed(c)' = Informed(c) /\ (c \in lost => c \in lost')
      /\ \A c \in Client : route[c] = a /\ att[a].publish /\ conn[c] => Informed(c)' = 0
  <2> DEFINE published == FALSE
  <2>b. PICK b \in Client : b = att[a].client
    BY FieldsAre
  <2>1. /\ att' = [att EXCEPT ![a].lease = lease, ![a].release = "done", ![a].member = FALSE]
        /\ route' = IF route[b] = a THEN [route EXCEPT ![b] = 0] ELSE route
        /\ IF route[b] = a /\ att[a].publish
           THEN Publish(b, a, published) /\ lost' = lost \ {b}
           ELSE UNCHANGED <<sent, lost>>
        /\ published \in BOOLEAN /\ view' = view
    BY <2>b DEF Clear
  <2>2. \A c \in Client : route[c] = a => c = b
    BY <2>b, RouterAssumption DEF RouteOK, AttId
  <2>3. att' \in [AttId -> Attachment]
    <3>1. att[a] \in Attachment /\ att \in [AttId -> Attachment]
      BY DEF TypeOK
    <3>2. [att[a] EXCEPT !.lease = lease, !.release = "done", !.member = FALSE] \in Attachment
      BY <3>1 DEF Attachment
    <3>3. att' = [att EXCEPT ![a] = [att[a] EXCEPT !.lease = lease, !.release = "done", !.member = FALSE]]
      BY <2>1, <3>1 DEF Attachment
    <3> QED
      BY <3>1, <3>2, <3>3
  <2>4. route' \in [Client -> 0..MaxAttachments]
    <3>1. 0 \in 0..MaxAttachments
      BY RouterAssumption
    <3>2. route \in [Client -> 0..MaxAttachments]
      BY DEF TypeOK
    <3> QED
      BY <2>1, <3>1, <3>2
  <2>5. \A c \in Client : route'[c] = IF route[c] = a THEN 0 ELSE route[c]
    BY <2>1, <2>2 DEF TypeOK
  <2>8. /\ \A d \in AttId : /\ att'[d].client = att[d].client /\ att'[d].host = att[d].host
                            /\ d # a => att'[d] = att[d]
        /\ att'[a].lease = lease /\ att'[a].release = "done" /\ ~att'[a].member
    BY <2>1 DEF TypeOK, Attachment
  <2>9. /\ sent' \in [Client -> Seq(Message)] /\ lost' \subseteq Client
        /\ \A c \in Client : route[c] # a \/ ~att[a].publish =>
             Informed(c)' = Informed(c) /\ (c \in lost => c \in lost')
        /\ \A c \in Client : route[c] = a /\ att[a].publish /\ conn[c] => Informed(c)' = 0
    <3>1. CASE route[b] = a /\ att[a].publish
      <4>1. Publish(b, a, published) /\ lost' = lost \ {b}
        BY <2>1, <3>1
      <4> HIDE DEF published
      <4>2. /\ sent' \in [Client -> Seq(Message)]
            /\ \A d \in Client : d # b => Informed(d)' = Informed(d)
            /\ conn[b] => Informed(b)' = IF published THEN a ELSE 0
        BY <2>1, <2>2, <4>1, PublishIs
      <4>3. conn[b] => Informed(b)' = 0
        BY <4>2 DEF published
      <4> QED
        BY <2>2, <2>4, <3>1, <4>1, <4>2, <4>3 DEF TypeOK
    <3>2. CASE ~(route[b] = a /\ att[a].publish)
      BY <2>1, <2>2, <3>2 DEF TypeOK, Informed
    <3> QED
      BY <3>1, <3>2
  <2> QED
    BY <2>3, <2>4, <2>5, <2>8, <2>9
<1>2. First' = First /\ Asker' = Asker
      /\ UNCHANGED <<conn, view, line, job, queue, host, call, removed, closing, owed, asked,
                     crashes, late>>
  BY DEF IInv, First, Asker
<1>3. LineOK' /\ AtWork' /\ HostOK' /\ QueueOK'
  BY <1>2 DEF LineOK, AtWork, At, HostOK, QueueOK
<1>4. TypeOK'
  BY <1>1, <1>2 DEF TypeOK
<1>5. Numbered'
  BY <1>1, <1>2 DEF Numbered
<1>6. Leases'
  BY <1>1, <1>2 DEF Leases
<1>7. SwitchOK'
  BY <1>1, <1>2, WorkIs, FieldsAre DEF SwitchOK
<1>8. LeasingOK'
  BY <1>1, <1>2, WorkIs, FieldsAre, ZenonT(60) DEF LeasingOK
<1>9. RouteOK'
  BY <1>1, <1>2, FieldsAre DEF RouteOK
<1>10. HeldIsRouted'
  BY <1>1, <1>2, FieldsAre DEF HeldIsRouted
<1>11. EndingOK'
  <2> SUFFICES ASSUME NEW c \in Client, route'[c] # 0, att'[route'[c]].release # "no"
               PROVE  \/ At(c, "detach") \/ At(c, "disconnect")
                      \/ job.pc = "switching" /\ Asker = c
                      \/ job.pc = "removing" /\ job.host = att'[route'[c]].host
                      \/ host[att'[route'[c]].host].handle = "gone"
                      \/ Closing
    BY <1>2 DEF EndingOK, At, Closing
  <2>1. route'[c] = route[c] /\ route[c] # a /\ route[c] \in AttId
    BY <1>1, FieldsAre
  <2>2. att'[route'[c]] = att[route[c]]
    BY <1>1, <2>1
  <2> QED
    BY <2>1, <2>2 DEF EndingOK
<1>12. PublishOK'
  <2> SUFFICES ASSUME NEW c \in Client, route'[c] # 0, conn[c]
               PROVE  \/ att'[route'[c]].release = "no" \/ att'[route'[c]].publish
                      \/ job.pc = "switching" /\ Asker = c
    BY <1>2 DEF PublishOK
  <2>1. route'[c] = route[c] /\ route[c] # a /\ route[c] \in AttId
    BY <1>1, FieldsAre
  <2>2. att'[route'[c]] = att[route[c]]
    BY <1>1, <2>1
  <2> QED
    BY <2>1, <2>2 DEF PublishOK
<1>13. EmptiedOK'
  BY <1>1, <1>2 DEF EmptiedOK
<1>14. CallOK'
  BY <1>1, <1>2 DEF CallOK
<1>15. CloseOK'
  BY <1>1, <1>2 DEF CloseOK
<1>16. ViewFollows'
  <2> SUFFICES ASSUME NEW c \in Client, conn[c], Informed(c)' # route'[c], c \notin lost',
                      ~(job.pc \in {"switching", "leasing", "undoing"} /\ Asker = c)
               PROVE  FALSE
    BY <1>2 DEF ViewFollows
  <2>1. CASE route[c] # a \/ ~att[a].publish
    <3>1. Informed(c) = route[c]
      BY <1>1, <2>1 DEF ViewFollows
    <3>2. route[c] = a /\ ~att[a].publish
      BY <1>1, <2>1, <3>1
    <3> QED
      BY <3>2, RouterAssumption DEF PublishOK, RouteOK, AttId, Leases
  <2>2. CASE route[c] = a /\ att[a].publish
    BY <1>1, <2>2
  <2> QED
    BY <2>1, <2>2
<1> QED
  BY <1>3, <1>4, <1>5, <1>6, <1>7, <1>8, <1>9, <1>10, <1>11, <1>12, <1>13, <1>14, <1>15, <1>16 DEF
         IInv

LEMMA DrainedHeldStep ==
  ASSUME IInv, NEW a \in AttId, Drained(a), att[a].lease # "failed"
  PROVE  IInv'
<1> USE DEF IInv
<1>1. /\ att' \in [AttId -> Attachment]
      /\ att[a].release = "draining" /\ att[a].lease = "held"
      /\ \A k \in att[a].waits : call[k].state = "settled"
      /\ \A b \in AttId : /\ att'[b].client = att[b].client /\ att'[b].host = att[b].host
                          /\ att'[b].member = att[b].member /\ att'[b].publish = att[b].publish
                          /\ b # a => att'[b] = att[b]
      /\ att'[a].lease = "releasing" /\ att'[a].release = "releasing"
  <2>1. /\ att' = [att EXCEPT ![a].lease = "releasing", ![a].release = "releasing"]
        /\ att[a].release = "draining" /\ att[a].lease = "held"
        /\ \A k \in att[a].waits : call[k].state = "settled"
    BY DEF Drained
  <2> QED
    BY <2>1, ZenonT(60) DEF TypeOK, Attachment
<1>2. First' = First /\ Asker' = Asker
      /\ UNCHANGED <<conn, view, sent, line, job, queue, host, route, call, removed, closing,
                     owed, asked, crashes, lost, late>>
  BY DEF IInv, Drained, First, Asker
<1>3. LineOK' /\ AtWork' /\ HostOK' /\ QueueOK' /\ ViewFollows'
  BY <1>2 DEF LineOK, AtWork, At, HostOK, QueueOK, ViewFollows, Informed
<1>4. TypeOK'
  BY <1>1, <1>2 DEF TypeOK
<1>5. Numbered'
  BY <1>1, <1>2 DEF Numbered
<1>6. Leases'
  BY <1>1, <1>2 DEF Leases
<1>7. SwitchOK'
  BY <1>1, <1>2, WorkIs, FieldsAre DEF SwitchOK
<1>8. LeasingOK'
  BY <1>1, <1>2 DEF LeasingOK
<1>9. RouteOK'
  BY <1>1, <1>2 DEF RouteOK
<1>10. HeldIsRouted'
  BY <1>1, <1>2 DEF HeldIsRouted
<1>11. EndingOK'
  BY <1>1, <1>2, FieldsAre DEF EndingOK, At, Closing
<1>12. PublishOK'
  BY <1>1, <1>2, FieldsAre DEF PublishOK
<1>13. EmptiedOK'
  BY <1>1, <1>2 DEF EmptiedOK
<1>14. CallOK'
  BY <1>1, <1>2 DEF CallOK
<1>15. CloseOK'
  BY <1>1, <1>2 DEF CloseOK
<1> QED
  BY <1>3, <1>4, <1>5, <1>6, <1>7, <1>8, <1>9, <1>10, <1>11, <1>12, <1>13, <1>14, <1>15 DEF IInv

LEMMA DrainedStep ==
  ASSUME IInv, NEW a \in AttId, Drained(a)
  PROVE  IInv'
<1>1. CASE att[a].lease = "failed"
  <2>1. /\ Clear(a, "failed")
        /\ UNCHANGED <<conn, view, line, job, queue, host, call, removed, closing, owed, asked,
                       crashes, late>>
    BY <1>1 DEF Drained
  <2> QED
    BY <1>1, <2>1, ClearStep
<1>2. CASE att[a].lease # "failed"
  BY <1>2, DrainedHeldStep
<1> QED
  BY <1>1, <1>2

LEMMA EndReleaseStep ==
  ASSUME IInv, NEW a \in AttId, EndRelease(a)
  PROVE  IInv'
<1>1. att[a].lease = "releasing"
  BY DEF EndRelease, IInv, Leases
<1>2. /\ Clear(a, "released")
      /\ UNCHANGED <<conn, view, line, job, queue, host, call, removed, closing, owed, asked,
                     crashes, late>>
  BY DEF EndRelease
<1> QED
  BY <1>1, <1>2, ClearStep

-------------------------------------------------------------------------------
(***************************************************************************)
(* The end of the first request.                                           *)
(***************************************************************************)
\* The queues, the line and the job when an attach or a detach ends.
LEMMA EndAttachIs ==
  ASSUME IInv, line # <<>>, queue[Asker] # <<>>, EndAttach
  PROVE  /\ line' \in Seq(Request) /\ job' = Idle /\ job'.pc = "none" /\ Idle \in Job
         /\ Asker \in Client
         /\ queue' \in [Client -> Seq(Operation)] /\ owed' \in [Client -> Nat]
         /\ \A d \in Client : d # Asker => queue'[d] = queue[d] /\ owed'[d] = owed[d]
         /\ \A d \in Client : owed[d] = 0 => owed'[d] = 0
<1>1. TypeOK /\ Asker \in Client /\ Tail(line) \in Seq(Request)
  BY AskerIs DEF IInv
<1>2. line' = Tail(line) /\ job' = Idle /\ Pop(Asker)
  BY DEF EndAttach, Done
<1>3. Idle \in Job /\ Idle.pc = "none"
  BY RouterAssumption DEF Idle, Job
<1> HIDE DEF Asker
<1> QED
  BY <1>1, <1>2, <1>3, QueueShrinks

\* Nothing else changes, or the clients that have lost an attachment.
LEMMA EndAttachStep ==
  ASSUME IInv, job.pc \in {"queued", "detaching", "opening", "discarding", "acquired", "undoing",
                       "publishing"},
         queue[Asker] # <<>>, EndAttach,
         At(Asker, "attach") \/ route[Asker] = 0,
         job.pc = "discarding" => host[job.host].handle = "gone",
         job.pc = "undoing" => lost' = Losing, job.pc # "undoing" => lost' = lost,
         late' \subseteq Client,
         UNCHANGED <<conn, view, sent, host, att, route, call, removed, closing, asked, crashes>>
  PROVE  IInv'
<1> USE DEF IInv
<1>1. /\ line' \in Seq(Request) /\ job' = Idle /\ job'.pc = "none" /\ Idle \in Job
      /\ Asker \in Client
      /\ queue' \in [Client -> Seq(Operation)] /\ owed' \in [Client -> Nat]
      /\ \A d \in Client : d # Asker => queue'[d] = queue[d] /\ owed'[d] = owed[d]
      /\ \A d \in Client : owed[d] = 0 => owed'[d] = 0
  BY EndAttachIs, WorkIs
<1>2. UNCHANGED <<conn, view, sent, host, att, route, call, removed, closing, asked, crashes>>
  OBVIOUS
<1>3. /\ lost' \subseteq Client /\ \A c \in lost : c \in lost'
      /\ job.pc = "undoing" /\ Informed(Asker) # route[Asker] => Asker \in lost'
  BY <1>1 DEF TypeOK, Losing, LeasingOK
<1>4. Numbered' /\ Leases' /\ RouteOK' /\ HeldIsRouted'
  BY <1>2 DEF Numbered, Leases, RouteOK, HeldIsRouted
<1>5. TypeOK'
  BY <1>1, <1>2, <1>3 DEF TypeOK
<1>6. LineOK'
  BY <1>1, <1>2, <1>3 DEF LineOK, Attaching, Removing
<1>7. AtWork'
  BY <1>1, <1>2, <1>3 DEF AtWork, Attaching
<1>8. SwitchOK'
  BY <1>1, <1>2, <1>3 DEF SwitchOK
<1>9. LeasingOK'
  BY <1>1, <1>2, <1>3 DEF LeasingOK
<1>10. EndingOK'
  <2>1. (~At(Asker, "detach") /\ ~At(Asker, "disconnect")) \/ route[Asker] = 0
    BY DEF At
  <2> QED
    BY <1>1, <1>2, <2>1 DEF EndingOK, At, Closing
<1>11. PublishOK'
  BY <1>1, <1>2, <1>3 DEF PublishOK
<1>12. HostOK'
  BY <1>1, <1>2, <1>3 DEF HostOK
<1>13. EmptiedOK'
  BY <1>1, <1>2, <1>3 DEF EmptiedOK
<1>14. CallOK'
  BY <1>1, <1>2, <1>3 DEF CallOK, Removing
<1>15. QueueOK'
  BY <1>1, <1>2, PopKeepsQueues DEF EndAttach
<1>16. CloseOK'
  BY <1>1, <1>2, <1>3 DEF CloseOK
<1>17. ViewFollows'
  BY <1>1, <1>2, <1>3 DEF ViewFollows, Informed
<1> QED
  BY <1>4, <1>5, <1>6, <1>7, <1>8, <1>9, <1>10, <1>11, <1>12, <1>13, <1>14, <1>15, <1>16, <1>17 DEF
         IInv

LEMMA EndDetachStep ==
  ASSUME IInv, EndDetach
  PROVE  IInv'
<1>1. /\ job.pc = "detaching" /\ Released({job.current}) /\ EndAttach
      /\ lost' = lost /\ late' = late
      /\ UNCHANGED <<conn, view, sent, host, att, route, call, removed, closing, asked, crashes>>
  BY DEF EndDetach, EndAttach, Asker
<1>2. At(Asker, "detach") /\ queue[Asker] # <<>> /\ Asker \in Client
  BY <1>1, WorkIs DEF IInv, AtWork, At
<1>3. route[Asker] = 0
  BY <1>1, <1>2, WorkIs DEF IInv, SwitchOK, RouteOK, Released
<1> QED
  BY <1>1, <1>2, <1>3, EndAttachStep DEF IInv, TypeOK

LEMMA AttachedStep ==
  ASSUME IInv, Attached
  PROVE  IInv'
<1>1. /\ job.pc = "publishing" /\ EndAttach
      /\ lost' = lost /\ late' = late
      /\ UNCHANGED <<conn, view, sent, host, att, route, call, removed, closing, asked, crashes>>
  BY DEF Attached
<1>2. At(Asker, "attach") /\ queue[Asker] # <<>>
  BY <1>1 DEF IInv, AtWork, Attaching, At
<1> QED
  BY <1>1, <1>2, EndAttachStep DEF IInv, TypeOK

LEMMA OpenFailsStep ==
  ASSUME IInv, OpenFails
  PROVE  IInv'
<1>1. /\ job.pc \in {"opening", "discarding"} /\ EndAttach
      /\ job.pc = "discarding" => host[job.host].handle = "gone"
      /\ lost' = lost /\ late' = late
      /\ UNCHANGED <<conn, view, sent, host, att, route, call, removed, closing, asked, crashes>>
  BY DEF OpenFails
<1>2. At(Asker, "attach") /\ queue[Asker] # <<>>
  BY <1>1 DEF IInv, AtWork, Attaching, At
<1> QED
  BY <1>1, <1>2, EndAttachStep DEF IInv, TypeOK

LEMMA UndoneStep ==
  ASSUME IInv, Undone
  PROVE  IInv'
<1>1. /\ job.pc = "undoing" /\ EndAttach
      /\ lost' = Losing /\ late' = late
      /\ UNCHANGED <<conn, view, sent, host, att, route, call, removed, closing, asked, crashes>>
  BY DEF Undone
<1>2. At(Asker, "attach") /\ queue[Asker] # <<>>
  BY <1>1 DEF IInv, AtWork, Attaching, At
<1> QED
  BY <1>1, <1>2, EndAttachStep DEF IInv, TypeOK

LEMMA LeaseFailsStep ==
  ASSUME IInv, LeaseFails
  PROVE  IInv'
<1> USE DEF IInv
<1>a. job.pc = "leasing" /\ EndAttach /\ At(Asker, "attach") /\ queue[Asker] # <<>> /\ line # <<>>
  BY WorkIs DEF LeaseFails, AtWork, Attaching, At
<1>1. /\ line' \in Seq(Request) /\ job' = Idle /\ job'.pc = "none" /\ Idle \in Job
      /\ Asker \in Client
      /\ queue' \in [Client -> Seq(Operation)] /\ owed' \in [Client -> Nat]
      /\ \A d \in Client : d # Asker => queue'[d] = queue[d] /\ owed'[d] = owed[d]
      /\ \A d \in Client : owed[d] = 0 => owed'[d] = 0
  BY <1>a, EndAttachIs
<1>2. UNCHANGED <<conn, view, sent, host, route, call, removed, closing, asked, crashes, late>>
  BY DEF IInv, LeaseFails
<1>3. /\ job.new \in AttId /\ att[job.new].lease = "acquiring" /\ route[Asker] = 0
      /\ att' \in [AttId -> Attachment]
      /\ \A a \in AttId : /\ att'[a].client = att[a].client /\ att'[a].host = att[a].host
                          /\ a # job.new => att'[a] = att[a]
      /\ att'[job.new].lease = "failed" /\ ~att'[job.new].member
      /\ att'[job.new].release = att[job.new].release
      /\ \A a \in AttId : att[a].lease = "acquiring" => a = job.new
  <2>1. /\ job.new \in AttId /\ att[job.new].lease = "acquiring" /\ route[Asker] = 0
        /\ \A a \in AttId : att[a].lease = "acquiring" => a = job.new
    BY <1>a DEF LeasingOK
  <2>2. att' = [att EXCEPT ![job.new].lease = "failed", ![job.new].member = FALSE]
    BY DEF LeaseFails
  <2> DEFINE r == [att[job.new] EXCEPT !.lease = "failed", !.member = FALSE]
  <2>3. att \in [AttId -> Attachment] /\ att[job.new] \in Attachment
    BY <2>1 DEF TypeOK
  <2>4. /\ r \in Attachment /\ r.client = att[job.new].client /\ r.host = att[job.new].host
        /\ r.lease = "failed" /\ ~r.member /\ r.release = att[job.new].release
    BY <2>3 DEF Attachment
  <2>5. att' = [att EXCEPT ![job.new] = r]
    BY <2>1, <2>2, <2>3 DEF Attachment
  <2> HIDE DEF r
  <2> QED
    BY <2>1, <2>3, <2>4, <2>5
<1>4. /\ lost' \subseteq Client /\ \A c \in lost : c \in lost'
      /\ Informed(Asker) # route[Asker] => Asker \in lost'
  BY <1>1, <1>3 DEF TypeOK, Losing, LeaseFails
<1>5. \A c \in Client : route[c] # 0 =>
        route[c] \in AttId /\ route[c] # job.new /\ att'[route[c]] = att[route[c]]
  BY <1>3 DEF RouteOK
<1>6. TypeOK'
  BY <1>a, <1>1, <1>2, <1>3, <1>4, <1>5 DEF TypeOK
<1>7. Numbered'
  BY <1>a, <1>1, <1>2, <1>3, <1>4, <1>5 DEF Numbered
<1>8. Leases'
  <2> SUFFICES ASSUME NEW a \in AttId
               PROVE  att'[a].release = "releasing" <=> att'[a].lease = "releasing"
    BY DEF Leases
  <2>1. CASE a = job.new
    BY <1>3, <2>1 DEF Leases
  <2>2. CASE a # job.new
    BY <1>3, <2>2 DEF Leases
  <2> QED
    BY <2>1, <2>2
<1>9. LineOK'
  BY <1>a, <1>1, <1>2, <1>3, <1>4, <1>5 DEF LineOK, Attaching, Removing
<1>10. AtWork'
  BY <1>a, <1>1, <1>2, <1>3, <1>4, <1>5 DEF AtWork, Attaching
<1>11. SwitchOK'
  BY <1>a, <1>1, <1>2, <1>3, <1>4, <1>5 DEF SwitchOK
<1>12. LeasingOK'
  BY <1>a, <1>1, <1>2, <1>3, <1>4, <1>5 DEF LeasingOK
<1>13. RouteOK'
  BY <1>a, <1>1, <1>2, <1>3, <1>4, <1>5 DEF RouteOK
<1>14. HeldIsRouted'
  <2> SUFFICES ASSUME NEW a \in AttId, att'[a].lease = "held", att'[a].release = "no"
               PROVE  /\ route'[att'[a].client] = a
                      /\ att'[a].member /\ host'[att'[a].host].mapped
    BY DEF HeldIsRouted
  <2>1. att'[a] = att[a]
    BY <1>3
  <2> QED
    BY <1>2, <2>1 DEF HeldIsRouted
<1>15. EndingOK'
  <2> SUFFICES ASSUME NEW c \in Client, route[c] # 0, att[route[c]].release # "no"
               PROVE  \/ At(c, "detach")' \/ At(c, "disconnect")'
                      \/ host[att[route[c]].host].handle = "gone"
                      \/ Closing
    BY <1>2, <1>5 DEF EndingOK, Closing
  <2>1. c # Asker
    BY <1>3
  <2>2. At(c, "detach")' = At(c, "detach") /\ At(c, "disconnect")' = At(c, "disconnect")
    BY <1>1, <2>1 DEF At
  <2> QED
    BY <1>a, <2>1, <2>2 DEF EndingOK
<1>16. PublishOK'
  BY <1>a, <1>1, <1>2, <1>3, <1>4, <1>5 DEF PublishOK
<1>17. HostOK'
  BY <1>a, <1>1, <1>2, <1>3, <1>4, <1>5 DEF HostOK
<1>18. EmptiedOK'
  BY <1>a, <1>1, <1>2, <1>3, <1>4, <1>5 DEF EmptiedOK
<1>19. CallOK'
  BY <1>a, <1>1, <1>2, <1>3, <1>4, <1>5 DEF CallOK, Removing
<1>20. QueueOK'
  BY <1>a, <1>1, <1>2, PopKeepsQueues DEF EndAttach
<1>21. CloseOK'
  BY <1>a, <1>1, <1>2, <1>3, <1>4, <1>5 DEF CloseOK
<1>22. ViewFollows'
  BY <1>a, <1>1, <1>2, <1>3, <1>4, <1>5 DEF ViewFollows, Informed
<1> QED
  BY <1>6, <1>7, <1>8, <1>9, <1>10, <1>11, <1>12, <1>13, <1>14, <1>15, <1>16, <1>17, <1>18, <1>19,
         <1>20, <1>21, <1>22 DEF IInv

LEMMA LeaseKeptStep ==
  ASSUME IInv, LeaseHeld, StillWanted(job.new)
  PROVE  IInv'
<1> USE DEF IInv
<1>a. job.pc = "leasing" /\ At(Asker, "attach") /\ line # <<>> /\ Asker \in Client
      /\ First.op \in {"attach", "detach"} /\ job.host \in HostId
  BY WorkIs DEF LeaseHeld, AtWork, LineOK, Attaching
<1>1. /\ job' \in Job /\ job'.pc = "publishing" /\ job'.host = job.host
      /\ First' = First /\ Asker' = Asker
  BY DEF LeaseHeld, TypeOK, Job, First, Asker
<1>2. UNCHANGED <<conn, view, line, queue, host, call, removed, closing, owed, asked, crashes,
                  late>>
  BY DEF LeaseHeld
<1>3. /\ job.new \in AttId /\ job.new # 0 /\ att[job.new].lease = "acquiring" /\ route[Asker] = 0
      /\ att[job.new].client = Asker /\ att[job.new].host = job.host
      /\ att[job.new].member /\ att[job.new].release = "no"
      /\ host[job.host].mapped /\ ~Closing
      /\ \A a \in AttId : att[a].lease = "acquiring" => a = job.new
  BY <1>a, RouterAssumption DEF LeasingOK, StillWanted, Refused, AttId
<1>4. /\ att' \in [AttId -> Attachment]
      /\ \A a \in AttId : /\ att'[a].client = att[a].client /\ att'[a].host = att[a].host
                          /\ att'[a].member = att[a].member /\ att'[a].release = att[a].release
                          /\ a # job.new => att'[a] = att[a]
      /\ att'[job.new].lease = "held"
  <2> DEFINE r == [att[job.new] EXCEPT !.lease = "held"]
  <2>1. att \in [AttId -> Attachment] /\ att[job.new] \in Attachment
    BY <1>3 DEF TypeOK
  <2>2. /\ r \in Attachment /\ r.client = att[job.new].client /\ r.host = att[job.new].host
        /\ r.lease = "held" /\ r.member = att[job.new].member /\ r.release = att[job.new].release
    BY <2>1 DEF Attachment
  <2>3. att' = [att EXCEPT ![job.new] = r]
    BY <1>3, <2>1 DEF LeaseHeld
  <2> HIDE DEF r
  <2> QED
    BY <1>3, <2>1, <2>2, <2>3
<1>5. /\ route' \in [Client -> 0..MaxAttachments] /\ sent' \in [Client -> Seq(Message)]
      /\ lost' \subseteq Client
      /\ route'[Asker] = job.new /\ (conn[Asker] => Informed(Asker)' = job.new)
      /\ \A c \in Client : c # Asker =>
           route'[c] = route[c] /\ Informed(c)' = Informed(c) /\ (c \in lost => c \in lost')
  <2> DEFINE published == TRUE
  <2>a. PICK b \in Client : b = Asker
    BY <1>a
  <2>b. PICK n \in AttId : n = job.new
    BY <1>3
  <2>1. /\ route' = [route EXCEPT ![b] = n]
        /\ Publish(b, n, published) /\ published \in BOOLEAN
        /\ lost' = lost \ {b}
    BY <2>a, <2>b DEF LeaseHeld
  <2> HIDE DEF published
  <2>2. n \in 0..MaxAttachments
    BY RouterAssumption DEF AttId
  <2>3. /\ sent' \in [Client -> Seq(Message)]
        /\ \A c \in Client : c # b => Informed(c)' = Informed(c)
        /\ conn[b] => Informed(b)' = IF published THEN n ELSE 0
    BY <1>2, <2>1, PublishIs
  <2>4. conn[b] => Informed(b)' = n
    BY <2>3 DEF published
  <2>5. conn[Asker] => Informed(Asker)' = job.new
    BY <1>1, <2>4, <2>a, <2>b DEF Informed
  <2>6. route' \in [Client -> 0..MaxAttachments] /\ route'[b] = n
        /\ \A c \in Client : c # b => route'[c] = route[c]
    BY <2>1, <2>2 DEF TypeOK
  <2>7. lost' \subseteq Client /\ \A c \in Client : c # b /\ c \in lost => c \in lost'
    BY <2>1 DEF TypeOK
  <2> QED
    BY <2>3, <2>5, <2>6, <2>7, <2>a, <2>b
<1>6. \A c \in Client : c # Asker /\ route[c] # 0 =>
        route[c] \in AttId /\ route[c] # job.new /\ att'[route[c]] = att[route[c]]
  BY <1>3, <1>4 DEF RouteOK
<1>7. TypeOK'
  BY <1>a, <1>1, <1>2, <1>3, <1>4, <1>5, <1>6 DEF TypeOK
<1>8. Numbered'
  BY <1>2, <1>3, <1>4 DEF Numbered
<1>9. Leases'
  BY <1>3, <1>4 DEF Leases
<1>10. LineOK'
  BY <1>a, <1>1, <1>2, <1>3, <1>4, <1>5, <1>6 DEF LineOK, Attaching, Removing
<1>11. AtWork'
  BY <1>a, <1>1, <1>2, <1>3, <1>4, <1>5, <1>6 DEF AtWork, Attaching, At
<1>12. SwitchOK'
  BY <1>a, <1>1, <1>2, <1>3, <1>4, <1>5, <1>6 DEF SwitchOK
<1>13. LeasingOK'
  <2>1. \A a \in AttId : att'[a].lease # "acquiring"
    BY <1>3, <1>4
  <2> QED
    BY <1>1, <2>1 DEF LeasingOK
<1>14. RouteOK'
  BY <1>3, <1>4, <1>5, <1>6 DEF RouteOK
<1>15. HeldIsRouted'
  <2> SUFFICES ASSUME NEW a \in AttId, att'[a].lease = "held", att'[a].release = "no"
               PROVE  /\ route'[att'[a].client] = a
                      /\ att'[a].member /\ host'[att'[a].host].mapped
    BY DEF HeldIsRouted
  <2>1. CASE a = job.new
    BY <1>2, <1>3, <1>4, <1>5, <2>1
  <2>2. CASE a # job.new
    <3>1. /\ att'[a] = att[a] /\ route[att[a].client] = a /\ att[a].member
          /\ host[att[a].host].mapped /\ a # 0 /\ att[a].client \in Client
      BY <1>4, <2>2, FieldsAre, RouterAssumption DEF HeldIsRouted, AttId
    <3>2. att[a].client # Asker
      BY <1>3, <3>1
    <3> QED
      BY <1>2, <1>5, <3>1, <3>2
  <2> QED
    BY <2>1, <2>2
<1>16. EndingOK'
  <2> SUFFICES ASSUME NEW c \in Client, route'[c] # 0, att'[route'[c]].release # "no"
               PROVE  \/ At(c, "detach")' \/ At(c, "disconnect")'
                      \/ host[att'[route'[c]].host].handle = "gone"
                      \/ Closing
    BY <1>2 DEF EndingOK, Closing
  <2>1. c # Asker
    BY <1>3, <1>4, <1>5
  <2>2. At(c, "detach")' = At(c, "detach") /\ At(c, "disconnect")' = At(c, "disconnect")
    BY <1>2 DEF At
  <2>3. route'[c] = route[c] /\ att'[route[c]] = att[route[c]]
    BY <1>5, <1>6, <2>1
  <2> QED
    BY <1>a, <2>1, <2>2, <2>3 DEF EndingOK
<1>17. PublishOK'
  <2> SUFFICES ASSUME NEW c \in Client, route'[c] # 0, conn[c]
               PROVE  att'[route'[c]].release = "no" \/ att'[route'[c]].publish
    BY <1>2 DEF PublishOK
  <2>1. CASE c = Asker
    BY <1>3, <1>4, <1>5, <2>1
  <2>2. CASE c # Asker
    <3>1. route'[c] = route[c] /\ att'[route'[c]] = att[route[c]]
      BY <1>5, <1>6, <2>2
    <3> QED
      BY <1>a, <3>1 DEF PublishOK
  <2> QED
    BY <2>1, <2>2
<1>18. HostOK'
  BY <1>a, <1>1, <1>2, <1>3, <1>4, <1>5, <1>6 DEF HostOK
<1>19. EmptiedOK'
  BY <1>a, <1>1, <1>2, <1>3, <1>4, <1>5, <1>6 DEF EmptiedOK
<1>20. CallOK'
  BY <1>a, <1>2, <1>3, <1>4 DEF CallOK, Removing
<1>21. QueueOK'
  BY <1>2 DEF QueueOK
<1>22. CloseOK'
  BY <1>a, <1>1, <1>2, <1>3, <1>4, <1>5, <1>6 DEF CloseOK, Closing
<1>23. ViewFollows'
  BY <1>a, <1>1, <1>2, <1>5 DEF ViewFollows
<1> QED
  BY <1>7, <1>8, <1>9, <1>10, <1>11, <1>12, <1>13, <1>14, <1>15, <1>16, <1>17, <1>18, <1>19, <1>20,
         <1>21, <1>22, <1>23 DEF IInv

LEMMA LeaseUndoneStep ==
  ASSUME IInv, LeaseHeld, ~StillWanted(job.new)
  PROVE  IInv'
<1> USE DEF IInv
<1>1. /\ job.pc = "leasing" /\ job' \in Job
      /\ job'.pc = "undoing" /\ job'.host = job.host /\ job'.current = job.current /\ job'.new = job.new
      /\ line # <<>> /\ Asker \in Client /\ job'.pc # "none"
  BY WorkIs DEF LeaseHeld, TypeOK, Job
<1>2. First' = First /\ Asker' = Asker
      /\ UNCHANGED <<conn, view, sent, line, queue, host, route, call, removed, closing, owed,
                     asked, crashes, lost, late>>
  BY DEF IInv, LeaseHeld, First, Asker
<1>3. /\ job.new \in AttId /\ att[job.new].lease = "acquiring" /\ route[Asker] = 0
      /\ \A a \in AttId : att[a].lease = "acquiring" => a = job.new
  BY <1>1, RouterAssumption DEF LeasingOK, AttId
<1>4. /\ att' \in [AttId -> Attachment]
      /\ \A a \in AttId : /\ att'[a].client = att[a].client /\ att'[a].host = att[a].host
                          /\ att'[a].member = att[a].member
                          /\ a # job.new => att'[a] = att[a]
      /\ att'[job.new].lease = "held"
      /\ att'[job.new].release \notin {"no", "releasing"}
  <2> DEFINE held == [att EXCEPT ![job.new].lease = "held"]
             r == [att[job.new] EXCEPT !.lease = "held"]
             published == TRUE
  <2>1. att \in [AttId -> Attachment] /\ att[job.new] \in Attachment
    BY <1>3 DEF TypeOK
  <2>2. /\ r \in Attachment /\ r.client = att[job.new].client /\ r.host = att[job.new].host
        /\ r.lease = "held" /\ r.member = att[job.new].member /\ r.release = att[job.new].release
    BY <2>1 DEF Attachment
  <2>3. held = [att EXCEPT ![job.new] = r]
    BY <1>3, <2>1
  <2>4. att' = Releasing(held, {job.new}, published) /\ published \in BOOLEAN
    BY DEF LeaseHeld
  <2> HIDE DEF published
  <2>5. att[job.new].release # "releasing"
    BY <1>3 DEF Leases
  <2> HIDE DEF r
  <2>6. /\ held \in [AttId -> Attachment] /\ held[job.new] = r
        /\ \A a \in AttId : a # job.new => held[a] = att[a]
    BY <1>3, <2>1, <2>2, <2>3
  <2> HIDE DEF held
  <2>7. /\ att' \in [AttId -> Attachment]
        /\ \A a \in AttId :
             /\ att'[a].client = held[a].client /\ att'[a].host = held[a].host
             /\ att'[a].member = held[a].member /\ att'[a].lease = held[a].lease
             /\ a = job.new /\ held[a].release = "no" => att'[a].release = "draining"
             /\ ~(a = job.new /\ held[a].release = "no") => att'[a] = held[a]
    BY <2>4, <2>6, ReleasingIs
  <2> QED
    BY <1>3, <2>2, <2>4, <2>5, <2>6, <2>7, ZenonT(60)
<1>6. \A c \in Client : route[c] # 0 =>
        route[c] \in AttId /\ route[c] # job.new /\ att'[route[c]] = att[route[c]]
  BY <1>3, <1>4 DEF RouteOK
<1>7. QueueOK'
  BY <1>2 DEF QueueOK
<1>8. TypeOK'
  BY <1>1, <1>2, <1>3, <1>4, <1>6 DEF TypeOK
<1>9. Numbered'
  BY <1>1, <1>2, <1>3, <1>4, <1>6 DEF Numbered
<1>10. Leases'
  BY <1>1, <1>2, <1>3, <1>4, <1>6 DEF Leases
<1>11. LineOK'
  BY <1>1, <1>2, <1>3, <1>4, <1>6 DEF LineOK, Attaching, Removing
<1>12. AtWork'
  BY <1>1, <1>2, <1>3, <1>4, <1>6 DEF AtWork, Attaching, At
<1>13. SwitchOK'
  BY <1>1, <1>2, <1>3, <1>4, <1>6 DEF SwitchOK
<1>14. LeasingOK'
  BY <1>1, <1>2, <1>3, <1>4, <1>6 DEF LeasingOK
<1>15. RouteOK'
  BY <1>1, <1>2, <1>3, <1>4, <1>6 DEF RouteOK
<1>16. HeldIsRouted'
  BY <1>1, <1>2, <1>3, <1>4, <1>6 DEF HeldIsRouted
<1>17. EndingOK'
  BY <1>1, <1>2, <1>3, <1>4, <1>6 DEF EndingOK, At, Closing
<1>18. PublishOK'
  BY <1>1, <1>2, <1>3, <1>4, <1>6 DEF PublishOK
<1>19. HostOK'
  BY <1>1, <1>2, <1>3, <1>4, <1>6 DEF HostOK
<1>20. EmptiedOK'
  BY <1>1, <1>2, <1>3, <1>4, <1>6 DEF EmptiedOK
<1>21. CallOK'
  BY <1>1, <1>2, <1>3, <1>4, <1>6 DEF CallOK, Removing
<1>22. CloseOK'
  BY <1>1, <1>2, <1>3, <1>4, <1>6 DEF CloseOK
<1>23. ViewFollows'
  BY <1>1, <1>2, <1>3, <1>4, <1>6 DEF ViewFollows, Informed
<1> QED
  BY <1>7, <1>8, <1>9, <1>10, <1>11, <1>12, <1>13, <1>14, <1>15, <1>16, <1>17, <1>18, <1>19, <1>20,
         <1>21, <1>22, <1>23 DEF IInv

LEMMA LeaseHeldStep ==
  ASSUME IInv, LeaseHeld
  PROVE  IInv'
BY LeaseKeptStep, LeaseUndoneStep

-------------------------------------------------------------------------------
(***************************************************************************)
(* The steps of the line and of attachClientNow.                           *)
(***************************************************************************)
\* A request that is over at once: a refused attach, a creation, or the removal
\* of a session that nobody hosts.
LEMMA SkipStep ==
  ASSUME IInv, line # <<>>, job = Idle, Done, removed' \subseteq Session,
         UNCHANGED <<conn, view, sent, queue, host, att, route, call, closing, owed, asked,
                     crashes, lost, late>>
  PROVE  IInv'
<1> USE DEF IInv
<1>1. line' \in Seq(Request) /\ job' = job /\ job.pc = "none" /\ removed' \subseteq Session
  BY AskerIs DEF Done, Idle
<1>2. UNCHANGED <<conn, view, sent, queue, host, att, route, call, closing, owed, asked, crashes,
                  lost, late>>
  OBVIOUS
<1>3. Numbered' /\ Leases' /\ RouteOK' /\ HeldIsRouted' /\ QueueOK' /\ CloseOK'
  BY <1>2 DEF Numbered, Leases, RouteOK, HeldIsRouted, QueueOK, CloseOK
<1>4. TypeOK'
  BY <1>1, <1>2 DEF TypeOK
<1>5. LineOK'
  BY <1>1, <1>2 DEF LineOK, Attaching, Removing
<1>6. AtWork'
  BY <1>1, <1>2 DEF AtWork, Attaching
<1>7. SwitchOK'
  BY <1>1, <1>2 DEF SwitchOK
<1>8. LeasingOK'
  BY <1>1, <1>2 DEF LeasingOK
<1>9. EndingOK'
  BY <1>1, <1>2 DEF EndingOK, At, Closing
<1>10. PublishOK'
  BY <1>1, <1>2 DEF PublishOK
<1>11. HostOK'
  BY <1>1, <1>2 DEF HostOK
<1>12. EmptiedOK'
  BY <1>1, <1>2 DEF EmptiedOK
<1>13. CallOK'
  BY <1>1, <1>2 DEF CallOK
<1>14. ViewFollows'
  BY <1>1, <1>2 DEF ViewFollows, Informed
<1> QED
  BY <1>3, <1>4, <1>5, <1>6, <1>7, <1>8, <1>9, <1>10, <1>11, <1>12, <1>13, <1>14 DEF IInv

LEMMA CreateStep ==
  ASSUME IInv, Create
  PROVE  IInv'
<1>1. line # <<>> /\ First.op = "create" /\ Done
  BY DEF Create
<1>2. job = Idle
  BY <1>1 DEF IInv, LineOK, TypeOK, Job, Attaching, Removing
<1> QED
  BY <1>1, <1>2, SkipStep DEF IInv, TypeOK, Create

LEMMA EnterStep ==
  ASSUME IInv, Enter
  PROVE  IInv'
<1> USE DEF IInv
<1>a. CASE First.op = "attach" /\ Closing
  BY <1>a, SkipStep DEF Enter, TypeOK
<1>b. CASE ~(First.op = "attach" /\ Closing)
  <2>1. /\ line # <<>> /\ job.pc = "none" /\ First.op \in {"attach", "detach"}
        /\ job' \in Job /\ job'.pc = "queued"
        /\ First.client \in Client /\ [kind |-> First.op, call |-> 0] \in Operation
        /\ First.op = "attach" => closing = "no"
        /\ queue' = Operate(queue, First.client, First.op, 0)
    <3>1. job' = [Idle EXCEPT !.pc = "queued"] /\ job = Idle /\ line # <<>>
          /\ First.op \in {"attach", "detach"}
          /\ queue' = Operate(queue, First.client, First.op, 0)
      BY <1>b DEF Enter
    <3>2. [Idle EXCEPT !.pc = "queued"] \in Job /\ Idle.pc = "none"
      BY RouterAssumption DEF Idle, Job
    <3>3. First.client \in Client
      BY <3>1, AskerIs DEF Asker
    <3>4. [kind |-> First.op, call |-> 0] \in Operation
      BY <3>1, RouterAssumption DEF Operation
    <3>5. job'.pc = "queued"
      BY <3>1 DEF Idle
    <3> QED
      BY <1>b, <3>1, <3>2, <3>3, <3>4, <3>5 DEF Closing
  <2>2. First' = First /\ Asker' = Asker
        /\ UNCHANGED <<conn, view, sent, line, host, att, route, call, removed, closing, owed,
                       asked, crashes, lost, late>>
    BY <1>b DEF Enter, First, Asker
  <2>3. /\ queue' \in [Client -> Seq(Operation)]
        /\ \A d \in Client : queue[d] # <<>> => queue'[d] # <<>> /\ Head(queue'[d]) = Head(queue[d])
        /\ \A d \in Client : \A i \in DOMAIN queue'[d] :
             \/ i \in DOMAIN queue[d] /\ queue'[d][i] = queue[d][i]
             \/ d = First.client /\ queue'[d][i] = [kind |-> First.op, call |-> 0]
    BY <2>1, QueueGrows
  <2>4. Numbered' /\ Leases' /\ RouteOK' /\ HeldIsRouted' /\ CloseOK'
    BY <2>2 DEF Numbered, Leases, RouteOK, HeldIsRouted, CloseOK
  <2>5. TypeOK'
    BY <2>1, <2>2, <2>3 DEF TypeOK
  <2>6. LineOK'
    BY <2>1, <2>2, <2>3 DEF LineOK, Attaching, Removing
  <2>7. AtWork'
    BY <2>1, <2>2, <2>3 DEF AtWork, Attaching
  <2>8. SwitchOK'
    BY <2>1, <2>2, <2>3 DEF SwitchOK
  <2>9. LeasingOK'
    BY <2>1, <2>2, <2>3 DEF LeasingOK
  <2>10. EndingOK'
    BY <2>1, <2>2, <2>3 DEF EndingOK, At, Closing
  <2>11. PublishOK'
    BY <2>1, <2>2, <2>3 DEF PublishOK
  <2>12. HostOK'
    BY <2>1, <2>2, <2>3 DEF HostOK
  <2>13. EmptiedOK'
    BY <2>1, <2>2, <2>3 DEF EmptiedOK
  <2>14. CallOK'
    BY <2>1, <2>2, <2>3 DEF CallOK, Removing
  <2>15. QueueOK'
    <3> SUFFICES ASSUME NEW d \in Client, NEW i \in DOMAIN queue'[d]
                 PROVE  /\ queue'[d][i].kind = "call" =>
                             queue'[d][i].call \in CallId /\ call[queue'[d][i].call].att \in AttId
                        /\ queue'[d][i].kind = "disconnect" => ~conn[d]
                        /\ queue'[d][i].kind = "attach" => closing \in {"no", "listeners"} \/ i <= owed[d]
      BY <2>2 DEF QueueOK
    <3>1. CASE i \in DOMAIN queue[d] /\ queue'[d][i] = queue[d][i]
      BY <3>1 DEF QueueOK
    <3>2. CASE queue'[d][i] = [kind |-> First.op, call |-> 0]
      BY <2>1, <3>2
    <3> QED
      BY <2>3, <3>1, <3>2
  <2>16. ViewFollows'
    BY <2>1, <2>2, <2>3 DEF ViewFollows, Informed
  <2> QED
    BY <2>4, <2>5, <2>6, <2>7, <2>8, <2>9, <2>10, <2>11, <2>12, <2>13, <2>14, <2>15, <2>16 DEF IInv
<1> QED
  BY <1>a, <1>b

LEMMA OpenStep ==
  ASSUME IInv, Open
  PROVE  IInv'
<1> USE DEF IInv
<1>a. /\ job.pc = "opening" /\ NextHost \in HostId /\ NextHost # 0
      /\ host[NextHost].handle = "unused" /\ ~host[NextHost].mapped
      /\ \A h \in HostId : host[h].handle # "unused" <=> h < NextHost
      /\ NextHost \in Nat /\ line # <<>> /\ Asker \in Client /\ First.session \in Session
  BY NextHostIsFree, WorkIs DEF Open, HostOK
<1>1. /\ job' \in Job /\ job'.pc \in {"acquired", "discarding"} /\ job'.host = NextHost
      /\ job'.current = job.current
      /\ host' \in [HostId -> Hosted]
      /\ \A h \in HostId : h # NextHost => host'[h] = host[h]
      /\ Closing => /\ job'.pc = "discarding" /\ host'[NextHost].handle = "stopping"
                     /\ ~host'[NextHost].mapped
      /\ ~Closing => /\ job'.pc = "acquired" /\ host'[NextHost].handle = "open"
                      /\ host'[NextHost].mapped
  <2>1. NextHost \in 0..MaxHosts
    BY <1>a, RouterAssumption DEF HostId
  <2> DEFINE r == [session |-> First.session, mapped |-> ~Closing,
                   handle |-> IF Closing THEN "stopping" ELSE "open"]
             j == [job EXCEPT !.pc = IF Closing THEN "discarding" ELSE "acquired", !.host = NextHost]
  <2>2. /\ r \in Hosted
        /\ Closing => ~r.mapped /\ r.handle = "stopping"
        /\ ~Closing => r.mapped /\ r.handle = "open"
    BY <1>a DEF Hosted, Closing
  <2>3. /\ j \in Job /\ j.host = NextHost /\ j.current = job.current
        /\ Closing => j.pc = "discarding"
        /\ ~Closing => j.pc = "acquired"
    BY <2>1 DEF TypeOK, Job
  <2>4. host' = [host EXCEPT ![NextHost] = r] /\ job' = j /\ host \in [HostId -> Hosted]
    BY DEF Open, TypeOK
  <2> HIDE DEF r, j
  <2>5. /\ host' \in [HostId -> Hosted] /\ host'[NextHost] = r
        /\ \A h \in HostId : h # NextHost => host'[h] = host[h]
    BY <1>a, <2>2, <2>4
  <2> QED
    BY <2>2, <2>3, <2>4, <2>5
<1>2. First' = First /\ Asker' = Asker
      /\ UNCHANGED <<conn, view, sent, line, queue, att, route, call, removed, closing, owed,
                     asked, crashes, lost, late>>
  BY DEF IInv, Open, First, Asker
<1>3. Leases' /\ RouteOK' /\ QueueOK'
  BY <1>2 DEF Leases, RouteOK, QueueOK
<1>4. TypeOK'
  BY <1>a, <1>1, <1>2 DEF TypeOK
<1>5. Numbered'
  BY <1>a, <1>1, <1>2 DEF Numbered, HostId
<1>6. LineOK'
  BY <1>a, <1>1, <1>2 DEF LineOK, Attaching, Removing
<1>7. AtWork'
  BY <1>a, <1>1, <1>2 DEF AtWork, Attaching, At
<1>8. SwitchOK'
  BY <1>a, <1>1, <1>2 DEF SwitchOK
<1>9. LeasingOK'
  BY <1>a, <1>1, <1>2 DEF LeasingOK
<1>10. HeldIsRouted'
  BY <1>a, <1>1, <1>2, FieldsAre DEF HeldIsRouted
<1>11. EndingOK'
  BY <1>a, <1>1, <1>2, FieldsAre DEF EndingOK, At, Closing
<1>12. PublishOK'
  BY <1>a, <1>1, <1>2 DEF PublishOK
<1>13. HostOK'
  BY <1>a, <1>1, <1>2 DEF HostOK
<1>14. EmptiedOK'
  BY <1>a, <1>1, <1>2 DEF EmptiedOK
<1>15. CallOK'
  BY <1>a, <1>1, <1>2, FieldsAre DEF CallOK, Removing
<1>16. CloseOK'
  BY <1>a, <1>1, <1>2 DEF CloseOK, Closing
<1>17. ViewFollows'
  BY <1>a, <1>1, <1>2 DEF ViewFollows, Informed
<1> QED
  BY <1>3, <1>4, <1>5, <1>6, <1>7, <1>8, <1>9, <1>10, <1>11, <1>12, <1>13, <1>14, <1>15, <1>16,
         <1>17 DEF IInv

LEMMA StartAttachStep ==
  ASSUME IInv, StartAttach
  PROVE  IInv'
<1> USE DEF IInv
<1>a. /\ job.pc = "queued" /\ At(Asker, "attach") /\ queue[Asker] # <<>> /\ line # <<>>
      /\ Asker \in Client /\ First.session \in Session /\ First.op \in {"attach", "detach"}
      /\ late' \subseteq Client /\ lost' = lost
  BY WorkIs DEF StartAttach, At, TypeOK, LineOK
<1>b. CASE EndAttach
  <2>1. UNCHANGED <<conn, view, sent, host, att, route, call, removed, closing, asked, crashes>>
    BY DEF StartAttach
  <2> QED
    BY <1>a, <1>b, <2>1, EndAttachStep
<1>c. CASE ~EndAttach
  <2>1. /\ job' \in Job /\ job'.pc \in {"opening", "acquired"} /\ job'.current = route[Asker]
        /\ job'.pc = "acquired" => job'.host \in HostId
    <3> DEFINE hosted == MappedTo(First.session)
               h == IF hosted = {} THEN 0 ELSE CHOOSE h \in hosted : TRUE
               pc == IF hosted = {} THEN "opening" ELSE "acquired"
               j == [Idle EXCEPT !.pc = pc, !.current = route[Asker], !.host = h]
    <3>1. hosted = {} => h = 0
      OBVIOUS
    <3>2. hosted # {} => h \in HostId
      BY DEF MappedTo
    <3>3. h \in 0..MaxHosts
      BY <3>1, <3>2, RouterAssumption DEF HostId
    <3>4. route[Asker] \in 0..MaxAttachments
      BY <1>a DEF TypeOK
    <3>5. job' = j
      BY <1>c DEF StartAttach
    <3>6. pc \in {"opening", "acquired"} /\ (pc = "acquired" => hosted # {})
      OBVIOUS
    <3> HIDE DEF h, hosted, pc
    <3>7. j \in Job /\ j.current = route[Asker] /\ j.host = h /\ j.pc = pc
      <4>1. Idle \in Job
        BY RouterAssumption DEF Idle, Job
      <4> QED
        BY <3>3, <3>4, <3>6, <4>1 DEF Job
    <3> QED
      BY <3>2, <3>5, <3>6, <3>7
  <2>2. First' = First /\ Asker' = Asker
        /\ UNCHANGED <<conn, view, sent, line, queue, host, att, route, call, removed, closing,
                       owed, asked, crashes, lost>>
    BY <1>c DEF StartAttach, First, Asker
  <2>3. Numbered' /\ Leases' /\ RouteOK' /\ HeldIsRouted' /\ QueueOK' /\ CloseOK'
    BY <2>2 DEF Numbered, Leases, RouteOK, HeldIsRouted, QueueOK, CloseOK
  <2>4. TypeOK'
    BY <1>a, <2>1, <2>2 DEF TypeOK
  <2>5. LineOK'
    BY <1>a, <2>1, <2>2 DEF LineOK, Attaching, Removing
  <2>6. AtWork'
    BY <1>a, <2>1, <2>2 DEF AtWork, Attaching, At
  <2>7. SwitchOK'
    BY <1>a, <2>1, <2>2, FieldsAre DEF SwitchOK, RouteOK
  <2>8. LeasingOK'
    BY <1>a, <2>1, <2>2 DEF LeasingOK
  <2>9. EndingOK'
    BY <1>a, <2>1, <2>2 DEF EndingOK, At, Closing
  <2>10. PublishOK'
    BY <1>a, <2>1, <2>2 DEF PublishOK
  <2>11. HostOK'
    BY <1>a, <2>1, <2>2 DEF HostOK
  <2>12. EmptiedOK'
    BY <1>a, <2>1, <2>2 DEF EmptiedOK
  <2>13. CallOK'
    BY <1>a, <2>1, <2>2 DEF CallOK, Removing
  <2>14. ViewFollows'
    BY <1>a, <2>1, <2>2 DEF ViewFollows, Informed
  <2> QED
    BY <2>3, <2>4, <2>5, <2>6, <2>7, <2>8, <2>9, <2>10, <2>11, <2>12, <2>13, <2>14 DEF IInv
<1> QED
  BY <1>b, <1>c

LEMMA StartDetachStep ==
  ASSUME IInv, StartDetach
  PROVE  IInv'
<1> USE DEF IInv
<1>a. /\ job.pc = "queued" /\ At(Asker, "detach") /\ queue[Asker] # <<>> /\ line # <<>>
      /\ Asker \in Client /\ First.op \in {"attach", "detach"}
  BY WorkIs DEF StartDetach, At, LineOK, Asker
<1>b. CASE route[Asker] = 0
  <2>1. /\ EndAttach /\ lost' = lost /\ late' = late
        /\ UNCHANGED <<conn, view, sent, host, att, route, call, removed, closing, asked,
                       crashes>>
    BY <1>b DEF StartDetach, EndAttach, Asker
  <2> QED
    BY <1>a, <1>b, <2>1, EndAttachStep DEF TypeOK
<1>c. CASE route[Asker] # 0
  <2>1. /\ job' \in Job /\ job'.pc = "detaching" /\ job'.current = route[Asker]
        /\ route[Asker] \in AttId /\ att[route[Asker]].client = Asker
    <3>1. job' = [job EXCEPT !.pc = "detaching", !.current = route[Asker]]
      BY <1>c DEF StartDetach, Asker
    <3>2. route[Asker] \in 0..MaxAttachments
      BY <1>a DEF TypeOK
    <3>3. route[Asker] \in AttId /\ att[route[Asker]].client = Asker
      BY <1>a, <1>c DEF RouteOK
    <3> QED
      BY <3>1, <3>2, <3>3 DEF TypeOK, Job
  <2>2. First' = First /\ Asker' = Asker
        /\ UNCHANGED <<conn, view, sent, line, queue, host, route, call, removed, closing, owed,
                       asked, crashes, lost, late>>
    BY <1>c DEF StartDetach, First, Asker
  <2>3. /\ att' \in [AttId -> Attachment]
        /\ \A a \in AttId : /\ att'[a].client = att[a].client /\ att'[a].host = att[a].host
                            /\ att'[a].member = att[a].member /\ att'[a].lease = att[a].lease
                            /\ a # route[Asker] \/ att[a].release # "no" => att'[a] = att[a]
                            /\ a = route[Asker] /\ att[a].release = "no" =>
                                 /\ att'[a].release = "draining" /\ att'[a].waits = Running(a)
                                 /\ att'[a].publish
    <3> DEFINE published == TRUE
    <3>1. /\ att' = Releasing(att, {route[Asker]}, published) /\ published \in BOOLEAN
          /\ att \in [AttId -> Attachment]
      BY <1>c DEF StartDetach, TypeOK, Asker
    <3> HIDE DEF published
    <3>2. /\ att' \in [AttId -> Attachment]
          /\ \A a \in AttId :
               /\ att'[a].client = att[a].client /\ att'[a].host = att[a].host
               /\ att'[a].member = att[a].member /\ att'[a].lease = att[a].lease
               /\ a \in {route[Asker]} /\ att[a].release = "no" =>
                    /\ att'[a].release = "draining" /\ att'[a].waits = Running(a)
                    /\ att'[a].publish = published
               /\ ~(a \in {route[Asker]} /\ att[a].release = "no") => att'[a] = att[a]
      BY <3>1, ReleasingIs
    <3>3. published
      BY DEF published
    <3> QED
      BY <3>2, <3>3
  <2>4. \A c \in Client : route[c] # 0 =>
          /\ route[c] \in AttId
          /\ c # Asker => route[c] # route[Asker] /\ att'[route[c]] = att[route[c]]
    BY <2>1, <2>3 DEF RouteOK
  <2>5. QueueOK' /\ HostOK' /\ ViewFollows'
    BY <1>a, <2>1, <2>2 DEF QueueOK, HostOK, ViewFollows, Informed
  <2>6. TypeOK'
    BY <2>1, <2>2, <2>3 DEF TypeOK
  <2>7. Numbered'
    BY <2>2, <2>3 DEF Numbered
  <2>8. Leases'
    BY <2>3 DEF Leases
  <2>9. LineOK'
    BY <1>a, <2>1, <2>2 DEF LineOK, Attaching, Removing
  <2>10. AtWork'
    BY <1>a, <2>1, <2>2 DEF AtWork, Attaching, At
  <2>11. SwitchOK'
    BY <1>a, <2>1, <2>2, <2>3 DEF SwitchOK
  <2>12. LeasingOK'
    BY <1>a, <2>1, <2>2, <2>3 DEF LeasingOK
  <2>13. RouteOK'
    BY <2>2, <2>3 DEF RouteOK
  <2>14. HeldIsRouted'
    BY <2>2, <2>3 DEF HeldIsRouted
  <2>15. EndingOK'
    BY <1>a, <2>1, <2>2, <2>3, <2>4 DEF EndingOK, At, Closing
  <2>16. PublishOK'
    BY <1>a, <2>1, <2>2, <2>3, <2>4 DEF PublishOK
  <2>17. EmptiedOK'
    BY <2>1, <2>2, <2>3 DEF EmptiedOK
  <2>18. CallOK'
    BY <1>a, <2>1, <2>2, <2>3 DEF CallOK, Removing, Running
  <2>19. CloseOK'
    BY <2>2, <2>3 DEF CloseOK
  <2> QED
    BY <2>5, <2>6, <2>7, <2>8, <2>9, <2>10, <2>11, <2>12, <2>13, <2>14, <2>15, <2>16, <2>17, <2>18,
           <2>19 DEF IInv
<1> QED
  BY <1>b, <1>c

LEMMA AcquiredStep ==
  ASSUME IInv, Acquired
  PROVE  IInv'
<1> USE DEF IInv
<1>a. /\ job.pc = "acquired" /\ At(Asker, "attach") /\ queue[Asker] # <<>> /\ line # <<>>
      /\ Asker \in Client /\ job.host \in HostId /\ First.op \in {"attach", "detach"}
  BY WorkIs DEF Acquired, At, AtWork, LineOK, Attaching
<1>b. CASE Refused
  <2>1. /\ EndAttach /\ lost' = lost /\ late' = late
        /\ UNCHANGED <<conn, view, sent, host, att, route, call, removed, closing, asked,
                       crashes>>
    BY <1>b DEF Acquired
  <2> QED
    BY <1>a, <2>1, EndAttachStep DEF TypeOK
<1>c. CASE ~Refused
  <2>1. /\ job' \in Job /\ job'.pc = "switching" /\ job'.current = job.current
        /\ job'.host = job.host
    BY <1>c DEF Acquired, TypeOK, Job
  <2>2. First' = First /\ Asker' = Asker
        /\ UNCHANGED <<conn, view, sent, line, queue, host, route, call, removed, closing, owed,
                       asked, crashes, lost, late>>
    BY <1>c DEF Acquired, First, Asker
  <2>3. /\ att' \in [AttId -> Attachment]
        /\ \A a \in AttId : /\ att'[a].client = att[a].client /\ att'[a].host = att[a].host
                            /\ att'[a].member = att[a].member /\ att'[a].lease = att[a].lease
                            /\ a # job.current \/ att[a].release # "no" => att'[a] = att[a]
                            /\ a = job.current => att'[a].release # "no"
                            /\ att'[a] # att[a] => att'[a].release = "draining"
                                                   /\ att[a].release = "no"
                                                   /\ att'[a].waits = Running(a)
    <3>1. att \in [AttId -> Attachment] /\ \A a \in AttId : a # 0
      BY RouterAssumption DEF TypeOK, AttId
    <3>2. CASE job.current = 0
      BY <1>c, <3>1, <3>2 DEF Acquired
    <3>3. CASE job.current # 0
      <4> DEFINE published == FALSE
      <4>1. att' = Releasing(att, {job.current}, published) /\ published \in BOOLEAN
        BY <1>c, <3>3 DEF Acquired
      <4> HIDE DEF published
      <4>2. /\ att' \in [AttId -> Attachment]
            /\ \A a \in AttId :
                 /\ att'[a].client = att[a].client /\ att'[a].host = att[a].host
                 /\ att'[a].member = att[a].member /\ att'[a].lease = att[a].lease
                 /\ a = job.current /\ att[a].release = "no" =>
                      att'[a].release = "draining" /\ att'[a].waits = Running(a)
                 /\ ~(a = job.current /\ att[a].release = "no") => att'[a] = att[a]
        BY <3>1, <4>1, ReleasingIs
      <4> QED
        BY <4>2
    <3> QED
      BY <3>2, <3>3
  <2>4. \A c \in Client : route[c] # 0 =>
          /\ route[c] \in AttId
          /\ c # Asker => route[c] # job.current
    BY <1>a, FieldsAre DEF RouteOK, SwitchOK
  <2>5. \A c \in Client : route[c] # 0 /\ c # Asker => att'[route[c]] = att[route[c]]
    BY <2>3, <2>4
  <2>6. QueueOK'
    BY <2>2 DEF QueueOK
  <2>7. TypeOK'
    BY <1>a, <2>1, <2>2, <2>3, <2>4, <2>5 DEF TypeOK
  <2>8. Numbered'
    BY <1>a, <2>1, <2>2, <2>3, <2>4, <2>5 DEF Numbered
  <2>9. Leases'
    BY <1>a, <2>1, <2>2, <2>3, <2>4, <2>5 DEF Leases
  <2>10. LineOK'
    BY <1>a, <2>1, <2>2, <2>3, <2>4, <2>5 DEF LineOK, Attaching, Removing
  <2>11. AtWork'
    BY <1>a, <2>1, <2>2, <2>3, <2>4, <2>5 DEF AtWork, Attaching, At
  <2>12. SwitchOK'
    BY <1>a, <2>1, <2>2, <2>3, <2>4, <2>5, FieldsAre DEF SwitchOK
  <2>13. LeasingOK'
    BY <1>a, <2>1, <2>2, <2>3, <2>4, <2>5 DEF LeasingOK
  <2>14. RouteOK'
    BY <1>a, <2>1, <2>2, <2>3, <2>4, <2>5 DEF RouteOK
  <2>15. HeldIsRouted'
    BY <1>a, <2>1, <2>2, <2>3, <2>4, <2>5 DEF HeldIsRouted
  <2>16. EndingOK'
    BY <1>a, <2>1, <2>2, <2>3, <2>4, <2>5 DEF EndingOK, At, Closing
  <2>17. PublishOK'
    BY <1>a, <2>1, <2>2, <2>3, <2>4, <2>5 DEF PublishOK
  <2>18. HostOK'
    BY <1>a, <2>1, <2>2, <2>3, <2>4, <2>5 DEF HostOK
  <2>19. EmptiedOK'
    BY <1>a, <2>1, <2>2, <2>3, <2>4, <2>5 DEF EmptiedOK
  <2>20. CallOK'
    BY <1>a, <2>1, <2>2, <2>3, <2>4, <2>5 DEF CallOK, Removing, Running
  <2>21. CloseOK'
    BY <1>a, <2>1, <2>2, <2>3, <2>4, <2>5 DEF CloseOK
  <2>22. ViewFollows'
    BY <1>a, <2>1, <2>2, <2>3, <2>4, <2>5 DEF ViewFollows, Informed
  <2> QED
    BY <2>6, <2>7, <2>8, <2>9, <2>10, <2>11, <2>12, <2>13, <2>14, <2>15, <2>16, <2>17, <2>18, <2>19,
           <2>20, <2>21, <2>22 DEF IInv
<1> QED
  BY <1>b, <1>c

LEMMA LeaseStep ==
  ASSUME IInv, Lease
  PROVE  IInv'
<1> USE DEF IInv
<1>a. /\ job.pc = "switching" /\ At(Asker, "attach") /\ queue[Asker] # <<>> /\ line # <<>>
      /\ Asker \in Client /\ job.host \in HostId /\ First.op \in {"attach", "detach"}
      /\ NextAtt \in AttId /\ NextAtt \in Nat
      /\ \A a \in AttId : att[a].lease # "none" <=> a < NextAtt
  BY WorkIs, NextAttIsFree DEF Lease, At, AtWork, LineOK, Attaching
<1>b. route[Asker] = 0
  <2>1. job.current # 0 => job.current \in AttId /\ att[job.current].release = "done"
    BY FieldsAre DEF Lease, Released
  <2> QED
    BY <1>a, <2>1 DEF SwitchOK, RouteOK
<1>1. /\ job' \in Job /\ job'.pc = "leasing" /\ job'.host = job.host /\ job'.new = NextAtt
      /\ att' \in [AttId -> Attachment]
      /\ \A a \in AttId : a # NextAtt => att'[a] = att[a]
      /\ att'[NextAtt].client = Asker /\ att'[NextAtt].host = job.host
      /\ att'[NextAtt].lease = "acquiring" /\ att'[NextAtt].release = "no"
      /\ att[NextAtt].lease = "none"
  <2> DEFINE r == [client |-> Asker, host |-> job.host, member |-> TRUE, lease |-> "acquiring",
                   release |-> "no", waits |-> {}, publish |-> FALSE]
             j == [job EXCEPT !.pc = "leasing", !.new = NextAtt]
  <2>1. /\ r \in Attachment /\ r.client = Asker /\ r.host = job.host
        /\ r.lease = "acquiring" /\ r.release = "no"
    BY <1>a DEF Attachment
  <2>2. NextAtt \in 0..MaxAttachments
    BY <1>a, RouterAssumption DEF AttId
  <2>3. j \in Job /\ j.pc = "leasing" /\ j.host = job.host /\ j.new = NextAtt
    BY <2>2 DEF TypeOK, Job
  <2>4. att' = [att EXCEPT ![NextAtt] = r] /\ job' = j /\ att \in [AttId -> Attachment]
    BY DEF Lease, TypeOK
  <2>5. att[NextAtt].lease = "none"
    BY <1>a
  <2> HIDE DEF r, j
  <2> QED
    BY <1>a, <2>1, <2>3, <2>4, <2>5
<1>2. First' = First /\ Asker' = Asker
      /\ UNCHANGED <<conn, view, sent, line, queue, host, route, call, removed, closing, owed,
                     asked, crashes, lost, late>>
  BY DEF IInv, Lease, First, Asker
<1>3. \A c \in Client : route[c] # 0 =>
        route[c] \in AttId /\ route[c] # NextAtt /\ att'[route[c]] = att[route[c]]
  BY <1>1 DEF RouteOK
<1>4. QueueOK'
  BY <1>2 DEF QueueOK
<1>5. TypeOK'
  BY <1>a, <1>b, <1>1, <1>2, <1>3 DEF TypeOK
<1>6. Numbered'
  BY <1>a, <1>b, <1>1, <1>2, <1>3 DEF Numbered, AttId
<1>7. Leases'
  BY <1>a, <1>b, <1>1, <1>2, <1>3 DEF Leases
<1>8. LineOK'
  BY <1>a, <1>b, <1>1, <1>2, <1>3 DEF LineOK, Attaching, Removing
<1>9. AtWork'
  BY <1>a, <1>b, <1>1, <1>2, <1>3 DEF AtWork, Attaching, At
<1>10. SwitchOK'
  BY <1>a, <1>b, <1>1, <1>2, <1>3 DEF SwitchOK
<1>11. LeasingOK'
  BY <1>a, <1>b, <1>1, <1>2, <1>3 DEF LeasingOK
<1>12. RouteOK'
  BY <1>a, <1>b, <1>1, <1>2, <1>3 DEF RouteOK
<1>13. HeldIsRouted'
  BY <1>a, <1>b, <1>1, <1>2, <1>3 DEF HeldIsRouted
<1>14. EndingOK'
  BY <1>a, <1>b, <1>1, <1>2, <1>3 DEF EndingOK, At, Closing
<1>15. PublishOK'
  BY <1>a, <1>b, <1>1, <1>2, <1>3 DEF PublishOK
<1>16. HostOK'
  BY <1>a, <1>b, <1>1, <1>2, <1>3 DEF HostOK
<1>17. EmptiedOK'
  BY <1>a, <1>b, <1>1, <1>2, <1>3 DEF EmptiedOK
<1>18. CallOK'
  BY <1>a, <1>b, <1>1, <1>2, <1>3, ZenonT(60) DEF CallOK, Removing
<1>19. CloseOK'
  BY <1>a, <1>b, <1>1, <1>2, <1>3 DEF CloseOK
<1>20. ViewFollows'
  BY <1>a, <1>b, <1>1, <1>2, <1>3 DEF ViewFollows, Informed
<1> QED
  BY <1>4, <1>5, <1>6, <1>7, <1>8, <1>9, <1>10, <1>11, <1>12, <1>13, <1>14, <1>15, <1>16, <1>17,
         <1>18, <1>19, <1>20 DEF IInv

-------------------------------------------------------------------------------
(***************************************************************************)
(* The steps of the removal of a session, of the workers and of close().   *)
(***************************************************************************)
LEMMA StoppingIs ==
  ASSUME TypeOK, NEW hs, Stopping(hs)
  PROVE  /\ host' \in [HostId -> Hosted] /\ call' \in [CallId -> Call]
         /\ \A h \in HostId : /\ host'[h].session = host[h].session
                              /\ host'[h].mapped = host[h].mapped
                              /\ h \notin hs \/ host[h].handle # "open" => host'[h] = host[h]
                              /\ h \in hs /\ host[h].handle = "open" => host'[h].handle = "stopping"
         /\ \A k \in CallId : /\ call'[k].att = call[k].att
                              /\ call'[k].state = "running" =>
                                   call[k].state = "running" /\ att[call[k].att].host \notin hs
<1>1. host \in [HostId -> Hosted] /\ call \in [CallId -> Call]
  BY DEF TypeOK
<1>2. /\ host' = [h \in HostId |-> IF h \in hs /\ host[h].handle = "open"
                                   THEN [host[h] EXCEPT !.handle = "stopping"] ELSE host[h]]
      /\ call' = [k \in CallId |-> IF call[k].state = "running" /\ att[call[k].att].host \in hs
                                   THEN [call[k] EXCEPT !.state = "settled"] ELSE call[k]]
  BY DEF Stopping
<1>3. \A r \in Hosted : /\ [r EXCEPT !.handle = "stopping"] \in Hosted
                        /\ [r EXCEPT !.handle = "stopping"].session = r.session
                        /\ [r EXCEPT !.handle = "stopping"].mapped = r.mapped
                        /\ [r EXCEPT !.handle = "stopping"].handle = "stopping"
  BY DEF Hosted
<1>4. \A r \in Call : /\ [r EXCEPT !.state = "settled"] \in Call
                      /\ [r EXCEPT !.state = "settled"].att = r.att
                      /\ [r EXCEPT !.state = "settled"].state = "settled"
  BY DEF Call
<1>5. /\ host' \in [HostId -> Hosted]
      /\ \A h \in HostId : /\ host'[h].session = host[h].session
                           /\ host'[h].mapped = host[h].mapped
                           /\ h \notin hs \/ host[h].handle # "open" => host'[h] = host[h]
                           /\ h \in hs /\ host[h].handle = "open" => host'[h].handle = "stopping"
  BY <1>1, <1>2, <1>3
<1>6. /\ call' \in [CallId -> Call]
      /\ \A k \in CallId : /\ call'[k].att = call[k].att
                           /\ call'[k].state = "running" =>
                                call[k].state = "running" /\ att[call[k].att].host \notin hs
  BY <1>1, <1>2, <1>4
<1> QED
  BY <1>5, <1>6

LEMMA StartRemoveStep ==
  ASSUME IInv, StartRemove
  PROVE  IInv'
<1> USE DEF IInv
<1>a. line # <<>> /\ job = Idle /\ job.pc = "none" /\ First.op = "remove" /\ First.session \in Session
  BY AskerIs DEF StartRemove, Idle
<1> DEFINE hosted == MappedTo(First.session)
           h == CHOOSE i \in hosted : TRUE
           published == TRUE
<1>b. CASE Closing \/ hosted = {}
  <2>1. /\ Done /\ removed' \subseteq Session
        /\ UNCHANGED <<conn, view, sent, queue, host, att, route, call, closing, owed, asked,
                       crashes, lost, late>>
    BY <1>a, <1>b DEF StartRemove, Deleting, TypeOK
  <2> QED
    BY <1>a, <2>1, SkipStep
<1>c. CASE ~(Closing \/ hosted = {})
  <2>1. /\ job' = [Idle EXCEPT !.pc = "removing", !.host = h]
        /\ att' = Releasing(att, Members(h), published) /\ published \in BOOLEAN
        /\ h \in HostId
    BY <1>c DEF StartRemove, MappedTo
  <2> HIDE DEF hosted, h, published
  <2>2. First' = First /\ Asker' = Asker
        /\ UNCHANGED <<conn, view, sent, line, queue, host, route, call, removed, closing, owed,
                       asked, crashes, lost, late>>
    BY <1>c DEF StartRemove, First, Asker, hosted
  <2>3. job' \in Job /\ job'.pc = "removing" /\ job'.host = h
    <3>1. Idle \in Job /\ h \in 0..MaxHosts
      BY <2>1, RouterAssumption DEF Idle, Job, HostId
    <3> QED
      BY <2>1, <3>1 DEF Job
  <2>4. /\ att' \in [AttId -> Attachment]
        /\ \A a \in AttId :
             /\ att'[a].client = att[a].client /\ att'[a].host = att[a].host
             /\ att'[a].member = att[a].member /\ att'[a].lease = att[a].lease
             /\ a \in Members(h) /\ att[a].release = "no" =>
                  /\ att'[a].release = "draining" /\ att'[a].waits = Running(a)
                  /\ att'[a].publish = published
             /\ ~(a \in Members(h) /\ att[a].release = "no") => att'[a] = att[a]
    <3>1. att \in [AttId -> Attachment]
      BY DEF TypeOK
    <3> QED
      BY <2>1, <3>1, ReleasingIs
  <2>5. \A a \in AttId : a \in Members(h) => att[a].host = h
    BY DEF Members
  <2>6. \A a \in AttId : a \in Members(h) /\ att[a].release = "no" => att'[a].publish
    BY <2>4 DEF published
  <2>7. QueueOK'
    BY <2>2 DEF QueueOK
  <2>8. TypeOK'
    BY <1>a, <2>1, <2>2, <2>3, <2>4, <2>5 DEF TypeOK
  <2>9. Numbered'
    BY <1>a, <2>1, <2>2, <2>3, <2>4, <2>5 DEF Numbered
  <2>10. Leases'
    BY <1>a, <2>1, <2>2, <2>3, <2>4, <2>5 DEF Leases
  <2>11. LineOK'
    BY <1>a, <2>1, <2>2, <2>3, <2>4, <2>5 DEF LineOK, Attaching, Removing
  <2>12. AtWork'
    BY <1>a, <2>1, <2>2, <2>3, <2>4, <2>5 DEF AtWork, Attaching, At
  <2>13. SwitchOK'
    BY <1>a, <2>1, <2>2, <2>3, <2>4, <2>5 DEF SwitchOK
  <2>14. LeasingOK'
    BY <1>a, <2>1, <2>2, <2>3, <2>4, <2>5 DEF LeasingOK
  <2>15. RouteOK'
    BY <1>a, <2>1, <2>2, <2>3, <2>4, <2>5 DEF RouteOK
  <2>16. HeldIsRouted'
    BY <1>a, <2>1, <2>2, <2>3, <2>4, <2>5 DEF HeldIsRouted
  <2>17. EndingOK'
    BY <1>a, <2>1, <2>2, <2>3, <2>4, <2>5, FieldsAre DEF EndingOK, At, Closing
  <2>18. PublishOK'
    BY <2>2, <2>3, <2>4, <2>6, FieldsAre, <1>a DEF PublishOK
  <2>19. HostOK'
    BY <1>a, <2>1, <2>2, <2>3, <2>4, <2>5 DEF HostOK
  <2>20. EmptiedOK'
    BY <1>a, <2>1, <2>2, <2>3, <2>4, <2>5 DEF EmptiedOK
  <2>21. CallOK'
    BY <1>a, <2>1, <2>2, <2>3, <2>4, <2>5 DEF CallOK, Removing, Running
  <2>22. CloseOK'
    BY <1>a, <2>1, <2>2, <2>3, <2>4, <2>5 DEF CloseOK
  <2>23. ViewFollows'
    BY <1>a, <2>1, <2>2, <2>3, <2>4, <2>5 DEF ViewFollows, Informed
  <2> QED
    BY <2>7, <2>8, <2>9, <2>10, <2>11, <2>12, <2>13, <2>14, <2>15, <2>16, <2>17, <2>18, <2>19, <2>20,
           <2>21, <2>22, <2>23 DEF IInv
<1> QED
  BY <1>b, <1>c

LEMMA StopRemovedStep ==
  ASSUME IInv, StopRemoved
  PROVE  IInv'
<1> USE DEF IInv
<1>a. /\ job.pc = "removing" /\ job.host \in HostId /\ line # <<>> /\ First.op = "remove"
      /\ \A a \in AttId : ~(att[a].member /\ att[a].host = job.host)
  BY DEF StopRemoved, LineOK, Removing, Members
<1>1. job' \in Job /\ job'.pc = "stopping" /\ job'.host = job.host
  BY DEF StopRemoved, TypeOK, Job
<1>2. First' = First /\ Asker' = Asker
      /\ UNCHANGED <<conn, view, sent, line, queue, att, route, removed, closing, owed, asked,
                     crashes, lost, late>>
  BY DEF IInv, StopRemoved, First, Asker
<1>3. /\ host' \in [HostId -> Hosted] /\ call' \in [CallId -> Call]
      /\ \A h \in HostId : /\ host'[h].session = host[h].session
                           /\ host'[h].mapped = host[h].mapped
                           /\ h \notin {job.host} \/ host[h].handle # "open" => host'[h] = host[h]
                           /\ h \in {job.host} /\ host[h].handle = "open" => host'[h].handle = "stopping"
      /\ \A k \in CallId : /\ call'[k].att = call[k].att
                           /\ call'[k].state = "running" =>
                                call[k].state = "running" /\ att[call[k].att].host \notin {job.host}
  BY StoppingIs DEF StopRemoved
<1>4. Leases' /\ RouteOK'
  BY <1>2 DEF Leases, RouteOK
<1>5. TypeOK'
  BY <1>a, <1>1, <1>2, <1>3 DEF TypeOK
<1>6. Numbered'
  BY <1>a, <1>1, <1>2, <1>3 DEF Numbered
<1>7. LineOK'
  BY <1>a, <1>1, <1>2, <1>3 DEF LineOK, Attaching, Removing
<1>8. AtWork'
  BY <1>a, <1>1, <1>2, <1>3 DEF AtWork, Attaching, At
<1>9. SwitchOK'
  BY <1>a, <1>1, <1>2, <1>3 DEF SwitchOK
<1>10. LeasingOK'
  BY <1>a, <1>1, <1>2, <1>3 DEF LeasingOK
<1>11. HeldIsRouted'
  BY <1>a, <1>1, <1>2, <1>3, FieldsAre DEF HeldIsRouted
<1>12. EndingOK'
  BY <1>a, <1>1, <1>2, <1>3, FieldsAre DEF EndingOK, RouteOK, At, Closing
<1>13. PublishOK'
  BY <1>a, <1>1, <1>2, <1>3 DEF PublishOK
<1>14. HostOK'
  BY <1>a, <1>1, <1>2, <1>3 DEF HostOK
<1>15. EmptiedOK'
  BY <1>a, <1>1, <1>2, <1>3 DEF EmptiedOK
<1>16. CallOK'
  BY <1>a, <1>1, <1>2, <1>3, FieldsAre DEF CallOK, Removing
<1>17. QueueOK'
  BY <1>a, <1>1, <1>2, <1>3 DEF QueueOK
<1>18. CloseOK'
  BY <1>a, <1>1, <1>2, <1>3 DEF CloseOK
<1>19. ViewFollows'
  BY <1>a, <1>1, <1>2, <1>3 DEF ViewFollows, Informed
<1> QED
  BY <1>4, <1>5, <1>6, <1>7, <1>8, <1>9, <1>10, <1>11, <1>12, <1>13, <1>14, <1>15, <1>16, <1>17,
         <1>18, <1>19 DEF IInv

LEMMA EndRemoveStep ==
  ASSUME IInv, EndRemove
  PROVE  IInv'
<1> USE DEF IInv
<1>a. /\ job.pc = "stopping" /\ job.host \in HostId /\ line # <<>> /\ host[job.host].handle = "gone"
      /\ \A a \in AttId : ~(att[a].member /\ att[a].host = job.host)
  BY DEF EndRemove, LineOK, Removing, EmptiedOK
<1>1. /\ job' = Idle /\ job' \in Job /\ job'.pc = "none" /\ line' \in Seq(Request)
      /\ removed' \subseteq Session
      /\ host' \in [HostId -> Hosted]
      /\ \A h \in HostId : h # job.host => host'[h] = host[h]
      /\ host'[job.host].handle = "gone" /\ ~host'[job.host].mapped
  <2>1. job' = Idle /\ line' = Tail(line)
    BY DEF EndRemove, Done
  <2>2. Idle \in Job /\ Idle.pc = "none"
    BY RouterAssumption DEF Idle, Job
  <2>3. Tail(line) \in Seq(Request) /\ First.session \in Session
    BY <1>a, AskerIs
  <2>4. removed' \subseteq Session
    BY <2>3 DEF EndRemove, Deleting, TypeOK
  <2>5. /\ host' \in [HostId -> Hosted]
        /\ \A h \in HostId : h # job.host => host'[h] = host[h]
        /\ host'[job.host].handle = "gone" /\ ~host'[job.host].mapped
    BY <1>a DEF EndRemove, TypeOK, Hosted
  <2> QED
    BY <2>1, <2>2, <2>3, <2>4, <2>5
<1>2. UNCHANGED <<conn, view, sent, queue, att, route, call, closing, owed, asked, crashes, lost,
                  late>>
  BY DEF IInv, EndRemove
<1>3. Leases' /\ RouteOK' /\ QueueOK'
  BY <1>2 DEF Leases, RouteOK, QueueOK
<1>4. TypeOK'
  BY <1>a, <1>1, <1>2 DEF TypeOK
<1>5. Numbered'
  BY <1>a, <1>1, <1>2 DEF Numbered
<1>6. LineOK'
  BY <1>a, <1>1, <1>2 DEF LineOK, Attaching, Removing
<1>7. AtWork'
  BY <1>a, <1>1, <1>2 DEF AtWork, Attaching, At
<1>8. SwitchOK'
  BY <1>a, <1>1, <1>2 DEF SwitchOK
<1>9. LeasingOK'
  BY <1>a, <1>1, <1>2 DEF LeasingOK
<1>10. HeldIsRouted'
  BY <1>a, <1>1, <1>2, FieldsAre DEF HeldIsRouted
<1>11. EndingOK'
  BY <1>a, <1>1, <1>2, FieldsAre DEF EndingOK, At, Closing
<1>12. PublishOK'
  BY <1>a, <1>1, <1>2 DEF PublishOK
<1>13. HostOK'
  BY <1>a, <1>1, <1>2 DEF HostOK
<1>14. EmptiedOK'
  BY <1>a, <1>1, <1>2 DEF EmptiedOK
<1>15. CallOK'
  BY <1>a, <1>1, <1>2, FieldsAre DEF CallOK, Removing
<1>16. CloseOK'
  BY <1>a, <1>1, <1>2 DEF CloseOK
<1>17. ViewFollows'
  BY <1>a, <1>1, <1>2 DEF ViewFollows, Informed
<1> QED
  BY <1>3, <1>4, <1>5, <1>6, <1>7, <1>8, <1>9, <1>10, <1>11, <1>12, <1>13, <1>14, <1>15, <1>16,
         <1>17 DEF IInv

LEMMA StoppedStep ==
  ASSUME IInv, NEW h \in HostId, Stopped(h)
  PROVE  IInv'
<1> USE DEF IInv
<1>1. /\ host[h].handle = "stopping"
      /\ host' \in [HostId -> Hosted]
      /\ \A g \in HostId : host'[g].mapped = host[g].mapped /\ (g # h => host'[g] = host[g])
      /\ host'[h].handle = "gone"
  BY DEF Stopped, Gone, TypeOK, Hosted
<1>2. First' = First /\ Asker' = Asker
      /\ UNCHANGED <<conn, view, sent, line, job, queue, att, route, call, removed, closing, owed,
                     asked, crashes, lost, late>>
  BY DEF IInv, Stopped, First, Asker
<1>3. Leases' /\ LineOK' /\ AtWork' /\ SwitchOK' /\ RouteOK' /\ PublishOK' /\ EmptiedOK' /\
       QueueOK' /\ ViewFollows'
  BY <1>2 DEF Leases, LineOK, AtWork, At, SwitchOK, RouteOK, PublishOK, EmptiedOK, QueueOK,
         ViewFollows, Informed
<1>4. TypeOK'
  BY <1>1, <1>2 DEF TypeOK
<1>5. Numbered'
  BY <1>1, <1>2 DEF Numbered
<1>6. LeasingOK'
  BY <1>1, <1>2, FieldsAre DEF LeasingOK, LineOK, Attaching
<1>7. HeldIsRouted'
  BY <1>1, <1>2, FieldsAre DEF HeldIsRouted
<1>8. EndingOK'
  BY <1>1, <1>2, FieldsAre DEF EndingOK, At, Closing
<1>9. HostOK'
  BY <1>1, <1>2 DEF HostOK
<1>10. CallOK'
  BY <1>1, <1>2, FieldsAre DEF CallOK
<1>11. CloseOK'
  BY <1>1, <1>2 DEF CloseOK
<1> QED
  BY <1>3, <1>4, <1>5, <1>6, <1>7, <1>8, <1>9, <1>10, <1>11 DEF IInv

LEMMA CrashStep ==
  ASSUME IInv, NEW h \in HostId, Crash(h)
  PROVE  IInv'
<1> USE DEF IInv
<1>1. /\ host[h].handle = "open" /\ crashes' \in 0..MaxCrashes
      /\ host' \in [HostId -> Hosted]
      /\ \A g \in HostId : host'[g].mapped = host[g].mapped /\ (g # h => host'[g] = host[g])
      /\ host'[h].handle = "gone"
  <2>1. host[h].handle = "open" /\ crashes' \in 0..MaxCrashes
    BY RouterAssumption DEF Crash, TypeOK
  <2>2. /\ host' \in [HostId -> Hosted]
        /\ \A g \in HostId : host'[g].mapped = host[g].mapped /\ (g # h => host'[g] = host[g])
        /\ host'[h].handle = "gone"
    BY DEF Crash, Gone, TypeOK, Hosted
  <2> QED
    BY <2>1, <2>2
<1>b. /\ call' \in [CallId -> Call]
      /\ \A k \in CallId : /\ call'[k].att = call[k].att
                           /\ call'[k].state = "running" =>
                                call[k].state = "running" /\ att[call[k].att].host # h
  <2>1. call' = [k \in CallId |-> IF call[k].state = "running" /\ att[call[k].att].host = h
                                  THEN [call[k] EXCEPT !.state = "settled"] ELSE call[k]]
    BY DEF Crash
  <2>2. \A r \in Call : /\ [r EXCEPT !.state = "settled"] \in Call
                        /\ [r EXCEPT !.state = "settled"].att = r.att
                        /\ [r EXCEPT !.state = "settled"].state = "settled"
    BY DEF Call
  <2>3. call \in [CallId -> Call]
    BY DEF TypeOK
  <2> QED
    BY <2>1, <2>2, <2>3
<1>2. First' = First /\ Asker' = Asker
      /\ UNCHANGED <<conn, view, sent, line, job, queue, att, route, removed, closing, owed,
                     asked, lost, late>>
  BY DEF IInv, Crash, First, Asker
<1>3. Leases' /\ LineOK' /\ AtWork' /\ SwitchOK' /\ RouteOK' /\ PublishOK' /\ EmptiedOK' /\
       ViewFollows'
  BY <1>2 DEF Leases, LineOK, AtWork, At, SwitchOK, RouteOK, PublishOK, EmptiedOK, ViewFollows, Informed
<1>4. TypeOK'
  BY <1>1, <1>b, <1>2 DEF TypeOK
<1>5. Numbered'
  BY <1>1, <1>b, <1>2 DEF Numbered
<1>6. LeasingOK'
  BY <1>1, <1>b, <1>2, FieldsAre DEF LeasingOK, LineOK, Attaching
<1>7. HeldIsRouted'
  BY <1>1, <1>b, <1>2, FieldsAre DEF HeldIsRouted
<1>8. EndingOK'
  BY <1>1, <1>b, <1>2, FieldsAre DEF EndingOK, At, Closing
<1>9. HostOK'
  BY <1>1, <1>b, <1>2 DEF HostOK
<1>10. CallOK'
  BY <1>1, <1>b, <1>2, FieldsAre DEF CallOK
<1>11. QueueOK'
  BY <1>1, <1>b, <1>2 DEF QueueOK
<1>12. CloseOK'
  BY <1>1, <1>b, <1>2 DEF CloseOK
<1> QED
  BY <1>3, <1>4, <1>5, <1>6, <1>7, <1>8, <1>9, <1>10, <1>11, <1>12 DEF IInv

LEMMA InvalidateStep ==
  ASSUME IInv, NEW h \in HostId, Invalidate(h)
  PROVE  IInv'
<1> USE DEF IInv
<1>1. /\ host[h].handle = "gone" /\ host[h].mapped
      /\ host' \in [HostId -> Hosted]
      /\ \A g \in HostId : host'[g].handle = host[g].handle /\ (g # h => host'[g] = host[g])
      /\ ~host'[h].mapped
  BY DEF Invalidate, TypeOK, Hosted
<1>2. First' = First /\ Asker' = Asker
      /\ UNCHANGED <<conn, view, sent, line, job, queue, route, call, removed, closing, owed,
                     asked, crashes, lost, late>>
  BY DEF IInv, Invalidate, First, Asker
<1> DEFINE published == TRUE
<1>a. att' = Releasing(att, Members(h), published) /\ published \in BOOLEAN
      /\ att \in [AttId -> Attachment]
  BY DEF Invalidate, TypeOK
<1> HIDE DEF published
<1>3. /\ att' \in [AttId -> Attachment]
      /\ \A a \in AttId :
           /\ att'[a].client = att[a].client /\ att'[a].host = att[a].host
           /\ att'[a].member = att[a].member /\ att'[a].lease = att[a].lease
           /\ a \in Members(h) /\ att[a].release = "no" =>
                /\ att'[a].release = "draining" /\ att'[a].waits = Running(a)
                /\ att'[a].publish = published
           /\ ~(a \in Members(h) /\ att[a].release = "no") => att'[a] = att[a]
  BY <1>a, ReleasingIs
<1>4. \A a \in AttId : a \in Members(h) <=> att[a].member /\ att[a].host = h
  BY DEF Members
<1>5. \A a \in AttId : a \in Members(h) /\ att[a].release = "no" => att'[a].publish
  BY <1>3 DEF published
<1>6. LineOK' /\ AtWork' /\ QueueOK' /\ ViewFollows'
  BY <1>2 DEF LineOK, AtWork, At, QueueOK, ViewFollows, Informed
<1>7. TypeOK'
  BY <1>1, <1>2, <1>3, <1>4 DEF TypeOK
<1>8. Numbered'
  BY <1>1, <1>2, <1>3, <1>4 DEF Numbered
<1>9. Leases'
  BY <1>1, <1>2, <1>3, <1>4 DEF Leases
<1>10. SwitchOK'
  BY <1>1, <1>2, <1>3, <1>4, WorkIs, FieldsAre DEF SwitchOK
<1>11. LeasingOK'
  BY <1>1, <1>2, <1>3, <1>4, WorkIs, FieldsAre DEF LeasingOK, LineOK, Attaching
<1>12. RouteOK'
  BY <1>1, <1>2, <1>3, <1>4 DEF RouteOK
<1>13. HeldIsRouted'
  BY <1>1, <1>2, <1>3, <1>4, FieldsAre DEF HeldIsRouted
<1>14. EndingOK'
  BY <1>1, <1>2, <1>3, <1>4, FieldsAre DEF EndingOK, At, Closing
<1>15. PublishOK'
  BY <1>2, <1>3, <1>5, FieldsAre DEF PublishOK
<1>16. HostOK'
  BY <1>1, <1>2, <1>3, <1>4 DEF HostOK
<1>17. EmptiedOK'
  BY <1>1, <1>2, <1>3, <1>4 DEF EmptiedOK
<1>18. CallOK'
  BY <1>1, <1>2, <1>3, <1>4, FieldsAre DEF CallOK, Running
<1>19. CloseOK'
  BY <1>1, <1>2, <1>3, <1>4 DEF CloseOK
<1> QED
  BY <1>6, <1>7, <1>8, <1>9, <1>10, <1>11, <1>12, <1>13, <1>14, <1>15, <1>16, <1>17, <1>18, <1>19
         DEF IInv

LEMMA CloseStep ==
  ASSUME IInv, Close
  PROVE  IInv'
<1> USE DEF IInv
<1>1. closing = "no" /\ closing' = "listeners"
  BY DEF Close
<1>2. First' = First /\ Asker' = Asker
      /\ UNCHANGED <<conn, view, sent, line, job, queue, host, att, route, call, removed, owed,
                     asked, crashes, lost, late>>
  BY DEF IInv, Close, First, Asker
<1>3. Numbered' /\ Leases' /\ LineOK' /\ AtWork' /\ SwitchOK' /\ LeasingOK' /\ RouteOK' /\
       HeldIsRouted' /\ PublishOK' /\ HostOK' /\ EmptiedOK' /\ CallOK' /\ ViewFollows'
  BY <1>2 DEF Numbered, Leases, LineOK, AtWork, At, SwitchOK, LeasingOK, RouteOK, HeldIsRouted,
         PublishOK, HostOK, EmptiedOK, CallOK, ViewFollows, Informed
<1>4. TypeOK'
  BY <1>1, <1>2 DEF TypeOK
<1>5. EndingOK'
  BY <1>1, <1>2 DEF EndingOK, At, Closing
<1>6. QueueOK'
  BY <1>1, <1>2 DEF QueueOK
<1>7. CloseOK'
  BY <1>1, <1>2 DEF CloseOK
<1> QED
  BY <1>3, <1>4, <1>5, <1>6, <1>7 DEF IInv

LEMMA CloseConnectionsStep ==
  ASSUME IInv, CloseConnections
  PROVE  IInv'
<1> USE DEF IInv
<1>1. /\ closing = "listeners" /\ closing' = "operations"
      /\ conn' \in [Client -> BOOLEAN] /\ view' \in [Client -> 0..MaxAttachments]
      /\ sent' \in [Client -> Seq(Message)] /\ lost' \subseteq Client /\ owed' \in [Client -> Nat]
      /\ queue' \in [Client -> Seq(Operation)]
      /\ \A c \in Client : ~conn'[c] /\ owed'[c] = Len(queue'[c])
      /\ \A c \in Client : queue[c] # <<>> => queue'[c] # <<>> /\ Head(queue'[c]) = Head(queue[c])
      /\ \A c \in Client : \A i \in DOMAIN queue'[c] :
           /\ i <= owed'[c]
           /\ \/ i \in DOMAIN queue[c] /\ queue'[c][i] = queue[c][i]
              \/ queue'[c][i] = [kind |-> "disconnect", call |-> 0]
  <2> DEFINE o  == [kind |-> "disconnect", call |-> 0]
             cs == {c \in Client : conn[c]}
  <2>1. /\ conn' = [c \in Client |-> conn[c] /\ c \notin cs]
        /\ view' = [c \in Client |-> IF c \in cs THEN 0 ELSE view[c]]
        /\ sent' = [c \in Client |-> IF c \in cs THEN <<>> ELSE sent[c]]
        /\ lost' = lost \ cs
        /\ queue' = [c \in Client |-> IF c \in cs THEN Append(queue[c], o) ELSE queue[c]]
        /\ owed' = [c \in Client |-> Len(queue'[c])]
        /\ closing = "listeners" /\ closing' = "operations"
    BY DEF CloseConnections, Disconnecting
  <2>2. \A c \in Client : queue[c] \in Seq(Operation) /\ view[c] \in 0..MaxAttachments
    BY DEF TypeOK
  <2>3. o \in Operation /\ 0 \in 0..MaxAttachments
    BY RouterAssumption DEF Operation
  <2>4. \A c \in Client : ~conn'[c]
    BY <2>1
  <2>5. /\ conn' \in [Client -> BOOLEAN] /\ view' \in [Client -> 0..MaxAttachments]
        /\ lost' \subseteq Client /\ sent' \in [Client -> Seq(Message)]
    BY <2>1, <2>2, <2>3 DEF TypeOK
  <2> HIDE DEF o, cs
  <2>6. \A c \in Client :
          /\ queue'[c] \in Seq(Operation)
          /\ queue[c] # <<>> => queue'[c] # <<>> /\ Head(queue'[c]) = Head(queue[c])
          /\ \A i \in DOMAIN queue'[c] :
               \/ i \in DOMAIN queue[c] /\ queue'[c][i] = queue[c][i]
               \/ queue'[c][i] = o
    <3> SUFFICES ASSUME NEW c \in Client
                 PROVE  /\ queue'[c] \in Seq(Operation)
                        /\ queue[c] # <<>> => queue'[c] # <<>> /\ Head(queue'[c]) = Head(queue[c])
                        /\ \A i \in DOMAIN queue'[c] :
                             \/ i \in DOMAIN queue[c] /\ queue'[c][i] = queue[c][i]
                             \/ queue'[c][i] = o
      OBVIOUS
    <3>1. CASE c \in cs
      <4>1. queue'[c] = Append(queue[c], o)
        BY <2>1, <3>1
      <4> QED
        BY <2>2, <2>3, <4>1, AppendIs
    <3>2. CASE c \notin cs
      BY <2>1, <2>2, <3>2
    <3> QED
      BY <3>1, <3>2
  <2>7. queue' \in [Client -> Seq(Operation)]
    BY <2>1, <2>6
  <2>8. \A c \in Client : /\ owed'[c] = Len(queue'[c]) /\ owed'[c] \in Nat
                          /\ \A i \in DOMAIN queue'[c] : i <= owed'[c]
    BY <2>1, <2>6
  <2>9. owed' \in [Client -> Nat]
    BY <2>1, <2>8
  <2> QED
    BY <2>1, <2>4, <2>5, <2>6, <2>7, <2>8, <2>9 DEF o
<1>2. First' = First /\ Asker' = Asker
      /\ UNCHANGED <<line, job, host, att, route, call, removed, asked, crashes, late>>
  BY DEF CloseConnections, First, Asker
<1>3. Numbered' /\ Leases' /\ LineOK' /\ SwitchOK' /\ LeasingOK' /\ RouteOK' /\ HeldIsRouted' /\
       HostOK' /\ EmptiedOK' /\ CallOK'
  BY <1>2 DEF Numbered, Leases, LineOK, SwitchOK, LeasingOK, RouteOK, HeldIsRouted, HostOK,
         EmptiedOK, CallOK
<1>4. TypeOK'
  BY <1>1, <1>2 DEF TypeOK
<1>5. AtWork'
  BY <1>1, <1>2, WorkIs DEF AtWork, At, Attaching
<1>6. EndingOK'
  BY <1>1, <1>2 DEF EndingOK, At, Closing
<1>7. PublishOK'
  BY <1>1, <1>2 DEF PublishOK
<1>8. QueueOK'
  <2> SUFFICES ASSUME NEW c \in Client, NEW i \in DOMAIN queue'[c]
               PROVE  /\ queue'[c][i].kind = "call" =>
                           queue'[c][i].call \in CallId /\ call[queue'[c][i].call].att \in AttId
                      /\ queue'[c][i].kind = "disconnect" => ~conn'[c]
                      /\ queue'[c][i].kind = "attach" => i <= owed'[c]
    BY <1>2 DEF QueueOK
  <2>1. CASE i \in DOMAIN queue[c] /\ queue'[c][i] = queue[c][i]
    BY <1>1, <2>1 DEF QueueOK
  <2>2. CASE queue'[c][i] = [kind |-> "disconnect", call |-> 0]
    BY <1>1, <2>2
  <2> QED
    BY <1>1, <2>1, <2>2
<1>9. CloseOK'
  BY <1>1, <1>2 DEF CloseOK
<1>10. ViewFollows'
  BY <1>1, <1>2 DEF ViewFollows
<1> QED
  BY <1>3, <1>4, <1>5, <1>6, <1>7, <1>8, <1>9, <1>10 DEF IInv

\* From the third stage of close() on, no attach is under way.
LEMMA NoneAttaches ==
  ASSUME IInv, closing \notin {"no", "listeners"}, \A c \in Client : owed[c] = 0
  PROVE  job.pc \notin Attaching
<1> SUFFICES ASSUME job.pc \in Attaching PROVE FALSE
  OBVIOUS
<1>1. At(Asker, "attach") /\ Asker \in Client /\ queue[Asker] \in Seq(Operation)
  BY WorkIs, FieldsAre DEF IInv, AtWork, Attaching
<1>2. 1 \in DOMAIN queue[Asker] /\ queue[Asker][1].kind = "attach"
  BY <1>1, TailIs DEF At
<1>3. ~(1 <= owed[Asker])
  BY <1>1
<1> QED
  BY <1>1, <1>2, <1>3 DEF IInv, QueueOK

LEMMA CloseAttachmentsStep ==
  ASSUME IInv, CloseAttachments
  PROVE  IInv'
<1> USE DEF IInv
<1>1. /\ closing = "operations" /\ closing' = "attachments" /\ \A c \in Client : owed[c] = 0
      /\ job.pc \notin Attaching
  BY NoneAttaches DEF CloseAttachments
<1>2. First' = First /\ Asker' = Asker
      /\ UNCHANGED <<conn, view, sent, line, job, queue, host, route, call, removed, owed, asked,
                     crashes, lost, late>>
  BY DEF IInv, CloseAttachments, First, Asker
<1> DEFINE published == TRUE
           all       == UNION {Members(h) : h \in MappedHosts}
<1>a. att' = Releasing(att, all, published) /\ published \in BOOLEAN
      /\ att \in [AttId -> Attachment]
  BY DEF CloseAttachments, TypeOK
<1>b. \A a \in AttId : att[a].member /\ host[att[a].host].mapped => a \in all
  BY FieldsAre DEF Members, MappedHosts
<1> HIDE DEF published, all
<1>3. /\ att' \in [AttId -> Attachment]
      /\ \A a \in AttId :
           /\ att'[a].client = att[a].client /\ att'[a].host = att[a].host
           /\ att'[a].member = att[a].member /\ att'[a].lease = att[a].lease
           /\ a \in all /\ att[a].release = "no" =>
                /\ att'[a].release = "draining" /\ att'[a].waits = Running(a)
                /\ att'[a].publish = published
           /\ ~(a \in all /\ att[a].release = "no") => att'[a] = att[a]
  BY <1>a, ReleasingIs
<1>4. \A a \in AttId : a \in all /\ att[a].release = "no" => att'[a].publish
  BY <1>3 DEF published
<1>5. \A a \in AttId : att[a].lease = "held" => att'[a].release # "no"
  BY <1>b, <1>3 DEF HeldIsRouted
<1>6. LineOK' /\ AtWork' /\ HostOK' /\ ViewFollows'
  BY <1>2 DEF LineOK, AtWork, At, HostOK, ViewFollows, Informed
<1>7. TypeOK'
  BY <1>1, <1>2, <1>3 DEF TypeOK
<1>8. Numbered'
  BY <1>1, <1>2, <1>3 DEF Numbered
<1>9. Leases'
  BY <1>1, <1>2, <1>3 DEF Leases
<1>10. SwitchOK'
  BY <1>1, <1>2, <1>3, WorkIs, FieldsAre DEF SwitchOK
<1>11. LeasingOK'
  BY <1>1, <1>2, <1>3, WorkIs, FieldsAre DEF LeasingOK, Attaching
<1>12. RouteOK'
  BY <1>1, <1>2, <1>3 DEF RouteOK
<1>13. HeldIsRouted'
  BY <1>1, <1>2, <1>3 DEF HeldIsRouted
<1>14. EndingOK'
  BY <1>1, <1>2, <1>3, FieldsAre DEF EndingOK, At, Closing
<1>15. PublishOK'
  BY <1>2, <1>3, <1>4, FieldsAre DEF PublishOK
<1>16. EmptiedOK'
  BY <1>1, <1>2, <1>3 DEF EmptiedOK
<1>17. CallOK'
  BY <1>1, <1>2, <1>3, FieldsAre DEF CallOK, Running
<1>18. QueueOK'
  BY <1>1, <1>2, <1>3 DEF QueueOK
<1>19. CloseOK'
  BY <1>1, <1>2, <1>3, <1>5 DEF CloseOK
<1> QED
  BY <1>6, <1>7, <1>8, <1>9, <1>10, <1>11, <1>12, <1>13, <1>14, <1>15, <1>16, <1>17, <1>18, <1>19
         DEF IInv

LEMMA CloseHandlesStep ==
  ASSUME IInv, CloseHandles
  PROVE  IInv'
<1> USE DEF IInv
<1>1. closing = "attachments" /\ closing' = "handles"
  BY DEF CloseHandles
<1>2. First' = First /\ Asker' = Asker
      /\ UNCHANGED <<conn, view, sent, line, job, queue, att, route, removed, owed, asked,
                     crashes, lost, late>>
  BY DEF IInv, CloseHandles, First, Asker
<1>3. /\ host' \in [HostId -> Hosted] /\ call' \in [CallId -> Call]
      /\ \A h \in HostId : /\ host'[h].session = host[h].session
                           /\ host'[h].mapped = host[h].mapped
                           /\ h \notin MappedHosts \/ host[h].handle # "open" => host'[h] = host[h]
                           /\ h \in MappedHosts /\ host[h].handle = "open" => host'[h].handle = "stopping"
      /\ \A k \in CallId : /\ call'[k].att = call[k].att
                           /\ call'[k].state = "running" =>
                                call[k].state = "running" /\ att[call[k].att].host \notin MappedHosts
  BY StoppingIs DEF CloseHandles
<1>4. \A h \in HostId : h \in MappedHosts <=> host[h].mapped
  BY DEF MappedHosts
<1>5. Leases' /\ LineOK' /\ AtWork' /\ SwitchOK' /\ RouteOK' /\ PublishOK' /\ EmptiedOK' /\
       ViewFollows'
  BY <1>2 DEF Leases, LineOK, AtWork, At, SwitchOK, RouteOK, PublishOK, EmptiedOK, ViewFollows, Informed
<1>6. TypeOK'
  BY <1>1, <1>2, <1>3, <1>4 DEF TypeOK
<1>7. Numbered'
  BY <1>1, <1>2, <1>3, <1>4 DEF Numbered
<1>8. LeasingOK'
  BY <1>1, <1>2, <1>3, <1>4, FieldsAre DEF LeasingOK, LineOK, Attaching
<1>9. HeldIsRouted'
  BY <1>1, <1>2, <1>3, <1>4, FieldsAre DEF HeldIsRouted
<1>10. EndingOK'
  BY <1>1, <1>2, <1>3, <1>4, FieldsAre DEF EndingOK, At, Closing
<1>11. HostOK'
  BY <1>1, <1>2, <1>3, <1>4 DEF HostOK
<1>12. CallOK'
  <2> SUFFICES ASSUME NEW k \in CallId, call'[k].state = "running" PROVE FALSE
    BY DEF CallOK
  <2>1. /\ att[call[k].att].host \in HostId /\ host[att[call[k].att].host].handle = "open"
        /\ ~host[att[call[k].att].host].mapped
    BY <1>3, <1>4, FieldsAre DEF CallOK
  <2> QED
    BY <2>1 DEF HostOK
<1>13. QueueOK'
  BY <1>1, <1>2, <1>3, <1>4 DEF QueueOK
<1>14. CloseOK'
  BY <1>1, <1>2, <1>3, <1>4 DEF CloseOK
<1> QED
  BY <1>5, <1>6, <1>7, <1>8, <1>9, <1>10, <1>11, <1>12, <1>13, <1>14 DEF IInv

LEMMA EndCloseStep ==
  ASSUME IInv, EndClose
  PROVE  IInv'
<1> USE DEF IInv
<1>1. /\ closing = "handles" /\ closing' = "closed"
      /\ route' \in [Client -> 0..MaxAttachments] /\ \A c \in Client : route'[c] = 0
      /\ \A a \in AttId : att[a].lease = "held" => att[a].release # "no"
      /\ job.pc \notin Attaching
  <2>1. closing = "handles" /\ closing' = "closed" /\ route' = [c \in Client |-> 0]
    BY DEF EndClose
  <2>2. 0 \in 0..MaxAttachments
    BY RouterAssumption
  <2> QED
    BY <2>1, <2>2, NoneAttaches DEF CloseOK
<1>b. /\ host' \in [HostId -> Hosted]
      /\ \A h \in HostId : /\ host'[h].handle = host[h].handle /\ ~host'[h].mapped
                           /\ host[h].mapped => host[h].handle = "gone"
  BY DEF EndClose, MappedHosts, TypeOK, Hosted
<1>2. First' = First /\ Asker' = Asker
      /\ UNCHANGED <<conn, view, sent, line, job, queue, att, call, removed, owed, asked, crashes,
                     lost, late>>
  BY DEF IInv, EndClose, First, Asker
<1>3. Leases' /\ LineOK' /\ AtWork' /\ EmptiedOK'
  BY <1>2 DEF Leases, LineOK, AtWork, At, EmptiedOK
<1>4. TypeOK'
  BY <1>1, <1>b, <1>2 DEF TypeOK
<1>5. Numbered'
  BY <1>1, <1>b, <1>2 DEF Numbered
<1>6. SwitchOK'
  BY <1>1, <1>b, <1>2, WorkIs DEF SwitchOK
<1>7. LeasingOK'
  BY <1>1, <1>b, <1>2, FieldsAre, WorkIs DEF LeasingOK, LineOK, Attaching
<1>8. RouteOK'
  BY <1>1, <1>b, <1>2 DEF RouteOK
<1>9. HeldIsRouted'
  BY <1>1, <1>b, <1>2 DEF HeldIsRouted
<1>10. EndingOK'
  BY <1>1, <1>b, <1>2 DEF EndingOK, At, Closing
<1>11. PublishOK'
  BY <1>1, <1>b, <1>2 DEF PublishOK
<1>12. HostOK'
  BY <1>1, <1>b, <1>2 DEF HostOK
<1>13. CallOK'
  BY <1>1, <1>b, <1>2, FieldsAre DEF CallOK
<1>14. QueueOK'
  BY <1>1, <1>b, <1>2 DEF QueueOK
<1>15. CloseOK'
  BY <1>1, <1>b, <1>2 DEF CloseOK
<1>16. ViewFollows'
  BY <1>1, <1>b, <1>2 DEF CloseOK, ViewFollows, Informed
<1> QED
  BY <1>3, <1>4, <1>5, <1>6, <1>7, <1>8, <1>9, <1>10, <1>11, <1>12, <1>13, <1>14, <1>15, <1>16 DEF
         IInv

-------------------------------------------------------------------------------
(***************************************************************************)
(* The theorems.                                                           *)
(***************************************************************************)
LEMMA Initial == Init => IInv
<1> SUFFICES ASSUME Init PROVE IInv
  OBVIOUS
<1>1. /\ (CHOOSE s \in Session : TRUE) \in Session /\ (CHOOSE c \in Client : TRUE) \in Client
      /\ 1 \in HostId /\ 0 \in 0..MaxHosts /\ 0 \in 0..MaxAttachments /\ 0 \in 0..MaxCalls
      /\ 0 \in 0..MaxRequests /\ 0 \in 0..MaxCrashes
  BY RouterAssumption DEF HostId
<1>2. TypeOK
  BY <1>1 DEF Init, TypeOK, Job, Idle, Hosted, Attachment, Call
<1>3. /\ job.pc = "none" /\ job = Idle /\ closing = "no"
      /\ \A c \in Client : conn[c] /\ view[c] = 0 /\ sent[c] = <<>> /\ route[c] = 0 /\ queue[c] = <<>>
      /\ \A h \in HostId : host[h].handle = "unused" /\ ~host[h].mapped
      /\ \A a \in AttId : att[a].lease = "none" /\ att[a].release = "no" /\ ~att[a].member
      /\ \A k \in CallId : call[k].state = "unused"
  BY DEF Init, Idle
<1>4. Numbered /\ Leases /\ LineOK /\ AtWork /\ SwitchOK /\ LeasingOK
  BY <1>3 DEF Numbered, Leases, LineOK, AtWork, SwitchOK, LeasingOK, Attaching, Removing
<1>5. RouteOK /\ HeldIsRouted /\ EndingOK /\ PublishOK /\ HostOK /\ EmptiedOK
  BY <1>3 DEF RouteOK, HeldIsRouted, EndingOK, PublishOK, HostOK, EmptiedOK
<1>6. CallOK /\ QueueOK /\ CloseOK /\ ViewFollows
  BY <1>3 DEF CallOK, QueueOK, CloseOK, ViewFollows, Informed
<1> QED
  BY <1>2, <1>4, <1>5, <1>6 DEF IInv

LEMMA Invariance == IInv /\ [Next]_vars => IInv'
<1> SUFFICES ASSUME IInv, [Next]_vars PROVE IInv'
  OBVIOUS
<1>1. CASE Router
  <2>1. ASSUME NEW a \in AttId, Drained(a) \/ EndRelease(a) PROVE IInv'
    BY <2>1, DrainedStep, EndReleaseStep
  <2>2. ASSUME NEW c \in Client, Admit(c) \/ BeginRelease(c) \/ EndDisconnect(c) PROVE IInv'
    BY <2>2, AdmitStep, BeginReleaseStep, EndDisconnectStep
  <2>3. CASE Enter \/ StartDetach \/ EndDetach \/ Create
    BY <2>3, EnterStep, StartDetachStep, EndDetachStep, CreateStep
  <2>4. CASE \/ StartAttach \/ Open \/ OpenFails \/ Acquired
             \/ Lease \/ LeaseFails \/ LeaseHeld \/ Attached \/ Undone
    BY <2>4, StartAttachStep, OpenStep, OpenFailsStep, AcquiredStep, LeaseStep, LeaseFailsStep,
       LeaseHeldStep, AttachedStep, UndoneStep
  <2>5. CASE StartRemove \/ StopRemoved \/ EndRemove
    BY <2>5, StartRemoveStep, StopRemovedStep, EndRemoveStep
  <2>6. CASE CloseConnections \/ CloseAttachments \/ CloseHandles \/ EndClose
    BY <2>6, CloseConnectionsStep, CloseAttachmentsStep, CloseHandlesStep, EndCloseStep
  <2> QED
    BY <1>1, <2>1, <2>2, <2>3, <2>4, <2>5, <2>6 DEF Router
<1>2. CASE Workers
  BY <1>2, StoppedStep, InvalidateStep, SettleStep DEF Workers
<1>3. CASE Environment
  BY <1>3, AskStep, InvokeStep, TakeStep, DisconnectStep, CrashStep, CloseStep DEF Environment
<1>4. CASE UNCHANGED vars
  <2>1. First' = First /\ Asker' = Asker
        /\ UNCHANGED <<conn, view, sent, line, job, queue, host, att, route, call, removed,
                       closing, owed, asked, crashes, lost, late>>
    BY <1>4 DEF vars, First, Asker
  <2>2. TypeOK' /\ Numbered' /\ Leases' /\ LineOK'
    BY <2>1 DEF IInv, TypeOK, Numbered, Leases, LineOK
  <2>3. AtWork' /\ SwitchOK' /\ LeasingOK'
    BY <2>1 DEF IInv, AtWork, At, SwitchOK, LeasingOK
  <2>4. RouteOK' /\ HeldIsRouted' /\ EndingOK' /\ PublishOK' /\ HostOK' /\ EmptiedOK'
    BY <2>1 DEF IInv, RouteOK, HeldIsRouted, EndingOK, PublishOK, HostOK, EmptiedOK, At, Closing
  <2>5. CallOK' /\ QueueOK' /\ CloseOK' /\ ViewFollows'
    BY <2>1 DEF IInv, CallOK, QueueOK, CloseOK, ViewFollows, Informed
  <2> QED
    BY <2>2, <2>3, <2>4, <2>5 DEF IInv
<1> QED
  BY <1>1, <1>2, <1>3, <1>4 DEF Next

\* The invariant holds in every reachable state.
THEOREM Invariant == Spec => []IInv
BY Initial, Invariance, PTL DEF Spec

\* The variables have their types.
THEOREM TypeCorrect == Spec => []TypeOK
<1>1. IInv => TypeOK
  BY DEF IInv
<1> QED
  BY <1>1, Invariant, PTL

\* A lease that nobody has begun to release is the one its client is routed to,
\* in a session that is hosted: whoever has to end it finds it.
THEOREM HeldRouted == Spec => []HeldIsRouted
<1>1. IInv => HeldIsRouted
  BY DEF IInv
<1> QED
  BY <1>1, Invariant, PTL

\* releaseAttachment releases a lease only after the calls that were admitted on
\* it have settled; but for a removal, which does not wait for later calls.
THEOREM CallsSettleFirst == Spec => []ReleasedQuiet
<1>1. IInv => ReleasedQuiet
  BY DEF IInv, CallOK, ReleasedQuiet, Removing
<1> QED
  BY <1>1, Invariant, PTL

\* What was published last to a client is the attachment it is routed to, but
\* during an attach of its own and unless a switch of its failed half way.
THEOREM ViewsFollow == Spec => []ViewFollows
<1>1. IInv => ViewFollows
  BY DEF IInv
<1> QED
  BY <1>1, Invariant, PTL

\* After close() no handle is open and no lease is asked for or held by nobody's
\* release, whatever was under way when it began.
THEOREM ClosedReleases == Spec => []CloseReleasesAll
<1>1. IInv => CloseReleasesAll
  <2> SUFFICES ASSUME IInv, closing = "closed" PROVE CloseReleasesAll
    BY DEF CloseReleasesAll
  <2>1. job.pc \notin Attaching
    BY NoneAttaches DEF IInv, CloseOK
  <2>2. \A h \in HostId : host[h].handle \in {"unused", "gone"}
    BY <2>1 DEF IInv, CloseOK, HostOK, Attaching
  <2>3. \A a \in AttId : att[a].lease # "acquiring"
    BY <2>1 DEF IInv, LeasingOK, Attaching
  <2>4. \A a \in AttId : att[a].lease = "held" => att[a].release # "no"
    BY DEF IInv, CloseOK
  <2> QED
    BY <2>2, <2>3, <2>4 DEF CloseReleasesAll
<1> QED
  BY <1>1, Invariant, PTL
================================================================================
