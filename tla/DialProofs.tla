----------------------------- MODULE DialProofs -----------------------------
(***************************************************************************)
(* The registry of the SDK server, for any number of addresses and devices, *)
(* dial tasks and connections.                                             *)
(***************************************************************************)
EXTENDS Dial, FiniteSetTheorems, WellFoundedInduction, NaturalsInduction, TLAPS

Addresses == Urls \cup {NoUrl}
Devices == Clients \cup {NoOne}

Tables ==
    [task : [Urls -> 0..MaxTasks], dial : [Urls -> 0..MaxConns],
     redial : SUBSET Urls, succeeded : SUBSET Urls, persistent : SUBSET Urls,
     playback : SUBSET Urls, waiters : SUBSET Urls]

TaskRecord ==
    [pc : {"none", "new", "connecting", "session", "sleep", "done"}, url : Addresses,
     first : BOOLEAN, cut : BOOLEAN]

ConnRecord ==
    [pc : {"none", "hello", "attached", "closing", "gone"}, task : 0..MaxTasks,
     url : Addresses, want : Devices, peer : Devices, bye : AllReasons, closing : BOOLEAN,
     active : {"none", "idle", "other", "playback"}]

ClientRecord ==
    [known : BOOLEAN, conn : 0..MaxConns, up : BOOLEAN, timer : BOOLEAN, retained : BOOLEAN,
     reclaim : BOOLEAN, deferred : BOOLEAN, url : Addresses]

\* What the ghost notes of the dials.
Wishes == [dial : SUBSET Urls, cut : SUBSET Urls, ended : SUBSET Urls, beside : SUBSET Urls]

USE DEF Wishes

TypeInv ==
    /\ tab \in Tables
    /\ task \in [TaskIds -> TaskRecord]
    /\ conn \in [ConnIds -> ConnRecord]
    /\ client \in [Clients -> ClientRecord]
    /\ mdns \in [url : Addresses, bye : SUBSET Urls]
    /\ asked \in Wishes

TaskInv ==
    /\ \A u \in Urls : tab.task[u] # 0 =>
          task[tab.task[u]].url = u /\ ~task[tab.task[u]].cut
    /\ \A t \in TaskIds :
          IF task[t].pc \in {"none", "done"}
          THEN task[t].url = NoUrl /\ ~task[t].cut /\ ~task[t].first ELSE task[t].url \in Urls

ConnInv ==
    /\ \A u \in Urls : tab.dial[u] # 0 =>
          conn[tab.dial[u]].url = u /\ conn[tab.dial[u]].task # 0
    /\ \A k \in ConnIds : conn[k].task # 0 =>
          /\ conn[k].url \in Urls /\ task[conn[k].task].url = conn[k].url
          /\ task[conn[k].task].pc # "new"
          /\ conn[k].pc # "gone" => /\ task[conn[k].task].pc = "session"
                                    /\ \A j \in ConnIds : conn[j].task = conn[k].task => j <= k
    /\ \A k \in ConnIds : conn[k].pc = "none" => conn[k].task = 0
    /\ \A j, k \in ConnIds : (conn[j].pc # "none" /\ k < j) => conn[k].pc # "none"

RegInv ==
    /\ \A k \in ConnIds : conn[k].pc \in {"none", "hello"} => conn[k].peer = NoOne
    /\ \A k \in ConnIds : conn[k].pc = "attached" => conn[k].peer \in Clients
    /\ \A c \in Clients : (client[c].timer \/ client[c].retained) => client[c].conn = 0
    /\ \A c \in Clients : client[c].up => client[c].conn # 0
    /\ OneCurrent
    /\ NoLingering
    /\ OneDevicePerUrl

-----------------------------------------------------------------------------
(* Choosing the next task and the next connection.                           *)

LEMMA LeastNumber ==
    ASSUME NEW S \in SUBSET Nat, S # {}
    PROVE  \E n \in S : \A m \in S : n <= m
<1>1. PICK n \in S : \A m \in S : ~ (<<m, n>> \in OpToRel(<, Nat))
  BY NatLessThanWellFounded, WFMin
<1>2. \A m \in S : ~ (m < n)
  BY <1>1 DEF OpToRel
<1> QED
  BY <1>2

LEMMA NextTaskIsFresh ==
    ASSUME Fresh # {}
    PROVE  NextTask \in TaskIds /\ task[NextTask].pc = "none"
<1>1. Fresh \in SUBSET Nat
  BY DEF Fresh, TaskIds
<1>2. \E t \in Fresh : \A s \in Fresh : t <= s
  BY <1>1, LeastNumber
<1>3. NextTask \in Fresh
  BY <1>2 DEF NextTask
<1> QED
  BY <1>3 DEF Fresh

LEMMA NextConnIsFresh ==
    ASSUME FreshConn # {}
    PROVE  /\ NextConn \in ConnIds /\ conn[NextConn].pc = "none"
           /\ \A k \in ConnIds : conn[k].pc = "none" => NextConn <= k
<1>1. FreshConn \in SUBSET Nat
  BY DEF FreshConn, ConnIds
<1>2. \E t \in FreshConn : \A s \in FreshConn : t <= s
  BY <1>1, LeastNumber
<1>3. NextConn \in FreshConn /\ \A k \in FreshConn : NextConn <= k
  BY <1>2 DEF NextConn
<1> QED
  BY <1>3 DEF FreshConn

LEMMA ClientAtIsDevice ==
    ASSUME NEW u
    PROVE  ClientAt(u) \in Devices
           /\ (ClientAt(u) # NoOne => client[ClientAt(u)].url = u)
<1> DEFINE cs == {c \in Clients : client[c].url = u}
<1>1. CASE Cardinality(cs) = 1
  <2>1. cs # {}
    BY <1>1, FS_EmptySet
  <2>2. (CHOOSE c \in cs : TRUE) \in cs
    BY <2>1
  <2> QED
    BY <1>1, <2>2 DEF ClientAt, Devices
<1>2. CASE Cardinality(cs) # 1
  BY <1>2 DEF ClientAt, Devices
<1> QED
  BY <1>1, <1>2

-----------------------------------------------------------------------------
(* Starting a dial task.                                                     *)

LEMMA RedialType ==
    ASSUME NEW tb \in Tables, NEW u \in Urls
    PROVE  LET r == RedialIfClosing(tb, u)
           IN  r \in Tables /\ r.task = tb.task /\ r.dial = tb.dial
               /\ r.waiters = tb.waiters
BY DEF RedialIfClosing, Tables

LEMMA StartDialType ==
    ASSUME TypeInv, TaskInv, NEW tb \in Tables, NEW u \in Urls, NEW playback, NEW persist,
           tb.task = tab.task, CanDial(u), StartDial(tb, u, playback, persist)
    PROVE  /\ tab' \in Tables /\ task' \in [TaskIds -> TaskRecord]
           /\ tab'.dial = tb.dial
           /\ TaskInv'
           /\ \A t \in TaskIds : task[t].pc # "none" => task'[t] = task[t]
<1> DEFINE tp == [tb EXCEPT !.playback = IF playback THEN @ \cup {u} ELSE @ \ {u},
                            !.persistent = IF persist THEN @ \cup {u} ELSE @]
<1>1. tp \in Tables /\ tp.task = tab.task /\ tp.dial = tb.dial
  BY DEF Tables
<1>2. CASE tb.task[u] # 0
  <2>1. tab' = tp /\ task' = task
    BY <1>2 DEF StartDial
  <2> QED
    BY <1>1, <2>1 DEF TypeInv, TaskInv
<1>3. CASE tb.task[u] = 0
  <2>1. Fresh # {}
    BY <1>3 DEF CanDial
  <2>2. NextTask \in TaskIds /\ task[NextTask].pc = "none"
    BY <2>1, NextTaskIsFresh
  <2> DEFINE new == [NewTask EXCEPT !.pc = "new", !.url = u]
  <2>3. tab' = [tp EXCEPT !.task[u] = NextTask, !.succeeded = @ \ {u}]
        /\ task' = [task EXCEPT ![NextTask] = new]
    BY <1>3 DEF StartDial
  <2>4. new \in TaskRecord /\ new.pc = "new" /\ new.url = u /\ ~new.cut
    BY DEF NewTask, TaskRecord, Addresses
  <2>5. NextTask \in 0..MaxTasks /\ NextTask # 0
    BY <2>2, DialAssumption DEF TaskIds
  <2> HIDE DEF tp, new
  <2>6. tab' \in Tables /\ tab'.dial = tb.dial /\ tab'.task = [tab.task EXCEPT ![u] = NextTask]
    BY <1>1, <2>3, <2>5 DEF Tables
  <2>7. task' \in [TaskIds -> TaskRecord]
    BY <2>2, <2>3, <2>4 DEF TypeInv
  <2>8. \A t \in TaskIds : task'[t] = IF t = NextTask THEN new ELSE task[t]
    BY <2>3 DEF TypeInv
  <2>9. \A v \in Urls : tab'.task[v] = IF v = u THEN NextTask ELSE tab.task[v]
    BY <1>1, <2>6 DEF TypeInv, Tables
  <2>10. \A v \in Urls : tab.task[v] # 0 => tab.task[v] \in TaskIds
    BY DEF TypeInv, Tables, TaskIds
  <2>11. \A v \in Urls : tab.task[v] # NextTask
    BY <2>2, <2>5, <2>10, DialAssumption DEF TaskInv
  <2>12. TaskInv'
    BY <2>2, <2>4, <2>8, <2>9, <2>10, <2>11 DEF TaskInv
  <2> QED
    BY <2>2, <2>6, <2>7, <2>8, <2>12
<1> QED
  BY <1>2, <1>3

-----------------------------------------------------------------------------
(* Cancelling the task of an address.                                        *)

LEMMA CutType ==
    ASSUME TypeInv, TaskInv, NEW tb \in Tables, NEW u \in Urls,
           tb.task = tab.task, tb.dial = tab.dial,
           tab' = Disconnected(tb, u), task' = CutTask(task, u)
    PROVE  /\ tab' \in Tables /\ task' \in [TaskIds -> TaskRecord]
           /\ tab'.dial = tab.dial
           /\ TaskInv'
           /\ \A t \in TaskIds : task'[t].pc = task[t].pc /\ task'[t].url = task[t].url
<1>1. tab' \in Tables /\ tab'.dial = tab.dial /\ tab'.task = [tab.task EXCEPT ![u] = 0]
  <2>1. 0 \in 0..MaxTasks
    BY DialAssumption
  <2> QED
    BY <2>1 DEF Disconnected, Tables
<1>2. \A v \in Urls : tab'.task[v] = IF v = u THEN 0 ELSE tab.task[v]
  BY <1>1 DEF TypeInv, Tables
<1>3. \A v \in Urls : tab.task[v] # 0 => tab.task[v] \in TaskIds
  BY DEF TypeInv, Tables, TaskIds
<1>4. CASE tab.task[u] = 0
  BY <1>1, <1>2, <1>3, <1>4 DEF CutTask, TypeInv, TaskInv
<1>5. CASE tab.task[u] # 0
  <2> DEFINE x == tab.task[u]
             new == [task[x] EXCEPT !.cut = TRUE]
  <2>0. x \in TaskIds /\ task[x] \in TaskRecord
    BY <1>3, <1>5 DEF TypeInv
  <2>1. task' = [task EXCEPT ![x] = new]
    BY <1>5 DEF CutTask
  <2>9. new \in TaskRecord /\ new.pc = task[x].pc /\ new.url = task[x].url /\ new.first = task[x].first
    BY <2>0 DEF TaskRecord
  <2> HIDE DEF new
  <2>2. task' \in [TaskIds -> TaskRecord]
    BY <2>0, <2>1, <2>9 DEF TypeInv
  <2>3. \A t \in TaskIds : /\ task'[t].pc = task[t].pc /\ task'[t].url = task[t].url
                           /\ task'[t].first = task[t].first
                           /\ t # tab.task[u] => task'[t].cut = task[t].cut
    BY <2>0, <2>1, <2>9 DEF TypeInv
  <2>4. task[tab.task[u]].url = u /\ \A v \in Urls : (v # u /\ tab.task[v] # 0) => tab.task[v] # tab.task[u]
    BY <1>5 DEF TaskInv
  <2>5. task[tab.task[u]].pc \notin {"none", "done"}
    BY <1>3, <1>5, <2>4, DialAssumption DEF TaskInv
  <2>6. \A v \in Urls : tab'.task[v] # 0 =>
           task'[tab'.task[v]].url = v /\ ~task'[tab'.task[v]].cut
    BY <1>2, <1>3, <2>3, <2>4 DEF TaskInv
  <2>7. \A t \in TaskIds :
          IF task'[t].pc \in {"none", "done"}
          THEN task'[t].url = NoUrl /\ ~task'[t].cut /\ ~task'[t].first ELSE task'[t].url \in Urls
    BY <2>3, <2>5 DEF TaskInv
  <2>8. TaskInv'
    BY <2>6, <2>7 DEF TaskInv
  <2> QED
    BY <1>1, <2>2, <2>3, <2>8
<1> QED
  BY <1>4, <1>5

\* What connections and tasks say of each other survives a step that makes no connection and
\* moves no task that has an address.
LEMMA ConnInvMoved ==
    ASSUME TypeInv, ConnInv, tab'.dial = tab.dial,
           \A k \in ConnIds :
               /\ conn'[k].task = conn[k].task
               /\ conn[k].task # 0 => conn'[k].url = conn[k].url
               /\ conn'[k].pc = "none" <=> conn[k].pc = "none"
               /\ conn[k].pc = "gone" => conn'[k].pc = "gone",
           \A t \in TaskIds : task[t].url # NoUrl =>
               task'[t].url = task[t].url /\ task'[t].pc = task[t].pc
    PROVE  ConnInv'
<1>1. \A k \in ConnIds : conn[k].task # 0 => conn[k].task \in TaskIds
  BY DEF TypeInv, ConnRecord, TaskIds
<1>2. \A k \in ConnIds : conn[k].task # 0 => task[conn[k].task].url # NoUrl
  BY DialAssumption DEF ConnInv
<1>3. \A v \in Urls : tab.dial[v] # 0 => tab.dial[v] \in ConnIds
  BY DEF TypeInv, Tables, ConnIds
<1>4. \A v \in Urls : tab'.dial[v] # 0 =>
        conn'[tab'.dial[v]].url = v /\ conn'[tab'.dial[v]].task # 0
  BY <1>3 DEF ConnInv
<1>5. \A k \in ConnIds : conn'[k].task # 0 =>
        /\ conn'[k].url \in Urls /\ task'[conn'[k].task].url = conn'[k].url
        /\ task'[conn'[k].task].pc # "new"
        /\ conn'[k].pc # "gone" => /\ task'[conn'[k].task].pc = "session"
                                   /\ \A j \in ConnIds : conn'[j].task = conn'[k].task => j <= k
  BY <1>1, <1>2 DEF ConnInv
<1>6. \A k \in ConnIds : conn'[k].pc = "none" => conn'[k].task = 0
  BY DEF ConnInv
<1>7. \A j, k \in ConnIds : (conn'[j].pc # "none" /\ k < j) => conn'[k].pc # "none"
  BY DEF ConnInv
<1> QED
  BY <1>4, <1>5, <1>6, <1>7 DEF ConnInv

LEMMA ConnInvKept ==
    ASSUME TypeInv, ConnInv, conn' = conn, tab'.dial = tab.dial,
           \A t \in TaskIds : task[t].url # NoUrl =>
               task'[t].url = task[t].url /\ task'[t].pc = task[t].pc
    PROVE  ConnInv'
<1> QED
  BY ConnInvMoved

LEMMA ConnInvStart ==
    ASSUME TypeInv, TaskInv, ConnInv, conn' = conn, tab'.dial = tab.dial,
           \A t \in TaskIds : task[t].pc # "none" => task'[t] = task[t]
    PROVE  ConnInv'
<1>1. \A t \in TaskIds : task[t].url # NoUrl => task[t].pc # "none"
  BY DEF TaskInv
<1> QED
  BY <1>1, ConnInvKept

-----------------------------------------------------------------------------
(* What becomes of a device that is not connecting: it may be dropped from the registry
   when it has no connection, or lose its address.                           *)

Lessened(old, new) ==
    \/ old.conn = 0 /\ new = NewClient
    \/ /\ new.known = old.known /\ new.conn = old.conn /\ new.up = old.up
       /\ new.timer = old.timer /\ new.retained = old.retained
       /\ new.url \in {old.url, NoUrl}

LEMMA NewClientType == NewClient \in ClientRecord
BY DialAssumption DEF NewClient, ClientRecord, Addresses

LEMMA FullUnregisterType ==
    ASSUME NEW cl \in [Clients -> ClientRecord], NEW tasks, NEW c \in Clients
    PROVE  LET r == FullUnregister(cl, tasks, c)
           IN  r \in [Clients -> ClientRecord] /\ \A d \in Clients : Lessened(cl[d], r[d])
<1>1. CASE cl[c].conn # 0
  BY <1>1 DEF FullUnregister, Lessened, ClientRecord
<1>2. CASE cl[c].conn = 0 /\ cl[c].url # NoUrl /\ tasks[cl[c].url] # 0
  <2> DEFINE new == [cl[c] EXCEPT !.deferred = TRUE]
  <2>1. FullUnregister(cl, tasks, c) = [cl EXCEPT ![c] = new]
    BY <1>2 DEF FullUnregister
  <2>2. new \in ClientRecord /\ Lessened(cl[c], new)
    BY DEF Lessened, ClientRecord
  <2>3. \A d \in Clients : Lessened(cl[d], cl[d])
    BY DEF Lessened
  <2> HIDE DEF new
  <2> QED
    BY <2>1, <2>2, <2>3
<1>3. CASE cl[c].conn = 0 /\ ~(cl[c].url # NoUrl /\ tasks[cl[c].url] # 0)
  <2>1. FullUnregister(cl, tasks, c) = [cl EXCEPT ![c] = NewClient]
    BY <1>3 DEF FullUnregister, Removed
  <2> QED
    BY <1>3, <2>1, NewClientType DEF Lessened
<1> QED
  BY <1>1, <1>2, <1>3

LEMMA CompleteDeferredType ==
    ASSUME NEW cl \in [Clients -> ClientRecord], NEW tasks, NEW u, NEW succeeded, NEW cut
    PROVE  LET r == CompleteDeferred(cl, tasks, u, succeeded, cut)
           IN  r \in [Clients -> ClientRecord] /\ \A d \in Clients : Lessened(cl[d], r[d])
<1> DEFINE c == ClientAt(u)
           settled == [cl EXCEPT ![c].deferred = FALSE]
<1>1. CASE c = NoOne \/ ~cl[c].deferred
  BY <1>1 DEF CompleteDeferred, Lessened
<1>2. CASE ~(c = NoOne \/ ~cl[c].deferred)
  <2>1. c \in Clients
    BY <1>2, ClientAtIsDevice DEF Devices
  <2>2. settled \in [Clients -> ClientRecord]
        /\ \A d \in Clients : /\ settled[d].known = cl[d].known /\ settled[d].conn = cl[d].conn
                              /\ settled[d].up = cl[d].up /\ settled[d].timer = cl[d].timer
                              /\ settled[d].retained = cl[d].retained /\ settled[d].url = cl[d].url
    BY <2>1 DEF ClientRecord
  <2>3. CASE succeeded \/ cut
    BY <1>2, <2>2, <2>3 DEF CompleteDeferred, Lessened
  <2>4. CASE ~(succeeded \/ cut)
    <3>1. CompleteDeferred(cl, tasks, u, succeeded, cut) = FullUnregister(settled, tasks, c)
      BY <1>2, <2>4 DEF CompleteDeferred
    <3> HIDE DEF settled, c
    <3>2. LET r == FullUnregister(settled, tasks, c)
          IN  r \in [Clients -> ClientRecord] /\ \A d \in Clients : Lessened(settled[d], r[d])
      BY <2>1, <2>2, FullUnregisterType
    <3> QED
      BY <2>2, <3>1, <3>2 DEF Lessened
  <2> QED
    BY <2>3, <2>4
<1> QED
  BY <1>1, <1>2

LEMMA RegisterUrlType ==
    ASSUME NEW cl \in [Clients -> ClientRecord], NEW c \in Clients, NEW u \in Urls
    PROVE  LET r == RegisterUrl(cl, c, u)
           IN  /\ r \in [Clients -> ClientRecord]
               /\ r[c] = [cl[c] EXCEPT !.url = u]
               /\ \A d \in Clients \ {c} : Lessened(cl[d], r[d]) /\ r[d].url # u
<1> DEFINE r == RegisterUrl(cl, c, u)
<1>1. u # NoUrl /\ u \in Addresses
  BY DialAssumption DEF Addresses
<1>2. r[c] = [cl[c] EXCEPT !.url = u] /\ r[c] \in ClientRecord
  <2>1. r[c] = [cl[c] EXCEPT !.url = u]
    BY DEF RegisterUrl
  <2> QED
    BY <1>1, <2>1 DEF ClientRecord
<1>3. \A d \in Clients \ {c} : r[d] \in ClientRecord /\ Lessened(cl[d], r[d]) /\ r[d].url # u
  <2> SUFFICES ASSUME NEW d \in Clients \ {c}
               PROVE  r[d] \in ClientRecord /\ Lessened(cl[d], r[d]) /\ r[d].url # u
    OBVIOUS
  <2>1. CASE cl[d].url # u
    <3>1. r[d] = cl[d]
      BY <2>1 DEF RegisterUrl
    <3> QED
      BY <2>1, <3>1 DEF Lessened
  <2>2. CASE cl[d].url = u /\ ~cl[d].deferred
    <3>1. r[d] = [cl[d] EXCEPT !.url = NoUrl]
      BY <2>2 DEF RegisterUrl
    <3> QED
      BY <1>1, <3>1 DEF Lessened, ClientRecord, Addresses
  <2>3. CASE cl[d].url = u /\ cl[d].deferred
    <3> DEFINE e == [cl EXCEPT ![d].url = NoUrl, ![d].deferred = FALSE]
    <3>1. r[d] = FullUnregister(e, tab.task, d)[d]
      BY <2>3 DEF RegisterUrl
    <3>2. e[d] = [[cl[d] EXCEPT !.url = NoUrl] EXCEPT !.deferred = FALSE]
      OBVIOUS
    <3>3. [cl[d] EXCEPT !.url = NoUrl] \in ClientRecord
      BY DEF ClientRecord, Addresses
    <3>4. e[d] \in ClientRecord /\ e[d].url = NoUrl /\ e[d].conn = cl[d].conn /\ e[d].up = cl[d].up
          /\ e[d].known = cl[d].known /\ e[d].timer = cl[d].timer /\ e[d].retained = cl[d].retained
      BY <3>2, <3>3 DEF ClientRecord
    <3>5. d \in DOMAIN e
      OBVIOUS
    <3> HIDE DEF e, r
    <3>6. CASE e[d].conn # 0
      BY <1>1, <3>1, <3>4, <3>6 DEF FullUnregister, Lessened
    <3>7. CASE e[d].conn = 0
      <4>1. FullUnregister(e, tab.task, d)[d] = NewClient
        BY <3>4, <3>5, <3>7 DEF FullUnregister, Removed
      <4>2. NewClient.url = NoUrl
        BY DEF NewClient
      <4> QED
        BY <1>1, <3>1, <3>4, <3>7, <4>1, <4>2, NewClientType DEF Lessened
    <3> QED
      BY <3>6, <3>7
  <2> QED
    BY <2>1, <2>2, <2>3
<1>4. r = [d \in Clients |-> r[d]]
  BY DEF RegisterUrl
<1> HIDE DEF r
<1>5. r \in [Clients -> ClientRecord]
  BY <1>2, <1>3, <1>4
<1> QED
  BY <1>2, <1>3, <1>5 DEF r

LEMMA RegInvKept ==
    ASSUME TypeInv, RegInv, conn' = conn, \A c \in Clients : Lessened(client[c], client'[c])
    PROVE  RegInv'
<1>1. NewClient.conn = 0 /\ ~NewClient.up /\ ~NewClient.timer /\ ~NewClient.retained
      /\ ~NewClient.known /\ NewClient.url = NoUrl
  BY DEF NewClient
<1>2. \A c \in Clients :
        \/ /\ client[c].conn = 0 /\ client'[c].conn = 0 /\ ~client'[c].up /\ ~client'[c].timer
           /\ ~client'[c].retained /\ ~client'[c].known /\ client'[c].url = NoUrl
        \/ /\ client'[c].known = client[c].known /\ client'[c].conn = client[c].conn
           /\ client'[c].up = client[c].up /\ client'[c].timer = client[c].timer
           /\ client'[c].retained = client[c].retained /\ client'[c].url \in {client[c].url, NoUrl}
  BY <1>1 DEF Lessened
<1>3. \A c, d \in Clients : (c # d /\ client'[c].url # NoUrl) => client'[c].url # client'[d].url
  BY <1>2 DEF RegInv, OneDevicePerUrl
<1>4. \A k \in ConnIds : conn[k].pc = "attached" =>
        client'[conn[k].peer].conn = k /\ client'[conn[k].peer].known
  <2> SUFFICES ASSUME NEW k \in ConnIds, conn[k].pc = "attached"
               PROVE  client'[conn[k].peer].conn = k /\ client'[conn[k].peer].known
    OBVIOUS
  <2>1. conn[k].peer \in Clients /\ client[conn[k].peer].conn = k /\ client[conn[k].peer].known
    BY DEF RegInv, OneCurrent
  <2>2. k # 0
    BY DialAssumption DEF ConnIds
  <2> QED
    BY <1>2, <2>1, <2>2
<1>5. OneCurrent'
  BY <1>2, <1>4 DEF RegInv, OneCurrent
<1>6. NoLingering' /\ OneDevicePerUrl'
  BY <1>2, <1>3 DEF RegInv, NoLingering, OneDevicePerUrl
<1> QED
  BY <1>2, <1>5, <1>6 DEF RegInv

-----------------------------------------------------------------------------
(* The end of a dial task.                                                   *)

LEMMA NewConnType == NewConn \in ConnRecord
<1>1. 0 \in 0..MaxTasks
  BY DialAssumption
<1>2. NoUrl \in Addresses /\ NoOne \in Devices /\ "none" \in AllReasons
  BY DEF Addresses, Devices, AllReasons
<1> QED
  BY <1>1, <1>2 DEF NewConn, ConnRecord

LEMMA OverType == Over \in ConnRecord /\ Over.task = 0 /\ Over.pc = "gone"
<1>1. NewConn.task = 0
  BY DEF NewConn
<1> QED
  BY <1>1, NewConnType DEF Over, ConnRecord

LEMMA EndTaskKeeps ==
    ASSUME TypeInv, TaskInv, ConnInv, RegInv, NEW t \in TaskIds, NEW tb \in Tables,
           task[t].pc \notin {"none", "done"}, tb.task = tab.task, tb.dial = tab.dial,
           \A k \in ConnIds : conn[k].task = t => conn[k].pc = "gone",
           EndTask(t, tb)
    PROVE  /\ tab' \in Tables /\ task' \in [TaskIds -> TaskRecord]
           /\ conn' \in [ConnIds -> ConnRecord] /\ client' \in [Clients -> ClientRecord]
           /\ TaskInv' /\ ConnInv' /\ RegInv'
<1> DEFINE u == task[t].url
           ended == [NewTask EXCEPT !.pc = "done"]
<1>1. u \in Urls
  BY DEF TaskInv
<1>2. tab' = Popped(tb, u) /\ task' = [task EXCEPT ![t] = ended]
      /\ conn' = [k \in ConnIds |-> IF conn[k].task = t THEN Over ELSE conn[k]]
      /\ client' = CompleteDeferred(client, Popped(tb, u).task, u, task[t].first, task[t].cut)
  BY DEF EndTask
<1>3. ended \in TaskRecord /\ ended.pc = "done" /\ ended.url = NoUrl /\ ~ended.cut /\ ~ended.first
  BY DEF NewTask, TaskRecord, Addresses
<1>4. Over \in ConnRecord /\ Over.task = 0 /\ Over.pc = "gone"
  BY OverType
<1>5. t # 0 /\ u # NoUrl
  BY <1>1, DialAssumption DEF TaskIds
<1> HIDE DEF ended
<1>6. tab' \in Tables /\ tab'.task = [tab.task EXCEPT ![u] = 0] /\ tab'.dial = [tab.dial EXCEPT ![u] = 0]
  <2>1. 0 \in 0..MaxTasks /\ 0 \in 0..MaxConns
    BY DialAssumption
  <2> QED
    BY <1>2, <2>1 DEF Popped, Tables
<1>7. task' \in [TaskIds -> TaskRecord] /\ \A s \in TaskIds : task'[s] = IF s = t THEN ended ELSE task[s]
  BY <1>2, <1>3 DEF TypeInv
<1>8. conn' \in [ConnIds -> ConnRecord]
      /\ \A k \in ConnIds : conn'[k] = IF conn[k].task = t THEN Over ELSE conn[k]
  BY <1>2, <1>4 DEF TypeInv
<1>9. client' \in [Clients -> ClientRecord] /\ \A c \in Clients : Lessened(client[c], client'[c])
  BY <1>2, CompleteDeferredType DEF TypeInv
<1>10. \A v \in Urls : /\ tab'.task[v] = IF v = u THEN 0 ELSE tab.task[v]
                       /\ tab'.dial[v] = IF v = u THEN 0 ELSE tab.dial[v]
  BY <1>6 DEF TypeInv, Tables
<1>11. TaskInv'
  <2>1. \A v \in Urls : tab.task[v] # 0 => tab.task[v] \in TaskIds
    BY DEF TypeInv, Tables, TaskIds
  <2>2. \A v \in Urls : (v # u /\ tab.task[v] # 0) => tab.task[v] # t
    BY DEF TaskInv
  <2> QED
    BY <1>3, <1>7, <1>10, <2>1, <2>2 DEF TaskInv
<1>12. ConnInv'
  <2>1. \A v \in Urls : tab.dial[v] # 0 => tab.dial[v] \in ConnIds
    BY DEF TypeInv, Tables, ConnIds
  <2>2. \A k \in ConnIds : conn[k].task # 0 => conn[k].task \in TaskIds
    BY DEF TypeInv, ConnRecord, TaskIds
  <2>3. \A k \in ConnIds : conn[k].task = t => conn[k].url = u
    BY <1>5 DEF ConnInv
  <2>4. \A v \in Urls : tab'.dial[v] # 0 =>
           conn'[tab'.dial[v]].url = v /\ conn'[tab'.dial[v]].task # 0
    BY <1>8, <1>10, <2>1, <2>3 DEF ConnInv
  <2>5. \A k \in ConnIds : conn'[k].task # 0 =>
          /\ conn'[k].url \in Urls /\ task'[conn'[k].task].url = conn'[k].url
          /\ task'[conn'[k].task].pc # "new"
          /\ conn'[k].pc # "gone" => /\ task'[conn'[k].task].pc = "session"
                                     /\ \A j \in ConnIds : conn'[j].task = conn'[k].task => j <= k
    BY <1>4, <1>7, <1>8, <2>2 DEF ConnInv
  <2>6. \A k \in ConnIds : conn'[k].pc = "none" => conn'[k].task = 0
    BY <1>4, <1>8 DEF ConnInv
  <2>7. \A k \in ConnIds : conn'[k].pc = "none" <=> conn[k].pc = "none"
    BY <1>4, <1>5, <1>8 DEF ConnInv
  <2>8. \A j, k \in ConnIds : (conn'[j].pc # "none" /\ k < j) => conn'[k].pc # "none"
    BY <2>7 DEF ConnInv
  <2> QED
    BY <2>4, <2>5, <2>6, <2>8 DEF ConnInv
<1>13. RegInv'
  <2>1. \A k \in ConnIds : conn'[k] = conn[k] \/ (conn'[k].pc = "gone" /\ conn[k].pc = "gone")
    BY <1>4, <1>8
  <2>2. \A c \in Clients : client[c].conn # 0 =>
          client[c].conn \in ConnIds /\ conn'[client[c].conn] = conn[client[c].conn]
    <3>1. \A c \in Clients : client[c].conn # 0 => client[c].conn \in ConnIds
      BY DEF TypeInv, ClientRecord, ConnIds
    <3> QED
      BY <2>1, <3>1 DEF RegInv, OneCurrent
  <2> DEFINE R(cn) ==
        /\ \A k \in ConnIds : cn[k].pc \in {"none", "hello"} => cn[k].peer = NoOne
        /\ \A k \in ConnIds : cn[k].pc = "attached" =>
             cn[k].peer \in Clients /\ client[cn[k].peer].conn = k /\ client[cn[k].peer].known
        /\ \A c \in Clients : client[c].conn # 0 =>
             cn[client[c].conn].peer = c /\ cn[client[c].conn].pc \in {"attached", "closing"}
  <2>3. R(conn)
    BY DEF RegInv, OneCurrent
  <2>4. R(conn')
    BY <2>1, <2>2, <2>3
  <2>5. NewClient.conn = 0 /\ ~NewClient.up /\ ~NewClient.timer /\ ~NewClient.retained
        /\ ~NewClient.known /\ NewClient.url = NoUrl
    BY DEF NewClient
  <2>6. \A c \in Clients :
          \/ /\ client[c].conn = 0 /\ client'[c].conn = 0 /\ ~client'[c].up /\ ~client'[c].timer
             /\ ~client'[c].retained /\ ~client'[c].known /\ client'[c].url = NoUrl
          \/ /\ client'[c].known = client[c].known /\ client'[c].conn = client[c].conn
             /\ client'[c].up = client[c].up /\ client'[c].timer = client[c].timer
             /\ client'[c].retained = client[c].retained /\ client'[c].url \in {client[c].url, NoUrl}
    BY <1>9, <2>5 DEF Lessened
  <2>7. \A k \in ConnIds : k # 0
    BY DialAssumption DEF ConnIds
  <2>8. OneCurrent'
    BY <2>4, <2>6, <2>7 DEF OneCurrent
  <2>9. NoLingering' /\ OneDevicePerUrl'
    <3>1. \A c, d \in Clients : (c # d /\ client'[c].url # NoUrl) => client'[c].url # client'[d].url
      BY <2>6 DEF RegInv, OneDevicePerUrl
    <3> QED
      BY <2>6, <3>1 DEF RegInv, NoLingering, OneDevicePerUrl
  <2> QED
    BY <2>4, <2>6, <2>8, <2>9 DEF RegInv
<1> QED
  BY <1>6, <1>7, <1>8, <1>9, <1>11, <1>12, <1>13

\* A task that ends its session, or is in none, has no connection left that is not gone.
LEMMA AllGone ==
    ASSUME TypeInv, ConnInv, NEW t \in TaskIds,
           task[t].pc = "session" => conn[SessionOf(t)].pc = "gone"
    PROVE  \A k \in ConnIds : conn[k].task = t => conn[k].pc = "gone"
<1> SUFFICES ASSUME NEW k \in ConnIds, conn[k].task = t, conn[k].pc # "gone"
             PROVE  FALSE
  OBVIOUS
<1>1. t # 0
  BY DialAssumption DEF TaskIds
<1>2. task[t].pc = "session" /\ \A j \in ConnIds : conn[j].task = t => j <= k
  BY <1>1 DEF ConnInv
<1>3. \A i \in ConnIds : (conn[i].task = t /\ \A j \in ConnIds : conn[j].task = t => j <= i) => i = k
  BY <1>2 DEF ConnIds
<1>4. SessionOf(t) = k
  BY <1>2, <1>3 DEF SessionOf
<1> QED
  BY <1>2, <1>4

-----------------------------------------------------------------------------
(* The inductive invariant, action by action.                                *)

RegistryInv == TypeInv /\ TaskInv /\ ConnInv /\ RegInv

LEMMA SameClients == \A c \in Clients : Lessened(client[c], client[c])
BY DEF Lessened

\* connect_to_client, connect_to_client_and_wait, reclaim_client_for_playback and an
\* announcement: a task is started, or the one there is goes on.
LEMMA StartKeeps ==
    ASSUME RegistryInv, NEW u \in Urls, NEW tb \in Tables, NEW playback, NEW persist,
           tb.task = tab.task, tb.dial = tab.dial,
           CanDial(u), StartDial(tb, u, playback, persist), conn' = conn,
           client' \in [Clients -> ClientRecord],
           \A c \in Clients : Lessened(client[c], client'[c]),
           mdns' \in [url : Addresses, bye : SUBSET Urls],
           asked' \in Wishes
    PROVE  RegistryInv'
<1>1. TypeInv /\ TaskInv /\ ConnInv /\ RegInv
  BY DEF RegistryInv
<1>2. /\ tab' \in Tables /\ task' \in [TaskIds -> TaskRecord]
      /\ tab'.dial = tab.dial
      /\ TaskInv'
      /\ \A t \in TaskIds : task[t].pc # "none" => task'[t] = task[t]
  BY <1>1, StartDialType
<1>3. TypeInv'
  BY <1>1, <1>2 DEF TypeInv
<1>4. ConnInv'
  BY <1>1, <1>2, ConnInvStart
<1>5. RegInv'
  BY <1>1, RegInvKept
<1> QED
  BY <1>2, <1>3, <1>4, <1>5 DEF RegistryInv

LEMMA AsksType ==
    ASSUME TypeInv, NEW u \in Urls, Asks(u)
    PROVE  asked' \in Wishes
BY DEF Asks, TypeInv

LEMMA CutAskedType ==
    ASSUME TypeInv, NEW u \in Urls
    PROVE  Cut(u) \in Wishes
BY DEF Cut, TypeInv, Tables

LEMMA ConnectToClientKeeps ==
    ASSUME RegistryInv, NEW u \in Urls, NEW p \in BOOLEAN, ConnectToClient(u, p)
    PROVE  RegistryInv'
<1> DEFINE tb == RedialIfClosing(tab, u)
<1>1. TypeInv
  BY DEF RegistryInv
<1>2. tb \in Tables /\ tb.task = tab.task /\ tb.dial = tab.dial
  BY <1>1, RedialType DEF TypeInv
<1>3. CanDial(u) /\ StartDial(tb, u, FALSE, p) /\ conn' = conn /\ client' = client /\ Asks(u)
      /\ mdns' = [mdns EXCEPT !.bye = @ \ {u}]
  BY DEF ConnectToClient
<1>4. mdns' \in [url : Addresses, bye : SUBSET Urls]
  BY <1>1, <1>3 DEF TypeInv
<1>5. client' \in [Clients -> ClientRecord] /\ \A c \in Clients : Lessened(client[c], client'[c])
  BY <1>1, <1>3, SameClients DEF TypeInv
<1> HIDE DEF tb
<1> QED
  BY <1>1, <1>2, <1>3, <1>4, <1>5, AsksType, StartKeeps

LEMMA ConnectAndWaitKeeps ==
    ASSUME RegistryInv, NEW u \in Urls, ConnectAndWait(u)
    PROVE  RegistryInv'
<1> DEFINE tb == RedialIfClosing(tab, u)
           tw == [tb EXCEPT !.waiters = @ \cup {u}]
           td == [tb EXCEPT !.playback = @ \ {u}]
<1>1. TypeInv /\ TaskInv /\ ConnInv /\ RegInv
  BY DEF RegistryInv
<1>2. tb \in Tables /\ tb.task = tab.task /\ tb.dial = tab.dial
  BY <1>1, RedialType DEF TypeInv
<1>3. CanDial(u) /\ conn' = conn /\ client' = client /\ Asks(u)
      /\ mdns' = [mdns EXCEPT !.bye = @ \ {u}]
  BY DEF ConnectAndWait
<1>4. mdns' \in [url : Addresses, bye : SUBSET Urls]
  BY <1>1, <1>3 DEF TypeInv
<1>5. client' \in [Clients -> ClientRecord] /\ \A c \in Clients : Lessened(client[c], client'[c])
  BY <1>1, <1>3, SameClients DEF TypeInv
<1>6. \/ u \in tb.succeeded /\ tab' = td /\ task' = task
      \/ u \notin tb.succeeded /\ StartDial(tw, u, FALSE, FALSE)
  BY DEF ConnectAndWait
<1>7. tw \in Tables /\ tw.task = tab.task /\ tw.dial = tab.dial
      /\ td \in Tables /\ td.task = tab.task /\ td.dial = tab.dial
  BY <1>2 DEF Tables
<1> HIDE DEF tb, tw, td
<1>8. CASE StartDial(tw, u, FALSE, FALSE)
  BY <1>1, <1>3, <1>4, <1>5, <1>7, <1>8, AsksType, StartKeeps
<1>9. CASE tab' = td /\ task' = task
  <2>1. TypeInv'
    BY <1>1, <1>3, <1>4, <1>5, <1>7, <1>9, AsksType DEF TypeInv
  <2>2. TaskInv'
    BY <1>1, <1>7, <1>9 DEF TaskInv
  <2>3. ConnInv'
    BY <1>1, <1>3, <1>7, <1>9, ConnInvKept
  <2>4. RegInv'
    BY <1>1, <1>3, <1>5, RegInvKept
  <2> QED
    BY <2>1, <2>2, <2>3, <2>4 DEF RegistryInv
<1> QED
  BY <1>6, <1>8, <1>9

LEMMA ReclaimClientKeeps ==
    ASSUME RegistryInv, NEW c \in Clients, ReclaimClient(c)
    PROVE  RegistryInv'
<1> DEFINE u == client[c].url
           tb == RedialIfClosing(tab, u)
           new == [client[c] EXCEPT !.reclaim = TRUE]
<1>1. TypeInv
  BY DEF RegistryInv
<1>2. u \in Urls
  BY <1>1 DEF ReclaimClient, TypeInv, ClientRecord, Addresses
<1>3. tb \in Tables /\ tb.task = tab.task /\ tb.dial = tab.dial
  BY <1>1, <1>2, RedialType DEF TypeInv
<1>4. CanDial(u) /\ StartDial(tb, u, TRUE, FALSE) /\ conn' = conn /\ Asks(u)
      /\ mdns' = [mdns EXCEPT !.bye = @ \ {u}]
      /\ client' = [client EXCEPT ![c] = new]
  BY DEF ReclaimClient
<1>5. mdns' \in [url : Addresses, bye : SUBSET Urls]
  BY <1>1, <1>4 DEF TypeInv
<1>6. client[c] \in ClientRecord
  BY <1>1 DEF TypeInv
<1>7. new \in ClientRecord /\ Lessened(client[c], new)
  BY <1>6 DEF Lessened, ClientRecord
<1> HIDE DEF new, u, tb
<1>8. client' \in [Clients -> ClientRecord] /\ \A d \in Clients : Lessened(client[d], client'[d])
  BY <1>1, <1>4, <1>7, SameClients DEF TypeInv
<1> QED
  BY <1>1, <1>2, <1>3, <1>4, <1>5, <1>8, AsksType, StartKeeps

LEMMA ServiceAnnouncedKeeps ==
    ASSUME RegistryInv, NEW u \in Urls, NEW b \in BOOLEAN, ServiceAnnounced(u, b)
    PROVE  RegistryInv'
<1>1. TypeInv
  BY DEF RegistryInv
<1>2. CanDial(u) /\ StartDial(tab, u, u \in tab.playback, FALSE) /\ conn' = conn /\ client' = client
      /\ mdns' = [url |-> u, bye |-> mdns.bye \ {u}] /\ (asked' = asked \/ Asks(u))
  BY DEF ServiceAnnounced
<1>3. mdns' \in [url : Addresses, bye : SUBSET Urls]
  BY <1>1, <1>2 DEF TypeInv, Addresses
<1>4. client' \in [Clients -> ClientRecord] /\ \A c \in Clients : Lessened(client[c], client'[c])
  BY <1>1, <1>2, SameClients DEF TypeInv
<1>5. asked' \in Wishes
  BY <1>1, <1>2, AsksType DEF TypeInv
<1>6. tab \in Tables
  BY <1>1 DEF TypeInv
<1> QED
  BY <1>2, <1>3, <1>4, <1>5, <1>6, StartKeeps

LEMMA DisconnectKeeps ==
    ASSUME RegistryInv, NEW u \in Urls, DisconnectFromClient(u)
    PROVE  RegistryInv'
<1>1. TypeInv /\ TaskInv /\ ConnInv /\ RegInv /\ tab \in Tables
  BY DEF RegistryInv, TypeInv
<1>2. tab' = Disconnected(tab, u) /\ task' = CutTask(task, u) /\ asked' = Cut(u)
      /\ conn' = conn /\ client' = client /\ mdns' = mdns
  BY DEF DisconnectFromClient
<1>3. /\ tab' \in Tables /\ task' \in [TaskIds -> TaskRecord] /\ tab'.dial = tab.dial /\ TaskInv'
      /\ \A t \in TaskIds : task'[t].pc = task[t].pc /\ task'[t].url = task[t].url
  BY <1>1, <1>2, CutType
<1>4. TypeInv'
  BY <1>1, <1>2, <1>3, CutAskedType DEF TypeInv
<1>5. ConnInv'
  BY <1>1, <1>2, <1>3, ConnInvKept
<1>6. RegInv'
  BY <1>1, <1>2, SameClients, RegInvKept
<1> QED
  BY <1>3, <1>4, <1>5, <1>6 DEF RegistryInv

\* A timer of the registry runs: nothing but the device's entry changes.
LEMMA TimerKeeps ==
    ASSUME RegistryInv, client' \in [Clients -> ClientRecord],
           \A c \in Clients : Lessened(client[c], client'[c]),
           UNCHANGED <<tab, task, conn, mdns, ops, asked>>
    PROVE  RegistryInv'
<1>1. TypeInv /\ TaskInv /\ ConnInv /\ RegInv
  BY DEF RegistryInv
<1>2. tab' = tab /\ task' = task /\ conn' = conn /\ mdns' = mdns /\ asked' = asked
  OBVIOUS
<1>3. TypeInv' /\ TaskInv'
  BY <1>1, <1>2 DEF TypeInv, TaskInv
<1>4. ConnInv'
  BY <1>1, <1>2, ConnInvKept
<1>5. RegInv'
  BY <1>1, <1>2, RegInvKept
<1> QED
  BY <1>3, <1>4, <1>5 DEF RegistryInv

LEMMA ExpireReclaimKeeps ==
    ASSUME RegistryInv, NEW c \in Clients, ExpireReclaim(c)
    PROVE  RegistryInv'
<1> DEFINE new == [client[c] EXCEPT !.reclaim = FALSE]
           cl == [client EXCEPT ![c] = new]
<1>1. client \in [Clients -> ClientRecord] /\ client[c] \in ClientRecord
  BY DEF RegistryInv, TypeInv
<1>2. new \in ClientRecord /\ new.known = client[c].known /\ new.conn = client[c].conn
      /\ new.up = client[c].up /\ new.timer = client[c].timer
      /\ new.retained = client[c].retained /\ new.url = client[c].url
  BY <1>1 DEF ClientRecord
<1>3. client' = FullUnregister(cl, tab.task, c) /\ UNCHANGED <<tab, task, conn, mdns, ops, asked>>
  BY DEF ExpireReclaim
<1> HIDE DEF new
<1>4. cl \in [Clients -> ClientRecord]
  BY <1>1, <1>2
<1>5. cl[c] = new /\ \A d \in Clients : d # c => cl[d] = client[d]
  BY <1>1
<1> HIDE DEF cl
<1>6. client' \in [Clients -> ClientRecord] /\ \A d \in Clients : Lessened(cl[d], client'[d])
  BY <1>3, <1>4, FullUnregisterType
<1>7. \A d \in Clients : Lessened(client[d], client'[d])
  BY <1>2, <1>5, <1>6 DEF Lessened
<1> QED
  BY <1>3, <1>6, <1>7, TimerKeeps

LEMMA DoCleanupKeeps ==
    ASSUME RegistryInv, NEW c \in Clients, DoCleanup(c)
    PROVE  RegistryInv'
<1>1. client \in [Clients -> ClientRecord] /\ client[c].conn = 0 /\ ~client[c].up
  BY DEF RegistryInv, TypeInv, RegInv, DoCleanup
<1>2. client' = [client EXCEPT ![c] = NewClient] /\ UNCHANGED <<tab, task, conn, mdns, ops, asked>>
  BY <1>1 DEF DoCleanup, Removed
<1>3. client' \in [Clients -> ClientRecord]
  BY <1>1, <1>2, NewClientType
<1>4. \A d \in Clients : Lessened(client[d], client'[d])
  BY <1>1, <1>2, SameClients DEF Lessened
<1> QED
  BY <1>2, <1>3, <1>4, TimerKeeps

-----------------------------------------------------------------------------
(* The steps of a dial task.                                                 *)

LEMMA BeginAttemptKeeps ==
    ASSUME RegistryInv, NEW t \in TaskIds, BeginAttempt(t)
    PROVE  RegistryInv'
<1> DEFINE u == task[t].url
           new == [task[t] EXCEPT !.pc = "connecting"]
<1>1. TypeInv /\ TaskInv /\ ConnInv /\ RegInv /\ tab \in Tables /\ task[t] \in TaskRecord
  BY DEF RegistryInv, TypeInv
<1>2. task[t].pc \in {"new", "sleep"} /\ task' = [task EXCEPT ![t] = new]
      /\ tab' = [tab EXCEPT !.dial[u] = 0, !.redial = @ \ {u}]
      /\ conn' = conn /\ client' = client /\ mdns' = mdns /\ asked' = asked
  BY DEF BeginAttempt
<1>3. new \in TaskRecord /\ new.pc = "connecting" /\ new.url = u /\ new.first = task[t].first
      /\ new.cut = task[t].cut
  BY <1>1 DEF TaskRecord
<1>4. u \in Urls
  BY <1>1, <1>2 DEF TaskInv
<1> HIDE DEF new
<1>5. tab' \in Tables /\ tab'.task = tab.task /\ tab'.dial = [tab.dial EXCEPT ![u] = 0]
  <2>1. 0 \in 0..MaxConns
    BY DialAssumption
  <2> QED
    BY <1>1, <1>2, <2>1 DEF Tables
<1>6. task' \in [TaskIds -> TaskRecord] /\ \A s \in TaskIds : task'[s] = IF s = t THEN new ELSE task[s]
  BY <1>1, <1>2, <1>3 DEF TypeInv
<1>7. TypeInv'
  BY <1>1, <1>2, <1>5, <1>6 DEF TypeInv
<1>8. TaskInv'
  <2>1. \A v \in Urls : tab.task[v] # 0 => tab.task[v] \in TaskIds
    BY <1>1 DEF Tables, TaskIds
  <2> QED
    BY <1>1, <1>2, <1>3, <1>5, <1>6, <2>1 DEF TaskInv
<1>9. ConnInv'
  <2>1. \A k \in ConnIds : conn[k].task # 0 => conn[k].task \in TaskIds
    BY <1>1 DEF TypeInv, ConnRecord, TaskIds
  <2>2. \A v \in Urls : tab'.dial[v] = IF v = u THEN 0 ELSE tab.dial[v]
    BY <1>1, <1>5 DEF Tables
  <2>3. \A k \in ConnIds : conn[k].task # 0 =>
          /\ conn[k].url \in Urls /\ task'[conn[k].task].url = conn[k].url
          /\ task'[conn[k].task].pc # "new"
          /\ conn[k].pc # "gone" => /\ task'[conn[k].task].pc = "session"
                                    /\ \A j \in ConnIds : conn[j].task = conn[k].task => j <= k
    BY <1>1, <1>2, <1>3, <1>6, <2>1 DEF ConnInv
  <2> QED
    BY <1>1, <1>2, <2>2, <2>3 DEF ConnInv
<1>10. RegInv'
  BY <1>1, <1>2, SameClients, RegInvKept
<1> QED
  BY <1>7, <1>8, <1>9, <1>10 DEF RegistryInv

\* A connection is made: it has no peer yet, and is the latest.
LEMMA FreshConnKeepsReg ==
    ASSUME TypeInv, RegInv, NEW k \in ConnIds, conn[k].pc = "none", client' = client,
           conn'[k].pc = "hello", conn'[k].peer = conn[k].peer,
           \A j \in ConnIds : j # k => conn'[j] = conn[j]
    PROVE  RegInv'
<1>1. \A c \in Clients : client[c].conn # 0 => client[c].conn \in ConnIds /\ client[c].conn # k
  BY DEF TypeInv, ClientRecord, ConnIds, RegInv, OneCurrent
<1>2. \A c \in Clients : client[c].conn # 0 => conn'[client[c].conn] = conn[client[c].conn]
  BY <1>1
<1>3. OneCurrent'
  BY <1>2 DEF RegInv, OneCurrent
<1>4. \A j \in ConnIds : conn'[j].pc \in {"none", "hello"} => conn'[j].peer = NoOne
  BY DEF RegInv
<1>5. \A j \in ConnIds : conn'[j].pc = "attached" => conn'[j].peer \in Clients
  BY DEF RegInv
<1> QED
  BY <1>3, <1>4, <1>5 DEF RegInv, NoLingering, OneDevicePerUrl

LEMMA ConnectedKeeps ==
    ASSUME RegistryInv, NEW t \in TaskIds, Connected(t)
    PROVE  RegistryInv'
<1> DEFINE u == task[t].url
           k == NextConn
           nt == [[task[t] EXCEPT !.pc = "session"] EXCEPT !.first = TRUE]
           nc == [conn[k] EXCEPT !.pc = "hello", !.task = t, !.url = u, !.want = ClientAt(u)]
<1>1. TypeInv /\ TaskInv /\ ConnInv /\ RegInv /\ tab \in Tables /\ task[t] \in TaskRecord
  BY DEF RegistryInv, TypeInv
<1>2. task[t].pc = "connecting" /\ FreshConn # {} /\ conn' = [conn EXCEPT ![k] = nc]
      /\ client' = client /\ mdns' = mdns /\ asked' = asked
  BY DEF Connected
<1>3. k \in ConnIds /\ conn[k].pc = "none" /\ \A j \in ConnIds : conn[j].pc = "none" => k <= j
  BY <1>2, NextConnIsFresh
<1>4. task' = [task EXCEPT ![t] = nt]
  BY <1>1 DEF Connected, TypeInv
<1>5. nt \in TaskRecord /\ nt.pc = "session" /\ nt.url = u /\ nt.cut = task[t].cut
  <2>1. [task[t] EXCEPT !.pc = "session"] \in TaskRecord
    BY <1>1 DEF TaskRecord
  <2> QED
    BY <2>1 DEF TaskRecord
<1>6. u \in Urls /\ t # 0
  BY <1>1, <1>2, DialAssumption DEF TaskInv, TaskIds
<1>7. nc \in ConnRecord /\ nc.pc = "hello" /\ nc.task = t /\ nc.url = u /\ nc.peer = conn[k].peer
  <2>1. conn[k] \in ConnRecord
    BY <1>1, <1>3 DEF TypeInv
  <2>2. t \in 0..MaxTasks /\ u \in Addresses /\ ClientAt(u) \in Devices
    BY <1>6, ClientAtIsDevice DEF TaskIds, Addresses
  <2> HIDE DEF u, k
  <2> QED
    BY <2>1, <2>2 DEF ConnRecord
<1> HIDE DEF nt, nc, k
<1>8. tab' \in Tables /\ tab'.task = tab.task /\ tab'.dial = [tab.dial EXCEPT ![u] = k]
  <2>1. k \in 0..MaxConns
    BY <1>3 DEF ConnIds
  <2>2. \/ tab' = [tab EXCEPT !.dial[u] = k]
        \/ tab' = [tab EXCEPT !.dial[u] = k, !.succeeded = @ \cup {u}, !.waiters = @ \ {u}]
    BY DEF Connected, k
  <2> HIDE DEF u
  <2>3. CASE tab' = [tab EXCEPT !.dial[u] = k]
    BY <1>1, <1>6, <2>1, <2>3 DEF Tables
  <2>4. CASE tab' = [tab EXCEPT !.dial[u] = k, !.succeeded = @ \cup {u}, !.waiters = @ \ {u}]
    BY <1>1, <1>6, <2>1, <2>4 DEF Tables
  <2> QED
    BY <2>2, <2>3, <2>4
<1>9. task' \in [TaskIds -> TaskRecord] /\ \A s \in TaskIds : task'[s] = IF s = t THEN nt ELSE task[s]
  BY <1>1, <1>4, <1>5 DEF TypeInv
<1>10. conn' \in [ConnIds -> ConnRecord] /\ \A j \in ConnIds : conn'[j] = IF j = k THEN nc ELSE conn[j]
  BY <1>1, <1>2, <1>7 DEF TypeInv
<1>11. TypeInv'
  BY <1>1, <1>2, <1>8, <1>9, <1>10 DEF TypeInv
<1>12. TaskInv'
  <2>1. \A v \in Urls : tab.task[v] # 0 => tab.task[v] \in TaskIds
    BY <1>1 DEF Tables, TaskIds
  <2> QED
    BY <1>1, <1>2, <1>5, <1>8, <1>9, <2>1 DEF TaskInv
<1>13. ConnInv'
  <2>1. \A j \in ConnIds : conn[j].task # 0 => conn[j].task \in TaskIds /\ j < k /\ conn[j].pc # "none"
    BY <1>1, <1>3 DEF TypeInv, ConnRecord, TaskIds, ConnInv, ConnIds
  <2>2. \A v \in Urls : tab'.dial[v] = IF v = u THEN k ELSE tab.dial[v]
    BY <1>1, <1>8 DEF Tables
  <2>3. \A v \in Urls : tab.dial[v] # 0 => tab.dial[v] \in ConnIds /\ tab.dial[v] # k
    BY <1>1, <1>3 DEF Tables, ConnIds, ConnInv
  <2>4. \A v \in Urls : tab'.dial[v] # 0 =>
          conn'[tab'.dial[v]].url = v /\ conn'[tab'.dial[v]].task # 0
    BY <1>1, <1>3, <1>6, <1>7, <1>10, <2>2, <2>3 DEF ConnInv
  <2>5. \A j \in ConnIds : conn[j].task = t => conn[j].pc = "gone"
    BY <1>1, <1>2, <1>6 DEF ConnInv
  <2>6. \A j \in ConnIds : conn'[j].task # 0 =>
          /\ conn'[j].url \in Urls /\ task'[conn'[j].task].url = conn'[j].url
          /\ task'[conn'[j].task].pc # "new"
          /\ conn'[j].pc # "gone" => /\ task'[conn'[j].task].pc = "session"
                                     /\ \A i \in ConnIds : conn'[i].task = conn'[j].task => i <= j
    <3> SUFFICES ASSUME NEW j \in ConnIds, conn'[j].task # 0
                 PROVE  /\ conn'[j].url \in Urls /\ task'[conn'[j].task].url = conn'[j].url
                        /\ task'[conn'[j].task].pc # "new"
                        /\ conn'[j].pc # "gone" => /\ task'[conn'[j].task].pc = "session"
                                                   /\ \A i \in ConnIds : conn'[i].task = conn'[j].task => i <= j
      OBVIOUS
    <3>1. CASE j = k
      <4>1. \A i \in ConnIds : conn'[i].task = conn'[j].task => i <= j
        BY <1>3, <1>6, <1>7, <1>10, <2>1, <3>1 DEF ConnIds
      <4> QED
        BY <1>5, <1>6, <1>7, <1>9, <1>10, <3>1, <4>1
    <3>2. CASE j # k
      <4>1. conn'[j] = conn[j]
        BY <1>10, <3>2
      <4>2. conn[j].task = t => conn[j].pc = "gone"
        BY <2>5
      <4>3. task'[conn[j].task].url = conn[j].url /\ conn[j].url \in Urls
            /\ task'[conn[j].task].pc # "new"
        BY <1>1, <1>5, <1>9, <2>1, <4>1 DEF ConnInv
      <4>4. conn[j].pc # "gone" => /\ task'[conn[j].task].pc = "session"
                                   /\ \A i \in ConnIds : conn'[i].task = conn[j].task => i <= j
        BY <1>1, <1>7, <1>9, <1>10, <2>1, <4>1, <4>2 DEF ConnInv
      <4> QED
        BY <4>1, <4>3, <4>4
    <3> QED
      BY <3>1, <3>2
  <2>7. \A j \in ConnIds : conn'[j].pc = "none" => conn'[j].task = 0
    BY <1>1, <1>7, <1>10 DEF ConnInv
  <2>8. \A j, i \in ConnIds : (conn'[j].pc # "none" /\ i < j) => conn'[i].pc # "none"
    <3>1. \A i \in ConnIds : i < k => conn[i].pc # "none"
      BY <1>3 DEF ConnIds
    <3> QED
      BY <1>1, <1>3, <1>7, <1>10, <3>1 DEF ConnInv
  <2> QED
    BY <2>4, <2>6, <2>7, <2>8 DEF ConnInv
<1>14. RegInv'
  BY <1>1, <1>2, <1>3, <1>7, <1>10, FreshConnKeepsReg
<1> QED
  BY <1>11, <1>12, <1>13, <1>14 DEF RegistryInv

\* A task that goes to sleep has lost its connection or never had one.
LEMMA SleepKeeps ==
    ASSUME RegistryInv, NEW t \in TaskIds, NEW new \in TaskRecord,
           task[t].pc \notin {"none", "done"},
           new.pc = "sleep", new.url = task[t].url, new.cut = task[t].cut,
           \A k \in ConnIds : conn[k].task = t => conn[k].pc = "gone",
           task' = [task EXCEPT ![t] = new], UNCHANGED <<tab, conn, client, mdns, asked>>
    PROVE  RegistryInv'
<1>1. TypeInv /\ TaskInv /\ ConnInv /\ RegInv /\ tab \in Tables
  BY DEF RegistryInv, TypeInv
<1>2. tab' = tab /\ conn' = conn /\ client' = client /\ mdns' = mdns /\ asked' = asked
  OBVIOUS
<1>3. task' \in [TaskIds -> TaskRecord] /\ \A s \in TaskIds : task'[s] = IF s = t THEN new ELSE task[s]
  BY <1>1 DEF TypeInv
<1>4. TypeInv'
  BY <1>1, <1>2, <1>3 DEF TypeInv
<1>5. TaskInv'
  <2>1. \A v \in Urls : tab.task[v] # 0 => tab.task[v] \in TaskIds
    BY <1>1 DEF Tables, TaskIds
  <2> QED
    BY <1>1, <1>2, <1>3, <2>1 DEF TaskInv
<1>6. ConnInv'
  <2>1. \A k \in ConnIds : conn[k].task # 0 => conn[k].task \in TaskIds
    BY <1>1 DEF TypeInv, ConnRecord, TaskIds
  <2>2. \A k \in ConnIds : conn[k].task # 0 =>
          /\ conn[k].url \in Urls /\ task'[conn[k].task].url = conn[k].url
          /\ task'[conn[k].task].pc # "new"
          /\ conn[k].pc # "gone" => /\ task'[conn[k].task].pc = "session"
                                    /\ \A j \in ConnIds : conn[j].task = conn[k].task => j <= k
    BY <1>1, <1>3, <2>1 DEF ConnInv
  <2> QED
    BY <1>1, <1>2, <2>2 DEF ConnInv
<1>7. RegInv'
  BY <1>1, <1>2, SameClients, RegInvKept
<1> QED
  BY <1>4, <1>5, <1>6, <1>7 DEF RegistryInv

\* A task ends; what it notes for mDNS and for its waiters does not touch the registry.
LEMMA EndKeeps ==
    ASSUME RegistryInv, NEW t \in TaskIds, NEW tb \in Tables,
           task[t].pc \notin {"none", "done"}, tb.task = tab.task, tb.dial = tab.dial,
           \A k \in ConnIds : conn[k].task = t => conn[k].pc = "gone",
           EndTask(t, tb),
           mdns' \in [url : Addresses, bye : SUBSET Urls],
           asked' \in Wishes
    PROVE  RegistryInv'
<1>1. TypeInv /\ TaskInv /\ ConnInv /\ RegInv
  BY DEF RegistryInv
<1>2. /\ tab' \in Tables /\ task' \in [TaskIds -> TaskRecord]
      /\ conn' \in [ConnIds -> ConnRecord] /\ client' \in [Clients -> ClientRecord]
      /\ TaskInv' /\ ConnInv' /\ RegInv'
  BY <1>1, EndTaskKeeps
<1> QED
  BY <1>2 DEF RegistryInv, TypeInv

LEMMA ConnectFailsKeeps ==
    ASSUME RegistryInv, NEW t \in TaskIds, ConnectFails(t)
    PROVE  RegistryInv'
<1> DEFINE u == task[t].url
           new == [task[t] EXCEPT !.pc = "sleep"]
           tb == [tab EXCEPT !.waiters = @ \ {u}]
<1>1. TypeInv /\ TaskInv /\ ConnInv /\ RegInv /\ tab \in Tables /\ task[t] \in TaskRecord
  BY DEF RegistryInv, TypeInv
<1>2. task[t].pc = "connecting" /\ mdns' = mdns /\ asked' = asked
  BY DEF ConnectFails
<1>3. \A k \in ConnIds : conn[k].task = t => conn[k].pc = "gone"
  BY <1>1, <1>2, AllGone
<1>4. CASE task[t].first \/ u \in tab.persistent
  <2>1. task' = [task EXCEPT ![t] = new] /\ UNCHANGED <<tab, conn, client, mdns, asked>>
    BY <1>2, <1>4 DEF ConnectFails
  <2>2. new \in TaskRecord /\ new.pc = "sleep" /\ new.url = task[t].url /\ new.cut = task[t].cut
    BY <1>1 DEF TaskRecord
  <2> HIDE DEF new
  <2> QED
    BY <1>2, <1>3, <2>1, <2>2, SleepKeeps
<1>5. CASE ~(task[t].first \/ u \in tab.persistent)
  <2>1. EndTask(t, tb)
    BY <1>5 DEF ConnectFails
  <2>2. tb \in Tables /\ tb.task = tab.task /\ tb.dial = tab.dial
    BY <1>1 DEF Tables
  <2> HIDE DEF tb
  <2>3. mdns' \in [url : Addresses, bye : SUBSET Urls]
        /\ asked' \in Wishes
    BY <1>1, <1>2 DEF TypeInv
  <2> QED
    BY <1>2, <1>3, <2>1, <2>2, <2>3, EndKeeps
<1> QED
  BY <1>4, <1>5

LEMMA SessionEndsKeeps ==
    ASSUME RegistryInv, NEW t \in TaskIds, SessionEnds(t)
    PROVE  RegistryInv'
<1> DEFINE u == task[t].url
           k == SessionOf(t)
<1>1. TypeInv /\ TaskInv /\ ConnInv /\ RegInv /\ tab \in Tables /\ task[t] \in TaskRecord
  BY DEF RegistryInv, TypeInv
<1>2. task[t].pc = "session" /\ conn[SessionOf(t)].pc = "gone"
  BY DEF SessionEnds
<1>3. \A j \in ConnIds : conn[j].task = t => conn[j].pc = "gone"
  BY <1>1, <1>2, AllGone
<1>4. u \in Urls
  BY <1>1, <1>2 DEF TaskInv
<1>5. CASE u \in tab.redial
  <2> DEFINE new == [[task[t] EXCEPT !.pc = "sleep"] EXCEPT !.first = FALSE]
  <2>1. task' = [task EXCEPT ![t] = new] /\ UNCHANGED <<tab, conn, client, mdns, asked>>
    BY <1>1, <1>5 DEF SessionEnds, TypeInv
  <2>2. new \in TaskRecord /\ new.pc = "sleep" /\ new.url = task[t].url /\ new.cut = task[t].cut
    <3>1. [task[t] EXCEPT !.pc = "sleep"] \in TaskRecord
      BY <1>1 DEF TaskRecord
    <3> QED
      BY <3>1 DEF TaskRecord
  <2> HIDE DEF new
  <2> QED
    BY <1>2, <1>3, <2>1, <2>2, SleepKeeps
<1>6. CASE u \notin tab.redial /\ ShouldRetry(k)
  <2> DEFINE new == [task[t] EXCEPT !.pc = "sleep"]
  <2>1. task' = [task EXCEPT ![t] = new] /\ UNCHANGED <<tab, conn, client, mdns, asked>>
    BY <1>6 DEF SessionEnds
  <2>2. new \in TaskRecord /\ new.pc = "sleep" /\ new.url = task[t].url /\ new.cut = task[t].cut
    BY <1>1 DEF TaskRecord
  <2> HIDE DEF new
  <2> QED
    BY <1>2, <1>3, <2>1, <2>2, SleepKeeps
<1>7. CASE u \notin tab.redial /\ ~ShouldRetry(k)
  <2>1. EndTask(t, tab) /\ (mdns' = mdns \/ mdns' = [mdns EXCEPT !.bye = @ \cup {u}])
        /\ asked' = [asked EXCEPT !.dial = @ \ {u}]
    BY <1>7 DEF SessionEnds
  <2>2. mdns' \in [url : Addresses, bye : SUBSET Urls]
        /\ asked' \in Wishes
    BY <1>1, <1>4, <2>1 DEF TypeInv
  <2> QED
    BY <1>1, <1>2, <1>3, <2>1, <2>2, EndKeeps
<1> QED
  BY <1>5, <1>6, <1>7

LEMMA TaskCancelledKeeps ==
    ASSUME RegistryInv, NEW t \in TaskIds, TaskCancelled(t)
    PROVE  RegistryInv'
<1> DEFINE u == task[t].url
           tb == IF task[t].first THEN tab ELSE [tab EXCEPT !.waiters = @ \ {u}]
           new == [NewTask EXCEPT !.pc = "done"]
<1>1. TypeInv /\ TaskInv /\ ConnInv /\ RegInv /\ tab \in Tables
  BY DEF RegistryInv, TypeInv
<1>2. task[t].cut /\ task[t].pc \in {"new", "connecting", "sleep", "session"}
      /\ (task[t].pc = "session" => conn[SessionOf(t)].pc = "gone")
      /\ mdns' = mdns /\ asked' = asked
  BY DEF TaskCancelled
<1>3. \A j \in ConnIds : conn[j].task = t => conn[j].pc = "gone"
  BY <1>1, <1>2, AllGone
<1>4. mdns' \in [url : Addresses, bye : SUBSET Urls]
      /\ asked' \in Wishes
  BY <1>1, <1>2 DEF TypeInv
<1>5. CASE task[t].pc # "new"
  <2>1. EndTask(t, tb)
    BY <1>5 DEF TaskCancelled
  <2>2. tb \in Tables /\ tb.task = tab.task /\ tb.dial = tab.dial
    BY <1>1 DEF Tables
  <2> HIDE DEF tb
  <2> QED
    BY <1>2, <1>3, <1>4, <2>1, <2>2, EndKeeps
<1>6. CASE task[t].pc = "new"
  <2>1. task' = [task EXCEPT ![t] = new] /\ tab' = tab /\ conn' = conn /\ client' = client
    BY <1>6 DEF TaskCancelled
  <2>2. new \in TaskRecord /\ new.pc = "done" /\ new.url = NoUrl /\ ~new.cut /\ ~new.first
    BY DEF NewTask, TaskRecord, Addresses
  <2> HIDE DEF new
  <2>3. task' \in [TaskIds -> TaskRecord] /\ \A s \in TaskIds : task'[s] = IF s = t THEN new ELSE task[s]
    BY <1>1, <2>1, <2>2 DEF TypeInv
  <2>4. TypeInv'
    BY <1>1, <1>2, <2>1, <2>3 DEF TypeInv
  <2>5. TaskInv'
    <3>1. \A v \in Urls : tab.task[v] # 0 => tab.task[v] \in TaskIds /\ tab.task[v] # t
      BY <1>1, <1>2 DEF Tables, TaskIds, TaskInv
    <3> QED
      BY <1>1, <2>1, <2>2, <2>3, <3>1 DEF TaskInv
  <2>6. ConnInv'
    <3>1. \A k \in ConnIds : conn[k].task # 0 => conn[k].task \in TaskIds /\ conn[k].task # t
      <4>1. \A k \in ConnIds : conn[k].task # 0 => conn[k].task \in TaskIds
        BY <1>1 DEF TypeInv, ConnRecord, TaskIds
      <4> QED
        BY <1>1, <1>6, <4>1, DialAssumption DEF ConnInv, TaskIds
    <3>2. \A k \in ConnIds : conn[k].task # 0 => task'[conn[k].task] = task[conn[k].task]
      BY <2>3, <3>1
    <3> QED
      BY <1>1, <2>1, <3>2 DEF ConnInv
  <2>7. RegInv'
    BY <1>1, <2>1, SameClients, RegInvKept
  <2> QED
    BY <2>4, <2>5, <2>6, <2>7 DEF RegistryInv
<1> QED
  BY <1>5, <1>6

-----------------------------------------------------------------------------
(* The life of a connection.                                                 *)

LEMMA IncomingKeeps ==
    ASSUME RegistryInv, Incoming
    PROVE  RegistryInv'
<1> DEFINE k == NextConn
           nc == [conn[k] EXCEPT !.pc = "hello"]
<1>1. TypeInv /\ TaskInv /\ ConnInv /\ RegInv
  BY DEF RegistryInv
<1>2. FreshConn # {} /\ conn' = [conn EXCEPT ![k] = nc]
      /\ tab' = tab /\ task' = task /\ client' = client /\ mdns' = mdns /\ asked' = asked
  BY DEF Incoming
<1>3. k \in ConnIds /\ conn[k].pc = "none" /\ \A j \in ConnIds : conn[j].pc = "none" => k <= j
  BY <1>2, NextConnIsFresh
<1>4. nc \in ConnRecord /\ nc.pc = "hello" /\ nc.task = conn[k].task /\ nc.peer = conn[k].peer
  BY <1>1, <1>3 DEF TypeInv, ConnRecord
<1>5. conn[k].task = 0
  BY <1>1, <1>3 DEF ConnInv
<1> HIDE DEF nc, k
<1>6. conn' \in [ConnIds -> ConnRecord] /\ \A j \in ConnIds : conn'[j] = IF j = k THEN nc ELSE conn[j]
  BY <1>1, <1>2, <1>4 DEF TypeInv
<1>7. TypeInv' /\ TaskInv'
  BY <1>1, <1>2, <1>6 DEF TypeInv, TaskInv
<1>8. ConnInv'
  <2>1. \A v \in Urls : tab.dial[v] # 0 => tab.dial[v] \in ConnIds /\ tab.dial[v] # k
    BY <1>1, <1>5 DEF TypeInv, Tables, ConnIds, ConnInv
  <2>2. \A j \in ConnIds : conn'[j].task = conn[j].task /\ (conn[j].task # 0 => conn'[j] = conn[j])
    BY <1>4, <1>5, <1>6
  <2>3. \A i \in ConnIds : i < k => conn[i].pc # "none"
    BY <1>3 DEF ConnIds
  <2>4. \A j, i \in ConnIds : (conn'[j].pc # "none" /\ i < j) => conn'[i].pc # "none"
    BY <1>1, <1>3, <1>4, <1>6, <2>3 DEF ConnInv
  <2>5. \A j \in ConnIds : conn'[j].pc = "none" => conn'[j].task = 0
    BY <1>1, <1>4, <1>6 DEF ConnInv
  <2>6. \A v \in Urls : tab'.dial[v] # 0 =>
          conn'[tab'.dial[v]].url = v /\ conn'[tab'.dial[v]].task # 0
    BY <1>1, <1>2, <2>1, <2>2 DEF ConnInv
  <2>7. \A j \in ConnIds : conn'[j].task # 0 =>
          /\ conn'[j].url \in Urls /\ task'[conn'[j].task].url = conn'[j].url
          /\ task'[conn'[j].task].pc # "new"
          /\ conn'[j].pc # "gone" => /\ task'[conn'[j].task].pc = "session"
                                     /\ \A i \in ConnIds : conn'[i].task = conn'[j].task => i <= j
    BY <1>1, <1>2, <2>2 DEF ConnInv
  <2> QED
    BY <2>4, <2>5, <2>6, <2>7 DEF ConnInv
<1>9. RegInv'
  BY <1>1, <1>2, <1>3, <1>4, <1>6, FreshConnKeepsReg
<1> QED
  BY <1>7, <1>8, <1>9 DEF RegistryInv

\* A connection moves on without changing hands.
LEMMA InPlaceKeeps ==
    ASSUME RegistryInv, NEW k \in ConnIds, NEW new \in ConnRecord,
           conn' = [conn EXCEPT ![k] = new],
           new.task = conn[k].task, new.url = conn[k].url, new.peer = conn[k].peer,
           conn[k].pc \in {"hello", "attached"}, new.pc \in {conn[k].pc, "closing"},
           tab' \in Tables, tab'.task = tab.task, tab'.dial = tab.dial,
           asked' \in Wishes,
           task' = task, client' = client, mdns' = mdns
    PROVE  RegistryInv'
<1>1. TypeInv /\ TaskInv /\ ConnInv /\ RegInv
  BY DEF RegistryInv
<1>2. conn' \in [ConnIds -> ConnRecord] /\ \A j \in ConnIds : conn'[j] = IF j = k THEN new ELSE conn[j]
  BY <1>1 DEF TypeInv
<1>3. TypeInv'
  BY <1>1, <1>2 DEF TypeInv
<1>4. TaskInv'
  BY <1>1 DEF TaskInv
<1>5. ConnInv'
  <2>1. \A j \in ConnIds :
               /\ conn'[j].task = conn[j].task
               /\ conn[j].task # 0 => conn'[j].url = conn[j].url
               /\ conn'[j].pc = "none" <=> conn[j].pc = "none"
               /\ conn[j].pc = "gone" => conn'[j].pc = "gone"
    BY <1>2
  <2> QED
    BY <1>1, <2>1, ConnInvMoved
<1>6. RegInv'
  <2>1. \A j \in ConnIds : conn'[j].peer = conn[j].peer
          /\ conn'[j].pc \in {conn[j].pc, "closing"} /\ (conn'[j].pc # conn[j].pc => conn[j].pc \in {"hello", "attached"})
    BY <1>2
  <2>2. \A c \in Clients : client[c].conn # 0 => client[c].conn \in ConnIds
    BY <1>1 DEF TypeInv, ClientRecord, ConnIds
  <2>3. OneCurrent'
    BY <1>1, <2>1, <2>2 DEF RegInv, OneCurrent
  <2> QED
    BY <1>1, <2>1, <2>3 DEF RegInv, NoLingering, OneDevicePerUrl
<1> QED
  BY <1>3, <1>4, <1>5, <1>6 DEF RegistryInv

LEMMA ActivateKeeps ==
    ASSUME RegistryInv, NEW k \in ConnIds, Activate(k)
    PROVE  RegistryInv'
<1> DEFINE u == conn[k].url
<1>1. TypeInv /\ tab \in Tables /\ conn[k] \in ConnRecord
  BY DEF RegistryInv, TypeInv
<1>2. PICK a \in {"idle", "other"} :
        conn' = [conn EXCEPT ![k].active = IF u \in tab.playback THEN "playback" ELSE a]
  BY DEF Activate
<1> DEFINE new == [conn[k] EXCEPT !.active = IF u \in tab.playback THEN "playback" ELSE a]
<1>3. conn' = [conn EXCEPT ![k] = new]
  BY <1>2
<1>4. new \in ConnRecord /\ new.task = conn[k].task /\ new.url = conn[k].url
      /\ new.peer = conn[k].peer /\ new.pc = conn[k].pc
  BY <1>1 DEF ConnRecord
<1>5. conn[k].pc = "attached" /\ task' = task /\ client' = client /\ mdns' = mdns /\ asked' = asked
      /\ tab' = IF u = NoUrl THEN tab ELSE [tab EXCEPT !.playback = @ \ {u}]
  BY DEF Activate
<1>6. tab' \in Tables /\ tab'.task = tab.task /\ tab'.dial = tab.dial
  BY <1>1, <1>5 DEF Tables
<1>7. asked' \in Wishes
  BY <1>1, <1>5 DEF TypeInv
<1> HIDE DEF new
<1> QED
  BY <1>3, <1>4, <1>5, <1>6, <1>7, InPlaceKeeps

LEMMA BeginCloseKeeps ==
    ASSUME RegistryInv, NEW k \in ConnIds, NEW r \in Reasons, BeginClose(k, r)
    PROVE  RegistryInv'
<1> DEFINE cl == conn[k].closing \/ r \notin {"none", "restart"}
           new == [[[conn[k] EXCEPT !.pc = "closing"] EXCEPT !.bye = r] EXCEPT !.closing = cl]
<1>1. TypeInv /\ ConnInv /\ tab \in Tables /\ conn[k] \in ConnRecord /\ conn \in [ConnIds -> ConnRecord]
  BY DEF RegistryInv, TypeInv
<1>2. conn[k].pc \in {"hello", "attached"}
      /\ tab' = tab /\ task' = task /\ client' = client /\ mdns' = mdns
      /\ conn' = [conn EXCEPT ![k].pc = "closing", ![k].bye = r,
                              ![k].closing = @ \/ r \notin {"none", "restart"}]
  BY DEF BeginClose
<1>3. conn' = [conn EXCEPT ![k] = new]
  BY <1>1, <1>2
<1>4. new \in ConnRecord /\ new.task = conn[k].task /\ new.url = conn[k].url
      /\ new.peer = conn[k].peer /\ new.pc = "closing"
  <2>1. r \in AllReasons /\ cl \in BOOLEAN
    BY <1>1, DialAssumption DEF ConnRecord
  <2> HIDE DEF cl
  <2>2. [conn[k] EXCEPT !.pc = "closing"] \in ConnRecord
    BY <1>1 DEF ConnRecord
  <2>3. [[conn[k] EXCEPT !.pc = "closing"] EXCEPT !.bye = r] \in ConnRecord
    BY <2>1, <2>2 DEF ConnRecord
  <2> QED
    BY <2>1, <2>3 DEF ConnRecord
<1>5. asked' \in Wishes
  <2>1. asked' = asked \/ (conn[k].task # 0 /\ asked' = [asked EXCEPT !.ended = @ \cup {conn[k].url}])
    BY <1>1 DEF BeginClose, TypeInv
  <2>2. conn[k].task # 0 => conn[k].url \in Urls
    BY <1>1 DEF ConnInv
  <2> QED
    BY <1>1, <2>1, <2>2 DEF TypeInv
<1> HIDE DEF new
<1> QED
  BY <1>1, <1>2, <1>3, <1>4, <1>5, InPlaceKeeps

LEMMA MarkConnectedKeeps ==
    ASSUME RegistryInv, NEW k \in ConnIds, MarkConnected(k)
    PROVE  RegistryInv'
<1> DEFINE c == conn[k].peer
           new == [client[c] EXCEPT !.up = TRUE]
<1>1. TypeInv /\ TaskInv /\ ConnInv /\ RegInv
  BY DEF RegistryInv
<1>2. c \in Clients /\ client[c].conn = k /\ k # 0
  BY <1>1, DialAssumption DEF MarkConnected, RegInv, ConnIds
<1>3. client' = [client EXCEPT ![c] = new]
      /\ tab' = tab /\ task' = task /\ conn' = conn /\ mdns' = mdns /\ asked' = asked
  BY DEF MarkConnected
<1>4. client[c] \in ClientRecord
  BY <1>1, <1>2 DEF TypeInv
<1>5. new \in ClientRecord /\ new.conn = client[c].conn /\ new.known = client[c].known
      /\ new.timer = client[c].timer /\ new.retained = client[c].retained /\ new.url = client[c].url
  BY <1>4 DEF ClientRecord
<1> HIDE DEF new
<1>6. client' \in [Clients -> ClientRecord]
      /\ \A d \in Clients : client'[d] = IF d = c THEN new ELSE client[d]
  BY <1>1, <1>3, <1>5 DEF TypeInv
<1>7. TypeInv' /\ TaskInv'
  BY <1>1, <1>3, <1>6 DEF TypeInv, TaskInv
<1>8. ConnInv'
  BY <1>1, <1>3, ConnInvKept
<1>9. RegInv'
  <2>1. \A d \in Clients : /\ client'[d].conn = client[d].conn /\ client'[d].known = client[d].known
                           /\ client'[d].timer = client[d].timer /\ client'[d].retained = client[d].retained
                           /\ client'[d].url = client[d].url
                           /\ client'[d].up => client'[d].conn # 0
    BY <1>1, <1>2, <1>5, <1>6 DEF RegInv
  <2>2. OneCurrent'
    BY <1>1, <1>3, <2>1 DEF RegInv, OneCurrent
  <2> QED
    BY <1>1, <1>3, <2>1, <2>2 DEF RegInv, NoLingering, OneDevicePerUrl
<1> QED
  BY <1>7, <1>8, <1>9 DEF RegistryInv

LEMMA CloseDoneKeeps ==
    ASSUME RegistryInv, NEW k \in ConnIds, CloseDone(k)
    PROVE  RegistryInv'
<1> DEFINE c == conn[k].peer
           nc == IF conn[k].task = 0 THEN Over ELSE [conn[k] EXCEPT !.pc = "gone"]
<1>1. TypeInv /\ TaskInv /\ ConnInv /\ RegInv /\ conn[k] \in ConnRecord
  BY DEF RegistryInv, TypeInv
<1>2. conn[k].pc = "closing" /\ conn' = [conn EXCEPT ![k] = nc]
      /\ client' = (IF c = NoOne THEN client ELSE [client EXCEPT ![c] = Detach(@, k)])
      /\ tab' = tab /\ task' = task /\ mdns' = mdns /\ asked' = asked
  BY DEF CloseDone
<1>3. nc \in ConnRecord /\ nc.pc = "gone" /\ nc.task = conn[k].task
      /\ (conn[k].task # 0 => nc.url = conn[k].url)
  <2>1. CASE conn[k].task = 0
    BY <2>1, OverType
  <2>2. CASE conn[k].task # 0
    BY <1>1, <2>2 DEF ConnRecord
  <2> QED
    BY <2>1, <2>2
<1> HIDE DEF nc
<1>4. conn' \in [ConnIds -> ConnRecord] /\ \A j \in ConnIds : conn'[j] = IF j = k THEN nc ELSE conn[j]
  BY <1>1, <1>2, <1>3 DEF TypeInv
<1>5. c \in Devices /\ k # 0
  BY <1>1, DialAssumption DEF ConnRecord, ConnIds
<1>6. client' \in [Clients -> ClientRecord]
      /\ \A d \in Clients :
           IF client[d].conn = k
           THEN /\ client'[d].conn = 0 /\ ~client'[d].up /\ client'[d].url = client[d].url
                /\ client'[d].timer \/ client'[d].retained
           ELSE client'[d] = client[d]
  <2>1. CASE c = NoOne
    <3>1. \A d \in Clients : client[d].conn # k
      BY <1>1, <1>5, <2>1, DialAssumption DEF RegInv, OneCurrent
    <3> QED
      BY <1>1, <1>2, <2>1, <3>1 DEF TypeInv
  <2>2. CASE c # NoOne
    <3> DEFINE new == Detach(client[c], k)
               low == [[client[c] EXCEPT !.up = FALSE] EXCEPT !.conn = 0]
    <3>1. c \in Clients /\ client' = [client EXCEPT ![c] = new]
      BY <1>2, <1>5, <2>2 DEF Devices
    <3>2. client[c] \in ClientRecord
      BY <1>1, <3>1 DEF TypeInv
    <3>3. low \in ClientRecord /\ low.conn = 0 /\ ~low.up /\ low.url = client[c].url
      <4>1. 0 \in 0..MaxConns
        BY DialAssumption
      <4>2. [client[c] EXCEPT !.up = FALSE] \in ClientRecord
        BY <3>2 DEF ClientRecord
      <4> QED
        BY <4>1, <4>2 DEF ClientRecord
    <3>4. CASE client[c].conn = k
      <4>1. new = ScheduleCleanup(low, conn[k].bye)
        BY <3>2, <3>4 DEF Detach, ClientRecord
      <4> HIDE DEF low, new
      <4>2. new \in ClientRecord /\ new.conn = 0 /\ ~new.up /\ new.url = client[c].url
            /\ (new.timer \/ new.retained)
        <5>1. CASE conn[k].bye = "another_server"
          BY <3>3, <4>1, <5>1 DEF ScheduleCleanup, ClientRecord
        <5>2. CASE conn[k].bye # "another_server"
          <6>1. new = [[low EXCEPT !.retained = FALSE] EXCEPT !.timer = TRUE]
            BY <3>3, <4>1, <5>2 DEF ScheduleCleanup, ClientRecord
          <6>2. [low EXCEPT !.retained = FALSE] \in ClientRecord
            BY <3>3 DEF ClientRecord
          <6> QED
            BY <3>3, <6>1, <6>2 DEF ClientRecord
        <5> QED
          BY <5>1, <5>2
      <4>3. \A d \in Clients : client[d].conn = k => d = c
        BY <1>1, <1>5 DEF RegInv, OneCurrent
      <4> QED
        BY <1>1, <3>1, <3>4, <4>2, <4>3 DEF TypeInv
    <3>5. CASE client[c].conn # k
      <4>1. client' = client
        BY <1>1, <3>1, <3>5 DEF Detach, TypeInv
      <4>2. \A d \in Clients : client[d].conn # k
        BY <1>1, <1>5, <3>5 DEF RegInv, OneCurrent
      <4> QED
        BY <1>1, <4>1, <4>2 DEF TypeInv
    <3> QED
      BY <3>4, <3>5
  <2> QED
    BY <2>1, <2>2
<1>7. TypeInv' /\ TaskInv'
  BY <1>1, <1>2, <1>4, <1>6 DEF TypeInv, TaskInv
<1>8. ConnInv'
  <2>1. \A j \in ConnIds :
               /\ conn'[j].task = conn[j].task
               /\ conn[j].task # 0 => conn'[j].url = conn[j].url
               /\ conn'[j].pc = "none" <=> conn[j].pc = "none"
               /\ conn[j].pc = "gone" => conn'[j].pc = "gone"
    BY <1>2, <1>3, <1>4
  <2> QED
    BY <1>1, <1>2, <2>1, ConnInvMoved
<1>9. RegInv'
  <2>1. \A j \in ConnIds : j # k => conn'[j] = conn[j]
    BY <1>4
  <2>2. conn'[k].pc = "gone"
    BY <1>3, <1>4
  <2>3. \A d \in Clients : client'[d].conn # 0 =>
          client[d].conn = client'[d].conn /\ client[d].conn # k /\ client[d].conn \in ConnIds
          /\ client'[d] = client[d]
    BY <1>1, <1>6 DEF TypeInv, ClientRecord, ConnIds
  <2>4. \A j \in ConnIds : conn'[j].pc = "attached" =>
          client'[conn'[j].peer].conn = j /\ client'[conn'[j].peer].known
    <3> SUFFICES ASSUME NEW j \in ConnIds, conn'[j].pc = "attached"
                 PROVE  client'[conn'[j].peer].conn = j /\ client'[conn'[j].peer].known
      OBVIOUS
    <3>1. j # k /\ conn'[j] = conn[j]
      BY <2>1, <2>2
    <3>2. conn[j].peer \in Clients /\ client[conn[j].peer].conn = j /\ client[conn[j].peer].known
      BY <1>1, <3>1 DEF RegInv, OneCurrent
    <3> QED
      BY <1>6, <3>1, <3>2
  <2>5. OneCurrent'
    BY <1>1, <2>1, <2>3, <2>4 DEF RegInv, OneCurrent
  <2>6. NoLingering' /\ OneDevicePerUrl'
    <3>1. \A d \in Clients : client'[d].url = client[d].url
      BY <1>6
    <3> QED
      BY <1>1, <1>6, <3>1 DEF RegInv, NoLingering, OneDevicePerUrl
  <2>7. \A d \in Clients : (client'[d].timer \/ client'[d].retained) => client'[d].conn = 0
    BY <1>1, <1>6 DEF RegInv
  <2>8. \A d \in Clients : client'[d].up => client'[d].conn # 0
    BY <1>1, <1>6 DEF RegInv
  <2>9. \A j \in ConnIds : /\ conn'[j].pc \in {"none", "hello"} => conn'[j].peer = NoOne
                           /\ conn'[j].pc = "attached" => conn'[j].peer \in Clients
    BY <1>1, <2>1, <2>2 DEF RegInv
  <2> QED
    BY <2>5, <2>6, <2>7, <2>8, <2>9 DEF RegInv
<1> QED
  BY <1>7, <1>8, <1>9 DEF RegistryInv

\* The device a connection turns out to be is the connection's from now on, and the
\* connection it had before is told to close.
LEMMA AttachRegistered ==
    ASSUME TypeInv, RegInv, NEW k \in ConnIds, NEW c \in Clients, conn[k].pc = "hello",
           NEW cl \in [Clients -> ClientRecord],
           cl = [client EXCEPT ![c] = Attached(c, k)],
           client' \in [Clients -> ClientRecord],
           \/ client' = cl
           \/ \E u \in Urls : /\ client'[c] = [cl[c] EXCEPT !.url = u]
                              /\ \A d \in Clients \ {c} : Lessened(cl[d], client'[d]) /\ client'[d].url # u,
           \A j \in ConnIds :
               IF j = k THEN conn'[j].pc = "attached" /\ conn'[j].peer = c
               ELSE /\ conn'[j].peer = conn[j].peer
                    /\ IF j = client[c].conn THEN conn'[j].pc \in {"closing", conn[j].pc} \ {"attached"}
                       ELSE conn'[j].pc = conn[j].pc
    PROVE  RegInv'
<1>1. k # 0 /\ conn[k].peer = NoOne /\ c # NoOne
  BY DialAssumption DEF ConnIds, RegInv
<1>2. cl[c] = Attached(c, k) /\ \A d \in Clients \ {c} : cl[d] = client[d]
  BY DEF TypeInv
<1>3. cl[c].known /\ cl[c].conn = k /\ ~cl[c].up /\ ~cl[c].timer /\ ~cl[c].retained
      /\ cl[c].url = client[c].url
  <2>1. client[c] \in ClientRecord
    BY DEF TypeInv
  <2> QED
    BY <1>2, <2>1 DEF Attached, ClientRecord
<1>4. client'[c].known /\ client'[c].conn = k /\ ~client'[c].up /\ ~client'[c].timer
      /\ ~client'[c].retained
  <2>1. CASE client' = cl
    BY <1>3, <2>1
  <2>2. CASE \E u \in Urls : client'[c] = [cl[c] EXCEPT !.url = u]
    BY <1>3, <2>2 DEF ClientRecord
  <2> QED
    BY <2>1, <2>2
<1>5. NewClient.conn = 0 /\ ~NewClient.up /\ ~NewClient.timer /\ ~NewClient.retained
      /\ ~NewClient.known /\ NewClient.url = NoUrl
  BY DEF NewClient
<1>6. \A d \in Clients \ {c} :
        \/ /\ client[d].conn = 0 /\ client'[d].conn = 0 /\ ~client'[d].up /\ ~client'[d].timer
           /\ ~client'[d].retained /\ ~client'[d].known /\ client'[d].url = NoUrl
        \/ /\ client'[d].known = client[d].known /\ client'[d].conn = client[d].conn
           /\ client'[d].up = client[d].up /\ client'[d].timer = client[d].timer
           /\ client'[d].retained = client[d].retained /\ client'[d].url \in {client[d].url, NoUrl}
  <2>1. \A d \in Clients \ {c} : Lessened(client[d], client'[d])
    BY <1>2 DEF Lessened
  <2> QED
    BY <1>5, <2>1 DEF Lessened
<1>7. OneDevicePerUrl'
  <2>1. CASE client' = cl
    <3>1. \A d \in Clients : client'[d].url = client[d].url
      BY <1>2, <1>3, <2>1
    <3> QED
      BY <3>1 DEF RegInv, OneDevicePerUrl
  <2>2. CASE \E u \in Urls : /\ client'[c] = [cl[c] EXCEPT !.url = u]
                             /\ \A d \in Clients \ {c} : Lessened(cl[d], client'[d]) /\ client'[d].url # u
    <3>1. PICK u \in Urls : /\ client'[c] = [cl[c] EXCEPT !.url = u]
                            /\ \A d \in Clients \ {c} : client'[d].url # u
      BY <2>2
    <3>2. client'[c].url = u
      BY <3>1 DEF ClientRecord
    <3>3. \A d \in Clients \ {c} : client'[d].url \in {client[d].url, NoUrl}
      BY <1>6
    <3>4. \A a, b \in Clients \ {c} : (a # b /\ client'[a].url # NoUrl) => client'[a].url # client'[b].url
      BY <3>3 DEF RegInv, OneDevicePerUrl
    <3>5. \A a \in Clients \ {c} : client'[a].url # client'[c].url
      BY <3>1, <3>2
    <3> QED
      BY <3>4, <3>5 DEF OneDevicePerUrl
  <2> QED
    BY <2>1, <2>2
<1>8. \A d \in Clients : client[d].conn # 0 => client[d].conn \in ConnIds /\ client[d].conn # k
  <2>1. \A d \in Clients : client[d].conn # 0 => client[d].conn \in ConnIds
    BY DEF TypeInv, ClientRecord, ConnIds
  <2>2. \A d \in Clients : client[d].conn # 0 => conn[client[d].conn].pc # "hello"
    BY DEF RegInv, OneCurrent
  <2> QED
    BY <2>1, <2>2
<1>9. \A j \in ConnIds : conn'[j].pc = "attached" =>
        client'[conn'[j].peer].conn = j /\ client'[conn'[j].peer].known /\ conn'[j].peer \in Clients
  <2> SUFFICES ASSUME NEW j \in ConnIds, conn'[j].pc = "attached"
               PROVE  client'[conn'[j].peer].conn = j /\ client'[conn'[j].peer].known
                      /\ conn'[j].peer \in Clients
    OBVIOUS
  <2>1. CASE j = k
    BY <1>4, <2>1
  <2>2. CASE j # k
    <3>1. j # client[c].conn /\ conn[j].pc = "attached" /\ conn'[j].peer = conn[j].peer
      BY <2>2
    <3>2. conn[j].peer \in Clients /\ client[conn[j].peer].conn = j /\ client[conn[j].peer].known
      BY <3>1 DEF RegInv, OneCurrent
    <3>3. conn[j].peer # c /\ j # 0
      BY <3>1, <3>2, DialAssumption DEF ConnIds
    <3> QED
      BY <1>6, <3>1, <3>2, <3>3
  <2> QED
    BY <2>1, <2>2
<1>10. \A d \in Clients : client'[d].conn # 0 =>
         conn'[client'[d].conn].peer = d /\ conn'[client'[d].conn].pc \in {"attached", "closing"}
  <2> SUFFICES ASSUME NEW d \in Clients, client'[d].conn # 0
               PROVE  conn'[client'[d].conn].peer = d /\ conn'[client'[d].conn].pc \in {"attached", "closing"}
    OBVIOUS
  <2>1. CASE d = c
    BY <1>4, <2>1
  <2>2. CASE d # c
    <3>1. client'[d].conn = client[d].conn /\ client[d].conn # 0
      BY <1>6, <2>2
    <3>2. conn[client[d].conn].peer = d /\ conn[client[d].conn].pc \in {"attached", "closing"}
      BY <3>1 DEF RegInv, OneCurrent
    <3>3. client[d].conn \in ConnIds /\ client[d].conn # k /\ client[d].conn # client[c].conn
      BY <1>8, <2>2, <3>1, <3>2 DEF RegInv, OneCurrent
    <3> QED
      BY <3>1, <3>2, <3>3
  <2> QED
    BY <2>1, <2>2
<1>11. OneCurrent'
  BY <1>9, <1>10 DEF OneCurrent
<1>12. \A d \in Clients : /\ (client'[d].timer \/ client'[d].retained) => client'[d].conn = 0
                          /\ client'[d].up => client'[d].conn # 0
                          /\ (client'[d].known /\ client'[d].conn = 0) => (client'[d].timer \/ client'[d].retained)
  BY <1>1, <1>4, <1>6 DEF RegInv, NoLingering
<1>13. \A j \in ConnIds : conn'[j].pc \in {"none", "hello"} => conn'[j].peer = NoOne
  BY DEF RegInv
<1> QED
  BY <1>7, <1>9, <1>11, <1>12, <1>13 DEF RegInv, NoLingering

LEMMA AttachKeeps ==
    ASSUME RegistryInv, NEW k \in ConnIds, NEW c \in Clients, Attach(k, c)
    PROVE  RegistryInv'
<1> DEFINE u == conn[k].url
           old == client[c].url
           moved == u # NoUrl /\ old \notin {NoUrl, u}
           cl == [client EXCEPT ![c] = Attached(c, k)]
           stranger == u # NoUrl /\ conn[k].want \notin {NoOne, c}
           tb == IF stranger THEN [tab EXCEPT !.playback = @ \ {u}] ELSE tab
           Turned(j) == IF j = k THEN [[conn[k] EXCEPT !.pc = "attached"] EXCEPT !.peer = c]
                        ELSE IF j = client[c].conn /\ conn[j].pc = "attached"
                        THEN [[conn[j] EXCEPT !.pc = "closing"] EXCEPT !.closing = TRUE]
                        ELSE IF j = client[c].conn THEN [conn[j] EXCEPT !.closing = TRUE]
                        ELSE conn[j]
<1>1. TypeInv /\ TaskInv /\ ConnInv /\ RegInv /\ tab \in Tables /\ conn \in [ConnIds -> ConnRecord]
      /\ client \in [Clients -> ClientRecord] /\ client[c] \in ClientRecord /\ conn[k] \in ConnRecord
  BY DEF RegistryInv, TypeInv
<1>2. conn[k].pc = "hello" /\ mdns' = mdns
      /\ client' = (IF u = NoUrl THEN cl ELSE RegisterUrl(cl, c, u))
      /\ tab' = (IF moved THEN Disconnected(tb, old) ELSE tb)
      /\ task' = (IF moved THEN CutTask(task, old) ELSE task)
      /\ asked' = (IF moved THEN Cut(old) ELSE asked)
  BY DEF Attach
<1>3. conn' = [j \in ConnIds |-> Turned(j)]
  BY <1>1 DEF Attach
<1>4. u \in Addresses /\ old \in Addresses
  BY <1>1 DEF ConnRecord, ClientRecord
<1>5. cl \in [Clients -> ClientRecord]
  <2> DEFINE a1 == [client[c] EXCEPT !.known = TRUE]
             a2 == [a1 EXCEPT !.conn = k]
             a3 == [a2 EXCEPT !.up = FALSE]
             a4 == [a3 EXCEPT !.timer = FALSE]
             a5 == [a4 EXCEPT !.retained = FALSE]
  <2>1. a1 \in ClientRecord
    BY <1>1 DEF ClientRecord
  <2>2. k \in 0..MaxConns
    BY DEF ConnIds
  <2> HIDE DEF a1
  <2>3. a2 \in ClientRecord
    BY <2>1, <2>2 DEF ClientRecord
  <2> HIDE DEF a2
  <2>4. a3 \in ClientRecord
    BY <2>3 DEF ClientRecord
  <2> HIDE DEF a3
  <2>5. a4 \in ClientRecord
    BY <2>4 DEF ClientRecord
  <2> HIDE DEF a4
  <2>6. a5 \in ClientRecord
    BY <2>5 DEF ClientRecord
  <2> HIDE DEF a5
  <2>7. [a5 EXCEPT !.reclaim = FALSE] \in ClientRecord
    BY <2>6 DEF ClientRecord
  <2>8. Attached(c, k) = [a5 EXCEPT !.reclaim = FALSE]
    BY <1>1 DEF Attached, ClientRecord, a1, a2, a3, a4, a5
  <2> QED
    BY <1>1, <2>7, <2>8
<1>6. \A j \in ConnIds :
        /\ Turned(j) \in ConnRecord
        /\ Turned(j).task = conn[j].task /\ Turned(j).url = conn[j].url
        /\ Turned(j).pc = "none" <=> conn[j].pc = "none"
        /\ conn[j].pc = "gone" => Turned(j).pc = "gone"
        /\ IF j = k THEN Turned(j).pc = "attached" /\ Turned(j).peer = c
           ELSE /\ Turned(j).peer = conn[j].peer
                /\ IF j = client[c].conn THEN Turned(j).pc \in {"closing", conn[j].pc} \ {"attached"}
                   ELSE Turned(j).pc = conn[j].pc
  <2> TAKE j \in ConnIds
  <2>1. conn[j] \in ConnRecord
    BY <1>1
  <2>2. CASE j = k
    <3>1. [conn[k] EXCEPT !.pc = "attached"] \in ConnRecord /\ c \in Devices
      BY <1>1 DEF ConnRecord, Devices
    <3> QED
      BY <1>1, <1>2, <2>2, <3>1 DEF ConnRecord
  <2>3. CASE j # k /\ j = client[c].conn /\ conn[j].pc = "attached"
    <3>1. [conn[j] EXCEPT !.pc = "closing"] \in ConnRecord
      BY <2>1 DEF ConnRecord
    <3> QED
      BY <2>1, <2>3, <3>1 DEF ConnRecord
  <2>4. CASE j # k /\ j = client[c].conn /\ conn[j].pc # "attached"
    BY <2>1, <2>4 DEF ConnRecord
  <2>5. CASE j # k /\ j # client[c].conn
    BY <2>1, <2>5
  <2> QED
    BY <2>2, <2>3, <2>4, <2>5
<1> HIDE DEF Turned, cl, tb
<1>7. conn' \in [ConnIds -> ConnRecord] /\ \A j \in ConnIds : conn'[j] = Turned(j)
  BY <1>3, <1>6
<1>8. client' \in [Clients -> ClientRecord]
      /\ \/ client' = cl
         \/ \E v \in Urls : /\ client'[c] = [cl[c] EXCEPT !.url = v]
                            /\ \A d \in Clients \ {c} : Lessened(cl[d], client'[d]) /\ client'[d].url # v
  <2>1. CASE u = NoUrl
    BY <1>2, <1>5, <2>1
  <2>2. CASE u # NoUrl
    <3>1. u \in Urls /\ client' = RegisterUrl(cl, c, u)
      BY <1>2, <1>4, <2>2 DEF Addresses
    <3>2. PICK v \in Urls : client' = RegisterUrl(cl, c, v)
      BY <3>1
    <3>3. /\ client' \in [Clients -> ClientRecord]
          /\ client'[c] = [cl[c] EXCEPT !.url = v]
          /\ \A d \in Clients \ {c} : Lessened(cl[d], client'[d]) /\ client'[d].url # v
      BY <1>5, <3>2, RegisterUrlType
    <3> QED
      BY <3>3
  <2> QED
    BY <2>1, <2>2
<1>9. tb \in Tables /\ tb.task = tab.task /\ tb.dial = tab.dial
  BY <1>1 DEF Tables, tb
<1>10. /\ tab' \in Tables /\ task' \in [TaskIds -> TaskRecord] /\ tab'.dial = tab.dial /\ TaskInv'
       /\ \A t \in TaskIds : task'[t].pc = task[t].pc /\ task'[t].url = task[t].url
       /\ asked' \in Wishes
  <2>1. CASE moved
    <3>1. old \in Urls /\ tab' = Disconnected(tb, old) /\ task' = CutTask(task, old) /\ asked' = Cut(old)
      BY <1>2, <1>4, <2>1 DEF Addresses
    <3> QED
      BY <1>1, <1>9, <3>1, CutType, CutAskedType
  <2>2. CASE ~moved
    <3>1. tab' = tb /\ task' = task /\ asked' = asked
      BY <1>2, <2>2
    <3>2. TaskInv'
      BY <1>1, <1>9, <3>1 DEF TaskInv
    <3> QED
      BY <1>1, <1>9, <3>1, <3>2 DEF TypeInv
  <2> QED
    BY <2>1, <2>2
<1>11. TypeInv'
  BY <1>1, <1>2, <1>7, <1>8, <1>10 DEF TypeInv
<1>12. ConnInv'
  <2>1. \A j \in ConnIds :
               /\ conn'[j].task = conn[j].task
               /\ conn[j].task # 0 => conn'[j].url = conn[j].url
               /\ conn'[j].pc = "none" <=> conn[j].pc = "none"
               /\ conn[j].pc = "gone" => conn'[j].pc = "gone"
    BY <1>6, <1>7
  <2> QED
    BY <1>1, <1>10, <2>1, ConnInvMoved
<1>13. RegInv'
  <2>1. cl = [client EXCEPT ![c] = Attached(c, k)]
    BY DEF cl
  <2>2. \A j \in ConnIds :
          IF j = k THEN conn'[j].pc = "attached" /\ conn'[j].peer = c
          ELSE /\ conn'[j].peer = conn[j].peer
               /\ IF j = client[c].conn THEN conn'[j].pc \in {"closing", conn[j].pc} \ {"attached"}
                  ELSE conn'[j].pc = conn[j].pc
    BY <1>6, <1>7
  <2>3. TypeInv /\ RegInv /\ conn[k].pc = "hello"
    BY <1>1, <1>2
  <2> HIDE DEF u, old, moved, stranger
  <2> QED
    BY <1>5, <1>8, <2>1, <2>2, <2>3, AttachRegistered
<1> QED
  BY <1>10, <1>11, <1>12, <1>13 DEF RegistryInv

-----------------------------------------------------------------------------
(* mDNS.                                                                     *)

\* An announcement or its end moves the devices of one address, whose task may be cancelled.
LEMMA MovedKeeps ==
    ASSUME RegistryInv, NEW u \in Urls,
           \/ tab' = tab /\ task' = task
           \/ tab' = Disconnected(tab, u) /\ task' = CutTask(task, u),
           conn' = conn, client' \in [Clients -> ClientRecord], RegInv',
           mdns' \in [url : Addresses, bye : SUBSET Urls],
           asked' \in Wishes
    PROVE  RegistryInv'
<1>1. TypeInv /\ TaskInv /\ ConnInv /\ tab \in Tables
  BY DEF RegistryInv, TypeInv
<1>2. /\ tab' \in Tables /\ task' \in [TaskIds -> TaskRecord] /\ tab'.dial = tab.dial /\ TaskInv'
      /\ \A t \in TaskIds : task'[t].pc = task[t].pc /\ task'[t].url = task[t].url
  <2>1. CASE tab' = tab /\ task' = task
    BY <1>1, <2>1 DEF TypeInv, TaskInv
  <2>2. CASE tab' = Disconnected(tab, u) /\ task' = CutTask(task, u)
    BY <1>1, <2>2, CutType
  <2> QED
    BY <2>1, <2>2
<1>3. TypeInv'
  BY <1>1, <1>2 DEF TypeInv
<1>4. ConnInv'
  BY <1>1, <1>2, ConnInvKept
<1> QED
  BY <1>2, <1>3, <1>4 DEF RegistryInv

\* An address passes to one device.
LEMMA RegisterKeepsReg ==
    ASSUME TypeInv, RegInv, NEW c \in Clients, NEW u \in Urls, conn' = conn,
           client' = RegisterUrl(client, c, u)
    PROVE  client' \in [Clients -> ClientRecord] /\ RegInv'
<1>1. client \in [Clients -> ClientRecord] /\ client[c] \in ClientRecord
  BY DEF TypeInv
<1>2. /\ client' \in [Clients -> ClientRecord]
      /\ client'[c] = [client[c] EXCEPT !.url = u]
      /\ \A d \in Clients \ {c} : Lessened(client[d], client'[d]) /\ client'[d].url # u
  BY <1>1, RegisterUrlType
<1>3. client'[c].url = u /\ client'[c].known = client[c].known /\ client'[c].conn = client[c].conn
      /\ client'[c].up = client[c].up /\ client'[c].timer = client[c].timer
      /\ client'[c].retained = client[c].retained
  BY <1>1, <1>2 DEF ClientRecord
<1>4. NewClient.conn = 0 /\ ~NewClient.up /\ ~NewClient.timer /\ ~NewClient.retained
      /\ ~NewClient.known /\ NewClient.url = NoUrl
  BY DEF NewClient
<1>5. \A d \in Clients :
        \/ /\ client[d].conn = 0 /\ client'[d].conn = 0 /\ ~client'[d].up /\ ~client'[d].timer
           /\ ~client'[d].retained /\ ~client'[d].known
        \/ /\ client'[d].known = client[d].known /\ client'[d].conn = client[d].conn
           /\ client'[d].up = client[d].up /\ client'[d].timer = client[d].timer
           /\ client'[d].retained = client[d].retained
  BY <1>2, <1>3, <1>4 DEF Lessened
<1>6. \A d \in Clients \ {c} : client'[d].url \in {client[d].url, NoUrl} /\ client'[d].url # u
  BY <1>2, <1>4 DEF Lessened
<1>7. OneDevicePerUrl'
  <2>1. \A a, b \in Clients \ {c} : (a # b /\ client'[a].url # NoUrl) => client'[a].url # client'[b].url
    BY <1>6 DEF RegInv, OneDevicePerUrl
  <2> QED
    BY <1>3, <1>6, <2>1 DEF OneDevicePerUrl
<1>8. \A k \in ConnIds : conn[k].pc = "attached" =>
        client'[conn[k].peer].conn = k /\ client'[conn[k].peer].known
  <2> SUFFICES ASSUME NEW k \in ConnIds, conn[k].pc = "attached"
               PROVE  client'[conn[k].peer].conn = k /\ client'[conn[k].peer].known
    OBVIOUS
  <2>1. conn[k].peer \in Clients /\ client[conn[k].peer].conn = k /\ client[conn[k].peer].known
    BY DEF RegInv, OneCurrent
  <2>2. k # 0
    BY DialAssumption DEF ConnIds
  <2> QED
    BY <1>5, <2>1, <2>2
<1>9. OneCurrent'
  BY <1>5, <1>8 DEF RegInv, OneCurrent
<1> QED
  BY <1>2, <1>5, <1>7, <1>9 DEF RegInv, NoLingering

LEMMA ServiceMovedKeeps ==
    ASSUME RegistryInv, NEW u \in Urls, ServiceMoved(u)
    PROVE  RegistryInv'
<1> DEFINE old == mdns.url
           movers == {c \in Clients : client[c].url = old}
           cut == IF movers = {} THEN asked ELSE Cut(old)
<1>1. TypeInv /\ TaskInv /\ ConnInv /\ RegInv /\ mdns \in [url : Addresses, bye : SUBSET Urls]
      /\ asked \in Wishes
      /\ client \in [Clients -> ClientRecord]
  BY DEF RegistryInv, TypeInv
<1>2. old \in Urls /\ conn' = conn
  BY <1>1 DEF ServiceMoved, Addresses
<1>3. CASE u = old
  <2>1. mdns' = mdns /\ client' = client /\ tab' = tab /\ task' = task /\ asked' = asked
    BY <1>3 DEF ServiceMoved
  <2>2. RegInv'
    BY <1>1, <1>2, <2>1, SameClients, RegInvKept
  <2> QED
    BY <1>1, <1>2, <2>1, <2>2, MovedKeeps
<1>4. CASE u # old
  <2>1. mdns' = [url |-> u, bye |-> (mdns.bye \ {old}) \cup {u}]
        /\ asked' = [cut EXCEPT !.ended = (@ \ {old}) \cup {u}]
        /\ client' = (IF movers = {} THEN client ELSE RegisterUrl(client, CHOOSE c \in movers : TRUE, u))
        /\ tab' = (IF movers = {} THEN tab ELSE Disconnected(tab, old))
        /\ task' = (IF movers = {} THEN task ELSE CutTask(task, old))
    BY <1>4 DEF ServiceMoved
  <2>2. mdns' \in [url : Addresses, bye : SUBSET Urls]
    BY <1>1, <2>1 DEF Addresses
  <2>3. cut \in Wishes
    BY <1>1, <1>2, CutAskedType
  <2> HIDE DEF cut
  <2>4. asked' \in Wishes
    BY <2>1, <2>3
  <2>5. client' \in [Clients -> ClientRecord] /\ RegInv'
    <3>1. CASE movers = {}
      BY <1>1, <1>2, <2>1, <3>1, SameClients, RegInvKept
    <3>2. CASE movers # {}
      <4> DEFINE c == CHOOSE c \in movers : TRUE
      <4>1. c \in Clients /\ client' = RegisterUrl(client, c, u)
        BY <2>1, <3>2
      <4> HIDE DEF c
      <4> QED
        BY <1>1, <1>2, <4>1, RegisterKeepsReg
    <3> QED
      BY <3>1, <3>2
  <2>6. \/ tab' = tab /\ task' = task
        \/ tab' = Disconnected(tab, old) /\ task' = CutTask(task, old)
    BY <2>1
  <2> HIDE DEF old, movers
  <2> QED
    BY <1>2, <2>2, <2>4, <2>5, <2>6, MovedKeeps
<1> QED
  BY <1>3, <1>4

LEMMA ServiceRemovedKeeps ==
    ASSUME RegistryInv, ServiceRemoved
    PROVE  RegistryInv'
<1> DEFINE u == mdns.url
           at == {c \in Clients : client[c].url = u}
           wanted == \E c \in at : client[c].known /\ ~client[c].retained
           cut == IF wanted THEN asked ELSE Cut(u)
           Left(c) == IF c \notin at THEN client[c]
                      ELSE IF client[c].retained /\ ~client[c].up THEN NewClient
                      ELSE IF client[c].retained \/ ~client[c].known
                           THEN [client[c] EXCEPT !.url = NoUrl]
                      ELSE client[c]
<1>1. TypeInv /\ TaskInv /\ ConnInv /\ RegInv /\ mdns \in [url : Addresses, bye : SUBSET Urls]
      /\ asked \in Wishes
      /\ client \in [Clients -> ClientRecord]
  BY DEF RegistryInv, TypeInv
<1>2. u \in Urls /\ conn' = conn
      /\ mdns' = [url |-> NoUrl, bye |-> mdns.bye \ {u}]
      /\ tab' = (IF wanted THEN tab ELSE Disconnected(tab, u))
      /\ task' = (IF wanted THEN task ELSE CutTask(task, u))
      /\ asked' = [cut EXCEPT !.ended = @ \ {u}]
  BY <1>1 DEF ServiceRemoved, Addresses
<1>3. client' = [c \in Clients |-> Left(c)]
  BY DEF ServiceRemoved
<1>4. mdns' \in [url : Addresses, bye : SUBSET Urls]
  BY <1>1, <1>2 DEF Addresses
<1>5. cut \in Wishes
  BY <1>1, <1>2, CutAskedType
<1> HIDE DEF cut
<1>6. asked' \in Wishes
  BY <1>2, <1>5
<1>7. \A c \in Clients : Left(c) \in ClientRecord /\ Lessened(client[c], Left(c))
  <2> TAKE c \in Clients
  <2>1. client[c] \in ClientRecord /\ NoUrl \in Addresses
    BY <1>1 DEF Addresses
  <2>2. client[c].retained => client[c].conn = 0
    BY <1>1 DEF RegInv
  <2>3. Left(c) \in {client[c], NewClient, [client[c] EXCEPT !.url = NoUrl]}
        /\ (Left(c) = NewClient => client[c] = NewClient \/ client[c].retained \/ [client[c] EXCEPT !.url = NoUrl] = NewClient)
    OBVIOUS
  <2>4. CASE Left(c) = [client[c] EXCEPT !.url = NoUrl]
    BY <2>1, <2>4 DEF ClientRecord, Lessened
  <2>5. CASE Left(c) = client[c]
    BY <2>1, <2>5 DEF Lessened
  <2>6. CASE Left(c) = NewClient /\ client[c].retained
    BY <2>2, <2>6, NewClientType DEF Lessened
  <2> QED
    BY <2>3, <2>4, <2>5, <2>6
<1> HIDE DEF Left
<1>8. client' \in [Clients -> ClientRecord] /\ \A c \in Clients : Lessened(client[c], client'[c])
  BY <1>3, <1>7
<1>9. RegInv'
  BY <1>1, <1>2, <1>8, RegInvKept
<1>10. \/ tab' = tab /\ task' = task
       \/ tab' = Disconnected(tab, u) /\ task' = CutTask(task, u)
  BY <1>2
<1> HIDE DEF u, wanted
<1> QED
  BY <1>2, <1>4, <1>6, <1>8, <1>9, <1>10, MovedKeeps

-----------------------------------------------------------------------------

LEMMA InitSound == Init => RegistryInv
<1> SUFFICES ASSUME Init PROVE RegistryInv
  OBVIOUS
<1>1. NewTask \in TaskRecord /\ NewTask.pc = "none" /\ NewTask.url = NoUrl /\ ~NewTask.cut /\ ~NewTask.first
  BY DEF NewTask, TaskRecord, Addresses
<1>2. NewConn.pc = "none" /\ NewConn.task = 0 /\ NewConn.peer = NoOne
  BY DEF NewConn
<1>3. NewClient.conn = 0 /\ ~NewClient.up /\ ~NewClient.timer /\ ~NewClient.retained
      /\ ~NewClient.known /\ NewClient.url = NoUrl
  BY DEF NewClient
<1>4. NewTables \in Tables /\ \A u \in Urls : NewTables.task[u] = 0 /\ NewTables.dial[u] = 0
  <2>1. 0 \in 0..MaxTasks /\ 0 \in 0..MaxConns
    BY DialAssumption
  <2> QED
    BY <2>1 DEF NewTables, Tables
<1>5. /\ tab = NewTables /\ task = [t \in TaskIds |-> NewTask] /\ conn = [k \in ConnIds |-> NewConn]
      /\ client = [c \in Clients |-> NewClient] /\ mdns = [url |-> NoUrl, bye |-> {}]
      /\ asked = [dial |-> {}, cut |-> {}, ended |-> {}, beside |-> {}]
  BY DEF Init
<1>6. TypeInv
  BY <1>1, <1>4, <1>5, NewConnType, NewClientType DEF TypeInv, Addresses
<1>7. TaskInv
  BY <1>1, <1>4, <1>5 DEF TaskInv
<1>8. ConnInv
  BY <1>2, <1>4, <1>5 DEF ConnInv
<1>9. RegInv
  BY <1>2, <1>3, <1>5 DEF RegInv, OneCurrent, NoLingering, OneDevicePerUrl
<1> QED
  BY <1>6, <1>7, <1>8, <1>9 DEF RegistryInv

LEMMA NextSound == RegistryInv /\ [Next]_vars => RegistryInv'
<1> SUFFICES ASSUME RegistryInv, [Next]_vars PROVE RegistryInv'
  OBVIOUS
<1>1. ASSUME NEW u \in Urls, ConnectToClient(u, TRUE) PROVE RegistryInv'
  BY <1>1, ConnectToClientKeeps
<1>2. CASE UNCHANGED vars
  <2>1. tab' = tab /\ task' = task /\ conn' = conn /\ client' = client /\ mdns' = mdns /\ asked' = asked
    BY <1>2 DEF vars
  <2>2. TypeInv /\ TaskInv /\ ConnInv /\ RegInv
    BY DEF RegistryInv
  <2>3. TypeInv' /\ TaskInv'
    BY <2>1, <2>2 DEF TypeInv, TaskInv
  <2>4. ConnInv'
    BY <2>1, <2>2, ConnInvKept
  <2>5. RegInv'
    BY <2>1, <2>2, SameClients, RegInvKept
  <2> QED
    BY <2>3, <2>4, <2>5 DEF RegistryInv
<1>3. CASE Next
  <2>1. CASE \E u \in Urls : ConnectAndWait(u)
    BY <2>1, ConnectAndWaitKeeps
  <2>2. CASE \E c \in Clients : ReclaimClient(c)
    BY <2>2, ReclaimClientKeeps
  <2>3. CASE \E u \in Urls : DisconnectFromClient(u)
    BY <2>3, DisconnectKeeps
  <2>4. CASE \E c \in Clients : ExpireReclaim(c)
    BY <2>4, ExpireReclaimKeeps
  <2>5. CASE \E c \in Clients : DoCleanup(c)
    BY <2>5, DoCleanupKeeps
  <2>6. CASE \E t \in TaskIds : BeginAttempt(t)
    BY <2>6, BeginAttemptKeeps
  <2>7. CASE \E t \in TaskIds : Connected(t)
    BY <2>7, ConnectedKeeps
  <2>8. CASE \E t \in TaskIds : ConnectFails(t)
    BY <2>8, ConnectFailsKeeps
  <2>9. CASE \E t \in TaskIds : SessionEnds(t)
    BY <2>9, SessionEndsKeeps
  <2>10. CASE \E t \in TaskIds : TaskCancelled(t)
    BY <2>10, TaskCancelledKeeps
  <2>11. CASE Incoming
    BY <2>11, IncomingKeeps
  <2>12. CASE \E k \in ConnIds, c \in Clients : Attach(k, c)
    BY <2>12, AttachKeeps
  <2>13. CASE \E k \in ConnIds : Activate(k)
    BY <2>13, ActivateKeeps
  <2>14. CASE \E k \in ConnIds : MarkConnected(k)
    BY <2>14, MarkConnectedKeeps
  <2>15. CASE \E k \in ConnIds, r \in Reasons : BeginClose(k, r)
    BY <2>15, BeginCloseKeeps
  <2>16. CASE \E k \in ConnIds : CloseDone(k)
    BY <2>16, CloseDoneKeeps
  <2>17. CASE \E u \in Urls, b \in BOOLEAN : ServiceAnnounced(u, b)
    BY <2>17, ServiceAnnouncedKeeps
  <2>18. CASE \E u \in Urls : ServiceMoved(u)
    BY <2>18, ServiceMovedKeeps
  <2>19. CASE ServiceRemoved
    BY <2>19, ServiceRemovedKeeps
  <2> QED
    BY <1>1, <1>3, <2>1, <2>2, <2>3, <2>4, <2>5, <2>6, <2>7, <2>8, <2>9, <2>10, <2>11, <2>12,
       <2>13, <2>14, <2>15, <2>16, <2>17, <2>18, <2>19, Zenon DEF Next
<1> QED
  BY <1>2, <1>3

\* RegistryInv, what the connections, the devices and the registry say of one another, is inductive:
\* every handler of server.py and client.py keeps it.
THEOREM RegistryInvHolds == Spec => []RegistryInv
BY InitSound, NextSound, PTL DEF Spec

\* The registry stays sound whatever the devices, the tasks, mDNS and the application do: a
\* connection that serves a device is the one the registry has, the registry has none that is
\* gone, no device lingers, and an address belongs to one device (attach_connection,
\* detach_connection, register_client_url).
THEOREM RegistryIsSound == Spec => []RegistrySound
<1>1. RegistryInv => RegistrySound
  <2> SUFFICES ASSUME RegistryInv PROVE RegistrySound
    OBVIOUS
  <2>1. TypeOK
    <3>1. task \in [TaskIds -> TaskRecord] /\ conn \in [ConnIds -> ConnRecord]
      BY DEF RegistryInv, TypeInv
    <3> QED
      BY <3>1 DEF RegistryInv, TaskInv, ConnInv, TypeOK, TaskRecord, ConnRecord
  <2> QED
    BY <2>1 DEF RegistryInv, RegInv, RegistrySound
<1> QED
  BY <1>1, RegistryInvHolds, PTL

-----------------------------------------------------------------------------
(* Dials are accounted for, but for the addresses dialed beside a task that is not over.   *)

\* An address has one task, cancelled or not, and the table has the one that was not.
OneTask ==
    /\ \A s, t \in TaskIds :
          (task[s].url = task[t].url /\ task[s].url # NoUrl /\ task[s].url \notin asked.beside) => s = t
    /\ OneTaskPerUrl

\* Somebody asked for what a task does, and a cancelled task leaves no waiter who was not told.
TaskAsked ==
    \A t \in TaskIds :
        /\ (task[t].url # NoUrl /\ ~task[t].cut /\ task[t].url \notin asked.beside) =>
              task[t].url \in asked.dial
        /\ task[t].cut => (task[t].url \notin tab.waiters \/ task[t].url \in asked.cut)

\* How far a task is.
TaskBegun ==
    \A t \in TaskIds :
        /\ task[t].pc = "session" => task[t].first
        /\ task[t].pc = "new" => ~task[t].first

\* What the tables have of a task and of its connections by then.
TaskStages ==
    \A t \in TaskIds : task[t].url \notin asked.beside =>
        /\ (task[t].url # NoUrl /\ ~task[t].cut /\ task[t].first) =>
              (task[t].url \in tab.succeeded \/ task[t].url \in tab.redial)
        /\ task[t].pc = "connecting" => tab.dial[task[t].url] = 0
        /\ (task[t].pc = "sleep" /\ task[t].first /\ tab.dial[task[t].url] # 0) =>
              ShouldRetry(tab.dial[task[t].url])
        /\ task[t].pc = "session" =>
              /\ tab.dial[task[t].url] # 0
              /\ conn[tab.dial[task[t].url]].task = t
              /\ \A j \in ConnIds : conn[j].task = t => j <= tab.dial[task[t].url]

\* A redial is noted only while the last connection closes for good, and only while a task that
\* began is there to take the note away.
RedialNoted ==
    \A u \in tab.redial : u \notin asked.beside => Disconnecting(tab.dial[u]) /\ ~ShouldRetry(tab.dial[u])
RedialHeld == \A u \in tab.redial : \E t \in TaskIds : task[t].url = u /\ task[t].pc # "new"

\* A client that announces itself at the address where it ended its session for good is not
\* taken for one that wants to be dialed: its goodbye is noted, or still to be read off the
\* connection.
EndedNoted ==
    mdns.url \in asked.ended =>
        \/ mdns.url \in mdns.bye
        \/ LET k == tab.dial[mdns.url]
           IN  /\ mdns.url \notin asked.beside /\ mdns.url \notin tab.redial
               /\ Disconnecting(k) /\ conn[k].bye \in NoRedial /\ conn[k].closing
               /\ task[conn[k].task].pc = "session" /\ ~task[conn[k].task].cut

\* Nobody is promised an answer at an address dialed beside a task that was not over.
BesideCut == asked.beside \subseteq asked.cut

AccountInv ==
    /\ OneTask /\ TaskAsked /\ TaskBegun /\ TaskStages /\ RedialNoted /\ RedialHeld /\ WaitersServed
    /\ EndedNoted /\ BesideCut

\* What a connection may do as long as its task holds on to it.
Onward(old, new) ==
    /\ new.task = old.task
    /\ (old.task # 0 /\ old.pc = "gone") => new = old
    /\ (old.task # 0 /\ old.pc = "closing") =>
          /\ new.pc \in {"closing", "gone"} /\ new.bye = old.bye /\ new.active = old.active
          /\ old.closing => new.closing

LEMMA DialFacts ==
    ASSUME RegistryInv, NEW u \in Urls, tab.dial[u] # 0
    PROVE  /\ tab.dial[u] \in ConnIds /\ conn[tab.dial[u]].url = u
           /\ conn[tab.dial[u]].task \in TaskIds /\ conn[tab.dial[u]].task # 0
           /\ task[conn[tab.dial[u]].task].url = u
<1>1. tab.dial[u] \in ConnIds
  BY DEF RegistryInv, TypeInv, Tables, ConnIds
<1>2. conn[tab.dial[u]].url = u /\ conn[tab.dial[u]].task # 0
  BY DEF RegistryInv, ConnInv
<1>3. conn[tab.dial[u]].task \in TaskIds
  BY <1>1, <1>2 DEF RegistryInv, TypeInv, ConnRecord, TaskIds
<1> QED
  BY <1>1, <1>2, <1>3 DEF RegistryInv, ConnInv

LEMMA TaskFacts ==
    ASSUME RegistryInv, NEW t \in TaskIds
    PROVE  /\ t # 0
           /\ task[t].pc \in {"none", "done"} => (task[t].url = NoUrl /\ ~task[t].cut /\ ~task[t].first)
           /\ task[t].pc \notin {"none", "done"} => (task[t].url \in Urls /\ task[t].url # NoUrl)
BY DialAssumption DEF RegistryInv, TaskInv, TaskIds

\* A step that starts no task and moves none on: connections run their course, and tasks may
\* be cancelled.
LEMMA QuietStep ==
    ASSUME RegistryInv, OneTask, TaskAsked, TaskBegun, TaskStages, RedialNoted, RedialHeld, WaitersServed,
           asked'.beside = asked.beside,
           \A k \in ConnIds : Onward(conn[k], conn'[k]),
           tab'.dial = tab.dial, tab'.redial = tab.redial, tab'.waiters = tab.waiters,
           tab' \in Tables,
           \A u \in asked.cut : u \in asked'.cut,
           \A t \in TaskIds :
               /\ task'[t].pc = task[t].pc /\ task'[t].url = task[t].url
               /\ task'[t].first = task[t].first /\ (task[t].cut => task'[t].cut)
               /\ (task[t].url # NoUrl /\ ~task'[t].cut /\ task[t].url \notin asked.beside) =>
                    /\ task[t].url \in asked.dial => task[t].url \in asked'.dial
                    /\ task[t].url \in tab.succeeded => task[t].url \in tab'.succeeded
                    /\ tab'.task[task[t].url] = tab.task[task[t].url]
               /\ (task'[t].cut /\ ~task[t].cut) =>
                    (task[t].url \in tab.waiters => task[t].url \in asked'.cut)
    PROVE  OneTask' /\ TaskAsked' /\ TaskBegun' /\ TaskStages' /\ RedialNoted' /\ RedialHeld' /\ WaitersServed'
<1>1. OneTask'
  <2>1. \A s, t \in TaskIds : (task'[s].url = task'[t].url /\ task'[s].url # NoUrl /\ task'[s].url \notin asked.beside) => s = t
    BY DEF OneTask
  <2>2. OneTaskPerUrl'
    BY TaskFacts DEF OneTask, OneTaskPerUrl
  <2> QED
    BY <2>1, <2>2 DEF OneTask
<1>2. TaskAsked'
  BY DEF TaskAsked
<1>3. TaskStages'
  <2> SUFFICES ASSUME NEW t \in TaskIds, task[t].url \notin asked.beside
               PROVE  /\ (task'[t].url # NoUrl /\ ~task'[t].cut /\ task'[t].first) =>
                            (task'[t].url \in tab'.succeeded \/ task'[t].url \in tab'.redial)
                      /\ task'[t].pc = "connecting" => tab'.dial[task'[t].url] = 0
                      /\ (task'[t].pc = "sleep" /\ task'[t].first /\ tab'.dial[task'[t].url] # 0) =>
                            ShouldRetry(tab.dial[task[t].url])'
                      /\ task'[t].pc = "session" =>
                            /\ tab'.dial[task'[t].url] # 0
                            /\ conn'[tab'.dial[task'[t].url]].task = t
                            /\ \A j \in ConnIds : conn'[j].task = t => j <= tab'.dial[task'[t].url]
    BY DEF TaskStages
  <2>1. /\ (task'[t].url # NoUrl /\ ~task'[t].cut /\ task'[t].first) =>
              (task'[t].url \in tab'.succeeded \/ task'[t].url \in tab'.redial)
        /\ task'[t].pc = "connecting" => tab'.dial[task'[t].url] = 0
    BY DEF TaskStages
  <2>2. ASSUME task'[t].pc = "sleep", task'[t].first, tab'.dial[task'[t].url] # 0
        PROVE  ShouldRetry(tab.dial[task[t].url])'
    <3> DEFINE u == task[t].url
               k == tab.dial[u]
    <3>1. u \in Urls /\ u # NoUrl /\ k # 0
      BY <2>2, TaskFacts
    <3>2. k \in ConnIds /\ conn[k].task \in TaskIds /\ conn[k].task # 0 /\ task[conn[k].task].url = u
      BY <3>1, DialFacts
    <3>3. conn[k].task = t
      BY <3>1, <3>2 DEF OneTask
    <3>4. conn[k].pc = "gone"
      BY <2>2, <3>2, <3>3 DEF RegistryInv, ConnInv
    <3>5. conn'[k] = conn[k]
      BY <3>2, <3>4 DEF Onward
    <3>6. ShouldRetry(k)
      BY <2>2 DEF TaskStages
    <3>7. k' = k
      OBVIOUS
    <3> QED
      BY <3>5, <3>6, <3>7 DEF ShouldRetry
  <2>3. ASSUME task'[t].pc = "session"
        PROVE  /\ tab'.dial[task'[t].url] # 0
               /\ conn'[tab'.dial[task'[t].url]].task = t
               /\ \A j \in ConnIds : conn'[j].task = t => j <= tab'.dial[task'[t].url]
    <3>1. \A j \in ConnIds : conn'[j].task = conn[j].task
      BY DEF Onward
    <3>2. task[t].url \in Urls /\ tab.dial[task[t].url] # 0
      BY <2>3, TaskFacts DEF TaskStages
    <3>3. tab.dial[task[t].url] \in ConnIds
      BY <3>2, DialFacts
    <3> QED
      BY <2>3, <3>1, <3>3 DEF TaskStages
  <2> QED
    BY <2>1, <2>2, <2>3
<1>4. RedialNoted'
  <2> DEFINE ForGood(k, cn) == /\ k # 0 /\ cn[k].pc \in {"closing", "gone"}
                             /\ ~ (/\ ~cn[k].closing
                                   /\ IF cn[k].bye = "none" THEN cn[k].active # "other" ELSE cn[k].bye = "restart")
  <2>1. \A u \in tab.redial : u \notin asked.beside => ForGood(tab.dial[u], conn)
    BY DEF RedialNoted, Disconnecting, ShouldRetry
  <2>2. ASSUME NEW u \in tab.redial, u \notin asked.beside PROVE ForGood(tab.dial[u], conn')
    <3>1. u \in Urls /\ tab.dial[u] # 0
      BY <2>1, <2>2 DEF RegistryInv, TypeInv, Tables
    <3>2. tab.dial[u] \in ConnIds /\ conn[tab.dial[u]].task # 0
      BY <3>1, DialFacts
    <3> QED
      BY <2>1, <2>2, <3>2 DEF Onward
  <2>3. \A u \in tab'.redial : u \notin asked.beside => ForGood(tab'.dial[u], conn')
    BY <2>2
  <2> QED
    BY <2>3 DEF RedialNoted, Disconnecting, ShouldRetry
<1>5. WaitersServed'
  BY DEF WaitersServed
<1>6. TaskBegun' /\ RedialHeld'
  BY DEF TaskBegun, RedialHeld
<1> QED
  BY <1>1, <1>2, <1>3, <1>4, <1>5, <1>6

LEMMA EndedQuiet ==
    ASSUME RegistryInv, EndedNoted, mdns' = mdns, asked'.beside = asked.beside,
           \A k \in ConnIds : Onward(conn[k], conn'[k]),
           tab'.dial = tab.dial, tab'.redial = tab.redial,
           \A u \in asked'.ended : u \in asked.ended,
           \A t \in TaskIds :
               /\ task'[t].pc = task[t].pc
               /\ (task'[t].cut /\ ~task[t].cut) => task[t].url \notin asked'.ended
    PROVE  EndedNoted'
<1> DEFINE u == mdns.url
           k == tab.dial[u]
<1> SUFFICES ASSUME u \in asked'.ended, u \notin mdns.bye
             PROVE  /\ u \notin asked.beside /\ u \notin tab'.redial
                    /\ k # 0 /\ conn'[k].pc \in {"closing", "gone"}
                    /\ conn'[k].bye \in NoRedial /\ conn'[k].closing
                    /\ task'[conn'[k].task].pc = "session" /\ ~task'[conn'[k].task].cut
  BY DEF EndedNoted, Disconnecting
<1>1. u \in Urls /\ u \in asked.ended
  BY DEF RegistryInv, TypeInv
<1>2. /\ u \notin asked.beside /\ u \notin tab.redial /\ k # 0 /\ conn[k].pc \in {"closing", "gone"}
      /\ conn[k].bye \in NoRedial /\ conn[k].closing
      /\ task[conn[k].task].pc = "session" /\ ~task[conn[k].task].cut
  BY <1>1 DEF EndedNoted, Disconnecting
<1>3. k \in ConnIds /\ conn[k].task \in TaskIds /\ conn[k].task # 0 /\ task[conn[k].task].url = u
  BY <1>1, <1>2, DialFacts
<1>4. /\ conn'[k].task = conn[k].task /\ conn'[k].pc \in {"closing", "gone"}
      /\ conn'[k].bye = conn[k].bye /\ conn'[k].closing
  BY <1>2, <1>3 DEF Onward
<1> QED
  BY <1>1, <1>2, <1>3, <1>4

\* Cancelling the task of an address, as a quiet step sees it.
LEMMA CutQuiet ==
    ASSUME RegistryInv, OneTask, NEW u \in Urls, NEW tb \in Tables,
           tb.task = tab.task, tb.dial = tab.dial, tb.redial = tab.redial,
           tb.waiters = tab.waiters, tb.succeeded = tab.succeeded,
           tab' = Disconnected(tb, u), task' = CutTask(task, u),
           asked'.dial = Cut(u).dial, asked'.cut = Cut(u).cut, asked'.beside = Cut(u).beside
    PROVE  /\ tab' \in Tables
           /\ tab'.dial = tab.dial /\ tab'.redial = tab.redial /\ tab'.waiters = tab.waiters
           /\ asked'.beside = asked.beside /\ \A v \in asked.cut : v \in asked'.cut
           /\ \A t \in TaskIds :
               /\ task'[t].pc = task[t].pc /\ task'[t].url = task[t].url
               /\ task'[t].first = task[t].first /\ (task[t].cut => task'[t].cut)
               /\ (task[t].url # NoUrl /\ ~task'[t].cut /\ task[t].url \notin asked.beside) =>
                    /\ task[t].url \in asked.dial => task[t].url \in asked'.dial
                    /\ task[t].url \in tab.succeeded => task[t].url \in tab'.succeeded
                    /\ tab'.task[task[t].url] = tab.task[task[t].url]
               /\ (task'[t].cut /\ ~task[t].cut) =>
                    (task[t].url \in tab.waiters => task[t].url \in asked'.cut)
               /\ (task'[t].cut /\ ~task[t].cut) => task[t].url = u
<1>1. tab' \in Tables
  <2>1. TypeInv /\ TaskInv
    BY DEF RegistryInv
  <2> QED
    BY <2>1, CutType
<1>2. /\ tab'.dial = tab.dial /\ tab'.redial = tab.redial /\ tab'.waiters = tab.waiters
      /\ tab'.task = [tab.task EXCEPT ![u] = 0] /\ tab'.succeeded = tab.succeeded \ {u}
  BY DEF Disconnected, Tables
<1>3. asked \in Wishes /\ tab \in Tables
      /\ task \in [TaskIds -> TaskRecord]
  BY DEF RegistryInv, TypeInv
<1>4. asked'.dial = asked.dial \ {u} /\ asked'.cut = asked.cut \cup ({u} \cap tab.waiters)
      /\ asked'.beside = asked.beside
  BY <1>3 DEF Cut
<1>5. \A t \in TaskIds :
        /\ task'[t].pc = task[t].pc /\ task'[t].url = task[t].url /\ task'[t].first = task[t].first
        /\ task'[t].cut = (task[t].cut \/ t = tab.task[u])
  <2>1. CASE tab.task[u] = 0
    BY <2>1, TaskFacts, <1>3 DEF CutTask, TaskRecord
  <2>2. CASE tab.task[u] # 0
    <3> DEFINE x == tab.task[u]
               new == [task[x] EXCEPT !.cut = TRUE]
    <3>1. x \in TaskIds
      BY <1>3, <2>2 DEF Tables, TaskIds
    <3>2. task[x] \in TaskRecord
      BY <1>3, <3>1
    <3>3. task' = [task EXCEPT ![x] = new]
      BY <2>2 DEF CutTask
    <3>4. new.pc = task[x].pc /\ new.url = task[x].url /\ new.first = task[x].first /\ new.cut = TRUE
      BY <3>2 DEF TaskRecord
    <3>5. \A t \in TaskIds : task[t].cut \in BOOLEAN
      BY <1>3 DEF TaskRecord
    <3> HIDE DEF new
    <3> QED
      BY <1>3, <3>3, <3>4, <3>5
  <2> QED
    BY <2>1, <2>2
<1>6. \A t \in TaskIds : t = tab.task[u] => task[t].url = u
  BY TaskFacts DEF RegistryInv, TaskInv
<1>7. \A t \in TaskIds : (task[t].url = u /\ ~task[t].cut /\ u \notin asked.beside) => t = tab.task[u]
  <2> TAKE t \in TaskIds
  <2>1. (task[t].url = u) => task[t].pc \notin {"none", "done"}
    BY TaskFacts, DialAssumption
  <2> QED
    BY <2>1 DEF OneTask, OneTaskPerUrl
<1>8. \A t \in TaskIds : (task[t].url # NoUrl /\ ~task'[t].cut /\ task[t].url \notin asked.beside) =>
        task[t].url # u /\ tab'.task[task[t].url] = tab.task[task[t].url]
  <2> TAKE t \in TaskIds
  <2> HAVE task[t].url # NoUrl /\ ~task'[t].cut /\ task[t].url \notin asked.beside
  <2>1. task[t].url # u
    BY <1>5, <1>7
  <2>2. task[t].url \in Urls
    BY TaskFacts
  <2> QED
    BY <1>2, <1>3, <2>1, <2>2 DEF Tables
<1> QED
  BY <1>1, <1>2, <1>4, <1>5, <1>6, <1>8

-----------------------------------------------------------------------------

LEMMA ConnStays == \A k \in ConnIds : conn'[k] = conn[k] => Onward(conn[k], conn'[k])
BY DEF Onward

\* Nothing the account is about changes.
LEMMA IdleAccount ==
    ASSUME AccountInv, tab' = tab, task' = task, conn' = conn, mdns' = mdns, asked' = asked
    PROVE  AccountInv'
BY DEF AccountInv, OneTask, OneTaskPerUrl, TaskAsked, TaskBegun, TaskStages, RedialNoted, RedialHeld, WaitersServed,
       EndedNoted, BesideCut, Disconnecting, ShouldRetry

\* The task of an address is cancelled.
LEMMA CutAccount ==
    ASSUME RegistryInv, AccountInv, NEW u \in Urls, NEW tb \in Tables,
           tb.task = tab.task, tb.dial = tab.dial, tb.redial = tab.redial,
           tb.waiters = tab.waiters, tb.succeeded = tab.succeeded,
           tab' = Disconnected(tb, u), task' = CutTask(task, u),
           asked'.dial = Cut(u).dial, asked'.cut = Cut(u).cut, asked'.beside = Cut(u).beside,
           \A k \in ConnIds : Onward(conn[k], conn'[k])
    PROVE  /\ OneTask' /\ TaskAsked' /\ TaskBegun' /\ TaskStages' /\ RedialNoted' /\ RedialHeld' /\ WaitersServed'
           /\ BesideCut'
           /\ (asked'.ended = asked.ended \ {u} /\ mdns' = mdns) => EndedNoted'
<1>1. OneTask /\ TaskAsked /\ TaskBegun /\ TaskStages /\ RedialNoted /\ RedialHeld /\ WaitersServed /\ EndedNoted
      /\ BesideCut
  BY DEF AccountInv
<1>2. /\ tab' \in Tables
      /\ tab'.dial = tab.dial /\ tab'.redial = tab.redial /\ tab'.waiters = tab.waiters
      /\ asked'.beside = asked.beside /\ \A v \in asked.cut : v \in asked'.cut
  BY <1>1, CutQuiet
<1>3. \A t \in TaskIds :
               /\ task'[t].pc = task[t].pc /\ task'[t].url = task[t].url
               /\ task'[t].first = task[t].first /\ (task[t].cut => task'[t].cut)
               /\ (task[t].url # NoUrl /\ ~task'[t].cut /\ task[t].url \notin asked.beside) =>
                    /\ task[t].url \in asked.dial => task[t].url \in asked'.dial
                    /\ task[t].url \in tab.succeeded => task[t].url \in tab'.succeeded
                    /\ tab'.task[task[t].url] = tab.task[task[t].url]
               /\ (task'[t].cut /\ ~task[t].cut) =>
                    (task[t].url \in tab.waiters => task[t].url \in asked'.cut)
               /\ (task'[t].cut /\ ~task[t].cut) => task[t].url = u
  BY <1>1, CutQuiet
<1>4. OneTask' /\ TaskAsked' /\ TaskBegun' /\ TaskStages' /\ RedialNoted' /\ RedialHeld' /\ WaitersServed'
  BY <1>1, <1>2, <1>3, QuietStep
<1>5. ASSUME asked'.ended = asked.ended \ {u}, mdns' = mdns PROVE EndedNoted'
  BY <1>1, <1>2, <1>3, <1>5, EndedQuiet
<1>6. BesideCut'
  BY <1>1, <1>2 DEF BesideCut
<1> QED
  BY <1>4, <1>5, <1>6

\* Connections run their course.
LEMMA OnwardAccount ==
    ASSUME RegistryInv, AccountInv, task' = task, tab' \in Tables,
           tab'.task = tab.task, tab'.dial = tab.dial, tab'.redial = tab.redial,
           tab'.waiters = tab.waiters, tab'.succeeded = tab.succeeded,
           asked'.dial = asked.dial, asked'.cut = asked.cut, asked'.beside = asked.beside,
           \A k \in ConnIds : Onward(conn[k], conn'[k])
    PROVE  /\ OneTask' /\ TaskAsked' /\ TaskBegun' /\ TaskStages' /\ RedialNoted' /\ RedialHeld' /\ WaitersServed'
           /\ BesideCut'
           /\ (asked' = asked /\ mdns' = mdns) => EndedNoted'
<1>1. OneTask /\ TaskAsked /\ TaskBegun /\ TaskStages /\ RedialNoted /\ RedialHeld /\ WaitersServed /\ EndedNoted
      /\ BesideCut
  BY DEF AccountInv
<1>2. OneTask' /\ TaskAsked' /\ TaskBegun' /\ TaskStages' /\ RedialNoted' /\ RedialHeld' /\ WaitersServed'
  BY <1>1, QuietStep
<1>3. ASSUME asked' = asked, mdns' = mdns PROVE EndedNoted'
  BY <1>1, <1>3, EndedQuiet
<1>4. BesideCut'
  BY <1>1 DEF BesideCut
<1> QED
  BY <1>2, <1>3, <1>4

LEMMA TaskTypes ==
    ASSUME RegistryInv
    PROVE  /\ tab \in Tables /\ task \in [TaskIds -> TaskRecord] /\ conn \in [ConnIds -> ConnRecord]
           /\ client \in [Clients -> ClientRecord] /\ mdns \in [url : Addresses, bye : SUBSET Urls]
           /\ asked \in Wishes
BY DEF RegistryInv, TypeInv

\* What the ghost notes of a dial: the wish, and whether another task of the address is there.
LEMMA AsksFacts ==
    ASSUME RegistryInv, NEW u \in Urls, Asks(u)
    PROVE  LET started == tab.task[u] = 0
               alone == \A t \in TaskIds : task[t].url # u
           IN  /\ asked'.dial = asked.dial \cup {u} /\ asked'.ended = asked.ended \ {u}
               /\ \A v \in Urls \ {u} : v \in asked'.beside <=> v \in asked.beside
               /\ ~started => (u \in asked'.beside <=> u \in asked.beside)
               /\ (u \in asked'.beside /\ u \notin asked.beside) => u \in asked'.cut
               /\ \A v \in asked.cut : v \in asked'.cut
               /\ (started /\ ~alone) => (u \in asked'.beside /\ u \in asked'.cut)
               /\ asked' \in Wishes
<1> DEFINE started == tab.task[u] = 0
           alone == \A t \in TaskIds : task[t].url # u
<1>1. asked \in Wishes /\ asked' \in Wishes
  BY TaskTypes, AsksType DEF RegistryInv
<1>2. CASE WindingDown(u)
  <2>1. asked' = [asked EXCEPT !.dial = @ \cup {u}, !.ended = @ \ {u}, !.beside = @ \cup {u}, !.cut = @ \cup {u}]
    BY <1>2 DEF Asks
  <2>2. started
    BY <1>2 DEF WindingDown
  <2> QED
    BY <1>1, <2>1, <2>2
<1>3. CASE ~WindingDown(u) /\ started
  <2>1. asked' = [asked EXCEPT !.dial = @ \cup {u}, !.ended = @ \ {u}, !.beside = @ \ {u}]
    BY <1>1, <1>3 DEF Asks
  <2>2. alone
    BY <1>3 DEF WindingDown
  <2> QED
    BY <1>1, <1>3, <2>1, <2>2
<1>4. CASE ~WindingDown(u) /\ ~started
  <2>1. asked' = [asked EXCEPT !.dial = @ \cup {u}, !.ended = @ \ {u}]
    BY <1>1, <1>4 DEF Asks
  <2> QED
    BY <1>1, <1>4, <2>1
<1> QED
  BY <1>2, <1>3, <1>4

\* An address is dialed: a task is started, or the one there is goes on.
LEMMA StartAccount ==
    ASSUME RegistryInv, AccountInv, NEW u \in Urls, NEW tb \in Tables,
           NEW playback, NEW persist,
           tb.task = tab.task, tb.dial = tab.dial,
           \A v \in tab.redial : v \in tb.redial,
           \A v \in tb.redial \ tab.redial : v = u /\ Disconnecting(tab.dial[u]) /\ ~ShouldRetry(tab.dial[u]),
           \A v \in tab.succeeded : v \in tb.succeeded \/ v \in tb.redial,
           \A v \in tb.waiters : v \in tab.waiters \/ (v = u /\ u \notin tb.succeeded),
           CanDial(u), StartDial(tb, u, playback, persist), conn' = conn, Asks(u),
           \/ mdns'.url = mdns.url /\ \A v \in mdns.bye : v = u \/ v \in mdns'.bye
           \/ mdns'.url = u
    PROVE  AccountInv'
<1>1. OneTask /\ TaskAsked /\ TaskBegun /\ TaskStages /\ RedialNoted /\ RedialHeld /\ WaitersServed /\ EndedNoted
      /\ BesideCut
  BY DEF AccountInv
<1>2. tab \in Tables /\ task \in [TaskIds -> TaskRecord] /\ u # NoUrl
      /\ asked \in Wishes
  BY TaskTypes, DialAssumption
<1> DEFINE tp == [[tb EXCEPT !.playback = IF playback THEN @ \cup {u} ELSE @ \ {u}]
                      EXCEPT !.persistent = IF persist THEN @ \cup {u} ELSE @]
           started == tab.task[u] = 0
           alone == \A t \in TaskIds : task[t].url # u
<1>3. tp \in Tables /\ tp.task = tab.task /\ tp.dial = tab.dial /\ tp.redial = tb.redial
      /\ tp.succeeded = tb.succeeded /\ tp.waiters = tb.waiters
  <2>1. [tb EXCEPT !.playback = IF playback THEN @ \cup {u} ELSE @ \ {u}] \in Tables
    BY DEF Tables
  <2> QED
    BY <2>1 DEF Tables
\* What the ghost notes: the wish, and whether another task of the address is there.
<1>4. /\ asked'.dial = asked.dial \cup {u} /\ asked'.ended = asked.ended \ {u}
      /\ \A v \in Urls \ {u} : v \in asked'.beside <=> v \in asked.beside
      /\ ~started => (u \in asked'.beside <=> u \in asked.beside)
      /\ (u \in asked'.beside /\ u \notin asked.beside) => u \in asked'.cut
      /\ \A v \in asked.cut : v \in asked'.cut
      /\ (started /\ ~alone) => (u \in asked'.beside /\ u \in asked'.cut)
  BY AsksFacts
\* The table's task was not cancelled, and it is the address's only one unless that is noted.
<1>5. ~started => /\ tab.task[u] \in TaskIds /\ task[tab.task[u]].url = u /\ ~task[tab.task[u]].cut
                  /\ u \notin asked.beside => \A t \in TaskIds : task[t].url = u => tab.task[u] = t
  <2>1. ~started => tab.task[u] \in TaskIds /\ task[tab.task[u]].url = u /\ ~task[tab.task[u]].cut
    BY <1>2 DEF Tables, TaskIds, RegistryInv, TaskInv
  <2> QED
    BY <1>1, <1>2, <2>1 DEF OneTask
<1>6. u \notin asked'.beside => alone \/ (~started /\ u \notin asked.beside)
  BY <1>4
\* The step itself.
<1>7. \/ /\ ~started /\ tab' = tp /\ task' = task
      \/ /\ started /\ NextTask \in TaskIds /\ task[NextTask].pc = "none"
         /\ tab' \in Tables /\ tab'.task = [tab.task EXCEPT ![u] = NextTask]
         /\ tab'.dial = tab.dial /\ tab'.redial = tb.redial /\ tab'.waiters = tb.waiters
         /\ tab'.succeeded = tb.succeeded \ {u}
         /\ \A t \in TaskIds : IF t = NextTask THEN task'[t] = [NewTask EXCEPT !.pc = "new", !.url = u]
                               ELSE task'[t] = task[t]
  <2>1. CASE ~started
    BY <2>1 DEF StartDial
  <2>2. CASE started
    <3>1. tab' = [tp EXCEPT !.task[u] = NextTask, !.succeeded = @ \ {u}]
          /\ task' = [task EXCEPT ![NextTask] = [NewTask EXCEPT !.pc = "new", !.url = u]]
      BY <2>2 DEF StartDial
    <3>2. Fresh # {}
      BY <2>2 DEF CanDial
    <3>3. NextTask \in TaskIds /\ task[NextTask].pc = "none"
      BY <3>2, NextTaskIsFresh
    <3>4. NextTask \in 0..MaxTasks
      BY <3>3 DEF TaskIds
    <3> HIDE DEF tp
    <3> QED
      BY <1>2, <1>3, <2>2, <3>1, <3>3, <3>4 DEF Tables
  <2> QED
    BY <2>1, <2>2
<1> HIDE DEF tp
<1>8. \A t \in TaskIds :
        \/ task'[t] = task[t]
        \/ /\ started /\ task[t].pc = "none" /\ tab'.task[u] = t
           /\ task'[t].pc = "new" /\ task'[t].url = u /\ ~task'[t].cut /\ ~task'[t].first
  <2>1. CASE ~started
    BY <1>7, <2>1, <1>2
  <2>2. CASE started
    <3> DEFINE new == [NewTask EXCEPT !.pc = "new", !.url = u]
    <3>1. new.pc = "new" /\ new.url = u /\ ~new.cut /\ ~new.first
      BY DEF NewTask
    <3>2. \A t \in TaskIds : IF t = NextTask THEN task'[t] = new ELSE task'[t] = task[t]
      BY <1>7, <2>2
    <3>3. tab'.task[u] = NextTask /\ task[NextTask].pc = "none"
      BY <1>2, <1>7, <2>2 DEF Tables
    <3> HIDE DEF new
    <3> QED
      BY <2>2, <3>1, <3>2, <3>3
  <2> QED
    BY <2>1, <2>2
<1>9. /\ tab'.dial = tab.dial /\ tab'.redial = tb.redial /\ tab'.waiters = tb.waiters
      /\ \A v \in Urls : tab'.task[v] = tab.task[v] \/ (v = u /\ started)
      /\ \A v \in tab.succeeded : v \in tab'.succeeded \/ v \in tab'.redial \/ (v = u /\ started)
      /\ (~started /\ u \notin tb.succeeded) => u \notin tab'.succeeded
  BY <1>2, <1>3, <1>7 DEF Tables
<1>10. \A t \in TaskIds : task[t].url # NoUrl => task'[t] = task[t]
  BY <1>8, TaskFacts
<1>11. OneTask'
  <2>1. ASSUME NEW s \in TaskIds, NEW t \in TaskIds, task'[s].url = task'[t].url,
               task'[s].url # NoUrl, task'[s].url \notin asked'.beside
        PROVE  s = t
    <3>1. CASE task'[s].url # u
      <4>1. task'[s] = task[s] /\ task'[t] = task[t]
        BY <1>8, <2>1, <3>1
      <4>2. task[s].url \in Urls
        BY <2>1, <4>1, TaskFacts
      <4> QED
        BY <1>1, <1>4, <2>1, <3>1, <4>1, <4>2 DEF OneTask
    <3>2. CASE task'[s].url = u /\ alone
      <4>1. started /\ tab'.task[u] = s /\ tab'.task[u] = t
        BY <1>8, <2>1, <3>2
      <4> QED
        BY <4>1
    <3>3. CASE task'[s].url = u /\ ~started /\ u \notin asked.beside
      BY <1>1, <1>7, <2>1, <3>3 DEF OneTask
    <3> QED
      BY <1>6, <2>1, <3>1, <3>2, <3>3
  <2>2. ASSUME NEW t \in TaskIds, task'[t].pc \notin {"none", "done"}, task'[t].url \notin asked'.beside,
               ~task'[t].cut
        PROVE  tab'.task[task'[t].url] = t
    <3>1. CASE task'[t] # task[t]
      BY <1>8, <3>1
    <3>2. CASE task'[t] = task[t]
      <4>1. task[t].url \in Urls
        BY <2>2, <3>2, TaskFacts
      <4>2. CASE task[t].url # u
        <5>1. tab.task[task[t].url] = t
          BY <1>1, <1>4, <2>2, <3>2, <4>1, <4>2 DEF OneTask, OneTaskPerUrl
        <5> QED
          BY <1>9, <3>2, <4>1, <4>2, <5>1
      <4>3. CASE task[t].url = u
        BY <1>5, <1>6, <1>9, <2>2, <3>2, <4>3
      <4> QED
        BY <4>2, <4>3
    <3> QED
      BY <3>1, <3>2
  <2>3. OneTaskPerUrl'
    <3>1. \A t \in TaskIds : task'[t].pc \notin {"none", "done"} => task'[t].url # NoUrl
      BY <1>2, <1>8, TaskFacts
    <3> QED
      BY <2>1, <2>2, <3>1 DEF OneTaskPerUrl
  <2> QED
    BY <2>1, <2>3 DEF OneTask
<1>12. TaskAsked'
  <2>1. ASSUME NEW t \in TaskIds, task'[t].url # NoUrl, ~task'[t].cut, task'[t].url \notin asked'.beside
        PROVE  task'[t].url \in asked'.dial
    <3>1. CASE task'[t].url = u
      BY <1>4, <3>1
    <3>2. CASE task'[t].url # u
      <4>1. task'[t] = task[t] /\ task[t].url \in Urls
        BY <1>8, <2>1, <3>2, TaskFacts
      <4> QED
        BY <1>1, <1>4, <2>1, <3>2, <4>1 DEF TaskAsked
    <3> QED
      BY <3>1, <3>2
  <2>2. ASSUME NEW t \in TaskIds, task'[t].cut, task'[t].url \in tab'.waiters
        PROVE  task'[t].url \in asked'.cut
    <3>1. task'[t] = task[t]
      BY <1>8, <2>2
    <3>2. CASE task[t].url \in tab.waiters
      BY <1>1, <1>4, <2>2, <3>1, <3>2 DEF TaskAsked
    <3>3. CASE task[t].url = u /\ started
      BY <1>4, <3>1, <3>3
    <3>4. CASE task[t].url = u /\ ~started
      <4>1. u \in asked.beside
        BY <1>5, <2>2, <3>1, <3>4
      <4> QED
        BY <1>1, <1>4, <3>1, <3>4, <4>1 DEF BesideCut
    <3> QED
      BY <1>9, <2>2, <3>1, <3>2, <3>3, <3>4
  <2> QED
    BY <2>1, <2>2 DEF TaskAsked
<1>13. TaskBegun' /\ TaskStages'
  <2>1. TaskBegun'
    BY <1>1, <1>8 DEF TaskBegun
  <2> SUFFICES ASSUME NEW t \in TaskIds, task'[t].url \notin asked'.beside
               PROVE  /\ (task'[t].url # NoUrl /\ ~task'[t].cut /\ task'[t].first) =>
                            (task'[t].url \in tab'.succeeded \/ task'[t].url \in tab'.redial)
                      /\ task'[t].pc = "connecting" => tab'.dial[task'[t].url] = 0
                      /\ (task'[t].pc = "sleep" /\ task'[t].first /\ tab'.dial[task'[t].url] # 0) =>
                            ShouldRetry(tab.dial[task'[t].url])
                      /\ task'[t].pc = "session" =>
                            /\ tab'.dial[task'[t].url] # 0
                            /\ conn'[tab'.dial[task'[t].url]].task = t
                            /\ \A j \in ConnIds : conn'[j].task = t => j <= tab'.dial[task'[t].url]
    BY <1>9, <2>1 DEF TaskStages, ShouldRetry
  <2>2. CASE task'[t] = task[t] /\ task[t].url = NoUrl
    BY <2>2, TaskFacts
  <2>3. CASE task'[t] = task[t] /\ task[t].url # NoUrl
    <3>1. task[t].url \in Urls
      BY <2>3, TaskFacts
    <3>2. task[t].url \notin asked.beside /\ ~(task[t].url = u /\ started)
      BY <1>4, <1>6, <2>3, <3>1
    <3>3. (~task[t].cut /\ task[t].first) =>
             (task[t].url \in tab'.succeeded \/ task[t].url \in tab'.redial)
      BY <1>1, <1>9, <2>3, <3>2 DEF TaskStages
    <3> QED
      BY <1>1, <1>9, <2>3, <3>2, <3>3 DEF TaskStages
  <2>4. CASE task'[t].pc = "new" /\ ~task'[t].first
    BY <2>4
  <2> QED
    BY <1>8, <2>2, <2>3, <2>4
<1>14. RedialNoted' /\ RedialHeld'
  <2>1. ASSUME NEW v \in tb.redial, v \notin asked'.beside
        PROVE  Disconnecting(tab.dial[v]) /\ ~ShouldRetry(tab.dial[v])
    <3>1. CASE v \in tab.redial
      <4>1. v \in Urls /\ ~(v = u /\ alone)
        BY <1>1, <1>2, <3>1 DEF RedialHeld, Tables
      <4>2. v \notin asked.beside
        BY <1>4, <1>6, <2>1, <4>1
      <4> QED
        BY <1>1, <3>1, <4>2 DEF RedialNoted
    <3>2. CASE v \notin tab.redial
      BY <3>2
    <3> QED
      BY <3>1, <3>2
  <2>2. ASSUME NEW v \in tb.redial
        PROVE  \E t \in TaskIds : task[t].url = v /\ task[t].pc # "new"
    <3>1. CASE v \in tab.redial
      BY <1>1, <3>1 DEF RedialHeld
    <3>2. CASE v \notin tab.redial
      <4>1. v = u /\ tab.dial[u] # 0
        BY <3>2 DEF Disconnecting
      <4>2. tab.dial[u] \in ConnIds /\ conn[tab.dial[u]].task \in TaskIds /\ conn[tab.dial[u]].task # 0
            /\ task[conn[tab.dial[u]].task].url = u
        BY <4>1, DialFacts
      <4> QED
        BY <4>1, <4>2 DEF RegistryInv, ConnInv
    <3> QED
      BY <3>1, <3>2
  <2>3. RedialNoted'
    BY <1>9, <2>1 DEF RedialNoted, Disconnecting, ShouldRetry
  <2>4. RedialHeld'
    <3> SUFFICES ASSUME NEW v \in tb.redial
                 PROVE  \E t \in TaskIds : task'[t].url = v /\ task'[t].pc # "new"
      BY <1>9 DEF RedialHeld
    <3>1. PICK t \in TaskIds : task[t].url = v /\ task[t].pc # "new"
      BY <2>2
    <3>2. v # NoUrl
      BY DialAssumption DEF Tables
    <3> QED
      BY <1>10, <3>1, <3>2
  <2> QED
    BY <2>3, <2>4
<1>15. WaitersServed'
  <2> SUFFICES ASSUME NEW v \in tab'.waiters, v \notin asked'.cut
               PROVE  \E t \in TaskIds : task'[t].url = v /\ task'[t].pc \notin {"none", "done"}
                              /\ (~task'[t].first \/ v \in tab'.redial)
    BY DEF WaitersServed
  <2>0. v \notin asked.cut /\ v \notin asked.beside
    BY <1>1, <1>4 DEF BesideCut
  <2>1. CASE v \in tab.waiters
    <3>1. PICK t \in TaskIds : task[t].url = v /\ task[t].pc \notin {"none", "done"}
                                 /\ (~task[t].first \/ v \in tab.redial)
      BY <1>1, <2>0, <2>1 DEF WaitersServed
    <3>2. task'[t] = task[t]
      BY <1>8, <3>1
    <3> QED
      BY <1>9, <3>1, <3>2
  <2>2. CASE v \notin tab.waiters
    <3>1. v = u /\ u \notin tb.succeeded
      BY <1>9, <2>2
    <3>2. CASE started
      <4>1. NextTask \in TaskIds /\ task'[NextTask].pc = "new" /\ task'[NextTask].url = u /\ ~task'[NextTask].first
        BY <1>7, <3>2 DEF NewTask
      <4> QED
        BY <3>1, <4>1
    <3>3. CASE ~started
      <4>1. tab.task[u] \in TaskIds /\ task[tab.task[u]].url = u /\ ~task[tab.task[u]].cut
        BY <1>5, <3>3
      <4>2. task[tab.task[u]].first => (u \in tab.succeeded \/ u \in tab.redial)
        BY <1>1, <1>2, <2>0, <3>1, <4>1 DEF TaskStages
      <4>3. ~task[tab.task[u]].first \/ u \in tab'.redial
        BY <1>9, <3>1, <4>2
      <4>4. task' = task
        BY <1>7, <3>3
      <4>5. task[tab.task[u]].pc \notin {"none", "done"}
        BY <1>2, <4>1, TaskFacts
      <4> QED
        BY <3>1, <4>1, <4>3, <4>4, <4>5
    <3> QED
      BY <3>2, <3>3
  <2> QED
    BY <2>1, <2>2
<1>16. EndedNoted'
  <2> SUFFICES ASSUME mdns'.url \in asked'.ended, mdns'.url \notin mdns'.bye
               PROVE  LET k == tab'.dial[mdns'.url]
                      IN  /\ mdns'.url \notin asked'.beside /\ mdns'.url \notin tab'.redial
                          /\ k # 0 /\ conn'[k].pc \in {"closing", "gone"}
                          /\ conn'[k].bye \in NoRedial /\ conn'[k].closing
                          /\ task'[conn'[k].task].pc = "session" /\ ~task'[conn'[k].task].cut
    BY DEF EndedNoted, Disconnecting
  <2> DEFINE v == mdns.url
             k == tab.dial[v]
  <2>1. mdns'.url = v /\ v # u /\ v \in asked.ended /\ v \notin mdns.bye /\ v \in Urls
    BY <1>2, <1>4
  <2>2. /\ v \notin asked.beside /\ v \notin tab.redial /\ k # 0 /\ conn[k].pc \in {"closing", "gone"}
        /\ conn[k].bye \in NoRedial /\ conn[k].closing
        /\ task[conn[k].task].pc = "session" /\ ~task[conn[k].task].cut
    BY <1>1, <2>1 DEF EndedNoted, Disconnecting
  <2>3. conn[k].task \in TaskIds
    BY <2>1, <2>2, DialFacts
  <2>4. task'[conn[k].task] = task[conn[k].task]
    BY <1>8, <2>2, <2>3
  <2>5. v \notin tab'.redial
    BY <1>9, <2>1, <2>2
  <2> QED
    BY <1>4, <1>9, <2>1, <2>2, <2>4, <2>5
<1>17. BesideCut'
  <2>1. asked'.beside \subseteq Urls
    BY <1>2 DEF Asks
  <2> QED
    BY <1>1, <1>4, <2>1 DEF BesideCut
<1> QED
  BY <1>11, <1>12, <1>13, <1>14, <1>15, <1>16, <1>17 DEF AccountInv

LEMMA RedialFacts ==
    ASSUME RegistryInv, NEW u \in Urls
    PROVE  LET r == RedialIfClosing(tab, u)
           IN  /\ r \in Tables /\ r.task = tab.task /\ r.dial = tab.dial /\ r.waiters = tab.waiters
               /\ \A v \in tab.redial : v \in r.redial
               /\ \A v \in r.redial \ tab.redial : v = u /\ Disconnecting(tab.dial[u]) /\ ~ShouldRetry(tab.dial[u])
               /\ \A v \in tab.succeeded : v \in r.succeeded \/ v \in r.redial
<1>1. tab \in Tables
  BY TaskTypes
<1>2. CASE Disconnecting(tab.dial[u]) /\ ~ShouldRetry(tab.dial[u])
  <2> DEFINE r == [tab EXCEPT !.redial = @ \cup {u}, !.succeeded = @ \ {u}]
  <2>1. RedialIfClosing(tab, u) = r
    BY <1>2 DEF RedialIfClosing
  <2>2. r \in Tables /\ r.task = tab.task /\ r.dial = tab.dial /\ r.waiters = tab.waiters
        /\ r.redial = tab.redial \cup {u} /\ r.succeeded = tab.succeeded \ {u}
    BY <1>1 DEF Tables
  <2> HIDE DEF r
  <2> QED
    BY <1>2, <2>1, <2>2
<1>3. CASE ~(Disconnecting(tab.dial[u]) /\ ~ShouldRetry(tab.dial[u]))
  BY <1>1, <1>3 DEF RedialIfClosing
<1> QED
  BY <1>2, <1>3

LEMMA ConnectToClientAccount ==
    ASSUME RegistryInv, AccountInv, NEW u \in Urls, NEW p \in BOOLEAN, ConnectToClient(u, p)
    PROVE  AccountInv'
<1> DEFINE tb == RedialIfClosing(tab, u)
<1>1. CanDial(u) /\ StartDial(tb, u, FALSE, p) /\ conn' = conn /\ Asks(u)
      /\ mdns' = [mdns EXCEPT !.bye = @ \ {u}]
  BY DEF ConnectToClient
<1>2. mdns'.url = mdns.url /\ \A v \in mdns.bye : v = u \/ v \in mdns'.bye
  BY <1>1, TaskTypes
<1>3. /\ tb \in Tables /\ tb.task = tab.task /\ tb.dial = tab.dial /\ tb.waiters = tab.waiters
      /\ \A v \in tab.redial : v \in tb.redial
      /\ \A v \in tb.redial \ tab.redial : v = u /\ Disconnecting(tab.dial[u]) /\ ~ShouldRetry(tab.dial[u])
      /\ \A v \in tab.succeeded : v \in tb.succeeded \/ v \in tb.redial
  BY RedialFacts
<1> HIDE DEF tb
<1>4. \A v \in tb.waiters : v \in tab.waiters \/ (v = u /\ u \notin tb.succeeded)
  BY <1>3
<1> QED
  BY <1>1, <1>2, <1>3, <1>4, StartAccount

LEMMA ReclaimClientAccount ==
    ASSUME RegistryInv, AccountInv, NEW c \in Clients, ReclaimClient(c)
    PROVE  AccountInv'
<1> DEFINE u == client[c].url
           tb == RedialIfClosing(tab, u)
<1>0. u \in Urls
  BY TaskTypes DEF ReclaimClient, ClientRecord, Addresses
<1>1. CanDial(u) /\ StartDial(tb, u, TRUE, FALSE) /\ conn' = conn /\ Asks(u)
      /\ mdns' = [mdns EXCEPT !.bye = @ \ {u}]
  BY DEF ReclaimClient
<1> HIDE DEF u
<1>2. mdns'.url = mdns.url /\ \A v \in mdns.bye : v = u \/ v \in mdns'.bye
  BY <1>1, TaskTypes
<1>3. /\ tb \in Tables /\ tb.task = tab.task /\ tb.dial = tab.dial /\ tb.waiters = tab.waiters
      /\ \A v \in tab.redial : v \in tb.redial
      /\ \A v \in tb.redial \ tab.redial : v = u /\ Disconnecting(tab.dial[u]) /\ ~ShouldRetry(tab.dial[u])
      /\ \A v \in tab.succeeded : v \in tb.succeeded \/ v \in tb.redial
  BY <1>0, RedialFacts
<1> HIDE DEF tb
<1>4. \A v \in tb.waiters : v \in tab.waiters \/ (v = u /\ u \notin tb.succeeded)
  BY <1>3
<1> QED
  BY <1>0, <1>1, <1>2, <1>3, <1>4, StartAccount

LEMMA ServiceAnnouncedAccount ==
    ASSUME RegistryInv, AccountInv, NEW u \in Urls, NEW b \in BOOLEAN, ServiceAnnounced(u, b)
    PROVE  AccountInv'
<1>1. CanDial(u) /\ StartDial(tab, u, u \in tab.playback, FALSE) /\ conn' = conn
      /\ mdns' = [url |-> u, bye |-> mdns.bye \ {u}]
  BY DEF ServiceAnnounced
\* The server does not take an announcement after a goodbye for a wish to be dialed.
<1>2. b => mdns.url \notin asked.ended
  <2> SUFFICES ASSUME b, mdns.url \in asked.ended PROVE FALSE
    OBVIOUS
  <2> DEFINE k == tab.dial[mdns.url]
  <2>1. ~SaidGoodbye(mdns.url)
    BY DEF ServiceAnnounced
  <2>2. /\ mdns.url \notin tab.redial /\ Disconnecting(k)
        /\ conn[k].bye \in NoRedial /\ conn[k].closing
    BY <2>1 DEF AccountInv, EndedNoted, SaidGoodbye
  <2>3. mdns.url # NoUrl
    BY TaskTypes, DialAssumption
  <2> QED
    BY <2>1, <2>2, <2>3 DEF SaidGoodbye, ClosingWithoutRedial, ShouldRetry, EndedWithoutRedial
<1>3. Asks(u)
  BY <1>2 DEF ServiceAnnounced
<1>4. mdns'.url = u /\ tab \in Tables
  BY <1>1, TaskTypes
<1> QED
  BY <1>1, <1>3, <1>4, StartAccount

LEMMA ConnectAndWaitAccount ==
    ASSUME RegistryInv, AccountInv, NEW u \in Urls, ConnectAndWait(u)
    PROVE  AccountInv'
<1> DEFINE tb == RedialIfClosing(tab, u)
           tw == [tb EXCEPT !.waiters = @ \cup {u}]
           td == [tb EXCEPT !.playback = @ \ {u}]
<1>1. CanDial(u) /\ conn' = conn /\ Asks(u) /\ mdns' = [mdns EXCEPT !.bye = @ \ {u}]
  BY DEF ConnectAndWait
<1>2. mdns'.url = mdns.url /\ \A v \in mdns.bye : v = u \/ v \in mdns'.bye
  BY <1>1, TaskTypes
<1>3. /\ tb \in Tables /\ tb.task = tab.task /\ tb.dial = tab.dial /\ tb.waiters = tab.waiters
      /\ \A v \in tab.redial : v \in tb.redial
      /\ \A v \in tb.redial \ tab.redial : v = u /\ Disconnecting(tab.dial[u]) /\ ~ShouldRetry(tab.dial[u])
      /\ \A v \in tab.succeeded : v \in tb.succeeded \/ v \in tb.redial
  BY RedialFacts
<1> DEFINE started == tab.task[u] = 0
           alone == \A t \in TaskIds : task[t].url # u
<1>4. /\ asked'.dial = asked.dial \cup {u} /\ asked'.ended = asked.ended \ {u}
      /\ \A v \in Urls \ {u} : v \in asked'.beside <=> v \in asked.beside
      /\ ~started => (u \in asked'.beside <=> u \in asked.beside)
      /\ (u \in asked'.beside /\ u \notin asked.beside) => u \in asked'.cut
      /\ \A v \in asked.cut : v \in asked'.cut
      /\ (started /\ ~alone) => (u \in asked'.beside /\ u \in asked'.cut)
      /\ asked' \in Wishes
  BY <1>1, AsksFacts
<1>5. \A v \in Urls : (v \in asked.beside /\ v \notin asked'.beside) => \A t \in TaskIds : task[t].url # v
  BY <1>4
<1>6. \/ u \in tb.succeeded /\ tab' = td /\ task' = task
      \/ u \notin tb.succeeded /\ StartDial(tw, u, FALSE, FALSE)
  BY DEF ConnectAndWait
<1> HIDE DEF tb
<1>7. /\ tw \in Tables /\ tw.task = tab.task /\ tw.dial = tab.dial /\ tw.waiters = tb.waiters \cup {u}
      /\ tw.redial = tb.redial /\ tw.succeeded = tb.succeeded
      /\ td \in Tables /\ td.task = tab.task /\ td.dial = tab.dial /\ td.waiters = tb.waiters
      /\ td.redial = tb.redial /\ td.succeeded = tb.succeeded
  BY <1>3 DEF Tables
<1> HIDE DEF tw, td
<1>8. CASE u \notin tb.succeeded /\ StartDial(tw, u, FALSE, FALSE)
  BY <1>1, <1>2, <1>3, <1>7, <1>8, StartAccount
<1>9. CASE u \in tb.succeeded /\ tab' = td /\ task' = task
  <2>1. OneTask /\ TaskAsked /\ TaskBegun /\ TaskStages /\ RedialNoted /\ RedialHeld /\ WaitersServed /\ EndedNoted
      /\ BesideCut
    BY DEF AccountInv
  <2>0. \A t \in TaskIds : task[t].url # NoUrl =>
           (task[t].url \notin asked'.beside => task[t].url \notin asked.beside)
    BY <1>5, TaskFacts
  <2>2. OneTask'
    <3>1. \A t \in TaskIds : task[t].pc \notin {"none", "done"} => task[t].url # NoUrl
      BY TaskFacts
    <3> QED
      BY <1>3, <1>7, <1>9, <2>1, <2>0, <3>1 DEF OneTask, OneTaskPerUrl
  <2>8. TaskAsked'
    BY <1>3, <1>4, <1>7, <1>9, <2>1, <2>0 DEF TaskAsked
  <2>3. TaskBegun' /\ TaskStages'
    <3>1. \A t \in TaskIds : task[t].url = NoUrl => (task[t].pc \in {"none", "done"} /\ ~task[t].first)
      BY TaskFacts
    <3> QED
      BY <1>1, <1>3, <1>7, <1>9, <2>1, <2>0, <3>1 DEF TaskBegun, TaskStages, ShouldRetry
  <2>4. RedialNoted' /\ RedialHeld'
    <3>1. \A v \in tb.redial : \E t \in TaskIds : task[t].url = v /\ task[t].pc # "new"
      <4> SUFFICES ASSUME NEW v \in tb.redial
                   PROVE  \E t \in TaskIds : task[t].url = v /\ task[t].pc # "new"
        OBVIOUS
      <4>1. CASE v \in tab.redial
        BY <2>1, <4>1 DEF RedialHeld
      <4>2. CASE v \notin tab.redial
        <5>1. v = u /\ tab.dial[u] # 0
          BY <1>3, <4>2 DEF Disconnecting
        <5>2. tab.dial[u] \in ConnIds /\ conn[tab.dial[u]].task \in TaskIds /\ conn[tab.dial[u]].task # 0
              /\ task[conn[tab.dial[u]].task].url = u
          BY <5>1, DialFacts
        <5> QED
          BY <5>1, <5>2 DEF RegistryInv, ConnInv
      <4> QED
        BY <4>1, <4>2
    <3>2. \A v \in tb.redial : v \in Urls
      BY <1>3 DEF Tables
    <3>3. \A v \in tb.redial : v \notin asked'.beside => v \notin asked.beside
      BY <1>5, <3>1, <3>2
    <3>4. \A v \in tb.redial : v \notin asked'.beside => Disconnecting(tab.dial[v]) /\ ~ShouldRetry(tab.dial[v])
      BY <1>3, <2>1, <3>3 DEF RedialNoted
    <3> QED
      BY <1>1, <1>3, <1>7, <1>9, <3>1, <3>4 DEF RedialNoted, RedialHeld, Disconnecting, ShouldRetry
  <2>5. WaitersServed'
    BY <1>3, <1>4, <1>7, <1>9, <2>1 DEF WaitersServed
  <2>6. EndedNoted'
    BY <1>1, <1>2, <1>3, <1>4, <1>7, <1>9, <2>1 DEF EndedNoted, Disconnecting
  <2>7. BesideCut'
    BY <1>4, <2>1 DEF BesideCut
  <2> QED
    BY <2>2, <2>8, <2>3, <2>4, <2>5, <2>6, <2>7 DEF AccountInv
<1> QED
  BY <1>6, <1>8, <1>9

-----------------------------------------------------------------------------

LEMMA DisconnectAccount ==
    ASSUME RegistryInv, AccountInv, NEW u \in Urls, DisconnectFromClient(u)
    PROVE  AccountInv'
<1>1. tab' = Disconnected(tab, u) /\ task' = CutTask(task, u) /\ asked' = Cut(u)
      /\ conn' = conn /\ mdns' = mdns
  BY DEF DisconnectFromClient
<1>2. \A k \in ConnIds : Onward(conn[k], conn'[k])
  BY <1>1, ConnStays
<1>3. asked'.ended = asked.ended \ {u} /\ tab \in Tables
  BY <1>1, TaskTypes DEF Cut
<1> QED
  BY <1>1, <1>2, <1>3, CutAccount DEF AccountInv

LEMMA AttachAccount ==
    ASSUME RegistryInv, AccountInv, NEW k \in ConnIds, NEW c \in Clients, Attach(k, c)
    PROVE  AccountInv'
<1> DEFINE u == conn[k].url
           old == client[c].url
           moved == u # NoUrl /\ old \notin {NoUrl, u}
           stranger == u # NoUrl /\ conn[k].want \notin {NoOne, c}
           tb == IF stranger THEN [tab EXCEPT !.playback = @ \ {u}] ELSE tab
           Turned(j) == IF j = k THEN [[conn[k] EXCEPT !.pc = "attached"] EXCEPT !.peer = c]
                        ELSE IF j = client[c].conn /\ conn[j].pc = "attached"
                        THEN [[conn[j] EXCEPT !.pc = "closing"] EXCEPT !.closing = TRUE]
                        ELSE IF j = client[c].conn THEN [conn[j] EXCEPT !.closing = TRUE]
                        ELSE conn[j]
<1>1. tab \in Tables /\ conn \in [ConnIds -> ConnRecord] /\ client[c] \in ClientRecord
      /\ asked \in Wishes
  BY TaskTypes
<1>2. conn[k].pc = "hello" /\ mdns' = mdns
      /\ tab' = (IF moved THEN Disconnected(tb, old) ELSE tb)
      /\ task' = (IF moved THEN CutTask(task, old) ELSE task)
      /\ asked' = (IF moved THEN Cut(old) ELSE asked)
  BY DEF Attach
<1>3. conn' = [j \in ConnIds |-> Turned(j)]
  BY <1>1 DEF Attach
<1>4. \A j \in ConnIds : Onward(conn[j], Turned(j))
  <2> TAKE j \in ConnIds
  <2>1. conn[j] \in ConnRecord
    BY <1>1
  <2>2. CASE j = k
    BY <1>2, <2>1, <2>2 DEF ConnRecord, Onward
  <2>3. CASE j # k /\ j = client[c].conn
    <3>1. conn[j].pc \in {"attached", "closing"}
      <4>1. j # 0
        BY DialAssumption DEF ConnIds
      <4> QED
        BY <2>3, <4>1 DEF RegistryInv, RegInv, OneCurrent
    <3>2. CASE conn[j].pc = "attached"
      BY <2>1, <2>3, <3>2 DEF ConnRecord, Onward
    <3>3. CASE conn[j].pc = "closing"
      BY <2>1, <2>3, <3>3 DEF ConnRecord, Onward
    <3> QED
      BY <3>1, <3>2, <3>3
  <2>4. CASE j # k /\ j # client[c].conn
    BY <2>4 DEF Onward
  <2> QED
    BY <2>2, <2>3, <2>4
<1> HIDE DEF Turned
<1>5. \A j \in ConnIds : Onward(conn[j], conn'[j])
  BY <1>3, <1>4
<1>6. /\ tb \in Tables /\ tb.task = tab.task /\ tb.dial = tab.dial /\ tb.redial = tab.redial
      /\ tb.waiters = tab.waiters /\ tb.succeeded = tab.succeeded
  BY <1>1 DEF Tables
<1> HIDE DEF tb
<1>7. CASE moved
  <2>1. old \in Urls
    BY <1>1, <1>7 DEF ClientRecord, Addresses
  <2>2. asked'.ended = asked.ended \ {old} /\ asked' = Cut(old)
    BY <1>1, <1>2, <1>7 DEF Cut
  <2>3. tab' = Disconnected(tb, old) /\ task' = CutTask(task, old)
    BY <1>2, <1>7
  <2> QED
    BY <1>2, <1>5, <1>6, <2>1, <2>2, <2>3, CutAccount DEF AccountInv
<1>8. CASE ~moved
  <2>1. tab' = tb /\ task' = task /\ asked' = asked
    BY <1>2, <1>8
  <2> QED
    BY <1>2, <1>5, <1>6, <2>1, OnwardAccount DEF AccountInv
<1> QED
  BY <1>7, <1>8

LEMMA ServiceMovedAccount ==
    ASSUME RegistryInv, AccountInv, NEW u \in Urls, ServiceMoved(u)
    PROVE  AccountInv'
<1> DEFINE old == mdns.url
           movers == {c \in Clients : client[c].url = old}
           cut == IF movers = {} THEN asked ELSE Cut(old)
<1>1. tab \in Tables /\ mdns \in [url : Addresses, bye : SUBSET Urls]
      /\ asked \in Wishes
  BY TaskTypes
<1>2. old \in Urls /\ conn' = conn
  BY <1>1 DEF ServiceMoved, Addresses
<1>3. \A k \in ConnIds : Onward(conn[k], conn'[k])
  BY <1>2, ConnStays
<1>4. CASE u = old
  <2>1. tab' = tab /\ task' = task /\ mdns' = mdns /\ asked' = asked
    BY <1>4 DEF ServiceMoved
  <2> QED
    BY <1>2, <2>1, IdleAccount
<1>5. CASE u # old
  <2>1. mdns' = [url |-> u, bye |-> (mdns.bye \ {old}) \cup {u}]
        /\ asked' = [cut EXCEPT !.ended = (@ \ {old}) \cup {u}]
        /\ tab' = (IF movers = {} THEN tab ELSE Disconnected(tab, old))
        /\ task' = (IF movers = {} THEN task ELSE CutTask(task, old))
    BY <1>5 DEF ServiceMoved
  <2>2. EndedNoted'
    BY <2>1 DEF EndedNoted
  <2>3. cut \in Wishes
    BY <1>1, <1>2, CutAskedType DEF RegistryInv
  <2>4. CASE movers = {}
    <3>1. tab' = tab /\ task' = task /\ asked'.dial = asked.dial /\ asked'.cut = asked.cut
          /\ asked'.beside = asked.beside
      BY <1>1, <2>1, <2>4
    <3> HIDE DEF old, movers, cut
    <3> QED
      BY <1>1, <1>3, <2>2, <3>1, OnwardAccount DEF AccountInv
  <2>5. CASE movers # {}
    <3>1. tab' = Disconnected(tab, old) /\ task' = CutTask(task, old)
          /\ asked'.dial = Cut(old).dial /\ asked'.cut = Cut(old).cut /\ asked'.beside = Cut(old).beside
      BY <2>1, <2>3, <2>5
    <3> HIDE DEF old, movers, cut
    <3> QED
      BY <1>1, <1>2, <1>3, <2>2, <3>1, CutAccount DEF AccountInv
  <2> QED
    BY <2>4, <2>5
<1> QED
  BY <1>4, <1>5

LEMMA ServiceRemovedAccount ==
    ASSUME RegistryInv, AccountInv, ServiceRemoved
    PROVE  AccountInv'
<1> DEFINE u == mdns.url
           at == {c \in Clients : client[c].url = u}
           wanted == \E c \in at : client[c].known /\ ~client[c].retained
           cut == IF wanted THEN asked ELSE Cut(u)
<1>1. tab \in Tables /\ mdns \in [url : Addresses, bye : SUBSET Urls]
      /\ asked \in Wishes
  BY TaskTypes
<1>2. u \in Urls /\ conn' = conn
      /\ mdns' = [url |-> NoUrl, bye |-> mdns.bye \ {u}]
      /\ tab' = (IF wanted THEN tab ELSE Disconnected(tab, u))
      /\ task' = (IF wanted THEN task ELSE CutTask(task, u))
      /\ asked' = [cut EXCEPT !.ended = @ \ {u}]
  BY <1>1 DEF ServiceRemoved, Addresses
<1>3. \A k \in ConnIds : Onward(conn[k], conn'[k])
  BY <1>2, ConnStays
<1>4. cut \in Wishes
  BY <1>1, <1>2, CutAskedType DEF RegistryInv
<1>5. asked'.dial = cut.dial /\ asked'.cut = cut.cut /\ asked'.beside = cut.beside /\ asked'.ended \in SUBSET Urls
  BY <1>2, <1>4
<1>6. EndedNoted'
  BY <1>2, <1>5, DialAssumption DEF EndedNoted
<1>7. CASE wanted
  <2>1. tab' = tab /\ task' = task /\ asked'.dial = asked.dial /\ asked'.cut = asked.cut
        /\ asked'.beside = asked.beside
    BY <1>2, <1>5, <1>7
  <2> HIDE DEF u, wanted, cut
  <2> QED
    BY <1>1, <1>3, <1>6, <2>1, OnwardAccount DEF AccountInv
<1>8. CASE ~wanted
  <2>1. tab' = Disconnected(tab, u) /\ task' = CutTask(task, u)
        /\ asked'.dial = Cut(u).dial /\ asked'.cut = Cut(u).cut /\ asked'.beside = Cut(u).beside
    BY <1>2, <1>5, <1>8
  <2> HIDE DEF u, wanted, cut
  <2> QED
    BY <1>1, <1>2, <1>3, <1>6, <2>1, CutAccount DEF AccountInv
<1> QED
  BY <1>7, <1>8

\* A connection runs its course by itself.
LEMMA CourseAccount ==
    ASSUME RegistryInv, AccountInv, NEW k \in ConnIds, NEW new,
           conn' = [conn EXCEPT ![k] = new], Onward(conn[k], new),
           task' = task, tab' \in Tables, tab'.task = tab.task, tab'.dial = tab.dial,
           tab'.redial = tab.redial, tab'.waiters = tab.waiters, tab'.succeeded = tab.succeeded,
           asked'.dial = asked.dial, asked'.cut = asked.cut, asked'.beside = asked.beside
    PROVE  /\ \A j \in ConnIds : Onward(conn[j], conn'[j])
           /\ OneTask' /\ TaskAsked' /\ TaskBegun' /\ TaskStages' /\ RedialNoted' /\ RedialHeld' /\ WaitersServed'
           /\ BesideCut'
           /\ (asked' = asked /\ mdns' = mdns) => EndedNoted'
<1>1. \A j \in ConnIds : Onward(conn[j], conn'[j])
  BY TaskTypes DEF Onward
<1> QED
  BY <1>1, OnwardAccount

LEMMA IncomingAccount ==
    ASSUME RegistryInv, AccountInv, Incoming
    PROVE  AccountInv'
<1> DEFINE k == NextConn
           new == [conn[k] EXCEPT !.pc = "hello"]
<1>1. FreshConn # {} /\ conn' = [conn EXCEPT ![k] = new]
      /\ tab' = tab /\ task' = task /\ mdns' = mdns /\ asked' = asked
  BY DEF Incoming
<1>2. k \in ConnIds /\ conn[k].pc = "none"
  BY <1>1, NextConnIsFresh
<1>3. conn[k] \in ConnRecord /\ tab \in Tables
  BY <1>2, TaskTypes
<1>4. Onward(conn[k], new)
  BY <1>2, <1>3 DEF Onward, ConnRecord
<1> HIDE DEF k, new
<1> QED
  BY <1>1, <1>2, <1>3, <1>4, CourseAccount DEF AccountInv

LEMMA ActivateAccount ==
    ASSUME RegistryInv, AccountInv, NEW k \in ConnIds, Activate(k)
    PROVE  AccountInv'
<1> DEFINE u == conn[k].url
<1>1. PICK a \in {"idle", "other"} :
        conn' = [conn EXCEPT ![k].active = IF u \in tab.playback THEN "playback" ELSE a]
  BY DEF Activate
<1> DEFINE new == [conn[k] EXCEPT !.active = IF u \in tab.playback THEN "playback" ELSE a]
<1>2. conn' = [conn EXCEPT ![k] = new]
  BY <1>1
<1>3. conn[k] \in ConnRecord /\ tab \in Tables
  BY TaskTypes
<1>4. conn[k].pc = "attached" /\ task' = task /\ mdns' = mdns /\ asked' = asked
      /\ tab' = IF u = NoUrl THEN tab ELSE [tab EXCEPT !.playback = @ \ {u}]
  BY DEF Activate
<1>5. Onward(conn[k], new)
  BY <1>3, <1>4 DEF Onward, ConnRecord
<1>6. tab' \in Tables /\ tab'.task = tab.task /\ tab'.dial = tab.dial
      /\ tab'.redial = tab.redial /\ tab'.waiters = tab.waiters /\ tab'.succeeded = tab.succeeded
  BY <1>3, <1>4 DEF Tables
<1> HIDE DEF new
<1> QED
  BY <1>2, <1>4, <1>5, <1>6, CourseAccount DEF AccountInv

LEMMA CloseDoneAccount ==
    ASSUME RegistryInv, AccountInv, NEW k \in ConnIds, CloseDone(k)
    PROVE  AccountInv'
<1> DEFINE new == IF conn[k].task = 0 THEN Over ELSE [conn[k] EXCEPT !.pc = "gone"]
<1>1. conn[k].pc = "closing" /\ conn' = [conn EXCEPT ![k] = new]
      /\ tab' = tab /\ task' = task /\ mdns' = mdns /\ asked' = asked
  BY DEF CloseDone
<1>2. conn[k] \in ConnRecord /\ tab \in Tables
  BY TaskTypes
<1>3. Onward(conn[k], new)
  <2>1. CASE conn[k].task = 0
    BY <2>1, OverType DEF Onward
  <2>2. CASE conn[k].task # 0
    BY <1>1, <1>2, <2>2 DEF Onward, ConnRecord
  <2> QED
    BY <2>1, <2>2
<1> HIDE DEF new
<1> QED
  BY <1>1, <1>2, <1>3, CourseAccount DEF AccountInv

LEMMA BeginCloseAccount ==
    ASSUME RegistryInv, AccountInv, NEW k \in ConnIds, NEW r \in Reasons, BeginClose(k, r)
    PROVE  AccountInv'
<1> DEFINE new == [[[conn[k] EXCEPT !.pc = "closing"] EXCEPT !.bye = r]
                     EXCEPT !.closing = conn[k].closing \/ r \notin {"none", "restart"}]
           ends == /\ conn[k].task # 0 /\ ~task[conn[k].task].cut /\ r \in NoRedial
                   /\ conn[k].url \notin asked.beside
<1>1. conn \in [ConnIds -> ConnRecord] /\ conn[k] \in ConnRecord /\ tab \in Tables
      /\ asked \in Wishes
      /\ mdns \in [url : Addresses, bye : SUBSET Urls]
  BY TaskTypes
<1>2. conn[k].pc \in {"hello", "attached"} /\ tab' = tab /\ task' = task /\ mdns' = mdns
      /\ asked' = [asked EXCEPT !.ended = IF ends THEN @ \cup {conn[k].url} ELSE @]
  BY DEF BeginClose
<1>3. conn' = [conn EXCEPT ![k] = new]
  BY <1>1 DEF BeginClose
<1>4. Onward(conn[k], new) /\ new.pc = "closing" /\ new.bye = r /\ new.task = conn[k].task
      /\ (r \in NoRedial => new.closing)
  BY <1>1, <1>2 DEF Onward, ConnRecord, NoRedial
<1>5. conn'[k] = new
  BY <1>1, <1>3
<1> HIDE DEF new
<1>6. asked'.dial = asked.dial /\ asked'.cut = asked.cut /\ asked'.beside = asked.beside
      /\ asked'.ended = IF ends THEN asked.ended \cup {conn[k].url} ELSE asked.ended
  BY <1>1, <1>2
<1>7. /\ \A j \in ConnIds : Onward(conn[j], conn'[j])
      /\ OneTask' /\ TaskAsked' /\ TaskBegun' /\ TaskStages' /\ RedialNoted' /\ RedialHeld' /\ WaitersServed'
      /\ BesideCut'
  BY <1>1, <1>2, <1>3, <1>4, <1>6, CourseAccount
<1>8. EndedNoted'
  <2>1. CASE ends /\ conn[k].url = mdns.url
    <3> DEFINE u == conn[k].url
               t == conn[k].task
    <3>1. u \in Urls /\ u \notin asked.beside /\ t \in TaskIds /\ t # 0 /\ task[t].url = u /\ task[t].pc = "session"
          /\ \A j \in ConnIds : conn[j].task = t => j <= k
      <4>1. t \in TaskIds
        BY <1>1, <2>1 DEF ConnRecord, TaskIds
      <4> QED
        BY <1>2, <2>1, <4>1 DEF RegistryInv, ConnInv
    <3>2. tab.dial[u] # 0 /\ conn[tab.dial[u]].task = t /\ k <= tab.dial[u]
      BY <3>1 DEF AccountInv, TaskStages
    <3>3. tab.dial[u] \in ConnIds
      BY <3>1, <3>2, DialFacts
    <3>4. tab.dial[u] = k
      BY <3>1, <3>2, <3>3 DEF ConnIds
    <3>5. u \notin tab.redial
      BY <1>2, <3>1, <3>4 DEF AccountInv, RedialNoted, Disconnecting
    <3>6. ~task[t].cut /\ r \in NoRedial /\ k # 0
      BY <2>1, <3>2, <3>4
    <3> HIDE DEF u, t
    <3>7. u = mdns.url /\ t = conn[k].task
      BY <2>1 DEF u, t
    <3> QED
      BY <1>2, <1>4, <1>5, <1>6, <3>1, <3>4, <3>5, <3>6, <3>7 DEF EndedNoted, Disconnecting
  <2>2. CASE ~(ends /\ conn[k].url = mdns.url)
    <3>1. mdns.url \in asked'.ended => mdns.url \in asked.ended
      BY <1>6, <2>2
    <3> SUFFICES ASSUME mdns.url \in asked.ended, mdns.url \notin mdns.bye
                 PROVE  LET j == tab.dial[mdns.url]
                        IN  /\ mdns.url \notin asked.beside /\ mdns.url \notin tab.redial
                            /\ j # 0 /\ conn'[j].pc \in {"closing", "gone"}
                            /\ conn'[j].bye \in NoRedial /\ conn'[j].closing
                            /\ task[conn'[j].task].pc = "session" /\ ~task[conn'[j].task].cut
      BY <1>2, <1>6, <3>1 DEF EndedNoted, Disconnecting
    <3> DEFINE j == tab.dial[mdns.url]
    <3>2. /\ mdns.url \notin asked.beside /\ mdns.url \notin tab.redial /\ j # 0 /\ conn[j].pc \in {"closing", "gone"}
          /\ conn[j].bye \in NoRedial /\ conn[j].closing
          /\ task[conn[j].task].pc = "session" /\ ~task[conn[j].task].cut
      BY DEF AccountInv, EndedNoted, Disconnecting
    <3>3. conn'[j] = conn[j]
      BY <1>1, <1>2, <1>3, <3>2
    <3> QED
      BY <3>2, <3>3
  <2> QED
    BY <2>1, <2>2
<1> QED
  BY <1>7, <1>8 DEF AccountInv

-----------------------------------------------------------------------------
(* A task moves on.                                                          *)

\* What a step of one task has to show of its own address; the rest is as it was.
LEMMA OneTaskMoves ==
    ASSUME RegistryInv, AccountInv, NEW t \in TaskIds, NEW u \in Urls, task[t].url = u, u # NoUrl,
           \A s \in TaskIds : s # t => task'[s] = task[s],
           task'[t].url \in {u, NoUrl}, task'[t].pc \notin {"none", "done"} => task'[t].url = u,
           \A k \in ConnIds : (conn[k].task \notin {0, t} \/ conn'[k].task \notin {0, t}) => conn'[k] = conn[k],
           \A v \in Urls \ {u} :
               /\ tab'.task[v] = tab.task[v] /\ tab'.dial[v] = tab.dial[v]
               /\ v \in tab'.redial <=> v \in tab.redial
               /\ v \in tab'.succeeded <=> v \in tab.succeeded
               /\ v \in tab'.waiters => v \in tab.waiters,
           tab'.redial \in SUBSET Urls, tab'.waiters \in SUBSET Urls,
           \A v \in asked.dial : v = u \/ v \in asked'.dial,
           asked'.cut = asked.cut, asked'.ended = asked.ended, asked'.beside = asked.beside,
           mdns'.url = mdns.url, \A v \in mdns.bye : v \in mdns'.bye,
           \A v \in tab'.waiters : v \in tab.waiters,
           /\ task'[t].cut => (task'[t].url \notin tab'.waiters \/ task'[t].url \in asked'.cut)
           /\ task'[t].pc = "session" => task'[t].first
           /\ task'[t].pc = "new" => ~task'[t].first,
           u \in tab'.redial => \E s \in TaskIds : task'[s].url = u /\ task'[s].pc # "new",
           u \notin asked.beside =>
             /\ (task'[t].pc \notin {"none", "done"} /\ ~task'[t].cut) => tab'.task[task'[t].url] = t
             /\ (task'[t].url # NoUrl /\ ~task'[t].cut) => task'[t].url \in asked'.dial
             /\ (task'[t].url # NoUrl /\ ~task'[t].cut /\ task'[t].first) =>
                   (task'[t].url \in tab'.succeeded \/ task'[t].url \in tab'.redial)
             /\ task'[t].pc = "connecting" => tab'.dial[task'[t].url] = 0
             /\ (task'[t].pc = "sleep" /\ task'[t].first /\ tab'.dial[task'[t].url] # 0) =>
                   (ShouldRetry(tab.dial[task[t].url]))'
             /\ task'[t].pc = "session" =>
                   /\ tab'.dial[task'[t].url] # 0
                   /\ conn'[tab'.dial[task'[t].url]].task = t
                   /\ \A j \in ConnIds : conn'[j].task = t => j <= tab'.dial[task'[t].url],
           u \notin asked.beside =>
             \A v \in tab'.redial : v = u => (Disconnecting(tab.dial[v]) /\ ~ShouldRetry(tab.dial[v]))',
           (u \in tab'.waiters /\ u \notin asked.beside) => u \in asked.cut \/
                 (task'[t].url = u /\ task'[t].pc \notin {"none", "done"}
                     /\ (~task'[t].first \/ u \in tab'.redial)),
           (mdns.url = u /\ u \in asked.ended /\ u \notin asked.beside) => u \in mdns'.bye
    PROVE  AccountInv'
<1>1. OneTask /\ TaskAsked /\ TaskBegun /\ TaskStages /\ RedialNoted /\ RedialHeld /\ WaitersServed /\ EndedNoted
      /\ BesideCut
  BY DEF AccountInv
<1>2. u \notin asked.beside => \A s \in TaskIds : s # t => task[s].url # u
  BY <1>1 DEF OneTask
\* Connections of other tasks are left alone.
<1>3. \A v \in Urls \ {u} : tab.dial[v] # 0 =>
         /\ tab.dial[v] \in ConnIds /\ conn[tab.dial[v]].task \in TaskIds \ {0, t}
         /\ task[conn[tab.dial[v]].task].url = v
         /\ conn'[tab.dial[v]] = conn[tab.dial[v]]
  <2> SUFFICES ASSUME NEW v \in Urls \ {u}, tab.dial[v] # 0
               PROVE  /\ tab.dial[v] \in ConnIds /\ conn[tab.dial[v]].task \in TaskIds \ {0, t}
                      /\ task[conn[tab.dial[v]].task].url = v
                      /\ conn'[tab.dial[v]] = conn[tab.dial[v]]
    OBVIOUS
  <2>1. tab.dial[v] \in ConnIds /\ conn[tab.dial[v]].task \in TaskIds \ {0, t}
        /\ task[conn[tab.dial[v]].task].url = v
    BY DialFacts
  <2> QED
    BY <2>1
<1>4. OneTask'
  <2>1. \A s, r \in TaskIds : (task'[s].url = task'[r].url /\ task'[s].url # NoUrl /\ task'[s].url \notin asked.beside) => s = r
    BY <1>1, <1>2 DEF OneTask
  <2>2. ASSUME NEW s \in TaskIds, s # t, task[s].pc \notin {"none", "done"}, ~task[s].cut, task[s].url \notin asked.beside
        PROVE  tab'.task[task[s].url] = s
    BY <1>1, <1>2, <2>2, TaskFacts DEF OneTask, OneTaskPerUrl
  <2>3. OneTaskPerUrl'
    <3>1. \A s \in TaskIds : task'[s].pc \notin {"none", "done"} => task'[s].url # NoUrl
      BY TaskFacts
    <3> QED
      BY <2>1, <2>2, <3>1 DEF OneTaskPerUrl
  <2> QED
    BY <2>1, <2>3 DEF OneTask
<1>5. TaskAsked'
  <2>1. ASSUME NEW s \in TaskIds, s # t
        PROVE  /\ (task[s].url # NoUrl /\ ~task[s].cut /\ task[s].url \notin asked.beside) => task[s].url \in asked'.dial
               /\ task[s].cut => (task[s].url \notin tab'.waiters \/ task[s].url \in asked'.cut)
    BY <1>1, <1>2, <2>1, TaskFacts DEF TaskAsked
  <2> QED
    BY <2>1 DEF TaskAsked
<1>6. TaskStages'
  <2> SUFFICES ASSUME NEW s \in TaskIds, task'[s].url \notin asked.beside
               PROVE  /\ (task'[s].url # NoUrl /\ ~task'[s].cut /\ task'[s].first) =>
                            (task'[s].url \in tab'.succeeded \/ task'[s].url \in tab'.redial)
                      /\ task'[s].pc = "connecting" => tab'.dial[task'[s].url] = 0
                      /\ (task'[s].pc = "sleep" /\ task'[s].first /\ tab'.dial[task'[s].url] # 0) =>
                            (ShouldRetry(tab.dial[task[s].url]))'
                      /\ task'[s].pc = "session" =>
                            /\ tab'.dial[task'[s].url] # 0
                            /\ conn'[tab'.dial[task'[s].url]].task = s
                            /\ \A j \in ConnIds : conn'[j].task = s => j <= tab'.dial[task'[s].url]
    BY DEF TaskStages
  <2>1. CASE s = t
    <3>1. CASE u \notin asked.beside
      BY <2>1, <3>1
    <3>2. CASE task'[t].url = NoUrl
      BY <2>1, <3>2
    <3> QED
      BY <2>1, <3>1, <3>2
  <2>2. CASE s # t /\ task[s].pc \in {"none", "done"}
    BY <2>2, TaskFacts
  <2>3. CASE s # t /\ task[s].pc \notin {"none", "done"}
    <3> DEFINE v == task[s].url
               k == tab.dial[v]
    <3>1. v \in Urls \ {u} /\ v # NoUrl /\ v \notin asked.beside /\ s # 0 /\ task'[s] = task[s]
      BY <1>2, <2>3, TaskFacts
    <3>2. tab'.dial[v] = k
      BY <3>1
    <3>3. (task[s].pc = "sleep" /\ task[s].first /\ k # 0) => (ShouldRetry(tab.dial[task[s].url]))'
      <4>1. (task[s].pc = "sleep" /\ task[s].first /\ k # 0) => ShouldRetry(k)
        BY <1>1, <3>1 DEF TaskStages
      <4>2. k # 0 => conn'[k] = conn[k]
        BY <1>3, <3>1
      <4>3. (tab.dial[task[s].url])' = k
        BY <3>1, <3>2
      <4> QED
        BY <4>1, <4>2, <4>3 DEF ShouldRetry
    <3>4. task[s].pc = "session" =>
            /\ k # 0 /\ conn'[k].task = s
            /\ \A j \in ConnIds : conn'[j].task = s => j <= k
      <4>1. task[s].pc = "session" =>
              k # 0 /\ conn[k].task = s /\ \A j \in ConnIds : conn[j].task = s => j <= k
        BY <1>1, <3>1 DEF TaskStages
      <4>2. k # 0 => conn'[k] = conn[k]
        BY <1>3, <3>1
      <4>3. \A j \in ConnIds : conn'[j].task = s => conn[j].task = s
        BY <2>3, <3>1
      <4> QED
        BY <4>1, <4>2, <4>3
    <3>5. /\ (~task[s].cut /\ task[s].first) => (v \in tab'.succeeded \/ v \in tab'.redial)
          /\ task[s].pc = "connecting" => k = 0
      BY <1>1, <3>1 DEF TaskStages
    <3> QED
      BY <3>1, <3>2, <3>3, <3>4, <3>5
  <2> QED
    BY <2>1, <2>2, <2>3
<1>7. RedialNoted'
  <2>1. ASSUME NEW v \in tab'.redial, v # u, v \notin asked.beside
        PROVE  (Disconnecting(tab.dial[v]) /\ ~ShouldRetry(tab.dial[v]))'
    <3> DEFINE k == tab.dial[v]
    <3>1. v \in Urls \ {u} /\ v \in tab.redial
      BY <2>1
    <3>2. Disconnecting(k) /\ ~ShouldRetry(k)
      BY <1>1, <2>1, <3>1 DEF RedialNoted
    <3>3. k # 0 /\ k' = k /\ conn'[k] = conn[k]
      BY <1>3, <3>1, <3>2 DEF Disconnecting
    <3> QED
      BY <3>2, <3>3 DEF Disconnecting, ShouldRetry
  <2> QED
    BY <2>1 DEF RedialNoted
<1>10. TaskBegun' /\ RedialHeld'
  <2>1. TaskBegun'
    BY <1>1 DEF TaskBegun
  <2>2. ASSUME NEW v \in tab'.redial, v # u
        PROVE  \E s \in TaskIds : task'[s].url = v /\ task'[s].pc # "new"
    <3>1. PICK s \in TaskIds : task[s].url = v /\ task[s].pc # "new"
      BY <1>1, <2>2 DEF RedialHeld
    <3> QED
      BY <2>2, <3>1
  <2> QED
    BY <2>1, <2>2 DEF RedialHeld
<1>11. BesideCut'
  BY <1>1 DEF BesideCut
<1>8. WaitersServed'
  <2> SUFFICES ASSUME NEW v \in tab'.waiters, v \notin asked.cut
               PROVE  \E s \in TaskIds : task'[s].url = v /\ task'[s].pc \notin {"none", "done"}
                              /\ (~task'[s].first \/ v \in tab'.redial)
    BY DEF WaitersServed
  <2>1. CASE v = u
    BY <1>1, <2>1 DEF BesideCut
  <2>2. CASE v # u
    <3>1. v \in Urls \ {u} /\ v \in tab.waiters
      BY <2>2
    <3>2. PICK s \in TaskIds : task[s].url = v /\ task[s].pc \notin {"none", "done"}
                                 /\ (~task[s].first \/ v \in tab.redial)
      BY <1>1, <3>1 DEF WaitersServed
    <3>3. s # t /\ task'[s] = task[s]
      BY <2>2, <3>2
    <3> QED
      BY <3>1, <3>2, <3>3
  <2> QED
    BY <2>1, <2>2
<1>9. EndedNoted'
  <2> SUFFICES ASSUME mdns.url \in asked.ended, mdns.url \notin mdns'.bye
               PROVE  LET k == tab'.dial[mdns.url]
                      IN  /\ mdns.url \notin asked.beside /\ mdns.url \notin tab'.redial
                          /\ k # 0 /\ conn'[k].pc \in {"closing", "gone"}
                          /\ conn'[k].bye \in NoRedial /\ conn'[k].closing
                          /\ task'[conn'[k].task].pc = "session" /\ ~task'[conn'[k].task].cut
    BY DEF EndedNoted, Disconnecting
  <2> DEFINE v == mdns.url
             k == tab.dial[v]
  <2>1. v \in Urls \ {u} /\ v \notin mdns.bye
    BY <1>1, TaskTypes DEF EndedNoted
  <2>2. /\ v \notin asked.beside /\ v \notin tab.redial /\ k # 0 /\ conn[k].pc \in {"closing", "gone"}
        /\ conn[k].bye \in NoRedial /\ conn[k].closing
        /\ task[conn[k].task].pc = "session" /\ ~task[conn[k].task].cut
    BY <1>1, <2>1 DEF EndedNoted, Disconnecting
  <2>3. conn'[k] = conn[k] /\ task'[conn[k].task] = task[conn[k].task]
    BY <1>3, <2>1, <2>2
  <2> QED
    BY <2>1, <2>2, <2>3
<1> QED
  BY <1>4, <1>5, <1>6, <1>7, <1>8, <1>9, <1>10, <1>11 DEF AccountInv

LEMMA BeginAttemptAccount ==
    ASSUME RegistryInv, AccountInv, NEW t \in TaskIds, BeginAttempt(t)
    PROVE  AccountInv'
<1> DEFINE u == task[t].url
           new == [task[t] EXCEPT !.pc = "connecting"]
<1>1. OneTask /\ TaskAsked /\ TaskBegun /\ TaskStages /\ RedialNoted /\ RedialHeld /\ WaitersServed /\ EndedNoted
      /\ BesideCut
  BY DEF AccountInv
<1>2. tab \in Tables /\ task \in [TaskIds -> TaskRecord] /\ task[t] \in TaskRecord
  BY TaskTypes
<1>3. task[t].pc \in {"new", "sleep"} /\ ~task[t].cut /\ task' = [task EXCEPT ![t] = new]
      /\ tab' = [tab EXCEPT !.dial[u] = 0, !.redial = @ \ {u}]
      /\ conn' = conn /\ mdns' = mdns /\ asked' = asked
  BY DEF BeginAttempt
<1>4. new.pc = "connecting" /\ new.url = u /\ new.first = task[t].first /\ new.cut = task[t].cut
  BY <1>2 DEF TaskRecord
<1>5. u \in Urls /\ u # NoUrl
  BY <1>3, TaskFacts
<1> HIDE DEF new
<1>6. \A s \in TaskIds : task'[s] = IF s = t THEN new ELSE task[s]
  BY <1>2, <1>3
<1>7. tab'.task = tab.task /\ tab'.redial = tab.redial \ {u} /\ tab'.succeeded = tab.succeeded
      /\ tab'.waiters = tab.waiters /\ \A v \in Urls : tab'.dial[v] = IF v = u THEN 0 ELSE tab.dial[v]
  BY <1>2, <1>3 DEF Tables
\* A redial that was asked for has been taken up when the task slept on it.
<1>8. (task[t].first /\ u \notin asked.beside) => (u \notin tab.redial /\ u \in tab.succeeded)
  BY <1>1, <1>3, <1>5 DEF TaskBegun, TaskStages, RedialNoted, Disconnecting
<1>9. u \notin asked.beside => tab'.task[u] = t /\ u \in asked.dial
  BY <1>1, <1>3, <1>5, <1>7, TaskFacts DEF OneTask, OneTaskPerUrl, TaskAsked
<1>10. (u \in tab.waiters /\ u \notin asked.beside) => u \in asked.cut \/ ~task[t].first
  BY <1>1, <1>5, <1>8 DEF WaitersServed, OneTask
<1>11. (mdns.url = u /\ u \in asked.ended /\ u \notin asked.beside) => u \in mdns.bye
  <2> SUFFICES ASSUME mdns.url = u, u \in asked.ended, u \notin asked.beside, u \notin mdns.bye PROVE FALSE
    OBVIOUS
  <2> DEFINE k == tab.dial[u]
  <2>1. k # 0 /\ task[conn[k].task].pc = "session"
    BY <1>1 DEF EndedNoted, Disconnecting
  <2>2. conn[k].task \in TaskIds /\ task[conn[k].task].url = u
    BY <1>5, <2>1, DialFacts
  <2>3. conn[k].task = t
    BY <1>1, <1>5, <2>2 DEF OneTask
  <2> QED
    BY <1>3, <2>1, <2>3
<1>12. tab'.redial \in SUBSET Urls /\ tab'.waiters \in SUBSET Urls
  BY <1>2, <1>7 DEF Tables
<1>13. task'[t].pc = "connecting" /\ task'[t].url = u /\ ~task'[t].cut /\ task'[t].first = task[t].first
  BY <1>3, <1>4, <1>6
<1> HIDE DEF u
<1>14. u = task[t].url
  BY DEF u
<1> QED
  BY <1>3, <1>5, <1>6, <1>7, <1>8, <1>9, <1>10, <1>11, <1>12, <1>13, <1>14, OneTaskMoves

LEMMA ConnectedAccount ==
    ASSUME RegistryInv, AccountInv, NEW t \in TaskIds, Connected(t)
    PROVE  AccountInv'
<1> DEFINE u == task[t].url
           k == NextConn
           nt == [[task[t] EXCEPT !.pc = "session"] EXCEPT !.first = TRUE]
           nc == [conn[k] EXCEPT !.pc = "hello", !.task = t, !.url = u, !.want = ClientAt(u)]
<1>1. OneTask /\ TaskAsked /\ TaskBegun /\ TaskStages /\ RedialNoted /\ RedialHeld /\ WaitersServed /\ EndedNoted
      /\ BesideCut
  BY DEF AccountInv
<1>2. tab \in Tables /\ task \in [TaskIds -> TaskRecord] /\ task[t] \in TaskRecord
      /\ conn \in [ConnIds -> ConnRecord]
  BY TaskTypes
<1>3. task[t].pc = "connecting" /\ ~task[t].cut /\ FreshConn # {} /\ conn' = [conn EXCEPT ![k] = nc]
      /\ mdns' = mdns /\ asked' = asked
  BY DEF Connected
<1>4. task' = [task EXCEPT ![t] = nt]
  BY <1>2 DEF Connected
<1>5. k \in ConnIds /\ conn[k].pc = "none"
  BY <1>3, NextConnIsFresh
<1>6. u \in Urls /\ u # NoUrl /\ t # 0
  BY <1>3, TaskFacts
<1>7. nt.pc = "session" /\ nt.url = u /\ nt.cut = task[t].cut /\ nt.first = TRUE
  BY <1>2 DEF TaskRecord
<1>8. nc.task = t
  <2>1. conn[k] \in ConnRecord
    BY <1>2, <1>5
  <2> QED
    BY <2>1 DEF ConnRecord
<1>9. \/ task[t].first /\ tab' = [tab EXCEPT !.dial[u] = k]
      \/ ~task[t].first /\ tab' = [tab EXCEPT !.dial[u] = k, !.succeeded = @ \cup {u}, !.waiters = @ \ {u}]
  BY <1>2 DEF Connected, TaskRecord
<1> HIDE DEF nt, nc, k
<1>10. \A s \in TaskIds : task'[s] = IF s = t THEN nt ELSE task[s]
  BY <1>2, <1>4
<1>11. \A j \in ConnIds : conn'[j] = IF j = k THEN nc ELSE conn[j]
  BY <1>2, <1>3
<1>12. /\ tab'.task = tab.task /\ tab'.redial = tab.redial
       /\ \A v \in Urls : tab'.dial[v] = IF v = u THEN k ELSE tab.dial[v]
       /\ \/ task[t].first /\ tab'.succeeded = tab.succeeded /\ tab'.waiters = tab.waiters
          \/ ~task[t].first /\ tab'.succeeded = tab.succeeded \cup {u} /\ tab'.waiters = tab.waiters \ {u}
  <2> HIDE DEF u
  <2>1. CASE tab' = [tab EXCEPT !.dial[u] = k] /\ task[t].first
    BY <1>2, <2>1 DEF Tables
  <2>2. CASE tab' = [tab EXCEPT !.dial[u] = k, !.succeeded = @ \cup {u}, !.waiters = @ \ {u}] /\ ~task[t].first
    BY <1>2, <2>2 DEF Tables
  <2> QED
    BY <1>9, <2>1, <2>2
<1>13. u \notin asked.beside => tab.dial[u] = 0
  BY <1>1, <1>3 DEF TaskStages
<1>14. u \notin asked.beside => u \notin tab.redial
  BY <1>1, <1>13 DEF RedialNoted, Disconnecting
<1>15. conn[k].task = 0 /\ \A j \in ConnIds : conn[j].task # 0 => j < k
  <2>1. \A j \in ConnIds : conn[j].task # 0 => conn[j].pc # "none"
    BY DEF RegistryInv, ConnInv
  <2> QED
    BY <1>5, <2>1 DEF RegistryInv, ConnInv, ConnIds
<1>16. k # 0 /\ \A j \in ConnIds : conn'[j].task = t => j <= k
  BY <1>5, <1>6, <1>11, <1>15 DEF ConnIds
<1>17. tab'.redial \in SUBSET Urls /\ tab'.waiters \in SUBSET Urls
  BY <1>2, <1>12 DEF Tables
<1>18. \A s \in TaskIds : s # t => task'[s] = task[s]
  BY <1>10
<1>19. \A j \in ConnIds : (conn[j].task \notin {0, t} \/ conn'[j].task \notin {0, t}) => conn'[j] = conn[j]
  BY <1>8, <1>11, <1>15
<1>20. \A v \in Urls \ {u} :
          /\ tab'.task[v] = tab.task[v] /\ tab'.dial[v] = tab.dial[v]
          /\ v \in tab'.redial <=> v \in tab.redial
          /\ v \in tab'.succeeded <=> v \in tab.succeeded
          /\ v \in tab'.waiters => v \in tab.waiters
  BY <1>12
<1>21. task'[t].pc = "session" /\ task'[t].url = u /\ ~task'[t].cut /\ task'[t].first
  BY <1>3, <1>7, <1>10
<1>22. u \notin asked.beside => tab'.task[u] = t /\ u \in asked'.dial
  BY <1>1, <1>3, <1>6, <1>12 DEF OneTask, OneTaskPerUrl, TaskAsked
<1>23. u \notin asked.beside => u \in tab'.succeeded
  BY <1>1, <1>3, <1>6, <1>12, <1>14 DEF TaskStages
<1>24. tab'.dial[u] = k /\ conn'[k].task = t
  BY <1>5, <1>6, <1>8, <1>11, <1>12
<1>25. (u \in tab'.waiters /\ u \notin asked.beside) => u \in asked.cut
  BY <1>1, <1>6, <1>12, <1>14 DEF WaitersServed, OneTask
<1>26. (mdns.url = u /\ u \in asked.ended /\ u \notin asked.beside) => u \in mdns'.bye
  BY <1>1, <1>3, <1>13 DEF EndedNoted, Disconnecting
<1> HIDE DEF u
<1>27. u = task[t].url
  BY DEF u
<1> QED
  BY <1>3, <1>6, <1>12, <1>14, <1>16, <1>17, <1>18, <1>19, <1>20, <1>21, <1>22, <1>23, <1>24,
     <1>25, <1>26, <1>27, OneTaskMoves

\* A task sleeps before it dials again.
LEMMA SleepAccount ==
    ASSUME RegistryInv, AccountInv, NEW t \in TaskIds, NEW new \in TaskRecord,
           task' = [task EXCEPT ![t] = new], new.pc = "sleep", new.url = task[t].url, ~new.cut,
           ~task[t].cut, new.first => task[t].first,
           \/ task[t].pc = "connecting"
           \/ task[t].pc = "session" /\ ~new.first /\ task[t].url \in tab.redial
           \/ task[t].pc = "session" /\ (task[t].url \notin asked.beside => ShouldRetry(tab.dial[task[t].url])),
           tab' = tab, conn' = conn, mdns' = mdns, asked' = asked
    PROVE  AccountInv'
<1> DEFINE u == task[t].url
<1>1. OneTask /\ TaskAsked /\ TaskBegun /\ TaskStages /\ RedialNoted /\ RedialHeld /\ WaitersServed /\ EndedNoted
      /\ BesideCut
  BY DEF AccountInv
<1>2. tab \in Tables /\ task \in [TaskIds -> TaskRecord]
  BY TaskTypes
<1>3. u \in Urls /\ u # NoUrl
  BY TaskFacts
<1>4. \A s \in TaskIds : task'[s] = IF s = t THEN new ELSE task[s]
  BY <1>2
<1>5. tab'.redial \in SUBSET Urls /\ tab'.waiters \in SUBSET Urls
  BY <1>2 DEF Tables
<1>6. task'[t].pc = "sleep" /\ task'[t].url = u /\ ~task'[t].cut /\ task'[t].first = new.first
  BY <1>4
<1>7. u \notin asked.beside => tab'.task[u] = t /\ u \in asked'.dial
  BY <1>1, <1>3, TaskFacts DEF OneTask, OneTaskPerUrl, TaskAsked
<1>8. (new.first /\ u \notin asked.beside) => (u \in tab'.succeeded \/ u \in tab'.redial)
  BY <1>1, <1>3 DEF TaskStages
<1>9. (new.first /\ tab.dial[u] # 0 /\ u \notin asked.beside) => (ShouldRetry(tab.dial[task[t].url]))'
  <2>1. (new.first /\ tab.dial[u] # 0 /\ u \notin asked.beside) => ShouldRetry(tab.dial[u])
    BY <1>1 DEF TaskStages
  <2>2. (tab.dial[task[t].url])' = tab.dial[u]
    BY <1>6
  <2> QED
    BY <2>1, <2>2 DEF ShouldRetry
<1>10. \A v \in tab'.redial : (v = u /\ u \notin asked.beside) => (Disconnecting(tab.dial[v]) /\ ~ShouldRetry(tab.dial[v]))'
  BY <1>1 DEF RedialNoted, Disconnecting, ShouldRetry
<1>11. (u \in tab'.waiters /\ u \notin asked.beside) => u \in asked.cut \/ ~task'[t].first \/ u \in tab'.redial
  BY <1>1, <1>3, <1>6 DEF WaitersServed, OneTask
<1>12. (mdns.url = u /\ u \in asked.ended /\ u \notin asked.beside) => u \in mdns'.bye
  <2> SUFFICES ASSUME mdns.url = u, u \in asked.ended, u \notin asked.beside, u \notin mdns.bye PROVE FALSE
    OBVIOUS
  <2> DEFINE k == tab.dial[u]
  <2>1. /\ u \notin tab.redial /\ k # 0 /\ conn[k].closing /\ task[conn[k].task].pc = "session"
    BY <1>1 DEF EndedNoted, Disconnecting
  <2>2. conn[k].task \in TaskIds /\ task[conn[k].task].url = u
    BY <1>3, <2>1, DialFacts
  <2>3. conn[k].task = t
    BY <1>1, <1>3, <2>2 DEF OneTask
  <2> QED
    BY <2>1, <2>3 DEF ShouldRetry
<1> HIDE DEF u
<1>13. u = task[t].url
  BY DEF u
<1> QED
  BY <1>3, <1>4, <1>5, <1>6, <1>7, <1>8, <1>9, <1>10, <1>11, <1>12, <1>13, OneTaskMoves

\* A task ends; nobody is left to wait for it who was not told.
LEMMA EndAccount ==
    ASSUME RegistryInv, AccountInv, NEW t \in TaskIds, NEW tb \in Tables,
           task[t].pc \notin {"none", "done"}, EndTask(t, tb),
           tb.task = tab.task, tb.dial = tab.dial, tb.redial = tab.redial,
           tb.succeeded = tab.succeeded, \A v \in tb.waiters : v \in tab.waiters,
           (task[t].url \in tb.waiters /\ task[t].url \notin asked.beside) => task[t].url \in asked.cut,
           \A v \in asked.dial : v = task[t].url \/ v \in asked'.dial,
           asked'.cut = asked.cut, asked'.ended = asked.ended, asked'.beside = asked.beside,
           mdns'.url = mdns.url, \A v \in mdns.bye : v \in mdns'.bye,
           (mdns.url = task[t].url /\ task[t].url \in asked.ended /\ task[t].url \notin asked.beside) => task[t].url \in mdns'.bye
    PROVE  AccountInv'
<1> DEFINE u == task[t].url
           over == [NewTask EXCEPT !.pc = "done"]
<1>1. tab \in Tables /\ task \in [TaskIds -> TaskRecord] /\ conn \in [ConnIds -> ConnRecord]
  BY TaskTypes
<1>2. u \in Urls /\ u # NoUrl
  BY TaskFacts
<1>3. tab' = Popped(tb, u) /\ task' = [task EXCEPT ![t] = over]
      /\ conn' = [k \in ConnIds |-> IF conn[k].task = t THEN Over ELSE conn[k]]
  BY DEF EndTask
<1>4. over.pc = "done" /\ over.url = NoUrl /\ ~over.cut /\ ~over.first
  BY DEF NewTask
<1> HIDE DEF over, u
<1>5. \A s \in TaskIds : task'[s] = IF s = t THEN over ELSE task[s]
  BY <1>1, <1>3
<1>6. /\ \A v \in Urls \ {u} : tab'.task[v] = tab.task[v] /\ tab'.dial[v] = tab.dial[v]
      /\ tab'.redial = tab.redial \ {u} /\ tab'.succeeded = tab.succeeded \ {u}
      /\ tab'.waiters = tb.waiters
  BY <1>1, <1>2, <1>3 DEF Popped, Tables
<1>7. \A k \in ConnIds : (conn[k].task \notin {0, t} \/ conn'[k].task \notin {0, t}) => conn'[k] = conn[k]
  BY <1>3, OverType
<1>8. tab'.redial \in SUBSET Urls /\ tab'.waiters \in SUBSET Urls
  BY <1>1, <1>6 DEF Tables
<1>9. task'[t].pc = "done" /\ task'[t].url = NoUrl /\ ~task'[t].cut /\ ~task'[t].first
  BY <1>4, <1>5
<1>10. u = task[t].url
  BY DEF u
<1> QED
  BY <1>2, <1>5, <1>6, <1>7, <1>8, <1>9, <1>10, OneTaskMoves

\* The goodbye at an address is noted, or its task is in its last session and was not cancelled.
LEMMA EndedFacts ==
    ASSUME RegistryInv, AccountInv, NEW t \in TaskIds, mdns.url \notin asked.beside, task[t].url = mdns.url, mdns.url # NoUrl,
           mdns.url \in asked.ended, mdns.url \notin mdns.bye
    PROVE  /\ task[t].pc = "session" /\ ~task[t].cut /\ mdns.url \notin tab.redial
           /\ conn[tab.dial[mdns.url]].bye \in NoRedial
<1> DEFINE u == mdns.url
           k == tab.dial[u]
<1>1. u \in Urls
  BY TaskTypes
<1>2. /\ u \notin tab.redial /\ k # 0 /\ conn[k].bye \in NoRedial
      /\ task[conn[k].task].pc = "session" /\ ~task[conn[k].task].cut
  BY DEF AccountInv, EndedNoted, Disconnecting
<1>3. conn[k].task \in TaskIds /\ task[conn[k].task].url = u
  BY <1>1, <1>2, DialFacts
<1>4. conn[k].task = t
  BY <1>3 DEF AccountInv, OneTask
<1> QED
  BY <1>2, <1>4

LEMMA ConnectFailsAccount ==
    ASSUME RegistryInv, AccountInv, NEW t \in TaskIds, ConnectFails(t)
    PROVE  AccountInv'
<1> DEFINE u == task[t].url
<1>1. task[t].pc = "connecting" /\ ~task[t].cut /\ mdns' = mdns /\ asked' = asked
  BY DEF ConnectFails
<1>2. tab \in Tables /\ task[t] \in TaskRecord
  BY TaskTypes
<1>3. u \in Urls /\ u # NoUrl
  BY <1>1, TaskFacts
<1>4. CASE task[t].first \/ u \in tab.persistent
  <2> DEFINE new == [task[t] EXCEPT !.pc = "sleep"]
  <2>1. task' = [task EXCEPT ![t] = new] /\ tab' = tab /\ conn' = conn
    BY <1>4 DEF ConnectFails
  <2>2. new \in TaskRecord /\ new.pc = "sleep" /\ new.url = u /\ new.cut = task[t].cut /\ new.first = task[t].first
    BY <1>2 DEF TaskRecord
  <2> HIDE DEF new
  <2> QED
    BY <1>1, <2>1, <2>2, SleepAccount
<1>5. CASE ~(task[t].first \/ u \in tab.persistent)
  <2> DEFINE tb == [tab EXCEPT !.waiters = @ \ {u}]
  <2>1. EndTask(t, tb)
    BY <1>5 DEF ConnectFails
  <2>2. tb \in Tables /\ tb.task = tab.task /\ tb.dial = tab.dial /\ tb.redial = tab.redial
        /\ tb.succeeded = tab.succeeded /\ tb.waiters = tab.waiters \ {u}
    BY <1>2 DEF Tables
  <2>3. (mdns.url = u /\ u \in asked.ended /\ u \notin asked.beside) => u \in mdns.bye
    BY <1>1, <1>3, EndedFacts
  <2> HIDE DEF tb
  <2> QED
    BY <1>1, <2>1, <2>2, <2>3, EndAccount
<1> QED
  BY <1>4, <1>5

LEMMA SessionIsDialed ==
    ASSUME RegistryInv, AccountInv, NEW t \in TaskIds, task[t].pc = "session",
           task[t].url \notin asked.beside
    PROVE  SessionOf(t) = tab.dial[task[t].url]
<1> DEFINE k == tab.dial[task[t].url]
           Last(i) == conn[i].task = t /\ \A j \in ConnIds : conn[j].task = t => j <= i
<1>1. k # 0 /\ Last(k)
  BY DEF AccountInv, TaskStages
<1>2. k \in ConnIds
  <2>1. task[t].url \in Urls
    BY TaskFacts
  <2> QED
    BY <1>1, <2>1, DialFacts
<1>3. \A i \in ConnIds : Last(i) => i = k
  BY <1>1, <1>2 DEF ConnIds
<1>4. SessionOf(t) = CHOOSE i \in ConnIds : Last(i)
  BY DEF SessionOf
<1> HIDE DEF Last
<1> QED
  BY <1>1, <1>2, <1>3, <1>4

LEMMA SessionEndsAccount ==
    ASSUME RegistryInv, AccountInv, NEW t \in TaskIds, SessionEnds(t)
    PROVE  AccountInv'
<1> DEFINE u == task[t].url
           k == SessionOf(t)
<1>1. task[t].pc = "session" /\ ~task[t].cut /\ conn[k].pc = "gone"
  BY DEF SessionEnds
<1>2. u \notin asked.beside => k = tab.dial[u]
  BY <1>1, SessionIsDialed
<1>3. tab \in Tables /\ task \in [TaskIds -> TaskRecord] /\ task[t] \in TaskRecord
      /\ mdns \in [url : Addresses, bye : SUBSET Urls]
      /\ asked \in Wishes
  BY TaskTypes
<1>4. u \in Urls /\ u # NoUrl
  BY <1>1, TaskFacts
<1> HIDE DEF k
<1>5. CASE /\ u \in tab.redial
           /\ task' = [task EXCEPT ![t].pc = "sleep", ![t].first = FALSE]
           /\ UNCHANGED <<tab, conn, client, mdns, asked>>
  <2> DEFINE new == [[task[t] EXCEPT !.pc = "sleep"] EXCEPT !.first = FALSE]
  <2>1. task' = [task EXCEPT ![t] = new]
    BY <1>3, <1>5
  <2>2. new \in TaskRecord /\ new.pc = "sleep" /\ new.url = u /\ new.cut = task[t].cut /\ new.first = FALSE
    BY <1>3 DEF TaskRecord
  <2> HIDE DEF new
  <2> QED
    BY <1>1, <1>5, <2>1, <2>2, SleepAccount
<1>6. CASE /\ u \notin tab.redial /\ ShouldRetry(k)
           /\ task' = [task EXCEPT ![t].pc = "sleep"]
           /\ UNCHANGED <<tab, conn, client, mdns, asked>>
  <2> DEFINE new == [task[t] EXCEPT !.pc = "sleep"]
  <2>1. task' = [task EXCEPT ![t] = new]
    BY <1>6
  <2>2. new \in TaskRecord /\ new.pc = "sleep" /\ new.url = u /\ new.cut = task[t].cut /\ new.first = task[t].first
    BY <1>3 DEF TaskRecord
  <2> HIDE DEF new
  <2> QED
    BY <1>1, <1>2, <1>6, <2>1, <2>2, SleepAccount
<1>7. CASE /\ u \notin tab.redial /\ ~ShouldRetry(k)
           /\ mdns' = IF mdns.url = u /\ EndedWithoutRedial(k)
                      THEN [mdns EXCEPT !.bye = @ \cup {u}] ELSE mdns
           /\ asked' = [asked EXCEPT !.dial = @ \ {u}]
           /\ EndTask(t, tab)
  <2>1. mdns'.url = mdns.url /\ (\A v \in mdns.bye : v \in mdns'.bye)
        /\ ((mdns.url = u /\ EndedWithoutRedial(k)) => u \in mdns'.bye)
    BY <1>3, <1>7
  <2>2. asked'.cut = asked.cut /\ asked'.ended = asked.ended /\ asked'.beside = asked.beside
        /\ \A v \in asked.dial : v = u \/ v \in asked'.dial
    BY <1>3, <1>7
  <2>3. (mdns.url = u /\ u \in asked.ended /\ u \notin asked.beside) => u \in mdns'.bye
    <3>1. (mdns.url = u /\ u \in asked.ended /\ u \notin mdns.bye /\ u \notin asked.beside) => EndedWithoutRedial(k)
      BY <1>2, <1>4, EndedFacts DEF EndedWithoutRedial
    <3> QED
      BY <2>1, <3>1
  <2>4. (u \in tab.waiters /\ u \notin asked.beside) => u \in asked.cut
    BY <1>1, <1>4, <1>7 DEF AccountInv, WaitersServed, OneTask, TaskBegun
  <2> QED
    BY <1>1, <1>3, <1>7, <2>1, <2>2, <2>3, <2>4, EndAccount
<1> QED
  BY <1>5, <1>6, <1>7 DEF SessionEnds, k

LEMMA TaskCancelledAccount ==
    ASSUME RegistryInv, AccountInv, NEW t \in TaskIds, TaskCancelled(t)
    PROVE  AccountInv'
<1> DEFINE u == task[t].url
<1>1. task[t].cut /\ task[t].pc \in {"new", "connecting", "sleep", "session"} /\ mdns' = mdns /\ asked' = asked
  BY DEF TaskCancelled
<1>2. tab \in Tables /\ task \in [TaskIds -> TaskRecord]
  BY TaskTypes
<1>3. u \in Urls /\ u # NoUrl
  BY <1>1, TaskFacts
<1>4. u \in tab.waiters => u \in asked.cut
  BY <1>1 DEF AccountInv, TaskAsked
<1>5. (mdns.url = u /\ u \in asked.ended /\ u \notin asked.beside) => u \in mdns.bye
  BY <1>1, <1>3, EndedFacts
<1>6. CASE task[t].pc = "new"
  <2> DEFINE over == [NewTask EXCEPT !.pc = "done"]
  <2>1. task' = [task EXCEPT ![t] = over] /\ tab' = tab /\ conn' = conn
    BY <1>6 DEF TaskCancelled
  <2>2. over.pc = "done" /\ over.url = NoUrl /\ ~over.cut /\ ~over.first
    BY DEF NewTask
  <2> HIDE DEF over
  <2>3. \A s \in TaskIds : task'[s] = IF s = t THEN over ELSE task[s]
    BY <1>2, <2>1
  <2>4. tab'.redial \in SUBSET Urls /\ tab'.waiters \in SUBSET Urls
    BY <1>2, <2>1 DEF Tables
  <2>5. u \notin asked.beside => \A v \in tab'.redial : v = u => (Disconnecting(tab.dial[v]) /\ ~ShouldRetry(tab.dial[v]))'
    BY <2>1 DEF AccountInv, RedialNoted, Disconnecting, ShouldRetry
  <2>8. \A v \in tab'.redial : v = u => \E s \in TaskIds : task'[s].url = u /\ task'[s].pc # "new"
    <3> SUFFICES ASSUME u \in tab'.redial PROVE \E s \in TaskIds : task'[s].url = u /\ task'[s].pc # "new"
      OBVIOUS
    <3>1. PICK s \in TaskIds : task[s].url = u /\ task[s].pc # "new"
      BY <2>1 DEF AccountInv, RedialHeld
    <3> QED
      BY <1>6, <2>3, <3>1
  <2>6. task'[t].pc = "done" /\ task'[t].url = NoUrl /\ ~task'[t].cut /\ ~task'[t].first
    BY <2>2, <2>3
  <2> HIDE DEF u
  <2>7. u = task[t].url
    BY DEF u
  <2> QED
    BY <1>1, <1>3, <1>4, <1>5, <2>1, <2>3, <2>4, <2>5, <2>6, <2>7, <2>8, OneTaskMoves
<1>7. CASE task[t].pc # "new"
  <2> DEFINE tb == IF task[t].first THEN tab ELSE [tab EXCEPT !.waiters = @ \ {u}]
  <2>1. EndTask(t, tb)
    BY <1>7 DEF TaskCancelled
  <2>2. tb \in Tables /\ tb.task = tab.task /\ tb.dial = tab.dial /\ tb.redial = tab.redial
        /\ tb.succeeded = tab.succeeded /\ \A v \in tb.waiters : v \in tab.waiters
    BY <1>2 DEF Tables
  <2> HIDE DEF tb
  <2> QED
    BY <1>1, <1>4, <1>5, <2>1, <2>2, EndAccount
<1> QED
  BY <1>6, <1>7

-----------------------------------------------------------------------------

LEMMA InitAccount == Init => AccountInv
<1> SUFFICES ASSUME Init PROVE AccountInv
  OBVIOUS
<1>1. NewTask.pc = "none" /\ NewTask.url = NoUrl /\ ~NewTask.cut /\ ~NewTask.first
  BY DEF NewTask
<1>2. /\ \A t \in TaskIds : task[t] = NewTask
      /\ tab.redial = {} /\ tab.waiters = {} /\ asked.ended = {} /\ asked.beside = {}
  BY DEF Init, NewTables
<1> QED
  BY <1>1, <1>2 DEF AccountInv, OneTask, OneTaskPerUrl, TaskAsked, TaskBegun, TaskStages, RedialNoted,
     RedialHeld, WaitersServed, EndedNoted, BesideCut

LEMMA NextAccount == (RegistryInv /\ AccountInv /\ [Next]_vars) => AccountInv'
<1> SUFFICES ASSUME RegistryInv, AccountInv, [Next]_vars PROVE AccountInv'
  OBVIOUS
<1>1. CASE UNCHANGED vars
  BY <1>1, IdleAccount DEF vars
<1>2. CASE Next
  <2>1. CASE \E u \in Urls : ConnectToClient(u, TRUE)
    BY <2>1, ConnectToClientAccount
  <2>2. CASE \E u \in Urls : ConnectAndWait(u)
    BY <2>2, ConnectAndWaitAccount
  <2>3. CASE \E c \in Clients : ReclaimClient(c)
    BY <2>3, ReclaimClientAccount
  <2>4. CASE \E u \in Urls : DisconnectFromClient(u)
    BY <2>4, DisconnectAccount
  <2>5. CASE \E c \in Clients : ExpireReclaim(c)
    BY <2>5, IdleAccount DEF ExpireReclaim
  <2>6. CASE \E c \in Clients : DoCleanup(c)
    BY <2>6, IdleAccount DEF DoCleanup
  <2>7. CASE \E t \in TaskIds : BeginAttempt(t)
    BY <2>7, BeginAttemptAccount
  <2>8. CASE \E t \in TaskIds : Connected(t)
    BY <2>8, ConnectedAccount
  <2>9. CASE \E t \in TaskIds : ConnectFails(t)
    BY <2>9, ConnectFailsAccount
  <2>10. CASE \E t \in TaskIds : SessionEnds(t)
    BY <2>10, SessionEndsAccount
  <2>11. CASE \E t \in TaskIds : TaskCancelled(t)
    BY <2>11, TaskCancelledAccount
  <2>12. CASE Incoming
    BY <2>12, IncomingAccount
  <2>13. CASE \E k \in ConnIds, c \in Clients : Attach(k, c)
    BY <2>13, AttachAccount
  <2>14. CASE \E k \in ConnIds : Activate(k)
    BY <2>14, ActivateAccount
  <2>15. CASE \E k \in ConnIds : MarkConnected(k)
    BY <2>15, IdleAccount DEF MarkConnected
  <2>16. CASE \E k \in ConnIds, r \in Reasons : BeginClose(k, r)
    BY <2>16, BeginCloseAccount
  <2>17. CASE \E k \in ConnIds : CloseDone(k)
    BY <2>17, CloseDoneAccount
  <2>18. CASE \E u \in Urls, b \in BOOLEAN : ServiceAnnounced(u, b)
    BY <2>18, ServiceAnnouncedAccount
  <2>19. CASE \E u \in Urls : ServiceMoved(u)
    BY <2>19, ServiceMovedAccount
  <2>20. CASE ServiceRemoved
    BY <2>20, ServiceRemovedAccount
  <2> QED
    BY <1>2, <2>1, <2>2, <2>3, <2>4, <2>5, <2>6, <2>7, <2>8, <2>9, <2>10, <2>11, <2>12, <2>13,
       <2>14, <2>15, <2>16, <2>17, <2>18, <2>19, <2>20, Zenon DEF Next
<1> QED
  BY <1>1, <1>2

\* AccountInv, what the tasks, the wishes and the waiters say of one another, is inductive; of an
\* address dialed beside a task that is not over it says only that nobody counts on an answer.
THEOREM AccountInvHolds == Spec => []AccountInv
<1>1. RegistryInv /\ AccountInv /\ [Next]_vars => AccountInv'
  BY NextAccount
<1> QED
  BY <1>1, InitAccount, RegistryInvHolds, PTL DEF Spec

\* Whatever is asked of the dialer, an address is dialed by one task, only while somebody wants
\* it dialed, and whoever waits for its connection waits for a task that will tell, or was told
\* (connect_to_client, disconnect_from_client, _handle_client_connection); what is lost when an
\* address is dialed before its earlier task is over, whose end takes the new task out of the
\* tables, is lost until the tasks of that address are over, and for that address alone.
THEOREM DialsAreAccountedFor == Spec => []DialsAreAccounted
<1>1. (RegistryInv /\ AccountInv) => DialsAreAccounted
  <2> SUFFICES ASSUME RegistryInv, AccountInv PROVE DialsAreAccounted
    OBVIOUS
  <2>1. DialsAreAsked
    <3> SUFFICES ASSUME NEW t \in TaskIds, task[t].pc = "connecting", ~task[t].cut
                 PROVE  task[t].url \in asked.dial \/ task[t].url \in asked.beside
      BY DEF DialsAreAsked
    <3>1. task[t].url # NoUrl
      BY TaskFacts
    <3> QED
      BY <3>1 DEF AccountInv, TaskAsked
  <2> QED
    BY <2>1 DEF AccountInv, OneTask, DialsAreAccounted
<1> QED
  BY <1>1, AccountInvHolds, RegistryInvHolds, PTL
=============================================================================
