----------------------- MODULE RealtimeDatabaseProofs -----------------------
(***************************************************************************)
(* The database client for every record, every set of places and values,   *)
(* and every bound on writes and observers: type correctness and the       *)
(* assertions of the client's own code.                                    *)
(***************************************************************************)
EXTENDS RealtimeDatabase, TLAPS, FiniteSetTheorems, SequenceTheorems,
        WellFoundedInduction

(* Writes are numbered below the counter; the event cache needs it, since  *)
(* it looks for the youngest of the writes at a path.                      *)
WriteIds == \A w \in writes : w.id < nextWrite

(* A server that answered the listen has sent the data, and an update of   *)
(* the record never reaches the client before the data it updates.         *)
HasData(d) == \E i \in DOMAIN d : d[i].msg = "data"
Follows(d, c) ==
    \A i \in DOMAIN d : d[i].msg = "update" =>
        c # Missing \/ \E j \in 1 .. (i - 1) : d[j].msg = "data"
DataSent == asked = "active" => cache # Missing \/ HasData(down)
UpdatesFollowData == Follows(down, cache)

(* The inductive invariant behind type correctness. *)
TypeInv == TypeOK /\ WriteIds /\ DataSent /\ UpdatesFollowData

(* There is one listen at a time: its request is under way, or the server  *)
(* works on it, or its answer is under way, and all that time the client   *)
(* counts it as open.                                                      *)
None(q, K) == \A i \in DOMAIN q : q[i] \notin K
Once(q, K) == \A i, j \in DOMAIN q : q[i] \in K /\ q[j] \in K => i = j
ListenRequest == {r \in Request : r.req = "listen"}
ListenAnswer  == {m \in Message : m.msg = "listened"}
OneListen ==
    /\ \/ None(up, ListenRequest)
       \/ Once(up, ListenRequest) /\ awaiting /\ asked = "no"
    /\ \/ None(down, ListenAnswer)
       \/ Once(down, ListenAnswer) /\ awaiting /\ asked = "active"
    /\ asked = "asked" => awaiting
    /\ awaiting => listening
    /\ asked # "no" => listening
    /\ ~link => (up = <<>> /\ down = <<>> /\ asked = "no" /\ ~awaiting)

(* Answers are held back for writes that are in the write tree. *)
HeldWrites == held \subseteq {w.id : w \in writes}

(* The inductive invariant behind the client's assertions. *)
AssertInv == OneListen /\ HeldWrites

-----------------------------------------------------------------------------
(* A set of numbers that is not empty has a least element. *)
LEMMA LeastNatural ==
    ASSUME NEW T, T \subseteq Nat, T # {}
    PROVE  \E m \in T : \A k \in T : m <= k
<1> DEFINE R == OpToRel(<, Nat)
<1>1. IsWellFoundedOn(R, Nat)
  BY NatLessThanWellFounded
<1>2. PICK x \in T : \A y \in T : ~(<<y, x>> \in R)
  <2> HIDE DEF R
  <2> QED BY <1>1, WFMin
<1>3. \A y \in T : <<y, x>> \in R <=> y < x
  BY DEF OpToRel
<1> HIDE DEF R
<1>4. \A y \in T : ~(y < x)
  BY <1>2, <1>3
<1> QED BY <1>4

(* Of writes numbered below n, one is the youngest: the least upper bound  *)
(* of their numbers is one of them.                                        *)
LEMMA Youngest ==
    ASSUME NEW at, at \subseteq Write, at # {}, NEW n \in Nat,
           \A w \in at : w.id < n
    PROVE  \E w \in at : \A v \in at : v.id <= w.id
<1> DEFINE Bound == {k \in Nat : \A v \in at : v.id <= k}
<1>0. \A w \in at : w.id \in Nat
  BY DEF Write
<1>1. n \in Bound
  BY <1>0
<1>2. PICK m \in Bound : \A k \in Bound : m <= k
  BY <1>1, LeastNatural
<1>3. ASSUME \A w \in at : w.id # m PROVE FALSE
  <2>1. m - 1 \in Nat /\ \A v \in at : v.id <= m - 1
    BY <1>0, <1>3
  <2>2. m - 1 \in Bound
    BY <2>1
  <2> QED BY <1>2, <2>1, <2>2
<1> QED BY <1>0, <1>3

(* Laying writes over a record gives a record (calculateCompleteEventCache). *)
LEMMA OverlayType ==
    ASSUME NEW node \in Node, NEW ws, ws \subseteq Write, NEW n \in Nat,
           \A w \in ws : w.id < n
    PROVE  Overlay(node, ws) \in Node
<1> SUFFICES ASSUME NEW p \in Path
             PROVE  Overlay(node, ws)[p] \in Value \cup {Null}
  BY DEF Overlay, Node
<1> DEFINE at == {w \in ws : w.path = p}
           youngest == CHOOSE w \in at : \A v \in at : v.id <= w.id
<1>1. CASE at = {}
  BY <1>1 DEF Overlay, Node
<1>2. CASE at # {}
  <2>1. \E w \in at : \A v \in at : v.id <= w.id
    BY <1>2, Youngest
  <2>2. youngest \in at
    BY <2>1
  <2>3. youngest.val \in Value
    BY <2>2 DEF Write
  <2> QED
    BY <1>2, <2>3 DEF Overlay
<1> QED BY <1>1, <1>2

(* The part of a record an observer is shown makes an event. *)
LEMMA EventType ==
    ASSUME NEW o \in Observer, NEW node \in Node
    PROVE  EventFor(o, node) \in Event
  BY DEF EventFor, Event, At, Node

(* The events a step raises are events, appended to those waiting. *)
LEMMA RaiseType ==
    ASSUME TypeOK, NEW c, NEW ws,
           NEW c2 \in Node \cup {Missing}, NEW ws2, ws2 \subseteq Write,
           NEW n \in Nat, \A w \in ws2 : w.id < n,
           RaiseEvents(c, ws, c2, ws2)
    PROVE  events' \in Seq(Event)
<1>1. CASE c2 = Missing
  BY <1>1 DEF RaiseEvents, TypeOK
<1>2. CASE c2 # Missing
  <2> DEFINE new == Overlay(c2, ws2)
             notified == {o \in observers :
                             \/ c = Missing
                             \/ At(Overlay(c, ws), o.at) # At(new, o.at)}
  <2>1. new \in Node
    BY <1>2, OverlayType
  <2> HIDE DEF new
  <2>2. PICK s \in Ordered(notified, VisitedBefore) :
            events' = events \o [i \in DOMAIN s |-> EventFor(s[i], new)]
    BY <1>2 DEF RaiseEvents, new
  <2>3. Cardinality(notified) \in Nat
    BY FS_Subset, FS_CardinalityType DEF TypeOK
  <2>4. s \in [1 .. Cardinality(notified) -> notified]
    BY DEF Ordered
  <2>5. notified \subseteq Observer
    BY DEF TypeOK
  <2> HIDE DEF notified
  <2>6. \A i \in DOMAIN s : EventFor(s[i], new) \in Event
    BY <2>1, <2>4, <2>5, EventType
  <2> DEFINE raised == [i \in DOMAIN s |-> EventFor(s[i], new)]
  <2>7. raised \in [1 .. Cardinality(notified) -> Event]
    BY <2>4, <2>6
  <2>8. raised \in Seq(Event)
    BY <2>3, <2>7
  <2> QED
    BY <2>2, <2>8, ConcatProperties DEF TypeOK
<1> QED BY <1>1, <1>2

-----------------------------------------------------------------------------
(* What a member of each kind of call carries. *)
LEMMA CallType ==
    ASSUME NEW c \in Call
    PROVE  /\ c.op = "observe" => c.obs \in Observer
           /\ c.op = "remove" => c.handle \in Nat
           /\ c.op = "write" => c.path \in Path /\ c.val \in Value
  BY DEF Call

(* What a put carries. *)
LEMMA RequestType ==
    ASSUME NEW r \in Request, r.req = "put"
    PROVE  r.write \in Write
  BY DEF Request

(* What a member of each kind of message carries. *)
LEMMA MessageType ==
    ASSUME NEW m \in Message
    PROVE  /\ m.msg = "data" => m.node \in Node
           /\ m.msg = "update" => m.path \in Path /\ m.val \in Value
           /\ m.msg = "answer" => m.id \in Nat
  BY DEF Message

(* A call on the serial queue keeps the types. *)
LEMMA ExecuteCallType == TypeInv /\ ExecuteCall => TypeOK' /\ WriteIds'
<1> SUFFICES ASSUME TypeInv, ExecuteCall PROVE TypeOK' /\ WriteIds'
  OBVIOUS
<1> DEFINE c == Head(calls)
<1>0. TypeOK /\ WriteIds
  BY DEF TypeInv
<1>1. c \in Call /\ calls' \in Seq(Call) /\ nextHandle' = nextHandle
  BY <1>0, HeadTailProperties DEF ExecuteCall, TypeOK
<1>2. ASSUME c.op = "observe", addEventRegistration(c.obs)
      PROVE  TypeOK' /\ WriteIds'
  <2>1. c.obs \in Observer
    BY <1>1, <1>2, CallType
  <2> HIDE DEF c
  <2>2. observers' \subseteq Observer /\ IsFiniteSet(observers')
    <3>1. observers' = observers \cup {c.obs}
      BY <1>2 DEF addEventRegistration
    <3>2. IsFiniteSet(observers \cup {c.obs})
      BY <1>0, FS_AddElement DEF TypeOK
    <3> QED
      BY <1>0, <2>1, <3>1, <3>2 DEF TypeOK
  <2>3. up' \in Seq(Request) /\ awaiting' \in BOOLEAN /\ listening' \in BOOLEAN
    <3> DEFINE request == [req |-> "listen"]
    <3>1. request \in Request
      BY DEF Request
    <3>2. up' = Append(up, request) \/ up' = up
      BY <1>2 DEF addEventRegistration
    <3>3. awaiting' \in BOOLEAN /\ listening' \in BOOLEAN
      BY <1>0, <1>2 DEF addEventRegistration, TypeOK
    <3> HIDE DEF request
    <3>4. up' \in Seq(Request)
      BY <1>0, <3>1, <3>2 DEF TypeOK
    <3> QED
      BY <3>3, <3>4
  <2>4. events' \in Seq(Event)
    <3>1. CASE cache = Missing
      BY <1>0, <1>2, <3>1 DEF addEventRegistration, TypeOK
    <3>2. CASE cache # Missing
      <4>1. View \in Node
        BY <1>0, <3>2, OverlayType DEF View, TypeOK, WriteIds
      <4>2. EventFor(c.obs, View) \in Event
        BY <2>1, <4>1, EventType
      <4> QED
        BY <1>0, <1>2, <3>2, <4>2 DEF addEventRegistration, TypeOK
    <3> QED BY <3>1, <3>2
  <2> QED
    BY <1>0, <1>1, <1>2, <2>2, <2>3, <2>4 DEF addEventRegistration, TypeOK, WriteIds
<1>3. ASSUME c.op = "remove", removeEventRegistration(c.handle)
      PROVE  TypeOK' /\ WriteIds'
  <2> HIDE DEF c
  <2>1. observers' \subseteq observers
    BY <1>3 DEF removeEventRegistration
  <2>2. observers' \subseteq Observer /\ IsFiniteSet(observers')
    BY <1>0, <2>1, FS_Subset DEF TypeOK
  <2> QED
    BY <1>0, <1>1, <1>3, <2>2 DEF removeEventRegistration, netVars, TypeOK, WriteIds
<1>4. ASSUME c.op = "write", applyWrite(c.path, c.val)
      PROVE  TypeOK' /\ WriteIds'
  <2>1. c.path \in Path /\ c.val \in Value
    BY <1>1, <1>4, CallType
  <2> DEFINE w == [id |-> nextWrite, path |-> c.path, val |-> c.val]
  <2>2. w \in Write
    BY <1>0, <2>1 DEF Write, TypeOK
  <2> HIDE DEF c
  <2>3. /\ writes' = writes \cup {w} /\ nextWrite' = nextWrite + 1
        /\ RaiseEvents(cache, writes, cache, writes')
        /\ up' = IF link THEN Append(up, [req |-> "put", write |-> w]) ELSE up
        /\ written' = [written EXCEPT ![c.path] = c.val]
    BY <1>4 DEF applyWrite
  <2>4. w.id = nextWrite
    OBVIOUS
  <2> HIDE DEF w
  <2>5. writes' \subseteq Write /\ IsFiniteSet(writes')
    BY <1>0, <2>2, <2>3, FS_AddElement DEF TypeOK
  <2>6. nextWrite' \in Nat /\ \A v \in writes' : v.id < nextWrite'
    BY <1>0, <2>2, <2>3, <2>4 DEF TypeOK, WriteIds, Write
  <2>7. events' \in Seq(Event)
    BY <1>0, <2>3, <2>5, <2>6, RaiseType DEF TypeOK
  <2>8. up' \in Seq(Request)
    <3>1. [req |-> "put", write |-> w] \in Request
      BY <2>2 DEF Request
    <3> QED
      BY <1>0, <2>3, <3>1 DEF TypeOK
  <2>9. written' \in Node
    BY <1>0, <2>1, <2>3 DEF TypeOK, Node
  <2> QED
    BY <1>0, <1>1, <1>4, <2>5, <2>6, <2>7, <2>8, <2>9
    DEF applyWrite, TypeOK, WriteIds
<1> QED
  BY <1>2, <1>3, <1>4 DEF ExecuteCall

(* Acknowledging writes keeps the types of what it changes. *)
LEMMA AckWriteType ==
    ASSUME TypeInv, NEW ids, ackWrite(ids)
    PROVE  /\ writes' \subseteq Write /\ IsFiniteSet(writes')
           /\ events' \in Seq(Event)
           /\ \A w \in writes' : w.id < nextWrite
<1>1. writes' \subseteq writes
  BY DEF ackWrite
<1>2. writes' \subseteq Write /\ IsFiniteSet(writes')
  BY <1>1, FS_Subset DEF TypeInv, TypeOK
<1>3. \A w \in writes' : w.id < nextWrite
  BY <1>1 DEF TypeInv, WriteIds
<1>4. events' \in Seq(Event)
  BY <1>2, <1>3, RaiseType DEF ackWrite, TypeInv, TypeOK
<1> QED BY <1>2, <1>3, <1>4

(* A message from the server keeps the types; an update finds the data it  *)
(* updates in the cache.                                                   *)
LEMMA OnDataMessageType == TypeInv /\ onDataMessage => TypeOK' /\ WriteIds'
<1> SUFFICES ASSUME TypeInv, onDataMessage PROVE TypeOK' /\ WriteIds'
  OBVIOUS
<1> DEFINE m == Head(down)
<1>0. TypeOK /\ WriteIds
  BY DEF TypeInv
<1>1. m \in Message /\ down' \in Seq(Message)
  BY <1>0, HeadTailProperties DEF onDataMessage, TypeOK
<1>2. UNCHANGED <<server, link, asked, up, nextHandle, calls>>
  BY DEF onDataMessage
<1>3. ASSUME NEW node \in Node, ToServerCache(node) PROVE TypeOK' /\ WriteIds'
  <2>1. events' \in Seq(Event)
    BY <1>0, <1>3, RaiseType DEF ToServerCache, TypeOK, WriteIds
  <2> QED
    BY <1>0, <1>1, <1>2, <1>3, <2>1 DEF ToServerCache, TypeOK, WriteIds
<1>4. CASE m.msg = "data" /\ ToServerCache(m.node)
  BY <1>1, <1>3, <1>4, MessageType
<1>5. CASE m.msg = "update" /\ ToServerCache([cache EXCEPT ![m.path] = m.val])
  <2>1. down # <<>> /\ down \in Seq(Message)
    BY <1>0 DEF onDataMessage, TypeOK
  <2>2. 1 \in DOMAIN down /\ down[1] = m
    BY <2>1
  <2>3. cache # Missing
    BY <1>5, <2>2 DEF TypeInv, UpdatesFollowData, Follows
  <2>4. m.path \in Path /\ m.val \in Value
    BY <1>1, <1>5, MessageType
  <2> HIDE DEF m
  <2>5. [cache EXCEPT ![m.path] = m.val] \in Node
    BY <1>0, <2>3, <2>4 DEF TypeOK, Node
  <2> QED
    BY <1>3, <1>5, <2>5
<1>6. CASE onListened
  <2>1. /\ writes' \subseteq Write /\ IsFiniteSet(writes')
        /\ events' \in Seq(Event)
        /\ \A w \in writes' : w.id < nextWrite
    BY <1>6, AckWriteType DEF onListened
  <2>2. awaiting' = FALSE /\ held' = {}
        /\ UNCHANGED <<listening, cache, nextWrite, written, observers>>
    BY <1>6 DEF onListened, ackWrite
  <2>3. held' \in SUBSET Nat /\ awaiting' \in BOOLEAN
    BY <2>2
  <2> QED
    BY <1>0, <1>1, <1>2, <2>1, <2>2, <2>3 DEF TypeOK, WriteIds
<1>7. CASE m.msg = "answer" /\ onAnswer(m.id)
  <2>0. m.id \in Nat
    BY <1>1, <1>7, MessageType
  <2> HIDE DEF m
  <2>1. CASE ~\E w \in Outstanding : w.id = m.id
    BY <1>0, <1>1, <1>2, <1>7, <2>1 DEF onAnswer, clientVars, TypeOK, WriteIds
  <2>2. CASE (\E w \in Outstanding : w.id = m.id) /\ awaiting
    <3>1. held' = held \cup {m.id}
          /\ UNCHANGED <<listening, awaiting, cache, writes, nextWrite, written,
                         observers, events>>
      BY <1>7, <2>2 DEF onAnswer
    <3> QED
      BY <1>0, <1>1, <1>2, <2>0, <3>1 DEF TypeOK, WriteIds
  <2>3. CASE (\E w \in Outstanding : w.id = m.id) /\ ~awaiting
    <3>1. ackWrite({m.id}) /\ UNCHANGED <<held, awaiting>>
      BY <1>7, <2>3 DEF onAnswer
    <3>2. /\ writes' \subseteq Write /\ IsFiniteSet(writes')
          /\ events' \in Seq(Event)
          /\ \A w \in writes' : w.id < nextWrite
      BY <3>1, AckWriteType
    <3>3. UNCHANGED <<listening, cache, nextWrite, written, observers>>
      BY <3>1 DEF ackWrite
    <3> QED
      BY <1>0, <1>1, <1>2, <3>1, <3>2, <3>3 DEF TypeOK, WriteIds
  <2> QED BY <2>1, <2>2, <2>3
<1> QED
  BY <1>4, <1>5, <1>6, <1>7 DEF onDataMessage

(* So do the connection and the server. *)
LEMMA NetworkType ==
    TypeInv /\ (onReady \/ onDisconnect \/ ServerStep) => TypeOK' /\ WriteIds'
<1> SUFFICES ASSUME TypeOK, WriteIds, onReady \/ onDisconnect \/ ServerStep
             PROVE  TypeOK' /\ WriteIds'
  BY DEF TypeInv
<1>1. CASE onReady
  <2>1. PICK s \in Ordered(Outstanding, OlderWrite) : up' = restoreState(s)
    BY <1>1 DEF onReady
  <2>2. Outstanding \subseteq Write /\ Cardinality(Outstanding) \in Nat
    BY FS_Subset, FS_CardinalityType DEF Outstanding, TypeOK
  <2>3. s \in [1 .. Cardinality(Outstanding) -> Outstanding]
    BY DEF Ordered
  <2> DEFINE puts == [i \in DOMAIN s |-> [req |-> "put", write |-> s[i]]]
             listens == IF listening THEN <<[req |-> "listen"]>> ELSE <<>>
  <2>4. \A i \in DOMAIN s : [req |-> "put", write |-> s[i]] \in Request
    BY <2>2, <2>3 DEF Request
  <2>5. puts \in [1 .. Cardinality(Outstanding) -> Request]
    BY <2>3, <2>4
  <2>6. puts \in Seq(Request)
    BY <2>2, <2>5
  <2>7. listens \in Seq(Request)
    <3> DEFINE request == [req |-> "listen"]
    <3>1. request \in Request
      BY DEF Request
    <3> HIDE DEF request
    <3>2. <<request>> \in Seq(Request) /\ <<>> \in Seq(Request)
      BY <3>1
    <3> QED BY <3>2 DEF request
  <2>8. up' = listens \o puts
    BY <2>1 DEF restoreState
  <2> HIDE DEF listens, puts
  <2>9. up' \in Seq(Request)
    BY <2>6, <2>7, <2>8, ConcatProperties
  <2> QED
    BY <1>1, <2>9 DEF onReady, TypeOK, WriteIds
<1>2. CASE onDisconnect
  <2>1. up' \in Seq(Request) /\ down' \in Seq(Message)
    BY <1>2 DEF onDisconnect
  <2> QED
    BY <1>2, <2>1 DEF onDisconnect, TypeOK, WriteIds
<1>3. CASE ServerTakesListen
  <2>1. up' \in Seq(Request)
    BY <1>3 DEF ServerTakesListen, TypeOK
  <2> QED
    BY <1>3, <2>1 DEF ServerTakesListen, clientVars, TypeOK, WriteIds
<1>4. CASE ServerAnswersListen
  <2> DEFINE data == [msg |-> "data", node |-> server]
             listened == [msg |-> "listened"]
  <2>1. data \in Message /\ listened \in Message
    BY DEF Message, TypeOK
  <2>2. down' = down \o <<data, listened>>
    BY <1>4 DEF ServerAnswersListen
  <2> HIDE DEF data, listened
  <2>3. <<data, listened>> \in Seq(Message)
    BY <2>1
  <2>4. down' \in Seq(Message)
    BY <2>2, <2>3, ConcatProperties DEF TypeOK
  <2> QED
    BY <1>4, <2>4 DEF ServerAnswersListen, clientVars, TypeOK, WriteIds
<1>5. CASE ServerTakesPut
  <2> DEFINE w == Head(up).write
             update == [msg |-> "update", path |-> w.path, val |-> w.val]
             ok == [msg |-> "answer", id |-> w.id, ok |-> TRUE]
             refused == [msg |-> "answer", id |-> w.id, ok |-> FALSE]
  <2>1. Head(up) \in Request /\ Tail(up) \in Seq(Request) /\ Head(up).req = "put"
    BY <1>5, HeadTailProperties DEF ServerTakesPut, TypeOK
  <2>2. w \in Write
    BY <2>1, RequestType
  <2> HIDE DEF w
  <2>3. update \in Message /\ ok \in Message /\ refused \in Message
    BY <2>2 DEF Message, Write
  <2>4. \/ /\ server' = [server EXCEPT ![w.path] = w.val]
           /\ down' = down \o (IF asked = "active" THEN <<update>> ELSE <<>>) \o <<ok>>
        \/ server' = server /\ down' = Append(down, refused)
    BY <1>5 DEF ServerTakesPut, w
  <2>5. server' \in Node
    BY <2>2, <2>4 DEF TypeOK, Node, Write
  <2> HIDE DEF update, ok, refused
  <2>6. down' \in Seq(Message)
    <3>1. <<update>> \in Seq(Message) /\ <<ok>> \in Seq(Message)
          /\ <<>> \in Seq(Message) /\ down \in Seq(Message)
      BY <2>3 DEF TypeOK
    <3>2. Append(down, refused) \in Seq(Message)
      BY <2>3, <3>1
    <3> DEFINE updates == IF asked = "active" THEN <<update>> ELSE <<>>
    <3>3. updates \in Seq(Message)
      BY <3>1
    <3>4. \/ server' = server /\ down' = Append(down, refused)
          \/ down' = down \o updates \o <<ok>>
      BY <2>4
    <3> HIDE DEF updates
    <3>5. down \o updates \in Seq(Message)
      BY <3>1, <3>3, ConcatProperties
    <3>6. down \o updates \o <<ok>> \in Seq(Message)
      BY <3>1, <3>5, ConcatProperties
    <3> QED
      BY <3>2, <3>4, <3>6
  <2> QED
    BY <1>5, <2>1, <2>5, <2>6 DEF ServerTakesPut, clientVars, TypeOK, WriteIds
<1> QED
  BY <1>1, <1>2, <1>3, <1>4, <1>5 DEF ServerStep

(* And the app that uses the client. *)
LEMMA AppType ==
    TypeInv /\ (AppWrites \/ AppObserves \/ AppTakesEvent) => TypeOK' /\ WriteIds'
<1> SUFFICES ASSUME TypeOK, WriteIds, AppWrites \/ AppObserves \/ AppTakesEvent
             PROVE  TypeOK' /\ WriteIds'
  BY DEF TypeInv
<1>1. CASE AppWrites
  <2>1. PICK p \in Path, v \in Value :
            calls' = Append(calls, [op |-> "write", path |-> p, val |-> v])
    BY <1>1 DEF AppWrites
  <2>2. [op |-> "write", path |-> p, val |-> v] \in Call
    BY DEF Call
  <2>3. calls' \in Seq(Call)
    BY <2>1, <2>2 DEF TypeOK
  <2> QED
    BY <1>1, <2>3 DEF AppWrites, netVars, clientVars, TypeOK, WriteIds
<1>2. CASE AppObserves
  <2>1. PICK l \in Place, cb \in Callback : calls' = Append(calls, Observe(l, cb))
    BY <1>2 DEF AppObserves
  <2>2. Observe(l, cb) \in Call
    BY DEF Observe, Call, Observer, TypeOK
  <2>3. calls' \in Seq(Call) /\ nextHandle' \in Nat
    BY <1>2, <2>1, <2>2 DEF AppObserves, TypeOK
  <2> QED
    BY <1>2, <2>3 DEF AppObserves, netVars, clientVars, TypeOK, WriteIds
<1>3. CASE AppTakesEvent
  <2> DEFINE remove == [op |-> "remove", handle |-> Head(events).obs.handle]
  <2>1. Head(events) \in Event /\ events' \in Seq(Event)
    BY <1>3, HeadTailProperties DEF AppTakesEvent, TypeOK
  <2>2. remove \in Call
    BY <2>1 DEF Call, Event, Observer
  <2>3. calls' = calls \/ calls' = Append(calls, remove)
    BY <1>3 DEF AppTakesEvent
  <2> HIDE DEF remove
  <2>4. calls' \in Seq(Call)
    <3>1. calls \in Seq(Call) /\ Append(calls, remove) \in Seq(Call)
      BY <2>2 DEF TypeOK
    <3> QED BY <2>3, <3>1
  <2> QED
    BY <1>3, <2>1, <2>4 DEF AppTakesEvent, netVars, clientVars, TypeOK, WriteIds
<1> QED BY <1>1, <1>2, <1>3

-----------------------------------------------------------------------------
(* Messages sent later do not come between an update and its data. *)
LEMMA FollowsConcat ==
    ASSUME NEW d \in Seq(Message), NEW e \in Seq(Message), NEW c, Follows(d, c),
           \A i \in DOMAIN e : e[i].msg = "update" => c # Missing \/ HasData(d)
    PROVE  /\ Follows(d \o e, c)
           /\ HasData(d) \/ HasData(e) => HasData(d \o e)
<1> DEFINE n == Len(d)
           k == Len(e)
           f == d \o e
<1>1. /\ n \in Nat /\ k \in Nat
      /\ DOMAIN d = 1 .. n /\ DOMAIN e = 1 .. k /\ DOMAIN f = 1 .. (n + k)
      /\ \A i \in 1 .. n : f[i] = d[i]
      /\ \A i \in 1 .. k : f[n + i] = e[i]
  BY ConcatProperties, LenProperties
<1> HIDE DEF n, k, f
<1>2. HasData(d) => \E j \in 1 .. n : f[j].msg = "data"
  BY <1>1 DEF HasData
<1>3. HasData(e) => HasData(f)
  <2> SUFFICES ASSUME NEW i \in 1 .. k, e[i].msg = "data" PROVE HasData(f)
    BY <1>1 DEF HasData
  <2>1. n + i \in 1 .. (n + k) /\ f[n + i].msg = "data"
    BY <1>1
  <2> QED BY <1>1, <2>1 DEF HasData
<1>4. HasData(d) => HasData(f)
  BY <1>1, <1>2 DEF HasData
<1>5. Follows(f, c)
  <2> SUFFICES ASSUME NEW i \in 1 .. (n + k), f[i].msg = "update", c = Missing
               PROVE  \E j \in 1 .. (i - 1) : f[j].msg = "data"
    BY <1>1 DEF Follows
  <2>1. CASE i <= n
    <3>1. i \in 1 .. n /\ d[i].msg = "update"
      BY <1>1, <2>1
    <3>2. PICK j \in 1 .. (i - 1) : d[j].msg = "data"
      BY <1>1, <3>1 DEF Follows
    <3>3. j \in 1 .. n
      BY <1>1, <3>1
    <3> QED BY <1>1, <3>2, <3>3
  <2>2. CASE i > n
    <3>1. i - n \in 1 .. k /\ f[n + (i - n)] = e[i - n] /\ n + (i - n) = i
      BY <1>1, <2>2
    <3>2. HasData(d)
      BY <1>1, <3>1
    <3>3. PICK j \in 1 .. n : f[j].msg = "data"
      BY <1>2, <3>2
    <3>4. j \in 1 .. (i - 1)
      BY <1>1, <2>2
    <3> QED BY <3>3, <3>4
  <2> QED BY <1>1, <2>1, <2>2
<1> QED BY <1>3, <1>4, <1>5 DEF f

(* Handling a message that is not the data moves the others one place      *)
(* forward, and what an update waits for with it.                          *)
LEMMA FollowsTail ==
    ASSUME NEW d \in Seq(Message), d # <<>>, NEW c, Follows(d, c)
    PROVE  /\ d[1].msg # "data" \/ c # Missing => Follows(Tail(d), c)
           /\ d[1].msg # "data" => (HasData(d) => HasData(Tail(d)))
           /\ \A b : b # Missing => Follows(Tail(d), b)
<1> DEFINE n == Len(d)
           t == Tail(d)
<1>1. /\ n \in Nat \ {0} /\ DOMAIN d = 1 .. n /\ DOMAIN t = 1 .. (n - 1)
      /\ \A i \in 1 .. (n - 1) : t[i] = d[i + 1]
  BY HeadTailProperties, LenProperties, EmptySeq
<1> HIDE DEF n, t
<1>2. ASSUME NEW j \in 1 .. n, j # 1, d[j].msg = "data"
      PROVE  j - 1 \in 1 .. (n - 1) /\ t[j - 1].msg = "data"
  <2>1. j - 1 \in 1 .. (n - 1) /\ (j - 1) + 1 = j
    BY <1>1, <1>2
  <2> QED BY <1>1, <1>2, <2>1
<1>3. d[1].msg # "data" => (HasData(d) => HasData(t))
  BY <1>1, <1>2 DEF HasData
<1>4. \A b : b # Missing => Follows(t, b)
  BY DEF Follows
<1>5. ASSUME d[1].msg # "data", c = Missing PROVE Follows(t, c)
  <2> SUFFICES ASSUME NEW i \in 1 .. (n - 1), t[i].msg = "update"
               PROVE  \E j \in 1 .. (i - 1) : t[j].msg = "data"
    BY <1>1 DEF Follows
  <2>1. i + 1 \in 1 .. n /\ d[i + 1].msg = "update"
    BY <1>1
  <2>2. PICK j \in 1 .. ((i + 1) - 1) : d[j].msg = "data"
    BY <1>1, <1>5, <2>1 DEF Follows
  <2>3. j \in 1 .. n /\ j # 1
    BY <1>1, <1>5, <2>2
  <2>4. j - 1 \in 1 .. (i - 1) /\ t[j - 1].msg = "data"
    BY <1>2, <2>2, <2>3
  <2> QED BY <2>4
<1> QED BY <1>3, <1>4, <1>5 DEF t

(* The step of the two conjuncts on the data of the listen. *)
LEMMA DataStep == TypeInv /\ [Next]_vars => DataSent' /\ UpdatesFollowData'
<1> SUFFICES ASSUME TypeInv, [Next]_vars PROVE DataSent' /\ UpdatesFollowData'
  OBVIOUS
<1>0. down \in Seq(Message) /\ DataSent /\ Follows(down, cache) /\ up \in Seq(Request)
  BY DEF TypeInv, TypeOK, UpdatesFollowData
<1>1. CASE UNCHANGED <<asked, cache, down>>
  BY <1>0, <1>1 DEF DataSent, UpdatesFollowData
<1>2. CASE onDisconnect
  BY <1>2 DEF onDisconnect, DataSent, UpdatesFollowData, Follows
<1>3. CASE ServerTakesListen
  BY <1>0, <1>3 DEF ServerTakesListen, clientVars, DataSent, UpdatesFollowData
<1>4. CASE ServerAnswersListen
  <2> DEFINE data == [msg |-> "data", node |-> server]
             listened == [msg |-> "listened"]
             e == <<data, listened>>
  <2>1. down' = down \o e /\ cache' = cache
    BY <1>4 DEF ServerAnswersListen, clientVars
  <2>2. data \in Message /\ listened \in Message
    BY DEF Message, TypeInv, TypeOK
  <2>3. data.msg = "data" /\ listened.msg = "listened"
    OBVIOUS
  <2> HIDE DEF data, listened
  <2>4. e \in Seq(Message) /\ DOMAIN e = {1, 2} /\ e[1] = data /\ e[2] = listened
    BY <2>2
  <2> HIDE DEF e
  <2>5. HasData(e) /\ \A i \in DOMAIN e : e[i].msg # "update"
    BY <2>3, <2>4 DEF HasData
  <2>6. Follows(down \o e, cache) /\ HasData(down \o e)
    BY <1>0, <2>4, <2>5, FollowsConcat
  <2> QED BY <2>1, <2>6 DEF DataSent, UpdatesFollowData
<1>5. CASE ServerTakesPut
  <2> DEFINE w == Head(up).write
             update == [msg |-> "update", path |-> w.path, val |-> w.val]
             ok == [msg |-> "answer", id |-> w.id, ok |-> TRUE]
             refused == [msg |-> "answer", id |-> w.id, ok |-> FALSE]
             u == IF asked = "active" THEN <<update>> ELSE <<>>
  <2>1. w \in Write
    BY <1>0, <1>5, HeadTailProperties, RequestType DEF ServerTakesPut
  <2>2. /\ cache' = cache /\ asked' = asked
        /\ down' = (down \o u) \o <<ok>> \/ down' = Append(down, refused)
    BY <1>5 DEF ServerTakesPut, clientVars
  <2> HIDE DEF w
  <2>3. update \in Message /\ ok \in Message /\ refused \in Message
    BY <2>1 DEF Message, Write
  <2>4. ok.msg # "update" /\ refused.msg # "update"
    OBVIOUS
  <2> HIDE DEF update, ok, refused
  <2>5. u \in Seq(Message) /\ (asked # "active" => u = <<>>)
    BY <2>3
  <2> HIDE DEF u
  <2>6. ASSUME NEW a \in Message, NEW d \in Seq(Message), a.msg # "update",
               Follows(d, cache)
        PROVE  Follows(d \o <<a>>, cache) /\ (HasData(d) => HasData(d \o <<a>>))
    <3>1. <<a>> \in Seq(Message) /\ \A i \in DOMAIN <<a>> : <<a>>[i].msg # "update"
      BY <2>6
    <3> QED BY <2>6, <3>1, FollowsConcat
  <2>7. Follows(down \o u, cache) /\ (HasData(down) => HasData(down \o u))
        /\ down \o u \in Seq(Message)
    <3>1. \A i \in DOMAIN u : u[i].msg = "update" => cache # Missing \/ HasData(down)
      BY <1>0, <2>5 DEF DataSent
    <3> QED BY <1>0, <2>5, <3>1, FollowsConcat, ConcatProperties
  <2>8. CASE down' = (down \o u) \o <<ok>>
    <3>1. Follows(down', cache) /\ (HasData(down) => HasData(down'))
      BY <2>3, <2>4, <2>6, <2>7, <2>8
    <3> QED BY <1>0, <2>2, <3>1 DEF DataSent, UpdatesFollowData
  <2>9. CASE down' = Append(down, refused)
    <3>1. Append(down, refused) = down \o <<refused>>
      BY <1>0, <2>3
    <3>2. Follows(down', cache) /\ (HasData(down) => HasData(down'))
      BY <1>0, <2>3, <2>4, <2>6, <2>9, <3>1
    <3> QED BY <1>0, <2>2, <3>2 DEF DataSent, UpdatesFollowData
  <2> QED BY <2>2, <2>8, <2>9
<1>6. CASE onDataMessage
  <2> DEFINE m == Head(down)
  <2>1. down # <<>> /\ down' = Tail(down) /\ asked' = asked
    BY <1>6 DEF onDataMessage
  <2>2. m = down[1] /\ m \in Message
    BY <1>0, <2>1
  <2>3. CASE m.msg = "data"
    <3>1. cache' = m.node /\ m.node \in Node
      BY <1>6, <2>2, <2>3, MessageType DEF onDataMessage, ToServerCache
    <3>2. cache' # Missing
      BY <3>1, PathAssumption DEF Node
    <3> QED
      BY <1>0, <2>1, <3>2, FollowsTail DEF DataSent, UpdatesFollowData
  <2>4. CASE m.msg = "update"
    <3>1. 1 \in DOMAIN down
      BY <1>0, <2>1
    <3>2. cache # Missing
      BY <1>0, <2>2, <2>4, <3>1 DEF Follows
    <3>3. m.path \in Path /\ m.val \in Value
      BY <2>2, <2>4, MessageType
    <3>4. cache' = [cache EXCEPT ![m.path] = m.val]
      BY <1>6, <2>4 DEF onDataMessage, ToServerCache
    <3> HIDE DEF m
    <3>5. cache' \in Node
      BY <3>2, <3>3, <3>4 DEF TypeInv, TypeOK, Node
    <3>6. cache' # Missing
      BY <3>5, PathAssumption DEF Node
    <3> QED
      BY <1>0, <2>1, <3>6, FollowsTail DEF DataSent, UpdatesFollowData
  <2>5. CASE m.msg \notin {"data", "update"}
    <3>1. cache' = cache
      BY <1>6, <2>5 DEF onDataMessage, onListened, onAnswer, ackWrite, clientVars
    <3> QED
      BY <1>0, <2>1, <2>2, <2>5, <3>1, FollowsTail DEF DataSent, UpdatesFollowData
  <2> QED BY <2>3, <2>4, <2>5
<1>7. CASE ExecuteCall \/ onReady \/ AppWrites \/ AppObserves \/ AppTakesEvent
  BY <1>1, <1>7 DEF ExecuteCall, addEventRegistration, removeEventRegistration,
                    applyWrite, onReady, AppWrites, AppObserves, AppTakesEvent,
                    netVars, clientVars
<1>8. CASE UNCHANGED vars
  BY <1>1, <1>8 DEF vars, netVars, clientVars
<1> QED
  BY <1>2, <1>3, <1>4, <1>5, <1>6, <1>7, <1>8
  DEF Next, DatabaseNext, ClientStep, ServerStep

-----------------------------------------------------------------------------
(* The launch satisfies the invariant. *)
LEMMA TypeInvInit == Init => TypeInv
<1> SUFFICES ASSUME Init PROVE TypeInv
  OBVIOUS
<1>1. EmptyNode \in Node
  BY DEF EmptyNode, Node
<1>2. calls \in Seq(Call)
  <2>1. PICK cb \in Callback :
           calls = <<[op |-> "observe", obs |-> [handle |-> 0, at |-> Root, cb |-> cb]]>>
    BY DEF Init
  <2> DEFINE c == [op |-> "observe", obs |-> [handle |-> 0, at |-> Root, cb |-> cb]]
  <2>2. c \in Call
    BY PlaceAssumption DEF Call, Observer
  <2> HIDE DEF c
  <2> QED BY <2>1, <2>2 DEF c
<1>3. up \in Seq(Request) /\ down \in Seq(Message) /\ events \in Seq(Event)
  BY DEF Init, FreshClient
<1>4. IsFiniteSet(writes) /\ IsFiniteSet(observers)
  BY FS_EmptySet DEF Init, FreshClient
<1>5. TypeOK
  BY <1>1, <1>2, <1>3, <1>4 DEF Init, FreshClient, TypeOK
<1>6. WriteIds /\ DataSent
  BY DEF Init, FreshClient, WriteIds, DataSent
<1>7. UpdatesFollowData
  BY DEF Init, FreshClient, UpdatesFollowData, Follows
<1> QED BY <1>5, <1>6, <1>7 DEF TypeInv

(* Every step keeps the invariant. *)
LEMMA TypeInvStep == TypeInv /\ [Next]_vars => TypeInv'
<1> SUFFICES ASSUME TypeInv, [Next]_vars PROVE TypeInv'
  OBVIOUS
<1>1. TypeOK' /\ WriteIds'
  <2>1. CASE ExecuteCall
    BY <2>1, ExecuteCallType
  <2>2. CASE onDataMessage
    BY <2>2, OnDataMessageType
  <2>3. CASE onReady \/ onDisconnect \/ ServerStep
    BY <2>3, NetworkType
  <2>4. CASE AppWrites \/ AppObserves \/ AppTakesEvent
    BY <2>4, AppType
  <2>5. CASE UNCHANGED vars
    BY <2>5 DEF TypeInv, TypeOK, WriteIds, vars, netVars, clientVars
  <2> QED
    BY <2>1, <2>2, <2>3, <2>4, <2>5 DEF Next, DatabaseNext, ClientStep
<1> QED BY <1>1, DataStep DEF TypeInv

(* TypeInv is an invariant of the client. *)
THEOREM TypeInvariance == Spec => []TypeInv
  BY TypeInvInit, TypeInvStep, PTL DEF Spec

(* The client's state is well typed: in particular no update of the record *)
(* is applied to a view that has no server data, and every event shows a   *)
(* complete part of the record.                                            *)
THEOREM TypeCorrect == Spec => []TypeOK
<1>1. TypeInv => TypeOK
  BY DEF TypeInv
<1> QED BY <1>1, TypeInvariance, PTL

-----------------------------------------------------------------------------
(* Elements of K in a sequence that is extended. *)
LEMMA ConcatMarks ==
    ASSUME NEW T, NEW K, NEW q \in Seq(T), NEW e \in Seq(T)
    PROVE  /\ None(q, K) /\ None(e, K) => None(q \o e, K)
           /\ Once(q, K) /\ None(e, K) => Once(q \o e, K)
           /\ None(q, K) /\ Once(e, K) => Once(q \o e, K)
<1> DEFINE r == q \o e
<1>1. /\ Len(r) = Len(q) + Len(e) /\ Len(q) \in Nat /\ Len(e) \in Nat
      /\ DOMAIN r = 1 .. Len(r) /\ DOMAIN q = 1 .. Len(q) /\ DOMAIN e = 1 .. Len(e)
  BY ConcatProperties, LenProperties
<1>2. \A i \in DOMAIN r : \/ i \in DOMAIN q /\ r[i] = q[i]
                          \/ i - Len(q) \in DOMAIN e /\ r[i] = e[i - Len(q)]
  BY <1>1, ConcatProperties
<1> HIDE DEF r
<1>3. None(q, K) /\ None(e, K) => None(r, K)
  BY <1>2 DEF None
<1>4. Once(q, K) /\ None(e, K) => Once(r, K)
  BY <1>2 DEF None, Once
<1>5. None(q, K) /\ Once(e, K) => Once(r, K)
  <2> SUFFICES ASSUME None(q, K), Once(e, K),
                      NEW i \in DOMAIN r, NEW j \in DOMAIN r, r[i] \in K, r[j] \in K
               PROVE  i = j
    BY DEF Once
  <2>1. i - Len(q) = j - Len(q)
    BY <1>2 DEF None, Once
  <2> QED BY <1>1, <2>1
<1> QED BY <1>3, <1>4, <1>5 DEF r

(* Elements of K in a sequence whose head is taken. *)
LEMMA TailMarks ==
    ASSUME NEW T, NEW K, NEW q \in Seq(T), q # <<>>
    PROVE  /\ None(q, K) => None(Tail(q), K) /\ Head(q) \notin K
           /\ Once(q, K) => Once(Tail(q), K)
           /\ Once(q, K) /\ Head(q) \in K => None(Tail(q), K)
<1> DEFINE t == Tail(q)
<1>1. /\ Len(q) \in Nat /\ Len(q) > 0 /\ DOMAIN q = 1 .. Len(q) /\ Head(q) = q[1]
      /\ Len(t) = Len(q) - 1 /\ DOMAIN t = 1 .. Len(t)
      /\ \A i \in 1 .. Len(t) : t[i] = q[i + 1]
  BY HeadTailProperties, LenProperties
<1> HIDE DEF t
<1>2. \A i \in DOMAIN t : i + 1 \in DOMAIN q /\ i + 1 # 1 /\ t[i] = q[i + 1]
  BY <1>1
<1>3. None(q, K) => None(t, K) /\ Head(q) \notin K
  BY <1>1, <1>2 DEF None
<1>4. Once(q, K) => Once(t, K)
  <2> SUFFICES ASSUME Once(q, K), NEW i \in DOMAIN t, NEW j \in DOMAIN t,
                      t[i] \in K, t[j] \in K
               PROVE  i = j
    BY DEF Once
  <2>1. i + 1 = j + 1
    BY <1>2 DEF Once
  <2> QED BY <1>1, <2>1
<1>5. Once(q, K) /\ Head(q) \in K => None(t, K)
  <2>1. 1 \in DOMAIN q
    BY <1>1
  <2> QED BY <1>1, <1>2, <2>1 DEF Once, None
<1> QED BY <1>3, <1>4, <1>5 DEF t

(* A sequence of one element that is not in K, or is. *)
LEMMA SingleMarks ==
    ASSUME NEW K, NEW x
    PROVE  Once(<<x>>, K) /\ (x \notin K => None(<<x>>, K))
  BY DEF Once, None

-----------------------------------------------------------------------------
(* The listen's request and answer, over the calls of the app. *)
LEMMA CallListen == TypeInv /\ AssertInv /\ ExecuteCall => OneListen'
<1> SUFFICES ASSUME TypeInv, OneListen, ExecuteCall PROVE OneListen'
  BY DEF AssertInv
<1>0. up \in Seq(Request) /\ calls \in Seq(Call)
  BY DEF TypeInv, TypeOK
<1> DEFINE c == Head(calls)
<1>1. c \in Call
  BY <1>0, HeadTailProperties DEF ExecuteCall
<1>2. CASE c.op = "observe"
  <2>0. addEventRegistration(c.obs)
    BY <1>2 DEF ExecuteCall
  <2> HIDE DEF c
  <2>1. CASE ~listening /\ link
    <3> DEFINE l == [req |-> "listen"]
    <3>1. /\ up' = Append(up, l) /\ awaiting' = TRUE /\ listening' = TRUE
          /\ asked' = asked /\ down' = down /\ link' = link
      BY <2>0, <2>1 DEF addEventRegistration
    <3>2. l \in Request
      BY DEF Request
    <3> HIDE DEF l
    <3>3. None(up, ListenRequest) /\ None(down, ListenAnswer) /\ asked = "no"
      BY <2>1 DEF OneListen, TypeInv, TypeOK
    <3>4. Append(up, l) = up \o <<l>> /\ <<l>> \in Seq(Request)
      BY <1>0, <3>2
    <3>5. Once(up', ListenRequest)
      <4>1. Once(<<l>>, ListenRequest)
        BY SingleMarks
      <4>2. Once(up \o <<l>>, ListenRequest)
        BY <1>0, <3>3, <3>4, <4>1, ConcatMarks
      <4>3. up' = up \o <<l>>
        BY <3>1, <3>4
      <4> QED BY <4>2, <4>3
    <3> QED BY <2>1, <3>1, <3>3, <3>5 DEF OneListen
  <2>2. CASE ~(~listening /\ link)
    <3>1. /\ up' = up /\ awaiting' = awaiting /\ listening' = TRUE
          /\ asked' = asked /\ down' = down /\ link' = link
      BY <2>0, <2>2 DEF addEventRegistration
    <3> QED BY <3>1 DEF OneListen
  <2> QED BY <2>1, <2>2
<1>3. CASE c.op = "remove"
  BY <1>3 DEF ExecuteCall, removeEventRegistration, netVars, OneListen
<1>4. CASE c.op = "write"
  <2> DEFINE w == [id |-> nextWrite, path |-> c.path, val |-> c.val]
             put == [req |-> "put", write |-> w]
  <2>1. /\ up' = IF link THEN Append(up, put) ELSE up
        /\ UNCHANGED <<link, asked, down, listening, awaiting>>
    BY <1>4 DEF ExecuteCall, applyWrite
  <2>2. w \in Write
    BY <1>1, <1>4, CallType DEF Write, TypeInv, TypeOK
  <2> HIDE DEF w, c
  <2>3. put \in Request /\ put.req # "listen"
    BY <2>2 DEF Request
  <2> HIDE DEF put
  <2>4. CASE link
    <3>1. up' = up \o <<put>> /\ <<put>> \in Seq(Request)
      BY <1>0, <2>1, <2>3, <2>4
    <3>2. None(<<put>>, ListenRequest)
      BY <2>3, SingleMarks DEF ListenRequest
    <3>3. /\ None(up, ListenRequest) => None(up', ListenRequest)
          /\ Once(up, ListenRequest) => Once(up', ListenRequest)
      BY <1>0, <3>1, <3>2, ConcatMarks
    <3> QED BY <2>1, <2>4, <3>3 DEF OneListen
  <2>5. CASE ~link
    BY <2>1, <2>5 DEF OneListen
  <2> QED BY <2>4, <2>5
<1> QED BY <1>1, <1>2, <1>3, <1>4 DEF ExecuteCall

(* Over connections: a new one sends the listen once. *)
LEMMA LinkListen == TypeInv /\ AssertInv /\ (onReady \/ onDisconnect) => OneListen'
<1> SUFFICES ASSUME TypeInv, OneListen, onReady \/ onDisconnect PROVE OneListen'
  BY DEF AssertInv
<1>1. CASE onDisconnect
  <2>1. up' = <<>> /\ down' = <<>> /\ asked' = "no" /\ ~awaiting'
    BY <1>1 DEF onDisconnect
  <2>2. None(up', ListenRequest) /\ None(down', ListenAnswer)
    BY <2>1 DEF None
  <2> QED BY <2>1, <2>2 DEF OneListen
<1>2. CASE onReady
  <2>1. PICK s \in Ordered(Outstanding, OlderWrite) : up' = restoreState(s)
    BY <1>2 DEF onReady
  <2> DEFINE n == Cardinality(Outstanding)
             puts == [i \in DOMAIN s |-> [req |-> "put", write |-> s[i]]]
             l == [req |-> "listen"]
             first == IF listening THEN <<l>> ELSE <<>>
  <2>2. /\ awaiting' = listening /\ listening' = listening /\ asked' = asked
        /\ down' = down /\ link' = TRUE /\ ~link
    BY <1>2 DEF onReady
  <2>3. asked = "no" /\ down = <<>>
    BY <2>2 DEF OneListen
  <2>4. s \in [1 .. n -> Outstanding] /\ n \in Nat
    BY FS_Subset, FS_CardinalityType DEF Ordered, Outstanding, TypeInv, TypeOK
  <2> HIDE DEF n
  <2>5. \A i \in 1 .. n : s[i] \in Write
    BY <2>4 DEF Outstanding, TypeInv, TypeOK
  <2>6. puts \in Seq(Request)
    <3>1. \A i \in 1 .. n : puts[i] \in Request
      BY <2>4, <2>5 DEF Request
    <3>2. DOMAIN puts = 1 .. n /\ puts = [i \in 1 .. n |-> puts[i]]
      BY <2>4
    <3> HIDE DEF puts
    <3>3. puts \in [1 .. n -> Request]
      BY <3>1, <3>2
    <3> QED BY <2>4, <3>3
  <2>7. None(puts, ListenRequest)
    BY <2>4 DEF None, ListenRequest
  <2>8. up' = first \o puts
    BY <2>1 DEF restoreState
  <2>9. l \in Request
    BY DEF Request
  <2> HIDE DEF l, puts
  <2>10. first \in Seq(Request)
    BY <2>9
  <2>11. Once(first, ListenRequest) /\ (~listening => None(first, ListenRequest))
    <3>1. Once(<<>>, ListenRequest) /\ None(<<>>, ListenRequest)
      BY DEF Once, None
    <3> QED BY <3>1, SingleMarks
  <2> HIDE DEF first
  <2>12. Once(up', ListenRequest) /\ (~listening => None(up', ListenRequest))
    BY <2>6, <2>7, <2>8, <2>10, <2>11, ConcatMarks
  <2>13. None(down', ListenAnswer)
    BY <2>2, <2>3 DEF None
  <2> QED
    <3>1. CASE listening
      BY <2>2, <2>3, <2>12, <2>13, <3>1 DEF OneListen
    <3>2. CASE ~listening
      BY <2>2, <2>3, <2>12, <2>13, <3>2 DEF OneListen
    <3> QED BY <3>1, <3>2
<1> QED BY <1>1, <1>2

(* Over the server's steps: the answer is sent when the request is gone. *)
LEMMA ServerListen == TypeInv /\ AssertInv /\ ServerStep => OneListen'
<1> SUFFICES ASSUME TypeInv, OneListen, ServerStep PROVE OneListen'
  BY DEF AssertInv
<1>0. up \in Seq(Request) /\ down \in Seq(Message) /\ asked \in {"no", "asked", "active"}
  BY DEF TypeInv, TypeOK
<1>1. CASE ServerTakesListen
  <2>1. /\ up # <<>> /\ Head(up).req = "listen" /\ up' = Tail(up) /\ asked' = "asked"
        /\ UNCHANGED <<link, down, listening, awaiting>>
    BY <1>1 DEF ServerTakesListen, clientVars
  <2>2. Head(up) \in ListenRequest
    BY <1>0, <2>1, HeadTailProperties DEF ListenRequest
  <2>3. ~None(up, ListenRequest)
    BY <1>0, <2>1, <2>2, TailMarks
  <2>4. None(up', ListenRequest)
    BY <1>0, <2>1, <2>2, <2>3, TailMarks DEF OneListen
  <2> QED BY <2>1, <2>3, <2>4 DEF OneListen
<1>2. CASE ServerAnswersListen
  <2> DEFINE data == [msg |-> "data", node |-> server]
             listened == [msg |-> "listened"]
             e == <<data, listened>>
  <2>1. /\ asked = "asked" /\ asked' = "active" /\ down' = down \o e
        /\ UNCHANGED <<link, up, listening, awaiting>>
    BY <1>2 DEF ServerAnswersListen, clientVars
  <2>2. data \in Message /\ listened \in Message /\ data.msg # "listened"
    BY DEF Message, TypeInv, TypeOK
  <2> HIDE DEF data, listened
  <2>3. e \in Seq(Message) /\ DOMAIN e = {1, 2} /\ e[1] = data
    BY <2>2
  <2> HIDE DEF e
  <2>4. Once(e, ListenAnswer)
    BY <2>2, <2>3 DEF Once, ListenAnswer
  <2>5. None(up, ListenRequest) /\ None(down, ListenAnswer) /\ awaiting
    BY <2>1 DEF OneListen
  <2>6. Once(down', ListenAnswer)
    BY <1>0, <2>1, <2>3, <2>4, <2>5, ConcatMarks
  <2> QED BY <2>1, <2>5, <2>6 DEF OneListen
<1>3. CASE ServerTakesPut
  <2> DEFINE w == Head(up).write
             update == [msg |-> "update", path |-> w.path, val |-> w.val]
             ok == [msg |-> "answer", id |-> w.id, ok |-> TRUE]
             refused == [msg |-> "answer", id |-> w.id, ok |-> FALSE]
             u == IF asked = "active" THEN <<update>> ELSE <<>>
  <2>1. w \in Write
    BY <1>0, <1>3, HeadTailProperties, RequestType DEF ServerTakesPut
  <2>2. /\ UNCHANGED <<link, asked, listening, awaiting>>
        /\ up # <<>> /\ up' = Tail(up)
        /\ down' = (down \o u) \o <<ok>> \/ down' = Append(down, refused)
    BY <1>3 DEF ServerTakesPut, clientVars
  <2> HIDE DEF w
  <2>3. update \in Message /\ ok \in Message /\ refused \in Message
    BY <2>1 DEF Message, Write
  <2>4. {update, ok, refused} \cap ListenAnswer = {}
    BY DEF ListenAnswer
  <2> HIDE DEF update, ok, refused
  <2>5. u \in Seq(Message) /\ <<ok>> \in Seq(Message) /\ <<refused>> \in Seq(Message)
    BY <2>3
  <2>6. None(u, ListenAnswer) /\ None(<<ok>>, ListenAnswer) /\ None(<<refused>>, ListenAnswer)
    <3>1. None(<<>>, ListenAnswer)
      BY DEF None
    <3> QED BY <2>4, <3>1, SingleMarks
  <2> HIDE DEF u
  <2>7. /\ None(down, ListenAnswer) => None(down', ListenAnswer)
        /\ Once(down, ListenAnswer) => Once(down', ListenAnswer)
    <3>1. CASE down' = (down \o u) \o <<ok>>
      <4>1. /\ down \o u \in Seq(Message)
            /\ None(down, ListenAnswer) => None(down \o u, ListenAnswer)
            /\ Once(down, ListenAnswer) => Once(down \o u, ListenAnswer)
        BY <1>0, <2>5, <2>6, ConcatMarks, ConcatProperties
      <4> QED BY <2>5, <2>6, <3>1, <4>1, ConcatMarks
    <3>2. CASE down' = Append(down, refused)
      <4>1. Append(down, refused) = down \o <<refused>>
        BY <1>0, <2>3
      <4> QED BY <1>0, <2>5, <2>6, <3>2, <4>1, ConcatMarks
    <3> QED BY <2>2, <3>1, <3>2
  <2>8. /\ None(up, ListenRequest) => None(up', ListenRequest)
        /\ Once(up, ListenRequest) => Once(up', ListenRequest)
    BY <1>0, <2>2, TailMarks
  <2>9. link
    BY <2>2 DEF OneListen
  <2> QED BY <2>2, <2>7, <2>8, <2>9 DEF OneListen
<1> QED BY <1>1, <1>2, <1>3 DEF ServerStep

(* Over the messages: the answer that arrives closes the open listen. *)
LEMMA MessageListen == TypeInv /\ AssertInv /\ onDataMessage => OneListen'
<1> SUFFICES ASSUME TypeInv, OneListen, onDataMessage PROVE OneListen'
  BY DEF AssertInv
<1> DEFINE m == Head(down)
<1>0. down \in Seq(Message) /\ down # <<>> /\ m \in Message
  BY HeadTailProperties DEF TypeInv, TypeOK, onDataMessage
<1>1. down' = Tail(down) /\ UNCHANGED <<link, asked, up>>
  BY DEF onDataMessage
<1>2. /\ None(down, ListenAnswer) => None(down', ListenAnswer)
      /\ Once(down, ListenAnswer) => Once(down', ListenAnswer)
  BY <1>0, <1>1, TailMarks
<1>3. listening' = listening
  BY DEF onDataMessage, ToServerCache, onListened, onAnswer, ackWrite, clientVars
<1>4. link
  BY <1>0 DEF OneListen
<1>5. CASE m.msg = "listened"
  <2>1. m \in ListenAnswer
    BY <1>0, <1>5 DEF ListenAnswer
  <2>2. ~None(down, ListenAnswer)
    BY <1>0, <2>1, TailMarks
  <2>3. Once(down, ListenAnswer) /\ asked = "active" /\ listening
    BY <2>2 DEF OneListen
  <2>4. None(up, ListenRequest)
    BY <2>3 DEF OneListen
  <2>5. None(down', ListenAnswer)
    BY <1>0, <1>1, <2>1, <2>3, TailMarks
  <2>6. awaiting' = FALSE
    BY <1>5 DEF onDataMessage, onListened
  <2> QED BY <1>1, <1>3, <1>4, <2>3, <2>4, <2>5, <2>6 DEF OneListen
<1>6. CASE m.msg # "listened"
  <2>1. awaiting' = awaiting
    BY <1>6 DEF onDataMessage, ToServerCache, onAnswer, ackWrite, clientVars
  <2> QED BY <1>1, <1>2, <1>3, <1>4, <2>1 DEF OneListen
<1> QED BY <1>5, <1>6

-----------------------------------------------------------------------------
(* A write leaves the write tree with the answer that was held for it. *)
LEMMA HeldStep == TypeInv /\ AssertInv /\ [Next]_vars => HeldWrites'
<1> SUFFICES ASSUME HeldWrites, [Next]_vars PROVE HeldWrites'
  BY DEF AssertInv
<1>1. CASE UNCHANGED <<held, writes>>
  BY <1>1 DEF HeldWrites
<1>2. CASE ExecuteCall
  <2>1. held' = held /\ writes \subseteq writes'
    BY <1>2 DEF ExecuteCall, addEventRegistration, removeEventRegistration, applyWrite
  <2> QED BY <2>1 DEF HeldWrites
<1>3. CASE onDataMessage
  <2> DEFINE m == Head(down)
  <2>1. CASE m.msg \in {"data", "update"}
    BY <1>1, <1>3, <2>1 DEF onDataMessage, ToServerCache
  <2>2. CASE m.msg = "listened"
    BY <1>3, <2>2 DEF onDataMessage, onListened, HeldWrites
  <2>3. CASE m.msg = "answer"
    <3>0. onAnswer(m.id)
      BY <1>3, <2>3 DEF onDataMessage
    <3>1. CASE ~\E w \in Outstanding : w.id = m.id
      BY <1>1, <3>0, <3>1 DEF onAnswer, clientVars
    <3>2. CASE \E w \in Outstanding : w.id = m.id
      <4>1. PICK w \in Outstanding : w.id = m.id
        BY <3>2
      <4>2. w \in writes /\ m.id \notin held
        BY <4>1 DEF Outstanding
      <4>3. CASE awaiting
        <5>1. held' = held \cup {m.id} /\ writes' = writes
          BY <3>0, <3>2, <4>3 DEF onAnswer
        <5> QED BY <4>1, <4>2, <5>1 DEF HeldWrites
      <4>4. CASE ~awaiting
        <5>1. held' = held /\ writes' = {v \in writes : v.id \notin {m.id}}
          BY <3>0, <3>2, <4>4 DEF onAnswer, ackWrite
        <5> QED BY <4>2, <5>1 DEF HeldWrites
      <4> QED BY <4>3, <4>4
    <3> QED BY <3>1, <3>2
  <2> QED BY <1>3, <2>1, <2>2, <2>3 DEF onDataMessage
<1>4. CASE onReady \/ onDisconnect \/ ServerStep
  BY <1>1, <1>4 DEF onReady, onDisconnect, ServerStep, ServerTakesListen,
                    ServerAnswersListen, ServerTakesPut, clientVars
<1>5. CASE AppWrites \/ AppObserves \/ AppTakesEvent \/ UNCHANGED vars
  BY <1>1, <1>5 DEF AppWrites, AppObserves, AppTakesEvent, vars, clientVars
<1> QED
  BY <1>2, <1>3, <1>4, <1>5 DEF Next, DatabaseNext, ClientStep

(* The launch satisfies the invariant behind the assertions. *)
LEMMA AssertInvInit == Init => AssertInv
<1> SUFFICES ASSUME Init PROVE AssertInv
  OBVIOUS
<1>1. None(up, ListenRequest) /\ None(down, ListenAnswer)
  BY DEF Init, FreshClient, None
<1>2. OneListen
  BY <1>1 DEF Init, FreshClient, OneListen
<1>3. HeldWrites
  BY DEF Init, FreshClient, HeldWrites
<1> QED BY <1>2, <1>3 DEF AssertInv

(* Every step keeps it. *)
LEMMA AssertInvStep == TypeInv /\ AssertInv /\ [Next]_vars => AssertInv'
<1> SUFFICES ASSUME TypeInv, AssertInv, [Next]_vars PROVE AssertInv'
  OBVIOUS
<1>1. OneListen'
  <2>1. CASE ExecuteCall
    BY <2>1, CallListen
  <2>2. CASE onDataMessage
    BY <2>2, MessageListen
  <2>3. CASE onReady \/ onDisconnect
    BY <2>3, LinkListen
  <2>4. CASE ServerStep
    BY <2>4, ServerListen
  <2>5. CASE AppWrites \/ AppObserves \/ AppTakesEvent \/ UNCHANGED vars
    <3>1. UNCHANGED <<link, asked, up, down, listening, awaiting>>
      BY <2>5 DEF AppWrites, AppObserves, AppTakesEvent, vars, netVars, clientVars
    <3> QED BY <3>1 DEF AssertInv, OneListen
  <2> QED
    BY <2>1, <2>2, <2>3, <2>4, <2>5 DEF Next, DatabaseNext, ClientStep
<1> QED BY <1>1, HeldStep DEF AssertInv

(* The client never trips its own assertions: an answer that was held back *)
(* names a write that removeWriteId will find, and no answer of a listen   *)
(* arrives when unackedListensCount is 0, over any number of connections.  *)
THEOREM AssertionsHold == Spec => []ClientAssertions
<1>1. TypeInv /\ AssertInv => ClientAssertions
  <2> SUFFICES ASSUME TypeInv, AssertInv, NEW i \in DOMAIN down, down[i].msg = "listened"
               PROVE  awaiting
    BY DEF AssertInv, HeldWrites, ClientAssertions
  <2>1. down[i] \in ListenAnswer
    BY DEF ListenAnswer, TypeInv, TypeOK
  <2> QED BY <2>1 DEF AssertInv, OneListen, None
<1> QED
  BY <1>1, TypeInvariance, AssertInvInit, AssertInvStep, PTL DEF Spec

-----------------------------------------------------------------------------
(***************************************************************************)
(* What the app may rely on when it writes through the client: puts are    *)
(* answered in order and the last one wins, a quiet cache is the server's  *)
(* record, and the app reads its own writes.                               *)
(***************************************************************************)

IsPut(r)    == r.req = "put"
IsAnswer(m) == m.msg = "answer"

(* No two writes of a process have the same number. *)
UniqueIds == \A v, w \in writes : v.id = w.id => v = w

(* On one connection every unanswered put is sent once and answered in the *)
(* order of the numbers: the answers under way, then the puts under way,   *)
(* are the outstanding writes, oldest first.                               *)
AnswersSorted ==
    \A i, j \in DOMAIN down : i < j /\ IsAnswer(down[i]) /\ IsAnswer(down[j])
        => down[i].id < down[j].id
PutsSorted ==
    \A i, j \in DOMAIN up : i < j /\ IsPut(up[i]) /\ IsPut(up[j])
        => up[i].write.id < up[j].write.id
AnswersFirst ==
    \A i \in DOMAIN down, j \in DOMAIN up : IsAnswer(down[i]) /\ IsPut(up[j])
        => down[i].id < up[j].write.id
AnswersAreOutstanding ==
    \A i \in DOMAIN down : IsAnswer(down[i]) => \E w \in Outstanding : w.id = down[i].id
PutsAreOutstanding ==
    \A j \in DOMAIN up : IsPut(up[j]) => up[j].write \in Outstanding
OutstandingIsSent ==
    link => \A w \in Outstanding :
        \/ \E i \in DOMAIN down : IsAnswer(down[i]) /\ down[i].id = w.id
        \/ \E j \in DOMAIN up : IsPut(up[j]) /\ up[j].write = w
InFlight == /\ AnswersSorted /\ PutsSorted /\ AnswersFirst
            /\ AnswersAreOutstanding /\ PutsAreOutstanding /\ OutstandingIsSent

(* The youngest write at a path carries the value written last there. *)
YoungestIsWritten ==
    \A w \in writes : (\A v \in writes : v.path = w.path => v.id <= w.id)
        => w.val = written[w.path]

(* Once no put at a path is on its way, or none is outstanding while the   *)
(* connection is down, the server has the last value.                      *)
NoPutAt(p) == \A j \in DOMAIN up : IsPut(up[j]) => up[j].write.path # p
NoOutstandingAt(p) == \A w \in Outstanding : w.path # p
ServerHasLast ==
    \A p \in Path \ MayRefuse :
        written[p] # Null /\ (IF link THEN NoPutAt(p) ELSE NoOutstandingAt(p))
            => server[p] = written[p]

(* The inductive invariant behind PutsInOrder. *)
OrderInv == UniqueIds /\ InFlight /\ AnsweredInOrder /\ YoungestIsWritten /\ ServerHasLast

(* The messages under way that say what the record holds at p, and what    *)
(* the client will take from one of them.                                  *)
Tells(m, p) == m.msg = "data" \/ (m.msg = "update" /\ m.path = p)
Told(m, p) == IF m.msg = "data" THEN m.node[p] ELSE m.val

(* With the listen answered, the last message about a path, or the cache   *)
(* when there is none, has the server's value.                             *)
CatchesUp ==
    asked = "active" => \A p \in Path :
        /\ \A i \in DOMAIN down :
              Tells(down[i], p) /\ (\A j \in DOMAIN down : j > i => ~Tells(down[j], p))
                  => Told(down[i], p) = server[p]
        /\ (\A i \in DOMAIN down : ~Tells(down[i], p)) => (cache # Missing /\ cache[p] = server[p])

(* The data of a listen comes right before its answer, the update of a put *)
(* right before the answer to that put, and updates only while the listen  *)
(* is active.                                                              *)
DataThenListened ==
    \A i \in DOMAIN down : down[i].msg = "data" =>
        i + 1 \in DOMAIN down /\ down[i + 1].msg = "listened"
UpdateThenAnswer ==
    \A i \in DOMAIN down : down[i].msg = "update" =>
        /\ asked = "active"
        /\ i + 1 \in DOMAIN down /\ IsAnswer(down[i + 1])
        /\ \E w \in Outstanding : w.id = down[i + 1].id /\ w.path = down[i].path

(* A connection whose listen is not open has had its answer, and answers   *)
(* are held back only for an open listen or between two connections.       *)
ListenIsActive == link /\ listening /\ ~awaiting => asked = "active"
HeldForListen == held # {} => listening /\ (link => awaiting)
HoldInv == ListenIsActive /\ HeldForListen

CacheWasAsked == cache # Missing => listening

(* Where no write is pending the cache has the value written last. *)
CacheHasWritten ==
    cache # Missing => \A p \in Path \ MayRefuse :
        written[p] # Null /\ (\A w \in writes : w.path # p) => cache[p] = written[p]

(* The inductive invariant behind ReadYourWrites. *)
ReadInv == /\ CatchesUp /\ DataThenListened /\ UpdateThenAnswer
           /\ CacheWasAsked /\ CacheHasWritten

-----------------------------------------------------------------------------
(* The positions of a queue that got one element more. *)
LEMMA AppendAt ==
    ASSUME NEW T, NEW q \in Seq(T), NEW x \in T
    PROVE  /\ Len(q) \in Nat /\ DOMAIN q = 1 .. Len(q)
           /\ DOMAIN Append(q, x) = 1 .. (Len(q) + 1)
           /\ Append(q, x)[Len(q) + 1] = x
           /\ \A i \in DOMAIN q : Append(q, x)[i] = q[i]
  BY AppendProperties, LenProperties

(* The positions of a queue whose head was taken. *)
LEMMA TailAt ==
    ASSUME NEW T, NEW q \in Seq(T), q # <<>>
    PROVE  /\ 1 \in DOMAIN q /\ Head(q) = q[1] /\ Head(q) \in T
           /\ \A i \in DOMAIN Tail(q) :
                 i \in Nat /\ i > 0 /\ i + 1 \in DOMAIN q /\ Tail(q)[i] = q[i + 1]
           /\ \A i \in DOMAIN q : i = 1 \/ (i - 1 \in DOMAIN Tail(q) /\ Tail(q)[i - 1] = q[i])
<1>1. /\ Len(q) \in Nat /\ Len(q) > 0 /\ DOMAIN q = 1 .. Len(q)
      /\ Len(Tail(q)) = Len(q) - 1 /\ DOMAIN Tail(q) = 1 .. Len(Tail(q))
      /\ Head(q) = q[1] /\ Head(q) \in T
      /\ \A i \in 1 .. Len(Tail(q)) : Tail(q)[i] = q[i + 1]
  BY HeadTailProperties, LenProperties
<1> DEFINE t == Tail(q)
<1> HIDE DEF t
<1>2. \A i \in DOMAIN t : i \in Nat /\ i > 0 /\ i + 1 \in DOMAIN q /\ t[i] = q[i + 1]
  BY <1>1 DEF t
<1>3. \A i \in DOMAIN q : i = 1 \/ (i - 1 \in DOMAIN t /\ t[i - 1] = q[i])
  <2> SUFFICES ASSUME NEW i \in DOMAIN q, i # 1
               PROVE  i - 1 \in DOMAIN t /\ t[i - 1] = q[i]
    OBVIOUS
  <2>1. i - 1 \in DOMAIN t /\ (i - 1) + 1 = i
    BY <1>1 DEF t
  <2> QED BY <1>2, <2>1
<1> QED BY <1>1, <1>2, <1>3 DEF t

(* The puts that restoreState sends again are all the outstanding ones: an *)
(* ordered sequence of a finite set's size meets every element.            *)
LEMMA OrderedMeetsAll ==
    ASSUME TypeOK, NEW s \in Ordered(Outstanding, OlderWrite)
    PROVE  /\ Cardinality(Outstanding) \in Nat
           /\ s \in [1 .. Cardinality(Outstanding) -> Outstanding]
           /\ \A i, j \in DOMAIN s : i < j => s[i].id < s[j].id
           /\ \A w \in Outstanding : \E i \in DOMAIN s : s[i] = w
<1> DEFINE n == Cardinality(Outstanding)
<1>1. IsFiniteSet(Outstanding) /\ n \in Nat /\ Outstanding \subseteq Write
  BY FS_Subset, FS_CardinalityType DEF Outstanding, TypeOK
<1>2. s \in [1 .. n -> Outstanding] /\ \A i, j \in 1 .. n : i < j => OlderWrite(s[i], s[j])
  BY DEF Ordered
<1> HIDE DEF n
<1>3. \A i, j \in 1 .. n : i < j => s[i].id < s[j].id
  BY <1>2 DEF OlderWrite
<1>4. \A i \in 1 .. n : s[i].id \in Nat
  BY <1>1, <1>2 DEF Write
<1>5. \A i, j \in 1 .. n : s[i] = s[j] => i = j
  <2> SUFFICES ASSUME NEW i \in 1 .. n, NEW j \in 1 .. n, s[i] = s[j], i # j PROVE FALSE
    OBVIOUS
  <2>1. i < j \/ j < i
    OBVIOUS
  <2> QED BY <1>3, <1>4, <2>1
<1>6. s \in Injection(1 .. n, Outstanding)
  BY <1>2, <1>5 DEF Injection, IsInjective
<1>7. Cardinality(1 .. n) = n
  BY <1>1, FS_Interval
<1>8. s \in Surjection(1 .. n, Outstanding)
  BY <1>1, <1>6, <1>7, FS_Injection DEF n
<1>9. \A w \in Outstanding : \E i \in 1 .. n : s[i] = w
  BY <1>8 DEF Surjection
<1> QED BY <1>1, <1>2, <1>3, <1>9 DEF n

-----------------------------------------------------------------------------
(* The order of the puts over a write of the app: it is the youngest, and  *)
(* on a connection it is sent behind all others.                           *)
LEMMA WriteOrder ==
    ASSUME TypeInv, AssertInv, OrderInv,
           NEW p \in Path, NEW v \in Value, applyWrite(p, v)
    PROVE  OrderInv'
<1> DEFINE w == [id |-> nextWrite, path |-> p, val |-> v]
           put == [req |-> "put", write |-> w]
<1>0. /\ up \in Seq(Request) /\ down \in Seq(Message) /\ nextWrite \in Nat
      /\ writes \subseteq Write /\ written \in Node /\ link \in BOOLEAN
  BY DEF TypeInv, TypeOK
<1>1. w \in Write /\ w.id = nextWrite /\ w.path = p /\ w.val = v
  BY <1>0 DEF Write
<1>2. /\ writes' = writes \cup {w} /\ nextWrite' = nextWrite + 1
      /\ written' = [written EXCEPT ![p] = v]
      /\ up' = IF link THEN Append(up, put) ELSE up
      /\ UNCHANGED <<server, link, down, held>>
  BY DEF applyWrite
<1>3. put \in Request /\ IsPut(put) /\ put.write = w
  BY <1>1 DEF Request, IsPut
<1> HIDE DEF w, put
<1>4. \A u \in writes : u.id \in Nat /\ u.id < nextWrite /\ u.path \in Path
  BY <1>0 DEF TypeInv, WriteIds, Write
<1>5. nextWrite \notin held
  BY <1>4 DEF AssertInv, HeldWrites
<1>6. Outstanding' = Outstanding \cup {w}
  BY <1>1, <1>2, <1>5 DEF Outstanding
<1>7. Outstanding \subseteq writes
  BY DEF Outstanding
<1>8. \A j \in DOMAIN up' : \/ j \in DOMAIN up /\ up'[j] = up[j]
                            \/ link /\ up'[j] = put /\ \A i \in DOMAIN up : i < j
  <2>1. CASE link
    BY <1>0, <1>2, <1>3, <2>1, AppendAt
  <2>2. CASE ~link
    BY <1>2, <2>2
  <2> QED BY <2>1, <2>2
<1>8a. \A j \in DOMAIN up : j \in DOMAIN up' /\ up'[j] = up[j]
  BY <1>0, <1>2, <1>3, AppendAt
<1>8b. link => \E j \in DOMAIN up' : up'[j] = put
  <2>1. link => Len(up) + 1 \in DOMAIN up' /\ up'[Len(up) + 1] = put
    BY <1>0, <1>2, <1>3, AppendAt
  <2> QED BY <2>1
<1>8c. \A j \in DOMAIN up' : j \in Nat
  BY <1>0, <1>2, <1>3, AppendAt
<1>8d. \A j \in DOMAIN up' : j > 0
  BY <1>0, <1>2, <1>3, AppendAt
<1>9. UniqueIds'
  BY <1>1, <1>2, <1>4 DEF OrderInv, UniqueIds
<1>10. AnswersSorted'
  BY <1>2 DEF OrderInv, InFlight, AnswersSorted
<1>11. PutsSorted'
  <2> SUFFICES ASSUME NEW i \in DOMAIN up', NEW j \in DOMAIN up', i < j,
                      IsPut(up'[i]), IsPut(up'[j])
               PROVE  up'[i].write.id < up'[j].write.id
    BY DEF PutsSorted
  <2>1. CASE j \in DOMAIN up /\ up'[j] = up[j]
    <3>1. DOMAIN up = 1 .. Len(up) /\ Len(up) \in Nat
      BY <1>0, LenProperties
    <3>2. i \in Nat /\ i > 0 /\ j \in 1 .. Len(up)
      BY <1>8c, <1>8d, <2>1, <3>1
    <3>3. i \in DOMAIN up /\ up'[i] = up[i]
      BY <1>8a, <3>1, <3>2
    <3> QED BY <2>1, <3>3 DEF OrderInv, InFlight, PutsSorted
  <2>2. CASE up'[j] = put /\ \A k \in DOMAIN up : k < j
    <3>2. CASE i \in DOMAIN up /\ up'[i] = up[i]
      <4>1. up[i].write \in Outstanding
        BY <3>2 DEF OrderInv, InFlight, PutsAreOutstanding
      <4> QED BY <1>1, <1>3, <1>4, <1>7, <2>2, <3>2, <4>1
    <3>3. CASE i \notin DOMAIN up
      <4>1. link /\ up' = Append(up, put)
        BY <1>2, <3>3
      <4>2. i = Len(up) + 1
        BY <1>0, <1>3, <3>3, <4>1, AppendAt
      <4>3. j <= Len(up) + 1 /\ j \in Nat
        BY <1>0, <1>3, <4>1, AppendAt
      <4>4. Len(up) \in Nat
        BY <1>0
      <4> QED BY <4>2, <4>3, <4>4
    <3> QED BY <1>8a, <3>2, <3>3
  <2> QED BY <1>8, <2>1, <2>2
<1>12. AnswersFirst'
  <2> SUFFICES ASSUME NEW i \in DOMAIN down', NEW j \in DOMAIN up',
                      IsAnswer(down'[i]), IsPut(up'[j])
               PROVE  down'[i].id < up'[j].write.id
    BY DEF AnswersFirst
  <2>1. i \in DOMAIN down /\ down'[i] = down[i] /\ IsAnswer(down[i])
    BY <1>2
  <2>2. CASE j \in DOMAIN up /\ up'[j] = up[j]
    BY <2>1, <2>2 DEF OrderInv, InFlight, AnswersFirst
  <2>3. CASE up'[j] = put
    <3>1. PICK u \in Outstanding : u.id = down[i].id
      BY <2>1 DEF OrderInv, InFlight, AnswersAreOutstanding
    <3> QED BY <1>1, <1>3, <1>4, <1>7, <2>1, <2>3, <3>1
  <2> QED BY <1>8, <2>2, <2>3
<1>13. AnswersAreOutstanding'
  BY <1>2, <1>6 DEF OrderInv, InFlight, AnswersAreOutstanding
<1>14. PutsAreOutstanding'
  BY <1>3, <1>6, <1>8 DEF OrderInv, InFlight, PutsAreOutstanding
<1>15. OutstandingIsSent'
  <2> SUFFICES ASSUME link, NEW u \in Outstanding'
               PROVE  \/ \E i \in DOMAIN down' : IsAnswer(down'[i]) /\ down'[i].id = u.id
                      \/ \E j \in DOMAIN up' : IsPut(up'[j]) /\ up'[j].write = u
    BY <1>2 DEF OutstandingIsSent
  <2>1. CASE u = w
    BY <1>3, <1>8b, <2>1
  <2>2. CASE u \in Outstanding
    BY <1>2, <1>8a, <2>2 DEF OrderInv, InFlight, OutstandingIsSent
  <2> QED BY <1>6, <2>1, <2>2
<1>16. AnsweredInOrder'
  <2> SUFFICES ASSUME NEW u \in Outstanding', NEW n \in u.id .. (nextWrite' - 1)
               PROVE  \E x \in Outstanding' : x.id = n
    BY DEF AnsweredInOrder
  <2>1. CASE n = nextWrite
    BY <1>1, <1>6, <2>1
  <2>2. CASE n # nextWrite
    <3>1. u.id \in Nat
      BY <1>0, <1>1, <1>4, <1>6, <1>7
    <3>2. n \in u.id .. (nextWrite - 1)
      BY <1>0, <1>2, <2>2, <3>1
    <3>3. u \in Outstanding
      BY <1>0, <1>1, <1>6, <3>1, <3>2
    <3> QED BY <1>6, <3>2, <3>3 DEF OrderInv, AnsweredInOrder
  <2> QED BY <2>1, <2>2
<1>17. YoungestIsWritten'
  <2> SUFFICES ASSUME NEW u \in writes', \A x \in writes' : x.path = u.path => x.id <= u.id
               PROVE  u.val = written'[u.path]
    BY DEF YoungestIsWritten
  <2>1. CASE u = w
    BY <1>0, <1>1, <1>2, <2>1 DEF Node
  <2>2. CASE u \in writes /\ u # w
    <3>1. u.path # p
      BY <1>0, <1>1, <1>2, <1>4, <2>2
    <3>2. u.val = written[u.path]
      BY <1>2, <2>2 DEF OrderInv, YoungestIsWritten
    <3> QED BY <1>0, <1>2, <1>4, <2>2, <3>1, <3>2 DEF Node
  <2> QED BY <1>2, <2>1, <2>2
<1>18. ServerHasLast'
  <2> SUFFICES ASSUME NEW q \in Path \ MayRefuse, written'[q] # Null,
                      IF link THEN NoPutAt(q)' ELSE NoOutstandingAt(q)'
               PROVE  server[q] = written'[q]
    BY <1>2 DEF ServerHasLast
  <2>1. q # p
    BY <1>1, <1>3, <1>6, <1>8b DEF NoPutAt, NoOutstandingAt
  <2>2. written'[q] = written[q]
    BY <1>0, <1>2, <2>1 DEF Node
  <2>3. IF link THEN NoPutAt(q) ELSE NoOutstandingAt(q)
    BY <1>6, <1>8a DEF NoPutAt, NoOutstandingAt
  <2> QED BY <2>2, <2>3 DEF OrderInv, ServerHasLast
<1> QED
  BY <1>9, <1>10, <1>11, <1>12, <1>13, <1>14, <1>15, <1>16, <1>17, <1>18
  DEF OrderInv, InFlight

-----------------------------------------------------------------------------
(* Answers are held back only for a listen that is open. *)
LEMMA HoldStep == TypeInv /\ AssertInv /\ HoldInv /\ [Next]_vars => HoldInv'
<1> SUFFICES ASSUME TypeInv, OneListen, HoldInv, [Next]_vars PROVE HoldInv'
  BY DEF AssertInv
<1>0. /\ up \in Seq(Request) /\ down \in Seq(Message)
      /\ link \in BOOLEAN /\ listening \in BOOLEAN /\ awaiting \in BOOLEAN
  BY DEF TypeInv, TypeOK
<1>1. CASE UNCHANGED <<link, listening, awaiting, asked, held>>
  BY <1>1 DEF HoldInv, ListenIsActive, HeldForListen
<1>2. CASE ExecuteCall
  <2>1. CASE addEventRegistration(Head(calls).obs)
    <3>1. /\ listening' = TRUE /\ UNCHANGED <<link, asked, held>>
          /\ IF ~listening /\ link THEN awaiting' = TRUE ELSE awaiting' = awaiting
      BY <2>1 DEF addEventRegistration
    <3> QED BY <1>0, <3>1 DEF HoldInv, ListenIsActive, HeldForListen
  <2>2. CASE ~addEventRegistration(Head(calls).obs)
    BY <1>1, <1>2, <2>2 DEF ExecuteCall, removeEventRegistration, applyWrite, netVars
  <2> QED BY <2>1, <2>2
<1>3. CASE onReady
  BY <1>3 DEF onReady, HoldInv, ListenIsActive, HeldForListen
<1>4. CASE onDisconnect
  BY <1>4 DEF onDisconnect, HoldInv, ListenIsActive, HeldForListen
<1>5. CASE ServerTakesListen
  <2>1. /\ up # <<>> /\ Head(up).req = "listen"
        /\ UNCHANGED <<link, listening, awaiting, held>>
    BY <1>5 DEF ServerTakesListen, clientVars
  <2>2. Head(up) \in ListenRequest
    BY <1>0, <2>1, HeadTailProperties DEF ListenRequest
  <2>3. awaiting
    BY <1>0, <2>1, <2>2, TailMarks DEF OneListen
  <2> QED BY <2>1, <2>3 DEF HoldInv, ListenIsActive, HeldForListen
<1>6. CASE ServerAnswersListen
  BY <1>6 DEF ServerAnswersListen, clientVars, HoldInv, ListenIsActive, HeldForListen
<1>7. CASE ServerTakesPut
  BY <1>1, <1>7 DEF ServerTakesPut, clientVars
<1>8. CASE onDataMessage
  <2> DEFINE m == Head(down)
  <2>1. down # <<>> /\ m \in Message /\ UNCHANGED <<link, asked>>
    BY <1>0, <1>8, HeadTailProperties DEF onDataMessage
  <2>2. CASE m.msg \in {"data", "update"}
    BY <1>1, <1>8, <2>1, <2>2 DEF onDataMessage, ToServerCache
  <2>3. CASE m.msg = "listened"
    <3>1. m \in ListenAnswer
      BY <2>1, <2>3 DEF ListenAnswer
    <3>2. asked = "active"
      BY <1>0, <2>1, <3>1, TailMarks DEF OneListen
    <3>3. held' = {}
      BY <1>8, <2>3 DEF onDataMessage, onListened
    <3> QED BY <2>1, <3>2, <3>3 DEF HoldInv, ListenIsActive, HeldForListen
  <2>4. CASE m.msg = "answer"
    <3>0. onAnswer(m.id)
      BY <1>8, <2>4 DEF onDataMessage
    <3>1. UNCHANGED <<listening, awaiting>> /\ (held' = held \/ awaiting)
      BY <3>0 DEF onAnswer, ackWrite, clientVars
    <3> QED BY <2>1, <3>1 DEF HoldInv, ListenIsActive, HeldForListen, OneListen
  <2> QED BY <1>8, <2>2, <2>3, <2>4 DEF onDataMessage
<1>9. CASE AppWrites \/ AppObserves \/ AppTakesEvent \/ UNCHANGED vars
  BY <1>1, <1>9 DEF AppWrites, AppObserves, AppTakesEvent, vars, netVars, clientVars
<1> QED
  BY <1>2, <1>3, <1>4, <1>5, <1>6, <1>7, <1>8, <1>9
  DEF Next, DatabaseNext, ClientStep, ServerStep

-----------------------------------------------------------------------------
(* The elements of K in a queue q are those in r, k places further. *)
Moved(q, r, k, K) ==
    /\ \A i \in DOMAIN q : q[i] \in K => i + k \in DOMAIN r /\ r[i + k] = q[i]
    /\ \A i \in DOMAIN r : r[i] \in K => i - k \in DOMAIN q /\ q[i - k] = r[i]
Puts    == {r \in Request : r.req = "put"}
Answers == {m \in Message : m.msg = "answer"}

(* Nothing moves in a queue that stays as it is. *)
LEMMA StayMoves ==
    ASSUME NEW T, NEW q \in Seq(T), NEW K
    PROVE  Moved(q, q, 0, K)
<1>1. \A i \in DOMAIN q : i + 0 = i /\ i - 0 = i
  BY LenProperties
<1> QED BY <1>1 DEF Moved

(* A queue that gets an element of another kind. *)
LEMMA AppendMoves ==
    ASSUME NEW T, NEW q \in Seq(T), NEW x \in T, NEW K, x \notin K
    PROVE  Moved(q, Append(q, x), 0, K)
<1> DEFINE r == Append(q, x)
<1>1. /\ DOMAIN q = 1 .. Len(q) /\ Len(q) \in Nat /\ DOMAIN r = 1 .. (Len(q) + 1)
      /\ r[Len(q) + 1] = x /\ \A i \in DOMAIN q : r[i] = q[i]
  BY AppendAt
<1> HIDE DEF r
<1>2. \A i \in DOMAIN q : i + 0 = i /\ i \in DOMAIN r
  BY <1>1
<1>3. \A i \in DOMAIN r : i - 0 = i /\ (i \in DOMAIN q \/ i = Len(q) + 1)
  BY <1>1
<1> QED BY <1>1, <1>2, <1>3 DEF Moved, r

(* A queue whose head is of another kind. *)
LEMMA TailMoves ==
    ASSUME NEW T, NEW q \in Seq(T), q # <<>>, NEW K, Head(q) \notin K
    PROVE  Moved(q, Tail(q), -1, K)
<1> DEFINE t == Tail(q)
<1>1. /\ \A i \in DOMAIN t : i \in Nat /\ i + 1 \in DOMAIN q /\ t[i] = q[i + 1]
      /\ \A i \in DOMAIN q : i = 1 \/ (i - 1 \in DOMAIN t /\ t[i - 1] = q[i])
      /\ Head(q) = q[1] /\ \A i \in DOMAIN q : i \in Nat
  BY TailAt, LenProperties
<1> HIDE DEF t
<1>2. /\ \A i \in DOMAIN t : i - (-1) = i + 1
      /\ \A i \in DOMAIN q : i + (-1) = i - 1
  BY <1>1
<1> QED BY <1>1, <1>2 DEF Moved, t

(* The writes whose answers are held back are older than the outstanding   *)
(* ones.                                                                   *)
LEMMA HeldAreOlder ==
    ASSUME TypeInv, OrderInv, NEW w \in Outstanding, NEW x \in writes, x \notin Outstanding
    PROVE  x.id < w.id
<1>1. /\ w \in writes /\ w.id \in Nat /\ x.id \in Nat /\ nextWrite \in Nat
      /\ x.id < nextWrite
  BY DEF Outstanding, TypeInv, TypeOK, WriteIds, Write
<1>2. CASE x.id >= w.id
  <2>1. PICK v \in Outstanding : v.id = x.id
    BY <1>1, <1>2 DEF OrderInv, AnsweredInOrder
  <2>2. v = x
    BY <2>1 DEF OrderInv, UniqueIds, Outstanding
  <2> QED BY <2>1, <2>2
<1> QED BY <1>1, <1>2

(* A step that moves no put and no answer keeps what is known about them. *)
LEMMA SameOrder ==
    ASSUME TypeInv, TypeOK', OrderInv, NEW k \in Int, NEW n \in Int,
           Moved(up, up', k, Puts), Moved(down, down', n, Answers),
           Outstanding' = Outstanding, UNCHANGED <<server, link, nextWrite, written>>
    PROVE  InFlight' /\ AnsweredInOrder' /\ ServerHasLast'
<1>0. /\ up \in Seq(Request) /\ down \in Seq(Message)
      /\ up' \in Seq(Request) /\ down' \in Seq(Message)
  BY DEF TypeInv, TypeOK
<1>1. /\ \A j \in DOMAIN up : j \in Int /\ (IsPut(up[j]) <=> up[j] \in Puts)
      /\ \A j \in DOMAIN up' : j \in Int /\ (IsPut(up'[j]) <=> up'[j] \in Puts)
  BY <1>0, LenProperties, ElementOfSeq DEF IsPut, Puts
<1>2. /\ \A i \in DOMAIN down : i \in Int /\ (IsAnswer(down[i]) <=> down[i] \in Answers)
      /\ \A i \in DOMAIN down' : i \in Int /\ (IsAnswer(down'[i]) <=> down'[i] \in Answers)
  BY <1>0, LenProperties, ElementOfSeq DEF IsAnswer, Answers
<1>3. /\ \A j \in DOMAIN up : IsPut(up[j]) => j + k \in DOMAIN up' /\ up'[j + k] = up[j]
      /\ \A j \in DOMAIN up' : IsPut(up'[j]) => j - k \in DOMAIN up /\ up[j - k] = up'[j]
  BY <1>1 DEF Moved
<1>4. /\ \A i \in DOMAIN down : IsAnswer(down[i])
            => i + n \in DOMAIN down' /\ down'[i + n] = down[i]
      /\ \A i \in DOMAIN down' : IsAnswer(down'[i])
            => i - n \in DOMAIN down /\ down[i - n] = down'[i]
  BY <1>2 DEF Moved
<1>5. AnswersSorted'
  <2> SUFFICES ASSUME NEW i \in DOMAIN down', NEW j \in DOMAIN down', i < j,
                      IsAnswer(down'[i]), IsAnswer(down'[j])
               PROVE  down'[i].id < down'[j].id
    BY DEF AnswersSorted
  <2>1. i - n < j - n
    BY <1>2
  <2> QED BY <1>4, <2>1 DEF OrderInv, InFlight, AnswersSorted
<1>6. PutsSorted'
  <2> SUFFICES ASSUME NEW i \in DOMAIN up', NEW j \in DOMAIN up', i < j,
                      IsPut(up'[i]), IsPut(up'[j])
               PROVE  up'[i].write.id < up'[j].write.id
    BY DEF PutsSorted
  <2>1. i - k < j - k
    BY <1>1
  <2> QED BY <1>3, <2>1 DEF OrderInv, InFlight, PutsSorted
<1>7. AnswersFirst'
  <2> SUFFICES ASSUME NEW i \in DOMAIN down', NEW j \in DOMAIN up',
                      IsAnswer(down'[i]), IsPut(up'[j])
               PROVE  down'[i].id < up'[j].write.id
    BY DEF AnswersFirst
  <2> QED BY <1>3, <1>4 DEF OrderInv, InFlight, AnswersFirst
<1>8. AnswersAreOutstanding'
  BY <1>4 DEF OrderInv, InFlight, AnswersAreOutstanding
<1>9. PutsAreOutstanding'
  BY <1>3 DEF OrderInv, InFlight, PutsAreOutstanding
<1>10. OutstandingIsSent'
  <2> SUFFICES ASSUME link', NEW w \in Outstanding'
               PROVE  \/ \E i \in DOMAIN down' : IsAnswer(down'[i]) /\ down'[i].id = w.id
                      \/ \E j \in DOMAIN up' : IsPut(up'[j]) /\ up'[j].write = w
    BY DEF OutstandingIsSent
  <2>1. link /\ w \in Outstanding
    OBVIOUS
  <2>2. CASE \E i \in DOMAIN down : IsAnswer(down[i]) /\ down[i].id = w.id
    BY <1>4, <2>2
  <2>3. CASE \E j \in DOMAIN up : IsPut(up[j]) /\ up[j].write = w
    BY <1>3, <2>3
  <2> QED BY <2>1, <2>2, <2>3 DEF OrderInv, InFlight, OutstandingIsSent
<1>11. AnsweredInOrder'
  BY DEF OrderInv, AnsweredInOrder
<1>12. ServerHasLast'
  <2> SUFFICES ASSUME NEW p \in Path \ MayRefuse, written[p] # Null,
                      IF link THEN NoPutAt(p)' ELSE NoOutstandingAt(p)'
               PROVE  server[p] = written[p]
    BY DEF ServerHasLast
  <2>1. link => NoPutAt(p)
    BY <1>3 DEF NoPutAt
  <2>2. ~link => NoOutstandingAt(p)
    BY DEF NoOutstandingAt
  <2> QED BY <2>1, <2>2 DEF OrderInv, ServerHasLast
<1> QED BY <1>5, <1>6, <1>7, <1>8, <1>9, <1>10, <1>11, <1>12 DEF InFlight

(* A step that changes neither the puts nor the answers nor the writes. *)
LEMMA QuietOrder ==
    ASSUME TypeInv, TypeOK', OrderInv, NEW k \in Int, NEW n \in Int,
           Moved(up, up', k, Puts), Moved(down, down', n, Answers),
           UNCHANGED <<server, link, nextWrite, written, writes, held>>
    PROVE  OrderInv'
<1>1. Outstanding' = Outstanding
  BY DEF Outstanding
<1>2. UniqueIds' /\ YoungestIsWritten'
  BY DEF OrderInv, UniqueIds, YoungestIsWritten
<1> QED BY <1>1, <1>2, SameOrder DEF OrderInv

(* The order of the puts over the calls of the app. *)
LEMMA CallOrder == TypeInv /\ AssertInv /\ OrderInv /\ TypeOK' /\ ExecuteCall => OrderInv'
<1> SUFFICES ASSUME TypeInv, AssertInv, OrderInv, TypeOK', ExecuteCall PROVE OrderInv'
  OBVIOUS
<1> DEFINE c == Head(calls)
<1>0. c \in Call /\ up \in Seq(Request) /\ down \in Seq(Message)
  BY HeadTailProperties DEF TypeInv, TypeOK, ExecuteCall
<1>1. Moved(up, up, 0, Puts) /\ Moved(down, down, 0, Answers)
  BY <1>0, StayMoves
<1>2. CASE c.op = "observe"
  <2> DEFINE l == [req |-> "listen"]
  <2>1. /\ UNCHANGED <<server, link, nextWrite, written, writes, held, down>>
        /\ up' = up \/ up' = Append(up, l)
    BY <1>2 DEF ExecuteCall, addEventRegistration
  <2>2. l \in Request /\ l \notin Puts
    BY DEF Request, Puts
  <2> HIDE DEF l
  <2>3. Moved(up, up', 0, Puts)
    BY <1>0, <1>1, <2>1, <2>2, AppendMoves
  <2> QED BY <1>1, <2>1, <2>3, QuietOrder
<1>3. CASE c.op = "remove"
  <2>1. UNCHANGED <<server, link, nextWrite, written, writes, held, down, up>>
    BY <1>3 DEF ExecuteCall, removeEventRegistration, netVars
  <2>2. Moved(up, up', 0, Puts) /\ Moved(down, down', 0, Answers)
    BY <1>1, <2>1
  <2> QED BY <2>1, <2>2, QuietOrder
<1>4. CASE c.op = "write"
  <2>1. c.path \in Path /\ c.val \in Value /\ applyWrite(c.path, c.val)
    BY <1>0, <1>4, CallType DEF ExecuteCall
  <2> QED BY <2>1, WriteOrder
<1> QED BY <1>0, <1>2, <1>3, <1>4 DEF ExecuteCall

(* Over connections: a broken one loses puts that stay outstanding, and a  *)
(* new one starts with all of them, oldest first.                          *)
LEMMA LinkOrder ==
    TypeInv /\ AssertInv /\ OrderInv /\ (onReady \/ onDisconnect) => OrderInv'
<1> SUFFICES ASSUME TypeInv, AssertInv, OrderInv, onReady \/ onDisconnect PROVE OrderInv'
  OBVIOUS
<1>1. UNCHANGED <<server, nextWrite, written, writes, held>>
  BY DEF onReady, onDisconnect
<1>2. Outstanding' = Outstanding
  BY <1>1 DEF Outstanding
<1>3. UniqueIds' /\ YoungestIsWritten' /\ AnsweredInOrder'
  BY <1>1, <1>2 DEF OrderInv, UniqueIds, YoungestIsWritten, AnsweredInOrder
<1>4. CASE onDisconnect
  <2>1. link /\ ~link' /\ up' = <<>> /\ down' = <<>>
    BY <1>4 DEF onDisconnect
  <2>2. DOMAIN up' = {} /\ DOMAIN down' = {}
    BY <2>1
  <2>3. InFlight'
    BY <2>1, <2>2 DEF InFlight, AnswersSorted, PutsSorted, AnswersFirst,
                      AnswersAreOutstanding, PutsAreOutstanding, OutstandingIsSent
  <2>4. ServerHasLast'
    <3> SUFFICES ASSUME NEW p \in Path \ MayRefuse, written[p] # Null, NoOutstandingAt(p)
                 PROVE  server[p] = written[p]
      BY <1>1, <1>2, <2>1 DEF ServerHasLast, NoOutstandingAt
    <3>1. NoPutAt(p)
      BY DEF NoPutAt, NoOutstandingAt, OrderInv, InFlight, PutsAreOutstanding
    <3> QED BY <2>1, <3>1 DEF OrderInv, ServerHasLast
  <2> QED BY <1>3, <2>3, <2>4 DEF OrderInv
<1>5. CASE onReady
  <2>1. PICK s \in Ordered(Outstanding, OlderWrite) : up' = restoreState(s)
    BY <1>5 DEF onReady
  <2> DEFINE n == Cardinality(Outstanding)
             puts == [i \in DOMAIN s |-> [req |-> "put", write |-> s[i]]]
             l == [req |-> "listen"]
             first == IF listening THEN <<l>> ELSE <<>>
             k == Len(first)
  <2>2. ~link /\ link' /\ down' = down /\ down = <<>>
    BY <1>5 DEF onReady, AssertInv, OneListen
  <2>3. /\ n \in Nat /\ s \in [1 .. n -> Outstanding]
        /\ \A i, j \in DOMAIN s : i < j => s[i].id < s[j].id
        /\ \A w \in Outstanding : \E i \in DOMAIN s : s[i] = w
    BY OrderedMeetsAll DEF TypeInv
  <2> HIDE DEF n
  <2>4. /\ DOMAIN puts = 1 .. n
        /\ \A i \in 1 .. n : IsPut(puts[i]) /\ puts[i].write = s[i] /\ puts[i] \in Request
    BY <2>3 DEF IsPut, Request, Outstanding, TypeInv, TypeOK
  <2>5. up' = first \o puts
    BY <2>1 DEF restoreState
  <2>6. l \in Request /\ ~IsPut(l)
    BY DEF Request, IsPut
  <2> HIDE DEF l
  <2>7. puts \in Seq(Request) /\ Len(puts) = n
    <3>1. puts = [i \in 1 .. n |-> puts[i]]
      BY <2>3
    <3> HIDE DEF puts
    <3>2. puts \in [1 .. n -> Request]
      BY <2>4, <3>1
    <3> QED BY <2>3, <3>2
  <2> HIDE DEF puts
  <2>8. first \in Seq(Request) /\ k \in Nat /\ \A i \in 1 .. k : ~IsPut(first[i])
    BY <2>6
  <2> HIDE DEF first, k
  <2>9. /\ DOMAIN up' = 1 .. (k + n)
        /\ \A i \in 1 .. k : up'[i] = first[i]
        /\ \A i \in 1 .. (k + n) : i > k => up'[i] = puts[i - k]
    <3>1. /\ Len(first \o puts) = k + n /\ first \o puts \in Seq(Request)
          /\ \A i \in 1 .. (k + n) : (first \o puts)[i] = IF i <= k THEN first[i] ELSE puts[i - k]
      BY <2>7, <2>8, ConcatProperties DEF k
    <3>2. DOMAIN up' = 1 .. (k + n)
      BY <2>5, <3>1, LenProperties
    <3>3. \A i \in 1 .. k : i \in 1 .. (k + n) /\ i <= k
      BY <2>3, <2>8
    <3>4. \A i \in 1 .. (k + n) : i > k => ~(i <= k)
      BY <2>3, <2>8
    <3> QED BY <2>5, <3>1, <3>2, <3>3, <3>4
  <2>10. \A j \in DOMAIN up' : IsPut(up'[j])
            => j \in Nat /\ j - k \in 1 .. n /\ up'[j].write = s[j - k]
    <3> SUFFICES ASSUME NEW j \in DOMAIN up', IsPut(up'[j])
                 PROVE  j \in Nat /\ j - k \in 1 .. n /\ up'[j].write = s[j - k]
      OBVIOUS
    <3>1. j > k /\ j \in 1 .. (k + n)
      BY <2>3, <2>8, <2>9
    <3>2. j - k \in 1 .. n /\ up'[j] = puts[j - k]
      BY <2>3, <2>8, <2>9, <3>1
    <3> QED BY <2>4, <3>1, <3>2
  <2>11. \A i \in 1 .. n : i + k \in DOMAIN up' /\ IsPut(up'[i + k]) /\ up'[i + k].write = s[i]
    <3> SUFFICES ASSUME NEW i \in 1 .. n
                 PROVE  i + k \in DOMAIN up' /\ IsPut(up'[i + k]) /\ up'[i + k].write = s[i]
      OBVIOUS
    <3>1. i + k \in 1 .. (k + n) /\ i + k > k /\ (i + k) - k = i
      BY <2>3, <2>8
    <3>2. up'[i + k] = puts[i]
      BY <2>9, <3>1
    <3> QED BY <2>4, <2>9, <3>1, <3>2
  <2>12. DOMAIN down' = {} /\ DOMAIN s = 1 .. n
    BY <2>2, <2>3
  <2>13. AnswersSorted' /\ AnswersFirst' /\ AnswersAreOutstanding'
    BY <2>12 DEF AnswersSorted, AnswersFirst, AnswersAreOutstanding
  <2>14. PutsSorted'
    <3> SUFFICES ASSUME NEW i \in DOMAIN up', NEW j \in DOMAIN up', i < j,
                        IsPut(up'[i]), IsPut(up'[j])
                 PROVE  up'[i].write.id < up'[j].write.id
      BY DEF PutsSorted
    <3>1. i - k < j - k
      BY <2>8, <2>10
    <3> QED BY <2>3, <2>10, <2>12, <3>1
  <2>15. PutsAreOutstanding'
    BY <1>2, <2>3, <2>10 DEF PutsAreOutstanding
  <2>16. OutstandingIsSent'
    <3> SUFFICES ASSUME NEW w \in Outstanding
                 PROVE  \E j \in DOMAIN up' : IsPut(up'[j]) /\ up'[j].write = w
      BY <1>2 DEF OutstandingIsSent
    <3>1. PICK i \in 1 .. n : s[i] = w
      BY <2>3, <2>12
    <3> QED BY <2>11, <3>1
  <2>17. ServerHasLast'
    <3> SUFFICES ASSUME NEW p \in Path \ MayRefuse, written[p] # Null, NoPutAt(p)'
                 PROVE  server[p] = written[p]
      BY <1>1, <2>2 DEF ServerHasLast
    <3>1. NoOutstandingAt(p)
      BY <2>3, <2>11, <2>12 DEF NoPutAt, NoOutstandingAt
    <3> QED BY <2>2, <3>1 DEF OrderInv, ServerHasLast
  <2> QED
    BY <1>3, <2>13, <2>14, <2>15, <2>16, <2>17 DEF OrderInv, InFlight
<1> QED BY <1>4, <1>5

-----------------------------------------------------------------------------
(* What the server's answer to a put adds to the messages under way: the   *)
(* update of a put that was applied, if the listen is active, and then the *)
(* answer.                                                                 *)
LEMMA PutAnswered ==
    ASSUME TypeInv, ServerTakesPut, NEW w, w = Head(up).write
    PROVE  /\ w \in Write /\ 1 \in DOMAIN up /\ IsPut(up[1]) /\ up[1].write = w
           /\ Len(down) \in Nat /\ Len(down') \in Nat /\ Len(down) < Len(down')
           /\ DOMAIN down = 1 .. Len(down) /\ DOMAIN down' = 1 .. Len(down')
           /\ \A i \in 1 .. Len(down) : down'[i] = down[i]
           /\ IsAnswer(down'[Len(down')]) /\ down'[Len(down')].id = w.id
           /\ \/ /\ server' = [server EXCEPT ![w.path] = w.val]
                 /\ asked = "active" /\ Len(down') = Len(down) + 2
                 /\ down'[Len(down) + 1] = [msg |-> "update", path |-> w.path, val |-> w.val]
              \/ /\ server' = [server EXCEPT ![w.path] = w.val]
                 /\ asked # "active" /\ Len(down') = Len(down) + 1
              \/ /\ w.path \in MayRefuse /\ server' = server
                 /\ Len(down') = Len(down) + 1
<1> DEFINE update == [msg |-> "update", path |-> w.path, val |-> w.val]
           ok == [msg |-> "answer", id |-> w.id, ok |-> TRUE]
           refused == [msg |-> "answer", id |-> w.id, ok |-> FALSE]
           L == Len(down)
<1>0. up \in Seq(Request) /\ down \in Seq(Message) /\ up # <<>> /\ Head(up).req = "put"
  BY DEF TypeInv, TypeOK, ServerTakesPut
<1>1. w \in Write /\ 1 \in DOMAIN up /\ IsPut(up[1]) /\ up[1].write = w
  BY <1>0, TailAt, RequestType DEF IsPut
<1>2. \/ /\ server' = [server EXCEPT ![w.path] = w.val]
         /\ asked = "active" /\ down' = (down \o <<update>>) \o <<ok>>
      \/ /\ server' = [server EXCEPT ![w.path] = w.val]
         /\ asked # "active" /\ down' = (down \o <<>>) \o <<ok>>
      \/ /\ w.path \in MayRefuse /\ server' = server
         /\ down' = Append(down, refused)
  BY DEF ServerTakesPut
<1>3. update \in Message /\ ok \in Message /\ refused \in Message
  BY <1>1 DEF Message, Write
<1>4. /\ IsAnswer(ok) /\ IsAnswer(refused) /\ ok.id = w.id /\ refused.id = w.id
  BY DEF IsAnswer
<1> HIDE DEF update, ok, refused
<1>5. /\ down \o <<update>> = Append(down, update) /\ down \o <<>> = down
      /\ down \o <<ok>> = Append(down, ok)
      /\ Append(down, update) \in Seq(Message)
      /\ Append(down, update) \o <<ok>> = Append(Append(down, update), ok)
  BY <1>0, <1>3
<1>6. L \in Nat /\ DOMAIN down = 1 .. L
  BY <1>0, LenProperties
<1>7. ASSUME NEW x \in Message, down' = Append(down, x)
      PROVE  /\ Len(down') = L + 1 /\ DOMAIN down' = 1 .. (L + 1) /\ down'[L + 1] = x
             /\ \A i \in 1 .. L : down'[i] = down[i]
  BY <1>0, <1>6, <1>7, AppendAt, AppendProperties
<1>8. CASE down' = (down \o <<update>>) \o <<ok>>
  <2> DEFINE d == Append(down, update)
  <2>1. d \in Seq(Message) /\ down' = Append(d, ok)
    BY <1>5, <1>8
  <2>2. /\ Len(d) = L + 1 /\ DOMAIN d = 1 .. (L + 1) /\ d[L + 1] = update
        /\ \A i \in 1 .. L : d[i] = down[i]
    BY <1>0, <1>3, <1>6, AppendAt, AppendProperties
  <2> HIDE DEF d
  <2>3. /\ Len(down') = Len(d) + 1 /\ DOMAIN down' = 1 .. (Len(d) + 1)
        /\ down'[Len(d) + 1] = ok /\ \A i \in 1 .. Len(d) : down'[i] = d[i]
    BY <1>3, <2>1, AppendAt, AppendProperties
  <2>4. L + 1 \in 1 .. Len(d) /\ \A i \in 1 .. L : i \in 1 .. Len(d)
    BY <1>6, <2>2
  <2>5. /\ Len(down') = L + 2 /\ DOMAIN down' = 1 .. (L + 2) /\ down'[L + 2] = ok
        /\ down'[L + 1] = update /\ \A i \in 1 .. L : down'[i] = down[i]
    BY <1>6, <2>2, <2>3, <2>4
  <2>6. Len(down') \in Nat /\ Len(down') # L + 1
    BY <1>6, <2>5
  <2>7. /\ server' = [server EXCEPT ![w.path] = w.val] /\ asked = "active"
    <3>1. down' # down \o <<ok>> /\ down' # Append(down, refused)
      BY <1>3, <1>5, <1>7, <2>6
    <3> QED BY <1>2, <1>5, <3>1
  <2> QED BY <1>1, <1>4, <1>6, <2>5, <2>6, <2>7 DEF update
<1>9. CASE down' = (down \o <<>>) \o <<ok>> /\ asked # "active"
           /\ server' = [server EXCEPT ![w.path] = w.val]
  <2>1. down' = Append(down, ok)
    BY <1>5, <1>9
  <2>2. /\ Len(down') = L + 1 /\ DOMAIN down' = 1 .. (L + 1) /\ down'[L + 1] = ok
        /\ \A i \in 1 .. L : down'[i] = down[i]
    BY <1>3, <1>7, <2>1
  <2> QED BY <1>1, <1>4, <1>6, <1>9, <2>2
<1>10. CASE down' = Append(down, refused) /\ w.path \in MayRefuse /\ server' = server
  <2>1. /\ Len(down') = L + 1 /\ DOMAIN down' = 1 .. (L + 1) /\ down'[L + 1] = refused
        /\ \A i \in 1 .. L : down'[i] = down[i]
    BY <1>3, <1>7, <1>10
  <2> QED BY <1>1, <1>4, <1>6, <1>10, <2>1
<1> QED BY <1>2, <1>8, <1>9, <1>10

(* The order of the puts over a put the server takes: it is the oldest of  *)
(* the puts under way, younger than every answer under way; and when it is *)
(* the last one at its path, it carries the value written last there.      *)
LEMMA PutOrder == TypeInv /\ AssertInv /\ OrderInv /\ ServerTakesPut => OrderInv'
<1> SUFFICES ASSUME TypeInv, AssertInv, OrderInv, ServerTakesPut PROVE OrderInv'
  OBVIOUS
<1> DEFINE w == Head(up).write
           L == Len(down)
           N == Len(down')
<1>0. /\ up \in Seq(Request) /\ up # <<>> /\ up' = Tail(up) /\ server \in Node
      /\ UNCHANGED <<link, writes, held, nextWrite, written>>
  BY DEF TypeInv, TypeOK, ServerTakesPut, clientVars
<1>1. /\ w \in Write /\ 1 \in DOMAIN up /\ IsPut(up[1]) /\ up[1].write = w
      /\ L \in Nat /\ N \in Nat /\ L < N
      /\ DOMAIN down = 1 .. L /\ DOMAIN down' = 1 .. N
      /\ \A i \in 1 .. L : down'[i] = down[i]
      /\ IsAnswer(down'[N]) /\ down'[N].id = w.id
      /\ \/ server' = [server EXCEPT ![w.path] = w.val]
         \/ w.path \in MayRefuse /\ server' = server
      /\ \/ N = L + 1
         \/ /\ N = L + 2
            /\ down'[L + 1] = [msg |-> "update", path |-> w.path, val |-> w.val]
  BY PutAnswered
<1>2. /\ \A j \in DOMAIN up' : j \in Nat /\ j > 0 /\ j + 1 \in DOMAIN up /\ up'[j] = up[j + 1]
      /\ \A j \in DOMAIN up : j = 1 \/ (j - 1 \in DOMAIN up' /\ up'[j - 1] = up[j])
  BY <1>0, TailAt
<1>3. link
  BY <1>0 DEF AssertInv, OneListen
<1> HIDE DEF w, L, N
<1>4. \A i \in DOMAIN down' : IsAnswer(down'[i]) =>
          \/ i \in DOMAIN down /\ down'[i] = down[i] /\ i < N
          \/ i = N
  <2>1. N = L + 1 \/ (N = L + 2 /\ ~IsAnswer(down'[L + 1]))
    BY <1>1 DEF IsAnswer
  <2> QED BY <1>1, <2>1
<1>5. Outstanding' = Outstanding
  BY <1>0 DEF Outstanding
<1>6. UniqueIds' /\ YoungestIsWritten' /\ AnsweredInOrder'
  BY <1>0, <1>5 DEF OrderInv, UniqueIds, YoungestIsWritten, AnsweredInOrder
<1>7. \A i \in DOMAIN down : IsAnswer(down[i]) => down[i].id < w.id
  BY <1>1 DEF OrderInv, InFlight, AnswersFirst
<1>8. \A j \in DOMAIN up' : IsPut(up'[j]) => w.id < up'[j].write.id
  <2> SUFFICES ASSUME NEW j \in DOMAIN up', IsPut(up'[j]) PROVE w.id < up'[j].write.id
    OBVIOUS
  <2>1. j + 1 \in DOMAIN up /\ up'[j] = up[j + 1] /\ 1 < j + 1
    BY <1>2
  <2> QED BY <1>1, <2>1 DEF OrderInv, InFlight, PutsSorted
<1>9. w \in Outstanding
  BY <1>1 DEF OrderInv, InFlight, PutsAreOutstanding
<1>10. AnswersSorted'
  <2> SUFFICES ASSUME NEW i \in DOMAIN down', NEW j \in DOMAIN down', i < j,
                      IsAnswer(down'[i]), IsAnswer(down'[j])
               PROVE  down'[i].id < down'[j].id
    BY DEF AnswersSorted
  <2>1. i # N
    BY <1>1
  <2>2. i \in DOMAIN down /\ down'[i] = down[i]
    BY <1>4, <2>1
  <2>3. CASE j = N
    BY <1>1, <1>7, <2>2, <2>3
  <2>4. CASE j \in DOMAIN down /\ down'[j] = down[j]
    BY <2>2, <2>4 DEF OrderInv, InFlight, AnswersSorted
  <2> QED BY <1>4, <2>3, <2>4
<1>11. PutsSorted'
  <2> SUFFICES ASSUME NEW i \in DOMAIN up', NEW j \in DOMAIN up', i < j,
                      IsPut(up'[i]), IsPut(up'[j])
               PROVE  up'[i].write.id < up'[j].write.id
    BY DEF PutsSorted
  <2>1. i + 1 < j + 1
    BY <1>2
  <2> QED BY <1>2, <2>1 DEF OrderInv, InFlight, PutsSorted
<1>12. AnswersFirst'
  <2> SUFFICES ASSUME NEW i \in DOMAIN down', NEW j \in DOMAIN up',
                      IsAnswer(down'[i]), IsPut(up'[j])
               PROVE  down'[i].id < up'[j].write.id
    BY DEF AnswersFirst
  <2>1. CASE i = N
    BY <1>1, <1>8, <2>1
  <2>2. CASE i \in DOMAIN down /\ down'[i] = down[i]
    BY <1>2, <2>2 DEF OrderInv, InFlight, AnswersFirst
  <2> QED BY <1>4, <2>1, <2>2
<1>13. AnswersAreOutstanding'
  <2> SUFFICES ASSUME NEW i \in DOMAIN down', IsAnswer(down'[i])
               PROVE  \E v \in Outstanding : v.id = down'[i].id
    BY <1>5 DEF AnswersAreOutstanding
  <2>1. CASE i = N
    BY <1>1, <1>9, <2>1
  <2>2. CASE i \in DOMAIN down /\ down'[i] = down[i]
    BY <2>2 DEF OrderInv, InFlight, AnswersAreOutstanding
  <2> QED BY <1>4, <2>1, <2>2
<1>14. PutsAreOutstanding'
  BY <1>2, <1>5 DEF OrderInv, InFlight, PutsAreOutstanding
<1>15. OutstandingIsSent'
  <2> SUFFICES ASSUME NEW v \in Outstanding
               PROVE  \/ \E i \in DOMAIN down' : IsAnswer(down'[i]) /\ down'[i].id = v.id
                      \/ \E j \in DOMAIN up' : IsPut(up'[j]) /\ up'[j].write = v
    BY <1>5 DEF OutstandingIsSent
  <2>1. CASE \E i \in DOMAIN down : IsAnswer(down[i]) /\ down[i].id = v.id
    <3>1. PICK i \in DOMAIN down : IsAnswer(down[i]) /\ down[i].id = v.id
      BY <2>1
    <3>2. i \in DOMAIN down' /\ down'[i] = down[i]
      BY <1>1, <3>1
    <3> QED BY <3>1, <3>2
  <2>2. CASE \E j \in DOMAIN up : IsPut(up[j]) /\ up[j].write = v
    <3>1. PICK j \in DOMAIN up : IsPut(up[j]) /\ up[j].write = v
      BY <2>2
    <3>2. CASE j = 1
      <4>1. N \in DOMAIN down'
        BY <1>1
      <4> QED BY <1>1, <3>1, <3>2, <4>1
    <3>3. CASE j # 1
      BY <1>2, <3>1, <3>3
    <3> QED BY <3>2, <3>3
  <2> QED BY <1>3, <2>1, <2>2 DEF OrderInv, InFlight, OutstandingIsSent
<1>16. ServerHasLast'
  <2> SUFFICES ASSUME NEW p \in Path \ MayRefuse, written[p] # Null, NoPutAt(p)'
               PROVE  server'[p] = written[p]
    BY <1>0, <1>3 DEF ServerHasLast
  <2>1. CASE p # w.path
    <3>1. NoPutAt(p)
      BY <1>1, <1>2, <2>1 DEF NoPutAt
    <3>2. server'[p] = server[p]
      BY <1>0, <1>1, <2>1 DEF Node
    <3> QED BY <1>3, <3>1, <3>2 DEF OrderInv, ServerHasLast
  <2>2. CASE p = w.path
    <3>1. server'[p] = w.val
      BY <1>0, <1>1, <2>2 DEF Node
    <3>2. ASSUME NEW v \in writes, v.path = p PROVE v.id <= w.id
      <4>0. v.id \in Nat /\ w.id \in Nat
        BY <1>1 DEF Write, TypeInv, TypeOK
      <4>1. CASE v \notin Outstanding
        BY <1>9, <4>0, <4>1, HeldAreOlder
      <4>2. CASE \E i \in DOMAIN down : IsAnswer(down[i]) /\ down[i].id = v.id
        BY <1>7, <4>0, <4>2
      <4>3. CASE \E j \in DOMAIN up : IsPut(up[j]) /\ up[j].write = v
        <5>1. PICK j \in DOMAIN up : IsPut(up[j]) /\ up[j].write = v
          BY <4>3
        <5>2. j = 1
          BY <1>2, <3>2, <5>1 DEF NoPutAt
        <5> QED BY <1>1, <4>0, <5>1, <5>2
      <4> QED BY <1>3, <4>1, <4>2, <4>3 DEF OrderInv, InFlight, OutstandingIsSent
    <3>3. w \in writes
      BY <1>9 DEF Outstanding
    <3>4. w.val = written[p]
      BY <2>2, <3>2, <3>3 DEF OrderInv, YoungestIsWritten
    <3> QED BY <3>1, <3>4
  <2> QED BY <2>1, <2>2
<1> QED
  BY <1>6, <1>10, <1>11, <1>12, <1>13, <1>14, <1>15, <1>16 DEF OrderInv, InFlight

(* Over the server's other steps: the listen's request and answer are no   *)
(* puts and no answers to puts.                                            *)
LEMMA ListenOrder ==
    TypeInv /\ OrderInv /\ TypeOK' /\ (ServerTakesListen \/ ServerAnswersListen) => OrderInv'
<1> SUFFICES ASSUME TypeInv, OrderInv, TypeOK', ServerTakesListen \/ ServerAnswersListen
             PROVE  OrderInv'
  OBVIOUS
<1>0. /\ up \in Seq(Request) /\ down \in Seq(Message) /\ server \in Node
      /\ UNCHANGED <<server, link, nextWrite, written, writes, held>>
  BY DEF TypeInv, TypeOK, ServerTakesListen, ServerAnswersListen, clientVars
<1>1. CASE ServerTakesListen
  <2>1. up # <<>> /\ Head(up) \notin Puts /\ up' = Tail(up) /\ down' = down
    BY <1>1 DEF ServerTakesListen, Puts
  <2>2. Moved(up, up', -1, Puts)
    BY <1>0, <2>1, TailMoves
  <2>3. Moved(down, down', 0, Answers)
    BY <1>0, <2>1, StayMoves
  <2> QED BY <1>0, <2>2, <2>3, QuietOrder
<1>2. CASE ServerAnswersListen
  <2> DEFINE data == [msg |-> "data", node |-> server]
             listened == [msg |-> "listened"]
             d == Append(down, data)
  <2>1. down' = down \o <<data, listened>> /\ up' = up
    BY <1>2 DEF ServerAnswersListen
  <2>2. /\ data \in Message /\ listened \in Message
        /\ data \notin Answers /\ listened \notin Answers
    BY <1>0 DEF Message, Answers
  <2> HIDE DEF data, listened
  <2>3. d \in Seq(Message) /\ down' = Append(d, listened)
    BY <1>0, <2>1, <2>2
  <2>4. Moved(down, d, 0, Answers)
    BY <1>0, <2>2, AppendMoves
  <2> HIDE DEF d
  <2>5. Moved(d, down', 0, Answers)
    BY <2>2, <2>3, AppendMoves
  <2>6. Moved(down, down', 0, Answers)
    <3>1. /\ \A i \in DOMAIN down : i + 0 = i /\ i - 0 = i
          /\ \A i \in DOMAIN d : i + 0 = i /\ i - 0 = i
          /\ \A i \in DOMAIN down' : i + 0 = i /\ i - 0 = i
      <4>1. down' \in Seq(Message)
        BY DEF TypeOK
      <4> QED BY <1>0, <2>3, <4>1, LenProperties
    <3> QED BY <2>4, <2>5, <3>1 DEF Moved
  <2>7. Moved(up, up', 0, Puts)
    BY <1>0, <2>1, StayMoves
  <2> QED BY <1>0, <2>6, <2>7, QuietOrder
<1> QED BY <1>1, <1>2

(* Over a message that answers no put: nothing changes for the outstanding *)
(* writes, and with the answer of the listen those whose answers were held *)
(* back, which are older, are done.                                        *)
LEMMA OtherMessageOrder ==
    TypeInv /\ OrderInv /\ TypeOK' /\ onDataMessage /\ Head(down).msg # "answer" => OrderInv'
<1> SUFFICES ASSUME TypeInv, OrderInv, TypeOK', onDataMessage, Head(down).msg # "answer"
             PROVE  OrderInv'
  OBVIOUS
<1> DEFINE m == Head(down)
<1>0. /\ up \in Seq(Request) /\ down \in Seq(Message) /\ down # <<>>
      /\ m \in Message /\ m \notin Answers
      /\ down' = Tail(down) /\ UNCHANGED <<server, link, up>>
  BY HeadTailProperties DEF TypeInv, TypeOK, onDataMessage, Answers
<1>1. Moved(up, up', 0, Puts)
  BY <1>0, StayMoves
<1>2. Moved(down, down', -1, Answers)
  BY <1>0, TailMoves
<1>3. CASE m.msg \in {"data", "update"}
  <2>1. UNCHANGED <<nextWrite, written, writes, held>>
    BY <1>3 DEF onDataMessage, ToServerCache
  <2> QED BY <1>0, <1>1, <1>2, <2>1, QuietOrder
<1>4. CASE m.msg = "listened"
  <2>1. /\ held' = {} /\ writes' = {w \in writes : w.id \notin held}
        /\ UNCHANGED <<nextWrite, written>>
    BY <1>4 DEF onDataMessage, onListened, ackWrite
  <2>2. Outstanding' = Outstanding /\ writes' = Outstanding
    BY <2>1 DEF Outstanding
  <2>3. InFlight' /\ AnsweredInOrder' /\ ServerHasLast'
    BY <1>0, <1>1, <1>2, <2>1, <2>2, SameOrder
  <2>4. UniqueIds'
    BY <2>1 DEF OrderInv, UniqueIds
  <2>5. YoungestIsWritten'
    <3> SUFFICES ASSUME NEW w \in Outstanding, \A v \in Outstanding : v.path = w.path => v.id <= w.id
                 PROVE  w.val = written[w.path]
      BY <2>1, <2>2 DEF YoungestIsWritten
    <3>1. w \in writes /\ w.id \in Nat /\ \A v \in writes : v.id \in Nat
      BY DEF Outstanding, TypeInv, TypeOK, Write
    <3>2. \A v \in writes : v.path = w.path => v.id <= w.id
      BY <3>1, HeldAreOlder
    <3> QED BY <3>1, <3>2 DEF OrderInv, YoungestIsWritten
  <2> QED BY <2>3, <2>4, <2>5 DEF OrderInv
<1> QED BY <1>0, <1>3, <1>4 DEF onDataMessage

(* What an answer to a put does: the oldest of the outstanding writes is   *)
(* outstanding no longer.                                                  *)
LEMMA Answered ==
    ASSUME TypeInv, AssertInv, OrderInv, HoldInv, onDataMessage, Head(down).msg = "answer"
    PROVE  \E w \in Outstanding :
              /\ w.id = Head(down).id
              /\ \A v \in Outstanding : v # w => w.id < v.id
              /\ Outstanding' = Outstanding \ {w}
              /\ UNCHANGED <<server, link, up, cache, nextWrite, written, listening, awaiting, asked>>
              /\ \/ awaiting /\ writes' = writes
                 \/ ~awaiting /\ held = {} /\ held' = {} /\ writes' = writes \ {w}
<1> DEFINE id == Head(down).id
<1>0. /\ down \in Seq(Message) /\ down # <<>> /\ onAnswer(id) /\ link
      /\ UNCHANGED <<server, link, up, asked>>
  BY DEF TypeInv, TypeOK, onDataMessage, AssertInv, OneListen
<1>1. 1 \in DOMAIN down /\ IsAnswer(down[1]) /\ down[1].id = id
  BY <1>0, TailAt DEF IsAnswer
<1> HIDE DEF id
<1>2. PICK w \in Outstanding : w.id = id
  BY <1>1 DEF OrderInv, InFlight, AnswersAreOutstanding
<1>3. Outstanding \subseteq writes /\ w \in writes /\ id \notin held
  BY <1>2 DEF Outstanding
<1>4. ASSUME NEW v \in Outstanding, v # w PROVE w.id < v.id
  <2>1. v.id # id
    BY <1>2, <1>3, <1>4 DEF OrderInv, UniqueIds
  <2>2. CASE \E i \in DOMAIN down : IsAnswer(down[i]) /\ down[i].id = v.id
    <3>1. PICK i \in DOMAIN down : IsAnswer(down[i]) /\ down[i].id = v.id
      BY <2>2
    <3>2. i # 1
      BY <1>1, <2>1, <3>1
    <3>3. 1 < i
      BY <1>0, <3>1, <3>2, LenProperties
    <3> QED BY <1>1, <1>2, <3>1, <3>3 DEF OrderInv, InFlight, AnswersSorted
  <2>3. CASE \E j \in DOMAIN up : IsPut(up[j]) /\ up[j].write = v
    BY <1>1, <1>2, <2>3 DEF OrderInv, InFlight, AnswersFirst
  <2> QED BY <1>0, <2>2, <2>3 DEF OrderInv, InFlight, OutstandingIsSent
<1>5. UNCHANGED <<cache, nextWrite, written, listening, awaiting>>
  BY <1>0, <1>2 DEF onAnswer, ackWrite
<1>6. \A v \in writes : v.id = id <=> v = w
  BY <1>2, <1>3 DEF OrderInv, UniqueIds
<1>7. CASE awaiting
  <2>1. held' = held \cup {id} /\ writes' = writes
    BY <1>0, <1>2, <1>7 DEF onAnswer
  <2>2. Outstanding' = Outstanding \ {w}
    BY <1>6, <2>1 DEF Outstanding
  <2> QED BY <1>0, <1>2, <1>4, <1>5, <1>7, <2>1, <2>2 DEF id
<1>8. CASE ~awaiting
  <2>1. held' = held /\ writes' = {v \in writes : v.id \notin {id}}
    BY <1>0, <1>2, <1>8 DEF onAnswer, ackWrite
  <2>2. Outstanding' = Outstanding \ {w} /\ writes' = writes \ {w}
    BY <1>6, <2>1 DEF Outstanding
  <2>3. held = {}
    BY <1>0, <1>8 DEF HoldInv, HeldForListen
  <2> QED BY <1>0, <1>2, <1>4, <1>5, <1>8, <2>1, <2>2, <2>3 DEF id
<1> QED BY <1>7, <1>8

(* The order of the puts over an answer to one of them. *)
LEMMA AnswerOrder ==
    TypeInv /\ AssertInv /\ OrderInv /\ HoldInv /\ onDataMessage /\ Head(down).msg = "answer"
        => OrderInv'
<1> SUFFICES ASSUME TypeInv, AssertInv, OrderInv, HoldInv, onDataMessage,
                    Head(down).msg = "answer"
             PROVE  OrderInv'
  OBVIOUS
<1>1. PICK w \in Outstanding :
          /\ w.id = Head(down).id
          /\ \A v \in Outstanding : v # w => w.id < v.id
          /\ Outstanding' = Outstanding \ {w}
          /\ UNCHANGED <<server, link, up, nextWrite, written>>
          /\ \/ awaiting /\ writes' = writes
             \/ ~awaiting /\ held = {} /\ held' = {} /\ writes' = writes \ {w}
  BY Answered
<1>2. /\ down \in Seq(Message) /\ down # <<>> /\ down' = Tail(down) /\ link
      /\ nextWrite \in Nat
  BY DEF TypeInv, TypeOK, onDataMessage, AssertInv, OneListen
<1>3. 1 \in DOMAIN down /\ IsAnswer(down[1]) /\ down[1].id = w.id
  BY <1>1, <1>2, TailAt DEF IsAnswer
<1>4. /\ \A i \in DOMAIN down' : i \in Nat /\ i > 0 /\ i + 1 \in DOMAIN down /\ down'[i] = down[i + 1]
      /\ \A i \in DOMAIN down : i = 1 \/ (i - 1 \in DOMAIN down' /\ down'[i - 1] = down[i])
  BY <1>2, TailAt
<1>5. Outstanding \subseteq writes /\ \A v \in writes : v.id \in Nat
  BY DEF Outstanding, TypeInv, TypeOK, Write
<1>6. \A i \in DOMAIN down' : IsAnswer(down'[i]) => w.id < down'[i].id
  <2> SUFFICES ASSUME NEW i \in DOMAIN down', IsAnswer(down'[i]) PROVE w.id < down'[i].id
    OBVIOUS
  <2>1. i + 1 \in DOMAIN down /\ down'[i] = down[i + 1] /\ 1 < i + 1
    BY <1>4
  <2> QED BY <1>3, <2>1 DEF OrderInv, InFlight, AnswersSorted
<1>7. \A j \in DOMAIN up : IsPut(up[j]) => w.id < up[j].write.id
  BY <1>3 DEF OrderInv, InFlight, AnswersFirst
<1>8. AnswersSorted'
  <2> SUFFICES ASSUME NEW i \in DOMAIN down', NEW j \in DOMAIN down', i < j,
                      IsAnswer(down'[i]), IsAnswer(down'[j])
               PROVE  down'[i].id < down'[j].id
    BY DEF AnswersSorted
  <2>1. i + 1 < j + 1
    BY <1>4
  <2> QED BY <1>4, <2>1 DEF OrderInv, InFlight, AnswersSorted
<1>9. PutsSorted'
  BY <1>1 DEF OrderInv, InFlight, PutsSorted
<1>10. AnswersFirst'
  BY <1>1, <1>4 DEF OrderInv, InFlight, AnswersFirst
<1>11. AnswersAreOutstanding'
  <2> SUFFICES ASSUME NEW i \in DOMAIN down', IsAnswer(down'[i])
               PROVE  \E v \in Outstanding' : v.id = down'[i].id
    BY DEF AnswersAreOutstanding
  <2>1. PICK v \in Outstanding : v.id = down'[i].id
    BY <1>4 DEF OrderInv, InFlight, AnswersAreOutstanding
  <2>2. v # w
    BY <1>5, <1>6, <2>1
  <2> QED BY <1>1, <2>1, <2>2
<1>12. PutsAreOutstanding'
  <2> SUFFICES ASSUME NEW j \in DOMAIN up, IsPut(up[j]) PROVE up[j].write \in Outstanding'
    BY <1>1 DEF PutsAreOutstanding
  <2>1. up[j].write \in Outstanding /\ up[j].write # w
    BY <1>5, <1>7 DEF OrderInv, InFlight, PutsAreOutstanding
  <2> QED BY <1>1, <2>1
<1>13. OutstandingIsSent'
  <2> SUFFICES ASSUME NEW v \in Outstanding, v # w
               PROVE  \/ \E i \in DOMAIN down' : IsAnswer(down'[i]) /\ down'[i].id = v.id
                      \/ \E j \in DOMAIN up : IsPut(up[j]) /\ up[j].write = v
    BY <1>1 DEF OutstandingIsSent
  <2>1. v.id # w.id
    BY <1>1, <1>5
  <2>2. CASE \E i \in DOMAIN down : IsAnswer(down[i]) /\ down[i].id = v.id
    BY <1>3, <1>4, <2>1, <2>2
  <2> QED BY <1>2, <2>2 DEF OrderInv, InFlight, OutstandingIsSent
<1>14. AnsweredInOrder'
  <2> SUFFICES ASSUME NEW v \in Outstanding, v # w, NEW n \in v.id .. (nextWrite - 1)
               PROVE  \E u \in Outstanding' : u.id = n
    BY <1>1 DEF AnsweredInOrder
  <2>1. PICK u \in Outstanding : u.id = n
    BY DEF OrderInv, AnsweredInOrder
  <2>2. u # w
    BY <1>1, <1>2, <1>5, <2>1
  <2> QED BY <1>1, <2>1, <2>2
<1>15. ServerHasLast'
  BY <1>1, <1>2 DEF OrderInv, ServerHasLast, NoPutAt
<1>16. UniqueIds'
  BY <1>1 DEF OrderInv, UniqueIds
<1>17. YoungestIsWritten'
  <2>1. CASE writes' = writes
    BY <1>1, <2>1 DEF OrderInv, YoungestIsWritten
  <2>2. CASE held = {} /\ writes' = writes \ {w}
    <3>1. Outstanding = writes
      BY <2>2 DEF Outstanding
    <3> SUFFICES ASSUME NEW u \in writes, u # w,
                        \A v \in writes \ {w} : v.path = u.path => v.id <= u.id
                 PROVE  u.val = written[u.path]
      BY <1>1, <2>2 DEF YoungestIsWritten
    <3>2. w.id <= u.id
      BY <1>1, <1>5, <3>1
    <3>3. \A v \in writes : v.path = u.path => v.id <= u.id
      BY <3>2
    <3> QED BY <3>3 DEF OrderInv, YoungestIsWritten
  <2> QED BY <1>1, <2>1, <2>2
<1> QED
  BY <1>8, <1>9, <1>10, <1>11, <1>12, <1>13, <1>14, <1>15, <1>16, <1>17
  DEF OrderInv, InFlight

-----------------------------------------------------------------------------
(* The launch satisfies the invariants. *)
LEMMA OrderInvInit == Init => HoldInv /\ OrderInv
<1> SUFFICES ASSUME Init PROVE HoldInv /\ OrderInv
  OBVIOUS
<1>1. /\ DOMAIN up = {} /\ DOMAIN down = {} /\ writes = {} /\ held = {} /\ ~link
      /\ Outstanding = {} /\ \A p \in Path : written[p] = Null
  BY DEF Init, FreshClient, Outstanding, EmptyNode
<1>2. InFlight
  BY <1>1 DEF InFlight, AnswersSorted, PutsSorted, AnswersFirst, AnswersAreOutstanding,
              PutsAreOutstanding, OutstandingIsSent
<1>3. UniqueIds /\ AnsweredInOrder /\ YoungestIsWritten /\ ServerHasLast
  BY <1>1 DEF UniqueIds, AnsweredInOrder, YoungestIsWritten, ServerHasLast
<1> QED BY <1>1, <1>2, <1>3 DEF OrderInv, HoldInv, ListenIsActive, HeldForListen

(* Every step keeps the order of the puts. *)
LEMMA OrderInvStep ==
    TypeInv /\ AssertInv /\ HoldInv /\ OrderInv /\ [Next]_vars => OrderInv'
<1> SUFFICES ASSUME TypeInv, AssertInv, HoldInv, OrderInv, [Next]_vars PROVE OrderInv'
  OBVIOUS
<1>0. TypeOK' /\ up \in Seq(Request) /\ down \in Seq(Message)
  BY TypeInvStep DEF TypeInv, TypeOK
<1>1. CASE ExecuteCall
  BY <1>0, <1>1, CallOrder
<1>2. CASE onReady \/ onDisconnect
  BY <1>2, LinkOrder
<1>3. CASE ServerTakesListen \/ ServerAnswersListen
  BY <1>0, <1>3, ListenOrder
<1>4. CASE ServerTakesPut
  BY <1>4, PutOrder
<1>5. CASE onDataMessage
  BY <1>0, <1>5, OtherMessageOrder, AnswerOrder
<1>6. CASE AppWrites \/ AppObserves \/ AppTakesEvent \/ UNCHANGED vars
  <2>1. UNCHANGED <<server, link, nextWrite, written, writes, held, up, down>>
    BY <1>6 DEF AppWrites, AppObserves, AppTakesEvent, vars, netVars, clientVars
  <2>2. Moved(up, up', 0, Puts) /\ Moved(down, down', 0, Answers)
    BY <1>0, <2>1, StayMoves
  <2> QED BY <1>0, <2>1, <2>2, QuietOrder
<1> QED
  BY <1>1, <1>2, <1>3, <1>4, <1>5, <1>6 DEF Next, DatabaseNext, ClientStep, ServerStep

(* Together they are an invariant of the client. *)
THEOREM OrderInvariance == Spec => [](TypeInv /\ AssertInv /\ HoldInv /\ OrderInv)
  BY TypeInvInit, TypeInvStep, AssertInvInit, AssertInvStep, HoldStep,
     OrderInvInit, OrderInvStep, PTL DEF Spec

(* Puts keep their order over any number of lost connections: those that   *)
(* have no answer are always the youngest, and where none is left at a     *)
(* path the server has the value written last there, although a put may    *)
(* have been sent, and applied, on several connections.                    *)
THEOREM PutsKeepOrder == Spec => []PutsInOrder
<1>1. TypeInv /\ AssertInv /\ HoldInv /\ OrderInv => PutsInOrder
  <2> SUFFICES ASSUME OrderInv, NEW p \in Path \ MayRefuse, written[p] # Null,
                      \A w \in Outstanding : w.path # p
               PROVE  server[p] = written[p]
    BY DEF OrderInv, PutsInOrder, LastWriteWins
  <2>1. NoOutstandingAt(p) /\ NoPutAt(p)
    BY DEF NoPutAt, NoOutstandingAt, OrderInv, InFlight, PutsAreOutstanding
  <2> QED BY <2>1 DEF OrderInv, ServerHasLast
<1> QED BY <1>1, OrderInvariance, PTL

-----------------------------------------------------------------------------
(* A step in which the cache, the record and the messages stay, and a path *)
(* without a pending write either stays as it is or had none before.       *)
LEMMA QuietReads ==
    ASSUME ReadInv, UNCHANGED <<asked, down, cache, server>>,
           Outstanding \subseteq Outstanding', listening => listening',
           \A p \in Path : (\A w \in writes' : w.path # p)
               => written'[p] = written[p] /\ \A w \in writes : w.path # p
    PROVE  ReadInv'
<1>1. CatchesUp' /\ DataThenListened'
  BY DEF ReadInv, CatchesUp, DataThenListened
<1>2. UpdateThenAnswer'
  BY DEF ReadInv, UpdateThenAnswer
<1>3. CacheWasAsked' /\ CacheHasWritten'
  BY DEF ReadInv, CacheWasAsked, CacheHasWritten
<1> QED BY <1>1, <1>2, <1>3 DEF ReadInv

(* What the app reads, over its calls. *)
LEMMA CallReads == TypeInv /\ AssertInv /\ ReadInv /\ ExecuteCall => ReadInv'
<1> SUFFICES ASSUME TypeInv, AssertInv, ReadInv, ExecuteCall PROVE ReadInv'
  OBVIOUS
<1> DEFINE c == Head(calls)
<1>0. c \in Call /\ nextWrite \in Nat /\ writes \subseteq Write /\ written \in Node
  BY HeadTailProperties DEF TypeInv, TypeOK, ExecuteCall
<1>1. CASE c.op = "observe"
  <2>1. UNCHANGED <<asked, down, cache, server, writes, held, written>> /\ listening'
    BY <1>1 DEF ExecuteCall, addEventRegistration
  <2> QED BY <2>1, QuietReads DEF Outstanding
<1>2. CASE c.op = "remove"
  <2>1. UNCHANGED <<asked, down, cache, server, writes, held, written, listening>>
    BY <1>2 DEF ExecuteCall, removeEventRegistration, netVars
  <2> QED BY <2>1, QuietReads DEF Outstanding
<1>3. CASE c.op = "write"
  <2> DEFINE w == [id |-> nextWrite, path |-> c.path, val |-> c.val]
  <2>1. /\ c.path \in Path /\ writes' = writes \cup {w}
        /\ written' = [written EXCEPT ![c.path] = c.val]
        /\ UNCHANGED <<asked, down, cache, server, held, listening>>
    BY <1>0, <1>3, CallType DEF ExecuteCall, applyWrite
  <2>2. w.path = c.path
    OBVIOUS
  <2> HIDE DEF w, c
  <2>3. Outstanding \subseteq Outstanding'
    BY <2>1 DEF Outstanding
  <2>4. \A p \in Path : (\A v \in writes' : v.path # p)
            => written'[p] = written[p] /\ \A v \in writes : v.path # p
    BY <1>0, <2>1, <2>2 DEF Node
  <2> QED BY <2>1, <2>3, <2>4, QuietReads
<1> QED BY <1>0, <1>1, <1>2, <1>3 DEF ExecuteCall

(* Over connections: without one nothing is under way. *)
LEMMA LinkReads ==
    TypeInv /\ AssertInv /\ ReadInv /\ (onReady \/ onDisconnect) => ReadInv'
<1> SUFFICES ASSUME TypeInv, AssertInv, ReadInv, onReady \/ onDisconnect PROVE ReadInv'
  OBVIOUS
<1>1. /\ asked' = "no" /\ down' = <<>>
      /\ UNCHANGED <<listening, cache, writes, written>>
  BY DEF onReady, onDisconnect, AssertInv, OneListen
<1>2. DOMAIN down' = {}
  BY <1>1
<1>3. CatchesUp' /\ DataThenListened' /\ UpdateThenAnswer'
  BY <1>1, <1>2 DEF CatchesUp, DataThenListened, UpdateThenAnswer
<1>4. CacheWasAsked' /\ CacheHasWritten'
  BY <1>1 DEF ReadInv, CacheWasAsked, CacheHasWritten
<1> QED BY <1>3, <1>4 DEF ReadInv

(* Over the listen at the server: its data tells the client everything. *)
LEMMA ListenReads ==
    TypeInv /\ AssertInv /\ ReadInv /\ (ServerTakesListen \/ ServerAnswersListen) => ReadInv'
<1> SUFFICES ASSUME TypeInv, AssertInv, ReadInv, ServerTakesListen \/ ServerAnswersListen
             PROVE  ReadInv'
  OBVIOUS
<1>0. /\ up \in Seq(Request) /\ down \in Seq(Message) /\ server \in Node
      /\ UNCHANGED <<server, clientVars>>
  BY DEF TypeInv, TypeOK, ServerTakesListen, ServerAnswersListen
<1>1. CacheWasAsked' /\ CacheHasWritten'
  BY <1>0 DEF ReadInv, CacheWasAsked, CacheHasWritten, clientVars
<1>2. asked # "active"
  <2>1. CASE ServerTakesListen
    <3>1. up # <<>> /\ Head(up) \in ListenRequest
      BY <1>0, <2>1, HeadTailProperties DEF ServerTakesListen, ListenRequest
    <3> QED BY <1>0, <3>1, TailMarks DEF AssertInv, OneListen
  <2>2. CASE ServerAnswersListen
    BY <2>2 DEF ServerAnswersListen
  <2> QED BY <2>1, <2>2
<1>3. \A i \in DOMAIN down : down[i].msg # "update"
  BY <1>2 DEF ReadInv, UpdateThenAnswer
<1>4. CASE ServerTakesListen
  <2>1. down' = down /\ asked' = "asked"
    BY <1>4 DEF ServerTakesListen
  <2>2. CatchesUp' /\ DataThenListened' /\ UpdateThenAnswer'
    BY <1>3, <2>1 DEF ReadInv, CatchesUp, DataThenListened, UpdateThenAnswer
  <2> QED BY <1>1, <2>2 DEF ReadInv
<1>5. CASE ServerAnswersListen
  <2> DEFINE data == [msg |-> "data", node |-> server]
             listened == [msg |-> "listened"]
             d == Append(down, data)
             L == Len(down)
  <2>1. down' = down \o <<data, listened>> /\ asked' = "active"
    BY <1>5 DEF ServerAnswersListen
  <2>2. /\ data \in Message /\ listened \in Message
        /\ data.msg = "data" /\ listened.msg = "listened" /\ data.node = server
    BY <1>0 DEF Message
  <2> HIDE DEF data, listened
  <2>3. d \in Seq(Message) /\ down' = Append(d, listened)
    BY <1>0, <2>1, <2>2
  <2>4. /\ L \in Nat /\ DOMAIN down = 1 .. L /\ Len(d) = L + 1 /\ DOMAIN d = 1 .. (L + 1)
        /\ d[L + 1] = data /\ \A i \in 1 .. L : d[i] = down[i]
    BY <1>0, <2>2, AppendAt, AppendProperties
  <2> HIDE DEF d, L
  <2>5. /\ DOMAIN down' = 1 .. (L + 2) /\ down'[L + 2] = listened
        /\ \A i \in 1 .. (L + 1) : down'[i] = d[i]
    <3>1. DOMAIN down' = 1 .. (Len(d) + 1) /\ down'[Len(d) + 1] = listened
          /\ \A i \in DOMAIN d : down'[i] = d[i]
      BY <2>2, <2>3, AppendAt
    <3>2. Len(d) + 1 = L + 2
      BY <2>4
    <3> QED BY <2>4, <3>1, <3>2
  <2>6. /\ L + 1 \in DOMAIN down' /\ down'[L + 1] = data
        /\ L + 2 \in DOMAIN down' /\ down'[L + 2] = listened /\ L + 2 = (L + 1) + 1
        /\ \A i \in DOMAIN down : i \in DOMAIN down' /\ down'[i] = down[i]
    BY <2>4, <2>5
  <2>7. \A i \in DOMAIN down' : i \in DOMAIN down \/ i = L + 1 \/ i = L + 2
    BY <2>4, <2>5
  <2>8. CatchesUp'
    <3> SUFFICES ASSUME NEW p \in Path
                 PROVE  /\ \A i \in DOMAIN down' :
                              Tells(down'[i], p)
                              /\ (\A j \in DOMAIN down' : j > i => ~Tells(down'[j], p))
                                  => Told(down'[i], p) = server[p]
                        /\ \E i \in DOMAIN down' : Tells(down'[i], p)
      BY <1>0 DEF CatchesUp
    <3>1. Tells(data, p) /\ ~Tells(listened, p) /\ Told(data, p) = server[p]
      BY <2>2 DEF Tells, Told
    <3>2. ASSUME NEW i \in DOMAIN down', Tells(down'[i], p),
                 \A j \in DOMAIN down' : j > i => ~Tells(down'[j], p)
          PROVE  i = L + 1
      <4>1. ~(L + 1 > i)
        BY <2>6, <3>1, <3>2
      <4>2. i \notin DOMAIN down
        BY <2>4, <4>1
      <4> QED BY <2>6, <2>7, <3>1, <3>2, <4>2
    <3> QED BY <2>6, <3>1, <3>2
  <2>9. DataThenListened'
    <3> SUFFICES ASSUME NEW i \in DOMAIN down', down'[i].msg = "data"
                 PROVE  i + 1 \in DOMAIN down' /\ down'[i + 1].msg = "listened"
      BY DEF DataThenListened
    <3>1. CASE i \in DOMAIN down
      BY <2>6, <3>1 DEF ReadInv, DataThenListened
    <3>2. CASE i = L + 1
      BY <2>2, <2>6, <3>2
    <3>3. CASE i = L + 2
      BY <2>2, <2>6, <3>3
    <3> QED BY <2>7, <3>1, <3>2, <3>3
  <2>10. UpdateThenAnswer'
    <3>1. \A i \in DOMAIN down' : down'[i].msg # "update"
      BY <1>3, <2>2, <2>6, <2>7
    <3> QED BY <3>1 DEF UpdateThenAnswer
  <2> QED BY <1>1, <2>8, <2>9, <2>10 DEF ReadInv
<1> QED BY <1>4, <1>5

(* Over a put the server takes: its update tells the client, ahead of the  *)
(* answer that makes the client forget the write.                          *)
LEMMA PutReads ==
    TypeInv /\ AssertInv /\ OrderInv /\ ReadInv /\ ServerTakesPut => ReadInv'
<1> SUFFICES ASSUME TypeInv, AssertInv, OrderInv, ReadInv, ServerTakesPut PROVE ReadInv'
  OBVIOUS
<1> DEFINE w == Head(up).write
           L == Len(down)
           N == Len(down')
           update == [msg |-> "update", path |-> w.path, val |-> w.val]
<1>0. server \in Node /\ UNCHANGED <<asked, clientVars>>
  BY DEF TypeInv, TypeOK, ServerTakesPut
<1>1. /\ w \in Write /\ 1 \in DOMAIN up /\ IsPut(up[1]) /\ up[1].write = w
      /\ L \in Nat /\ N \in Nat /\ L < N
      /\ DOMAIN down = 1 .. L /\ DOMAIN down' = 1 .. N
      /\ \A i \in 1 .. L : down'[i] = down[i]
      /\ IsAnswer(down'[N]) /\ down'[N].id = w.id
  BY PutAnswered
<1>2. \/ /\ server' = [server EXCEPT ![w.path] = w.val]
         /\ asked = "active" /\ N = L + 2 /\ down'[L + 1] = update
      \/ /\ server' = [server EXCEPT ![w.path] = w.val]
         /\ asked # "active" /\ N = L + 1
      \/ server' = server /\ N = L + 1
  BY PutAnswered
<1>3. update.msg = "update" /\ update.path = w.path /\ update.val = w.val
  OBVIOUS
<1> HIDE DEF w, L, N, update
<1>4. \A i \in DOMAIN down : i \in DOMAIN down' /\ down'[i] = down[i]
  BY <1>1
<1>5. N \in DOMAIN down' /\ \A i \in DOMAIN down' : i <= N
  BY <1>1
<1>6. \A i \in DOMAIN down' : \/ i \in DOMAIN down
                              \/ i = N
                              \/ i = L + 1 /\ N = L + 2 /\ down'[i] = update /\ asked = "active"
  BY <1>1, <1>2
<1>7. down'[N].msg = "answer"
  BY <1>1 DEF IsAnswer
<1>8. CacheWasAsked' /\ CacheHasWritten'
  BY <1>0 DEF ReadInv, CacheWasAsked, CacheHasWritten, clientVars
<1>9. DataThenListened'
  <2> SUFFICES ASSUME NEW i \in DOMAIN down', down'[i].msg = "data"
               PROVE  i + 1 \in DOMAIN down' /\ down'[i + 1].msg = "listened"
    BY DEF DataThenListened
  <2>1. i \in DOMAIN down
    BY <1>3, <1>6, <1>7
  <2> QED BY <1>4, <2>1 DEF ReadInv, DataThenListened
<1>10. Outstanding' = Outstanding /\ w \in Outstanding
  BY <1>0, <1>1 DEF Outstanding, clientVars, OrderInv, InFlight, PutsAreOutstanding
<1>11. UpdateThenAnswer'
  <2> SUFFICES ASSUME NEW i \in DOMAIN down', down'[i].msg = "update"
               PROVE  /\ asked = "active"
                      /\ i + 1 \in DOMAIN down' /\ IsAnswer(down'[i + 1])
                      /\ \E v \in Outstanding : v.id = down'[i + 1].id /\ v.path = down'[i].path
    BY <1>0, <1>10 DEF UpdateThenAnswer
  <2>1. CASE i \in DOMAIN down
    BY <1>4, <2>1 DEF ReadInv, UpdateThenAnswer
  <2>2. CASE i = L + 1 /\ N = L + 2 /\ down'[i] = update /\ asked = "active"
    <3>1. i + 1 = N
      BY <1>1, <2>2
    <3> QED BY <1>1, <1>3, <1>5, <1>10, <2>2, <3>1
  <2> QED BY <1>6, <1>7, <2>1, <2>2
<1>12. CatchesUp'
  <2> SUFFICES ASSUME asked = "active", NEW p \in Path
               PROVE  /\ \A i \in DOMAIN down' :
                            Tells(down'[i], p)
                            /\ (\A j \in DOMAIN down' : j > i => ~Tells(down'[j], p))
                                => Told(down'[i], p) = server'[p]
                      /\ (\A i \in DOMAIN down' : ~Tells(down'[i], p))
                            => (cache # Missing /\ cache[p] = server'[p])
    BY <1>0 DEF CatchesUp, clientVars
  <2>1. ~Tells(down'[N], p)
    BY <1>7 DEF Tells
  <2>2. CASE server'[p] = server[p] /\ \A i \in DOMAIN down' : Tells(down'[i], p) => i \in DOMAIN down
    BY <1>4, <2>2 DEF ReadInv, CatchesUp
  <2>3. CASE N = L + 2 /\ p = w.path /\ down'[L + 1] = update
             /\ server' = [server EXCEPT ![w.path] = w.val]
    <3>1. Tells(update, p) /\ Told(update, p) = w.val /\ server'[p] = w.val
      BY <1>0, <1>3, <2>3 DEF Tells, Told, Node
    <3>2. L + 1 \in DOMAIN down'
      BY <1>1, <2>3
    <3>3. ASSUME NEW i \in DOMAIN down', Tells(down'[i], p),
                 \A j \in DOMAIN down' : j > i => ~Tells(down'[j], p)
          PROVE  i = L + 1
      <4>1. ~(L + 1 > i)
        BY <2>3, <3>1, <3>2, <3>3
      <4>2. i # N
        BY <2>1, <3>3
      <4> QED BY <1>1, <2>3, <4>1, <4>2
    <3> QED BY <2>3, <3>1, <3>2, <3>3
  <2>4. CASE p # w.path \/ (server' = server /\ N = L + 1)
    <3>1. server'[p] = server[p]
      BY <1>0, <1>2, <2>4 DEF Node
    <3>2. ASSUME NEW i \in DOMAIN down', Tells(down'[i], p) PROVE i \in DOMAIN down
      <4>1. CASE N = L + 1
        BY <1>1, <2>1, <3>2, <4>1
      <4>2. CASE N = L + 2 /\ p # w.path /\ down'[L + 1] = update
        <5>1. ~Tells(update, p)
          BY <1>3, <4>2 DEF Tells
        <5> QED BY <1>6, <2>1, <3>2, <4>2, <5>1
      <4> QED BY <1>2, <2>4, <4>1, <4>2
    <3> QED BY <2>2, <3>1, <3>2
  <2> QED BY <1>2, <2>3, <2>4
<1> QED BY <1>8, <1>9, <1>11, <1>12 DEF ReadInv

-----------------------------------------------------------------------------
(* Where no write is outstanding the server has the value written last. *)
LEMMA LastIsServed ==
    ASSUME OrderInv, NEW p \in Path \ MayRefuse, written[p] # Null,
           \A w \in Outstanding : w.path # p
    PROVE  server[p] = written[p]
<1>1. NoOutstandingAt(p) /\ NoPutAt(p)
  BY DEF NoPutAt, NoOutstandingAt, OrderInv, InFlight, PutsAreOutstanding
<1> QED BY <1>1 DEF OrderInv, ServerHasLast

(* The messages that are left when the cache has taken the first one. *)
LEMMA TailReads ==
    ASSUME TypeInv, ReadInv, down # <<>>, down' = Tail(down), UNCHANGED <<asked, server>>,
           \A p \in Path :
              IF Tells(Head(down), p)
              THEN cache' # Missing /\ cache'[p] = Told(Head(down), p)
              ELSE cache # Missing => cache' # Missing /\ cache'[p] = cache[p]
    PROVE  CatchesUp' /\ DataThenListened'
<1>0. down \in Seq(Message)
  BY DEF TypeInv, TypeOK
<1>1. /\ 1 \in DOMAIN down /\ Head(down) = down[1]
      /\ \A i \in DOMAIN down' : i \in Nat /\ i > 0 /\ i + 1 \in DOMAIN down /\ down'[i] = down[i + 1]
      /\ \A i \in DOMAIN down : i = 1 \/ (i - 1 \in DOMAIN down' /\ down'[i - 1] = down[i])
  BY <1>0, TailAt
<1>2. \A i \in DOMAIN down : i \in Nat
  BY <1>0, LenProperties
<1>3. DataThenListened'
  <2> SUFFICES ASSUME NEW i \in DOMAIN down', down'[i].msg = "data"
               PROVE  i + 1 \in DOMAIN down' /\ down'[i + 1].msg = "listened"
    BY DEF DataThenListened
  <2>1. (i + 1) + 1 \in DOMAIN down /\ down[(i + 1) + 1].msg = "listened"
    BY <1>1 DEF ReadInv, DataThenListened
  <2>2. (i + 1) + 1 # 1 /\ ((i + 1) + 1) - 1 = i + 1
    BY <1>1
  <2> QED BY <1>1, <2>1, <2>2
<1>4. CatchesUp'
  <2> SUFFICES ASSUME asked = "active", NEW p \in Path
               PROVE  /\ \A i \in DOMAIN down' :
                            Tells(down'[i], p)
                            /\ (\A j \in DOMAIN down' : j > i => ~Tells(down'[j], p))
                                => Told(down'[i], p) = server[p]
                      /\ (\A i \in DOMAIN down' : ~Tells(down'[i], p))
                            => (cache' # Missing /\ cache'[p] = server[p])
    BY DEF CatchesUp
  <2>0. /\ \A i \in DOMAIN down :
              Tells(down[i], p) /\ (\A j \in DOMAIN down : j > i => ~Tells(down[j], p))
                  => Told(down[i], p) = server[p]
        /\ (\A i \in DOMAIN down : ~Tells(down[i], p)) => (cache # Missing /\ cache[p] = server[p])
    BY DEF ReadInv, CatchesUp
  <2>1. ASSUME NEW i \in DOMAIN down', Tells(down'[i], p),
               \A j \in DOMAIN down' : j > i => ~Tells(down'[j], p)
        PROVE  Told(down'[i], p) = server[p]
    <3>1. i + 1 \in DOMAIN down /\ down'[i] = down[i + 1]
      BY <1>1
    <3>2. ASSUME NEW j \in DOMAIN down, j > i + 1 PROVE ~Tells(down[j], p)
      <4>1. j # 1 /\ j - 1 > i
        BY <1>1, <1>2, <3>2
      <4> QED BY <1>1, <2>1, <4>1
    <3> QED BY <2>0, <2>1, <3>1, <3>2
  <2>2. ASSUME \A i \in DOMAIN down' : ~Tells(down'[i], p)
        PROVE  cache' # Missing /\ cache'[p] = server[p]
    <3>1. \A j \in DOMAIN down : j # 1 => ~Tells(down[j], p)
      BY <1>1, <2>2
    <3>2. CASE Tells(down[1], p)
      <4>1. \A j \in DOMAIN down : j > 1 => ~Tells(down[j], p)
        BY <3>1
      <4>2. Told(down[1], p) = server[p]
        BY <1>1, <2>0, <3>2, <4>1
      <4> QED BY <1>1, <3>2, <4>2
    <3>3. CASE ~Tells(down[1], p)
      <4>1. cache # Missing /\ cache[p] = server[p]
        BY <2>0, <3>1, <3>3
      <4> QED BY <1>1, <3>3, <4>1
    <3> QED BY <3>2, <3>3
  <2> QED BY <2>1, <2>2
<1> QED BY <1>3, <1>4

(* Over server data and the answer of the listen. *)
LEMMA MessageReads ==
    TypeInv /\ AssertInv /\ OrderInv /\ ReadInv /\ onDataMessage /\ Head(down).msg # "answer"
        => ReadInv'
<1> SUFFICES ASSUME TypeInv, AssertInv, OrderInv, ReadInv, onDataMessage,
                    Head(down).msg # "answer"
             PROVE  ReadInv'
  OBVIOUS
<1> DEFINE m == Head(down)
<1>0. /\ down \in Seq(Message) /\ down # <<>> /\ down' = Tail(down)
      /\ UNCHANGED <<server, link, up, asked>> /\ cache \in Node \cup {Missing}
  BY DEF TypeInv, TypeOK, onDataMessage
<1>1. /\ 1 \in DOMAIN down /\ m = down[1] /\ m \in Message
      /\ \A i \in DOMAIN down' : i \in Nat /\ i > 0 /\ i + 1 \in DOMAIN down /\ down'[i] = down[i + 1]
      /\ \A i \in DOMAIN down : i = 1 \/ (i - 1 \in DOMAIN down' /\ down'[i - 1] = down[i])
  BY <1>0, TailAt
<1>2. \A i \in DOMAIN down : i \in Nat /\ (down[i].msg = "listened" => down[i] \in ListenAnswer)
  BY <1>0, LenProperties, ElementOfSeq DEF ListenAnswer
<1>3. listening' = listening /\ Outstanding' = Outstanding /\ written' = written
  BY DEF onDataMessage, ToServerCache, onListened, onAnswer, ackWrite, Outstanding
<1>4. m.msg \in {"data", "update", "listened"}
  BY DEF onDataMessage
<1>5. UpdateThenAnswer'
  <2> SUFFICES ASSUME NEW i \in DOMAIN down', down'[i].msg = "update"
               PROVE  /\ asked = "active"
                      /\ i + 1 \in DOMAIN down' /\ IsAnswer(down'[i + 1])
                      /\ \E v \in Outstanding : v.id = down'[i + 1].id /\ v.path = down'[i].path
    BY <1>0, <1>3 DEF UpdateThenAnswer
  <2>1. /\ asked = "active"
        /\ (i + 1) + 1 \in DOMAIN down /\ IsAnswer(down[(i + 1) + 1])
        /\ \E v \in Outstanding : v.id = down[(i + 1) + 1].id /\ v.path = down'[i].path
    BY <1>1 DEF ReadInv, UpdateThenAnswer
  <2>2. (i + 1) + 1 # 1 /\ ((i + 1) + 1) - 1 = i + 1
    BY <1>1
  <2> QED BY <1>1, <2>1, <2>2
<1> HIDE DEF m
(* With the data or the answer of the listen taken, no later message is    *)
(* about a path at which no write is outstanding.                          *)
<1>6. ASSUME m.msg # "update", NEW p \in Path, \A w \in Outstanding : w.path # p,
             NEW i \in DOMAIN down, i # 1
      PROVE  ~Tells(down[i], p) /\ asked = "active"
  <2>1. PICK k \in DOMAIN down : down[k].msg = "listened" /\ (k = 1 \/ k = 2)
    <3>1. CASE m.msg = "listened"
      BY <1>1, <3>1
    <3>2. CASE m.msg = "data"
      <4>1. 1 + 1 \in DOMAIN down /\ down[1 + 1].msg = "listened"
        BY <1>1, <3>2 DEF ReadInv, DataThenListened
      <4>2. 1 + 1 = 2
        OBVIOUS
      <4> QED BY <4>1, <4>2
    <3> QED BY <1>4, <1>6, <3>1, <3>2
  <2>2. ~None(down, ListenAnswer)
    BY <1>2, <2>1 DEF None
  <2>3. Once(down, ListenAnswer) /\ asked = "active"
    BY <2>2 DEF AssertInv, OneListen
  <2>4. CASE down[i].msg = "data"
    <3>1. i + 1 \in DOMAIN down /\ down[i + 1].msg = "listened"
      BY <2>4 DEF ReadInv, DataThenListened
    <3>2. i + 1 = k
      BY <1>2, <2>1, <2>3, <3>1 DEF Once
    <3>3. i = 1
      BY <1>1, <1>2, <1>6, <2>1, <3>2, <1>0, LenProperties
    <3> QED BY <1>6, <3>3
  <2>5. CASE down[i].msg = "update" /\ down[i].path = p
    BY <1>6, <2>5 DEF ReadInv, UpdateThenAnswer
  <2> QED BY <2>3, <2>4, <2>5 DEF Tells
<1>6a. m.msg \in {"data", "listened"} => asked = "active" /\ listening
  <2> SUFFICES ASSUME m.msg \in {"data", "listened"} PROVE asked = "active" /\ listening
    OBVIOUS
  <2>1. \E k \in DOMAIN down : down[k].msg = "listened"
    BY <1>1 DEF ReadInv, DataThenListened
  <2> QED BY <1>2, <2>1 DEF None, AssertInv, OneListen
<1>7. CASE m.msg = "data"
  <2>1. m.node \in Node /\ cache' = m.node /\ writes' = writes /\ held' = held
    BY <1>1, <1>7, MessageType DEF onDataMessage, ToServerCache, m
  <2>2. cache' # Missing
    BY <2>1, PathAssumption DEF Node
  <2>3. \A p \in Path : Tells(m, p) /\ Told(m, p) = cache'[p]
    BY <1>7, <2>1 DEF Tells, Told
  <2>4. CatchesUp' /\ DataThenListened'
    BY <1>0, <2>2, <2>3, TailReads DEF m
  <2>5. CacheWasAsked'
    BY <1>3, <1>6a, <1>7 DEF CacheWasAsked
  <2>6. CacheHasWritten'
    <3> SUFFICES ASSUME NEW p \in Path \ MayRefuse, written[p] # Null,
                        \A w \in writes : w.path # p
                 PROVE  cache'[p] = written[p]
      BY <1>3, <2>1 DEF CacheHasWritten
    <3>1. \A w \in Outstanding : w.path # p
      BY DEF Outstanding
    <3>2. server[p] = written[p]
      BY <3>1, LastIsServed
    <3>3. \A i \in DOMAIN down' : ~Tells(down'[i], p)
      <4> SUFFICES ASSUME NEW i \in DOMAIN down' PROVE ~Tells(down'[i], p)
        OBVIOUS
      <4>1. i + 1 \in DOMAIN down /\ i + 1 # 1 /\ down'[i] = down[i + 1]
        BY <1>1
      <4> QED BY <1>6, <1>7, <3>1, <4>1
    <3> QED BY <1>0, <1>6a, <1>7, <2>4, <3>2, <3>3 DEF CatchesUp
  <2> QED BY <1>5, <2>4, <2>5, <2>6 DEF ReadInv
<1>8. CASE m.msg = "update"
  <2>1. /\ m.path \in Path /\ m.val \in Value /\ cache' = [cache EXCEPT ![m.path] = m.val]
        /\ writes' = writes /\ held' = held
    BY <1>1, <1>8, MessageType DEF onDataMessage, ToServerCache, m
  <2>2. cache \in Node
    BY <1>0, <1>1, <1>8 DEF TypeInv, UpdatesFollowData, Follows
  <2>3. cache' \in Node /\ cache' # Missing /\ cache # Missing
    BY <2>1, <2>2, PathAssumption DEF Node
  <2>4. \A p \in Path : cache'[p] = IF p = m.path THEN m.val ELSE cache[p]
    BY <2>1, <2>2 DEF Node
  <2>5. \A p \in Path : IF Tells(m, p) THEN cache'[p] = Told(m, p) ELSE cache'[p] = cache[p]
    BY <1>8, <2>4 DEF Tells, Told
  <2>6. CatchesUp' /\ DataThenListened'
    BY <1>0, <2>3, <2>5, TailReads DEF m
  <2>7. CacheWasAsked'
    BY <1>3, <2>3 DEF ReadInv, CacheWasAsked
  <2>8. CacheHasWritten'
    <3> SUFFICES ASSUME NEW p \in Path \ MayRefuse, written[p] # Null,
                        \A w \in writes : w.path # p
                 PROVE  cache'[p] = written[p]
      BY <1>3, <2>1 DEF CacheHasWritten
    <3>1. p # m.path
      BY <1>1, <1>8 DEF ReadInv, UpdateThenAnswer, Outstanding
    <3> QED BY <2>3, <2>4, <3>1 DEF ReadInv, CacheHasWritten
  <2> QED BY <1>5, <2>6, <2>7, <2>8 DEF ReadInv
<1>9. CASE m.msg = "listened"
  <2>1. cache' = cache /\ writes' = Outstanding
    BY <1>9 DEF onDataMessage, onListened, ackWrite, Outstanding, m
  <2>2. \A p \in Path : ~Tells(m, p)
    BY <1>9 DEF Tells
  <2>3. CatchesUp' /\ DataThenListened'
    BY <1>0, <2>1, <2>2, TailReads DEF m
  <2>4. CacheWasAsked'
    BY <1>3, <2>1 DEF ReadInv, CacheWasAsked
  <2>5. CacheHasWritten'
    <3> SUFFICES ASSUME NEW p \in Path \ MayRefuse, written[p] # Null,
                        \A w \in Outstanding : w.path # p
                 PROVE  cache[p] = written[p]
      BY <1>3, <2>1 DEF CacheHasWritten
    <3>1. server[p] = written[p]
      BY LastIsServed
    <3>2. \A i \in DOMAIN down : ~Tells(down[i], p)
      BY <1>1, <1>6, <1>9, <2>2
    <3> QED BY <1>6a, <1>9, <3>1, <3>2 DEF ReadInv, CatchesUp
  <2> QED BY <1>5, <2>3, <2>4, <2>5 DEF ReadInv
<1> QED BY <1>4, <1>7, <1>8, <1>9

(* Over the answer to a put: a write the client forgets was told before,   *)
(* or its answer waits for a listen.                                       *)
LEMMA AnswerReads ==
    TypeInv /\ AssertInv /\ HoldInv /\ OrderInv /\ ReadInv
        /\ onDataMessage /\ Head(down).msg = "answer" => ReadInv'
<1> SUFFICES ASSUME TypeInv, AssertInv, HoldInv, OrderInv, ReadInv, onDataMessage,
                    Head(down).msg = "answer"
             PROVE  ReadInv'
  OBVIOUS
<1>0. down \in Seq(Message) /\ down # <<>> /\ down' = Tail(down) /\ link
  BY DEF TypeInv, TypeOK, onDataMessage, AssertInv, OneListen
<1>1. /\ 1 \in DOMAIN down /\ Head(down) = down[1]
      /\ \A i \in DOMAIN down' : i \in Nat /\ i > 0 /\ i + 1 \in DOMAIN down /\ down'[i] = down[i + 1]
      /\ \A i \in DOMAIN down : i = 1 \/ (i - 1 \in DOMAIN down' /\ down'[i - 1] = down[i])
  BY <1>0, TailAt
<1>2. PICK w \in Outstanding :
          /\ w.id = Head(down).id
          /\ \A v \in Outstanding : v # w => w.id < v.id
          /\ Outstanding' = Outstanding \ {w}
          /\ UNCHANGED <<server, link, up, cache, nextWrite, written, listening, awaiting, asked>>
          /\ \/ awaiting /\ writes' = writes
             \/ ~awaiting /\ held = {} /\ held' = {} /\ writes' = writes \ {w}
  BY Answered
<1>3. \A p \in Path : ~Tells(Head(down), p)
  BY DEF Tells
<1>4. CatchesUp' /\ DataThenListened'
  BY <1>0, <1>2, <1>3, TailReads
<1>5. w.id \in Nat
  BY DEF Outstanding, TypeInv, TypeOK, Write
<1>6. UpdateThenAnswer'
  <2> SUFFICES ASSUME NEW i \in DOMAIN down', down'[i].msg = "update"
               PROVE  /\ asked = "active"
                      /\ i + 1 \in DOMAIN down' /\ IsAnswer(down'[i + 1])
                      /\ \E v \in Outstanding' : v.id = down'[i + 1].id /\ v.path = down'[i].path
    BY <1>2 DEF UpdateThenAnswer
  <2>1. /\ asked = "active"
        /\ (i + 1) + 1 \in DOMAIN down /\ IsAnswer(down[(i + 1) + 1])
        /\ \E v \in Outstanding : v.id = down[(i + 1) + 1].id /\ v.path = down'[i].path
    BY <1>1 DEF ReadInv, UpdateThenAnswer
  <2>2. (i + 1) + 1 > 1 /\ ((i + 1) + 1) - 1 = i + 1
    BY <1>1
  <2>3. i + 1 \in DOMAIN down' /\ down'[i + 1] = down[(i + 1) + 1]
    BY <1>1, <2>1, <2>2
  <2>4. w.id < down[(i + 1) + 1].id
    BY <1>1, <1>2, <2>1, <2>2 DEF IsAnswer, OrderInv, InFlight, AnswersSorted
  <2> QED BY <1>2, <1>5, <2>1, <2>3, <2>4
<1>7. CacheWasAsked'
  BY <1>2 DEF ReadInv, CacheWasAsked
<1>8. CacheHasWritten'
  <2>1. CASE awaiting /\ writes' = writes
    BY <1>2, <2>1 DEF ReadInv, CacheHasWritten
  <2>2. CASE ~awaiting /\ held = {} /\ held' = {} /\ writes' = writes \ {w}
    <3> SUFFICES ASSUME cache # Missing, NEW p \in Path \ MayRefuse, written[p] # Null,
                        \A v \in writes' : v.path # p
                 PROVE  cache'[p] = written[p]
      BY <1>2 DEF CacheHasWritten
    <3>1. asked = "active"
      BY <1>0, <2>2 DEF ReadInv, CacheWasAsked, HoldInv, ListenIsActive
    <3>2. \A v \in Outstanding' : v.path # p
      BY <2>2 DEF Outstanding
    <3>3. server[p] = written[p]
      <4>1. OrderInv'
        BY AnswerOrder
      <4>2. PutsAreOutstanding'
        BY <4>1 DEF OrderInv, InFlight
      <4>3. NoPutAt(p)
        BY <1>2, <3>2, <4>2 DEF PutsAreOutstanding, NoPutAt
      <4> QED BY <1>0, <4>3 DEF OrderInv, ServerHasLast
    <3>4. \A i \in DOMAIN down' : ~Tells(down'[i], p)
      <4> SUFFICES ASSUME NEW i \in DOMAIN down', Tells(down'[i], p) PROVE FALSE
        OBVIOUS
      <4>1. CASE down'[i].msg = "data"
        <5>1. \E k \in DOMAIN down' : down'[k].msg = "listened"
          BY <1>4, <4>1 DEF DataThenListened
        <5>2. \E k \in DOMAIN down : down[k].msg = "listened"
          BY <1>1, <5>1
        <5>3. ~None(down, ListenAnswer)
          BY <1>0, <5>2, ElementOfSeq, LenProperties DEF None, ListenAnswer
        <5> QED BY <2>2, <5>3 DEF AssertInv, OneListen
      <4>2. CASE down'[i].msg = "update" /\ down'[i].path = p
        BY <1>6, <3>2, <4>2 DEF UpdateThenAnswer
      <4> QED BY <4>1, <4>2 DEF Tells
    <3> QED BY <1>2, <1>4, <3>1, <3>3, <3>4 DEF CatchesUp
  <2> QED BY <1>2, <2>1, <2>2
<1> QED BY <1>4, <1>6, <1>7, <1>8 DEF ReadInv

-----------------------------------------------------------------------------
(* The launch satisfies the invariant. *)
LEMMA ReadInvInit == Init => ReadInv
<1> SUFFICES ASSUME Init PROVE ReadInv
  OBVIOUS
<1>1. DOMAIN down = {} /\ asked = "no" /\ cache = Missing
  BY DEF Init, FreshClient
<1> QED
  BY <1>1 DEF ReadInv, CatchesUp, DataThenListened, UpdateThenAnswer, CacheWasAsked,
              CacheHasWritten

(* Every step keeps what the app reads right. *)
LEMMA ReadInvStep ==
    TypeInv /\ AssertInv /\ HoldInv /\ OrderInv /\ ReadInv /\ [Next]_vars => ReadInv'
<1> SUFFICES ASSUME TypeInv, AssertInv, HoldInv, OrderInv, ReadInv, [Next]_vars
             PROVE  ReadInv'
  OBVIOUS
<1>1. CASE ExecuteCall
  BY <1>1, CallReads
<1>2. CASE onReady \/ onDisconnect
  BY <1>2, LinkReads
<1>3. CASE ServerTakesListen \/ ServerAnswersListen
  BY <1>3, ListenReads
<1>4. CASE ServerTakesPut
  BY <1>4, PutReads
<1>5. CASE onDataMessage
  BY <1>5, MessageReads, AnswerReads
<1>6. CASE AppWrites \/ AppObserves \/ AppTakesEvent \/ UNCHANGED vars
  <2>1. UNCHANGED <<asked, down, cache, server, writes, held, written, listening>>
    BY <1>6 DEF AppWrites, AppObserves, AppTakesEvent, vars, netVars, clientVars
  <2> QED BY <2>1, QuietReads DEF Outstanding
<1> QED
  BY <1>1, <1>2, <1>3, <1>4, <1>5, <1>6 DEF Next, DatabaseNext, ClientStep, ServerStep

(* The whole invariant of the client. *)
ClientInv == TypeInv /\ AssertInv /\ HoldInv /\ OrderInv /\ ReadInv

(* ClientInv is an invariant. *)
THEOREM ClientInvariance == Spec => []ClientInv
<1>1. Init => ClientInv
  BY TypeInvInit, AssertInvInit, OrderInvInit, ReadInvInit DEF ClientInv
<1>2. ClientInv /\ [Next]_vars => ClientInv'
  BY TypeInvStep, AssertInvStep, HoldStep, OrderInvStep, ReadInvStep DEF ClientInv
<1> QED BY <1>1, <1>2, PTL DEF Spec

(* Once the messages of an answered listen are handled the cache is the    *)
(* server's record, whatever was written and lost on the way.              *)
THEOREM QuietCache == Spec => []QuietCacheIsServer
<1>1. ClientInv => QuietCacheIsServer
  <2> SUFFICES ASSUME ClientInv, asked = "active", down = <<>> PROVE cache = server
    BY DEF QuietCacheIsServer
  <2>1. DOMAIN down = {}
    OBVIOUS
  <2>2. cache # Missing
    BY <2>1 DEF ClientInv, TypeInv, DataSent, HasData
  <2>3. cache \in Node /\ server \in Node
    BY <2>2 DEF ClientInv, TypeInv, TypeOK
  <2>4. \A p \in Path : cache[p] = server[p]
    BY <2>1 DEF ClientInv, ReadInv, CatchesUp
  <2> QED BY <2>3, <2>4 DEF Node
<1> QED BY <1>1, ClientInvariance, PTL

(* The app reads its own writes: from the first answer on, its view shows  *)
(* the value it last wrote at each path, while the write waits, when its   *)
(* answer is held back for a listen, and after it is forgotten.            *)
THEOREM AppReadsItsWrites == Spec => []ReadYourWrites
<1>1. ClientInv => ReadYourWrites
  <2> SUFFICES ASSUME ClientInv, cache # Missing,
                      NEW p \in Path \ MayRefuse, written[p] # Null
               PROVE  View[p] = written[p]
    BY DEF ReadYourWrites
  <2> DEFINE at == {w \in writes : w.path = p}
             youngest == CHOOSE w \in at : \A v \in at : v.id <= w.id
  <2>0. /\ writes \subseteq Write /\ nextWrite \in Nat /\ \A w \in writes : w.id < nextWrite
        /\ p \in Path
    BY DEF ClientInv, TypeInv, TypeOK, WriteIds
  <2>1. View[p] = IF at = {} THEN cache[p] ELSE youngest.val
    BY <2>0 DEF View, Overlay
  <2>2. CASE at = {}
    <3>1. \A w \in writes : w.path # p
      BY <2>2
    <3> QED BY <2>1, <2>2, <3>1 DEF ClientInv, ReadInv, CacheHasWritten
  <2>3. CASE at # {}
    <3>1. \E w \in at : \A v \in at : v.id <= w.id
      BY <2>0, <2>3, Youngest
    <3>2. youngest \in at /\ \A v \in at : v.id <= youngest.id
      BY <3>1
    <3> HIDE DEF youngest
    <3>3. youngest.val = written[p]
      BY <3>2 DEF ClientInv, OrderInv, YoungestIsWritten
    <3> QED BY <2>1, <2>3, <3>3
  <2> QED BY <2>2, <2>3
<1> QED BY <1>1, ClientInvariance, PTL
=============================================================================
