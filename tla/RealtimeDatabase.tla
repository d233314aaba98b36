-------------------------- MODULE RealtimeDatabase --------------------------
(***************************************************************************)
(* The Firebase Realtime Database client as the app uses it: one record of *)
(* the database (Devices/<uuid>) seen through one connection.              *)
(*                                                                         *)
(* Threads.  The app calls the API on the main queue; every call is        *)
(* dispatched to the client's serial queue (`calls').  The client raises   *)
(* value events, which are dispatched to the main queue (`events').  Both  *)
(* queues are FIFO; network messages are handled on the serial queue, in   *)
(* any order with respect to the calls.                                    *)
(*                                                                         *)
(* The record is a function from the leaf positions the app writes (Path)  *)
(* to values; Null is an absent node.  An observer watches a place         *)
(* (the whole record, or one date bucket): Under[place] is the set of      *)
(* paths below that place.                                                 *)
(*                                                                         *)
(* The server, and the network between it and the client, are external.    *)
(* A connection delivers in order and loses everything in flight when it   *)
(* breaks; the server answers a listen when it likes, and sends the data   *)
(* of a write it applied before the answer to that write.                  *)
(***************************************************************************)
EXTENDS Naturals, Sequences, FiniteSets

CONSTANTS
    Path,        \* leaf positions of the record
    Value,       \* what the app may write at a path
    Null,        \* no value
    Missing,     \* a view that has no complete server data yet
    Place,       \* locations that can be observed
    Root,        \* the record itself
    Under,       \* [Place -> SUBSET Path]
    Visit,       \* [Place -> Nat]: order in which views are visited, Root last
    Callback,    \* what an observer's block does, opaque here
    MayRefuse,   \* paths at which the database rules may refuse a write
    MaxWrites,   \* bound on the writes of one process
    MaxHandles   \* bound on the observers one process registers

ASSUME PathAssumption ==
    /\ Null \notin Value
    /\ Missing \notin [Path -> Value \cup {Null}]
    /\ MayRefuse \subseteq Path
ASSUME PlaceAssumption ==
    /\ Root \in Place
    /\ Under \in [Place -> SUBSET Path]
    /\ Under[Root] = Path
    /\ Visit \in [Place -> Nat]
    /\ \A l \in Place : Visit[l] <= Visit[Root]
ASSUME BoundAssumption == MaxWrites \in Nat /\ MaxHandles \in Nat

VARIABLES
    server,     \* the record on the server
    link,       \* BOOLEAN: ConnectionStateConnected
    asked,      \* server side: what became of the listen: "no" | "asked" | "active"
    up,         \* requests on their way to the server
    down,       \* messages on their way to the client
    listening,  \* the listen dictionary holds the record's query
    awaiting,   \* unackedListensCount > 0
    cache,      \* server snapshot of the record's view, or Missing
    writes,     \* the write tree's allWrites
    held,       \* ids of writes answered while a listen was open (putsToAck)
    nextWrite,  \* writeIdCounter / putCounter
    written,    \* history: the value this process last wrote at each path
    observers,  \* event registrations
    nextHandle, \* LUIDGenerator: the handle of the next observer
    calls,      \* API calls waiting on the serial queue
    events      \* value events waiting on the main queue

netVars    == <<link, asked, up, down>>
clientVars == <<listening, awaiting, cache, writes, held, nextWrite, written,
                observers>>
vars       == <<server, netVars, clientVars, nextHandle, calls, events>>

-----------------------------------------------------------------------------
(* Types. *)

Node     == [Path -> Value \cup {Null}]
EmptyNode == [p \in Path |-> Null]

Write    == [id : Nat, path : Path, val : Value]
Observer == [handle : Nat, at : Place, cb : Callback]

Request  == [req : {"listen"}] \cup [req : {"put"}, write : Write]
Message  == [msg : {"data"}, node : Node]
            \cup [msg : {"update"}, path : Path, val : Value]
            \cup [msg : {"listened"}]
            \cup [msg : {"answer"}, id : Nat, ok : BOOLEAN]
Call     == [op : {"observe"}, obs : Observer]
            \cup [op : {"remove"}, handle : Nat]
            \cup [op : {"write"}, path : Path, val : Value]
Event    == [obs : Observer, snap : Node]

(* The one type invariant of the module. *)
TypeOK ==
    /\ server \in Node
    /\ link \in BOOLEAN
    /\ asked \in {"no", "asked", "active"}
    /\ up \in Seq(Request)
    /\ down \in Seq(Message)
    /\ listening \in BOOLEAN
    /\ awaiting \in BOOLEAN
    /\ cache \in Node \cup {Missing}
    /\ writes \in SUBSET Write
    /\ IsFiniteSet(writes)
    /\ held \in SUBSET Nat
    /\ nextWrite \in Nat
    /\ written \in Node
    /\ observers \in SUBSET Observer
    /\ IsFiniteSet(observers)
    /\ nextHandle \in Nat
    /\ calls \in Seq(Call)
    /\ events \in Seq(Event)

-----------------------------------------------------------------------------
(* Views. *)

(* The elements of S as a sequence in the order Lt. *)
Ordered(S, Lt(_, _)) ==
    {s \in [1 .. Cardinality(S) -> S] :
        \A i, j \in 1 .. Cardinality(S) : i < j => Lt(s[i], s[j])}

(* Views are visited depth first, the registrations of a view in the order *)
(* they were added.                                                        *)
VisitedBefore(a, b) ==
    \/ Visit[a.at] < Visit[b.at]
    \/ Visit[a.at] = Visit[b.at] /\ a.handle < b.handle

(* A deviation: the puts are enumerated in the order of a hash table. *)
HashOrder(a, b) == a # b

(* Puts are resent in the order of their numbers. *)
OlderWrite(a, b) == a.id < b.id

(* The event cache: the server cache with the pending writes laid over it, *)
(* the youngest write at a path winning.                                   *)
Overlay(node, ws) ==
    [p \in Path |->
        LET at == {w \in ws : w.path = p}
        IN  IF at = {} THEN node[p]
            ELSE (CHOOSE w \in at : \A v \in at : v.id <= w.id).val]

View == Overlay(cache, writes)

(* A deviation: the snapshot of a place is not completed with Nulls. *)
Restricted(node, l) == [p \in Under[l] |-> node[p]]

(* What an observer of place l is shown of a view of the record. *)
At(node, l) == [p \in Path |-> IF p \in Under[l] THEN node[p] ELSE Null]

exists(snap) == \E p \in Path : snap[p] # Null

EventFor(o, node) == [obs |-> o, snap |-> At(node, o.at)]

(* The value events the step from the view (c, ws) to the view (c2, ws2)   *)
(* raises: none before the first complete answer; then one to every        *)
(* observer whose part of the record became complete or changed.           *)
RaiseEvents(c, ws, c2, ws2) ==
    IF c2 = Missing THEN events' = events
    ELSE LET new == Overlay(c2, ws2)
             notified == {o \in observers :
                             \/ c = Missing
                             \/ At(Overlay(c, ws), o.at) # At(new, o.at)}
         IN  \E s \in Ordered(notified, VisitedBefore) :
                events' = events \o [i \in DOMAIN s |-> EventFor(s[i], new)]

-----------------------------------------------------------------------------
(* A fresh process: nothing of the client survives the previous one, since *)
(* the app does not turn disk persistence on.                              *)
FreshClient ==
    /\ link = FALSE /\ asked = "no" /\ up = <<>> /\ down = <<>>
    /\ listening = FALSE /\ awaiting = FALSE /\ cache = Missing
    /\ writes = {} /\ held = {} /\ nextWrite = 0 /\ written = EmptyNode
    /\ observers = {}

(* The end of a process, with everything the client kept in memory. *)
ClientLost ==
    /\ link' = FALSE /\ asked' = "no" /\ up' = <<>> /\ down' = <<>>
    /\ listening' = FALSE /\ awaiting' = FALSE /\ cache' = Missing
    /\ writes' = {} /\ held' = {} /\ nextWrite' = 0 /\ written' = EmptyNode
    /\ observers' = {}

-----------------------------------------------------------------------------
(* Calls, executed on the serial queue in the order they were made. *)

(* The first observer of the record starts the listen; a view that is      *)
(* already complete raises an initial event to the new observer alone.     *)
(* Observers below the record are covered by the record's listen.          *)
addEventRegistration(o) ==
    /\ observers' = observers \cup {o}
    /\ events' = IF cache = Missing THEN events
                 ELSE Append(events, EventFor(o, View))
    /\ listening' = TRUE
    /\ IF ~listening /\ link
       THEN up' = Append(up, [req |-> "listen"]) /\ awaiting' = TRUE
       ELSE UNCHANGED <<up, awaiting>>
    /\ UNCHANGED <<server, link, asked, down, cache, writes, held, nextWrite,
                   written>>

removeEventRegistration(h) ==
    /\ observers' = {o \in observers : o.handle # h}
    /\ UNCHANGED <<server, netVars, listening, awaiting, cache, writes, held,
                   nextWrite, written, events>>

(* set: and update:.  The write is laid over the view and its events are   *)
(* raised before the put is stored, and sent if the connection is up.      *)
applyWrite(p, v) ==
    LET w == [id |-> nextWrite, path |-> p, val |-> v] IN
    /\ writes' = writes \cup {w}
    /\ nextWrite' = nextWrite + 1
    /\ written' = [written EXCEPT ![p] = v]
    /\ RaiseEvents(cache, writes, cache, writes')
    /\ up' = IF link THEN Append(up, [req |-> "put", write |-> w]) ELSE up
    /\ UNCHANGED <<server, link, asked, down, listening, awaiting, cache, held,
                   observers>>

ExecuteCall ==
    /\ calls # <<>>
    /\ calls' = Tail(calls)
    /\ UNCHANGED nextHandle
    /\ LET c == Head(calls) IN
       \/ c.op = "observe" /\ addEventRegistration(c.obs)
       \/ c.op = "remove" /\ removeEventRegistration(c.handle)
       \/ c.op = "write" /\ applyWrite(c.path, c.val)

-----------------------------------------------------------------------------
(* The connection. *)

Outstanding == {w \in writes : w.id \notin held}

(* A deviation: only the listen is restored. *)
restoreListens(s) == IF listening THEN <<[req |-> "listen"]>> ELSE <<>>

(* The listen first, then the puts s. *)
restoreState(s) ==
    (IF listening THEN <<[req |-> "listen"]>> ELSE <<>>)
        \o [i \in DOMAIN s |-> [req |-> "put", write |-> s[i]]]

(* onReady: with no user signed in there is no token to send; restoreState *)
(* sends the listen and every outstanding put, oldest first.               *)
onReady ==
    /\ ~link
    /\ link' = TRUE
    /\ \E s \in Ordered(Outstanding, OlderWrite) : up' = restoreState(s)
    /\ awaiting' = listening
    /\ UNCHANGED <<server, asked, down, listening, cache, writes, held,
                   nextWrite, written, observers, nextHandle, calls, events>>

(* onDisconnect forgets the requests it waits for, not the puts, and not   *)
(* the answers it holds back.                                              *)
onDisconnect ==
    /\ link
    /\ link' = FALSE /\ asked' = "no" /\ up' = <<>> /\ down' = <<>>
    /\ awaiting' = FALSE
    /\ UNCHANGED <<server, listening, cache, writes, held, nextWrite, written,
                   observers, nextHandle, calls, events>>

-----------------------------------------------------------------------------
(* The server (external). *)

ServerTakesListen ==
    /\ up # <<>> /\ Head(up).req = "listen"
    /\ up' = Tail(up)
    /\ asked' = "asked"
    /\ UNCHANGED <<server, link, down, clientVars, nextHandle, calls, events>>

ServerAnswersListen ==
    /\ asked = "asked"
    /\ asked' = "active"
    /\ down' = down \o <<[msg |-> "data", node |-> server], [msg |-> "listened"]>>
    /\ UNCHANGED <<server, link, up, clientVars, nextHandle, calls, events>>

ServerTakesPut ==
    /\ up # <<>> /\ Head(up).req = "put"
    /\ up' = Tail(up)
    /\ LET w == Head(up).write IN
       \/ /\ server' = [server EXCEPT ![w.path] = w.val]
          /\ down' = down
                \o (IF asked = "active"
                    THEN <<[msg |-> "update", path |-> w.path, val |-> w.val]>>
                    ELSE <<>>)
                \o <<[msg |-> "answer", id |-> w.id, ok |-> TRUE]>>
       \/ /\ w.path \in MayRefuse
          /\ down' = Append(down, [msg |-> "answer", id |-> w.id, ok |-> FALSE])
          /\ UNCHANGED server
    /\ UNCHANGED <<link, asked, clientVars, nextHandle, calls, events>>

-----------------------------------------------------------------------------
(* Messages from the server, handled on the serial queue. *)

(* A deviation: server data is ignored while writes are pending. *)
ToServerCacheWhenIdle(node) ==
    /\ cache' = IF writes = {} THEN node ELSE cache
    /\ RaiseEvents(cache, writes, cache', writes)
    /\ UNCHANGED <<listening, awaiting, writes, held, nextWrite, written, observers>>

ToServerCache(node) ==
    /\ cache' = node
    /\ RaiseEvents(cache, writes, node, writes)
    /\ UNCHANGED <<listening, awaiting, writes, held, nextWrite, written, observers>>

(* ackWrite: the answered writes leave the write tree, applied or refused. *)
ackWrite(ids) ==
    /\ writes' = {w \in writes : w.id \notin ids}
    /\ RaiseEvents(cache, writes, cache, writes')
    /\ UNCHANGED <<listening, cache, nextWrite, written, observers>>

(* A deviation: no answer waits for a listen. *)
onAnswerAtOnce(id) ==
    IF ~\E w \in Outstanding : w.id = id
    THEN UNCHANGED <<clientVars, events>>
    ELSE ackWrite({id}) /\ UNCHANGED <<held, awaiting>>

(* An answer that arrives while a listen is open waits for the listen: its *)
(* data may not have come yet.                                             *)
onAnswer(id) ==
    IF ~\E w \in Outstanding : w.id = id
    THEN UNCHANGED <<clientVars, events>>
    ELSE IF awaiting
    THEN /\ held' = held \cup {id}
         /\ UNCHANGED <<listening, awaiting, cache, writes, nextWrite, written,
                        observers, events>>
    ELSE ackWrite({id}) /\ UNCHANGED <<held, awaiting>>

(* A deviation: the answers held back are completed, and still held. *)
onListenedHeld ==
    /\ awaiting' = FALSE
    /\ UNCHANGED held
    /\ ackWrite(held)

(* The listen is answered: unackedListensCount returns to 0 and ackPuts    *)
(* completes the answers that were held back.                              *)
onListened ==
    /\ awaiting' = FALSE
    /\ held' = {}
    /\ ackWrite(held)

onDataMessage ==
    /\ down # <<>>
    /\ down' = Tail(down)
    /\ LET m == Head(down) IN
       \/ m.msg = "data" /\ ToServerCache(m.node)
       \/ m.msg = "update" /\ ToServerCache([cache EXCEPT ![m.path] = m.val])
       \/ m.msg = "listened" /\ onListened
       \/ m.msg = "answer" /\ onAnswer(m.id)
    /\ UNCHANGED <<server, link, asked, up, nextHandle, calls>>

-----------------------------------------------------------------------------
(* The steps that are the client's and the server's own. *)
ClientStep  == ExecuteCall \/ onReady \/ onDataMessage
ServerStep  == ServerTakesListen \/ ServerAnswersListen \/ ServerTakesPut
DatabaseNext == ClientStep \/ ServerStep \/ onDisconnect

(* The weakest use of the client: an app that observes the record for good *)
(* and then writes, and observes and stops observing places, as it likes.  *)
Observe(l, cb) ==
    [op |-> "observe", obs |-> [handle |-> nextHandle, at |-> l, cb |-> cb]]

Init ==
    /\ server = EmptyNode
    /\ FreshClient
    /\ events = <<>>
    /\ nextHandle = 1
    /\ \E cb \in Callback :
        calls = <<[op |-> "observe", obs |-> [handle |-> 0, at |-> Root, cb |-> cb]]>>

PendingWrites == Cardinality({i \in DOMAIN calls : calls[i].op = "write"})

AppWrites ==
    /\ nextWrite + PendingWrites < MaxWrites
    /\ \E p \in Path, v \in Value :
        calls' = Append(calls, [op |-> "write", path |-> p, val |-> v])
    /\ UNCHANGED <<server, netVars, clientVars, nextHandle, events>>

AppObserves ==
    /\ nextHandle < MaxHandles
    /\ nextHandle' = nextHandle + 1
    /\ \E l \in Place, cb \in Callback : calls' = Append(calls, Observe(l, cb))
    /\ UNCHANGED <<server, netVars, clientVars, events>>

AppTakesEvent ==
    /\ events # <<>>
    /\ events' = Tail(events)
    /\ \/ UNCHANGED calls
       \/ /\ Head(events).obs.handle # 0
          /\ calls' = Append(calls, [op |-> "remove", handle |-> Head(events).obs.handle])
    /\ UNCHANGED <<server, netVars, clientVars, nextHandle>>

Next == DatabaseNext \/ AppWrites \/ AppObserves \/ AppTakesEvent

(* The serial queue runs, the client keeps reconnecting, and the server    *)
(* answers; nothing makes the app write or the network fail.               *)
Fairness == /\ WF_vars(ExecuteCall) /\ WF_vars(onReady) /\ WF_vars(onDataMessage)
            /\ WF_vars(ServerTakesListen) /\ WF_vars(ServerAnswersListen)
            /\ WF_vars(ServerTakesPut) /\ WF_vars(AppTakesEvent)

Spec == Init /\ [][Next]_vars /\ Fairness

-----------------------------------------------------------------------------
(* Properties. *)

(* Puts are answered in the order they were made, over any number of       *)
(* reconnects (restoreState resends in key order): the unanswered ones are *)
(* the youngest ones.  So a resend never puts an old value over an         *)
(* answered one.                                                           *)
AnsweredInOrder ==
    \A w \in Outstanding : \A n \in w.id .. (nextWrite - 1) :
        \E v \in Outstanding : v.id = n

(* The app reads its own writes: once the record is loaded, the view shows *)
(* the last value written at a path, before, while and after the server    *)
(* answers; holding answers back while a listen is open (putsToAck) is     *)
(* what keeps an answered write from vanishing until its data arrives.     *)
ReadYourWrites ==
    cache # Missing =>
        \A p \in Path \ MayRefuse : written[p] # Null => View[p] = written[p]

(* At a path with no unanswered write the server has the last value        *)
(* written, although puts may have been delivered several times.           *)
LastWriteWins ==
    \A p \in Path \ MayRefuse :
        (written[p] # Null /\ \A w \in Outstanding : w.path # p)
            => server[p] = written[p]

(* Reconnects change no order: the unanswered puts are always the youngest *)
(* ones, and where none is unanswered the server has the value that was    *)
(* written last.                                                           *)
PutsInOrder == AnsweredInOrder /\ LastWriteWins

(* When the messages of an answered listen have been handled, the server   *)
(* cache is the server's record.                                           *)
QuietCacheIsServer ==
    (link /\ asked = "active" /\ down = <<>>) => cache = server

(* The assertions of the client: removeWriteId finds the write it is       *)
(* called with, and unackedListensCount, an unsigned number, is not        *)
(* decremented below 0.                                                    *)
ClientAssertions ==
    /\ held \subseteq {w.id : w \in writes}
    /\ \A i \in DOMAIN down : down[i].msg = "listened" => awaiting

Settled == writes = {} /\ calls = <<>> /\ cache = server

(* If the network stays up, every write is answered and the view becomes   *)
(* the server's record.                                                    *)
Converges == <>[]link => <>[]Settled
=============================================================================
