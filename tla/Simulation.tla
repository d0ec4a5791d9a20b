------------------------------ MODULE Simulation ------------------------------
(***************************************************************************)
(* The simulator, on which the transports run in tests in the place of     *)
(* libuv: a queue of events by tick, timers, and a network of interfaces   *)
(* with the factories and fibers that listen on them.                      *)
(*                                                                         *)
(* Simulator::run() runs the first event of the queue and then removes it, *)
(* so that its tick is the time while its callbacks run.  Before run() the *)
(* time is that of the first event too: a timer that is started then is    *)
(* late by as much.  After the last event the time is 0 again.             *)
(***************************************************************************)
EXTENDS Integers, Sequences, SequencesExt

CONSTANTS
  Timers, Timeouts, Repeats,   \* timers, and what they are started with
  Hosts,            \* addresses of interfaces, of which each endpoint has
  Home,             \* Home[e]: that of endpoint e; the port is the same everywhere
  Factories,        \* endpoints that are a SimulatedTransportFactory; the others are a SimulationFiber
  Accepting,        \* factories whose should_accept() is true
  MaxEvents         \* bound: events made

Endpoints == DOMAIN Home
Network == {Home[e] : e \in Endpoints}   \* addresses with an interface
Peers(e) == Hosts \ {Home[e]}             \* whom the applications of the tests talk to

ASSUME SimulationAssumption ==
  /\ Home \in [Endpoints -> Hosts] /\ Accepting \subseteq Factories /\ Factories \subseteq Endpoints
  /\ Timeouts \subseteq Nat /\ Repeats \subseteq Nat /\ MaxEvents \in Nat

VARIABLES
  queue,         \* the events by tick, those of a tick in the order they were added
  in_run,        \* in Simulator::run()
  running,       \* the event whose run() is under way, or NoEvent
  id_seq,        \* Event::id_seq, from 1: 0 is no event
  sim_timer,     \* sim_timer[t]: next_event (the id of it) and repeat
  listeners,     \* listeners[h]: the endpoint that NetworkInterface h hands datagrams to
  is_listening,
  transport_map, \* transport_map[e]: peers of a factory's transports
  clock,         \* history: the tick of the last event run
  asked,         \* history: asked[t]: when timer t was last asked to fire
  posted, arrived, unheard   \* history: datagrams [to, at] by number; what came where, and what did not

simLoop == <<queue, in_run, running, id_seq, clock>>
simTimers == <<sim_timer, asked>>
simNet == <<listeners, is_listening, transport_map>>
simMail == <<posted, arrived, unheard>>
simVars == <<simLoop, simTimers, simNet, simMail>>

NoOne == "noone"
NoEvent == [id |-> 0, tick |-> 0, kind |-> "none", of |-> 0, from |-> NoOne]
Never == -1

-----------------------------------------------------------------------------
(* EventQueue, over the indexes of IndexedStorage.  Nothing is ever added  *)
(* before the first event: the throw of Simulator::add_event is not met.   *)
current_tick(q) == IF q = <<>> THEN 0 ELSE Head(q).tick
UpperBound(q, tick) == CHOOSE i \in 1 .. Len(q) + 1 : \A k \in DOMAIN q : k < i <=> q[k].tick <= tick
add_event(q, e) == InsertAt(q, UpperBound(q, e.tick), e)
remove_event_Tick(q, id) ==   \* slip: MultimapIndex::remove erases the key, not the element
  SelectSeq(q, LAMBDA x : \A y \in Range(q) : y.id = id => x.tick # y.tick)
remove_event(q, id) ==
  LET k == SelectInSeq(q, LAMBDA x : x.id = id) IN IF k = 0 THEN q ELSE RemoveAt(q, k)

Free == ~in_run \/ running # NoEvent   \* the application's turn: before run(), or called by an event
Time(q) == IF running # NoEvent THEN clock ELSE current_tick(q)

-----------------------------------------------------------------------------
(* Timer.                                                                  *)
Stopped(t) == IF sim_timer[t].next_event = 0 THEN queue ELSE remove_event(queue, sim_timer[t].next_event)
Started(t, timeout, repeat, done) ==   \* done: the event that is removed next, or 0
  LET rest == Stopped(t)
      e == [id |-> id_seq, tick |-> current_tick(rest) + timeout,
            kind |-> "timer", of |-> t, from |-> NoOne]
  IN /\ id_seq <= MaxEvents /\ id_seq' = id_seq + 1
     /\ queue' = remove_event(add_event(rest, e), done)
     /\ sim_timer' = [sim_timer EXCEPT ![t] = [next_event |-> id_seq, repeat |-> repeat]]
     /\ asked' = [asked EXCEPT ![t] = Time(rest) + timeout]

timer_start(t, timeout, repeat) ==
  /\ Free /\ Started(t, timeout, repeat, 0)
  /\ UNCHANGED <<in_run, running, clock, simNet, simMail>>
timer_stop(t) ==
  /\ Free /\ queue' = Stopped(t)
  /\ sim_timer' = [sim_timer EXCEPT ![t] = [next_event |-> 0, repeat |-> 0]]
  /\ asked' = [asked EXCEPT ![t] = Never]
  /\ UNCHANGED <<in_run, running, id_seq, clock, simNet, simMail>>

-----------------------------------------------------------------------------
(* Network, NetworkInterface, SimulatedTransportFactory, SimulationFiber.  *)
(* Of two endpoints on one address the second cannot bind; is_listening is *)
(* set all the same, and its next dial goes through.                       *)
Bound(e) == IF listeners[Home[e]] = NoOne THEN [listeners EXCEPT ![Home[e]] = e] ELSE listeners
sim_listen(e) ==
  /\ Free
  /\ is_listening' = is_listening \cup {e} /\ listeners' = Bound(e)
  /\ UNCHANGED <<transport_map, simLoop, simTimers, simMail>>
sim_dial(e, h) ==
  /\ Free
  /\ is_listening' = is_listening \cup {e}
  /\ listeners' = IF e \in is_listening THEN listeners ELSE Bound(e)
  /\ transport_map' = IF e \in Factories /\ (e \in is_listening \/ listeners[Home[e]] = NoOne)
                      THEN [transport_map EXCEPT ![e] = @ \cup {h}] ELSE transport_map
  /\ UNCHANGED <<simLoop, simTimers, simMail>>

(* NetworkConditioner: nothing is dropped, everything takes a tick.        *)
sim_send(e, h) ==
  /\ Free /\ (e \in Factories => h \in transport_map[e])
  /\ IF h \notin Network THEN UNCHANGED <<queue, id_seq, posted>>
     ELSE /\ id_seq <= MaxEvents /\ id_seq' = id_seq + 1
          /\ queue' = add_event(queue, [id |-> id_seq, tick |-> current_tick(queue) + 1, kind |-> "data",
                                        of |-> Len(posted) + 1, from |-> Home[e]])
          /\ posted' = Append(posted, [to |-> h, at |-> Time(queue)])
  /\ UNCHANGED <<in_run, running, clock, arrived, unheard, simTimers, simNet>>

sim_close(e, h) ==   \* SimulatedTransport::close
  /\ Free /\ h \in transport_map[e]
  /\ transport_map' = [transport_map EXCEPT ![e] = @ \ {h}]
  /\ UNCHANGED <<listeners, is_listening, simLoop, simTimers, simMail>>
close_interface(h) ==   \* NetworkInterface::close; did_close of both listeners is empty
  /\ Free /\ listeners[h] # NoOne
  /\ listeners' = [listeners EXCEPT ![h] = NoOne]
  /\ UNCHANGED <<is_listening, transport_map, simLoop, simTimers, simMail>>

-----------------------------------------------------------------------------
(* Simulator::run(), event by event; what the application does in between  *)
(* are the actions above.                                                  *)
sim_run ==
  /\ ~in_run /\ in_run' = TRUE
  /\ UNCHANGED <<queue, running, id_seq, clock, simTimers, simNet, simMail>>

TimerEvent(e) ==   \* TimerEvent::run, Timer::timer_cb
  /\ sim_timer' = [sim_timer EXCEPT ![e.of].next_event = 0]
  /\ asked' = [asked EXCEPT ![e.of] = Never]
  /\ UNCHANGED <<transport_map, arrived, unheard>>
Hears(l, from) ==   \* NetworkInterface::did_recv
  l # NoOne /\ (l \in Factories => from \in transport_map[l] \/ l \in Accepting)
DataOnInterfaceEvent(e) ==   \* did_recv of the listener
  LET l == listeners[posted[e.of].to]
      taken == Hears(l, e.from)
  IN /\ transport_map' = IF taken /\ l \in Factories THEN [transport_map EXCEPT ![l] = @ \cup {e.from}]
                         ELSE transport_map
     /\ arrived' = IF taken THEN [arrived EXCEPT ![posted[e.of].to] = Append(@, e.of)] ELSE arrived
     /\ unheard' = IF taken THEN unheard ELSE unheard \cup {e.of}
     /\ UNCHANGED simTimers
next_event_Removed ==   \* slip: an event is taken off the queue before it is run
  /\ in_run /\ running = NoEvent /\ queue # <<>>
  /\ running' = Head(queue) /\ clock' = Head(queue).tick /\ queue' = Tail(queue)
  /\ IF Head(queue).kind = "timer" THEN TimerEvent(Head(queue)) ELSE DataOnInterfaceEvent(Head(queue))
  /\ UNCHANGED <<in_run, id_seq, listeners, is_listening, posted>>
next_event ==
  /\ in_run /\ running = NoEvent /\ queue # <<>>
  /\ running' = Head(queue) /\ clock' = Head(queue).tick
  /\ IF Head(queue).kind = "timer" THEN TimerEvent(Head(queue)) ELSE DataOnInterfaceEvent(Head(queue))
  /\ UNCHANGED <<queue, in_run, id_seq, listeners, is_listening, posted>>

(* The end of timer_cb starts a repeated timer again, before run() removes *)
(* its old event.                                                          *)
event_done ==
  /\ running # NoEvent /\ running' = NoEvent
  /\ IF running.kind = "timer" /\ sim_timer[running.of].repeat > 0
     THEN Started(running.of, sim_timer[running.of].repeat, sim_timer[running.of].repeat, running.id)
     ELSE queue' = remove_event(queue, running.id) /\ UNCHANGED <<id_seq, simTimers>>
  /\ UNCHANGED <<in_run, clock, simNet, simMail>>
run_ends ==
  /\ in_run /\ running = NoEvent /\ queue = <<>> /\ in_run' = FALSE
  /\ UNCHANGED <<queue, running, id_seq, clock, simTimers, simNet, simMail>>

-----------------------------------------------------------------------------
SimulationInit ==
  /\ queue = <<>> /\ in_run = FALSE /\ running = NoEvent /\ id_seq = 1
  /\ sim_timer = [t \in Timers |-> [next_event |-> 0, repeat |-> 0]]
  /\ listeners = [h \in Hosts |-> NoOne] /\ is_listening = {}
  /\ transport_map = [e \in Endpoints |-> {}]
  /\ clock = 0 /\ asked = [t \in Timers |-> Never]
  /\ posted = <<>> /\ arrived = [h \in Hosts |-> <<>>] /\ unheard = {}
SimulationNext ==
  \/ \E t \in Timers : timer_stop(t) \/ \E n \in Timeouts, m \in Repeats : timer_start(t, n, m)
  \/ \E e \in Endpoints : sim_listen(e)
  \/ \E e \in Endpoints : \E h \in Peers(e) : sim_dial(e, h) \/ sim_send(e, h) \/ sim_close(e, h)
  \/ \E h \in Hosts : close_interface(h)
  \/ sim_run \/ next_event \/ event_done \/ run_ends
SimulationSpec == SimulationInit /\ [][SimulationNext]_simVars

-----------------------------------------------------------------------------
(* What is to happen is what was asked for, when it was asked for, and in  *)
(* that order: a timer that runs has one event, at the time it was last    *)
(* started for, and one that was stopped has none, whatever timers and     *)
(* datagrams of the same tick do to each other; a datagram arrives once,   *)
(* a tick later, after those sent before it, unless nobody listens.        *)
Waiting(kind, of) ==
  {k \in DOMAIN queue : queue[k].kind = kind /\ queue[k].of = of /\ queue[k].id # running.id}
AsScheduled ==
  /\ \A j, k \in DOMAIN queue : j < k => queue[j].tick <= queue[k].tick
  /\ \A t \in Timers :
       IF asked[t] = Never THEN Waiting("timer", t) = {} /\ sim_timer[t].next_event = 0
       ELSE \E k \in DOMAIN queue : /\ Waiting("timer", t) = {k}
                                    /\ queue[k].id = sim_timer[t].next_event /\ queue[k].tick = asked[t]
  /\ \A n \in DOMAIN posted :
       LET come == n \in Range(arrived[posted[n].to]) \cup unheard
       IN /\ ~come <=> Waiting("data", n) # {}
          /\ \A k \in Waiting("data", n) : queue[k].tick = posted[n].at + 1
          /\ come => \A m \in 1 .. n - 1 : posted[m].to = posted[n].to => Waiting("data", m) = {}
=============================================================================
