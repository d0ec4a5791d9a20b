---------------------------- MODULE MCStreamFiber ----------------------------
(* A behaviour is one of two stream fibers, or one of the simulator that   *)
(* carries streams in tests and examples: the other has nothing to do.     *)
EXTENDS StreamFiber, Simulation
CONSTANTS a, b, x, y, h1, h2, t1, t2
\* Two connections with data: a byte that is sent again, or two at once; a
\* connection with both, and a dial after it; bytes both ways; both ends dial,
\* and one closes; one connection with a flush or a skip; both dial and resend.
\* None: the simulator.
NoStream == [dial |-> {}, close |-> {}, write |-> {}, ids |-> 0, bytes |-> 0, packets |-> 0, controls |-> 0]
MCScenarios == {NoStream} \cup
  {[dial |-> {a}, close |-> {a}, write |-> {a}, ids |-> 4, bytes |-> 1, packets |-> 3, controls |-> 0],
   [dial |-> {a}, close |-> {a}, write |-> {a}, ids |-> 4, bytes |-> 2, packets |-> 2, controls |-> 0],
   [dial |-> {a}, close |-> {a}, write |-> {a}, ids |-> 3, bytes |-> 2, packets |-> 3, controls |-> 0],
   [dial |-> {a}, close |-> {b}, write |-> {a, b}, ids |-> 4, bytes |-> 1, packets |-> 1, controls |-> 0],
   [dial |-> {a, b}, close |-> {a}, write |-> {a}, ids |-> 4, bytes |-> 1, packets |-> 1, controls |-> 0],
   [dial |-> {a}, close |-> {b}, write |-> {a}, ids |-> 3, bytes |-> 1, packets |-> 3, controls |-> 1],
   [dial |-> {a, b}, close |-> {}, write |-> {a}, ids |-> 3, bytes |-> 1, packets |-> 3, controls |-> 0]}
\* A factory and a fiber, an interface each.
MCHome == [e \in {x, y} |-> IF e = x THEN h1 ELSE h2]

FiberStep == UNCHANGED simVars
SimStep == scenario = NoStream /\ UNCHANGED vars
RunNext ==
  \/ \E f \in Fibers : Calls(f) /\ FiberStep
  \/ \E f \in Fibers : TimersFire(f) /\ FiberStep
  \/ \E f \in Fibers : \E m \in net : did_recv(f, m) /\ FiberStep
  \/ \E t \in Timers, n \in Timeouts, r \in Repeats : timer_start(t, n, r) /\ SimStep
  \/ \E t \in Timers : timer_stop(t) /\ SimStep
  \/ \E e \in Endpoints : sim_listen(e) /\ SimStep
  \/ \E e \in Endpoints : \E h \in Peers(e) : sim_dial(e, h) /\ SimStep
  \/ \E e \in Endpoints : \E h \in Peers(e) : sim_send(e, h) /\ SimStep
  \/ \E e \in Endpoints : \E h \in Peers(e) : sim_close(e, h) /\ SimStep
  \/ \E h \in Hosts : close_interface(h) /\ SimStep
  \/ sim_run /\ SimStep
  \/ next_event /\ SimStep
  \/ event_done /\ SimStep
  \/ run_ends /\ SimStep

RunInit == Init /\ SimulationInit
RunSpec == RunInit /\ [][RunNext]_<<vars, simVars>>
=============================================================================
