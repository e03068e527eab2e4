---------------------------- MODULE SimInterrupts ----------------------------
(***************************************************************************)
(* Interrupts of a simulated device.  A gRPC thread of the server           *)
(* (SimServer.py) registers them and answers polls; the simulator's         *)
(* coroutines watch the design (SimInterrupt.py) and serve, in order, what  *)
(* the gRPC threads have queued (simulation.py).  The library registers an  *)
(* interrupt per PE, starts the PE by a register write, and polls until a   *)
(* poll reports an interrupt (interrupt.rs, SimInterrupt).                  *)
(***************************************************************************)
EXTENDS Naturals, Sequences, SequencesExt, FiniteSets

CONSTANTS Unsafe,   \* UNSAFE_SIM: a write returns before it was done
          PEs,      \* the interrupt of a PE is known by one file descriptor
          MaxJobs   \* bound: jobs per PE

VARIABLES client,         \* a PE's user: new, idle, starting, waiting, done
          jobs,           \* jobs started
          sim_interrupts, \* SimServer.interrupts: the descriptors registered
          watching,       \* the coroutines that wait for a rising edge
          counter,        \* SimInterrupt._counter
          request_queue,  \* SimServer.request_queue
          poll,           \* get_interrupt_status: idle, or what was counted
          running,        \* the PEs at work
          raised,         \* interrupts raised by a PE
          returned        \* interrupts reported to its user

simVars == <<client, jobs, sim_interrupts, watching, counter, request_queue, poll,
             running, raised, returned>>

NoPoll == <<>>

SimInit == /\ client = [p \in PEs |-> "new"]
           /\ jobs = [p \in PEs |-> 0]
           /\ sim_interrupts = {} /\ watching = {} /\ running = {}
           /\ counter = [p \in PEs |-> 0]
           /\ request_queue = <<>>
           /\ poll = [p \in PEs |-> NoPoll]
           /\ raised = [p \in PEs |-> 0]
           /\ returned = [p \in PEs |-> 0]

-----------------------------------------------------------------------------
(* gRPC threads *)

register_interrupt(p) ==
  /\ client[p] = "new"
  /\ sim_interrupts' = sim_interrupts \cup {p}
  /\ counter' = [counter EXCEPT ![p] = 0]
  /\ request_queue' = Append(request_queue, <<"watch", p>>)
  /\ client' = [client EXCEPT ![p] = "idle"]
  /\ UNCHANGED <<jobs, watching, poll, running, raised, returned>>

\* Job::start: the write of the PE's control register
write_platform(p) ==
  /\ client[p] = "idle" /\ jobs[p] < MaxJobs
  /\ request_queue' = Append(request_queue, <<"start", p>>)
  /\ jobs' = [jobs EXCEPT ![p] = @ + 1]
  /\ client' = [client EXCEPT ![p] = IF Unsafe THEN "waiting" ELSE "starting"]
  /\ UNCHANGED <<sim_interrupts, watching, counter, poll, running, raised, returned>>

\* get_interrupt_status: the count is read ...
get_interrupt_count(p) ==
  /\ client[p] = "waiting" /\ poll[p] = NoPoll
  /\ p \in sim_interrupts
  /\ poll' = [poll EXCEPT ![p] = <<counter[p]>>]
  /\ UNCHANGED <<client, jobs, sim_interrupts, watching, counter, request_queue,
                 running, raised, returned>>

\* Variant of clear_interrupt that leaves the counter
clear_forgotten(p) ==
  /\ poll[p] # NoPoll
  /\ returned' = [returned EXCEPT ![p] = @ + poll[p][1]]
  /\ client' = [client EXCEPT ![p] = IF poll[p][1] > 0 THEN "idle" ELSE @]
  /\ poll' = [poll EXCEPT ![p] = NoPoll]
  /\ UNCHANGED <<jobs, sim_interrupts, watching, counter, request_queue, running,
                 raised>>

\* ... and then the counter is cleared, and the count returned
clear_interrupt(p) ==
  /\ poll[p] # NoPoll
  /\ counter' = [counter EXCEPT ![p] = 0]
  /\ returned' = [returned EXCEPT ![p] = @ + poll[p][1]]
  /\ client' = [client EXCEPT ![p] = IF poll[p][1] > 0 THEN "idle" ELSE @]
  /\ poll' = [poll EXCEPT ![p] = NoPoll]
  /\ UNCHANGED <<jobs, sim_interrupts, watching, request_queue, running, raised>>

\* The SimInterrupt is dropped; its coroutine is killed with the object
deregister_interrupt(p) ==
  /\ client[p] = "idle"
  /\ sim_interrupts' = sim_interrupts \ {p}
  /\ watching' = watching \ {p}
  /\ client' = [client EXCEPT ![p] = "done"]
  /\ UNCHANGED <<jobs, counter, request_queue, poll, running, raised, returned>>

-----------------------------------------------------------------------------
(* The simulator *)

Serve(r) ==
  /\ \/ /\ r[1] = "watch"
        /\ watching' = IF r[2] \in sim_interrupts THEN watching \cup {r[2]} ELSE watching
        /\ UNCHANGED <<running, client>>
     \/ /\ r[1] = "start"
        /\ running' = running \cup {r[2]}
        /\ client' = [client EXCEPT ![r[2]] = "waiting"]
        /\ UNCHANGED watching
  /\ UNCHANGED <<jobs, sim_interrupts, counter, poll, raised, returned>>

\* Variant of request_servicer that takes the latest request
request_servicer_last ==
  /\ request_queue # <<>>
  /\ Serve(Last(request_queue))
  /\ request_queue' = Front(request_queue)

\* The next request is started; the coroutine of a killed task ends at once
request_servicer ==
  /\ request_queue # <<>>
  /\ Serve(Head(request_queue))
  /\ request_queue' = Tail(request_queue)

\* The PE is done; its edge is counted by the coroutine that waits for it
interrupt_edge(p) ==
  /\ p \in running
  /\ running' = running \ {p}
  /\ raised' = [raised EXCEPT ![p] = @ + 1]
  /\ counter' = [counter EXCEPT ![p] = IF p \in watching THEN @ + 1 ELSE @]
  /\ UNCHANGED <<client, jobs, sim_interrupts, watching, request_queue, poll, returned>>

Finished == /\ \A p \in PEs : client[p] = "done"
            /\ request_queue = <<>>
            /\ UNCHANGED simVars

SimNext == \/ \E p \in PEs : \/ register_interrupt(p) \/ write_platform(p)
                              \/ get_interrupt_count(p) \/ clear_interrupt(p)
                              \/ deregister_interrupt(p) \/ interrupt_edge(p)
           \/ request_servicer \/ Finished

SimSpec == SimInit /\ [][SimNext]_simVars

-----------------------------------------------------------------------------

SimTypeOK ==
  /\ client \in [PEs -> {"new", "idle", "starting", "waiting", "done"}]
  /\ jobs \in [PEs -> 0 .. MaxJobs]
  /\ sim_interrupts \subseteq PEs /\ watching \subseteq sim_interrupts /\ running \subseteq PEs
  /\ counter \in [PEs -> Nat] /\ raised \in [PEs -> Nat] /\ returned \in [PEs -> Nat]
  /\ request_queue \in Seq({"watch", "start"} \X PEs)
  /\ poll \in [PEs -> {NoPoll} \cup {<<n>> : n \in 0 .. MaxJobs}]

\* No interrupt of a running PE is missed for want of a coroutine: the queue
\* starts the one of register_interrupt before it lets the PE be started.
WatchedWhenRunning == SimTypeOK /\ \A p \in running : p \in watching

\* get_interrupt_status never reports an interrupt twice, nor one that was not
\* raised.
NothingInvented == \A p \in PEs : returned[p] + counter[p] <= raised[p] +
                                    (IF poll[p] = NoPoll THEN 0 ELSE poll[p][1])

\* get_interrupt_status "Returns the number of interrupts that have occured
\* [...] since the last read": what was raised while a PE was watched is
\* returned, or still in the counter.
NothingLost == \A p \in PEs : poll[p] = NoPoll => returned[p] + counter[p] = raised[p]
=============================================================================
