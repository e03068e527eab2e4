---------------------------- MODULE JobScheduler ----------------------------
(***************************************************************************)
(* Jobs on processing elements, as libtapasco runs them: the scheduler's    *)
(* pools of idle PEs (scheduler.rs), the PE with its completion interrupt   *)
(* and its pending copy backs (pe.rs), and the Job a client thread drives   *)
(* from acquire to release or drop (job.rs), with the device memory its     *)
(* parameters are allocated in.                                             *)
(*                                                                          *)
(* A parameter is its kind: "in" and "out" are DataTransferAlloc with free  *)
(* set, to and from the device; "c2h" and "h2c" are streams; "reg" goes to  *)
(* a register; "bad" is refused when the registers are written.  The        *)
(* hardware (a PE run, the memory it writes, its interrupt) is external:    *)
(* one interrupt per finished run.                                          *)
(***************************************************************************)
EXTENDS Naturals, Sequences

CONSTANTS Clients, PEs, Regions, None,
          ParamLists,   \* the argument lists of a start
          Starts,       \* bound: starts per client
          DmaErrors     \* bound: failing transfers

Kinds == {"in", "out", "c2h", "h2c", "reg", "bad"}
Runs == Clients \X (0 .. Starts)

ASSUME JobAssumption == /\ Starts \in Nat /\ DmaErrors \in Nat
                        /\ ParamLists \subseteq Seq(Kinds)
                        /\ None \notin Regions \cup PEs \cup Runs

VARIABLES pool,       \* Scheduler.pes: idle PEs (of the one type modelled)
          single,     \* the Injector of a SinglePEScheduler
          handled,    \* the PE taken out of scheduling for it, or None
          active,     \* PE.active
          copy_back,  \* PE.copy_back
          running,    \* hardware: the run a PE executes
          eventfd,    \* pending completion interrupts of a PE
          allocated,  \* the allocator's regions in use
          content,    \* hardware: the run whose results a region holds
          pc, pe, args, regs, todo,   \* a client's job
          pos,        \* the parameter a loop of its start is at
          starts, errors,
          launched    \* the runs that were started on a PE

hw == <<running, content>>
peVars == <<active, copy_back, eventfd>>
pools == <<pool, single, handled>>
params == <<args, regs, pos>>
vars == <<pools, peVars, hw, allocated, pc, pe, params, todo, starts, errors, launched>>

Init == /\ pool = PEs /\ single = {} /\ handled = None
        /\ active = [p \in PEs |-> FALSE]
        /\ copy_back = [p \in PEs |-> <<>>]
        /\ running = [p \in PEs |-> None]
        /\ eventfd = [p \in PEs |-> 0]
        /\ allocated = {}
        /\ content = [r \in Regions |-> None]
        /\ pc = [j \in Clients |-> "idle"]
        /\ pe = [j \in Clients |-> None]
        /\ args = [j \in Clients |-> <<>>]
        /\ regs = [j \in Clients |-> <<>>]
        /\ pos = [j \in Clients |-> 1]
        /\ todo = [j \in Clients |-> <<>>]
        /\ starts = [j \in Clients |-> Starts]
        /\ errors = 0
        /\ launched = {}

Goto(j, l) == pc' = [pc EXCEPT ![j] = l]
Run(j) == <<j, starts[j]>>

-----------------------------------------------------------------------------
(* Scheduler *)

\* acquire_pe: a steal that succeeds (the blocking call retries until then)
Acquire(j) ==
  /\ pc[j] = "idle" /\ starts[j] > 0
  /\ \E p \in pool : /\ pool' = pool \ {p}
                     /\ pe' = [pe EXCEPT ![j] = p]
  /\ Goto(j, "ready")
  /\ UNCHANGED <<single, handled, peVars, hw, allocated, params, todo,
                 starts, errors, launched>>

\* SinglePEHandler::new takes a PE out of the scheduler
AcquireSingle ==
  /\ handled = None
  /\ \E p \in pool : pool' = pool \ {p} /\ single' = {p} /\ handled' = p
  /\ UNCHANGED <<peVars, hw, allocated, pc, pe, params, todo, starts, errors, launched>>

\* SinglePEHandler::acquire_pe
AcquireFromSingle(j) ==
  /\ pc[j] = "idle" /\ starts[j] > 0
  /\ \E p \in single : /\ single' = single \ {p}
                       /\ pe' = [pe EXCEPT ![j] = p]
  /\ Goto(j, "ready")
  /\ UNCHANGED <<pool, handled, peVars, hw, allocated, params, todo,
                 starts, errors, launched>>

\* SinglePEHandler::release_pe steals the PE and returns it to the scheduler
ReleaseSingle ==
  /\ single # {}
  /\ pool' = pool \cup single /\ single' = {} /\ handled' = None
  /\ UNCHANGED <<peVars, hw, allocated, pc, pe, params, todo, starts, errors, launched>>

-----------------------------------------------------------------------------
(* Job::start *)

Start(j) ==
  /\ pc[j] = "ready" /\ starts[j] > 0
  /\ \E l \in ParamLists : /\ args' = [args EXCEPT ![j] = l]
                            /\ Goto(j, IF l = <<>> THEN "launch" ELSE "allocate")
  /\ regs' = [regs EXCEPT ![j] = <<>>] /\ pos' = [pos EXCEPT ![j] = 1]
  /\ starts' = [starts EXCEPT ![j] = @ - 1]
  /\ UNCHANGED <<pools, peVars, hw, allocated, pe, todo, errors, launched>>

\* start returns; what it still holds in local variables is dropped
EndStart(j) == /\ Goto(j, "ready")
               /\ args' = [args EXCEPT ![j] = <<>>]
               /\ regs' = [regs EXCEPT ![j] = <<>>]
               /\ pos' = [pos EXCEPT ![j] = 1]

NeedsRegion(kind) == kind \in {"in", "out"}

\* A loop over the parameters is at the i-th one
AtArg(j, loop, i) == pc[j] = loop /\ pos[j] = i

\* It goes on to the next one; after the last parameter the next loop begins
AfterLoop(loop) == CASE loop = "allocate" -> "transfer" [] loop = "transfer" -> "streams"
                     [] loop = "streams" -> "launch"
NextArg(j) ==
  \/ pos[j] < Len(args[j]) /\ pos' = [pos EXCEPT ![j] = @ + 1] /\ UNCHANGED pc
  \/ pos[j] = Len(args[j]) /\ pos' = [pos EXCEPT ![j] = 1] /\ Goto(j, AfterLoop(pc[j]))

\* handle_allocates, one parameter per step: each locks the allocator
AllocateArg(j) ==
  \E i \in DOMAIN args[j] :
     /\ AtArg(j, "allocate", i)
     /\ \/ /\ ~ NeedsRegion(args[j][i])
           /\ regs' = [regs EXCEPT ![j] = Append(@, None)] /\ NextArg(j)
           /\ UNCHANGED <<allocated, args, errors>>
        \/ /\ NeedsRegion(args[j][i])
           /\ \E r \in Regions \ allocated :
                /\ allocated' = allocated \cup {r}
                /\ regs' = [regs EXCEPT ![j] = Append(@, r)] /\ NextArg(j)
           /\ UNCHANGED <<args, errors>>
        \/ /\ NeedsRegion(args[j][i]) /\ allocated = Regions
           /\ EndStart(j) /\ errors' = errors + 1
           /\ UNCHANGED allocated
     /\ UNCHANGED <<pools, peVars, hw, pe, todo, starts, launched>>

\* PE::add_copyback for the i-th parameter
AddCopyback(j, i) ==
  copy_back' = [copy_back EXCEPT ![pe[j]] =
                  Append(@, [kind |-> args[j][i], arg |-> i, region |-> regs[j][i], run |-> Run(j)])]

\* handle_transfers_to_device: data goes to the device, and what is to be
\* copied back or freed is left with the PE ...
TransferArg(j) ==
  \E i \in DOMAIN args[j] :
     /\ AtArg(j, "transfer", i) /\ NextArg(j)
     /\ \/ NeedsRegion(args[j][i]) /\ AddCopyback(j, i)
        \/ ~ NeedsRegion(args[j][i]) /\ UNCHANGED copy_back
     /\ UNCHANGED <<pools, active, eventfd, hw, allocated, pe, args, regs, todo,
                    starts, errors, launched>>

\* ... until a transfer fails: only those before it get a copy back
TransferFails(j) ==
  \E i \in DOMAIN args[j] :
     /\ AtArg(j, "transfer", i) /\ args[j][i] = "in" /\ errors < DmaErrors
     /\ EndStart(j) /\ errors' = errors + 1
     /\ UNCHANGED <<pools, peVars, hw, allocated, pe, todo, starts, launched>>

\* handle_stream_transfers: one stream per direction
StreamArg(j) ==
  \E i \in DOMAIN args[j] :
     /\ AtArg(j, "streams", i)
     /\ LET stream == args[j][i] \in {"c2h", "h2c"}
            second == \E k \in 1 .. i - 1 : args[j][k] = args[j][i]
        IN \/ ~ stream /\ NextArg(j) /\ UNCHANGED <<copy_back, args, regs, errors>>
           \/ stream /\ ~ second /\ AddCopyback(j, i) /\ NextArg(j)
              /\ UNCHANGED <<args, regs, errors>>
           \/ stream /\ second /\ EndStart(j) /\ errors' = errors + 1 /\ UNCHANGED copy_back
     /\ UNCHANGED <<pools, active, eventfd, hw, allocated, pe, todo, starts, launched>>

\* The registers are written and the PE is started
Launch(j) ==
  /\ pc[j] = "launch"
  /\ LET bad == (\E i \in DOMAIN args[j] : args[j][i] = "bad") \/ active[pe[j]]
     IN \/ /\ ~ bad
           /\ active' = [active EXCEPT ![pe[j]] = TRUE]
           /\ running' = [running EXCEPT ![pe[j]] = Run(j)]
           /\ launched' = launched \cup {Run(j)}
           /\ UNCHANGED errors
        \/ /\ bad
           /\ errors' = errors + 1
           /\ UNCHANGED <<active, running, launched>>
  /\ EndStart(j)
  /\ UNCHANGED <<pools, copy_back, eventfd, content, allocated, pe, todo, starts>>

-----------------------------------------------------------------------------
(* PE *)

Entries(s) == {s[k] : k \in DOMAIN s}

\* The hardware finishes the run, having written its output, and interrupts
Finish(p) ==
  /\ running[p] # None
  /\ LET out == {e.region : e \in {x \in Entries(copy_back[p]) :
                                    x.kind = "out" /\ x.run = running[p]}}
     IN content' = [r \in Regions |-> IF r \in out THEN running[p] ELSE content[r]]
  /\ running' = [running EXCEPT ![p] = None]
  /\ eventfd' = [eventfd EXCEPT ![p] = @ + 1]
  /\ UNCHANGED <<pools, active, copy_back, allocated, pc, pe, params, todo,
                 starts, errors, launched>>

\* Variant of Completed that leaves the count in the eventfd
CompletedKeeping(p) == /\ active[p] => eventfd[p] > 0
                       /\ active' = [active EXCEPT ![p] = FALSE]
                       /\ UNCHANGED eventfd

\* wait_for_completion and check_for_completion once they return (true): the
\* read of the eventfd took its count, or the PE was idle
Completed(p) ==
  \/ /\ active[p] /\ eventfd[p] > 0
     /\ active' = [active EXCEPT ![p] = FALSE]
     /\ eventfd' = [eventfd EXCEPT ![p] = 0]
  \/ /\ ~ active[p]
     /\ UNCHANGED <<active, eventfd>>

\* Variant of Wait that takes the interrupt and leaves the PE active
WaitActive(j) ==
  /\ pc[j] = "ready" /\ active[pe[j]] /\ eventfd[pe[j]] > 0
  /\ eventfd' = [eventfd EXCEPT ![pe[j]] = 0]
  /\ UNCHANGED <<pools, active, copy_back, hw, allocated, pc, pe, params, todo,
                 starts, errors, launched>>

\* Job::wait_for_completion
Wait(j) ==
  /\ pc[j] = "ready" /\ active[pe[j]]
  /\ Completed(pe[j])
  /\ UNCHANGED <<pools, copy_back, hw, allocated, pc, pe, params, todo, starts,
                 errors, launched>>

-----------------------------------------------------------------------------
(* Job::release, try_release and drop *)

\* Scheduler::release_pe or SinglePEScheduler::release_pe
GiveBack(p) == IF p = handled
               THEN single' = single \cup {p} /\ UNCHANGED <<pool, handled>>
               ELSE pool' = pool \cup {p} /\ UNCHANGED <<single, handled>>

\* The PE is done; its copy backs are taken, and it goes back to its scheduler
\* before they are handled
Release(j) ==
  /\ pc[j] = "ready"
  /\ Completed(pe[j])
  /\ todo' = [todo EXCEPT ![j] = copy_back[pe[j]]]
  /\ copy_back' = [copy_back EXCEPT ![pe[j]] = <<>>]
  /\ GiveBack(pe[j])
  /\ pe' = [pe EXCEPT ![j] = None]
  /\ Goto(j, "copyback")
  /\ UNCHANGED <<hw, allocated, params, starts, errors, launched>>

\* check_for_completion finds no interrupt: try_release returns without a result
TryRelease(j) ==
  /\ pc[j] = "ready" /\ active[pe[j]] /\ eventfd[pe[j]] = 0
  /\ UNCHANGED vars

\* Variant of ReleaseKeeping that does not wait for the PE
ReleaseKeepingEarly(j) ==
  /\ pc[j] = "ready" /\ starts[j] > 0
  /\ todo' = [todo EXCEPT ![j] = copy_back[pe[j]]]
  /\ copy_back' = [copy_back EXCEPT ![pe[j]] = <<>>]
  /\ Goto(j, "copyback")
  /\ UNCHANGED <<pools, active, eventfd, hw, allocated, pe, params, starts, errors,
                 launched>>

\* release or try_release with release_pe = false, for another start on the PE
ReleaseKeeping(j) ==
  /\ pc[j] = "ready" /\ starts[j] > 0
  /\ Completed(pe[j])
  /\ todo' = [todo EXCEPT ![j] = copy_back[pe[j]]]
  /\ copy_back' = [copy_back EXCEPT ![pe[j]] = <<>>]
  /\ Goto(j, "copyback")
  /\ UNCHANGED <<pools, hw, allocated, pe, params, starts, errors, launched>>

EndRelease(j) == Goto(j, IF pe[j] = None THEN "idle" ELSE "ready")

\* handle_copyback, one entry per step: copy the results, free the region
CopyBack(j) ==
  /\ pc[j] = "copyback" /\ todo[j] # <<>>
  /\ allocated' = allocated \ {Head(todo[j]).region}
  /\ todo' = [todo EXCEPT ![j] = Tail(@)]
  /\ UNCHANGED <<pools, peVars, hw, pc, pe, params, starts, errors, launched>>

CopiedBack(j) ==
  /\ pc[j] = "copyback" /\ todo[j] = <<>>
  /\ EndRelease(j)
  /\ UNCHANGED <<pools, peVars, hw, allocated, pe, params, todo, starts, errors,
                 launched>>

\* A transfer from the device or a stream fails: the other entries are dropped
CopyBackFails(j) ==
  /\ pc[j] = "copyback" /\ todo[j] # <<>> /\ errors < DmaErrors
  /\ Head(todo[j]).kind \in {"out", "c2h", "h2c"}
  /\ todo' = [todo EXCEPT ![j] = <<>>]
  /\ errors' = errors + 1
  /\ EndRelease(j)
  /\ UNCHANGED <<pools, peVars, hw, allocated, pe, params, starts, launched>>

-----------------------------------------------------------------------------

\* Every client has used its starts and released its PE (keeps the end apart
\* from a deadlock)
Done == /\ \A j \in Clients : pc[j] = "idle" /\ starts[j] = 0
        /\ UNCHANGED vars

JobStep(j) == \/ AllocateArg(j) \/ TransferArg(j) \/ StreamArg(j) \/ Launch(j)
              \/ Release(j) \/ CopyBack(j) \/ CopiedBack(j)

Next == \/ \E j \in Clients : \/ Acquire(j) \/ AcquireFromSingle(j) \/ Start(j)
                               \/ JobStep(j) \/ Wait(j) \/ TryRelease(j) \/ ReleaseKeeping(j)
                               \/ TransferFails(j) \/ CopyBackFails(j)
        \/ \E p \in PEs : Finish(p)
        \/ AcquireSingle \/ ReleaseSingle
        \/ Done

Spec == Init /\ [][Next]_vars

\* A client inside a job goes on and finally releases it (Drop does so at the
\* latest); a started PE finishes.
FairSpec == /\ Spec
            /\ \A j \in Clients : WF_vars(JobStep(j)) /\ SF_vars(Release(j))
            /\ \A p \in PEs : WF_vars(Finish(p))

-----------------------------------------------------------------------------

CopyBacks == [kind : {"in", "out", "c2h", "h2c"}, arg : Nat,
              region : Regions \cup {None}, run : Runs]

TypeOK ==
  /\ pool \subseteq PEs /\ single \subseteq PEs /\ handled \in PEs \cup {None}
  /\ active \in [PEs -> BOOLEAN] /\ eventfd \in [PEs -> Nat]
  /\ copy_back \in [PEs -> Seq(CopyBacks)] /\ todo \in [Clients -> Seq(CopyBacks)]
  /\ running \in [PEs -> Runs \cup {None}]
  /\ content \in [Regions -> Runs \cup {None}]
  /\ allocated \subseteq Regions /\ launched \subseteq Runs
  /\ pc \in [Clients -> {"idle", "ready", "allocate", "transfer", "streams", "launch",
                         "copyback"}]
  /\ pe \in [Clients -> PEs \cup {None}]
  /\ args \in [Clients -> Seq(Kinds)]
  /\ regs \in [Clients -> Seq(Regions \cup {None})] /\ pos \in [Clients -> Nat]
  /\ starts \in [Clients -> 0 .. Starts] /\ errors \in Nat

\* A PE is in exactly one place: in the scheduler's pool, with its single-PE
\* handler, or with one job.
PEsConserved ==
  /\ TypeOK
  /\ pool \cap single = {}
  /\ \A p \in PEs : p \in pool \cup single <=> ~ \E j \in Clients : pe[j] = p
  /\ \A j, k \in Clients : pe[j] = pe[k] /\ pe[j] # None => j = k

\* A PE that can be acquired carries nothing of its last job: it is not
\* running, no interrupt is pending that the next job could take for its own,
\* and no copy back is left that the next job would perform.
PooledPEsClean ==
  \A p \in pool \cup single : /\ ~ active[p] /\ running[p] = None
                             /\ eventfd[p] = 0 /\ copy_back[p] = <<>>

\* A job copies back its own results: the PE has finished the run, and no
\* other job has been given the region, although the PE is handed on before
\* the copy.
OwnResults ==
  \A j \in Clients :
    pc[j] = "copyback" /\ todo[j] # <<>> =>
      LET e == Head(todo[j])
      IN e.kind = "out" /\ e.run \in launched => content[e.region] = e.run

\* The parameters whose region only the job's start knows: no copy back was
\* left for them yet
InStart(j) == {i \in DOMAIN regs[j] : pc[j] = "allocate" \/ (pc[j] = "transfer" /\ i >= pos[j])}

\* The device memory a client's job or a PE still refers to.
Referenced ==
  {r \in Regions : \/ \E j \in Clients : \E i \in InStart(j) : r = regs[j][i]
                   \/ \E p \in PEs : \E e \in Entries(copy_back[p]) : r = e.region
                   \/ \E j \in Clients : \E e \in Entries(todo[j]) : r = e.region}

\* Without an error no device memory leaks, and at any time what is to be
\* freed is allocated.
MemoryTracked == /\ Referenced \subseteq allocated
                 /\ errors = 0 => allocated = Referenced

\* A PE is in exactly one place and carries nothing of its last job when it can
\* be acquired, and device memory that is to be freed is allocated, and none
\* else when no error occurred.
ResourcesTracked == PEsConserved /\ PooledPEsClean /\ MemoryTracked

\* Every job ends.
JobsEnd == \A j \in Clients : pc[j] # "idle" ~> pc[j] = "idle"

\* "Order is maintained according to the original argument list": the
\* memories release returns are in the order of the arguments.
ReturnOrder ==
  \A j \in Clients : \A k, l \in DOMAIN todo[j] :
    /\ k < l /\ todo[j][k].run = todo[j][l].run
    /\ todo[j][k].kind # "in" /\ todo[j][l].kind # "in"
    => todo[j][k].arg < todo[j][l].arg
=============================================================================
