------------------------- MODULE JobSchedulerProofs -------------------------
(***************************************************************************)
(* The jobs of libtapasco lose no PE and no device memory and copy back    *)
(* their own results, for any clients, PEs, regions and argument lists.    *)
(*                                                                         *)
(* What the properties say of PEs that can be acquired and of the next     *)
(* copy back rests on more than that: an interrupt only comes to an active *)
(* PE, the copy backs of a PE belong to the job that has it, a region is   *)
(* referred to once, and a finished run has left its results in the        *)
(* regions its copy backs name.                                            *)
(***************************************************************************)
EXTENDS JobScheduler, TLAPS

\* A leaf is proved with Zenon unless it names another prover.
USE Zenon

Loops == {"allocate", "transfer", "streams"}
Starting == Loops \cup {"launch"}

\* Where a job stands: the PE it has, the loop of its start, its copy backs.
Stage(j) ==
  /\ pc[j] \in Starting \cup {"ready"} => pe[j] \in PEs
  /\ pc[j] = "idle" => pe[j] = None
  /\ todo[j] # <<>> => pc[j] = "copyback"
  /\ pc[j] \in Loops => pos[j] \in 1 .. Len(args[j])
  /\ pc[j] = "allocate" => Len(regs[j]) = pos[j] - 1
  /\ pc[j] \in Starting \ {"allocate"} => Len(regs[j]) = Len(args[j])
  /\ Len(regs[j]) <= Len(args[j])
  /\ \A i \in DOMAIN regs[j] : NeedsRegion(args[j][i]) <=> regs[j][i] # None

\* A run and its interrupt.
Hardware(p) ==
  /\ running[p] # None => active[p] /\ eventfd[p] = 0
  /\ eventfd[p] # 0 => active[p]

\* Where the PEs are; an idle one has no copy back left.
Owned ==
  /\ pool \cap single = {} /\ single \subseteq {handled}
  /\ \A p \in PEs : p \in pool \cup single <=> ~ \E j \in Clients : pe[j] = p
  /\ \A j, k \in Clients : pe[j] = pe[k] /\ pe[j] # None => j = k
  /\ \A p \in pool \cup single : ~ active[p] /\ copy_back[p] = <<>>

\* The runs that were started are not those of a start in progress.
Launched ==
  \A j \in Clients : \A s \in 0 .. Starts :
    <<j, s>> \in launched => s >= starts[j] /\ (pc[j] \in Starting => s > starts[j])

\* The copy backs of a PE and of a job are those of the job's runs.
Mine == /\ \A p \in PEs : \A e \in Entries(copy_back[p]) : pe[e.run[1]] = p
        /\ \A j \in Clients : \A e \in Entries(todo[j]) : e.run[1] = j

\* The regions of a start and of a list of copy backs, and that no two of them
\* are the same.
StartRegions(j) == {regs[j][i] : i \in InStart(j)} \ {None}
ListRegions(s) == {e.region : e \in Entries(s)} \ {None}
StartOnce(j) == \A i, k \in InStart(j) : regs[j][i] = regs[j][k] /\ regs[j][i] # None => i = k
ListOnce(s) == \A k, l \in DOMAIN s : s[k].region = s[l].region /\ s[k].region # None => k = l
Placed(s) == \A e \in Entries(s) : e.region # None <=> NeedsRegion(e.kind)

RegionsOnce ==
  /\ \A j \in Clients : StartOnce(j) /\ ListOnce(todo[j]) /\ Placed(todo[j])
  /\ \A p \in PEs : ListOnce(copy_back[p]) /\ Placed(copy_back[p])

Disjoint ==
  /\ \A j, k \in Clients : j # k => /\ StartRegions(j) \cap StartRegions(k) = {}
                                    /\ ListRegions(todo[j]) \cap ListRegions(todo[k]) = {}
  /\ \A p, q \in PEs : p # q => ListRegions(copy_back[p]) \cap ListRegions(copy_back[q]) = {}
  /\ \A j \in Clients, p \in PEs :
       /\ StartRegions(j) \cap ListRegions(copy_back[p]) = {}
       /\ ListRegions(todo[j]) \cap ListRegions(copy_back[p]) = {}
  /\ \A j, k \in Clients : StartRegions(j) \cap ListRegions(todo[k]) = {}

\* What is referred to is allocated; without errors the reverse holds as well.
Refers(r) == \/ \E j \in Clients : r \in StartRegions(j) \cup ListRegions(todo[j])
             \/ \E p \in PEs : r \in ListRegions(copy_back[p])
Tracked == /\ \A r \in Regions : Refers(r) => r \in allocated
           /\ errors = 0 => \A r \in allocated : Refers(r)

\* The results of the runs that are over.
Results ==
  /\ \A p \in PEs : \A e \in Entries(copy_back[p]) :
       e.kind = "out" /\ e.run \in launched /\ e.run # running[p] => content[e.region] = e.run
  /\ \A j \in Clients : \A e \in Entries(todo[j]) :
       e.kind = "out" /\ e.run \in launched => content[e.region] = e.run

JInv == /\ TypeOK /\ (\A j \in Clients : Stage(j)) /\ (\A p \in PEs : Hardware(p))
        /\ Owned /\ Launched /\ Mine /\ RegionsOnce /\ Disjoint /\ Tracked /\ Results


-----------------------------------------------------------------------------
(* Types *)

\* The copy back that is added for a parameter is one.
LEMMA EntryTypes ==
  ASSUME TypeOK, NEW j \in Clients, Stage(j), NEW i \in DOMAIN args[j],
         pc[j] \in Starting \ {"allocate"}, args[j][i] \in {"in", "out", "c2h", "h2c"}
  PROVE  /\ i \in DOMAIN regs[j] /\ pe[j] \in PEs /\ i \in Nat /\ Run(j) \in Runs
         /\ [kind |-> args[j][i], arg |-> i, region |-> regs[j][i], run |-> Run(j)] \in CopyBacks
<1>1. /\ args[j] \in Seq(Kinds) /\ regs[j] \in Seq(Regions \cup {None})
      /\ starts[j] \in 0 .. Starts
  BY DEF TypeOK
<1>2. Len(regs[j]) = Len(args[j]) /\ pe[j] \in PEs
  BY DEF Stage, Starting, Loops
<1>3. i \in Nat /\ i \in DOMAIN regs[j] /\ regs[j][i] \in Regions \cup {None}
  BY SMT, <1>1, <1>2
<1>4. Run(j) \in Runs
  BY <1>1 DEF Run, Runs
<1> QED
  BY <1>2, <1>3, <1>4 DEF CopyBacks

\* Adding it keeps the types of the copy backs.
LEMMA AddTypes ==
  ASSUME TypeOK, NEW j \in Clients, Stage(j), NEW i \in DOMAIN args[j],
         pc[j] \in Starting \ {"allocate"}, args[j][i] \in {"in", "out", "c2h", "h2c"},
         AddCopyback(j, i)
  PROVE  copy_back' \in [PEs -> Seq(CopyBacks)]
<1> DEFINE e == [kind |-> args[j][i], arg |-> i, region |-> regs[j][i], run |-> Run(j)]
<1>1. e \in CopyBacks /\ pe[j] \in PEs
  BY EntryTypes
<1>2. copy_back' = [copy_back EXCEPT ![pe[j]] = Append(copy_back[pe[j]], e)]
  BY DEF AddCopyback
<1> HIDE DEF e
<1>3. copy_back \in [PEs -> Seq(CopyBacks)]
  BY DEF TypeOK
<1>4. Append(copy_back[pe[j]], e) \in Seq(CopyBacks)
  BY SMT, <1>1, <1>3
<1> QED
  BY <1>1, <1>2, <1>3, <1>4

\* The next parameter or the next loop.
LEMMA NextArgTypes ==
  ASSUME TypeOK, NEW j \in Clients, pc[j] \in Loops, NextArg(j)
  PROVE  /\ pos' \in [Clients -> Nat]
         /\ pc' \in [Clients -> {"idle", "ready", "allocate", "transfer", "streams", "launch",
                                 "copyback"}]
<1>1. AfterLoop(pc[j]) \in {"transfer", "streams", "launch"}
  BY DEF AfterLoop, Loops
<1>2. pos \in [Clients -> Nat] /\ pos[j] + 1 \in Nat
  BY SMT DEF TypeOK
<1>3. pos' \in [Clients -> Nat]
  BY SMT, <1>2 DEF NextArg
<1>4. pc' = pc \/ pc' = [pc EXCEPT ![j] = AfterLoop(pc[j])]
  BY DEF NextArg, Goto
<1> QED
  BY <1>1, <1>3, <1>4 DEF TypeOK

LEMMA EndStartTypes ==
  ASSUME TypeOK, NEW j \in Clients, EndStart(j)
  PROVE  /\ pos' \in [Clients -> Nat] /\ args' \in [Clients -> Seq(Kinds)]
         /\ regs' \in [Clients -> Seq(Regions \cup {None})]
         /\ pc' \in [Clients -> {"idle", "ready", "allocate", "transfer", "streams", "launch",
                                 "copyback"}]
<1>1. <<>> \in Seq(Kinds) /\ <<>> \in Seq(Regions \cup {None})
  BY SMT
<1> QED
  BY <1>1 DEF TypeOK, EndStart, Goto


LEMMA CompletedTypes ==
  ASSUME TypeOK, NEW p, Completed(p)
  PROVE  active' \in [PEs -> BOOLEAN] /\ eventfd' \in [PEs -> Nat]
<1>1. active' = active \/ active' = [active EXCEPT ![p] = FALSE]
  BY DEF Completed
<1>2. eventfd' = eventfd \/ eventfd' = [eventfd EXCEPT ![p] = 0]
  BY DEF Completed
<1>3. active \in [PEs -> BOOLEAN] /\ eventfd \in [PEs -> Nat]
  BY DEF TypeOK
<1>4. active' \in [PEs -> BOOLEAN]
  BY <1>1, <1>3
<1>5. eventfd' \in [PEs -> Nat]
  BY SMT, <1>2, <1>3
<1> QED
  BY <1>4, <1>5

\* Every step keeps the types.
LEMMA TypesKept == JInv /\ Next => TypeOK'
<1> SUFFICES ASSUME JInv, Next PROVE TypeOK'
  OBVIOUS
<1>t. TypeOK /\ \A k \in Clients : Stage(k)
  BY DEF JInv
<1>a. ASSUME NEW j \in Clients, Acquire(j) \/ AcquireFromSingle(j) PROVE TypeOK'
  <2>1. /\ pool' \subseteq pool /\ single' \subseteq single
        /\ \E p \in pool \cup single : pe' = [pe EXCEPT ![j] = p]
        /\ pc' = [pc EXCEPT ![j] = "ready"]
    BY <1>a DEF Acquire, AcquireFromSingle, Goto
  <2>2. UNCHANGED <<handled, active, eventfd, copy_back, todo, running, content, allocated,
                    launched, args, regs, pos, starts, errors>>
    BY <1>a DEF Acquire, AcquireFromSingle, peVars, hw, params
  <2>3. pool' \subseteq PEs /\ single' \subseteq PEs
    BY <1>t, <2>1 DEF TypeOK
  <2>4. pe' \in [Clients -> PEs \cup {None}]
    BY <1>t, <2>1 DEF TypeOK
  <2> QED
    BY <1>t, <2>1, <2>2, <2>3, <2>4 DEF TypeOK
<1>b. CASE AcquireSingle \/ ReleaseSingle
  BY <1>b, <1>t DEF TypeOK, AcquireSingle, ReleaseSingle, peVars, hw, params
<1>c. ASSUME NEW j \in Clients, Start(j) PROVE TypeOK'
  <2>1. PICK l \in ParamLists : /\ args' = [args EXCEPT ![j] = l]
                                /\ Goto(j, IF l = <<>> THEN "launch" ELSE "allocate")
    BY <1>c DEF Start
  <2>2. l \in Seq(Kinds) /\ <<>> \in Seq(Regions \cup {None})
    BY SMT, JobAssumption
  <2>3. starts[j] - 1 \in 0 .. Starts
    BY SMTT(20), <1>c, <1>t, JobAssumption DEF TypeOK, Start
  <2> QED
    BY <1>c, <1>t, <2>1, <2>2, <2>3 DEF TypeOK, Start, Goto, pools, peVars, hw
<1>d. ASSUME NEW j \in Clients, AllocateArg(j) PROVE TypeOK'
  <2>1. PICK i \in DOMAIN args[j] : AtArg(j, "allocate", i)
    BY <1>d DEF AllocateArg
  <2>2. pc[j] \in Loops
    BY <2>1 DEF AtArg, Loops
  <2>3. UNCHANGED <<pools, peVars, hw, pe, todo, starts, launched>>
    BY <1>d DEF AllocateArg
  <2>4. CASE EndStart(j) /\ errors' = errors + 1 /\ UNCHANGED allocated
    <3>1. errors' \in Nat
      BY SMT, <1>t, <2>4 DEF TypeOK
    <3> QED
      BY <1>t, <2>3, <2>4, <3>1, EndStartTypes DEF TypeOK, pools, peVars, hw
  <2>5. ASSUME NEW r \in Regions \cup {None}, allocated' \in {allocated, allocated \cup ({r} \ {None})},
               regs' = [regs EXCEPT ![j] = Append(@, r)], NextArg(j), UNCHANGED <<args, errors>>
        PROVE  TypeOK'
    <3>1. Append(regs[j], r) \in Seq(Regions \cup {None})
      BY SMT, <1>t DEF TypeOK
    <3>2. regs' \in [Clients -> Seq(Regions \cup {None})]
      BY <1>t, <2>5, <3>1 DEF TypeOK
    <3>3. allocated' \subseteq Regions
      BY SMT, <1>t, <2>5 DEF TypeOK
    <3> QED
      BY <1>t, <2>2, <2>3, <2>5, <3>2, <3>3, NextArgTypes DEF TypeOK, pools, peVars, hw
  <2>6. \A r \in Regions : {r} \ {None} = {r}
    BY JobAssumption
  <2> QED
    BY <1>d, <2>4, <2>5, <2>6 DEF AllocateArg
<1>e. ASSUME NEW j \in Clients, TransferArg(j) PROVE TypeOK'
  <2>1. PICK i \in DOMAIN args[j] :
          /\ AtArg(j, "transfer", i) /\ NextArg(j)
          /\ \/ NeedsRegion(args[j][i]) /\ AddCopyback(j, i)
             \/ ~ NeedsRegion(args[j][i]) /\ UNCHANGED copy_back
          /\ UNCHANGED <<pools, active, eventfd, hw, allocated, pe, args, regs, todo,
                         starts, errors, launched>>
    BY <1>e DEF TransferArg
  <2>2. pc[j] \in Starting \ {"allocate"} /\ pc[j] \in Loops
    BY <2>1 DEF AtArg, Starting, Loops
  <2>3. copy_back' \in [PEs -> Seq(CopyBacks)]
    <3>1. CASE NeedsRegion(args[j][i]) /\ AddCopyback(j, i)
      BY <1>t, <2>2, <3>1, AddTypes DEF NeedsRegion
    <3> QED
      BY <1>t, <2>1, <3>1 DEF TypeOK
  <2> QED
    BY <1>t, <2>1, <2>2, <2>3, NextArgTypes DEF TypeOK, pools, hw
<1>f. ASSUME NEW j \in Clients, StreamArg(j) PROVE TypeOK'
  <2>1. PICK i \in DOMAIN args[j] : 
          /\ AtArg(j, "streams", i)
          /\ \/ NextArg(j) /\ UNCHANGED <<copy_back, args, regs, errors>>
             \/ /\ args[j][i] \in {"c2h", "h2c"} /\ AddCopyback(j, i) /\ NextArg(j)
                /\ UNCHANGED <<args, regs, errors>>
             \/ EndStart(j) /\ errors' = errors + 1 /\ UNCHANGED copy_back
          /\ UNCHANGED <<pools, active, eventfd, hw, allocated, pe, todo, starts, launched>>
    BY <1>f DEF StreamArg
  <2>2. pc[j] \in Starting \ {"allocate"} /\ pc[j] \in Loops
    BY <2>1 DEF AtArg, Starting, Loops
  <2>3. CASE NextArg(j) /\ UNCHANGED <<copy_back, args, regs, errors>>
    BY <1>t, <2>1, <2>2, <2>3, NextArgTypes DEF TypeOK, pools, hw
  <2>4. CASE /\ args[j][i] \in {"c2h", "h2c"} /\ AddCopyback(j, i) /\ NextArg(j)
             /\ UNCHANGED <<args, regs, errors>>
    <3>1. copy_back' \in [PEs -> Seq(CopyBacks)]
      BY <1>t, <2>2, <2>4, AddTypes
    <3> QED
      BY <1>t, <2>1, <2>2, <2>4, <3>1, NextArgTypes DEF TypeOK, pools, hw
  <2>5. CASE EndStart(j) /\ errors' = errors + 1 /\ UNCHANGED copy_back
    <3>1. errors' \in Nat
      BY SMT, <1>t, <2>5 DEF TypeOK
    <3> QED
      BY <1>t, <2>1, <2>5, <3>1, EndStartTypes DEF TypeOK, pools, hw
  <2> QED
    BY <2>1, <2>3, <2>4, <2>5
<1>g. ASSUME NEW j \in Clients, Launch(j) PROVE TypeOK'
  <2>1. Run(j) \in Runs
    BY <1>t DEF TypeOK, Run, Runs
  <2>2. /\ active' \in [PEs -> BOOLEAN] /\ running' \in [PEs -> Runs \cup {None}]
        /\ launched' \subseteq Runs
    <3>1. /\ \/ active' = active \/ active' = [active EXCEPT ![pe[j]] = TRUE]
          /\ \/ running' = running \/ running' = [running EXCEPT ![pe[j]] = Run(j)]
          /\ \/ launched' = launched \/ launched' = launched \cup {Run(j)}
      BY <1>g DEF Launch
    <3>2. /\ active \in [PEs -> BOOLEAN] /\ running \in [PEs -> Runs \cup {None}]
          /\ launched \subseteq Runs
      BY <1>t DEF TypeOK
    <3> QED
      BY <2>1, <3>1, <3>2
  <2>3. errors' \in Nat
    BY SMTT(20), <1>g, <1>t DEF TypeOK, Launch
  <2> QED
    BY <1>g, <1>t, <2>2, <2>3, EndStartTypes DEF TypeOK, Launch, pools
<1>h. ASSUME NEW j \in Clients, TransferFails(j) PROVE TypeOK'
  <2>1. errors' \in Nat /\ EndStart(j)
    BY SMT, <1>h, <1>t DEF TypeOK, TransferFails
  <2> QED
    BY <1>h, <1>t, <2>1, EndStartTypes DEF TypeOK, TransferFails, pools, peVars, hw
<1>i. ASSUME NEW j \in Clients, Wait(j) PROVE TypeOK'
  <2>1. active' \in [PEs -> BOOLEAN] /\ eventfd' \in [PEs -> Nat]
    BY <1>i, <1>t, CompletedTypes DEF Wait
  <2> QED
    BY <1>i, <1>t, <2>1 DEF TypeOK, Wait, pools, hw, params
<1>k. ASSUME NEW j \in Clients, Release(j) \/ ReleaseKeeping(j) PROVE TypeOK'
  <2>1. pe[j] \in PEs /\ <<>> \in Seq(CopyBacks) /\ copy_back[pe[j]] \in Seq(CopyBacks)
    BY SMT, <1>k, <1>t DEF TypeOK, Release, ReleaseKeeping, Stage
  <2>5. /\ todo' = [todo EXCEPT ![j] = copy_back[pe[j]]]
        /\ copy_back' = [copy_back EXCEPT ![pe[j]] = <<>>]
        /\ pe' = pe \/ pe' = [pe EXCEPT ![j] = None]
    BY <1>k DEF Release, ReleaseKeeping
  <2>2. /\ todo' \in [Clients -> Seq(CopyBacks)] /\ copy_back' \in [PEs -> Seq(CopyBacks)]
        /\ pe' \in [Clients -> PEs \cup {None}]
    BY <1>t, <2>1, <2>5 DEF TypeOK
  <2>3. active' \in [PEs -> BOOLEAN] /\ eventfd' \in [PEs -> Nat]
    BY <1>k, <1>t, CompletedTypes DEF Release, ReleaseKeeping
  <2>4. pool' \subseteq PEs /\ single' \subseteq PEs /\ handled' \in PEs \cup {None}
    BY SMT, <1>k, <1>t, <2>1 DEF TypeOK, Release, ReleaseKeeping, GiveBack, pools
  <2> QED
    BY <1>k, <1>t, <2>2, <2>3, <2>4 DEF TypeOK, Release, ReleaseKeeping, Goto, hw, params
<1>l. ASSUME NEW j \in Clients, CopyBack(j) PROVE TypeOK'
  <2>1. todo[j] \in Seq(CopyBacks) /\ Tail(todo[j]) \in Seq(CopyBacks)
    BY SMT, <1>l, <1>t DEF TypeOK, CopyBack
  <2> QED
    BY <1>l, <1>t, <2>1 DEF TypeOK, CopyBack, pools, peVars, hw, params
<1>m. ASSUME NEW j \in Clients, CopiedBack(j) PROVE TypeOK'
  BY <1>m, <1>t DEF TypeOK, CopiedBack, EndRelease, Goto, pools, peVars, hw, params
<1>n. ASSUME NEW j \in Clients, CopyBackFails(j) PROVE TypeOK'
  <2>1. <<>> \in Seq(CopyBacks) /\ errors' \in Nat
    BY SMT, <1>n, <1>t DEF TypeOK, CopyBackFails
  <2> QED
    BY <1>n, <1>t, <2>1 DEF TypeOK, CopyBackFails, EndRelease, Goto, pools, peVars, hw, params
<1>o. ASSUME NEW p \in PEs, Finish(p) PROVE TypeOK'
  <2>1. eventfd[p] + 1 \in Nat
    BY SMT, <1>t DEF TypeOK
  <2>2. content' \in [Regions -> Runs \cup {None}]
    BY <1>o, <1>t DEF TypeOK, Finish
  <2> QED
    BY <1>o, <1>t, <2>1, <2>2 DEF TypeOK, Finish, pools, params
<1>p. CASE UNCHANGED vars
  BY <1>p, <1>t DEF TypeOK, vars, pools, peVars, hw, params
<1> QED
  BY <1>a, <1>b, <1>c, <1>d, <1>e, <1>f, <1>g, <1>h, <1>i, <1>k, <1>l, <1>m, <1>n, <1>o, <1>p
     DEF Next, JobStep, TryRelease, Done


-----------------------------------------------------------------------------
(* The stages of a job *)

\* What a step does to a job is what it does to the variables of that job.
LEMMA StageSame ==
  ASSUME NEW k \in Clients, Stage(k), pc'[k] = pc[k], pe'[k] = pe[k], todo'[k] = todo[k],
         pos'[k] = pos[k], args'[k] = args[k], regs'[k] = regs[k]
  PROVE  Stage(k)'
BY DEF Stage

LEMMA EndStartStage ==
  ASSUME TypeOK, NEW j \in Clients, pc[j] \in Starting, \A k \in Clients : Stage(k),
         EndStart(j), UNCHANGED <<pe, todo>>, NEW k \in Clients
  PROVE  Stage(k)'
<1>1. CASE k # j
  BY <1>1, StageSame DEF EndStart, Goto, TypeOK
<1>2. CASE k = j
  <2>1. /\ pc'[j] = "ready" /\ args'[j] = <<>> /\ regs'[j] = <<>> /\ pe'[j] = pe[j]
        /\ todo'[j] = todo[j]
    BY DEF EndStart, Goto, TypeOK
  <2>2. pe[j] \in PEs /\ todo[j] = <<>>
    BY DEF Stage, Starting, Loops
  <2>3. Len(<<>>) = 0 /\ DOMAIN <<>> = {}
    BY SMT
  <2> QED
    BY SMT, <1>2, <2>1, <2>2, <2>3 DEF Stage, Starting, Loops
<1> QED
  BY <1>1, <1>2

\* The next parameter, after the loops that leave the regions alone.
LEMMA NextArgStage ==
  ASSUME TypeOK, NEW j \in Clients, pc[j] \in {"transfer", "streams"},
         \A k \in Clients : Stage(k), pos[j] \in DOMAIN args[j],
         NextArg(j), UNCHANGED <<pe, todo, args, regs>>, NEW k \in Clients
  PROVE  Stage(k)'
<1>1. CASE k # j
  <2>1. pc'[k] = pc[k] /\ pos'[k] = pos[k]
    BY <1>1 DEF NextArg, Goto, TypeOK
  <2> QED
    BY <2>1, StageSame
<1>2. CASE k = j
  <2>1. /\ args[j] \in Seq(Kinds) /\ Len(args[j]) \in Nat /\ pos[j] \in 1 .. Len(args[j])
        /\ pos[j] \in Nat
    BY SMTT(20) DEF TypeOK
  <2>2. pos'[j] \in 1 .. Len(args[j])
    BY SMTT(20), <2>1 DEF NextArg, TypeOK
  <2>3. pc'[j] \in {"transfer", "streams", "launch"}
    BY DEF NextArg, Goto, AfterLoop, TypeOK
  <2>4. pe[j] \in PEs /\ todo[j] = <<>> /\ Len(regs[j]) = Len(args[j])
    BY DEF Stage, Starting, Loops
  <2>5. \A i \in DOMAIN regs[j] : NeedsRegion(args[j][i]) <=> regs[j][i] # None
    BY DEF Stage
  <2> QED
    BY <1>2, <2>1, <2>2, <2>3, <2>4, <2>5 DEF Stage, Starting, Loops
<1> QED
  BY <1>1, <1>2

\* Allocating for a parameter.
LEMMA AllocatedStage ==
  ASSUME TypeOK, NEW j \in Clients, AtArg(j, "allocate", pos[j]), NEW r,
         \A k \in Clients : Stage(k), pos[j] \in DOMAIN args[j],
         r # None <=> NeedsRegion(args[j][pos[j]]),
         regs' = [regs EXCEPT ![j] = Append(@, r)],
         NextArg(j), UNCHANGED <<pe, todo, args>>, NEW k \in Clients
  PROVE  Stage(k)'
<1>1. CASE k # j
  <2>1. pc'[k] = pc[k] /\ pos'[k] = pos[k] /\ regs'[k] = regs[k]
    BY <1>1 DEF NextArg, Goto, TypeOK
  <2> QED
    BY <2>1, StageSame
<1>2. CASE k = j
  <2>1. /\ args[j] \in Seq(Kinds) /\ Len(args[j]) \in Nat /\ pos[j] \in 1 .. Len(args[j])
        /\ pos[j] \in Nat /\ regs[j] \in Seq(Regions \cup {None}) /\ pc[j] = "allocate"
    BY SMTT(20) DEF TypeOK, AtArg
  <2>2. pe[j] \in PEs /\ todo[j] = <<>> /\ Len(regs[j]) = pos[j] - 1
    BY <2>1 DEF Stage, Starting, Loops
  <2>3. \A i \in DOMAIN regs[j] : NeedsRegion(args[j][i]) <=> regs[j][i] # None
    BY DEF Stage
  <2>4. regs'[j] = Append(regs[j], r)
    BY DEF TypeOK
  <2>5. /\ Len(regs'[j]) = pos[j] /\ DOMAIN regs'[j] = 1 .. pos[j]
        /\ DOMAIN regs[j] = 1 .. pos[j] - 1
        /\ regs'[j][pos[j]] = r /\ \A i \in 1 .. pos[j] - 1 : regs'[j][i] = regs[j][i]
    BY SMT, <2>1, <2>2, <2>4
  <2>6. \A i \in DOMAIN regs'[j] : NeedsRegion(args[j][i]) <=> regs'[j][i] # None
    BY SMT, <2>1, <2>3, <2>5
  <2>7. CASE pos[j] < Len(args[j])
    <3>1. pos'[j] = pos[j] + 1 /\ pc'[j] = "allocate"
      BY SMTT(20), <2>1, <2>7 DEF NextArg, TypeOK
    <3> QED
      BY SMTT(20), <1>2, <2>1, <2>2, <2>5, <2>6, <2>7, <3>1 DEF Stage, Starting, Loops
  <2>8. CASE pos[j] = Len(args[j])
    <3>1. pos'[j] = 1 /\ pc'[j] = "transfer"
      BY SMT, <2>1, <2>8 DEF NextArg, TypeOK, Goto, AfterLoop
    <3> QED
      BY SMT, <1>2, <2>1, <2>2, <2>5, <2>6, <2>8, <3>1 DEF Stage, Starting, Loops
  <2> QED
    BY SMT, <2>1, <2>7, <2>8
<1> QED
  BY <1>1, <1>2


\* The steps of the loops, at the parameter the loop is at.
LEMMA AllocateCases ==
  ASSUME TypeOK, NEW j \in Clients, AllocateArg(j)
  PROVE  /\ AtArg(j, "allocate", pos[j]) /\ pos[j] \in DOMAIN args[j]
         /\ UNCHANGED <<pools, peVars, hw, pe, todo, starts, launched>>
         /\ \/ EndStart(j) /\ errors' = errors + 1 /\ UNCHANGED allocated
            \/ \E r \in Regions \cup {None} :
                 /\ r # None <=> NeedsRegion(args[j][pos[j]])
                 /\ r \notin allocated /\ allocated' = allocated \cup ({r} \ {None})
                 /\ regs' = [regs EXCEPT ![j] = Append(@, r)]
                 /\ NextArg(j) /\ UNCHANGED <<args, errors>>
<1>1. PICK i \in DOMAIN args[j] :
         /\ AtArg(j, "allocate", i)
         /\ \/ /\ ~ NeedsRegion(args[j][i])
               /\ regs' = [regs EXCEPT ![j] = Append(@, None)] /\ NextArg(j)
               /\ UNCHANGED <<allocated, args, errors>>
            \/ /\ NeedsRegion(args[j][i])
               /\ \E r \in Regions \ allocated :
                    /\ allocated' = allocated \cup {r}
                    /\ regs' = [regs EXCEPT ![j] = Append(@, r)] /\ NextArg(j)
               /\ UNCHANGED <<args, errors>>
            \/ EndStart(j) /\ errors' = errors + 1 /\ UNCHANGED allocated
         /\ UNCHANGED <<pools, peVars, hw, pe, todo, starts, launched>>
  BY DEF AllocateArg
<1>2. i = pos[j] /\ AtArg(j, "allocate", pos[j])
  BY <1>1 DEF AtArg
<1>3. None \notin allocated /\ allocated \cup ({None} \ {None}) = allocated
  BY JobAssumption DEF TypeOK
<1>4. \A r \in Regions : r # None /\ {r} \ {None} = {r}
  BY JobAssumption
<1>5. CASE EndStart(j) /\ errors' = errors + 1 /\ UNCHANGED allocated
  BY <1>1, <1>2, <1>5
<1>6. CASE /\ ~ NeedsRegion(args[j][i])
           /\ regs' = [regs EXCEPT ![j] = Append(@, None)] /\ NextArg(j)
           /\ UNCHANGED <<allocated, args, errors>>
  BY <1>1, <1>2, <1>3, <1>6
<1>7. CASE /\ NeedsRegion(args[j][i])
           /\ \E r \in Regions \ allocated :
                /\ allocated' = allocated \cup {r}
                /\ regs' = [regs EXCEPT ![j] = Append(@, r)] /\ NextArg(j)
           /\ UNCHANGED <<args, errors>>
  BY <1>1, <1>2, <1>4, <1>7
<1> QED
  BY <1>1, <1>5, <1>6, <1>7

LEMMA TransferCases ==
  ASSUME NEW j \in Clients, TransferArg(j)
  PROVE  /\ pc[j] = "transfer" /\ pos[j] \in DOMAIN args[j] /\ NextArg(j)
         /\ UNCHANGED <<pools, active, eventfd, hw, allocated, pe, args, regs, todo,
                        starts, errors, launched>>
         /\ \/ NeedsRegion(args[j][pos[j]]) /\ AddCopyback(j, pos[j])
            \/ ~ NeedsRegion(args[j][pos[j]]) /\ UNCHANGED copy_back
BY DEF TransferArg, AtArg

LEMMA StreamCases ==
  ASSUME NEW j \in Clients, StreamArg(j)
  PROVE  /\ pc[j] = "streams" /\ pos[j] \in DOMAIN args[j]
         /\ UNCHANGED <<pools, active, eventfd, hw, allocated, pe, todo, starts, launched>>
         /\ \/ NextArg(j) /\ UNCHANGED <<copy_back, args, regs, errors>>
            \/ /\ args[j][pos[j]] \in {"c2h", "h2c"} /\ AddCopyback(j, pos[j]) /\ NextArg(j)
               /\ UNCHANGED <<args, regs, errors>>
            \/ EndStart(j) /\ errors' = errors + 1 /\ UNCHANGED copy_back
BY DEF StreamArg, AtArg

\* The start fails in its second loop, or ends with the launch.
LEMMA EndCases ==
  ASSUME NEW j \in Clients, TransferFails(j) \/ Launch(j)
  PROVE  /\ pc[j] \in {"transfer", "launch"} /\ EndStart(j)
         /\ UNCHANGED <<pools, copy_back, eventfd, content, allocated, pe, todo, starts>>
         /\ errors' = errors + 1 \/ (errors' = errors /\ pc[j] = "launch")
BY DEF TransferFails, Launch, AtArg, peVars, hw

\* A job releases its PE or keeps it.
LEMMA ReleaseCases ==
  ASSUME TypeOK, NEW j \in Clients, Stage(j), Release(j) \/ ReleaseKeeping(j)
  PROVE  /\ pc[j] = "ready" /\ pe[j] \in PEs /\ Completed(pe[j]) /\ Goto(j, "copyback")
         /\ todo' = [todo EXCEPT ![j] = copy_back[pe[j]]]
         /\ copy_back' = [copy_back EXCEPT ![pe[j]] = <<>>]
         /\ UNCHANGED <<hw, allocated, params, starts, errors, launched>>
         /\ \/ pe' = pe /\ UNCHANGED pools
            \/ pe' = [pe EXCEPT ![j] = None] /\ GiveBack(pe[j])
BY DEF Release, ReleaseKeeping, Stage

LEMMA StageKept == JInv /\ Next => \A k \in Clients : Stage(k)'
<1> SUFFICES ASSUME JInv, Next, NEW k \in Clients PROVE Stage(k)'
  OBVIOUS
<1>t. TypeOK /\ \A x \in Clients : Stage(x)
  BY DEF JInv
<1>s. \A x \in PEs : x # None
  BY JobAssumption
<1>a. ASSUME NEW j \in Clients, Acquire(j) \/ AcquireFromSingle(j) PROVE Stage(k)'
  <2>1. CASE k # j
    BY <1>a, <1>t, <2>1, StageSame DEF TypeOK, Acquire, AcquireFromSingle, Goto, params
  <2>2. pe'[j] \in PEs /\ pc'[j] = "ready" /\ pc[j] = "idle" /\ UNCHANGED <<todo, params>>
    BY SMT, <1>a, <1>t DEF TypeOK, Acquire, AcquireFromSingle, Goto
  <2>3. CASE k = j
    BY <1>t, <1>s, <2>2, <2>3 DEF Stage, Starting, Loops, params
  <2> QED
    BY <2>1, <2>3
<1>c. ASSUME NEW j \in Clients, Start(j) PROVE Stage(k)'
  <2>1. PICK l \in ParamLists : /\ args' = [args EXCEPT ![j] = l]
                                /\ Goto(j, IF l = <<>> THEN "launch" ELSE "allocate")
    BY <1>c DEF Start
  <2>2. l \in Seq(Kinds) /\ Len(l) \in Nat /\ (l # <<>> => Len(l) > 0) /\ Len(<<>>) = 0
        /\ DOMAIN <<>> = {}
    BY SMT, JobAssumption
  <2>3. CASE k # j
    BY <1>c, <1>t, <2>1, <2>3, StageSame DEF TypeOK, Start, Goto
  <2>4. CASE k = j
    <3>1. pe'[j] = pe[j] /\ pe[j] \in PEs /\ todo'[j] = todo[j] /\ todo[j] = <<>>
      BY <1>c, <1>t DEF Start, Stage
    <3>2. regs'[j] = <<>> /\ pos'[j] = 1 /\ args'[j] = l
          /\ pc'[j] = (IF l = <<>> THEN "launch" ELSE "allocate")
      BY <1>c, <1>t, <2>1 DEF Start, TypeOK, Goto
    <3> QED
      BY SMT, <1>s, <2>2, <2>4, <3>1, <3>2 DEF Stage, Starting, Loops
  <2> QED
    BY <2>3, <2>4
<1>d. ASSUME NEW j \in Clients, AllocateArg(j) PROVE Stage(k)'
  <2>1. /\ AtArg(j, "allocate", pos[j]) /\ pos[j] \in DOMAIN args[j]
        /\ UNCHANGED <<pe, todo>>
    BY <1>d, <1>t, AllocateCases
  <2>2. CASE EndStart(j)
    <3>1. pc[j] \in Starting
      BY <2>1 DEF AtArg, Starting, Loops
    <3> QED
      BY <1>t, <2>1, <2>2, <3>1, EndStartStage
  <2>3. ASSUME NEW r \in Regions \cup {None}, r # None <=> NeedsRegion(args[j][pos[j]]),
               regs' = [regs EXCEPT ![j] = Append(@, r)], NextArg(j), UNCHANGED <<args, errors>>
        PROVE  Stage(k)'
    BY <1>t, <2>1, <2>3, AllocatedStage
  <2> QED
    BY <1>d, <1>t, <2>2, <2>3, AllocateCases
<1>e. ASSUME NEW j \in Clients, TransferArg(j) PROVE Stage(k)'
  <2>1. /\ pc[j] \in {"transfer", "streams"} /\ pos[j] \in DOMAIN args[j] /\ NextArg(j)
        /\ UNCHANGED <<pe, todo, args, regs>>
    BY <1>e, TransferCases
  <2> QED
    BY <1>t, <2>1, NextArgStage
<1>f. ASSUME NEW j \in Clients, StreamArg(j) PROVE Stage(k)'
  <2>1. pc[j] = "streams" /\ pos[j] \in DOMAIN args[j] /\ UNCHANGED <<pe, todo>>
    BY <1>f, StreamCases
  <2>2. CASE EndStart(j)
    BY <1>t, <2>1, <2>2, EndStartStage DEF Starting, Loops
  <2>3. CASE NextArg(j) /\ UNCHANGED <<args, regs>>
    BY <1>t, <2>1, <2>3, NextArgStage
  <2> QED
    BY <1>f, <2>2, <2>3, StreamCases
<1>g. ASSUME NEW j \in Clients, TransferFails(j) \/ Launch(j) PROVE Stage(k)'
  <2>1. pc[j] \in Starting /\ EndStart(j) /\ UNCHANGED <<pe, todo>>
    BY <1>g, EndCases DEF Starting, Loops
  <2> QED
    BY <1>t, <2>1, EndStartStage
<1>h. ASSUME NEW j \in Clients, Release(j) \/ ReleaseKeeping(j) PROVE Stage(k)'
  <2>1. /\ pc' = [pc EXCEPT ![j] = "copyback"] /\ todo' = [todo EXCEPT ![j] = copy_back[pe[j]]]
        /\ pe' = pe \/ pe' = [pe EXCEPT ![j] = None]
        /\ UNCHANGED params
    BY <1>h, <1>t, ReleaseCases DEF Goto
  <2>2. CASE k # j
    BY <1>t, <2>1, <2>2, StageSame DEF TypeOK, params
  <2>3. CASE k = j
    BY <1>t, <2>1, <2>3 DEF Stage, Starting, Loops, TypeOK, params
  <2> QED
    BY <2>2, <2>3
<1>i. ASSUME NEW j \in Clients, CopyBack(j) PROVE Stage(k)'
  <2>1. pc[j] = "copyback" /\ todo' = [todo EXCEPT ![j] = Tail(@)] /\ UNCHANGED <<pc, pe, params>>
    BY <1>i DEF CopyBack
  <2>2. CASE k # j
    BY <1>t, <2>1, <2>2, StageSame DEF TypeOK, params
  <2>3. CASE k = j
    BY <1>t, <2>1, <2>3 DEF Stage, params
  <2> QED
    BY <2>2, <2>3
<1>k. ASSUME NEW j \in Clients, CopiedBack(j) \/ CopyBackFails(j) PROVE Stage(k)'
  <2>1. /\ pc[j] = "copyback" /\ pc' = [pc EXCEPT ![j] = IF pe[j] = None THEN "idle" ELSE "ready"]
        /\ todo' = [todo EXCEPT ![j] = <<>>] /\ UNCHANGED <<pe, params>>
    BY SMTT(20), <1>k, <1>t DEF CopiedBack, CopyBackFails, EndRelease, Goto, TypeOK
  <2>2. CASE k # j
    BY <1>t, <2>1, <2>2, StageSame DEF TypeOK, params
  <2>3. CASE k = j
    BY <1>t, <2>1, <2>3 DEF Stage, Starting, Loops, TypeOK, params
  <2> QED
    BY <2>2, <2>3
<1>l. CASE UNCHANGED <<pc, pe, params, todo>>
  BY <1>t, <1>l, StageSame DEF params
<1>m. ASSUME NEW j \in Clients, Wait(j) \/ TryRelease(j) PROVE Stage(k)'
  BY <1>l, <1>m DEF Wait, TryRelease, vars
<1>n. (\E p \in PEs : Finish(p)) \/ AcquireSingle \/ ReleaseSingle \/ Done => Stage(k)'
  BY <1>l DEF Finish, AcquireSingle, ReleaseSingle, Done, vars
<1> QED
  BY <1>a, <1>c, <1>d, <1>e, <1>f, <1>g, <1>h, <1>i, <1>k, <1>m, <1>n DEF Next, JobStep


-----------------------------------------------------------------------------
(* The PEs *)

\* A run and its interrupt: Launch only starts an idle PE, Completed takes the
\* interrupt of a run that is over.
LEMMA HardwareKept == JInv /\ Next => \A p \in PEs : Hardware(p)'
<1> SUFFICES ASSUME JInv, Next, NEW p \in PEs PROVE Hardware(p)'
  OBVIOUS
<1>t. TypeOK /\ Hardware(p) /\ \A x \in Clients : Stage(x)
  BY DEF JInv
<1>u. eventfd[p] \in Nat /\ active \in [PEs -> BOOLEAN] /\ running \in [PEs -> Runs \cup {None}]
      /\ eventfd \in [PEs -> Nat]
  BY <1>t DEF TypeOK
<1>a. CASE UNCHANGED <<active, running, eventfd>>
  BY <1>a, <1>t DEF Hardware
<1>b. ASSUME NEW q \in PEs, Completed(q), UNCHANGED running PROVE Hardware(p)'
  <2>1. CASE p # q
    BY <1>b, <1>t, <1>u, <2>1 DEF Hardware, Completed
  <2>2. CASE p = q /\ active[p] /\ eventfd[p] > 0
    <3>1. eventfd'[p] = 0 /\ running[p] = None
      BY SMT, <1>b, <1>t, <1>u, <2>2 DEF Hardware, Completed
    <3> QED
      BY <1>b, <3>1 DEF Hardware
  <2>3. CASE p = q /\ ~ active[p]
    BY <1>b, <1>a, <2>3 DEF Completed
  <2> QED
    BY <1>b, <2>1, <2>2, <2>3 DEF Completed
<1>c. ASSUME NEW j \in Clients, Launch(j) PROVE Hardware(p)'
  <2>1. CASE ~ active[pe[j]] /\ active' = [active EXCEPT ![pe[j]] = TRUE]
             /\ running' = [running EXCEPT ![pe[j]] = Run(j)] /\ UNCHANGED eventfd
    <3>1. CASE p # pe[j]
      BY <1>t, <1>u, <2>1, <3>1 DEF Hardware
    <3>2. CASE p = pe[j]
      <4>1. active'[p] = TRUE /\ eventfd'[p] = 0
        BY <1>t, <1>u, <2>1, <3>2 DEF Hardware
      <4> QED
        BY <4>1 DEF Hardware
    <3> QED
      BY <3>1, <3>2
  <2> QED
    BY <1>a, <1>c, <2>1 DEF Launch
<1>d. ASSUME NEW q \in PEs, Finish(q) PROVE Hardware(p)'
  <2>1. /\ running[q] # None /\ running' = [running EXCEPT ![q] = None]
        /\ eventfd' = [eventfd EXCEPT ![q] = @ + 1] /\ UNCHANGED active
    BY <1>d DEF Finish
  <2>2. CASE p # q
    BY <1>t, <1>u, <2>1, <2>2 DEF Hardware
  <2>3. CASE p = q
    BY <1>t, <1>u, <2>1, <2>3 DEF Hardware
  <2> QED
    BY <2>2, <2>3
<1>e. ASSUME NEW j \in Clients, Wait(j) PROVE Hardware(p)'
  <2>1. pe[j] \in PEs
    BY <1>e, <1>t DEF Wait, Stage
  <2> QED
    BY <1>b, <1>e, <2>1 DEF Wait, hw
<1>f. ASSUME NEW j \in Clients, Release(j) \/ ReleaseKeeping(j) PROVE Hardware(p)'
  <2>1. pe[j] \in PEs /\ Completed(pe[j]) /\ UNCHANGED running
    BY <1>f, <1>t, ReleaseCases DEF hw
  <2> QED
    BY <1>b, <2>1
<1>g. ASSUME NEW j \in Clients, AllocateArg(j) \/ TransferArg(j) \/ StreamArg(j) PROVE Hardware(p)'
  <2>1. UNCHANGED <<active, running, eventfd>>
    BY <1>g, <1>t, AllocateCases, TransferCases, StreamCases DEF hw, peVars
  <2> QED
    BY <1>a, <2>1
<1>h. ASSUME NEW j \in Clients,
             \/ Acquire(j) \/ AcquireFromSingle(j) \/ Start(j) \/ TryRelease(j) \/ CopyBack(j)
             \/ CopiedBack(j) \/ TransferFails(j) \/ CopyBackFails(j)
      PROVE  Hardware(p)'
  <2>1. UNCHANGED <<active, running, eventfd>>
    BY <1>h DEF Acquire, AcquireFromSingle, Start, TryRelease, CopyBack, CopiedBack,
                TransferFails, CopyBackFails, hw, peVars, vars
  <2> QED
    BY <1>a, <2>1
<1>i. AcquireSingle \/ ReleaseSingle \/ Done => Hardware(p)'
  BY <1>a DEF AcquireSingle, ReleaseSingle, Done, hw, peVars, vars
<1> QED
  BY <1>c, <1>d, <1>e, <1>f, <1>g, <1>h, <1>i DEF Next, JobStep

\* Where the PEs are depends on the pools and on the jobs, and on what an idle
\* PE has left.
LEMMA OwnedSame ==
  ASSUME TypeOK, Owned, UNCHANGED <<pool, single, handled, pe>>,
         \A p \in PEs : (~ \E j \in Clients : pe[j] = p) =>
                          active'[p] = active[p] /\ copy_back'[p] = copy_back[p]
  PROVE  Owned'
<1>1. pool \subseteq PEs /\ single \subseteq PEs
  BY DEF TypeOK
<1>2. \A p \in PEs : p \in pool \cup single <=> ~ \E j \in Clients : pe[j] = p
  BY DEF Owned
<1>3. \A p \in pool \cup single : active'[p] = active[p] /\ copy_back'[p] = copy_back[p]
  BY <1>1, <1>2
<1> QED
  BY <1>3 DEF Owned

LEMMA OwnedKept == JInv /\ Next => Owned'
<1> SUFFICES ASSUME JInv, Next PROVE Owned'
  OBVIOUS
<1>t. TypeOK /\ Owned /\ \A x \in Clients : Stage(x)
  BY DEF JInv
<1>s. None \notin PEs
  BY JobAssumption
<1>u. /\ pool \subseteq PEs /\ single \subseteq PEs /\ pe \in [Clients -> PEs \cup {None}]
      /\ active \in [PEs -> BOOLEAN] /\ copy_back \in [PEs -> Seq(CopyBacks)]
  BY <1>t DEF TypeOK
<1>v. /\ pool \cap single = {} /\ single \subseteq {handled}
      /\ \A p \in PEs : p \in pool \cup single <=> ~ \E j \in Clients : pe[j] = p
      /\ \A j, k \in Clients : pe[j] = pe[k] /\ pe[j] # None => j = k
      /\ \A p \in pool \cup single : ~ active[p] /\ copy_back[p] = <<>>
  BY <1>t DEF Owned
<1>a. ASSUME NEW j \in Clients, Acquire(j) \/ AcquireFromSingle(j) PROVE Owned'
  <2>1. PICK p \in pool \cup single :
           /\ pool' = pool \ {p} /\ single' = single \ {p} /\ pe' = [pe EXCEPT ![j] = p]
    BY SMT, <1>a, <1>v DEF Acquire, AcquireFromSingle
  <2>2. pe[j] = None /\ UNCHANGED <<active, copy_back, handled>>
    BY <1>a, <1>t DEF Acquire, AcquireFromSingle, Stage, peVars
  <2>3. p \in PEs /\ \A k \in Clients : pe[k] # p
    BY <1>u, <1>v, <2>1
  <2>4. pool' \cap single' = {} /\ single' \subseteq {handled'}
    BY <1>v, <2>1, <2>2
  <2>5. pe'[j] = p /\ \A k \in Clients : k # j => pe'[k] = pe[k]
    BY <1>u, <2>1
  <2>6. \A q \in PEs : q \in pool' \cup single' <=> ~ \E k \in Clients : pe'[k] = q
    <3> SUFFICES ASSUME NEW q \in PEs
                 PROVE  q \in pool' \cup single' <=> ~ \E k \in Clients : pe'[k] = q
      OBVIOUS
    <3>1. CASE q = p
      BY <2>1, <2>5, <3>1
    <3>2. CASE q # p
      BY SMT, <1>s, <1>v, <2>1, <2>2, <2>5, <3>2
    <3> QED
      BY <3>1, <3>2
  <2>7. \A i, k \in Clients : pe'[i] = pe'[k] /\ pe'[i] # None => i = k
    BY SMT, <1>v, <2>3, <2>5
  <2>8. \A q \in pool' \cup single' : ~ active'[q] /\ copy_back'[q] = <<>>
    BY <1>v, <2>1, <2>2
  <2> QED
    BY <2>4, <2>6, <2>7, <2>8 DEF Owned
<1>b. CASE AcquireSingle
  <2>1. PICK p \in pool : pool' = pool \ {p} /\ single' = {p} /\ handled' = p
    BY <1>b DEF AcquireSingle
  <2>2. single = {} /\ UNCHANGED <<active, copy_back, pe>>
    BY SMT, <1>b, <1>s, <1>u, <1>v DEF AcquireSingle, peVars
  <2>3. pool' \cup single' = pool \cup single
    BY <2>1, <2>2
  <2> QED
    BY <1>v, <2>1, <2>2, <2>3 DEF Owned
<1>c. CASE ReleaseSingle
  <2>1. pool' = pool \cup single /\ single' = {} /\ UNCHANGED <<active, copy_back, pe>>
    BY <1>c DEF ReleaseSingle, peVars
  <2> QED
    BY <1>v, <2>1 DEF Owned
<1>d. ASSUME NEW j \in Clients, pe[j] \in PEs, UNCHANGED <<pool, single, handled, pe>>,
             active' = active \/ \E b \in BOOLEAN : active' = [active EXCEPT ![pe[j]] = b],
             copy_back' = copy_back \/ \E l : copy_back' = [copy_back EXCEPT ![pe[j]] = l]
      PROVE  Owned'
  <2>1. \A p \in PEs : p # pe[j] => active'[p] = active[p] /\ copy_back'[p] = copy_back[p]
    BY <1>d, <1>u
  <2>2. \A p \in PEs : (~ \E k \in Clients : pe[k] = p) =>
                          active'[p] = active[p] /\ copy_back'[p] = copy_back[p]
    BY <2>1
  <2> QED
    BY <1>d, <1>t, <2>2, OwnedSame
<1>e. ASSUME NEW p, Completed(p)
      PROVE  /\ active' = active \/ \E b \in BOOLEAN : active' = [active EXCEPT ![p] = b]
             /\ p \in PEs => ~ active'[p]
  BY <1>e, <1>u DEF Completed
<1>f. ASSUME NEW j \in Clients, Release(j) \/ ReleaseKeeping(j) PROVE Owned'
  <2>1. /\ pe[j] \in PEs /\ Completed(pe[j]) /\ copy_back' = [copy_back EXCEPT ![pe[j]] = <<>>]
        /\ \/ pe' = pe /\ UNCHANGED pools
           \/ pe' = [pe EXCEPT ![j] = None] /\ GiveBack(pe[j])
    BY <1>f, <1>t, ReleaseCases
  <2>2. CASE pe' = pe /\ UNCHANGED pools
    BY <1>d, <1>e, <2>1, <2>2 DEF pools
  <2>3. CASE pe' = [pe EXCEPT ![j] = None] /\ GiveBack(pe[j])
    <3>1. /\ UNCHANGED handled
          /\ \/ pe[j] = handled /\ single' = single \cup {pe[j]} /\ pool' = pool
             \/ pool' = pool \cup {pe[j]} /\ single' = single
      BY <2>3 DEF GiveBack
    <3>2. pe[j] \notin pool \cup single
      BY <1>v, <2>1
    <3>3. pool' \cap single' = {} /\ single' \subseteq {handled'}
      BY SMT, <1>v, <3>1, <3>2
    <3>4. pool' \cup single' = pool \cup single \cup {pe[j]}
      BY <3>1
    <3>5. pe'[j] = None /\ \A k \in Clients : k # j => pe'[k] = pe[k] /\ pe[k] # pe[j]
      BY SMT, <1>s, <1>u, <1>v, <2>1, <2>3
    <3>6. \A q \in PEs : q \in pool' \cup single' <=> ~ \E k \in Clients : pe'[k] = q
      <4> SUFFICES ASSUME NEW q \in PEs
                   PROVE  q \in pool' \cup single' <=> ~ \E k \in Clients : pe'[k] = q
        OBVIOUS
      <4>1. CASE q = pe[j]
        BY <1>s, <3>4, <3>5, <4>1
      <4>2. CASE q # pe[j]
        BY SMT, <1>s, <1>v, <3>4, <3>5, <4>2
      <4> QED
        BY <4>1, <4>2
    <3>7. \A i, k \in Clients : pe'[i] = pe'[k] /\ pe'[i] # None => i = k
      BY SMT, <1>v, <3>5
    <3>8. ~ active'[pe[j]] /\ copy_back'[pe[j]] = <<>>
      BY <1>e, <1>u, <2>1
    <3>9. \A q \in PEs : q # pe[j] => active'[q] = active[q] /\ copy_back'[q] = copy_back[q]
      BY SMT, <1>e, <1>u, <2>1
    <3>10. \A q \in pool' \cup single' : ~ active'[q] /\ copy_back'[q] = <<>>
      BY <1>u, <1>v, <3>4, <3>8, <3>9
    <3> QED
      BY <3>3, <3>6, <3>7, <3>10 DEF Owned
  <2> QED
    BY <2>1, <2>2, <2>3
<1>g. ASSUME NEW j \in Clients, Wait(j) PROVE Owned'
  <2>1. /\ pe[j] \in PEs /\ Completed(pe[j]) /\ UNCHANGED <<pools, copy_back, pe>>
    BY <1>g, <1>t DEF Wait, Stage
  <2> QED
    BY <1>d, <1>e, <2>1 DEF pools
<1>h. ASSUME NEW j \in Clients, Launch(j) PROVE Owned'
  <2>1. /\ pe[j] \in PEs /\ UNCHANGED <<pools, copy_back, pe>>
        /\ active' = active \/ active' = [active EXCEPT ![pe[j]] = TRUE]
    BY <1>h, <1>t DEF Launch, Stage, Starting
  <2> QED
    BY <1>d, <2>1 DEF pools
<1>i. ASSUME NEW j \in Clients, AllocateArg(j) \/ TransferArg(j) \/ StreamArg(j) PROVE Owned'
  <2>1. pe[j] \in PEs
    BY <1>i, <1>t DEF Stage, Starting, Loops, AllocateArg, TransferArg, StreamArg, AtArg
  <2>2. UNCHANGED <<pools, pe, active>>
    BY <1>i, <1>t, AllocateCases, TransferCases, StreamCases DEF peVars
  <2>3. copy_back' = copy_back \/ \E x : AddCopyback(j, x)
    BY <1>i, <1>t, AllocateCases, TransferCases, StreamCases DEF peVars
  <2>4. copy_back' = copy_back \/ \E l : copy_back' = [copy_back EXCEPT ![pe[j]] = l]
    BY <2>3 DEF AddCopyback
  <2> QED
    BY <1>d, <2>1, <2>2, <2>4 DEF pools
<1>k. CASE UNCHANGED <<pool, single, handled, pe, active, copy_back>>
  BY <1>k, <1>t, OwnedSame
<1>l. ASSUME NEW j \in Clients, \/ Start(j) \/ TryRelease(j) \/ CopyBack(j) \/ CopiedBack(j)
                                \/ TransferFails(j) \/ CopyBackFails(j)
      PROVE  Owned'
  BY <1>k, <1>l DEF Start, TryRelease, CopyBack, CopiedBack, TransferFails, CopyBackFails,
                     peVars, pools, vars
<1>m. (\E p \in PEs : Finish(p)) \/ Done => Owned'
  BY <1>k DEF Finish, Done, peVars, pools, vars
<1> QED
  BY <1>a, <1>b, <1>c, <1>f, <1>g, <1>h, <1>i, <1>l, <1>m DEF Next, JobStep


-----------------------------------------------------------------------------
(* Lists of copy backs *)

LEMMA EntriesEmpty == Entries(<<>>) = {} /\ DOMAIN <<>> = {}
BY SMT DEF Entries

LEMMA EntriesTypes ==
  ASSUME NEW S, NEW s \in Seq(S)
  PROVE  Entries(s) \subseteq S
BY SMT DEF Entries

LEMMA EntriesAppend ==
  ASSUME NEW S, NEW s \in Seq(S), NEW e \in S
  PROVE  Entries(Append(s, e)) = Entries(s) \cup {e}
<1> DEFINE t == Append(s, e)
<1>1. /\ DOMAIN s = 1 .. Len(s) /\ Len(s) \in Nat /\ DOMAIN t = 1 .. (Len(s) + 1)
      /\ t[Len(s) + 1] = e /\ \A k \in 1 .. Len(s) : t[k] = s[k]
  BY SMT
<1> HIDE DEF t
<1>2. \A k \in DOMAIN t : t[k] \in Entries(s) \cup {e}
  BY SMT, <1>1 DEF Entries
<1>3. \A k \in DOMAIN s : k \in DOMAIN t /\ t[k] = s[k]
  BY SMT, <1>1
<1>4. Len(s) + 1 \in DOMAIN t
  BY SMT, <1>1
<1>5. Entries(t) = Entries(s) \cup {e}
  BY <1>1, <1>2, <1>3, <1>4 DEF Entries
<1> QED
  BY <1>5 DEF t

LEMMA EntriesTail ==
  ASSUME NEW S, NEW s \in Seq(S), s # <<>>
  PROVE  /\ Entries(s) = {Head(s)} \cup Entries(Tail(s)) /\ Head(s) \in S /\ 1 \in DOMAIN s
         /\ Tail(s) \in Seq(S) /\ Head(s) = s[1]
         /\ \A k \in DOMAIN Tail(s) : k + 1 \in DOMAIN s /\ Tail(s)[k] = s[k + 1] /\ k \in Nat \ {0}
         /\ \A k \in DOMAIN s : k = 1 \/ (k - 1 \in DOMAIN Tail(s) /\ Tail(s)[k - 1] = s[k])
<1> DEFINE t == Tail(s)
<1>1. /\ Len(s) \in Nat \ {0} /\ DOMAIN s = 1 .. Len(s) /\ DOMAIN t = 1 .. (Len(s) - 1)
      /\ t \in Seq(S) /\ Head(s) = s[1] /\ \A k \in 1 .. (Len(s) - 1) : t[k] = s[k + 1]
  BY SMT
<1> HIDE DEF t
<1>2. \A k \in DOMAIN t : k + 1 \in DOMAIN s /\ t[k] = s[k + 1] /\ k \in Nat \ {0}
  BY SMT, <1>1
<1>3. \A k \in DOMAIN s : k = 1 \/ (k - 1 \in DOMAIN t /\ t[k - 1] = s[k])
  BY SMT, <1>1
<1>4. 1 \in DOMAIN s /\ Head(s) = s[1] /\ Head(s) \in S
  BY SMT, <1>1
<1>5. \A k \in DOMAIN s : s[k] \in {Head(s)} \cup Entries(t)
  BY <1>3, <1>4 DEF Entries
<1>6. Entries(s) = {Head(s)} \cup Entries(t)
  BY SMT, <1>2, <1>4, <1>5 DEF Entries
<1> QED
  BY <1>1, <1>2, <1>3, <1>4, <1>6 DEF t

\* The run of a copy back is one of a client.
LEMMA RunOf ==
  ASSUME NEW e \in CopyBacks
  PROVE  e.run \in Runs /\ e.run[1] \in Clients
BY DEF CopyBacks, Runs

\* What AddCopyback does to the list of the job's PE.
LEMMA Added ==
  ASSUME TypeOK, NEW j \in Clients, Stage(j), NEW i \in DOMAIN args[j],
         pc[j] \in Starting \ {"allocate"}, args[j][i] \in {"in", "out", "c2h", "h2c"},
         AddCopyback(j, i)
  PROVE  \E e \in CopyBacks :
           /\ e.kind = args[j][i] /\ e.region = regs[j][i] /\ e.run = Run(j)
           /\ copy_back'[pe[j]] = Append(copy_back[pe[j]], e)
           /\ \A p \in PEs : p # pe[j] => copy_back'[p] = copy_back[p]
<1> DEFINE e == [kind |-> args[j][i], arg |-> i, region |-> regs[j][i], run |-> Run(j)]
<1>1. e \in CopyBacks /\ pe[j] \in PEs
  BY EntryTypes
<1>2. copy_back' = [copy_back EXCEPT ![pe[j]] = Append(copy_back[pe[j]], e)]
  BY DEF AddCopyback
<1>3. e.kind = args[j][i] /\ e.region = regs[j][i] /\ e.run = Run(j)
  OBVIOUS
<1> HIDE DEF e
<1>4. copy_back \in [PEs -> Seq(CopyBacks)]
  BY DEF TypeOK
<1>5. /\ copy_back'[pe[j]] = Append(copy_back[pe[j]], e)
      /\ \A p \in PEs : p # pe[j] => copy_back'[p] = copy_back[p]
  BY <1>1, <1>2, <1>4
<1> QED
  BY <1>1, <1>3, <1>5

\* Every step either leaves the lists of the PEs alone, adds a copy back of the
\* job that has the PE, or gives the job the list of its PE.
LEMMA ListCases ==
  ASSUME TypeOK, \A k \in Clients : Stage(k), Next
  PROVE  \/ copy_back' = copy_back
         \/ \E j \in Clients, e \in CopyBacks :
              /\ TransferArg(j) \/ StreamArg(j)
              /\ e.kind = args[j][pos[j]] /\ e.region = regs[j][pos[j]] /\ e.run = Run(j)
              /\ pos[j] \in DOMAIN regs[j] /\ pe[j] \in PEs
              /\ copy_back'[pe[j]] = Append(copy_back[pe[j]], e)
              /\ \A p \in PEs : p # pe[j] => copy_back'[p] = copy_back[p]
         \/ \E j \in Clients : Release(j) \/ ReleaseKeeping(j)
<1>1. ASSUME NEW j \in Clients, TransferArg(j) \/ StreamArg(j), copy_back' # copy_back
      PROVE  \E e \in CopyBacks :
              /\ e.kind = args[j][pos[j]] /\ e.region = regs[j][pos[j]] /\ e.run = Run(j)
              /\ pos[j] \in DOMAIN regs[j] /\ pe[j] \in PEs
              /\ copy_back'[pe[j]] = Append(copy_back[pe[j]], e)
              /\ \A p \in PEs : p # pe[j] => copy_back'[p] = copy_back[p]
  <2>1. /\ pc[j] \in {"transfer", "streams"} /\ pos[j] \in DOMAIN args[j]
        /\ AddCopyback(j, pos[j]) /\ args[j][pos[j]] \in {"in", "out", "c2h", "h2c"}
    BY <1>1, TransferCases, StreamCases DEF NeedsRegion
  <2>2. pc[j] \in Starting \ {"allocate"}
    BY <2>1 DEF Starting, Loops
  <2>3. pos[j] \in DOMAIN regs[j] /\ pe[j] \in PEs
    BY <2>1, <2>2, EntryTypes
  <2> QED
    BY <2>1, <2>2, <2>3, Added
<1>2. ASSUME NEW j \in Clients, 
             \/ Acquire(j) \/ AcquireFromSingle(j) \/ Start(j) \/ TryRelease(j) \/ CopyBack(j)
             \/ CopiedBack(j) \/ TransferFails(j) \/ CopyBackFails(j) \/ Wait(j) \/ Launch(j)
             \/ AllocateArg(j)
      PROVE  copy_back' = copy_back
  BY <1>2 DEF Acquire, AcquireFromSingle, Start, TryRelease, CopyBack, CopiedBack,
              TransferFails, CopyBackFails, Wait, Launch, AllocateArg, peVars, vars
<1>3. (\E p \in PEs : Finish(p)) \/ AcquireSingle \/ ReleaseSingle \/ Done => copy_back' = copy_back
  BY DEF Finish, AcquireSingle, ReleaseSingle, Done, peVars, vars
<1>4. CASE \E j \in Clients : TransferArg(j) \/ StreamArg(j)
  BY <1>1, <1>4
<1> QED
  BY <1>2, <1>3, <1>4 DEF Next, JobStep

\* The same for the list of a job.
LEMMA TodoCases ==
  ASSUME TypeOK, \A k \in Clients : Stage(k), Next
  PROVE  \/ todo' = todo
         \/ \E j \in Clients : Release(j) \/ ReleaseKeeping(j)
         \/ \E j \in Clients : CopyBack(j) /\ todo[j] # <<>> /\ todo' = [todo EXCEPT ![j] = Tail(@)]
         \/ \E j \in Clients : CopyBackFails(j) /\ todo' = [todo EXCEPT ![j] = <<>>]
<1>1. ASSUME NEW j \in Clients,
             \/ Acquire(j) \/ AcquireFromSingle(j) \/ Start(j) \/ TryRelease(j)
             \/ CopiedBack(j) \/ TransferFails(j) \/ Wait(j) \/ Launch(j)
             \/ AllocateArg(j) \/ TransferArg(j) \/ StreamArg(j)
      PROVE  todo' = todo
  BY <1>1 DEF Acquire, AcquireFromSingle, Start, TryRelease, CopiedBack,
              TransferFails, Wait, Launch, AllocateArg, TransferArg, StreamArg, vars
<1>2. (\E p \in PEs : Finish(p)) \/ AcquireSingle \/ ReleaseSingle \/ Done => todo' = todo
  BY DEF Finish, AcquireSingle, ReleaseSingle, Done, vars
<1>3. \A j \in Clients : CopyBack(j) => todo[j] # <<>> /\ todo' = [todo EXCEPT ![j] = Tail(@)]
  BY DEF CopyBack
<1>4. \A j \in Clients : CopyBackFails(j) => todo' = [todo EXCEPT ![j] = <<>>]
  BY DEF CopyBackFails
<1> QED
  BY <1>1, <1>2, <1>3, <1>4 DEF Next, JobStep


-----------------------------------------------------------------------------
(* Runs *)

\* A start uses the next number; its run is launched when the start ends.
LEMMA LaunchedKept == JInv /\ Next => Launched'
<1> SUFFICES ASSUME JInv, Next PROVE Launched'
  OBVIOUS
<1>t. TypeOK /\ Launched /\ \A x \in Clients : Stage(x)
  BY DEF JInv
<1>u. starts \in [Clients -> 0 .. Starts] /\ Starts \in Nat
  BY <1>t, JobAssumption DEF TypeOK
<1>v. \A k \in Clients : \A s \in 0 .. Starts :
        <<k, s>> \in launched => s >= starts[k] /\ (pc[k] \in Starting => s > starts[k])
  BY <1>t DEF Launched
<1>a. ASSUME UNCHANGED <<starts, launched>>,
             \A k \in Clients : pc'[k] \in Starting => pc[k] \in Starting
      PROVE  Launched'
  BY <1>a, <1>v DEF Launched
<1>b. ASSUME NEW j \in Clients, NEW l, l \notin Starting, pc' = [pc EXCEPT ![j] = l],
             UNCHANGED <<starts, launched>>
      PROVE  Launched'
  <2>1. \A k \in Clients : pc'[k] \in Starting => pc[k] \in Starting
    BY <1>b, <1>t DEF TypeOK
  <2> QED
    BY <1>a, <1>b, <2>1
<1>c. ASSUME NEW j \in Clients, NextArg(j), pc[j] \in Loops, UNCHANGED <<starts, launched>>
      PROVE  Launched'
  <2>1. \A k \in Clients : pc'[k] \in Starting => pc[k] \in Starting
    BY <1>c, <1>t DEF TypeOK, NextArg, Goto, Starting
  <2> QED
    BY <1>a, <1>c, <2>1
<1>d. ASSUME NEW j \in Clients, EndStart(j), UNCHANGED <<starts, launched>> PROVE Launched'
  BY <1>b, <1>d DEF EndStart, Goto, Starting, Loops
<1>e. ASSUME NEW j \in Clients, Acquire(j) \/ AcquireFromSingle(j) PROVE Launched'
  BY <1>b, <1>e DEF Acquire, AcquireFromSingle, Goto, Starting, Loops
<1>f. ASSUME NEW j \in Clients, Start(j) PROVE Launched'
  <2>1. /\ starts' = [starts EXCEPT ![j] = @ - 1] /\ UNCHANGED launched
        /\ \E l : pc' = [pc EXCEPT ![j] = l]
    BY <1>f DEF Start, Goto
  <2>2. starts'[j] = starts[j] - 1 /\ starts[j] \in Nat
    BY SMT, <1>u, <2>1
  <2>3. \A k \in Clients : k # j => starts'[k] = starts[k] /\ pc'[k] = pc[k]
    BY <1>t, <1>u, <2>1 DEF TypeOK
  <2> SUFFICES ASSUME NEW k \in Clients, NEW s \in 0 .. Starts, <<k, s>> \in launched
               PROVE  s >= starts'[k] /\ (pc'[k] \in Starting => s > starts'[k])
    BY <2>1 DEF Launched
  <2>4. CASE k # j
    BY <1>v, <2>3, <2>4
  <2>5. CASE k = j
    <3>1. s >= starts[j] /\ s \in Nat
      BY SMT, <1>u, <1>v, <2>5
    <3> QED
      BY SMT, <2>2, <2>5, <3>1
  <2> QED
    BY <2>4, <2>5
<1>g. ASSUME NEW j \in Clients, Launch(j) PROVE Launched'
  <2>1. EndStart(j) /\ UNCHANGED starts /\ launched' \in {launched, launched \cup {Run(j)}}
    BY <1>g DEF Launch
  <2>2. pc'[j] = "ready" /\ \A k \in Clients : k # j => pc'[k] = pc[k]
    BY <1>t, <2>1 DEF TypeOK, EndStart, Goto
  <2> SUFFICES ASSUME NEW k \in Clients, NEW s \in 0 .. Starts, <<k, s>> \in launched'
               PROVE  s >= starts[k] /\ (pc'[k] \in Starting => s > starts[k])
    BY <2>1 DEF Launched
  <2>3. CASE <<k, s>> \in launched
    <3>1. CASE k = j
      BY <1>v, <2>2, <2>3, <3>1 DEF Starting, Loops
    <3>2. CASE k # j
      BY <1>v, <2>2, <2>3, <3>2
    <3> QED
      BY <3>1, <3>2
  <2>4. CASE <<k, s>> = Run(j)
    <3>1. k = j /\ s = starts[j]
      BY <2>4 DEF Run
    <3>2. s >= starts[k]
      BY SMT, <1>u, <3>1
    <3> QED
      BY <2>2, <3>1, <3>2 DEF Starting, Loops
  <2> QED
    BY <2>1, <2>3, <2>4
<1>h. ASSUME NEW j \in Clients, AllocateArg(j) PROVE Launched'
  <2>1. pc[j] \in Loops /\ UNCHANGED <<starts, launched>> /\ (EndStart(j) \/ NextArg(j))
    BY <1>h, <1>t, AllocateCases DEF AtArg, Loops
  <2> QED
    BY <1>c, <1>d, <2>1
<1>i. ASSUME NEW j \in Clients, TransferArg(j) \/ StreamArg(j) \/ TransferFails(j) PROVE Launched'
  <2>1. UNCHANGED <<starts, launched>>
    BY <1>i DEF TransferArg, StreamArg, TransferFails
  <2>2. (EndStart(j) \/ (NextArg(j) /\ pc[j] \in Loops))
    BY <1>i, TransferCases, StreamCases, EndCases DEF Loops
  <2> QED
    BY <1>c, <1>d, <2>1, <2>2
<1>k. ASSUME NEW j \in Clients, Release(j) \/ ReleaseKeeping(j) PROVE Launched'
  BY <1>b, <1>k, <1>t, ReleaseCases DEF Goto, Starting, Loops
<1>l. ASSUME NEW j \in Clients, CopiedBack(j) \/ CopyBackFails(j) PROVE Launched'
  BY <1>b, <1>l DEF CopiedBack, CopyBackFails, EndRelease, Goto, Starting, Loops
<1>m. ASSUME NEW j \in Clients, CopyBack(j) \/ Wait(j) \/ TryRelease(j) PROVE Launched'
  BY <1>a, <1>m DEF CopyBack, Wait, TryRelease, vars
<1>n. (\E p \in PEs : Finish(p)) \/ AcquireSingle \/ ReleaseSingle \/ Done => Launched'
  BY <1>a DEF Finish, AcquireSingle, ReleaseSingle, Done, vars
<1> QED
  BY <1>e, <1>f, <1>g, <1>h, <1>i, <1>k, <1>l, <1>m, <1>n DEF Next, JobStep

\* The jobs' PEs change when they acquire and release one.
LEMMA PECases ==
  ASSUME TypeOK, \A k \in Clients : Stage(k), Next
  PROVE  \/ pe' = pe
         \/ \E j \in Clients, p \in PEs :
              /\ pe[j] = None /\ pe' = [pe EXCEPT ![j] = p]
              /\ UNCHANGED <<copy_back, todo>>
         \/ \E j \in Clients : (Release(j) \/ ReleaseKeeping(j)) /\ pe' = [pe EXCEPT ![j] = None]
<1>1. ASSUME NEW j \in Clients, Acquire(j) \/ AcquireFromSingle(j)
      PROVE  \E p \in PEs : /\ pe[j] = None /\ pe' = [pe EXCEPT ![j] = p]
                            /\ UNCHANGED <<copy_back, todo>>
  BY <1>1 DEF Acquire, AcquireFromSingle, TypeOK, Stage, peVars
<1>2. ASSUME NEW j \in Clients,
             \/ Start(j) \/ TryRelease(j) \/ CopyBack(j) \/ CopyBackFails(j)
             \/ CopiedBack(j) \/ TransferFails(j) \/ Wait(j) \/ Launch(j)
             \/ AllocateArg(j) \/ TransferArg(j) \/ StreamArg(j) \/ ReleaseKeeping(j)
      PROVE  pe' = pe
  BY <1>2 DEF Start, TryRelease, CopyBack, CopyBackFails, CopiedBack, ReleaseKeeping,
              TransferFails, Wait, Launch, AllocateArg, TransferArg, StreamArg, vars
<1>3. (\E p \in PEs : Finish(p)) \/ AcquireSingle \/ ReleaseSingle \/ Done => pe' = pe
  BY DEF Finish, AcquireSingle, ReleaseSingle, Done, vars
<1>4. \A j \in Clients : Release(j) => pe' = [pe EXCEPT ![j] = None]
  BY DEF Release
<1> QED
  BY <1>1, <1>2, <1>3, <1>4 DEF Next, JobStep

\* A PE's copy backs are those of the job that has it, a job's are its own.
LEMMA MineKept == JInv /\ Next => Mine'
<1> SUFFICES ASSUME JInv, Next PROVE Mine'
  OBVIOUS
<1>t. TypeOK /\ Owned /\ \A x \in Clients : Stage(x)
  BY DEF JInv
<1>s. None \notin PEs
  BY JobAssumption
<1>u. /\ pe \in [Clients -> PEs \cup {None}] /\ copy_back \in [PEs -> Seq(CopyBacks)]
      /\ todo \in [Clients -> Seq(CopyBacks)]
  BY <1>t DEF TypeOK
<1>v. /\ \A p \in PEs : \A e \in Entries(copy_back[p]) : pe[e.run[1]] = p
      /\ \A j \in Clients : \A e \in Entries(todo[j]) : e.run[1] = j
  BY DEF JInv, Mine
<1>w. \A p \in PEs : \A e \in Entries(copy_back[p]) : e.run[1] \in Clients
  BY <1>u, EntriesTypes, RunOf
<1>o. \A j, k \in Clients : pe[j] = pe[k] /\ pe[j] # None => j = k
  BY <1>t DEF Owned
<1>1. \A p \in PEs : \A e \in Entries(copy_back'[p]) : pe'[e.run[1]] = p
  <2> SUFFICES ASSUME NEW p \in PEs, NEW e \in Entries(copy_back'[p])
               PROVE  pe'[e.run[1]] = p
    OBVIOUS
  <2>1. ASSUME NEW j \in Clients, Release(j) \/ ReleaseKeeping(j) PROVE pe'[e.run[1]] = p
    <3>1. /\ pe[j] \in PEs /\ copy_back' = [copy_back EXCEPT ![pe[j]] = <<>>]
          /\ pe' = pe \/ pe' = [pe EXCEPT ![j] = None]
      BY <1>t, <2>1, ReleaseCases
    <3>2. p # pe[j]
      BY <1>u, <3>1, EntriesEmpty
    <3>3. copy_back'[p] = copy_back[p]
      BY <1>u, <3>1, <3>2
    <3>4. pe[e.run[1]] = p /\ e.run[1] \in Clients
      BY <1>v, <1>w, <3>3
    <3> QED
      BY <1>u, <3>1, <3>2, <3>4
  <2>2. ASSUME NEW j \in Clients, NEW q \in PEs, pe[j] = None, pe' = [pe EXCEPT ![j] = q],
               copy_back' = copy_back
        PROVE  pe'[e.run[1]] = p
    <3>1. pe[e.run[1]] = p /\ e.run[1] \in Clients
      BY <1>v, <1>w, <2>2
    <3> QED
      BY <1>s, <1>u, <2>2, <3>1
  <2>3. CASE pe' = pe /\ copy_back' = copy_back
    BY <1>v, <2>3
  <2>4. ASSUME pe' = pe, NEW j \in Clients, NEW x \in CopyBacks, x.run = Run(j), pe[j] \in PEs,
               copy_back'[pe[j]] = Append(copy_back[pe[j]], x),
               \A q \in PEs : q # pe[j] => copy_back'[q] = copy_back[q]
        PROVE  pe'[e.run[1]] = p
    <3>1. CASE p # pe[j]
      BY <1>v, <2>4, <3>1
    <3>2. CASE p = pe[j]
      <4>1. copy_back[pe[j]] \in Seq(CopyBacks)
        BY <1>u, <2>4
      <4>4. Entries(Append(copy_back[pe[j]], x)) = Entries(copy_back[pe[j]]) \cup {x}
        BY SMT, <4>1, EntriesAppend
      <4>2. e \in Entries(copy_back[pe[j]]) \cup {x}
        BY <2>4, <3>2, <4>4
      <4>3. x.run[1] = j
        BY SMT, <2>4 DEF Run
      <4> QED
        BY <1>v, <2>4, <3>2, <4>2, <4>3
    <3> QED
      BY <3>1, <3>2
  <2> QED
    BY <1>t, <2>1, <2>2, <2>3, <2>4, ListCases, PECases
<1>2. \A k \in Clients : \A e \in Entries(todo'[k]) : e.run[1] = k
  <2> SUFFICES ASSUME NEW k \in Clients, NEW e \in Entries(todo'[k])
               PROVE  e.run[1] = k
    OBVIOUS
  <2>1. ASSUME NEW j \in Clients, Release(j) \/ ReleaseKeeping(j) PROVE e.run[1] = k
    <3>1. pe[j] \in PEs /\ todo' = [todo EXCEPT ![j] = copy_back[pe[j]]]
      BY <1>t, <2>1, ReleaseCases
    <3>2. CASE k # j
      BY <1>u, <1>v, <3>1, <3>2
    <3>3. CASE k = j
      <4>1. e \in Entries(copy_back[pe[j]])
        BY <1>u, <3>1, <3>3
      <4>2. pe[e.run[1]] = pe[j] /\ e.run[1] \in Clients
        BY <1>v, <1>w, <3>1, <4>1
      <4> QED
        BY <1>o, <1>s, <3>1, <3>3, <4>2
    <3> QED
      BY <3>2, <3>3
  <2>2. ASSUME NEW j \in Clients, todo[j] # <<>>, todo' = [todo EXCEPT ![j] = Tail(@)]
        PROVE  e.run[1] = k
    <3>1. todo[j] \in Seq(CopyBacks)
      BY <1>u
    <3>2. Entries(todo[j]) = {Head(todo[j])} \cup Entries(Tail(todo[j]))
      BY <2>2, <3>1, EntriesTail
    <3>3. e \in Entries(todo[k])
      BY <1>u, <2>2, <3>2
    <3> QED
      BY <1>v, <3>3
  <2>3. ASSUME NEW j \in Clients, todo' = [todo EXCEPT ![j] = <<>>] PROVE e.run[1] = k
    BY <1>u, <1>v, <2>3, EntriesEmpty
  <2> QED
    BY <1>t, <1>v, <2>1, <2>2, <2>3, TodoCases
<1> QED
  BY <1>1, <1>2 DEF Mine


-----------------------------------------------------------------------------
(* The regions of a list of copy backs and of a start *)

LEMMA RegionsEmpty == ListRegions(<<>>) = {} /\ ListOnce(<<>>) /\ Placed(<<>>)
BY EntriesEmpty DEF ListRegions, ListOnce, Placed

LEMMA RegionsAppend ==
  ASSUME NEW s \in Seq(CopyBacks), NEW e \in CopyBacks, ListOnce(s), Placed(s),
         e.region \notin ListRegions(s), e.region # None <=> NeedsRegion(e.kind)
  PROVE  /\ ListRegions(Append(s, e)) = ListRegions(s) \cup ({e.region} \ {None})
         /\ ListOnce(Append(s, e)) /\ Placed(Append(s, e))
<1> DEFINE t == Append(s, e)
<1>1. Entries(t) = Entries(s) \cup {e}
  BY SMT, EntriesAppend
<1>2. /\ DOMAIN s = 1 .. Len(s) /\ Len(s) \in Nat /\ DOMAIN t = 1 .. (Len(s) + 1)
      /\ t[Len(s) + 1] = e /\ \A k \in 1 .. Len(s) : t[k] = s[k]
  BY SMT
<1> HIDE DEF t
<1>3. ListRegions(t) = ListRegions(s) \cup ({e.region} \ {None})
  BY <1>1 DEF ListRegions
<1>4. Placed(t)
  BY <1>1 DEF Placed
<1>5. \A k \in DOMAIN s : s[k].region # None => s[k].region # e.region
  BY DEF ListRegions, Entries
<1>6. ASSUME NEW k \in DOMAIN t, NEW l \in DOMAIN t, t[k].region = t[l].region, t[k].region # None
      PROVE  k = l
  <2>1. CASE k \in DOMAIN s /\ l \in DOMAIN s
    BY <1>2, <1>6, <2>1 DEF ListOnce
  <2>2. CASE k \in DOMAIN s /\ l = Len(s) + 1
    BY <1>2, <1>5, <1>6, <2>2
  <2>3. CASE k = Len(s) + 1 /\ l \in DOMAIN s
    BY <1>2, <1>5, <1>6, <2>3
  <2> QED
    BY SMT, <1>2, <1>6, <2>1, <2>2, <2>3
<1>7. ListOnce(t)
  BY <1>6 DEF ListOnce
<1> QED
  BY <1>3, <1>4, <1>7 DEF t

LEMMA RegionsTail ==
  ASSUME NEW s \in Seq(CopyBacks), s # <<>>, ListOnce(s), Placed(s)
  PROVE  /\ ListRegions(Tail(s)) = ListRegions(s) \ {Head(s).region}
         /\ Head(s).region \in ListRegions(s) \cup {None}
         /\ ListOnce(Tail(s)) /\ Placed(Tail(s))
<1> DEFINE t == Tail(s)
<1>1. /\ Entries(s) = {Head(s)} \cup Entries(t) /\ 1 \in DOMAIN s /\ Head(s) = s[1]
      /\ \A k \in DOMAIN t : k + 1 \in DOMAIN s /\ t[k] = s[k + 1] /\ k \in Nat \ {0}
  BY EntriesTail
<1> HIDE DEF t
<1>2. Placed(t)
  BY <1>1 DEF Placed
<1>3. ASSUME NEW k \in DOMAIN t, NEW l \in DOMAIN t, t[k].region = t[l].region, t[k].region # None
      PROVE  k = l
  <2>1. k + 1 = l + 1
    BY SMT, <1>1, <1>3 DEF ListOnce
  <2> QED
    BY SMT, <1>1, <2>1
<1>4. ListOnce(t)
  BY <1>3 DEF ListOnce
<1>5. \A k \in DOMAIN t : t[k].region = Head(s).region => t[k].region = None
  <2> SUFFICES ASSUME NEW k \in DOMAIN t, t[k].region = Head(s).region, t[k].region # None
               PROVE  FALSE
    OBVIOUS
  <2>1. k + 1 = 1
    BY <1>1 DEF ListOnce
  <2> QED
    BY SMT, <1>1, <2>1
<1>6. \A e \in Entries(t) : e.region = Head(s).region => e.region = None
  BY <1>5 DEF Entries
<1>7. ListRegions(t) = ListRegions(s) \ {Head(s).region}
  BY SMT, <1>1, <1>6 DEF ListRegions
<1>8. Head(s).region \in ListRegions(s) \cup {None}
  BY <1>1 DEF ListRegions
<1> QED
  BY <1>2, <1>4, <1>7, <1>8 DEF t

\* The regions of a start, in each of its stages.
LEMMA StartSame ==
  ASSUME NEW k \in Clients, pc'[k] = pc[k], pos'[k] = pos[k], regs'[k] = regs[k], StartOnce(k)
  PROVE  StartRegions(k)' = StartRegions(k) /\ StartOnce(k)'
<1>1. InStart(k)' = InStart(k)
  BY DEF InStart
<1> QED
  BY <1>1 DEF StartRegions, StartOnce

LEMMA StartNone ==
  ASSUME NEW k \in Clients, pc[k] \notin {"allocate", "transfer"} \/ regs[k] = <<>>
  PROVE  StartRegions(k) = {} /\ StartOnce(k)
<1>1. InStart(k) = {}
  BY SMT DEF InStart
<1> QED
  BY <1>1 DEF StartRegions, StartOnce

LEMMA StartNonePrime ==
  ASSUME NEW k \in Clients, pc'[k] \notin {"allocate", "transfer"} \/ regs'[k] = <<>>
  PROVE  StartRegions(k)' = {} /\ StartOnce(k)'
<1>1. InStart(k)' = {}
  BY SMT DEF InStart
<1> QED
  BY <1>1 DEF StartRegions, StartOnce


LEMMA StartAllocates ==
  ASSUME TypeOK, NEW j \in Clients, Stage(j), AtArg(j, "allocate", pos[j]), NEW r,
         pos[j] \in DOMAIN args[j], StartOnce(j), r \notin StartRegions(j),
         regs' = [regs EXCEPT ![j] = Append(@, r)], NextArg(j)
  PROVE  StartRegions(j)' = StartRegions(j) \cup ({r} \ {None}) /\ StartOnce(j)'
<1>1. /\ regs[j] \in Seq(Regions \cup {None}) /\ pc[j] = "allocate" /\ pos[j] \in Nat \ {0}
  BY SMT DEF TypeOK, AtArg
<1> DEFINE n == Len(regs[j])
<1>2. n \in Nat /\ DOMAIN regs[j] = 1 .. n
  BY SMT, <1>1
<1>3. regs'[j] = Append(regs[j], r)
  BY DEF TypeOK
<1>4. /\ DOMAIN regs'[j] = 1 .. (n + 1) /\ regs'[j][n + 1] = r
      /\ \A i \in 1 .. n : regs'[j][i] = regs[j][i]
  BY SMT, <1>1, <1>3
<1>5. InStart(j) = 1 .. n
  BY <1>1, <1>2 DEF InStart
<1>6. pc'[j] = "allocate" \/ (pc'[j] = "transfer" /\ pos'[j] = 1)
  BY <1>1 DEF NextArg, Goto, AfterLoop, TypeOK
<1>7. InStart(j)' = 1 .. (n + 1)
  BY SMT, <1>2, <1>4, <1>6 DEF InStart
<1> HIDE DEF n
<1>8. StartRegions(j) = {regs[j][i] : i \in 1 .. n} \ {None}
  BY <1>5 DEF StartRegions
<1>9. StartRegions(j)' = {regs'[j][i] : i \in 1 .. (n + 1)} \ {None}
  BY <1>7 DEF StartRegions
<1>10. {regs'[j][i] : i \in 1 .. (n + 1)} = {regs[j][i] : i \in 1 .. n} \cup {r}
  <2>1. \A i \in 1 .. (n + 1) : i \in 1 .. n \/ i = n + 1
    BY SMT, <1>2
  <2>2. n + 1 \in 1 .. (n + 1) /\ \A i \in 1 .. n : i \in 1 .. (n + 1)
    BY SMT, <1>2
  <2> QED
    BY <1>4, <2>1, <2>2
<1>11. StartRegions(j)' = StartRegions(j) \cup ({r} \ {None})
  BY <1>8, <1>9, <1>10
<1>12. ASSUME NEW i \in 1 .. (n + 1), NEW k \in 1 .. (n + 1), regs'[j][i] = regs'[j][k],
              regs'[j][i] # None
       PROVE  i = k
  <2>1. \A x \in 1 .. n : regs[j][x] # None => regs[j][x] # r
    BY <1>8
  <2>2. CASE i \in 1 .. n /\ k \in 1 .. n
    BY <1>4, <1>5, <1>12, <2>2 DEF StartOnce
  <2>3. CASE i \in 1 .. n /\ k = n + 1
    BY <1>4, <1>12, <2>1, <2>3
  <2>4. CASE i = n + 1 /\ k \in 1 .. n
    BY <1>4, <1>12, <2>1, <2>4
  <2> QED
    BY SMT, <1>2, <2>2, <2>3, <2>4
<1>13. StartOnce(j)'
  BY <1>7, <1>12 DEF StartOnce
<1> QED
  BY <1>11, <1>13

LEMMA StartTransfers ==
  ASSUME TypeOK, NEW j \in Clients, Stage(j), pc[j] = "transfer",
         pos[j] \in DOMAIN args[j], StartOnce(j), UNCHANGED regs, NextArg(j)
  PROVE  /\ StartRegions(j)' = StartRegions(j) \ {regs[j][pos[j]]} /\ StartOnce(j)'
         /\ regs[j][pos[j]] \in StartRegions(j) \cup {None} /\ pos[j] \in DOMAIN regs[j]
<1>1. /\ regs[j] \in Seq(Regions \cup {None}) /\ args[j] \in Seq(Kinds) /\ pos[j] \in Nat \ {0}
  BY SMT DEF TypeOK
<1>2. Len(regs[j]) = Len(args[j])
  BY DEF Stage, Starting, Loops
<1>3. /\ DOMAIN regs[j] = 1 .. Len(args[j]) /\ Len(args[j]) \in Nat
      /\ pos[j] \in 1 .. Len(args[j])
  BY SMT, <1>1, <1>2
<1>4. InStart(j) = {i \in 1 .. Len(args[j]) : i >= pos[j]}
  BY <1>3 DEF InStart
<1>5. ASSUME pos[j] < Len(args[j]) PROVE InStart(j)' = InStart(j) \ {pos[j]}
  <2>1. pc'[j] = "transfer" /\ pos'[j] = pos[j] + 1
    BY SMT, <1>1, <1>5 DEF NextArg, TypeOK
  <2>2. InStart(j)' = {i \in 1 .. Len(args[j]) : i >= pos[j] + 1}
    BY <1>3, <2>1 DEF InStart
  <2>3. InStart(j)' = InStart(j) \ {pos[j]}
    BY SMT, <1>1, <1>3, <1>4, <2>2
  <2> QED
    BY <2>3
<1>6. ASSUME pos[j] = Len(args[j]) PROVE InStart(j)' = InStart(j) \ {pos[j]}
  <2>1. pc'[j] = "streams"
    BY SMT, <1>1, <1>6 DEF NextArg, TypeOK, Goto, AfterLoop
  <2>2. InStart(j)' = {}
    BY <2>1 DEF InStart
  <2>3. InStart(j) \ {pos[j]} = {}
    BY SMT, <1>1, <1>3, <1>4, <1>6
  <2> QED
    BY <2>2, <2>3
<1>7. InStart(j)' = InStart(j) \ {pos[j]}
  BY SMT, <1>3, <1>5, <1>6
<1>8. pos[j] \in InStart(j)
  BY SMT, <1>1, <1>3, <1>4
<1>9. \A i \in InStart(j)' : regs[j][i] = regs[j][pos[j]] => regs[j][i] = None
  BY <1>7, <1>8 DEF StartOnce
<1>10. StartRegions(j)' = StartRegions(j) \ {regs[j][pos[j]]}
  BY <1>7, <1>8, <1>9 DEF StartRegions
<1>11. StartOnce(j)'
  BY <1>7 DEF StartOnce
<1>12. regs[j][pos[j]] \in StartRegions(j) \cup {None}
  BY <1>8 DEF StartRegions
<1> QED
  BY <1>3, <1>10, <1>11, <1>12


-----------------------------------------------------------------------------
(* What a step does to the regions *)

StartsSame(S) == \A k \in S : StartRegions(k)' = StartRegions(k)
ListsSame(S) == \A p \in S : ListRegions(copy_back'[p]) = ListRegions(copy_back[p])
TodosSame(S) == \A k \in S : ListRegions(todo'[k]) = ListRegions(todo[k])

\* Nothing, apart from errors after which regions may be left allocated.
Quiet == /\ StartsSame(Clients) /\ ListsSame(PEs) /\ TodosSame(Clients)
         /\ allocated' = allocated /\ (errors' = 0 => errors = 0)

\* A start gets a region, leaves it to its PE, or forgets its regions.
Gets(j, r) ==
  /\ r \in Regions \ allocated /\ allocated' = allocated \cup {r} /\ errors' = errors
  /\ StartRegions(j)' = StartRegions(j) \cup {r} /\ StartsSame(Clients \ {j})
  /\ ListsSame(PEs) /\ TodosSame(Clients)
Leaves(j, p, r) ==
  /\ r \in StartRegions(j) /\ StartRegions(j)' = StartRegions(j) \ {r} /\ StartsSame(Clients \ {j})
  /\ ListRegions(copy_back'[p]) = ListRegions(copy_back[p]) \cup {r} /\ ListsSame(PEs \ {p})
  /\ TodosSame(Clients) /\ allocated' = allocated /\ errors' = errors
Forgets(j) ==
  /\ StartRegions(j)' = {} /\ StartsSame(Clients \ {j})
  /\ ListsSame(PEs) /\ TodosSame(Clients) /\ allocated' = allocated /\ errors' # 0

\* A job takes those of its PE, frees one, or forgets them.
Takes(j, p) ==
  /\ ListRegions(todo[j]) = {} /\ ListRegions(todo'[j]) = ListRegions(copy_back[p])
  /\ ListRegions(copy_back'[p]) = {} /\ TodosSame(Clients \ {j}) /\ ListsSame(PEs \ {p})
  /\ StartsSame(Clients) /\ allocated' = allocated /\ errors' = errors
Frees(j, r) ==
  /\ r \in ListRegions(todo[j]) /\ ListRegions(todo'[j]) = ListRegions(todo[j]) \ {r}
  /\ TodosSame(Clients \ {j}) /\ StartsSame(Clients) /\ ListsSame(PEs)
  /\ allocated' = allocated \ {r} /\ errors' = errors
Abandons(j) ==
  /\ ListRegions(todo'[j]) = {} /\ TodosSame(Clients \ {j})
  /\ StartsSame(Clients) /\ ListsSame(PEs) /\ allocated' = allocated /\ errors' # 0

RegionStep == \/ Quiet
              \/ \E j \in Clients : \/ \E r \in Regions : Gets(j, r) \/ Frees(j, r)
                                    \/ \E p \in PEs : Takes(j, p) \/ \E r : Leaves(j, p, r)
                                    \/ Forgets(j) \/ Abandons(j)

\* Sets of regions that only shrink stay apart.
LEMMA DisjointShrinks ==
  ASSUME Disjoint,
         \A k \in Clients : /\ StartRegions(k)' \subseteq StartRegions(k)
                            /\ ListRegions(todo'[k]) \subseteq ListRegions(todo[k]),
         \A p \in PEs : ListRegions(copy_back'[p]) \subseteq ListRegions(copy_back[p])
  PROVE  Disjoint'
<1>1. \A j, k \in Clients : j # k => /\ StartRegions(j)' \cap StartRegions(k)' = {}
                                    /\ ListRegions(todo'[j]) \cap ListRegions(todo'[k]) = {}
  BY DEF Disjoint
<1>2. \A p, q \in PEs : p # q => ListRegions(copy_back'[p]) \cap ListRegions(copy_back'[q]) = {}
  BY DEF Disjoint
<1>3. \A j \in Clients, p \in PEs :
       /\ StartRegions(j)' \cap ListRegions(copy_back'[p]) = {}
       /\ ListRegions(todo'[j]) \cap ListRegions(copy_back'[p]) = {}
  BY SMT DEF Disjoint
<1>4. \A j, k \in Clients : StartRegions(j)' \cap ListRegions(todo'[k]) = {}
  BY SMT DEF Disjoint
<1> QED
  BY <1>1, <1>2, <1>3, <1>4 DEF Disjoint

\* None of these makes two owners of a region.
LEMMA DisjointKept == Disjoint /\ Tracked /\ RegionStep => Disjoint'
<1> SUFFICES ASSUME Disjoint, Tracked, RegionStep PROVE Disjoint'
  OBVIOUS
<1>1. CASE Quiet
  BY <1>1, DisjointShrinks DEF Quiet, StartsSame, ListsSame, TodosSame
<1>2. ASSUME NEW j \in Clients, NEW r \in Regions, Gets(j, r) PROVE Disjoint'
  <2>1. /\ \A k \in Clients : r \notin StartRegions(k) /\ r \notin ListRegions(todo[k])
        /\ \A p \in PEs : r \notin ListRegions(copy_back[p])
    BY <1>2 DEF Tracked, Refers, Gets
  <2>2. \A a, b \in Clients : a # b => /\ StartRegions(a)' \cap StartRegions(b)' = {}
                                      /\ ListRegions(todo'[a]) \cap ListRegions(todo'[b]) = {}
    BY SMT, <1>2, <2>1 DEF Disjoint, Gets, StartsSame, TodosSame
  <2>3. \A a, b \in PEs : a # b => ListRegions(copy_back'[a]) \cap ListRegions(copy_back'[b]) = {}
    BY <1>2, <2>1 DEF Disjoint, Gets, ListsSame
  <2>4. \A a \in Clients, b \in PEs : StartRegions(a)' \cap ListRegions(copy_back'[b]) = {}
    BY SMT, <1>2, <2>1 DEF Disjoint, Gets, StartsSame, ListsSame
  <2>5. \A a \in Clients, b \in PEs : ListRegions(todo'[a]) \cap ListRegions(copy_back'[b]) = {}
    BY <1>2, <2>1 DEF Disjoint, Gets, TodosSame, ListsSame
  <2>6. \A a, b \in Clients : StartRegions(a)' \cap ListRegions(todo'[b]) = {}
    BY SMT, <1>2, <2>1 DEF Disjoint, Gets, StartsSame, TodosSame
  <2> QED
    BY <2>2, <2>3, <2>4, <2>5, <2>6 DEF Disjoint
<1>3. ASSUME NEW j \in Clients, NEW p \in PEs, NEW r, Leaves(j, p, r) PROVE Disjoint'
  <2>1. /\ \A k \in Clients : (k # j => r \notin StartRegions(k)) /\ r \notin ListRegions(todo[k])
        /\ \A q \in PEs : r \notin ListRegions(copy_back[q])
    BY <1>3 DEF Disjoint, Leaves
  <2>2. \A a, b \in Clients : a # b => /\ StartRegions(a)' \cap StartRegions(b)' = {}
                                      /\ ListRegions(todo'[a]) \cap ListRegions(todo'[b]) = {}
    BY SMTT(20), <1>3, <2>1 DEF Disjoint, Leaves, StartsSame, TodosSame
  <2>3. \A a, b \in PEs : a # b => ListRegions(copy_back'[a]) \cap ListRegions(copy_back'[b]) = {}
    BY SMTT(20), <1>3, <2>1 DEF Disjoint, Leaves, ListsSame
  <2>4. \A a \in Clients, b \in PEs : StartRegions(a)' \cap ListRegions(copy_back'[b]) = {}
    BY SMTT(20), <1>3, <2>1 DEF Disjoint, Leaves, StartsSame, ListsSame
  <2>5. \A a \in Clients, b \in PEs : ListRegions(todo'[a]) \cap ListRegions(copy_back'[b]) = {}
    BY SMT, <1>3, <2>1 DEF Disjoint, Leaves, TodosSame, ListsSame
  <2>6. \A a, b \in Clients : StartRegions(a)' \cap ListRegions(todo'[b]) = {}
    BY <1>3, <2>1 DEF Disjoint, Leaves, StartsSame, TodosSame
  <2> QED
    BY <2>2, <2>3, <2>4, <2>5, <2>6 DEF Disjoint
<1>4. ASSUME NEW j \in Clients, Forgets(j) PROVE Disjoint'
  BY <1>4, DisjointShrinks DEF Forgets, StartsSame, ListsSame, TodosSame
<1>5. ASSUME NEW j \in Clients, NEW p \in PEs, Takes(j, p) PROVE Disjoint'
  <2>2. \A a, b \in Clients : a # b => /\ StartRegions(a)' \cap StartRegions(b)' = {}
                                      /\ ListRegions(todo'[a]) \cap ListRegions(todo'[b]) = {}
    BY SMT, <1>5 DEF Disjoint, Takes, StartsSame, TodosSame
  <2>3. \A a, b \in PEs : a # b => ListRegions(copy_back'[a]) \cap ListRegions(copy_back'[b]) = {}
    BY SMTT(20), <1>5 DEF Disjoint, Takes, ListsSame
  <2>4. \A a \in Clients, b \in PEs : StartRegions(a)' \cap ListRegions(copy_back'[b]) = {}
    BY SMTT(20), <1>5 DEF Disjoint, Takes, StartsSame, ListsSame
  <2>5. \A a \in Clients, b \in PEs : ListRegions(todo'[a]) \cap ListRegions(copy_back'[b]) = {}
    BY SMTT(20), <1>5 DEF Disjoint, Takes, TodosSame, ListsSame
  <2>6. \A a, b \in Clients : StartRegions(a)' \cap ListRegions(todo'[b]) = {}
    BY SMT, <1>5 DEF Disjoint, Takes, StartsSame, TodosSame
  <2> QED
    BY <2>2, <2>3, <2>4, <2>5, <2>6 DEF Disjoint
<1>6. ASSUME NEW j \in Clients, NEW r \in Regions, Frees(j, r) PROVE Disjoint'
  BY <1>6, DisjointShrinks DEF Frees, StartsSame, ListsSame, TodosSame
<1>7. ASSUME NEW j \in Clients, Abandons(j) PROVE Disjoint'
  BY <1>7, DisjointShrinks DEF Abandons, StartsSame, ListsSame, TodosSame
<1> QED
  BY <1>1, <1>2, <1>3, <1>4, <1>5, <1>6, <1>7 DEF RegionStep

\* What is referred to stays allocated, and without an error nothing else does.
LEMMA TrackedKept == TypeOK /\ Disjoint /\ Tracked /\ RegionStep => Tracked'
<1> SUFFICES ASSUME TypeOK, Disjoint, Tracked, RegionStep PROVE Tracked'
  OBVIOUS
<1>1. CASE Quiet
  <2>1. \A r : Refers(r)' <=> Refers(r)
    BY <1>1 DEF Refers, Quiet, StartsSame, ListsSame, TodosSame
  <2> QED
    BY <1>1, <2>1 DEF Tracked, Quiet
<1>2. ASSUME NEW j \in Clients, NEW r \in Regions, Gets(j, r) PROVE Tracked'
  <2>1. \A x : Refers(x)' <=> Refers(x) \/ x = r
    BY <1>2 DEF Refers, Gets, StartsSame, ListsSame, TodosSame
  <2> QED
    BY <1>2, <2>1 DEF Tracked, Gets
<1>3. ASSUME NEW j \in Clients, NEW p \in PEs, NEW r, Leaves(j, p, r) PROVE Tracked'
  <2>1. \A x : Refers(x)' <=> Refers(x)
    BY <1>3 DEF Refers, Leaves, StartsSame, ListsSame, TodosSame
  <2> QED
    BY <1>3, <2>1 DEF Tracked, Leaves
<1>4. ASSUME NEW j \in Clients, Forgets(j) PROVE Tracked'
  <2>1. \A x : Refers(x)' => Refers(x)
    BY <1>4 DEF Refers, Forgets, StartsSame, ListsSame, TodosSame
  <2> QED
    BY <1>4, <2>1 DEF Tracked, Forgets
<1>5. ASSUME NEW j \in Clients, NEW p \in PEs, Takes(j, p) PROVE Tracked'
  <2>1. \A x : Refers(x)' <=> Refers(x)
    BY <1>5 DEF Refers, Takes, StartsSame, ListsSame, TodosSame
  <2> QED
    BY <1>5, <2>1 DEF Tracked, Takes
<1>6. ASSUME NEW j \in Clients, NEW r \in Regions, Frees(j, r) PROVE Tracked'
  <2>1. \A x : x # r => (Refers(x)' <=> Refers(x))
    BY <1>6 DEF Refers, Frees, StartsSame, ListsSame, TodosSame
  <2>2. /\ \A k \in Clients : (k # j => r \notin ListRegions(todo[k])) /\ r \notin StartRegions(k)
        /\ \A q \in PEs : r \notin ListRegions(copy_back[q])
    BY <1>6 DEF Disjoint, Frees
  <2>3. ~ Refers(r)'
    BY <1>6, <2>2 DEF Refers, Frees, StartsSame, ListsSame, TodosSame
  <2> QED
    BY <1>6, <2>1, <2>3 DEF Tracked, Frees
<1>7. ASSUME NEW j \in Clients, Abandons(j) PROVE Tracked'
  <2>1. \A x : Refers(x)' => Refers(x)
    BY <1>7 DEF Refers, Abandons, StartsSame, ListsSame, TodosSame
  <2> QED
    BY <1>7, <2>1 DEF Tracked, Abandons
<1> QED
  BY <1>1, <1>2, <1>3, <1>4, <1>5, <1>6, <1>7 DEF RegionStep


\* The lists that a step leaves alone.
LEMMA ListsUntouched ==
  ASSUME RegionsOnce, UNCHANGED copy_back
  PROVE  ListsSame(PEs) /\ \A p \in PEs : ListOnce(copy_back'[p]) /\ Placed(copy_back'[p])
BY DEF RegionsOnce, ListsSame

LEMMA TodosUntouched ==
  ASSUME RegionsOnce, UNCHANGED todo
  PROVE  TodosSame(Clients) /\ \A k \in Clients : ListOnce(todo'[k]) /\ Placed(todo'[k])
BY DEF RegionsOnce, TodosSame

LEMMA StartsUntouched ==
  ASSUME RegionsOnce, NEW S \in SUBSET Clients,
         \A k \in S : pc'[k] = pc[k] /\ pos'[k] = pos[k] /\ regs'[k] = regs[k]
  PROVE  StartsSame(S) /\ \A k \in S : StartOnce(k)'
BY StartSame DEF RegionsOnce, StartsSame

\* A job outside the loops over its regions stays outside of them.
LEMMA StartsIdle ==
  ASSUME RegionsOnce, NEW j \in Clients,
         \A k \in Clients \ {j} : pc'[k] = pc[k] /\ pos'[k] = pos[k] /\ regs'[k] = regs[k],
         pc[j] \notin {"allocate", "transfer"},
         pc'[j] \notin {"allocate", "transfer"} \/ regs'[j] = <<>>
  PROVE  StartsSame(Clients) /\ \A k \in Clients : StartOnce(k)'
<1>1. StartsSame(Clients \ {j}) /\ \A k \in Clients \ {j} : StartOnce(k)'
  BY StartsUntouched
<1>2. StartRegions(j) = {} /\ StartRegions(j)' = {} /\ StartOnce(j)'
  BY StartNone, StartNonePrime
<1> QED
  BY <1>1, <1>2 DEF StartsSame

\* The end of a start.
LEMMA EndStartRegions ==
  ASSUME TypeOK, RegionsOnce, NEW j \in Clients, EndStart(j)
  PROVE  /\ StartsSame(Clients \ {j}) /\ StartRegions(j)' = {}
         /\ \A k \in Clients : StartOnce(k)'
<1>1. \A k \in Clients \ {j} : pc'[k] = pc[k] /\ pos'[k] = pos[k] /\ regs'[k] = regs[k]
  BY DEF TypeOK, EndStart, Goto
<1>2. regs'[j] = <<>>
  BY DEF TypeOK, EndStart
<1>3. StartsSame(Clients \ {j}) /\ \A k \in Clients \ {j} : StartOnce(k)'
  BY <1>1, StartsUntouched
<1>4. StartRegions(j)' = {} /\ StartOnce(j)'
  BY <1>2, StartNonePrime
<1> QED
  BY <1>3, <1>4

\* Every step keeps the regions of each list apart, and does one of the above.
LEMMA RegionSteps == JInv /\ Next => RegionsOnce' /\ RegionStep
<1> SUFFICES ASSUME JInv, Next PROVE RegionsOnce' /\ RegionStep
  OBVIOUS
<1>t. TypeOK /\ RegionsOnce /\ \A k \in Clients : Stage(k)
  BY DEF JInv
<1>s. None \notin Regions
  BY JobAssumption
<1>u. /\ copy_back \in [PEs -> Seq(CopyBacks)] /\ todo \in [Clients -> Seq(CopyBacks)]
      /\ errors \in Nat /\ None \notin allocated
  BY <1>t, <1>s DEF TypeOK
<1>v. /\ \A k \in Clients : StartOnce(k) /\ ListOnce(todo[k]) /\ Placed(todo[k])
      /\ \A p \in PEs : ListOnce(copy_back[p]) /\ Placed(copy_back[p])
  BY <1>t DEF RegionsOnce
<1>n. errors + 1 # 0
  BY SMT, <1>u
\* A job changes, no list does.
<1>a. ASSUME NEW j \in Clients, UNCHANGED <<copy_back, todo, allocated>>,
             errors' = errors \/ errors' = errors + 1,
             \A k \in Clients \ {j} : pc'[k] = pc[k] /\ pos'[k] = pos[k] /\ regs'[k] = regs[k],
             pc[j] \notin {"allocate", "transfer"},
             pc'[j] \notin {"allocate", "transfer"} \/ regs'[j] = <<>>
      PROVE  RegionsOnce' /\ RegionStep
  <2>1. StartsSame(Clients) /\ \A k \in Clients : StartOnce(k)'
    BY <1>a, <1>t, StartsIdle
  <2>2. ListsSame(PEs) /\ \A p \in PEs : ListOnce(copy_back'[p]) /\ Placed(copy_back'[p])
    BY <1>a, <1>t, ListsUntouched
  <2>3. TodosSame(Clients) /\ \A k \in Clients : ListOnce(todo'[k]) /\ Placed(todo'[k])
    BY <1>a, <1>t, TodosUntouched
  <2>4. Quiet
    BY <1>a, <1>n, <2>1, <2>2, <2>3 DEF Quiet
  <2> QED
    BY <2>1, <2>2, <2>3, <2>4 DEF RegionsOnce, RegionStep
<1>b. ASSUME NEW j \in Clients,
             \/ Acquire(j) \/ AcquireFromSingle(j) \/ Start(j) \/ CopiedBack(j)
      PROVE  RegionsOnce' /\ RegionStep
  <2>1. UNCHANGED <<copy_back, todo, allocated, errors>>
    BY <1>b DEF Acquire, AcquireFromSingle, Start, CopiedBack, peVars
  <2>2. /\ \A k \in Clients \ {j} : pc'[k] = pc[k] /\ pos'[k] = pos[k] /\ regs'[k] = regs[k]
        /\ pc[j] \notin {"allocate", "transfer"}
        /\ pc'[j] \notin {"allocate", "transfer"} \/ regs'[j] = <<>>
    BY SMTT(20), <1>b, <1>t DEF Acquire, AcquireFromSingle, Start, CopiedBack, EndRelease, Goto, TypeOK,
                       params
  <2> QED
    BY <1>a, <2>1, <2>2
\* Nothing changes.
<1>c. ASSUME UNCHANGED <<copy_back, todo, allocated, errors, pc, params>>
      PROVE  RegionsOnce' /\ RegionStep
  <2>1. StartsSame(Clients) /\ \A k \in Clients : StartOnce(k)'
    BY <1>c, <1>t, StartsUntouched DEF params
  <2>2. ListsSame(PEs) /\ \A p \in PEs : ListOnce(copy_back'[p]) /\ Placed(copy_back'[p])
    BY <1>c, <1>t, ListsUntouched
  <2>3. TodosSame(Clients) /\ \A k \in Clients : ListOnce(todo'[k]) /\ Placed(todo'[k])
    BY <1>c, <1>t, TodosUntouched
  <2>4. Quiet
    BY <1>c, <2>1, <2>2, <2>3 DEF Quiet
  <2> QED
    BY <2>1, <2>2, <2>3, <2>4 DEF RegionsOnce, RegionStep
<1>d. ASSUME NEW j \in Clients, Wait(j) \/ TryRelease(j) PROVE RegionsOnce' /\ RegionStep
  BY <1>c, <1>d DEF Wait, TryRelease, vars, peVars
<1>e. (\E p \in PEs : Finish(p)) \/ AcquireSingle \/ ReleaseSingle \/ Done
        => RegionsOnce' /\ RegionStep
  BY <1>c DEF Finish, AcquireSingle, ReleaseSingle, Done, vars, peVars
\* A start ends, with an error when it still has regions.
<1>f. ASSUME NEW j \in Clients, EndStart(j), UNCHANGED <<copy_back, todo, allocated>>,
             errors' = errors + 1 \/ (errors' = errors /\ pc[j] = "launch")
      PROVE  RegionsOnce' /\ RegionStep
  <2>1. /\ StartsSame(Clients \ {j}) /\ StartRegions(j)' = {}
        /\ \A k \in Clients : StartOnce(k)'
    BY <1>f, <1>t, EndStartRegions
  <2>2. ListsSame(PEs) /\ \A p \in PEs : ListOnce(copy_back'[p]) /\ Placed(copy_back'[p])
    BY <1>f, <1>t, ListsUntouched
  <2>3. TodosSame(Clients) /\ \A k \in Clients : ListOnce(todo'[k]) /\ Placed(todo'[k])
    BY <1>f, <1>t, TodosUntouched
  <2>4. CASE errors' = errors + 1
    <3>1. Forgets(j)
      BY <1>f, <1>n, <2>1, <2>2, <2>3, <2>4 DEF Forgets
    <3> QED
      BY <2>1, <2>2, <2>3, <3>1 DEF RegionsOnce, RegionStep
  <2>5. CASE errors' = errors /\ pc[j] = "launch"
    <3>1. StartRegions(j) = {}
      BY <2>5, StartNone
    <3>2. Quiet
      BY <1>f, <2>1, <2>2, <2>3, <2>5, <3>1 DEF Quiet, StartsSame
    <3> QED
      BY <2>1, <2>2, <2>3, <3>2 DEF RegionsOnce, RegionStep
  <2> QED
    BY <1>f, <2>4, <2>5
<1>g. ASSUME NEW j \in Clients, TransferFails(j) \/ Launch(j) PROVE RegionsOnce' /\ RegionStep
  <2>1. /\ EndStart(j) /\ UNCHANGED <<copy_back, todo, allocated>>
        /\ errors' = errors + 1 \/ (errors' = errors /\ pc[j] = "launch")
    BY <1>g, EndCases
  <2> QED
    BY <1>f, <2>1
<1>h. ASSUME NEW j \in Clients, AllocateArg(j) PROVE RegionsOnce' /\ RegionStep
  <2>1. /\ AtArg(j, "allocate", pos[j]) /\ pos[j] \in DOMAIN args[j]
        /\ UNCHANGED <<copy_back, todo>>
    BY <1>h, <1>t, AllocateCases DEF peVars
  <2>2. CASE EndStart(j) /\ errors' = errors + 1 /\ UNCHANGED allocated
    BY <1>f, <2>1, <2>2
  <2>3. ASSUME NEW r \in Regions \cup {None}, r \notin allocated,
               allocated' = allocated \cup ({r} \ {None}),
               regs' = [regs EXCEPT ![j] = Append(@, r)], NextArg(j), UNCHANGED <<args, errors>>
        PROVE  RegionsOnce' /\ RegionStep
    <3>1. ListsSame(PEs) /\ \A p \in PEs : ListOnce(copy_back'[p]) /\ Placed(copy_back'[p])
      BY <1>t, <2>1, ListsUntouched
    <3>2. TodosSame(Clients) /\ \A k \in Clients : ListOnce(todo'[k]) /\ Placed(todo'[k])
      BY <1>t, <2>1, TodosUntouched
    <3>3. \A k \in Clients \ {j} : pc'[k] = pc[k] /\ pos'[k] = pos[k] /\ regs'[k] = regs[k]
      BY <1>t, <2>3 DEF TypeOK, NextArg, Goto
    <3>4. StartsSame(Clients \ {j}) /\ \A k \in Clients \ {j} : StartOnce(k)'
      BY <1>t, <3>3, StartsUntouched
    <3>5. r \notin StartRegions(j)
      <4>1. CASE r = None
        BY <4>1 DEF StartRegions
      <4>2. CASE r \in Regions
        BY <2>3, <4>2 DEF JInv, Tracked, Refers
      <4> QED
        BY <4>1, <4>2
    <3>6. StartRegions(j)' = StartRegions(j) \cup ({r} \ {None}) /\ StartOnce(j)'
      BY <1>t, <1>v, <2>1, <2>3, <3>5, StartAllocates
    <3>7. RegionsOnce'
      BY <3>1, <3>2, <3>4, <3>6 DEF RegionsOnce
    <3>8. CASE r = None
      <4>1. Quiet
        BY <2>3, <3>1, <3>2, <3>4, <3>6, <3>8 DEF Quiet, StartsSame
      <4> QED
        BY <3>7, <4>1 DEF RegionStep
    <3>9. CASE r \in Regions
      <4>1. {r} \ {None} = {r}
        BY <1>s, <3>9
      <4>2. Gets(j, r)
        BY <2>3, <3>1, <3>2, <3>4, <3>6, <3>9, <4>1 DEF Gets
      <4> QED
        BY <3>7, <3>9, <4>2 DEF RegionStep
    <3> QED
      BY <3>8, <3>9
  <2> QED
    BY <1>h, <1>t, <2>2, <2>3, AllocateCases
\* A copy back is added for the parameter.
<1>i. ASSUME NEW j \in Clients, NEW e \in CopyBacks, pe[j] \in PEs,
             e.region # None <=> NeedsRegion(e.kind), e.region \notin ListRegions(copy_back[pe[j]]),
             copy_back'[pe[j]] = Append(copy_back[pe[j]], e),
             \A p \in PEs : p # pe[j] => copy_back'[p] = copy_back[p]
      PROVE  /\ ListsSame(PEs \ {pe[j]})
             /\ ListRegions(copy_back'[pe[j]]) = ListRegions(copy_back[pe[j]]) \cup ({e.region} \ {None})
             /\ \A p \in PEs : ListOnce(copy_back'[p]) /\ Placed(copy_back'[p])
  <2>1. ListsSame(PEs \ {pe[j]})
    BY <1>i DEF ListsSame
  <2>2. \A p \in PEs : p # pe[j] => ListOnce(copy_back'[p]) /\ Placed(copy_back'[p])
    BY <1>i, <1>v
  <2>3. copy_back[pe[j]] \in Seq(CopyBacks) /\ ListOnce(copy_back[pe[j]]) /\ Placed(copy_back[pe[j]])
    BY <1>i, <1>u, <1>v
  <2>4. /\ ListRegions(copy_back'[pe[j]]) = ListRegions(copy_back[pe[j]]) \cup ({e.region} \ {None})
        /\ ListOnce(copy_back'[pe[j]]) /\ Placed(copy_back'[pe[j]])
    BY <1>i, <2>3, RegionsAppend
  <2> QED
    BY <2>1, <2>2, <2>4
<1>j. ASSUME NEW j \in Clients, TransferArg(j) PROVE RegionsOnce' /\ RegionStep
  <2>1. /\ pc[j] = "transfer" /\ pos[j] \in DOMAIN args[j] /\ NextArg(j)
        /\ UNCHANGED <<allocated, pe, args, regs, todo, errors>>
        /\ \/ NeedsRegion(args[j][pos[j]]) /\ AddCopyback(j, pos[j])
           \/ ~ NeedsRegion(args[j][pos[j]]) /\ UNCHANGED copy_back
    BY <1>j, TransferCases
  <2> DEFINE r == regs[j][pos[j]]
  <2>2. /\ StartRegions(j)' = StartRegions(j) \ {r} /\ StartOnce(j)'
        /\ r \in StartRegions(j) \cup {None} /\ pos[j] \in DOMAIN regs[j]
    BY <1>t, <1>v, <2>1, StartTransfers
  <2>3. NeedsRegion(args[j][pos[j]]) <=> r # None
    BY <1>t, <2>2 DEF Stage
  <2>4. \A k \in Clients \ {j} : pc'[k] = pc[k] /\ pos'[k] = pos[k] /\ regs'[k] = regs[k]
    BY <1>t, <2>1 DEF TypeOK, NextArg, Goto
  <2>5. StartsSame(Clients \ {j}) /\ \A k \in Clients \ {j} : StartOnce(k)'
    BY <1>t, <2>4, StartsUntouched
  <2>6. TodosSame(Clients) /\ \A k \in Clients : ListOnce(todo'[k]) /\ Placed(todo'[k])
    BY <1>t, <2>1, TodosUntouched
  <2>7. CASE ~ NeedsRegion(args[j][pos[j]]) /\ UNCHANGED copy_back
    <3>1. ListsSame(PEs) /\ \A p \in PEs : ListOnce(copy_back'[p]) /\ Placed(copy_back'[p])
      BY <1>t, <2>7, ListsUntouched
    <3>2. StartRegions(j)' = StartRegions(j)
      BY <2>2, <2>3, <2>7 DEF StartRegions
    <3>3. Quiet
      BY <2>1, <2>5, <2>6, <3>1, <3>2 DEF Quiet, StartsSame
    <3> QED
      BY <2>2, <2>5, <2>6, <3>1, <3>3 DEF RegionsOnce, RegionStep
  <2>8. CASE NeedsRegion(args[j][pos[j]]) /\ AddCopyback(j, pos[j])
    <3>1. pc[j] \in Starting \ {"allocate"} /\ args[j][pos[j]] \in {"in", "out", "c2h", "h2c"}
      BY <2>1, <2>8 DEF Starting, Loops, NeedsRegion
    <3>2. PICK e \in CopyBacks :
             /\ e.kind = args[j][pos[j]] /\ e.region = r
             /\ copy_back'[pe[j]] = Append(copy_back[pe[j]], e)
             /\ \A p \in PEs : p # pe[j] => copy_back'[p] = copy_back[p]
      BY <1>t, <2>1, <2>8, <3>1, Added
    <3>3. pe[j] \in PEs
      BY <1>t, <2>1, <3>1, EntryTypes
    <3>4. r \in StartRegions(j) /\ r # None
      BY <2>2, <2>3, <2>8
    <3>5. r \notin ListRegions(copy_back[pe[j]])
      BY <3>3, <3>4 DEF JInv, Disjoint
    <3> HIDE DEF r
    <3>6. /\ ListsSame(PEs \ {pe[j]})
          /\ ListRegions(copy_back'[pe[j]]) = ListRegions(copy_back[pe[j]]) \cup ({e.region} \ {None})
          /\ \A p \in PEs : ListOnce(copy_back'[p]) /\ Placed(copy_back'[p])
      BY <1>i, <2>3, <3>2, <3>3, <3>5
    <3>7. {e.region} \ {None} = {r}
      BY <3>2, <3>4
    <3>8. Leaves(j, pe[j], r)
      BY <2>1, <2>2, <2>5, <2>6, <3>4, <3>6, <3>7 DEF Leaves
    <3>9. RegionsOnce'
      BY <2>2, <2>5, <2>6, <3>6 DEF RegionsOnce
    <3> QED
      BY <3>3, <3>8, <3>9 DEF RegionStep
  <2> QED
    BY <2>1, <2>7, <2>8
<1>k. ASSUME NEW j \in Clients, StreamArg(j) PROVE RegionsOnce' /\ RegionStep
  <2>1. pc[j] = "streams" /\ pos[j] \in DOMAIN args[j] /\ UNCHANGED <<allocated, pe, todo>>
    BY <1>k, StreamCases
  <2>2. CASE EndStart(j) /\ errors' = errors + 1 /\ UNCHANGED copy_back
    BY <1>f, <2>1, <2>2
  <2>3. ASSUME NextArg(j)
        PROVE  pc'[j] \notin {"allocate", "transfer"}
               /\ (UNCHANGED regs => \A k \in Clients \ {j} :
                     pc'[k] = pc[k] /\ pos'[k] = pos[k] /\ regs'[k] = regs[k])
    BY <1>t, <2>1, <2>3 DEF TypeOK, NextArg, Goto, AfterLoop
  <2>4. CASE NextArg(j) /\ UNCHANGED <<copy_back, args, regs, errors>>
    BY <1>a, <2>1, <2>3, <2>4
  <2>5. CASE /\ args[j][pos[j]] \in {"c2h", "h2c"} /\ AddCopyback(j, pos[j]) /\ NextArg(j)
             /\ UNCHANGED <<args, regs, errors>>
    <3>1. pc[j] \in Starting \ {"allocate"} /\ args[j][pos[j]] \in {"in", "out", "c2h", "h2c"}
      BY <2>1, <2>5 DEF Starting, Loops
    <3>2. PICK e \in CopyBacks :
             /\ e.kind = args[j][pos[j]] /\ e.region = regs[j][pos[j]]
             /\ copy_back'[pe[j]] = Append(copy_back[pe[j]], e)
             /\ \A p \in PEs : p # pe[j] => copy_back'[p] = copy_back[p]
      BY <1>t, <2>1, <2>5, <3>1, Added
    <3>3. pe[j] \in PEs /\ pos[j] \in DOMAIN regs[j]
      BY <1>t, <2>1, <3>1, EntryTypes
    <3>4. ~ NeedsRegion(e.kind) /\ e.region = None
      BY SMTT(20), <1>t, <2>5, <3>2, <3>3 DEF Stage, NeedsRegion
    <3>5. None \notin ListRegions(copy_back[pe[j]])
      BY DEF ListRegions
    <3>6. /\ ListsSame(PEs \ {pe[j]})
          /\ ListRegions(copy_back'[pe[j]]) = ListRegions(copy_back[pe[j]]) \cup ({e.region} \ {None})
          /\ \A p \in PEs : ListOnce(copy_back'[p]) /\ Placed(copy_back'[p])
      BY <1>i, <3>2, <3>3, <3>4, <3>5
    <3>7. ListsSame(PEs)
      BY <3>4, <3>6 DEF ListsSame
    <3>8. StartsSame(Clients) /\ \A k \in Clients : StartOnce(k)'
      BY <1>t, <2>1, <2>3, <2>5, StartsIdle
    <3>9. TodosSame(Clients) /\ \A k \in Clients : ListOnce(todo'[k]) /\ Placed(todo'[k])
      BY <1>t, <2>1, TodosUntouched
    <3>10. Quiet
      BY <2>1, <2>5, <3>7, <3>8, <3>9 DEF Quiet
    <3> QED
      BY <3>6, <3>8, <3>9, <3>10 DEF RegionsOnce, RegionStep
  <2> QED
    BY <1>k, <2>2, <2>4, <2>5, StreamCases
\* The lists of the jobs.
<1>l. ASSUME NEW j \in Clients, Release(j) \/ ReleaseKeeping(j) PROVE RegionsOnce' /\ RegionStep
  <2>1. /\ pc[j] = "ready" /\ pe[j] \in PEs /\ pc' = [pc EXCEPT ![j] = "copyback"]
        /\ todo' = [todo EXCEPT ![j] = copy_back[pe[j]]]
        /\ copy_back' = [copy_back EXCEPT ![pe[j]] = <<>>]
        /\ UNCHANGED <<allocated, params, errors>>
    BY <1>l, <1>t, ReleaseCases DEF Goto
  <2>2. /\ \A k \in Clients \ {j} : pc'[k] = pc[k] /\ pos'[k] = pos[k] /\ regs'[k] = regs[k]
        /\ pc'[j] = "copyback"
    BY <1>t, <2>1 DEF TypeOK, params
  <2>3. StartsSame(Clients) /\ \A k \in Clients : StartOnce(k)'
    BY <1>t, <2>1, <2>2, StartsIdle
  <2>4. todo[j] = <<>> /\ todo'[j] = copy_back[pe[j]] /\ copy_back'[pe[j]] = <<>>
    BY <1>t, <1>u, <2>1 DEF Stage
  <2>5. /\ \A k \in Clients \ {j} : todo'[k] = todo[k]
        /\ \A p \in PEs \ {pe[j]} : copy_back'[p] = copy_back[p]
    BY <1>u, <2>1
  <2>6. TodosSame(Clients \ {j}) /\ ListsSame(PEs \ {pe[j]})
    BY <2>5 DEF TodosSame, ListsSame
  <2>7. Takes(j, pe[j])
    BY <2>1, <2>3, <2>4, <2>6, RegionsEmpty DEF Takes
  <2>8. RegionsOnce'
    BY <1>v, <2>1, <2>3, <2>4, <2>5, RegionsEmpty DEF RegionsOnce
  <2> QED
    BY <2>1, <2>7, <2>8 DEF RegionStep
<1>m. ASSUME NEW j \in Clients, NEW l, todo' = [todo EXCEPT ![j] = l], ListOnce(l), Placed(l),
             UNCHANGED <<copy_back, params>>, UNCHANGED pc \/ EndRelease(j), pc[j] = "copyback"
      PROVE  /\ RegionsOnce' /\ StartsSame(Clients) /\ ListsSame(PEs) /\ TodosSame(Clients \ {j})
             /\ todo'[j] = l
  <2>1. /\ \A k \in Clients \ {j} : pc'[k] = pc[k] /\ pos'[k] = pos[k] /\ regs'[k] = regs[k]
        /\ pc'[j] \notin {"allocate", "transfer"}
    BY <1>m, <1>t DEF TypeOK, params, EndRelease, Goto
  <2>2. StartsSame(Clients) /\ \A k \in Clients : StartOnce(k)'
    BY <1>m, <1>t, <2>1, StartsIdle
  <2>3. ListsSame(PEs) /\ \A p \in PEs : ListOnce(copy_back'[p]) /\ Placed(copy_back'[p])
    BY <1>m, <1>t, ListsUntouched
  <2>4. todo'[j] = l /\ \A k \in Clients \ {j} : todo'[k] = todo[k]
    BY <1>m, <1>u
  <2>5. TodosSame(Clients \ {j})
    BY <2>4 DEF TodosSame
  <2>6. RegionsOnce'
    BY <1>m, <1>v, <2>2, <2>3, <2>4 DEF RegionsOnce
  <2> QED
    BY <2>2, <2>3, <2>4, <2>5, <2>6
<1>o. ASSUME NEW j \in Clients, CopyBack(j) PROVE RegionsOnce' /\ RegionStep
  <2>1. /\ pc[j] = "copyback" /\ todo[j] # <<>> /\ todo' = [todo EXCEPT ![j] = Tail(todo[j])]
        /\ UNCHANGED <<copy_back, params, pc, errors>>
        /\ allocated' = allocated \ {Head(todo[j]).region}
    BY <1>o DEF CopyBack, peVars
  <2>2. todo[j] \in Seq(CopyBacks) /\ ListOnce(todo[j]) /\ Placed(todo[j])
    BY <1>u, <1>v
  <2>3. /\ ListRegions(Tail(todo[j])) = ListRegions(todo[j]) \ {Head(todo[j]).region}
        /\ Head(todo[j]).region \in ListRegions(todo[j]) \cup {None}
        /\ ListOnce(Tail(todo[j])) /\ Placed(Tail(todo[j]))
    BY <2>1, <2>2, RegionsTail
  <2>4. /\ RegionsOnce' /\ StartsSame(Clients) /\ ListsSame(PEs) /\ TodosSame(Clients \ {j})
        /\ todo'[j] = Tail(todo[j])
    BY <1>m, <2>1, <2>3
  <2>5. CASE Head(todo[j]).region = None
    <3>1. None \notin ListRegions(todo[j])
      BY DEF ListRegions
    <3>2. ListRegions(todo'[j]) = ListRegions(todo[j])
      BY <2>3, <2>4, <2>5, <3>1
    <3>3. Quiet
      BY <1>u, <2>1, <2>4, <2>5, <3>2 DEF Quiet, TodosSame
    <3> QED
      BY <2>4, <3>3 DEF RegionStep
  <2>6. CASE Head(todo[j]).region # None
    <3>1. Frees(j, Head(todo[j]).region)
      BY <2>1, <2>3, <2>4, <2>6 DEF Frees
    <3>2. Head(todo[j]) \in CopyBacks
      BY <2>1, <2>2, EntriesTail
    <3>3. Head(todo[j]).region \in Regions
      BY <2>6, <3>2 DEF CopyBacks
    <3> QED
      BY <2>4, <3>1, <3>3 DEF RegionStep
  <2> QED
    BY <2>5, <2>6
<1>p. ASSUME NEW j \in Clients, CopyBackFails(j) PROVE RegionsOnce' /\ RegionStep
  <2>1. /\ pc[j] = "copyback" /\ todo' = [todo EXCEPT ![j] = <<>>] /\ errors' = errors + 1
        /\ EndRelease(j) /\ UNCHANGED <<copy_back, params, allocated>>
    BY <1>p DEF CopyBackFails, peVars
  <2>2. /\ RegionsOnce' /\ StartsSame(Clients) /\ ListsSame(PEs) /\ TodosSame(Clients \ {j})
        /\ todo'[j] = <<>>
    BY <1>m, <2>1, RegionsEmpty
  <2>3. Abandons(j)
    BY <1>n, <2>1, <2>2, RegionsEmpty DEF Abandons
  <2> QED
    BY <2>2, <2>3 DEF RegionStep
<1> QED
  BY <1>b, <1>d, <1>e, <1>g, <1>h, <1>j, <1>k, <1>l, <1>o, <1>p DEF Next, JobStep


-----------------------------------------------------------------------------
(* Results *)

\* The run a start works on has not been launched.
LEMMA NotLaunched ==
  ASSUME JInv, NEW j \in Clients, pc[j] \in Starting
  PROVE  Run(j) \notin launched
<1>1. starts[j] \in 0 .. Starts /\ Starts \in Nat
  BY JobAssumption DEF JInv, TypeOK
<1>2. <<j, starts[j]>> \in launched => starts[j] > starts[j]
  BY <1>1 DEF JInv, Launched
<1>3. ~ (starts[j] > starts[j])
  BY SMT, <1>1
<1> QED
  BY <1>2, <1>3 DEF Run

\* A PE whose completion was seen is not running.
LEMMA CompletedIdle ==
  ASSUME JInv, NEW p \in PEs, Completed(p)
  PROVE  running[p] = None
<1>1. Hardware(p) /\ eventfd[p] \in Nat
  BY DEF JInv, TypeOK
<1> QED
  BY SMT, <1>1 DEF Hardware, Completed

\* An output is in a region, and in that of no other copy back.
LEMMA OutRegion ==
  ASSUME NEW s \in Seq(CopyBacks), Placed(s), NEW e \in Entries(s), e.kind = "out"
  PROVE  e.region \in Regions /\ e.region \in ListRegions(s)
<1>1. e \in CopyBacks
  BY EntriesTypes
<1>2. e.region # None
  BY DEF Placed, NeedsRegion
<1> QED
  BY <1>1, <1>2 DEF CopyBacks, ListRegions

\* Steps that neither add a copy back nor launch or finish a run.
LEMMA ResultsSame ==
  ASSUME Results, UNCHANGED <<content, launched, running>>,
         \A p \in PEs : Entries(copy_back'[p]) \subseteq Entries(copy_back[p]),
         \A k \in Clients : Entries(todo'[k]) \subseteq Entries(todo[k])
  PROVE  Results'
BY DEF Results

\* The hardware's variables change when a run is launched or finishes.
LEMMA RunCases ==
  ASSUME Next
  PROVE  \/ UNCHANGED <<content, launched, running>>
         \/ \E j \in Clients : Launch(j)
         \/ \E p \in PEs : Finish(p)
<1>1. ASSUME NEW j \in Clients,
             \/ Acquire(j) \/ AcquireFromSingle(j) \/ Start(j) \/ TryRelease(j) \/ CopyBack(j)
             \/ CopyBackFails(j) \/ CopiedBack(j) \/ TransferFails(j) \/ Wait(j)
             \/ AllocateArg(j) \/ TransferArg(j) \/ StreamArg(j) \/ Release(j) \/ ReleaseKeeping(j)
      PROVE  UNCHANGED <<content, launched, running>>
  BY <1>1 DEF Acquire, AcquireFromSingle, Start, TryRelease, CopyBack, CopyBackFails, CopiedBack,
              TransferFails, Wait, AllocateArg, TransferArg, StreamArg, Release, ReleaseKeeping,
              hw, vars
<1>2. AcquireSingle \/ ReleaseSingle \/ Done => UNCHANGED <<content, launched, running>>
  BY DEF AcquireSingle, ReleaseSingle, Done, hw, vars
<1> QED
  BY <1>1, <1>2 DEF Next, JobStep

LEMMA ResultsKept == JInv /\ Next => Results'
<1> SUFFICES ASSUME JInv, Next PROVE Results'
  OBVIOUS
<1>t. TypeOK /\ Results /\ RegionsOnce /\ Disjoint /\ Mine /\ \A k \in Clients : Stage(k)
  BY DEF JInv
<1>u. /\ copy_back \in [PEs -> Seq(CopyBacks)] /\ todo \in [Clients -> Seq(CopyBacks)]
      /\ content \in [Regions -> Runs \cup {None}] /\ running \in [PEs -> Runs \cup {None}]
  BY <1>t DEF TypeOK
<1>v. /\ \A p \in PEs : \A e \in Entries(copy_back[p]) :
           e.kind = "out" /\ e.run \in launched /\ e.run # running[p] => content[e.region] = e.run
      /\ \A k \in Clients : \A e \in Entries(todo[k]) :
           e.kind = "out" /\ e.run \in launched => content[e.region] = e.run
  BY <1>t DEF Results
<1>w. /\ \A p \in PEs : \A e \in Entries(copy_back[p]) : e.run \in Runs /\ e.run # None
      /\ \A p \in PEs : \A e \in Entries(copy_back[p]) : pe[e.run[1]] = p
      /\ \A k \in Clients : \A e \in Entries(todo[k]) : e.run[1] = k
  BY SMT, <1>t, <1>u, EntriesTypes, RunOf, JobAssumption DEF Mine
<1>r. /\ \A p \in PEs : \A e \in Entries(copy_back[p]) :
           e.kind = "out" => e.region \in Regions /\ e.region \in ListRegions(copy_back[p])
      /\ \A k \in Clients : \A e \in Entries(todo[k]) :
           e.kind = "out" => e.region \in Regions /\ e.region \in ListRegions(todo[k])
  BY <1>t, <1>u, OutRegion DEF RegionsOnce
\* A copy back is added before its run is launched.
<1>a. ASSUME NEW j \in Clients, NEW x \in CopyBacks, TransferArg(j) \/ StreamArg(j),
             x.run = Run(j), pe[j] \in PEs,
             copy_back'[pe[j]] = Append(copy_back[pe[j]], x),
             \A p \in PEs : p # pe[j] => copy_back'[p] = copy_back[p]
      PROVE  Results'
  <2>1. UNCHANGED <<content, launched, running, todo>> /\ pc[j] \in Starting
    BY <1>a, TransferCases, StreamCases DEF hw, Starting, Loops
  <2>2. x.run \notin launched
    BY <1>a, <2>1, NotLaunched
  <2>3. copy_back[pe[j]] \in Seq(CopyBacks)
    BY <1>a, <1>u
  <2>4. Entries(Append(copy_back[pe[j]], x)) = Entries(copy_back[pe[j]]) \cup {x}
    BY SMT, <2>3, EntriesAppend
  <2>5. \A p \in PEs : \A e \in Entries(copy_back'[p]) : e = x \/ e \in Entries(copy_back[p])
    BY <1>a, <2>4
  <2> QED
    BY <1>v, <2>1, <2>2, <2>5 DEF Results
\* The job takes the copy backs of a PE that has finished.
<1>b. ASSUME NEW j \in Clients, Release(j) \/ ReleaseKeeping(j) PROVE Results'
  <2>1. /\ pe[j] \in PEs /\ Completed(pe[j]) /\ UNCHANGED <<content, launched, running>>
        /\ todo' = [todo EXCEPT ![j] = copy_back[pe[j]]]
        /\ copy_back' = [copy_back EXCEPT ![pe[j]] = <<>>]
    BY <1>b, <1>t, ReleaseCases DEF hw
  <2>2. running[pe[j]] = None
    BY <2>1, CompletedIdle
  <2>3. \A p \in PEs : Entries(copy_back'[p]) \subseteq Entries(copy_back[p])
    BY <1>u, <2>1, EntriesEmpty
  <2>4. todo'[j] = copy_back[pe[j]] /\ \A k \in Clients : k # j => todo'[k] = todo[k]
    BY <1>u, <2>1
  <2>5. \A e \in Entries(todo'[j]) :
          e.kind = "out" /\ e.run \in launched => content[e.region] = e.run
    BY SMTT(20), <1>v, <1>w, <2>1, <2>2, <2>4
  <2> QED
    BY SMTT(20), <1>v, <2>1, <2>3, <2>4, <2>5 DEF Results
<1>c. ASSUME NEW j \in Clients, todo' = todo \/ todo' = [todo EXCEPT ![j] = Tail(@)]
                                \/ todo' = [todo EXCEPT ![j] = <<>>],
             todo' # todo => todo[j] # <<>>, 
             UNCHANGED <<content, launched, running, copy_back>>
      PROVE  Results'
  <2>1. todo[j] \in Seq(CopyBacks)
    BY <1>u
  <2>2. todo[j] # <<>> => Entries(Tail(todo[j])) \subseteq Entries(todo[j])
    BY SMT, <2>1, EntriesTail
  <2>3. \A k \in Clients : Entries(todo'[k]) \subseteq Entries(todo[k])
    BY <1>c, <1>u, <2>2, EntriesEmpty
  <2> QED
    BY <1>c, <1>t, <2>3, ResultsSame
\* The launched run is that of the PE, and no list of a job has copy backs of it.
<1>d. ASSUME NEW j \in Clients, Launch(j) PROVE Results'
  <2>1. /\ pc[j] = "launch" /\ pe[j] \in PEs /\ todo[j] = <<>>
        /\ UNCHANGED <<content, copy_back, todo>>
    BY <1>d, <1>t DEF Launch, Stage, Starting
  <2>2. CASE UNCHANGED <<launched, running>>
    BY <1>t, <2>1, <2>2, ResultsSame
  <2>3. CASE /\ ~ active[pe[j]] /\ launched' = launched \cup {Run(j)}
             /\ running' = [running EXCEPT ![pe[j]] = Run(j)]
    <3>1. running[pe[j]] = None
      BY <2>1, <2>3 DEF JInv, Hardware
    <3>2. running'[pe[j]] = Run(j) /\ \A p \in PEs : p # pe[j] => running'[p] = running[p]
      BY <1>u, <2>1, <2>3
    <3>3. Run(j)[1] = j
      BY DEF Run
    <3>4. ASSUME NEW p \in PEs, NEW e \in Entries(copy_back[p]), e.kind = "out",
                 e.run \in launched', e.run # running'[p]
          PROVE  content[e.region] = e.run
      <4>1. CASE e.run = Run(j)
        <5>1. pe[j] = p
          BY SMT, <1>w, <3>3, <4>1
        <5> QED
          BY <3>2, <3>4, <4>1, <5>1
      <4>2. CASE e.run # Run(j)
        <5>1. e.run \in launched
          BY <2>3, <3>4, <4>2
        <5>2. e.run # running[p]
          BY <1>w, <3>1, <3>2, <3>4
        <5> QED
          BY <1>v, <3>4, <5>1, <5>2
      <4> QED
        BY <4>1, <4>2
    <3>5. ASSUME NEW k \in Clients, NEW e \in Entries(todo[k]), e.kind = "out", e.run \in launched'
          PROVE  content[e.region] = e.run
      <4>1. e.run # Run(j)
        BY SMT, <1>w, <2>1, <3>3, EntriesEmpty
      <4>2. e.run \in launched
        BY <2>3, <3>5, <4>1
      <4> QED
        BY <1>v, <3>5, <4>2
    <3> QED
      BY <2>1, <3>4, <3>5 DEF Results
  <2> QED
    BY <1>d, <2>2, <2>3 DEF Launch
\* A finishing run writes the regions of its own copy backs only.
<1>e. ASSUME NEW p \in PEs, Finish(p) PROVE Results'
  <2> DEFINE out == {e.region : e \in {x \in Entries(copy_back[p]) :
                                         x.kind = "out" /\ x.run = running[p]}}
  <2>1. /\ running[p] # None /\ UNCHANGED <<copy_back, todo, launched>>
        /\ content' = [r \in Regions |-> IF r \in out THEN running[p] ELSE content[r]]
        /\ running' = [running EXCEPT ![p] = None]
    BY <1>e DEF Finish
  <2>2. \A r \in out : r \in ListRegions(copy_back[p])
    BY <1>r
  <2>3. \A r \in Regions : content'[r] = IF r \in out THEN running[p] ELSE content[r]
    BY <2>1
  <2>4. running'[p] = None /\ \A q \in PEs : q # p => running'[q] = running[q]
    BY <1>u, <2>1
  <2>5. ASSUME NEW q \in PEs, NEW e \in Entries(copy_back[q]), e.kind = "out",
               e.run \in launched, e.run # running'[q]
        PROVE  content'[e.region] = e.run
    <3>1. e.region \in Regions /\ e.region \in ListRegions(copy_back[q])
      BY <1>r, <2>5
    <3>2. CASE q = p /\ e.run = running[p]
      <4>1. e.region \in out
        BY <2>5, <3>2
      <4> QED
        BY <2>3, <3>1, <3>2, <4>1
    <3>3. CASE q = p /\ e.run # running[p]
      <4>1. ListOnce(copy_back[p])
        BY <1>t DEF RegionsOnce
      <4>2. e.region \notin out
        <5> SUFFICES ASSUME NEW x \in Entries(copy_back[p]), x.run = running[p], x.region = e.region
                     PROVE  FALSE
          OBVIOUS
        <5>1. PICK a \in DOMAIN copy_back[p] : e = copy_back[p][a]
          BY <2>5, <3>3 DEF Entries
        <5>2. PICK b \in DOMAIN copy_back[p] : x = copy_back[p][b]
          BY DEF Entries
        <5>3. e.region # None
          BY <3>1, JobAssumption
        <5>4. a = b
          BY <4>1, <5>1, <5>2, <5>3 DEF ListOnce
        <5> QED
          BY <3>3, <5>1, <5>2, <5>4
      <4>3. content[e.region] = e.run
        BY <1>v, <2>5, <3>3
      <4> QED
        BY <2>3, <3>1, <4>2, <4>3
    <3>4. CASE q # p
      <4>1. e.region \notin out
        BY <1>t, <2>2, <3>1, <3>4 DEF Disjoint
      <4>2. content[e.region] = e.run
        BY <1>v, <2>4, <2>5, <3>4
      <4> QED
        BY <2>3, <3>1, <4>1, <4>2
    <3> QED
      BY <3>2, <3>3, <3>4
  <2>6. ASSUME NEW k \in Clients, NEW e \in Entries(todo[k]), e.kind = "out", e.run \in launched
        PROVE  content'[e.region] = e.run
    <3>1. e.region \in Regions /\ e.region \in ListRegions(todo[k])
      BY <1>r, <2>6
    <3>2. e.region \notin out
      BY <1>t, <2>2, <3>1 DEF Disjoint
    <3>3. content[e.region] = e.run
      BY <1>v, <2>6
    <3> QED
      BY <2>3, <3>1, <3>2, <3>3
  <2> QED
    BY <2>1, <2>5, <2>6 DEF Results
<1>f. CASE UNCHANGED <<content, launched, running, copy_back>>
  <2>1. \A j \in Clients : CopyBackFails(j) => todo[j] # <<>>
    BY DEF CopyBackFails
  <2>2. CASE todo' = todo
    BY <1>f, <1>t, <2>2, ResultsSame
  <2> QED
    BY <1>b, <1>c, <1>f, <1>t, <2>1, <2>2, TodoCases
<1>g. CASE UNCHANGED <<content, launched, running>>
  BY <1>a, <1>b, <1>f, <1>g, <1>t, ListCases
<1> QED
  BY <1>d, <1>e, <1>g, RunCases

-----------------------------------------------------------------------------

\* The invariant holds when the scheduler is created and every step keeps it.
LEMMA JobInit == Init => JInv
<1> SUFFICES ASSUME Init PROVE JInv
  OBVIOUS
<1>1. <<>> \in Seq(CopyBacks) /\ <<>> \in Seq(Kinds) /\ <<>> \in Seq(Regions \cup {None})
      /\ Starts \in 0 .. Starts
  BY SMT, JobAssumption
<1>2. TypeOK
  BY <1>1 DEF Init, TypeOK
<1>3. \A j \in Clients : Stage(j)
  <2> SUFFICES ASSUME NEW j \in Clients PROVE Stage(j)
    OBVIOUS
  <2>1. pc[j] = "idle" /\ pe[j] = None /\ todo[j] = <<>> /\ args[j] = <<>> /\ regs[j] = <<>>
    BY DEF Init
  <2>2. Len(<<>>) = 0 /\ DOMAIN <<>> = {}
    BY SMT
  <2> QED
    BY SMT, <2>1, <2>2 DEF Stage, Starting, Loops
<1>4. \A p \in PEs : Hardware(p)
  BY DEF Init, Hardware
<1>5. Owned
  BY JobAssumption DEF Init, Owned
<1>6. Launched /\ Mine /\ Results
  BY EntriesEmpty DEF Init, Launched, Mine, Results
<1>7. /\ \A p \in PEs : copy_back[p] = <<>>
      /\ \A j \in Clients : todo[j] = <<>> /\ regs[j] = <<>>
  BY DEF Init
<1>8. \A j \in Clients : StartRegions(j) = {} /\ StartOnce(j)
  BY <1>7, StartNone
<1>9. RegionsOnce
  BY <1>7, <1>8, RegionsEmpty DEF RegionsOnce
<1>10. Disjoint /\ Tracked
  BY <1>7, <1>8, RegionsEmpty DEF Disjoint, Tracked, Refers, Init
<1> QED
  BY <1>2, <1>3, <1>4, <1>5, <1>6, <1>9, <1>10 DEF JInv

LEMMA JobStepKeeps == JInv /\ [Next]_vars => JInv'
<1>1. ASSUME JInv, Next PROVE JInv'
  <2>1. RegionsOnce' /\ RegionStep
    BY <1>1, RegionSteps
  <2>2. Disjoint' /\ Tracked'
    BY <1>1, <2>1, DisjointKept, TrackedKept DEF JInv
  <2> QED
    BY <1>1, <2>1, <2>2, TypesKept, StageKept, HardwareKept, OwnedKept, LaunchedKept, MineKept,
       ResultsKept DEF JInv
<1>2. ASSUME JInv, UNCHANGED vars PROVE JInv'
  <2>1. TypeOK' /\ (\A p \in PEs : Hardware(p)') /\ Owned' /\ Launched' /\ Mine' /\ Results'
    BY <1>2 DEF JInv, TypeOK, Hardware, Owned, Launched, Mine, Results,
                 vars, pools, peVars, hw, params
  <2>2. \A k \in Clients : Stage(k)'
    BY <1>2, StageSame DEF JInv, vars, params
  <2>3. StartsSame(Clients) /\ \A k \in Clients : StartOnce(k)'
    BY <1>2, StartsUntouched DEF JInv, vars, params
  <2>4. RegionsOnce'
    BY <1>2, <2>3 DEF JInv, RegionsOnce, vars, peVars
  <2>5. Quiet
    BY <1>2, <2>3 DEF Quiet, ListsSame, TodosSame, vars, peVars
  <2>6. Disjoint' /\ Tracked'
    BY <1>2, <2>5, DisjointKept, TrackedKept DEF JInv, RegionStep
  <2> QED
    BY <2>1, <2>2, <2>4, <2>6 DEF JInv
<1> QED
  BY <1>1, <1>2

\* What the jobs refer to.
LEMMA ReferencedIs == \A r \in Regions : r \in Referenced <=> Refers(r)
<1> SUFFICES ASSUME NEW r \in Regions PROVE r \in Referenced <=> Refers(r)
  OBVIOUS
<1>1. r # None
  BY JobAssumption
<1>2. \A j \in Clients : r \in StartRegions(j) <=> \E i \in InStart(j) : r = regs[j][i]
  BY <1>1 DEF StartRegions
<1>3. \A s : r \in ListRegions(s) <=> \E e \in Entries(s) : r = e.region
  BY <1>1 DEF ListRegions
<1> QED
  BY <1>2, <1>3 DEF Refers, Referenced

\* A PE of libtapasco is always with exactly one of the scheduler, its single-PE
\* handler or a job, and one that can be acquired is idle, has no interrupt
\* pending and no copy back of its last job left; the device memory that jobs
\* and PEs still have to free is allocated, and without an error no other
\* memory is.  For all clients, PEs, regions and argument lists.
THEOREM JobResources == Spec => []ResourcesTracked
<1>1. ASSUME JInv PROVE ResourcesTracked
  <2>1. TypeOK /\ Owned /\ Tracked /\ \A p \in PEs : Hardware(p)
    BY <1>1 DEF JInv
  <2>2. PEsConserved
    BY <2>1 DEF PEsConserved, Owned
  <2>3. PooledPEsClean
    <3> SUFFICES ASSUME NEW p \in pool \cup single
                 PROVE  /\ ~ active[p] /\ running[p] = None
                        /\ eventfd[p] = 0 /\ copy_back[p] = <<>>
      BY DEF PooledPEsClean
    <3>1. p \in PEs /\ ~ active[p] /\ copy_back[p] = <<>>
      BY <2>1 DEF TypeOK, Owned
    <3> QED
      BY <2>1, <3>1 DEF Hardware
  <2>4. MemoryTracked
    <3>1. Referenced \subseteq Regions /\ allocated \subseteq Regions
      BY <2>1 DEF Referenced, TypeOK
    <3>2. Referenced \subseteq allocated
      BY <2>1, <3>1, ReferencedIs DEF Tracked
    <3>3. errors = 0 => allocated \subseteq Referenced
      BY <2>1, <3>1, ReferencedIs DEF Tracked
    <3> QED
      BY <3>2, <3>3 DEF MemoryTracked
  <2> QED
    BY <2>2, <2>3, <2>4 DEF ResourcesTracked
<1> QED
  BY <1>1, JobInit, JobStepKeeps, PTL DEF Spec

\* What handle_copyback reads for a run that was started is what that run wrote:
\* the PE has finished it, and although the PE is handed on before the copy no
\* other job has been given the region.
THEOREM JobOwnResults == Spec => []OwnResults
<1>1. ASSUME JInv PROVE OwnResults
  <2> SUFFICES ASSUME NEW j \in Clients, todo[j] # <<>>, Head(todo[j]).kind = "out",
                      Head(todo[j]).run \in launched
               PROVE  content[Head(todo[j]).region] = Head(todo[j]).run
    BY DEF OwnResults
  <2>1. todo[j] \in Seq(CopyBacks)
    BY <1>1 DEF JInv, TypeOK
  <2>2. Head(todo[j]) \in Entries(todo[j])
    BY SMT, <2>1, EntriesTail
  <2> QED
    BY <1>1, <2>2 DEF JInv, Results
<1> QED
  BY <1>1, JobInit, JobStepKeeps, PTL DEF Spec

=============================================================================
