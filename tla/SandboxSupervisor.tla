-------------------------- MODULE SandboxSupervisor --------------------------
(***************************************************************************)
(* The supervisor of the portfolio sandbox (scripts/run_portfolio_sandbox.py): *)
(* it creates one disposable generation of containers after another, keeps a  *)
(* heartbeat that the frontend's readiness depends on (frontend/server.mjs),  *)
(* and removes what it or a process before it has left.  It may fail, be      *)
(* interrupted (SIGTERM) or killed (SIGKILL) at every step.                   *)
(***************************************************************************)
EXTENDS Integers, Sequences, FiniteSets, FiniteSetsExt

CONSTANTS Processes,                   \* supervisors, of systemd or by hand
          Generations,                 \* 1, 2, ... in the order of their creation
          Lifetime, Ttl,               \* lifetime_seconds, HEARTBEAT_TTL_SECONDS
          EndOfTime                    \* bound

ASSUME SupervisorAssumption == /\ Generations \subseteq Nat \ {0} /\ IsFiniteSet(Generations)
                               /\ Lifetime \in Nat \ {0} /\ Ttl \in Nat /\ EndOfTime \in Nat

VARIABLES
    process,     \* what each supervisor is at
    holder,      \* who has supervisor.lock
    failstop,    \* is there a fail-stop marker?
    resources,   \* containers and networks, each of a generation
    files,       \* heartbeat files under the host's directory
    beat,        \* when each heartbeat, as mounted, was last touched; 0 if never or invalidated
    deadline,    \* when each generation's database ends by itself; 0 before there is one
    time,
    abandoned    \* ghost: generations whose supervisor could not end them

supervisorVars ==
    <<process, holder, failstop, resources, files, beat, deadline, time, abandoned>>
host == <<failstop, resources, files, beat, deadline, abandoned>>

Creation == <<"network", "db", "initialize", "backend", "ingress", "frontend">>
Removal == <<"frontend", "backend", "initialize", "db", "ingress", "network">>

Off == [stage |-> "off", generation |-> 0, todo |-> <<>>, failed |-> FALSE, trouble |-> FALSE]

SupervisorInit == /\ process = [p \in Processes |-> Off]
                  /\ holder = {}
                  /\ failstop = FALSE
                  /\ resources = {}
                  /\ files = {}
                  /\ beat = [g \in Generations |-> 0]
                  /\ deadline = [g \in Generations |-> 0]
                  /\ time = 1
                  /\ abandoned = {}

-----------------------------------------------------------------------------
Sets(p, r) == process' = [process EXCEPT ![p] = r]
In(p, stage) == process[p].stage = stage
Of(g, roles) == [i \in DOMAIN roles |-> <<g, roles[i]>>]

\* The process ends, and the lock with it.
Exits(p) == /\ Sets(p, Off) /\ holder' = holder \ {p}

\* _mark_fail_stop swallows the errors of writing the marker.
MarksAndExits(p) == Exits(p) /\ failstop' \in {failstop, TRUE}

StartProcess(p) == /\ In(p, "off")
                   /\ Sets(p, [Off EXCEPT !.stage = "lock"])
                   /\ UNCHANGED <<holder, host, time>>

LockFree == holder = {}

Lock(p) == /\ In(p, "lock")
           /\ IF LockFree THEN /\ holder' = holder \cup {p}
                               /\ Sets(p, [Off EXCEPT !.stage = "heartbeats"])
              ELSE Exits(p)
           /\ UNCHANGED <<host, time>>

\* A heartbeat is dated back before its file goes, as a frontend has the file mounted.
SlipUnlinked(gs) == beat
Invalidated(gs) == [g \in Generations |-> IF g \in gs THEN 0 ELSE beat[g]]

InvalidateOrphans(p) ==
    /\ In(p, "heartbeats")
    /\ beat' = Invalidated(files)
    /\ files' = {}
    /\ Sets(p, [Off EXCEPT !.stage = "marker"])
    /\ UNCHANGED <<holder, failstop, resources, deadline, abandoned, time>>

CheckMarker(p) == /\ In(p, "marker")
                  /\ IF failstop THEN Exits(p) ELSE /\ Sets(p, [Off EXCEPT !.stage = "discover"])
                                                   /\ UNCHANGED holder
                  /\ UNCHANGED <<host, time>>

Found == {r[1] : r \in resources}

\* Identifiers are random: sorted by them, generations come in any order.
Listings(gs) == {list \in [1..Cardinality(gs) -> gs] : \A g \in gs : \E i \in DOMAIN list : list[i] = g}

\* All that one generation can have, and then all of the next.
RemovalOf(list) ==
    LET n == Len(Removal) IN
    [i \in 1..(n * Len(list)) |-> <<list[1 + ((i - 1) \div n)], Removal[1 + ((i - 1) % n)]>>]

\* All of them are found before one is touched.
Discover(p) ==
    /\ In(p, "discover")
    /\ \E list \in Listings(Found) :
         Sets(p, [Off EXCEPT !.stage = "reconcile", !.todo = RemovalOf(list)])
    /\ UNCHANGED <<holder, host, time>>

\* _remove_owned_resource returns once the resource is absent.
RemoveNext(p) ==
    /\ In(p, "reconcile") \/ In(p, "destroy")
    /\ process[p].todo # <<>>
    /\ resources' = resources \ {Head(process[p].todo)}
    /\ Sets(p, [process[p] EXCEPT !.todo = Tail(@)])
    /\ UNCHANGED <<holder, failstop, files, beat, deadline, abandoned, time>>

Reconciled(p) == /\ In(p, "reconcile") /\ process[p].todo = <<>>
                 /\ Sets(p, [Off EXCEPT !.stage = "open"])
                 /\ UNCHANGED <<holder, host, time>>

\* What invalidates or reconciles and fails, or is interrupted, has done some of it.
FailReconciling(p) ==
    /\ \/ In(p, "heartbeats") /\ \E gs \in SUBSET files : /\ beat' = Invalidated(gs)
                                                         /\ files' = files \ gs
       \/ (In(p, "discover") \/ In(p, "reconcile")) /\ UNCHANGED <<beat, files>>
    /\ MarksAndExits(p)
    /\ UNCHANGED <<resources, deadline, abandoned, time>>

-----------------------------------------------------------------------------
(* One generation *)

Fresh == {g \in Generations : deadline[g] = 0}

\* A heartbeat that could not be made may leave its file behind; nothing is started then.
Open(p) ==
    /\ In(p, "open") /\ Fresh # {}
    /\ LET g == Min(Fresh) IN
         /\ deadline' = [deadline EXCEPT ![g] = time + Lifetime]
         /\ \/ /\ files' = files \cup {g} /\ beat' = [beat EXCEPT ![g] = time]
               /\ Sets(p, [Off EXCEPT !.stage = "start", !.generation = g, !.todo = Creation])
            \/ /\ files' \in {files, files \cup {g}} /\ UNCHANGED beat
               /\ Sets(p, [Off EXCEPT !.stage = "destroy", !.generation = g,
                                       !.todo = Of(g, Removal), !.failed = TRUE])
    /\ UNCHANGED <<holder, failstop, resources, abandoned, time>>

Resource(p) == <<process[p].generation, Head(process[p].todo)>>

\* The initialising container ends before the next is created.
CreateNext(p) ==
    /\ In(p, "start") /\ process[p].todo # <<>>
    /\ resources' = IF Head(process[p].todo) = "initialize" THEN resources
                    ELSE resources \cup {Resource(p)}
    /\ Sets(p, [process[p] EXCEPT !.todo = Tail(@)])
    /\ UNCHANGED <<holder, failstop, files, beat, deadline, abandoned, time>>

\* Refreshed on the way to a frontend that answers, and every ten seconds from then on.
Refresh(p) ==
    /\ \/ In(p, "start") /\ process[p].todo \in {<<>>, <<"frontend">>, <<"ingress", "frontend">>}
       \/ In(p, "watch")
    /\ beat' = [beat EXCEPT ![process[p].generation] = time]
    /\ UNCHANGED <<process, holder, failstop, resources, files, deadline, abandoned, time>>

Running(g) == \A role \in {"db", "backend", "frontend"} : <<g, role>> \in resources

Started(p) == /\ In(p, "start") /\ process[p].todo = <<>>
              /\ Running(process[p].generation)
              /\ Sets(p, [process[p] EXCEPT !.stage = "watch"])
              /\ UNCHANGED <<holder, host, time>>

\* The time is over.
Expire(p) == /\ In(p, "watch") /\ time >= deadline[process[p].generation]
             /\ Sets(p, [process[p] EXCEPT !.stage = "withdraw"])
             /\ UNCHANGED <<holder, host, time>>

\* A command that fails or is interrupted may have been carried out; a container is missing
\* or unhealthy; the heartbeat cannot be refreshed.
FailGeneration(p) ==
    /\ In(p, "start") \/ In(p, "watch")
    /\ resources' \in {resources} \cup (IF process[p].todo = <<>> THEN {}
                                        ELSE {resources \cup {Resource(p)}})
    /\ Sets(p, [process[p] EXCEPT !.stage = "withdraw", !.failed = TRUE])
    /\ UNCHANGED <<holder, failstop, files, beat, deadline, abandoned, time>>

\* The heartbeat first.  When that fails the rest is done nevertheless.
Withdraw(p) ==
    LET g == process[p].generation IN
    /\ In(p, "withdraw")
    /\ \E trouble \in BOOLEAN :
         /\ IF trouble THEN /\ beat' \in {beat, Invalidated({g})} /\ UNCHANGED files
                            /\ abandoned' = abandoned \cup {g}
            ELSE /\ beat' = Invalidated({g}) /\ files' = files \ {g}
                 /\ UNCHANGED abandoned
         /\ Sets(p, [process[p] EXCEPT !.stage = "destroy", !.todo = Of(g, Removal),
                                       !.trouble = trouble])
    /\ UNCHANGED <<holder, failstop, resources, deadline, time>>

\* Removal that fails, does not converge or is interrupted stops there.
FailDestroying(p) ==
    /\ In(p, "destroy")
    /\ Sets(p, [process[p] EXCEPT !.todo = <<>>, !.trouble = TRUE])
    /\ UNCHANGED <<holder, host, time>>

SlipGoesOn(p) == process[p].failed

\* Only a generation that ended by its time, and was removed, is followed by another.
ExitsAfter(p) == process[p].trouble \/ process[p].failed

Close(p) ==
    /\ In(p, "destroy") /\ process[p].todo = <<>>
    /\ IF process[p].trouble /\ ExitsAfter(p) THEN MarksAndExits(p)
       ELSE /\ \/ Exits(p)                                      \* failed, or --once
               \/ ~ExitsAfter(p) /\ Sets(p, [Off EXCEPT !.stage = "open"]) /\ UNCHANGED holder
            /\ UNCHANGED failstop
    /\ UNCHANGED <<resources, files, beat, deadline, abandoned, time>>

\* An interrupt between two of the try statements is caught by the outermost only.
Escape(p) ==
    /\ \/ process[p].stage \in {"lock", "marker", "open", "withdraw"}
       \/ In(p, "destroy") /\ process[p].todo \in {<<>>, Of(process[p].generation, Removal)}
    /\ Exits(p)
    /\ abandoned' = abandoned \cup ({process[p].generation} \ {0})
    /\ UNCHANGED <<failstop, resources, files, beat, deadline, time>>

Kill(p) == /\ ~In(p, "off")
           /\ Exits(p)
           /\ abandoned' = abandoned \cup ({process[p].generation} \ {0})
           /\ UNCHANGED <<failstop, resources, files, beat, deadline, time>>

-----------------------------------------------------------------------------
(* The host *)

Containers == {"db", "initialize", "backend", "frontend"}

\* A container that ends is gone (--rm).
ContainerEnds(r) == /\ r \in resources /\ r[2] \in Containers
                    /\ resources' = resources \ {r}
                    /\ UNCHANGED <<process, holder, failstop, files, beat, deadline, time, abandoned>>

\* No database outlives its deadline: DATABASE_DEADLINE_COMMAND.
Pass == /\ time < EndOfTime
        /\ \A g \in Generations : <<g, "db">> \in resources => time < deadline[g]
        /\ time' = time + 1
        /\ UNCHANGED <<process, holder, host>>

\* The operator removes the marker when nothing is left.
Review == /\ failstop /\ resources = {}
          /\ failstop' = FALSE
          /\ UNCHANGED <<process, holder, resources, files, beat, deadline, abandoned, time>>

SupervisorNext ==
    \/ \E p \in Processes :
         \/ StartProcess(p) \/ Lock(p) \/ InvalidateOrphans(p) \/ CheckMarker(p) \/ Discover(p)
         \/ RemoveNext(p) \/ Reconciled(p) \/ FailReconciling(p) \/ Open(p) \/ CreateNext(p)
         \/ Refresh(p) \/ Started(p) \/ Expire(p) \/ FailGeneration(p) \/ Withdraw(p)
         \/ FailDestroying(p) \/ Close(p) \/ Escape(p) \/ Kill(p)
    \/ \E r \in resources : ContainerEnds(r)
    \/ Pass \/ Review

SupervisorSpec == SupervisorInit /\ [][SupervisorNext]_supervisorVars

-----------------------------------------------------------------------------
(* Correctness *)

\* heartbeatIsFresh and the backend's readiness: what the proxy admits traffic by.
Ready(g) == Running(g) /\ beat[g] # 0 /\ time - beat[g] <= Ttl

\* Whatever is left by failures, interrupts and kills, there is never a container or a network of
\* two generations: one begins only after all of every other is gone.
OneGeneration == \A r, s \in resources : r[1] = s[1]

\* Traffic is admitted to a generation only while a supervisor starts or watches it; once it sets
\* out to remove it, only if it could not invalidate the heartbeat; and for the heartbeat's
\* lifetime after it was killed or interrupted where nothing is cleaned up.
OnlyWatchedAreReady ==
    \A g \in Generations : Ready(g) =>
        \/ \E p \in Processes : /\ process[p].generation = g
                                /\ process[p].stage \in {"start", "watch", "withdraw"}
        \/ g \in abandoned
=============================================================================
