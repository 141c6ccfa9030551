----------------------------- MODULE JobService -----------------------------
(***************************************************************************)
(* What the backend promises, without queue, messages or pings: a job that *)
(* is submitted is queued, runs on an agent in service that offers its     *)
(* environment and has a slot left, and is answered once.  An agent may    *)
(* leave the service at any moment; its jobs are queued again.             *)
(***************************************************************************)
EXTENDS Naturals, FiniteSets

CONSTANTS Agents, Envs, Jobs, EnvOf, Slots, Offers, NoAgent

VARIABLES
    state,      \* state[j]: where the job j is in its life
    runner,     \* the agent a running job runs on, or NoAgent
    serving     \* the agents in service

serviceVars == <<state, runner, serving>>

States == {"new", "queued", "running", "answered"}

ServiceInit ==
    /\ state = [j \in Jobs |-> "new"]
    /\ runner = [j \in Jobs |-> NoAgent]
    /\ serving = {}

Move(j, from, to) ==
    /\ state[j] = from
    /\ state' = [state EXCEPT ![j] = to]

Accept(j) == Move(j, "new", "queued") /\ UNCHANGED <<runner, serving>>

Withdraw(j) == Move(j, "queued", "answered") /\ UNCHANGED <<runner, serving>>

Assign(j, a) ==
    /\ a \in serving
    /\ EnvOf[j] \in Offers[a]
    /\ Cardinality({k \in Jobs : runner[k] = a}) < Slots[a]
    /\ Move(j, "queued", "running")
    /\ runner' = [runner EXCEPT ![j] = a]
    /\ UNCHANGED serving

Answer(j) ==
    /\ Move(j, "running", "answered")
    /\ runner' = [runner EXCEPT ![j] = NoAgent]
    /\ UNCHANGED serving

Join(a) ==
    /\ serving' = serving \cup {a}
    /\ UNCHANGED <<state, runner>>

Leave(a) ==
    /\ a \in serving
    /\ serving' = serving \ {a}
    /\ state' = [j \in Jobs |-> IF runner[j] = a THEN "queued" ELSE state[j]]
    /\ runner' = [j \in Jobs |-> IF runner[j] = a THEN NoAgent ELSE runner[j]]

ServiceNext ==
    \/ \E j \in Jobs : Accept(j) \/ Withdraw(j) \/ Answer(j)
    \/ \E j \in Jobs, a \in Agents : Assign(j, a)
    \/ \E a \in Agents : Join(a) \/ Leave(a)

ServiceSpec == ServiceInit /\ [][ServiceNext]_serviceVars
=============================================================================
