-------------------------------- MODULE Chaos --------------------------------
(***************************************************************************)
(* The kill demo: scripts/chaos.py over the four services, Docker's restart *)
(* policy, the health endpoints it probes, and the status cells that        *)
(* Prometheus and Grafana make of them.  A service is what its endpoints    *)
(* say; Mosquitto and InfluxDB stay up, except where a service dips.        *)
(***************************************************************************)
EXTENDS Integers, Sequences

CONSTANTS
    Cells,          \* the services whose status cell is watched
    MaxFaults       \* bound: crashes and dips

SERVICES == <<"telemetry-svc", "state-svc", "command-svc", "viz-svc">>
Names == {SERVICES[i] : i \in 1..4}

\* Mutant: no cascade is expected.
NoCascade(victim) == {}
EXPECTED_CASCADE(victim) == IF victim = "state-svc" THEN {"viz-svc"} ELSE {}

ASSUME ChaosAssumption == Cells \subseteq Names /\ MaxFaults \in Nat

VARIABLES
    running,        \* running[s]: its container runs
    stopped,        \* stopped[s]: Docker took it for stopped by hand
    fit,            \* fit[s]: what readiness() of the process says
    linked,         \* the connection under viz-svc's channel is alive
    cell,           \* cell[s]: what Grafana shows, the value or nothing yet
    pc,             \* where the script is
    victim,         \* the index of the service of this cycle
    at,             \* the index of the service that is probed next
    alive,          \* what the live probe of that one said
    ok,             \* run_cycle's local variable
    failures,       \* the victims whose cycle failed
    faults,         \* how many crashes and dips there were
    excuses         \* history: what there was for a cycle to fail of

docker == <<running, stopped, fit, linked>>
script == <<pc, victim, at, alive, ok, failures>>
vars == <<docker, cell, script, faults, excuses>>

Init ==
    /\ running = [s \in Names |-> TRUE]
    /\ stopped = [s \in Names |-> FALSE]
    /\ fit \in [Names -> BOOLEAN]
    /\ linked = fit["viz-svc"]
    /\ cell = [s \in Cells |-> {}]
    /\ pc = "begin" /\ victim = 1 /\ at = 1 /\ alive = "unknown" /\ ok = TRUE
    /\ failures = {}
    /\ faults = 0 /\ excuses = {}

-----------------------------------------------------------------------------
(* The services and Docker                                                  *)

\* What becomes of the channel of viz-svc when s goes down.
Cut(s) == linked' = (linked /\ s \notin {"state-svc", "viz-svc"})

Down(s) ==
    /\ running' = [running EXCEPT ![s] = FALSE]
    /\ fit' = [fit EXCEPT ![s] = FALSE]
    /\ Cut(s)

Fault(kind) ==
    /\ faults < MaxFaults
    /\ faults' = faults + 1
    /\ excuses' = excuses \cup {kind}

Crash(s) ==
    /\ running[s] /\ Down(s) /\ Fault("crash")
    /\ UNCHANGED <<stopped, cell, script>>

\* A dependency outside is away for a while: readiness says so.
Dip(s) ==
    /\ s # "viz-svc" /\ fit[s] /\ Fault("dip")
    /\ fit' = [fit EXCEPT ![s] = FALSE]
    /\ UNCHANGED <<running, stopped, linked, cell, script>>

\* restart: unless-stopped.
Revive(s) ==
    /\ ~running[s] /\ ~stopped[s]
    /\ running' = [running EXCEPT ![s] = TRUE]
    /\ UNCHANGED <<stopped, fit, linked, cell, script, faults, excuses>>

\* The dependencies are there again; viz-svc's is the server of state-svc.
GetsFit(s) ==
    /\ running[s] /\ ~fit[s]
    /\ s = "viz-svc" => running["state-svc"]
    /\ fit' = [fit EXCEPT ![s] = TRUE]
    /\ linked' = (linked \/ s = "viz-svc")
    /\ UNCHANGED <<running, stopped, cell, script, faults, excuses>>

\* StateStream.run() sees the channel leave READY.
Notice ==
    /\ fit["viz-svc"] /\ ~linked
    /\ fit' = [fit EXCEPT !["viz-svc"] = FALSE]
    /\ UNCHANGED <<running, stopped, linked, cell, script, faults, excuses>>

-----------------------------------------------------------------------------
(* The endpoints and the status cell                                        *)

Live(s) == running[s]
Ready(s) == running[s] /\ fit[s]

Bit(b) == IF b THEN 1 ELSE 0

\* The two series of a target, as sets of at most one sample.  /metrics refreshes the
\* gauge; when a scrape fails, up is 0 and the gauge is marked stale.
UpSeries(s) == {Bit(Live(s))}
ReadySeries(s) == IF Live(s) THEN {Bit(fit[s])} ELSE {}

\* Mutant: min(up) * min(twin_service_ready).
ProductOnly(up, ready) == {u * r : u \in up, r \in ready}

\* min(up) * (min(twin_service_ready) or vector(1))
Expression(up, ready) == {u * r : u \in up, r \in IF ready = {} THEN {1} ELSE ready}

\* One scrape, shown at once; the cell shows the last value that is not null.
Scrape(s) ==
    /\ LET value == Expression(UpSeries(s), ReadySeries(s))
       IN  cell' = [cell EXCEPT ![s] = IF value = {} THEN @ ELSE value]
    /\ UNCHANGED <<docker, script, faults, excuses>>

-----------------------------------------------------------------------------
(* chaos.py, probe by probe                                                 *)

Victim == SERVICES[victim]

\* A probe that takes a broken channel for a ready one is an excuse for what follows.
Overlooks(s) == IF s = "viz-svc" /\ Ready(s) /\ ~linked THEN {"late"} ELSE {}

NextVictim(failed) ==
    /\ failures' = failures \cup failed
    /\ IF victim = 4 THEN pc' = "done" /\ UNCHANGED victim
       ELSE pc' = "kill" /\ victim' = victim + 1
    /\ at' = 1 /\ alive' = "unknown" /\ ok' = TRUE

\* One probe of all_ready(), which stops at the first that is not 200.
Begin ==
    /\ pc = "begin"
    /\ IF ~Ready(SERVICES[at]) THEN pc' = "done" /\ at' = 1
       ELSE IF at = 4 THEN pc' = "kill" /\ at' = 1
       ELSE at' = at + 1 /\ UNCHANGED pc
    /\ excuses' = excuses \cup Overlooks(SERVICES[at])
    /\ UNCHANGED <<docker, cell, victim, alive, ok, failures, faults>>

\* compose kill does nothing to a container that does not run.
Kill ==
    /\ pc = "kill"
    /\ IF running[Victim]
       THEN Down(Victim) /\ stopped' = [stopped EXCEPT ![Victim] = TRUE]
       ELSE UNCHANGED docker
    /\ pc' = "gone"
    /\ UNCHANGED <<cell, victim, at, alive, ok, failures, faults, excuses>>

\* wait_until the victim is gone.  After a timeout the cycle has failed, and there is
\* no start.
Gone ==
    /\ pc = "gone"
    /\ \/ ~Live(Victim) /\ pc' = "survey" /\ UNCHANGED <<victim, at, alive, ok, failures, excuses>>
       \/ Live(Victim) /\ NextVictim({Victim}) /\ excuses' = excuses \cup {"timeout"}
    /\ UNCHANGED <<docker, cell, faults>>

After(i) == IF i = 4 THEN pc' = "start" /\ at' = 1 ELSE at' = i + 1 /\ UNCHANGED pc

\* The survivors: probe live, probe ready, judge.
SkipVictim ==
    /\ pc = "survey" /\ at = victim
    /\ After(at)
    /\ UNCHANGED <<docker, cell, victim, alive, ok, failures, faults, excuses>>

ProbeLive ==
    /\ pc = "survey" /\ at # victim /\ alive = "unknown"
    /\ alive' = IF Live(SERVICES[at]) THEN "yes" ELSE "no"
    /\ UNCHANGED <<docker, cell, pc, victim, at, ok, failures, faults, excuses>>

ProbeReady ==
    /\ pc = "survey" /\ at # victim /\ alive # "unknown"
    /\ LET s == SERVICES[at]
       IN  /\ ok' = (ok /\ alive = "yes" /\ (Ready(s) \/ s \in EXPECTED_CASCADE(Victim)))
           /\ excuses' = excuses \cup Overlooks(s)
    /\ alive' = "unknown"
    /\ After(at)
    /\ UNCHANGED <<docker, cell, victim, failures, faults>>

\* Mutant: the victim is started after a cycle without complaints only.
StartIfOk ==
    /\ pc = "start"
    /\ IF ok
       THEN /\ running' = [running EXCEPT ![Victim] = TRUE]
            /\ stopped' = [stopped EXCEPT ![Victim] = FALSE]
            /\ pc' = "recover" /\ UNCHANGED <<victim, at, alive, ok, failures>>
       ELSE NextVictim({Victim}) /\ UNCHANGED <<running, stopped>>
    /\ UNCHANGED <<fit, linked, cell, faults, excuses>>

Start ==
    /\ pc = "start"
    /\ running' = [running EXCEPT ![Victim] = TRUE]
    /\ stopped' = [stopped EXCEPT ![Victim] = FALSE]
    /\ IF ok THEN pc' = "recover" /\ UNCHANGED <<victim, at, alive, ok, failures>>
       ELSE NextVictim({Victim})
    /\ UNCHANGED <<fit, linked, cell, faults, excuses>>

\* wait_until(all_ready): a probe that fails begins the next round or is the last one.
Recover ==
    /\ pc = "recover"
    /\ \/ /\ Ready(SERVICES[at])
          /\ IF at = 4 THEN NextVictim({})
             ELSE at' = at + 1 /\ UNCHANGED <<pc, victim, alive, ok, failures>>
          /\ excuses' = excuses \cup Overlooks(SERVICES[at])
       \/ /\ ~Ready(SERVICES[at])
          /\ at' = 1
          /\ UNCHANGED <<pc, victim, alive, ok, failures, excuses>>
       \/ /\ ~Ready(SERVICES[at])
          /\ NextVictim({Victim})
          /\ excuses' = excuses \cup {"timeout"}
    /\ UNCHANGED <<docker, cell, faults>>

\* Ctrl-C, or a docker compose that fails (check=True): nothing is cleaned up.
Interrupt ==
    /\ pc \notin {"done", "interrupted"}
    /\ pc' = "interrupted"
    /\ UNCHANGED <<docker, cell, victim, at, alive, ok, failures, faults, excuses>>

-----------------------------------------------------------------------------
Script ==
    Begin \/ Kill \/ Gone \/ SkipVictim \/ ProbeLive \/ ProbeReady \/ Start \/ Recover

Next ==
    \/ \E s \in Names : Crash(s) \/ Dip(s) \/ Revive(s) \/ GetsFit(s)
    \/ Notice
    \/ \E s \in Cells : Scrape(s)
    \/ Begin \/ Kill \/ Gone \/ SkipVictim \/ ProbeLive \/ ProbeReady \/ Start \/ Recover
    \/ Interrupt

Spec == Init /\ [][Next]_vars

\* The script runs, Docker revives, dependencies are reached and lost ones noticed,
\* and Prometheus scrapes every target.  Faults and timeouts are never owed.
LiveSpec ==
    /\ Spec /\ WF_vars(Script) /\ WF_vars(Notice)
    /\ \A s \in Names : WF_vars(Revive(s)) /\ WF_vars(GetsFit(s))
    /\ \A s \in Cells : WF_vars(Scrape(s))

-----------------------------------------------------------------------------
Places == {"begin", "kill", "gone", "survey", "start", "recover", "done", "interrupted"}

TypeOK ==
    /\ running \in [Names -> BOOLEAN] /\ stopped \in [Names -> BOOLEAN]
    /\ fit \in [Names -> BOOLEAN] /\ linked \in BOOLEAN
    /\ cell \in [Cells -> {{}, {0}, {1}}]
    /\ pc \in Places /\ victim \in 1..4 /\ at \in 1..4
    /\ alive \in {"unknown", "yes", "no"} /\ ok \in BOOLEAN
    /\ failures \subseteq Names
    /\ faults \in 0..MaxFaults /\ excuses \subseteq {"crash", "dip", "timeout", "late"}

\* "FAIL" is about something that happened: without a crash, a dip, a timeout or an
\* overlooked channel no cycle fails, whatever the order in which services degrade,
\* notice and recover around the probes.
BlamesOnlyFaults == failures # {} => excuses # {}

\* Docker is kept from reviving nothing but the victim of the cycle, and only from its
\* kill to its start, whatever crashes, dips and timeouts come between: a script that
\* ends leaves nothing stopped, and one that is interrupted its victim at most
\* ("`restart: unless-stopped` does NOT revive a CLI-killed container", chaos.py:9).
OnlyVictimIsStopped ==
    \A s \in Names :
        stopped[s] =>
            /\ s = Victim /\ ~running[s]
            /\ pc \in {"gone", "survey", "start", "interrupted"}

\* The demo leaves a whole stack behind, also when cycles fail: in the end every
\* service is ready for good, although Docker revives none that was killed.  A script
\* that is interrupted leaves at most its victim and what depends on it behind.
StackRecovers ==
    <>[](\A s \in Names :
            Ready(s) \/ (pc = "interrupted" /\ s \in {Victim} \cup EXPECTED_CASCADE(Victim)))

\* A cell tells a dead or degraded service from a ready one, also when the series of
\* the dead one go stale ("a killed service's status cell flips red", prometheus.yml).
CellFollows ==
    \A s \in Cells :
        /\ <>[]~Ready(s) => <>[](cell[s] = {0})
        /\ <>[]Ready(s) => <>[](cell[s] = {1})
=============================================================================
