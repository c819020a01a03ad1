---------------------------- MODULE ChaosProofs ----------------------------
(***************************************************************************)
(* The kill demo blames nobody for nothing, for any cells and any bound on   *)
(* the faults.                                                              *)
(***************************************************************************)
EXTENDS Chaos, TLAPS

\* A service that is up, and for viz-svc its channel too.
Whole(s) == running[s] /\ fit[s] /\ (s = "viz-svc" => linked)

\* A survivor is whole, except for the channel that went down with state-svc.
Survives(s) == running[s] /\ (Whole(s) \/ s \in EXPECTED_CASCADE(Victim))

AllRun == \A s \in Names : running[s]
AllWhole == \A s \in Names : Whole(s)
OthersSurvive == \A s \in Names : s # Victim => Survives(s)

\* all_ready() has found ready what comes before the service it probes.
SeenReady == \A i \in 1..4 : i < at => Whole(SERVICES[i])

\* What the script may rely on at each of its places, as long as nothing happened
\* that a cycle may fail of.
Undisturbed ==
    /\ failures = {} /\ ok
    /\ pc = "begin" => AllRun /\ SeenReady
    /\ pc = "kill" => AllWhole /\ at = 1
    /\ pc \in {"gone", "survey"} => ~running[Victim] /\ stopped[Victim] /\ OthersSurvive
    /\ pc = "gone" => at = 1
    /\ pc = "start" => OthersSurvive /\ at = 1
    /\ pc = "recover" => AllRun /\ SeenReady
    /\ alive \in {"unknown", "yes"}

IInv == TypeOK /\ (excuses = {} => Undisturbed)

-----------------------------------------------------------------------------
LEMMA NamesAre ==
    /\ Names = {"telemetry-svc", "state-svc", "command-svc", "viz-svc"}
    /\ SERVICES[1] = "telemetry-svc" /\ SERVICES[2] = "state-svc"
    /\ SERVICES[3] = "command-svc" /\ SERVICES[4] = "viz-svc"
    /\ \A i \in 1..4 : SERVICES[i] \in Names
    /\ \A i, k \in 1..4 : SERVICES[i] = SERVICES[k] => i = k
<1>1. \A i \in 1..4 : i = 1 \/ i = 2 \/ i = 3 \/ i = 4
  OBVIOUS
<1>2. /\ SERVICES[1] = "telemetry-svc" /\ SERVICES[2] = "state-svc"
      /\ SERVICES[3] = "command-svc" /\ SERVICES[4] = "viz-svc"
  BY DEF SERVICES
<1>3. 1 \in 1..4 /\ 2 \in 1..4 /\ 3 \in 1..4 /\ 4 \in 1..4
  OBVIOUS
<1>4. Names = {"telemetry-svc", "state-svc", "command-svc", "viz-svc"}
  BY <1>1, <1>2, <1>3 DEF Names
<1>5. \A i \in 1..4 : SERVICES[i] \in Names
  BY DEF Names
<1>6. \A i, k \in 1..4 : SERVICES[i] = SERVICES[k] => i = k
  BY <1>1, <1>2
<1> QED
  BY <1>2, <1>4, <1>5, <1>6

LEMMA InitInvariant == Init => IInv
<1> SUFFICES ASSUME Init PROVE IInv
  OBVIOUS
<1>1. TypeOK
  BY NamesAre, ChaosAssumption DEF ChaosAssumption, Init, TypeOK, Places
<1>2. Undisturbed
  BY DEF Init, Undisturbed, AllRun, SeenReady
<1> QED
  BY <1>1, <1>2 DEF IInv

-----------------------------------------------------------------------------
(* The world around the script                                              *)

LEMMA FaultKeeps ==
    ASSUME IInv, NEW s \in Names, Crash(s) \/ Dip(s)
    PROVE  IInv'
<1>1. faults' \in 0..MaxFaults
  BY ChaosAssumption DEF ChaosAssumption, IInv, TypeOK, Crash, Dip, Fault
<1>2. excuses' \subseteq {"crash", "dip", "timeout", "late"} /\ excuses' # {}
  BY DEF IInv, TypeOK, Crash, Dip, Fault
<1>3. /\ running' \in [Names -> BOOLEAN] /\ fit' \in [Names -> BOOLEAN]
      /\ linked' \in BOOLEAN
      /\ UNCHANGED <<stopped, cell, script>>
  BY DEF IInv, TypeOK, Crash, Dip, Down, Cut
<1>4. TypeOK'
  BY <1>1, <1>2, <1>3 DEF IInv, TypeOK, script
<1> QED
  BY <1>2, <1>4 DEF IInv

\* Services come up, and a lost channel is noticed.
LEMMA WorldKeeps ==
    ASSUME IInv, (\E s \in Names : Revive(s) \/ GetsFit(s)) \/ Notice
    PROVE  IInv'
<1>1. /\ running' \in [Names -> BOOLEAN] /\ fit' \in [Names -> BOOLEAN]
      /\ linked' \in BOOLEAN
      /\ UNCHANGED <<stopped, cell, script, faults, excuses>>
  <2>1. /\ running \in [Names -> BOOLEAN] /\ fit \in [Names -> BOOLEAN] /\ linked \in BOOLEAN
    BY DEF IInv, TypeOK
  <2>2. CASE \E s \in Names : Revive(s)
    BY <2>1, <2>2 DEF Revive
  <2>3. CASE \E s \in Names : GetsFit(s)
    BY <2>1, <2>3 DEF GetsFit
  <2>4. CASE Notice
    BY <2>1, <2>4 DEF Notice
  <2> QED
    BY <2>2, <2>3, <2>4
<1>2. TypeOK'
  BY <1>1 DEF IInv, TypeOK, script
<1>3. \A t \in Names : /\ running[t] => running'[t]
                       /\ running'[t] /\ ~running[t] => ~stopped[t]
                       /\ Whole(t) => Whole(t)'
  BY NamesAre DEF IInv, TypeOK, Revive, GetsFit, Notice, Whole
<1>4. Victim \in Names
  BY NamesAre DEF IInv, TypeOK, Victim
<1>5. UNCHANGED Victim
  BY <1>1 DEF script, Victim
<1>6. ASSUME Undisturbed PROVE Undisturbed'
  <2>1. (AllRun => AllRun') /\ (AllWhole => AllWhole')
    BY <1>3 DEF AllRun, AllWhole
  <2>2. SeenReady => SeenReady'
    BY <1>1, <1>3, NamesAre DEF SeenReady, script
  <2>3. OthersSurvive => OthersSurvive'
    BY <1>3, <1>5 DEF OthersSurvive, Survives, EXPECTED_CASCADE
  <2>4. ~running[Victim] /\ stopped[Victim] => ~running'[Victim] /\ stopped'[Victim]
    BY <1>1, <1>2, <1>3, <1>4 DEF IInv, TypeOK
  <2> QED
    BY <1>1, <1>5, <1>6, <2>1, <2>2, <2>3, <2>4 DEF Undisturbed, script
<1> QED
  BY <1>1, <1>2, <1>6 DEF IInv

LEMMA ScrapeKeeps == ASSUME IInv, NEW s \in Cells, Scrape(s) PROVE IInv'
<1>1. s \in Names
  BY ChaosAssumption DEF ChaosAssumption
<1>2. Expression(UpSeries(s), ReadySeries(s)) \in {{0}, {1}}
  <2>1. CASE ~running[s]
    <3>1. UpSeries(s) = {0} /\ ReadySeries(s) = {}
      BY <2>1 DEF UpSeries, ReadySeries, Live, Bit
    <3>2. Expression({0}, {}) = {0}
      BY DEF Expression
    <3> QED
      BY <3>1, <3>2
  <2>2. CASE running[s] /\ fit[s]
    <3>1. UpSeries(s) = {1} /\ ReadySeries(s) = {1}
      BY <2>2 DEF UpSeries, ReadySeries, Live, Bit
    <3>2. Expression({1}, {1}) = {1}
      BY DEF Expression
    <3> QED
      BY <3>1, <3>2
  <2>3. CASE running[s] /\ ~fit[s]
    <3>1. UpSeries(s) = {1} /\ ReadySeries(s) = {0}
      BY <2>3 DEF UpSeries, ReadySeries, Live, Bit
    <3>2. Expression({1}, {0}) = {0}
      BY DEF Expression
    <3> QED
      BY <3>1, <3>2
  <2> QED
    BY <2>1, <2>2, <2>3
<1>3. cell' \in [Cells -> {{}, {0}, {1}}]
  BY <1>2 DEF Scrape, IInv, TypeOK
<1>4. UNCHANGED <<docker, script, faults, excuses>>
  BY DEF Scrape
<1>5. TypeOK'
  BY <1>3, <1>4 DEF IInv, TypeOK, docker, script
<1>6. Undisturbed => Undisturbed'
  BY <1>4 DEF Undisturbed, AllRun, AllWhole, SeenReady, OthersSurvive, Survives, Whole,
              Victim, EXPECTED_CASCADE, docker, script
<1> QED
  BY <1>4, <1>5, <1>6 DEF IInv

-----------------------------------------------------------------------------
(* The script                                                               *)

LEMMA BeginKeeps == ASSUME IInv, Begin PROVE IInv'
<1>1. UNCHANGED <<docker, cell, victim, alive, ok, failures, faults>>
  BY DEF Begin
<1>2. excuses' \subseteq {"crash", "dip", "timeout", "late"} /\ excuses \subseteq excuses'
  BY DEF Begin, IInv, TypeOK, Overlooks
<1>3. pc' \in {"begin", "kill", "done"} /\ at' \in 1..4
  BY DEF Begin, IInv, TypeOK
<1>4. TypeOK'
  BY <1>1, <1>2, <1>3 DEF IInv, TypeOK, docker, Places
<1>5. ASSUME excuses' = {} PROVE Undisturbed'
  <2>1. /\ failures = {} /\ ok /\ AllRun /\ SeenReady /\ alive \in {"unknown", "yes"}
    BY <1>2, <1>5 DEF IInv, Undisturbed, Begin
  <2>2. pc' # "done" => Whole(SERVICES[at])
    BY <1>5 DEF Begin, Overlooks, Ready, Whole
  <2>3. pc' = "begin" => SeenReady'
    BY <1>1, <2>1, <2>2 DEF Begin, IInv, TypeOK, SeenReady, Whole, docker
  <2>4. pc' = "kill" => AllWhole' /\ at' = 1
    <3>1. pc' = "kill" => \A i \in 1..4 : Whole(SERVICES[i])
      BY <2>1, <2>2 DEF Begin, IInv, TypeOK, SeenReady
    <3>2. \A s \in Names : \E i \in 1..4 : s = SERVICES[i]
      BY DEF Names
    <3> QED
      BY <1>1, <3>1, <3>2 DEF Begin, AllWhole, Whole, docker
  <2> QED
    BY <1>1, <1>3, <2>1, <2>3, <2>4 DEF Undisturbed, AllRun, docker
<1> QED
  BY <1>4, <1>5 DEF IInv

LEMMA KillKeeps == ASSUME IInv, Kill PROVE IInv'
<1>1. /\ pc = "kill" /\ pc' = "gone"
      /\ UNCHANGED <<cell, victim, at, alive, ok, failures, faults, excuses>>
  BY DEF Kill
<1>2. Victim \in Names /\ UNCHANGED Victim
  BY <1>1, NamesAre DEF IInv, TypeOK, Victim
<1>3. /\ running' \in [Names -> BOOLEAN] /\ stopped' \in [Names -> BOOLEAN]
      /\ fit' \in [Names -> BOOLEAN] /\ linked' \in BOOLEAN
  BY DEF Kill, IInv, TypeOK, Down, Cut, docker
<1>4. TypeOK'
  BY <1>1, <1>3 DEF IInv, TypeOK, Places
<1>5. ASSUME Undisturbed PROVE Undisturbed'
  <2>1. AllWhole /\ running[Victim]
    BY <1>1, <1>2, <1>5 DEF Undisturbed, AllWhole, Whole
  <2>2. /\ running' = [running EXCEPT ![Victim] = FALSE]
        /\ stopped' = [stopped EXCEPT ![Victim] = TRUE]
        /\ fit' = [fit EXCEPT ![Victim] = FALSE]
        /\ linked' = (linked /\ Victim \notin {"state-svc", "viz-svc"})
    BY <2>1 DEF Kill, Down, Cut
  <2>3. ~running'[Victim] /\ stopped'[Victim]
    BY <1>2, <2>2 DEF IInv, TypeOK
  <2>4. ASSUME NEW s \in Names, s # Victim PROVE Survives(s)'
    <3>1. running'[s] /\ fit'[s] /\ (s = "viz-svc" => linked)
      BY <2>1, <2>2, <2>4 DEF IInv, TypeOK, AllWhole, Whole
    <3>2. s = "viz-svc" /\ ~linked' => Victim = "state-svc"
      BY <2>2, <2>4, <3>1
    <3> QED
      BY <1>2, <3>1, <3>2 DEF Survives, Whole, EXPECTED_CASCADE
  <2> QED
    BY <1>1, <1>2, <1>5, <2>3, <2>4 DEF Undisturbed, OthersSurvive
<1> QED
  BY <1>1, <1>4, <1>5 DEF IInv

\* The place and the variables that NextVictim leaves.
LEMMA NextVictimType ==
    ASSUME TypeOK, NEW failed \in SUBSET Names, NextVictim(failed)
    PROVE  /\ pc' \in {"done", "kill"} /\ victim' \in 1..4 /\ at' = 1
           /\ alive' = "unknown" /\ ok' = TRUE
           /\ failures' = failures \cup failed /\ failures' \subseteq Names
<1>1. pc' \in {"done", "kill"} /\ at' = 1 /\ alive' = "unknown" /\ ok' = TRUE
  BY DEF NextVictim
<1>2. victim' \in 1..4
  BY DEF TypeOK, NextVictim
<1>3. failures' = failures \cup failed /\ failures' \subseteq Names
  BY DEF TypeOK, NextVictim
<1> QED
  BY <1>1, <1>2, <1>3

LEMMA FailedType ==
    ASSUME IInv, NextVictim({Victim}), UNCHANGED <<cell, faults>>,
           running' \in [Names -> BOOLEAN], stopped' \in [Names -> BOOLEAN],
           UNCHANGED <<fit, linked>>,
           excuses' = excuses \/ excuses' = excuses \cup {"timeout"}
    PROVE  TypeOK'
<1>1. {Victim} \in SUBSET Names
  BY NamesAre DEF IInv, TypeOK, Victim
<1>2. /\ pc' \in {"done", "kill"} /\ victim' \in 1..4 /\ at' = 1
      /\ alive' = "unknown" /\ ok' = TRUE /\ failures' \subseteq Names
  BY <1>1, NextVictimType DEF IInv
<1>3. excuses' \subseteq {"crash", "dip", "timeout", "late"}
  BY DEF IInv, TypeOK
<1> QED
  BY <1>2, <1>3 DEF IInv, TypeOK, Places

LEMMA GoneKeeps == ASSUME IInv, Gone PROVE IInv'
<1>1. pc = "gone" /\ UNCHANGED <<docker, cell, faults>>
  BY DEF Gone
<1>2. Victim \in Names
  BY NamesAre DEF IInv, TypeOK, Victim
<1>3. CASE ~Live(Victim) /\ pc' = "survey" /\ UNCHANGED <<victim, at, alive, ok, failures, excuses>>
  <2>1. TypeOK'
    BY <1>1, <1>3 DEF IInv, TypeOK, Places, docker
  <2>2. Undisturbed => Undisturbed'
    BY <1>1, <1>3 DEF Undisturbed, OthersSurvive, Survives, Whole, Victim, EXPECTED_CASCADE, docker
  <2> QED
    BY <1>3, <2>1, <2>2 DEF IInv
<1>4. CASE NextVictim({Victim}) /\ excuses' = excuses \cup {"timeout"}
  <2>1. TypeOK'
    BY <1>1, <1>4, FailedType DEF IInv, TypeOK, docker
  <2> QED
    BY <1>4, <2>1 DEF IInv
<1> QED
  BY <1>3, <1>4 DEF Gone

\* What the survey keeps while it goes from one service to the next.
LEMMA SurveyKeeps ==
    ASSUME IInv, pc = "survey", After(at),
           UNCHANGED <<docker, cell, victim, failures, faults>>,
           alive' \in {"unknown", alive}, ok' \in BOOLEAN,
           excuses' \subseteq {"crash", "dip", "timeout", "late"}, excuses \subseteq excuses',
           excuses' = {} => ok'
    PROVE  IInv'
<1>1. pc' \in {"survey", "start"} /\ at' \in 1..4 /\ (pc' = "start" => at' = 1)
  BY DEF After, IInv, TypeOK
<1>2. TypeOK'
  BY <1>1 DEF IInv, TypeOK, Places, docker
<1>3. ASSUME excuses' = {} PROVE Undisturbed'
  <2>1. Undisturbed /\ UNCHANGED Victim
    BY <1>3 DEF IInv, Victim
  <2>2. OthersSurvive'
    BY <2>1 DEF Undisturbed, OthersSurvive, Survives, Whole, EXPECTED_CASCADE, docker
  <2> QED
    BY <1>1, <1>3, <2>1, <2>2 DEF Undisturbed, docker
<1> QED
  BY <1>2, <1>3 DEF IInv

LEMMA ProbesKeep == ASSUME IInv, SkipVictim \/ ProbeLive \/ ProbeReady PROVE IInv'
<1>1. SERVICES[at] \in Names /\ (at # victim => SERVICES[at] # Victim)
  BY NamesAre DEF IInv, TypeOK, Victim
<1>2. CASE SkipVictim
  <2>1. excuses' = {} => ok'
    BY <1>2 DEF SkipVictim, IInv, Undisturbed
  <2> QED
    BY <1>2, <2>1, SurveyKeeps DEF SkipVictim, IInv, TypeOK
<1>3. CASE ProbeLive
  <2>1. /\ alive' \in {"yes", "no"}
        /\ UNCHANGED <<docker, cell, pc, victim, at, ok, failures, faults, excuses>>
    BY <1>3 DEF ProbeLive
  <2>2. TypeOK'
    BY <2>1 DEF IInv, TypeOK, docker
  <2>3. ASSUME Undisturbed PROVE Undisturbed'
    <3>1. running[SERVICES[at]]
      BY <1>1, <1>3, <2>3 DEF Undisturbed, OthersSurvive, Survives, ProbeLive
    <3>2. alive' = "yes"
      BY <1>3, <3>1 DEF ProbeLive, Live
    <3> QED
      BY <1>3, <2>1, <2>3, <3>2
         DEF ProbeLive, Undisturbed, OthersSurvive, Survives, Whole, Victim, EXPECTED_CASCADE, docker
  <2> QED
    BY <2>1, <2>2, <2>3 DEF IInv
<1>4. CASE ProbeReady
  <2>1. /\ excuses' \subseteq {"crash", "dip", "timeout", "late"} /\ excuses \subseteq excuses'
        /\ ok' = (ok /\ alive = "yes"
                     /\ (Ready(SERVICES[at]) \/ SERVICES[at] \in EXPECTED_CASCADE(Victim)))
        /\ alive' = "unknown"
    BY <1>4 DEF ProbeReady, IInv, TypeOK, Overlooks
  <2>2. ASSUME excuses' = {} PROVE ok'
    <3>1. Undisturbed
      BY <2>1, <2>2 DEF IInv
    <3>2. ok /\ alive = "yes" /\ Survives(SERVICES[at])
      BY <1>1, <1>4, <3>1 DEF ProbeReady, Undisturbed, OthersSurvive
    <3> QED
      BY <2>1, <3>2 DEF Survives, Whole, Ready
  <2>3. ok' \in BOOLEAN
    BY <2>1
  <2> QED
    BY <1>4, <2>1, <2>2, <2>3, SurveyKeeps DEF ProbeReady
<1> QED
  BY <1>2, <1>3, <1>4

LEMMA StartKeeps == ASSUME IInv, Start PROVE IInv'
<1>1. /\ pc = "start"
      /\ running' = [running EXCEPT ![Victim] = TRUE]
      /\ stopped' = [stopped EXCEPT ![Victim] = FALSE]
      /\ UNCHANGED <<fit, linked, cell, faults, excuses>>
  BY DEF Start
<1>2. Victim \in Names
  BY NamesAre DEF IInv, TypeOK, Victim
<1>3. /\ running' \in [Names -> BOOLEAN] /\ stopped' \in [Names -> BOOLEAN]
      /\ running'[Victim] /\ \A s \in Names : s # Victim => running'[s] = running[s]
  BY <1>1, <1>2 DEF IInv, TypeOK
<1>4. CASE ok /\ pc' = "recover" /\ UNCHANGED <<victim, at, alive, ok, failures>>
  <2>1. TypeOK'
    BY <1>1, <1>3, <1>4 DEF IInv, TypeOK, Places
  <2>2. ASSUME Undisturbed PROVE Undisturbed'
    <3>1. AllRun'
      BY <1>1, <1>3, <2>2 DEF Undisturbed, OthersSurvive, Survives, AllRun
    <3>2. SeenReady'
      BY <1>1, <1>4, <2>2 DEF Undisturbed, SeenReady
    <3> QED
      BY <1>4, <2>2, <3>1, <3>2 DEF Undisturbed
  <2> QED
    BY <1>1, <2>1, <2>2 DEF IInv
<1>5. CASE ~ok /\ NextVictim({Victim})
  <2>1. TypeOK'
    BY <1>1, <1>3, <1>5, FailedType
  <2>2. excuses # {}
    BY <1>5 DEF IInv, Undisturbed
  <2> QED
    BY <1>1, <2>1, <2>2 DEF IInv
<1> QED
  BY <1>4, <1>5 DEF Start, IInv, TypeOK

LEMMA RecoverKeeps == ASSUME IInv, Recover PROVE IInv'
<1>1. pc = "recover" /\ UNCHANGED <<docker, cell, faults>>
  BY DEF Recover
<1>2. Victim \in Names
  BY NamesAre DEF IInv, TypeOK, Victim
<1>3. CASE Ready(SERVICES[at]) /\ at = 4 /\ NextVictim({}) /\ excuses' = excuses \cup Overlooks(SERVICES[at])
  <2>0. /\ pc' \in {"done", "kill"} /\ victim' \in 1..4 /\ at' = 1
        /\ alive' = "unknown" /\ ok' = TRUE
        /\ failures' = failures \cup {} /\ failures' \subseteq Names
    <3>1. {} \in SUBSET Names
      OBVIOUS
    <3> QED
      BY <1>3, <3>1, NextVictimType DEF IInv
  <2>1. excuses' \subseteq {"crash", "dip", "timeout", "late"}
    BY <1>3 DEF IInv, TypeOK, Overlooks
  <2>2. TypeOK'
    BY <1>1, <2>0, <2>1 DEF IInv, TypeOK, Places, docker
  <2>3. ASSUME excuses' = {} PROVE Undisturbed'
    <3>1. Undisturbed /\ AllRun /\ SeenReady
      BY <1>1, <1>3, <2>3 DEF IInv, Undisturbed
    <3>2. Whole(SERVICES[4])
      BY <1>3, <2>3 DEF Ready, Whole, Overlooks
    <3>3. \A i \in 1..4 : Whole(SERVICES[i])
      BY <1>3, <3>1, <3>2 DEF SeenReady
    <3>4. \A s \in Names : \E i \in 1..4 : s = SERVICES[i]
      BY DEF Names
    <3>5. AllWhole'
      BY <1>1, <3>3, <3>4 DEF AllWhole, Whole, docker
    <3> QED
      BY <2>0, <3>1, <3>5 DEF Undisturbed
  <2> QED
    BY <2>2, <2>3 DEF IInv
<1>4. CASE /\ Ready(SERVICES[at]) /\ at # 4 /\ at' = at + 1
           /\ UNCHANGED <<pc, victim, alive, ok, failures>>
           /\ excuses' = excuses \cup Overlooks(SERVICES[at])
  <2>1. excuses' \subseteq {"crash", "dip", "timeout", "late"}
    BY <1>4 DEF IInv, TypeOK, Overlooks
  <2>2. TypeOK'
    BY <1>1, <1>4, <2>1 DEF IInv, TypeOK, docker
  <2>3. ASSUME excuses' = {} PROVE Undisturbed'
    <3>1. Undisturbed /\ AllRun /\ SeenReady
      BY <1>1, <1>4, <2>3 DEF IInv, Undisturbed
    <3>2. Whole(SERVICES[at])
      BY <1>4, <2>3 DEF Ready, Whole, Overlooks
    <3>3. SeenReady'
      BY <1>1, <1>4, <3>1, <3>2 DEF SeenReady, Whole, docker, IInv, TypeOK
    <3> QED
      BY <1>1, <1>4, <3>1, <3>3 DEF Undisturbed, AllRun, docker
  <2> QED
    BY <2>2, <2>3 DEF IInv
<1>5. CASE at' = 1 /\ UNCHANGED <<pc, victim, alive, ok, failures, excuses>>
  <2>1. TypeOK'
    BY <1>1, <1>5 DEF IInv, TypeOK, docker
  <2>2. Undisturbed => Undisturbed'
    BY <1>1, <1>5 DEF Undisturbed, AllRun, SeenReady, docker
  <2> QED
    BY <1>5, <2>1, <2>2 DEF IInv
<1>6. CASE NextVictim({Victim}) /\ excuses' = excuses \cup {"timeout"}
  <2>1. TypeOK'
    BY <1>1, <1>6, FailedType DEF IInv, TypeOK, docker
  <2> QED
    BY <1>6, <2>1 DEF IInv
<1> QED
  BY <1>3, <1>4, <1>5, <1>6 DEF Recover

LEMMA InterruptKeeps == ASSUME IInv, Interrupt PROVE IInv'
<1>1. pc' = "interrupted"
      /\ UNCHANGED <<docker, cell, victim, at, alive, ok, failures, faults, excuses>>
  BY DEF Interrupt
<1>2. TypeOK'
  BY <1>1 DEF IInv, TypeOK, Places, docker
<1>3. Undisturbed => Undisturbed'
  BY <1>1 DEF Undisturbed
<1> QED
  BY <1>1, <1>2, <1>3 DEF IInv

-----------------------------------------------------------------------------
LEMMA StepKeeps == ASSUME IInv, [Next]_vars PROVE IInv'
<1>1. ASSUME NEW s \in Names, Crash(s) \/ Dip(s) PROVE IInv'
  BY <1>1, FaultKeeps
<1>2. CASE (\E s \in Names : Revive(s) \/ GetsFit(s)) \/ Notice
  BY <1>2, WorldKeeps
<1>3. ASSUME NEW s \in Cells, Scrape(s) PROVE IInv'
  BY <1>3, ScrapeKeeps
<1>4. CASE Begin
  BY <1>4, BeginKeeps
<1>5. CASE Kill
  BY <1>5, KillKeeps
<1>6. CASE Gone
  BY <1>6, GoneKeeps
<1>7. CASE SkipVictim \/ ProbeLive \/ ProbeReady
  BY <1>7, ProbesKeep
<1>8. CASE Start
  BY <1>8, StartKeeps
<1>9. CASE Recover
  BY <1>9, RecoverKeeps
<1>10. CASE Interrupt
  BY <1>10, InterruptKeeps
<1>11. CASE UNCHANGED vars
  <2>1. TypeOK'
    BY <1>11 DEF IInv, TypeOK, vars, docker, script
  <2>2. Undisturbed => Undisturbed'
    BY <1>11 DEF Undisturbed, AllRun, AllWhole, SeenReady, OthersSurvive, Survives, Whole,
                 Victim, EXPECTED_CASCADE, vars, docker, script
  <2>3. UNCHANGED excuses
    BY <1>11 DEF vars
  <2> QED
    BY <2>1, <2>2, <2>3 DEF IInv
<1> QED
  BY <1>1, <1>2, <1>3, <1>4, <1>5, <1>6, <1>7, <1>8, <1>9, <1>10, <1>11 DEF Next

LEMMA Invariance == Spec => []IInv
<1>1. IInv /\ [Next]_vars => IInv'
  BY StepKeeps
<1> QED
  BY InitInvariant, <1>1, PTL DEF Spec

\* Type correctness of the script, the services and the status cells.
THEOREM TypeCorrect == Spec => []TypeOK
<1>1. IInv => TypeOK
  BY DEF IInv
<1> QED
  BY Invariance, <1>1, PTL

\* Without a crash, a dip, a timeout or an overlooked channel no cycle of chaos.py
\* fails, in whatever order its probes meet the services (chaos.py:70-103).
THEOREM BlamesFairly == Spec => []BlamesOnlyFaults
<1>1. IInv => BlamesOnlyFaults
  BY DEF IInv, Undisturbed, BlamesOnlyFaults
<1> QED
  BY Invariance, <1>1, PTL

-----------------------------------------------------------------------------
(* Who is stopped.                                                          *)

\* Where the script has killed its victim and not yet started it.
InCycle == {"gone", "survey", "start", "interrupted"}

LEMMA EnvironmentRevivesNone ==
    ASSUME TypeOK, OnlyVictimIsStopped,
           \/ \E s \in Names : Crash(s) \/ Dip(s) \/ Revive(s) \/ GetsFit(s)
           \/ Notice \/ (\E s \in Cells : Scrape(s)) \/ UNCHANGED vars
    PROVE  OnlyVictimIsStopped'
<1>1. stopped' = stopped /\ pc' = pc /\ Victim' = Victim
  BY DEF Crash, Dip, Revive, GetsFit, Notice, Scrape, vars, docker, script, Victim
<1>2. \A s \in Names : stopped[s] /\ ~running[s] => ~running'[s]
  BY DEF Crash, Down, Dip, Revive, GetsFit, Notice, Scrape, vars, docker, TypeOK
<1> QED
  BY <1>1, <1>2 DEF OnlyVictimIsStopped

LEMMA KillStopsVictim ==
    ASSUME TypeOK, OnlyVictimIsStopped, Kill
    PROVE  OnlyVictimIsStopped'
<1>1. pc = "kill" /\ pc' = "gone" /\ victim' = victim
  BY DEF Kill
<1>2. Victim' = Victim
  BY <1>1 DEF Victim
<1>3. \A s \in Names : ~stopped[s]
  BY <1>1 DEF OnlyVictimIsStopped
<1>4. \A s \in Names : stopped'[s] => s = Victim /\ ~running'[s]
  BY <1>3 DEF Kill, Down, docker, TypeOK
<1> QED
  BY <1>1, <1>2, <1>4 DEF OnlyVictimIsStopped

\* The script moves to another victim only when nothing is stopped.
LEMMA StartFreesVictim ==
    ASSUME TypeOK, OnlyVictimIsStopped, Start
    PROVE  OnlyVictimIsStopped'
<1>1. stopped' = [stopped EXCEPT ![Victim] = FALSE]
  BY DEF Start
<1>2. \A s \in Names : ~stopped'[s]
  BY <1>1 DEF OnlyVictimIsStopped, TypeOK
<1> QED
  BY <1>2 DEF OnlyVictimIsStopped

LEMMA ProbesFreeNone ==
    ASSUME TypeOK, OnlyVictimIsStopped,
           Begin \/ Gone \/ SkipVictim \/ ProbeLive \/ ProbeReady \/ Recover \/ Interrupt
    PROVE  OnlyVictimIsStopped'
<1>1. running' = running /\ stopped' = stopped
  BY DEF Begin, Gone, SkipVictim, ProbeLive, ProbeReady, Recover, Interrupt, docker
<1>2. CASE Begin \/ Recover
  <2>1. \A s \in Names : ~stopped[s]
    BY <1>2 DEF Begin, Recover, OnlyVictimIsStopped
  <2> QED
    BY <1>1, <2>1 DEF OnlyVictimIsStopped
<1>3. CASE Gone /\ Live(Victim)
  <2>1. \A s \in Names : ~stopped[s]
    BY <1>3 DEF Live, OnlyVictimIsStopped
  <2> QED
    BY <1>1, <2>1 DEF OnlyVictimIsStopped
<1>4. CASE (Gone /\ ~Live(Victim)) \/ SkipVictim \/ ProbeLive \/ ProbeReady \/ Interrupt
  <2>1. victim' = victim /\ (pc \in InCycle => pc' \in InCycle)
    BY <1>4 DEF Gone, SkipVictim, ProbeLive, ProbeReady, Interrupt, After, InCycle
  <2>2. Victim' = Victim
    BY <2>1 DEF Victim
  <2> QED
    BY <1>1, <2>1, <2>2 DEF OnlyVictimIsStopped, InCycle
<1> QED
  BY <1>2, <1>3, <1>4

\* Nothing but the victim of the cycle is ever kept down, and no way through the
\* script but its interruption leaves even that one: Docker revives all the rest.
THEOREM LeavesNoneStopped == Spec => []OnlyVictimIsStopped
<1>1. Init => OnlyVictimIsStopped
  BY DEF Init, OnlyVictimIsStopped
<1>2. ASSUME TypeOK, OnlyVictimIsStopped, [Next]_vars PROVE OnlyVictimIsStopped'
  BY <1>2, EnvironmentRevivesNone, KillStopsVictim, StartFreesVictim, ProbesFreeNone DEF Next
<1> QED
  BY <1>1, <1>2, TypeCorrect, PTL DEF Spec
=============================================================================
