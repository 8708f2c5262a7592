--------------------------- MODULE ValhallaHostProofs ---------------------------
(***************************************************************************)
(* Why an activation can always be taken back, why what is left at rest    *)
(* was validated, and why the edge list covers the archive, for any number *)
(* of releases, starts, runs, failing commands, kills and power failures.  *)
(***************************************************************************)
EXTENDS ValhallaHost, TLAPS

Steps == {"idle", "recover"} \cup BuildSteps \cup ActivateSteps
            \cup RollbackSteps \cup TrapSteps

ScriptTypes ==
    /\ dirs \in [Releases -> {"absent", "building", "sealed"}]
    /\ current \in Releases
    /\ served \in Releases \cup {None}
    /\ script \in [pc: Steps, mode: Modes, release: Releases \cup {None},
                   previous: Releases \cup {None}, switched: BOOLEAN]
    /\ transaction \in Pair \cup {NoPair}
    /\ proven \subseteq Releases
    /\ lastId \in Releases
    /\ budget \in [faults: 0..MaxFaults, crashes: 0..MaxCrashes,
                   starts: 0..MaxStarts]

(* The steps between the writing of transaction.env and its removal. *)
Committing == {"stop", "switch", "forget", "traffic", "recreate", "validate", "commit"}
InTransaction == Committing \cup RollbackSteps \cup TrapSteps
OutOfTransaction == BuildSteps \cup {"check", "begin", "record", "prune"}

(* transaction.env is there exactly while it is needed, and names what the *)
(* script would go back to; that release and the current one are sealed,   *)
(* unless fail has deleted the current one.                                *)
TransactionFits ==
    /\ At("begin") => script.previous = current /\ dirs[current] = "sealed"
    /\ script.pc \in InTransaction =>
           transaction # NoPair /\ script.previous = transaction.previous
    /\ script.pc \in OutOfTransaction => transaction = NoPair
    /\ script.switched =>
           script.pc \in {"recreate", "validate", "commit"} \cup RollbackSteps \cup TrapSteps
    /\ dirs[current] \in {"sealed", "absent"}

(* The release that fail may delete is a new one: it is neither what the   *)
(* transaction goes back to nor, before the switch, the current one.       *)
NewIsNotInUse ==
    /\ current <= lastId
    /\ \A r \in Releases : Exists(r) => r <= lastId
    /\ script.pc \in BuildSteps \cup ActivateSteps => script.release \in Releases
    /\ script.pc \in BuildSteps => script.mode \in {"run", "build"}
    /\ script.pc \in {"recover"} \cup RollbackSteps /\ script.mode = "activate" =>
           script.release \in Releases
    /\ script.pc \in {"begin", "stop", "switch"} => dirs[script.release] = "sealed"
    /\ ~At("idle") /\ script.mode \in {"run", "build"} =>
           /\ script.release = lastId
           /\ transaction # NoPair => transaction.previous # script.release
           /\ script.pc \in {"recover", "check", "begin"} \cup BuildSteps =>
                  current # script.release

(* What production runs when a validation has begun or passed. *)
ProductionFits ==
    /\ script.pc \in {"validate", "commit", "rbValidate", "rbCommit", "trapValidate"} =>
           served = current
    /\ script.pc \in {"commit", "rbCommit"} => current \in proven
    /\ script.pc \in {"rbForget", "rbTraffic", "rbRecreate", "rbValidate", "rbCommit"} =>
           current = script.previous
    /\ transaction = NoPair /\ Exists(current) => served = current /\ current \in proven

ScriptInv ==
    ScriptTypes /\ TransactionFits /\ NewIsNotInUse /\ ProductionFits /\ RollbackTargetKept

-----------------------------------------------------------------------------
LEMMA ReleasesAreNumbers == Releases \subseteq Nat /\ 1 \in Releases /\ None \notin Releases /\ None \in Nat
  BY RuntimeAssumption DEF Releases, None

LEMMA ScriptInitial == ReleaseInit => ScriptInv
<1> SUFFICES ASSUME ReleaseInit PROVE ScriptInv
  OBVIOUS
<1> USE ReleasesAreNumbers
<1>1. ScriptTypes
  BY DEF ReleaseInit, RuntimeInit, ScriptTypes, Idle, Steps, Modes
<1>2. TransactionFits
  BY DEF ReleaseInit, RuntimeInit, TransactionFits, Idle, At, InTransaction, OutOfTransaction,
         Committing, BuildSteps, RollbackSteps, TrapSteps
<1>3. NewIsNotInUse
  BY DEF ReleaseInit, RuntimeInit, NewIsNotInUse, Idle, At, Exists, BuildSteps, ActivateSteps, RollbackSteps
<1>4. ProductionFits /\ RollbackTargetKept
  BY DEF ReleaseInit, RuntimeInit, ProductionFits, RollbackTargetKept, Idle
<1> QED
  BY <1>1, <1>2, <1>3, <1>4 DEF ScriptInv

(* How the script moves on, and how it ends. *)
LEMMA GotoMoves ==
    ASSUME ScriptTypes, NEW p \in Steps, Goto(p)
    PROVE  /\ script'.pc = p /\ script'.mode = script.mode /\ script'.release = script.release
           /\ script'.previous = script.previous /\ script'.switched = script.switched
           /\ script' \in [pc: Steps, mode: Modes, release: Releases \cup {None},
                           previous: Releases \cup {None}, switched: BOOLEAN]
  BY DEF ScriptTypes, Goto

LEMMA ExitsIdle ==
    ASSUME Exits
    PROVE  /\ script'.pc = "idle" /\ script'.switched = FALSE
           /\ script' \in [pc: Steps, mode: Modes, release: Releases \cup {None},
                           previous: Releases \cup {None}, switched: BOOLEAN]
  BY DEF Exits, Idle, Steps, Modes

(* The script ends: it may have deleted releases the transaction does not  *)
(* go back to.                                                             *)
LEMMA EndingKeeps ==
    ASSUME ScriptInv, Exits, UNCHANGED <<current, lastId>>,
           dirs' \in [Releases -> {"absent", "building", "sealed"}],
           \A r \in Releases : dirs'[r] \in {dirs[r], "absent"},
           transaction' # NoPair => dirs'[transaction'.previous] = "sealed",
           served' \in Releases \cup {None}, transaction' \in Pair \cup {NoPair},
           proven' \subseteq Releases,
           budget' \in [faults: 0..MaxFaults, crashes: 0..MaxCrashes, starts: 0..MaxStarts],
           transaction' = NoPair /\ dirs'[current] # "absent" => served' = current /\ current \in proven'
    PROVE  ScriptInv'
<1>1. ScriptTypes'
  BY ExitsIdle DEF ScriptInv, ScriptTypes
<1>2. TransactionFits'
  BY ExitsIdle DEF ScriptInv, ScriptTypes, TransactionFits, At, InTransaction, OutOfTransaction,
         Committing, BuildSteps, RollbackSteps, TrapSteps
<1>3. NewIsNotInUse'
  BY ExitsIdle DEF ScriptInv, ScriptTypes, NewIsNotInUse, At, Exists, BuildSteps, ActivateSteps, RollbackSteps
<1>4. ProductionFits' /\ RollbackTargetKept'
  BY ExitsIdle DEF ScriptInv, ScriptTypes, ProductionFits, RollbackTargetKept, Exists
<1> QED
  BY <1>1, <1>2, <1>3, <1>4 DEF ScriptInv

-----------------------------------------------------------------------------
(* Moves within the script that leave releases, link and files alone.      *)
LEMMA BuildKeeps ==
    ASSUME ScriptInv, download_sources \/ compile_release PROVE ScriptInv'
<1>1. PICK p \in {"compile", "candidate"} : Goto(p) /\ script.pc \in {"download", "compile"}
  BY DEF download_sources, compile_release, BuildStep, At
<1>2. UNCHANGED <<dirs, current, served, transaction, proven, lastId, budget>>
  BY DEF download_sources, compile_release, BuildStep, Kept, runtimeVars
<1>3. p \in Steps
  BY <1>1 DEF Steps, BuildSteps
<1>4. /\ script'.pc = p /\ script'.mode = script.mode /\ script'.release = script.release
      /\ script'.previous = script.previous /\ script'.switched = script.switched
      /\ ScriptTypes'
  BY <1>1, <1>2, <1>3, GotoMoves DEF ScriptInv, ScriptTypes
<1>5. TransactionFits'
  BY <1>1, <1>2, <1>4 DEF ScriptInv, TransactionFits, At, InTransaction, OutOfTransaction,
         Committing, BuildSteps, RollbackSteps, TrapSteps
<1>6. NewIsNotInUse'
  BY <1>1, <1>2, <1>4 DEF ScriptInv, NewIsNotInUse, At, Exists, BuildSteps, ActivateSteps, RollbackSteps
<1>7. ProductionFits' /\ RollbackTargetKept'
  BY <1>1, <1>2, <1>4 DEF ScriptInv, ProductionFits, RollbackTargetKept, Exists
<1> QED
  BY <1>4, <1>5, <1>6, <1>7 DEF ScriptInv

LEMMA LayoutKeeps ==
    ASSUME ScriptInv, prepare_release_layout PROVE ScriptInv'
<1>1. At("prepare") /\ transaction = NoPair /\ script.release \in Releases
      /\ current # script.release /\ script.release = lastId /\ current \in Releases
  BY DEF prepare_release_layout, ScriptInv, ScriptTypes, TransactionFits, NewIsNotInUse, At,
         BuildSteps, OutOfTransaction
<1>2. UNCHANGED <<current, served, transaction, proven, lastId, budget>>
  BY DEF prepare_release_layout, Kept, fail, runtimeVars
<1>3. CASE Goto("download") /\ dirs' = [dirs EXCEPT ![script.release] = "building"]
  <2>1. /\ script'.pc = "download" /\ script'.mode = script.mode /\ script'.release = script.release
        /\ script'.previous = script.previous /\ script'.switched = script.switched
        /\ ScriptTypes'
    BY <1>2, <1>3, GotoMoves DEF ScriptInv, ScriptTypes, Steps, BuildSteps
  <2>2. \A r \in Releases : dirs'[r] = IF r = script.release THEN "building" ELSE dirs[r]
    BY <1>3 DEF ScriptInv, ScriptTypes
  <2>3. TransactionFits'
    BY <1>1, <1>2, <2>1, <2>2 DEF ScriptInv, TransactionFits, At, InTransaction, OutOfTransaction,
         Committing, BuildSteps, RollbackSteps, TrapSteps
  <2>4. NewIsNotInUse'
    BY <1>1, <1>2, <2>1, <2>2, ReleasesAreNumbers DEF ScriptInv, NewIsNotInUse, At, Exists,
         BuildSteps, ActivateSteps, RollbackSteps
  <2>5. ProductionFits' /\ RollbackTargetKept'
    BY <1>1, <1>2, <2>1, <2>2 DEF ScriptInv, ProductionFits, RollbackTargetKept, Exists
  <2> QED
    BY <2>1, <2>3, <2>4, <2>5 DEF ScriptInv
<1>4. CASE fail
  <2>1. \A r \in Releases : dirs'[r] \in {dirs[r], "absent"}
    BY <1>4 DEF fail, ScriptInv, ScriptTypes
  <2>2. dirs' \in [Releases -> {"absent", "building", "sealed"}] /\ Exits
    BY <1>4 DEF fail, ScriptInv, ScriptTypes
  <2> QED
    BY <1>1, <1>2, <2>1, <2>2, EndingKeeps DEF ScriptInv, ScriptTypes, ProductionFits, Exists
<1> QED
  BY <1>3, <1>4 DEF prepare_release_layout

LEMMA SealKeeps ==
    ASSUME ScriptInv, validate_candidate PROVE ScriptInv'
<1>1. At("candidate") /\ transaction = NoPair /\ script.release \in Releases
      /\ current # script.release /\ script.release = lastId /\ current \in Releases
  BY DEF validate_candidate, ScriptInv, ScriptTypes, TransactionFits, NewIsNotInUse, At,
         BuildSteps, OutOfTransaction
<1>2. UNCHANGED <<current, served, transaction, proven, lastId, budget>>
      /\ Goto("sealed") /\ dirs' = [dirs EXCEPT ![script.release] = "sealed"]
  BY DEF validate_candidate, Kept
<1>3. /\ script'.pc = "sealed" /\ script'.mode = script.mode /\ script'.release = script.release
      /\ script'.previous = script.previous /\ script'.switched = script.switched
      /\ ScriptTypes'
  BY <1>2, GotoMoves DEF ScriptInv, ScriptTypes, Steps, BuildSteps
<1>4. \A r \in Releases : dirs'[r] = IF r = script.release THEN "sealed" ELSE dirs[r]
  BY <1>2 DEF ScriptInv, ScriptTypes
<1>5. TransactionFits'
  BY <1>1, <1>2, <1>3, <1>4 DEF ScriptInv, TransactionFits, At, InTransaction, OutOfTransaction,
         Committing, BuildSteps, RollbackSteps, TrapSteps
<1>6. NewIsNotInUse'
  BY <1>1, <1>2, <1>3, <1>4, ReleasesAreNumbers DEF ScriptInv, NewIsNotInUse, At, Exists,
         BuildSteps, ActivateSteps, RollbackSteps
<1>7. ProductionFits' /\ RollbackTargetKept'
  BY <1>1, <1>2, <1>3, <1>4 DEF ScriptInv, ProductionFits, RollbackTargetKept, Exists
<1> QED
  BY <1>3, <1>5, <1>6, <1>7 DEF ScriptInv

LEMMA ReadyKeeps ==
    ASSUME ScriptInv, candidate_ready PROVE ScriptInv'
<1>1. UNCHANGED <<dirs, current, served, transaction, proven, lastId, budget>> /\ At("sealed")
  BY DEF candidate_ready, Kept, runtimeVars
<1>2. CASE Goto("check") /\ script.mode = "run"
  <2>1. /\ script'.pc = "check" /\ script'.mode = script.mode /\ script'.release = script.release
        /\ script'.previous = script.previous /\ script'.switched = script.switched
        /\ ScriptTypes'
    BY <1>1, <1>2, GotoMoves DEF ScriptInv, ScriptTypes, Steps, ActivateSteps
  <2>2. TransactionFits'
    BY <1>1, <2>1 DEF ScriptInv, TransactionFits, At, InTransaction, OutOfTransaction,
         Committing, BuildSteps, RollbackSteps, TrapSteps
  <2>3. NewIsNotInUse'
    BY <1>1, <1>2, <2>1 DEF ScriptInv, NewIsNotInUse, At, Exists, BuildSteps, ActivateSteps, RollbackSteps
  <2>4. ProductionFits' /\ RollbackTargetKept'
    BY <1>1, <2>1 DEF ScriptInv, ProductionFits, RollbackTargetKept, Exists
  <2> QED
    BY <2>1, <2>2, <2>3, <2>4 DEF ScriptInv
<1>3. CASE Exits
  BY <1>1, <1>3, EndingKeeps DEF ScriptInv, ScriptTypes, RollbackTargetKept, ProductionFits, Exists
<1> QED
  BY <1>2, <1>3 DEF candidate_ready

LEMMA CheckKeeps ==
    ASSUME ScriptInv, check_complete PROVE ScriptInv'
<1>1. UNCHANGED <<current, served, transaction, proven, lastId, budget>> /\ At("check")
      /\ transaction = NoPair
  BY DEF check_complete, Kept, fail, runtimeVars, ScriptInv, TransactionFits, At, OutOfTransaction
<1>2. CASE /\ dirs[script.release] = "sealed" /\ Exists(current)
           /\ script' = [script EXCEPT !.pc = "begin", !.previous = current]
           /\ dirs' = dirs
  <2>1. /\ script'.pc = "begin" /\ script'.mode = script.mode /\ script'.release = script.release
        /\ script'.previous = current /\ script'.switched = script.switched
        /\ ScriptTypes'
    BY <1>1, <1>2 DEF ScriptInv, ScriptTypes, Steps, ActivateSteps
  <2>2. TransactionFits'
    BY <1>1, <1>2, <2>1 DEF ScriptInv, TransactionFits, At, InTransaction, OutOfTransaction,
         Committing, BuildSteps, RollbackSteps, TrapSteps, Exists
  <2>3. NewIsNotInUse'
    BY <1>1, <1>2, <2>1 DEF ScriptInv, NewIsNotInUse, At, Exists, BuildSteps, ActivateSteps, RollbackSteps
  <2>4. ProductionFits' /\ RollbackTargetKept'
    BY <1>1, <1>2, <2>1 DEF ScriptInv, ProductionFits, RollbackTargetKept, Exists
  <2> QED
    BY <2>1, <2>2, <2>3, <2>4 DEF ScriptInv
<1>3. CASE fail
  <2>1. \A r \in Releases : dirs'[r] \in {dirs[r], "absent"}
    BY <1>3 DEF fail, ScriptInv, ScriptTypes
  <2>2. dirs' \in [Releases -> {"absent", "building", "sealed"}] /\ Exits
    BY <1>3 DEF fail, ScriptInv, ScriptTypes
  <2> QED
    BY <1>1, <2>1, <2>2, EndingKeeps DEF ScriptInv, ScriptTypes, ProductionFits, Exists
<1> QED
  BY <1>2, <1>3 DEF check_complete, runtimeVars

-----------------------------------------------------------------------------
(* While a transaction is open the script moves on, and the link only ever *)
(* goes to the release under activation or back to the previous one.       *)
LEMMA TransactionMoves ==
    ASSUME ScriptInv, script.pc \in InTransaction, NEW p \in InTransaction,
           script'.pc = p, script'.mode = script.mode, script'.release = script.release,
           script'.previous = script.previous,
           script' \in [pc: Steps, mode: Modes, release: Releases \cup {None},
                        previous: Releases \cup {None}, switched: BOOLEAN],
           UNCHANGED <<dirs, transaction, lastId>>,
           \/ current' \in {current, script.previous}
           \/ At("switch") /\ current' = script.release,
           served' \in Releases \cup {None}, proven' \subseteq Releases,
           budget' \in [faults: 0..MaxFaults, crashes: 0..MaxCrashes, starts: 0..MaxStarts],
           script'.switched => p \in {"recreate", "validate", "commit"} \cup RollbackSteps \cup TrapSteps,
           p \in ActivateSteps => script.pc \in ActivateSteps,
           p \in RollbackSteps => script.pc \in ActivateSteps \cup RollbackSteps,
           p = "stop" => FALSE, p = "switch" => At("stop"),
           p \in {"validate", "commit", "rbValidate", "rbCommit", "trapValidate"} => served' = current',
           p \in {"commit", "rbCommit"} => current' \in proven',
           p \in {"rbForget", "rbTraffic", "rbRecreate", "rbValidate", "rbCommit"} =>
               current' = script.previous
    PROVE  ScriptInv'
<1>1. /\ transaction \in Pair /\ transaction # NoPair
      /\ script.previous = transaction.previous
      /\ transaction.previous \in Releases /\ dirs[transaction.previous] = "sealed"
  BY DEF ScriptInv, ScriptTypes, TransactionFits, RollbackTargetKept, Pair
<1>2. At("switch") => script.release \in Releases /\ dirs[script.release] = "sealed"
  BY DEF ScriptInv, NewIsNotInUse, At, ActivateSteps
<1>3. /\ current' \in Releases /\ dirs[current'] \in {"sealed", "absent"}
      /\ current' <= lastId
  <2>1. CASE current' = current
    BY <2>1 DEF ScriptInv, ScriptTypes, TransactionFits, NewIsNotInUse
  <2>2. CASE current' # current
    BY <1>1, <1>2, <2>2 DEF ScriptInv, NewIsNotInUse, Exists
  <2> QED
    BY <2>1, <2>2
<1>4. ScriptTypes'
  BY <1>3 DEF ScriptInv, ScriptTypes
<1>5. TransactionFits'
  BY <1>1, <1>3 DEF ScriptInv, TransactionFits, At, InTransaction, OutOfTransaction,
         Committing, BuildSteps, RollbackSteps, TrapSteps
<1>6. NewIsNotInUse'
  <2>1. p \notin BuildSteps \cup {"recover", "check", "begin", "idle"}
    BY DEF InTransaction, Committing, BuildSteps, RollbackSteps, TrapSteps
  <2>2. script.pc # "idle" /\ (p \in RollbackSteps /\ script.mode = "activate" => script.release \in Releases)
    BY DEF InTransaction, Committing, RollbackSteps, TrapSteps, ScriptInv, NewIsNotInUse
  <2>3. p \in {"stop", "switch"} => dirs[script.release] = "sealed"
    BY DEF ScriptInv, NewIsNotInUse, At
  <2> QED
    BY <1>1, <1>3, <2>1, <2>2, <2>3 DEF ScriptInv, NewIsNotInUse, At, Exists
<1>7. ProductionFits' /\ RollbackTargetKept'
  BY <1>1 DEF ScriptInv, ProductionFits, RollbackTargetKept, Exists
<1> QED
  BY <1>4, <1>5, <1>6, <1>7 DEF ScriptInv

(* The same for a step that is a Goto: its from and to are steps of a      *)
(* transaction.                                                            *)
LEMMA GotoKeeps ==
    ASSUME ScriptInv, NEW from \in InTransaction, NEW p \in InTransaction, At(from), Goto(p),
           UNCHANGED <<dirs, transaction, lastId>>,
           \/ current' \in {current, script.previous}
           \/ from = "switch" /\ current' = script.release,
           served' \in Releases \cup {None}, proven' \subseteq Releases,
           budget' \in [faults: 0..MaxFaults, crashes: 0..MaxCrashes, starts: 0..MaxStarts],
           script.switched => p \in {"recreate", "validate", "commit"} \cup RollbackSteps \cup TrapSteps,
           p \in ActivateSteps => from \in ActivateSteps,
           p \in RollbackSteps => from \in ActivateSteps \cup RollbackSteps,
           p # "stop", p = "switch" => from = "stop",
           p \in {"validate", "commit", "rbValidate", "rbCommit", "trapValidate"} => served' = current',
           p \in {"commit", "rbCommit"} => current' \in proven',
           p \in {"rbForget", "rbTraffic", "rbRecreate", "rbValidate", "rbCommit"} =>
               current' = script.previous
    PROVE  ScriptInv'
<1>1. p \in Steps
  BY DEF InTransaction, Committing, Steps, ActivateSteps
<1>2. ScriptTypes
  BY DEF ScriptInv
<1>3. /\ script'.pc = p /\ script'.mode = script.mode /\ script'.release = script.release
      /\ script'.previous = script.previous /\ script'.switched = script.switched
      /\ script' \in [pc: Steps, mode: Modes, release: Releases \cup {None},
                     previous: Releases \cup {None}, switched: BOOLEAN]
  BY <1>1, <1>2, GotoMoves
<1> QED
  BY <1>3, TransactionMoves DEF At

LEMMA NotSwitchedYet ==
    ASSUME ScriptInv, script.pc \in {"stop", "switch", "forget", "traffic"}
    PROVE  script.switched = FALSE
  BY DEF ScriptInv, ScriptTypes, TransactionFits, RollbackSteps, TrapSteps

LEMMA Unmoved ==
    ASSUME ScriptInv, UNCHANGED <<proven, budget>>
    PROVE  /\ proven' \subseteq Releases
           /\ budget' \in [faults: 0..MaxFaults, crashes: 0..MaxCrashes, starts: 0..MaxStarts]
           /\ served \in Releases \cup {None} /\ current \in Releases
  BY DEF ScriptInv, ScriptTypes

LEMMA StopKeeps ==
    ASSUME ScriptInv, NEW from \in {"stop", "rbStop"}, NEW p,
           <<from, p>> \in {<<"stop", "switch">>, <<"rbStop", "rbSwitch">>},
           stop_production(from, p)
    PROVE  ScriptInv'
<1>1. At(from) /\ Goto(p) /\ served' = None
      /\ UNCHANGED <<dirs, current, transaction, proven, lastId, budget>>
  BY DEF stop_production, Kept
<1>2. from = "stop" => script.switched = FALSE
  BY <1>1, NotSwitchedYet DEF At
<1> QED
  BY <1>1, <1>2, GotoKeeps, Unmoved DEF InTransaction, Committing, ActivateSteps, RollbackSteps, TrapSteps

LEMMA SwitchKeeps ==
    ASSUME ScriptInv,
           \/ switch_current("switch", "forget", script.release)
           \/ switch_current("rbSwitch", "rbForget", script.previous)
           \/ switch_current("trapSwitch", "trapRecreate", script.previous)
    PROVE  ScriptInv'
<1>1. UNCHANGED <<dirs, served, transaction, proven, lastId, budget>>
  BY DEF switch_current, Kept
<1>2. CASE switch_current("switch", "forget", script.release)
  <2>1. At("switch") /\ Goto("forget") /\ current' = script.release /\ script.switched = FALSE
    BY <1>2, NotSwitchedYet DEF switch_current, At
  <2> QED
    BY <1>1, <2>1, GotoKeeps, Unmoved DEF InTransaction, Committing, ActivateSteps, RollbackSteps, TrapSteps
<1>3. CASE switch_current("rbSwitch", "rbForget", script.previous)
  <2>1. At("rbSwitch") /\ Goto("rbForget") /\ current' = script.previous
    BY <1>3 DEF switch_current
  <2> QED
    BY <1>1, <2>1, GotoKeeps, Unmoved DEF InTransaction, Committing, ActivateSteps, RollbackSteps, TrapSteps
<1>4. CASE switch_current("trapSwitch", "trapRecreate", script.previous)
  <2>1. At("trapSwitch") /\ Goto("trapRecreate") /\ current' = script.previous
    BY <1>4 DEF switch_current
  <2> QED
    BY <1>1, <2>1, GotoKeeps, Unmoved DEF InTransaction, Committing, ActivateSteps, RollbackSteps, TrapSteps
<1> QED
  BY <1>2, <1>3, <1>4

LEMMA ForgetKeeps ==
    ASSUME ScriptInv, forget_applied("forget", "traffic") \/ forget_applied("rbForget", "rbTraffic")
    PROVE  ScriptInv'
<1>1. UNCHANGED <<dirs, current, served, transaction, proven, lastId, budget>>
  BY DEF forget_applied, Kept
<1>2. CASE forget_applied("forget", "traffic")
  <2>1. At("forget") /\ Goto("traffic") /\ script.switched = FALSE
    BY <1>2, NotSwitchedYet DEF forget_applied, At
  <2> QED
    BY <1>1, <2>1, GotoKeeps, Unmoved DEF InTransaction, Committing, ActivateSteps, RollbackSteps, TrapSteps
<1>3. CASE forget_applied("rbForget", "rbTraffic")
  <2>1. At("rbForget") /\ Goto("rbTraffic") /\ current = script.previous
    BY <1>3 DEF forget_applied, ScriptInv, ProductionFits, At
  <2> QED
    BY <1>1, <2>1, GotoKeeps, Unmoved DEF InTransaction, Committing, ActivateSteps, RollbackSteps, TrapSteps
<1> QED
  BY <1>2, <1>3

LEMMA SkeletonKeeps ==
    ASSUME ScriptInv,
           \/ install_skeleton("traffic", "recreate", script.release, TRUE)
           \/ install_skeleton("rbTraffic", "rbRecreate", script.previous, script.switched)
    PROVE  ScriptInv'
<1>1. UNCHANGED <<dirs, current, served, transaction, proven, lastId, budget>>
  BY DEF install_skeleton, Kept
<1>2. PICK p \in {"recreate", "rbRecreate"}, b \in BOOLEAN :
        /\ script' = [script EXCEPT !.pc = p, !.switched = b]
        /\ \/ p = "recreate" /\ script.pc = "traffic"
           \/ p = "rbRecreate" /\ script.pc = "rbTraffic"
  BY DEF install_skeleton, At, ScriptInv, ScriptTypes
<1>3. p \in Steps
  BY DEF Steps, ActivateSteps, RollbackSteps
<1>4. /\ script'.pc = p /\ script'.mode = script.mode /\ script'.release = script.release
      /\ script'.previous = script.previous
      /\ script' \in [pc: Steps, mode: Modes, release: Releases \cup {None},
                     previous: Releases \cup {None}, switched: BOOLEAN]
  BY <1>2, <1>3 DEF ScriptInv, ScriptTypes
<1>5. p = "rbRecreate" => current = script.previous
  BY <1>2 DEF ScriptInv, ProductionFits
<1> QED
  BY <1>1, <1>2, <1>4, <1>5, TransactionMoves, Unmoved
     DEF InTransaction, Committing, ActivateSteps, RollbackSteps, TrapSteps

LEMMA RecreateKeeps ==
    ASSUME ScriptInv,
           \/ recreate_production("recreate", "validate")
           \/ recreate_production("rbRecreate", "rbValidate")
           \/ recreate_production("trapRecreate", "trapValidate")
    PROVE  ScriptInv'
<1>1. served' = current /\ UNCHANGED <<dirs, current, transaction, proven, lastId, budget>>
  BY DEF recreate_production, ContainerStarts, Kept
<1>2. CASE At("recreate") /\ Goto("validate")
  BY <1>1, <1>2, GotoKeeps, Unmoved DEF InTransaction, Committing, ActivateSteps, RollbackSteps, TrapSteps
<1>3. CASE At("rbRecreate") /\ Goto("rbValidate")
  <2>1. current = script.previous
    BY <1>3 DEF ScriptInv, ProductionFits, At
  <2> QED
    BY <1>1, <1>3, <2>1, GotoKeeps, Unmoved DEF InTransaction, Committing, ActivateSteps, RollbackSteps, TrapSteps
<1>4. CASE At("trapRecreate") /\ Goto("trapValidate")
  BY <1>1, <1>4, GotoKeeps, Unmoved DEF InTransaction, Committing, ActivateSteps, RollbackSteps, TrapSteps
<1> QED
  BY <1>2, <1>3, <1>4 DEF recreate_production

LEMMA ValidationKeeps ==
    ASSUME ScriptInv, validate_full \/ rollback_validated PROVE ScriptInv'
<1>1. /\ served = current /\ proven' = proven \cup {served}
      /\ UNCHANGED <<dirs, current, served, transaction, lastId, budget>>
  BY DEF validate_full, rollback_validated, runtimeVars, ScriptInv, ProductionFits, At
<1>2. proven' \subseteq Releases /\ current \in proven' /\ served \in Releases
      /\ budget' \in [faults: 0..MaxFaults, crashes: 0..MaxCrashes, starts: 0..MaxStarts]
  BY <1>1 DEF ScriptInv, ScriptTypes
<1>3. CASE At("validate") /\ Goto("commit")
  BY <1>1, <1>2, <1>3, GotoKeeps DEF InTransaction, Committing, ActivateSteps, RollbackSteps, TrapSteps
<1>4. CASE At("rbValidate") /\ Goto("rbCommit")
  <2>1. current = script.previous
    BY <1>4 DEF ScriptInv, ProductionFits, At
  <2> QED
    BY <1>1, <1>2, <1>4, <2>1, GotoKeeps DEF InTransaction, Committing, ActivateSteps, RollbackSteps, TrapSteps
<1> QED
  BY <1>3, <1>4 DEF validate_full, rollback_validated

LEMMA TrapStopKeeps ==
    ASSUME ScriptInv, TrapStops PROVE ScriptInv'
<1>1. /\ At("trapStop") /\ Goto("trapSwitch") /\ served' \in {None, served}
      /\ UNCHANGED <<dirs, current, transaction, proven, lastId>>
      /\ budget' \in [faults: 0..MaxFaults, crashes: 0..MaxCrashes, starts: 0..MaxStarts]
  <2>1. CASE budget' = budget
    BY <2>1 DEF TrapStops, ScriptInv, ScriptTypes
  <2>2. CASE Fault
    BY <2>2, ReleaseAssumption DEF TrapStops, Fault, ScriptInv, ScriptTypes
  <2> QED
    BY <2>1, <2>2 DEF TrapStops
<1>2. proven' \subseteq Releases /\ served' \in Releases \cup {None}
  BY <1>1 DEF ScriptInv, ScriptTypes
<1> QED
  BY <1>1, <1>2, GotoKeeps DEF InTransaction, Committing, ActivateSteps, RollbackSteps, TrapSteps

-----------------------------------------------------------------------------
(* A transaction is opened, closed, and found by the next start.           *)
LEMMA OpeningKeeps ==
    ASSUME ScriptInv, write_transaction PROVE ScriptInv'
<1>1. /\ At("begin") /\ Goto("stop") /\ "stop" \in Steps
      /\ transaction' = [previous |-> script.previous, next |-> script.release]
      /\ UNCHANGED <<dirs, current, served, proven, lastId, budget>>
  BY DEF write_transaction, runtimeVars, Kept, Steps, ActivateSteps
<1>2. /\ script'.pc = "stop" /\ script'.mode = script.mode /\ script'.release = script.release
      /\ script'.previous = script.previous /\ script'.switched = script.switched
      /\ script' \in [pc: Steps, mode: Modes, release: Releases \cup {None},
                     previous: Releases \cup {None}, switched: BOOLEAN]
  BY <1>1, GotoMoves DEF ScriptInv
<1>3. /\ script.previous = current /\ dirs[current] = "sealed" /\ current \in Releases
      /\ script.release \in Releases /\ dirs[script.release] = "sealed"
      /\ script.switched = FALSE
      /\ (script.mode \in {"run", "build"} => script.release = lastId /\ current # script.release)
  BY <1>1 DEF ScriptInv, ScriptTypes, TransactionFits, NewIsNotInUse, At, ActivateSteps,
       RollbackSteps, TrapSteps
<1>4. transaction' \in Pair /\ transaction' # NoPair /\ transaction'.previous = current
  BY <1>1, <1>3, ReleasesAreNumbers DEF Pair, NoPair
<1>5. ScriptTypes'
  BY <1>1, <1>2, <1>4 DEF ScriptInv, ScriptTypes
<1>6. TransactionFits'
  BY <1>1, <1>2, <1>3, <1>4 DEF ScriptInv, TransactionFits, At, InTransaction, OutOfTransaction,
         Committing, BuildSteps, RollbackSteps, TrapSteps
<1>7. NewIsNotInUse'
  BY <1>1, <1>2, <1>3, <1>4 DEF ScriptInv, NewIsNotInUse, At, Exists, BuildSteps, ActivateSteps, RollbackSteps
<1>8. ProductionFits' /\ RollbackTargetKept'
  BY <1>1, <1>2, <1>3, <1>4 DEF ScriptInv, ProductionFits, RollbackTargetKept, Exists
<1> QED
  BY <1>5, <1>6, <1>7, <1>8 DEF ScriptInv

LEMMA CommitKeeps ==
    ASSUME ScriptInv, commit_activation PROVE ScriptInv'
<1>1. /\ At("commit") /\ transaction' = NoPair
      /\ script' = [script EXCEPT !.pc = "record", !.switched = FALSE]
      /\ UNCHANGED <<dirs, current, served, proven, lastId, budget>>
  BY DEF commit_activation, runtimeVars, Kept
<1>2. /\ script'.pc = "record" /\ script'.mode = script.mode /\ script'.release = script.release
      /\ script'.previous = script.previous /\ script'.switched = FALSE
      /\ ScriptTypes'
  BY <1>1 DEF ScriptInv, ScriptTypes, Steps, ActivateSteps
<1>3. served = current /\ current \in proven
  BY <1>1 DEF ScriptInv, ProductionFits, At
<1>4. TransactionFits'
  BY <1>1, <1>2, <1>3 DEF ScriptInv, TransactionFits, At, InTransaction, OutOfTransaction,
         Committing, BuildSteps, RollbackSteps, TrapSteps
<1>5. NewIsNotInUse'
  BY <1>1, <1>2, <1>3 DEF ScriptInv, NewIsNotInUse, At, Exists, BuildSteps, ActivateSteps, RollbackSteps
<1>6. ProductionFits' /\ RollbackTargetKept'
  BY <1>1, <1>2, <1>3 DEF ScriptInv, ProductionFits, RollbackTargetKept, Exists
<1> QED
  BY <1>2, <1>4, <1>5, <1>6 DEF ScriptInv

LEMMA RecordKeeps ==
    ASSUME ScriptInv, record_success PROVE ScriptInv'
<1>1. /\ At("record") /\ Goto("prune") /\ "prune" \in Steps
      /\ UNCHANGED <<dirs, current, served, transaction, proven, lastId, budget>>
  BY DEF record_success, runtimeVars, Kept, Steps, ActivateSteps
<1>2. /\ script'.pc = "prune" /\ script'.mode = script.mode /\ script'.release = script.release
      /\ script'.previous = script.previous /\ script'.switched = script.switched
      /\ ScriptTypes'
  BY <1>1, GotoMoves DEF ScriptInv, ScriptTypes
<1>3. TransactionFits'
  BY <1>1, <1>2 DEF ScriptInv, TransactionFits, At, InTransaction, OutOfTransaction,
         Committing, BuildSteps, RollbackSteps, TrapSteps
<1>4. NewIsNotInUse'
  BY <1>1, <1>2 DEF ScriptInv, NewIsNotInUse, At, Exists, BuildSteps, ActivateSteps, RollbackSteps
<1>5. ProductionFits' /\ RollbackTargetKept'
  BY <1>1, <1>2 DEF ScriptInv, ProductionFits, RollbackTargetKept, Exists
<1> QED
  BY <1>2, <1>3, <1>4, <1>5 DEF ScriptInv

LEMMA PruneKeeps ==
    ASSUME ScriptInv, prune_releases PROVE ScriptInv'
<1>1. PICK gone \in SUBSET Prunable :
          dirs' = [r \in Releases |-> IF r \in gone THEN "absent" ELSE dirs[r]]
  BY DEF prune_releases
<1>2. /\ Exits /\ transaction = NoPair
      /\ UNCHANGED <<current, served, transaction, proven, lastId, budget>>
  BY DEF prune_releases, Kept, ScriptInv, TransactionFits, At, OutOfTransaction
<1>3. \A r \in Releases : dirs'[r] \in {dirs[r], "absent"}
  BY <1>1
<1>4. dirs' \in [Releases -> {"absent", "building", "sealed"}]
  BY <1>1 DEF ScriptInv, ScriptTypes
<1> QED
  BY <1>2, <1>3, <1>4, EndingKeeps DEF ScriptInv, ScriptTypes, ProductionFits, Exists

(* A start looks for a transaction first; without one, its mode begins.    *)
LEMMA ModeKeeps ==
    ASSUME ScriptInv, script.pc \in {"recover", "rbCommit"}, ModeBegins, transaction' = NoPair,
           script.switched = FALSE,
           UNCHANGED <<dirs, current, served, proven, lastId, budget>>,
           Exists(current) => served = current /\ current \in proven,
           script.mode \in {"run", "build"} => current # script.release
    PROVE  ScriptInv'
<1>1. script.mode \in Modes
  BY DEF ScriptInv, ScriptTypes
<1>2. CASE Exits
  BY <1>2, EndingKeeps DEF ScriptInv, ScriptTypes, Exists
<1>3. CASE script.mode \in {"run", "build", "activate"}
  <2>1. PICK p \in {"prepare", "check"} :
             /\ Goto(p)
             /\ p = "prepare" => script.mode \in {"run", "build"}
             /\ p = "check" => script.mode = "activate"
    BY <1>3 DEF ModeBegins
  <2>2. p \in Steps
    BY DEF Steps, BuildSteps, ActivateSteps
  <2>3. /\ script'.pc = p /\ script'.mode = script.mode /\ script'.release = script.release
        /\ script'.previous = script.previous /\ script'.switched = script.switched
        /\ script' \in [pc: Steps, mode: Modes, release: Releases \cup {None},
                       previous: Releases \cup {None}, switched: BOOLEAN]
    BY <2>1, <2>2, GotoMoves DEF ScriptInv
  <2>8. ScriptTypes'
    BY <2>3 DEF ScriptInv, ScriptTypes
  <2>4. script.release \in Releases
    BY <1>3 DEF ScriptInv, ScriptTypes, NewIsNotInUse, At, RollbackSteps
  <2>5. TransactionFits'
    BY <2>1, <2>3 DEF ScriptInv, TransactionFits, At, InTransaction, OutOfTransaction,
         Committing, BuildSteps, RollbackSteps, TrapSteps
  <2>6. NewIsNotInUse'
    <3>1. script.mode \in {"run", "build"} => script.release = lastId
      BY DEF ScriptInv, NewIsNotInUse, At
    <3>2. current <= lastId /\ \A r \in Releases : Exists(r) => r <= lastId
      BY DEF ScriptInv, NewIsNotInUse
    <3>3. p \notin RollbackSteps \cup {"recover", "begin", "stop", "switch"}
          /\ (p \in BuildSteps => p = "prepare")
      BY DEF RollbackSteps, BuildSteps
    <3> QED
      BY <2>1, <2>3, <2>4, <3>1, <3>2, <3>3 DEF NewIsNotInUse, At, Exists
  <2>7. ProductionFits' /\ RollbackTargetKept'
    BY <2>1, <2>3 DEF ScriptInv, ProductionFits, RollbackTargetKept, Exists
  <2> QED
    BY <2>8, <2>5, <2>6, <2>7 DEF ScriptInv
<1> QED
  BY <1>1, <1>2, <1>3 DEF ModeBegins, Modes

LEMMA RecoverKeeps ==
    ASSUME ScriptInv, recover_transaction PROVE ScriptInv'
<1>1. At("recover") /\ UNCHANGED <<dirs, current, served, transaction, proven, lastId, budget>>
  BY DEF recover_transaction, runtimeVars, Kept
<1>2. CASE transaction = NoPair /\ ModeBegins
  <2>1. script.switched = FALSE /\ (script.mode \in {"run", "build"} => current # script.release)
    BY <1>1 DEF ScriptInv, ScriptTypes, TransactionFits, NewIsNotInUse, At, RollbackSteps, TrapSteps
  <2>2. Exists(current) => served = current /\ current \in proven
    BY <1>2 DEF ScriptInv, ProductionFits
  <2> QED
    BY <1>1, <1>2, <2>1, <2>2, ModeKeeps DEF At
<1>3. CASE transaction # NoPair
  <2>1. /\ script' = [script EXCEPT !.pc = "rbStop", !.previous = transaction.previous]
        /\ transaction.previous \in Releases
    BY <1>3 DEF recover_transaction, ScriptInv, ScriptTypes, Pair
  <2>2. /\ script'.pc = "rbStop" /\ script'.mode = script.mode /\ script'.release = script.release
        /\ script'.previous = transaction.previous /\ script'.switched = script.switched
        /\ ScriptTypes'
    BY <1>1, <2>1 DEF ScriptInv, ScriptTypes, Steps, RollbackSteps
  <2>3. TransactionFits'
    BY <1>1, <1>3, <2>2 DEF ScriptInv, TransactionFits, At, InTransaction, OutOfTransaction,
         Committing, BuildSteps, RollbackSteps, TrapSteps
  <2>4. NewIsNotInUse'
    BY <1>1, <2>2 DEF ScriptInv, NewIsNotInUse, At, Exists, BuildSteps, ActivateSteps, RollbackSteps
  <2>5. ProductionFits' /\ RollbackTargetKept'
    BY <1>1, <1>3, <2>2 DEF ScriptInv, ProductionFits, RollbackTargetKept, Exists
  <2> QED
    BY <2>2, <2>3, <2>4, <2>5 DEF ScriptInv
<1> QED
  BY <1>2, <1>3 DEF recover_transaction

LEMMA StartKeeps ==
    ASSUME ScriptInv, NEW mode \in Modes, NEW r \in Releases, Start(mode, r) PROVE ScriptInv'
<1>1. /\ At("idle") /\ UNCHANGED <<dirs, current, served, transaction, proven>>
      /\ script' = [Idle EXCEPT !.pc = "recover", !.mode = mode, !.release = r]
  BY DEF Start, runtimeVars
<1>2. budget' \in [faults: 0..MaxFaults, crashes: 0..MaxCrashes, starts: 0..MaxStarts]
  BY ReleaseAssumption DEF Start, ScriptInv, ScriptTypes
<1>3. /\ lastId' \in Releases /\ lastId' >= lastId
      /\ (mode \in {"run", "build"} => r = lastId' /\ r = lastId + 1)
  BY ReleasesAreNumbers DEF Start, ScriptInv, ScriptTypes, Modes
<1>4. /\ script'.pc = "recover" /\ script'.mode = mode /\ script'.release = r
      /\ script'.switched = FALSE
      /\ ScriptTypes'
  BY <1>1, <1>2, <1>3 DEF ScriptInv, ScriptTypes, Idle, Steps, Modes
<1>5. TransactionFits'
  BY <1>1, <1>4 DEF ScriptInv, TransactionFits, At, InTransaction, OutOfTransaction,
         Committing, BuildSteps, RollbackSteps, TrapSteps
<1>6. NewIsNotInUse'
  <2>1. current \in Nat /\ lastId \in Nat /\ lastId' \in Nat /\ \A q \in Releases : q \in Nat
    BY <1>3, ReleasesAreNumbers DEF ScriptInv, ScriptTypes
  <2>2. transaction # NoPair => transaction.previous \in Releases /\ transaction.previous <= lastId
    BY DEF ScriptInv, ScriptTypes, Pair, RollbackTargetKept, NewIsNotInUse, Exists
  <2>3. mode \in {"run", "build"} => current # r /\ (transaction # NoPair => transaction.previous # r)
    BY <1>3, <2>1, <2>2 DEF ScriptInv, NewIsNotInUse
  <2>4. current <= lastId' /\ \A q \in Releases : Exists(q) => q <= lastId'
    BY <1>3, <2>1 DEF ScriptInv, NewIsNotInUse
  <2> QED
    BY <1>1, <1>3, <1>4, <2>3, <2>4 DEF NewIsNotInUse, At, Exists, BuildSteps, ActivateSteps, RollbackSteps
<1>7. ProductionFits' /\ RollbackTargetKept'
  BY <1>1, <1>4 DEF ScriptInv, ProductionFits, RollbackTargetKept, Exists
<1> QED
  BY <1>4, <1>5, <1>6, <1>7 DEF ScriptInv

LEMMA StartRecoveryKeeps ==
    ASSUME ScriptInv, StartRecovery PROVE ScriptInv'
<1>1. /\ At("idle") /\ UNCHANGED <<dirs, current, served, transaction, proven, lastId, budget>>
      /\ script' = [Idle EXCEPT !.pc = "recover"]
  BY DEF StartRecovery, runtimeVars
<1>2. /\ script'.pc = "recover" /\ script'.mode = "recover" /\ script'.switched = FALSE
      /\ ScriptTypes'
  BY <1>1 DEF ScriptInv, ScriptTypes, Idle, Steps, Modes
<1>3. TransactionFits'
  BY <1>1, <1>2 DEF ScriptInv, TransactionFits, At, InTransaction, OutOfTransaction,
         Committing, BuildSteps, RollbackSteps, TrapSteps
<1>4. NewIsNotInUse'
  BY <1>1, <1>2 DEF ScriptInv, NewIsNotInUse, At, Exists, BuildSteps, ActivateSteps, RollbackSteps
<1>5. ProductionFits' /\ RollbackTargetKept'
  BY <1>1, <1>2 DEF ScriptInv, ProductionFits, RollbackTargetKept, Exists
<1> QED
  BY <1>2, <1>3, <1>4, <1>5 DEF ScriptInv

-----------------------------------------------------------------------------
(* The ends of the script: what fail deletes is never what a transaction   *)
(* would go back to.                                                       *)
LEMMA FaultTyped ==
    ASSUME ScriptInv, Fault
    PROVE  budget' \in [faults: 0..MaxFaults, crashes: 0..MaxCrashes, starts: 0..MaxStarts]
  BY ReleaseAssumption DEF Fault, ScriptInv, ScriptTypes

LEMMA DeletingKeeps ==
    ASSUME ScriptInv, ~At("idle"), Exits, UNCHANGED <<current, lastId, proven>>,
           \/ dirs' = dirs
           \/ /\ script.mode \in {"run", "build"}
              /\ dirs' = [dirs EXCEPT ![script.release] = "absent"],
           served' \in Releases \cup {None},
           \/ transaction' = transaction /\ transaction # NoPair
           \/ transaction' = transaction /\ served' = served
           \/ transaction' = NoPair /\ served' = current /\ current \in proven,
           budget' \in [faults: 0..MaxFaults, crashes: 0..MaxCrashes, starts: 0..MaxStarts]
    PROVE  ScriptInv'
<1>1. /\ dirs' \in [Releases -> {"absent", "building", "sealed"}]
      /\ \A r \in Releases : dirs'[r] \in {dirs[r], "absent"}
      /\ \A r \in Releases : r # script.release => dirs'[r] = dirs[r]
  BY DEF ScriptInv, ScriptTypes
<1>2. transaction' \in Pair \cup {NoPair} /\ proven' \subseteq Releases /\ current \in Releases
  BY DEF ScriptInv, ScriptTypes
<1>3. transaction' # NoPair => dirs'[transaction'.previous] = "sealed"
  <2> SUFFICES ASSUME transaction' # NoPair PROVE dirs'[transaction.previous] = "sealed"
    OBVIOUS
  <2>1. transaction' = transaction /\ transaction.previous \in Releases
        /\ dirs[transaction.previous] = "sealed"
    BY DEF ScriptInv, ScriptTypes, Pair, RollbackTargetKept
  <2>2. script.mode \in {"run", "build"} => transaction.previous # script.release
    BY <2>1 DEF ScriptInv, NewIsNotInUse
  <2> QED
    BY <1>1, <2>1, <2>2
<1>4. transaction' = NoPair /\ dirs'[current] # "absent" => served' = current /\ current \in proven'
  BY <1>1, <1>2 DEF ScriptInv, ProductionFits, Exists
<1> QED
  BY <1>1, <1>2, <1>3, <1>4, EndingKeeps

LEMMA CommandFailsKeeps ==
    ASSUME ScriptInv, CommandFails PROVE ScriptInv'
<1>1. budget' \in [faults: 0..MaxFaults, crashes: 0..MaxCrashes, starts: 0..MaxStarts]
      /\ UNCHANGED <<proven, lastId>> /\ script.pc \in Unguarded
  BY FaultTyped DEF CommandFails
<1>2. CASE script.switched /\ Goto("trapStop") /\ UNCHANGED <<runtimeVars, transaction>>
  <2>1. PICK from \in InTransaction : At(from)
    BY <1>2 DEF ScriptInv, TransactionFits, At, InTransaction, Committing, RollbackSteps, TrapSteps
  <2>2. "trapStop" \in TrapSteps /\ "trapStop" \notin ActivateSteps \cup RollbackSteps
        /\ "trapStop" \in InTransaction
    BY DEF InTransaction, Committing, ActivateSteps, RollbackSteps, TrapSteps
  <2>3. UNCHANGED <<dirs, current, served, transaction>>
    BY <1>2 DEF runtimeVars
  <2>4. served' \in Releases \cup {None} /\ proven' \subseteq Releases
    BY <1>1, <2>3 DEF ScriptInv, ScriptTypes
  <2> QED
    BY <1>1, <1>2, <2>1, <2>2, <2>3, <2>4, GotoKeeps
<1>3. CASE fail
  <2>1. ~At("idle")
    BY <1>1 DEF At, Unguarded, BuildSteps, ActivateSteps, RollbackSteps
  <2>2. served' \in Releases \cup {None}
    BY <1>3 DEF fail, ScriptInv, ScriptTypes
  <2> QED
    BY <1>1, <1>3, <2>1, <2>2, DeletingKeeps DEF fail
<1> QED
  BY <1>2, <1>3 DEF CommandFails, unexpected_failure

LEMMA SwitchFailsKeeps ==
    ASSUME ScriptInv, SwitchFails PROVE ScriptInv'
<1>1. /\ At("switch") /\ Exits /\ UNCHANGED <<current, transaction, proven, lastId>>
      /\ budget' \in [faults: 0..MaxFaults, crashes: 0..MaxCrashes, starts: 0..MaxStarts]
  BY FaultTyped DEF SwitchFails
<1>2. transaction # NoPair
  BY <1>1 DEF ScriptInv, TransactionFits, At, InTransaction, Committing
<1>3. served' \in Releases \cup {None}
  BY DEF SwitchFails, ContainerStarts, ScriptInv, ScriptTypes
<1> QED
  BY <1>1, <1>2, <1>3, DeletingKeeps DEF SwitchFails, At

LEMMA ActivationFailsKeeps ==
    ASSUME ScriptInv, ActivationFails PROVE ScriptInv'
<1>1. /\ UNCHANGED <<dirs, current, served, transaction, proven, lastId>> /\ Goto("rbStop")
      /\ budget' \in [faults: 0..MaxFaults, crashes: 0..MaxCrashes, starts: 0..MaxStarts]
  BY FaultTyped DEF ActivationFails, runtimeVars
<1>2. PICK from \in {"recreate", "validate"} : At(from)
  BY DEF ActivationFails, At
<1>3. served' \in Releases \cup {None} /\ proven' \subseteq Releases
  BY <1>1 DEF ScriptInv, ScriptTypes
<1> QED
  BY <1>1, <1>2, <1>3, GotoKeeps DEF InTransaction, Committing, ActivateSteps, RollbackSteps, TrapSteps

LEMMA RollbackEndKeeps ==
    ASSUME ScriptInv, RollbackInvalid \/ rollback_committed PROVE ScriptInv'
<1>1. CASE RollbackInvalid
  <2>1. ~At("idle") /\ fail /\ UNCHANGED <<proven, lastId>>
        /\ budget' \in [faults: 0..MaxFaults, crashes: 0..MaxCrashes, starts: 0..MaxStarts]
    BY <1>1, FaultTyped DEF RollbackInvalid, At
  <2>2. served' \in Releases \cup {None}
    BY <2>1 DEF fail, ScriptInv, ScriptTypes
  <2> QED
    BY <2>1, <2>2, DeletingKeeps DEF fail
<1>2. CASE rollback_committed
  <2>1. /\ At("rbCommit") /\ transaction' = NoPair
        /\ UNCHANGED <<current, served, proven, lastId, budget>>
    BY <1>2 DEF rollback_committed, Kept
  <2>2. served = current /\ current \in proven /\ current = script.previous
        /\ script.previous = transaction.previous /\ transaction # NoPair
    BY <2>1 DEF ScriptInv, ProductionFits, TransactionFits, At, InTransaction, RollbackSteps
  <2>3. CASE script.switched
    <3>1. /\ Exits
          /\ \/ dirs' = dirs
             \/ /\ script.mode = "run"
                /\ dirs' = [dirs EXCEPT ![script.release] = "absent"]
      BY <1>2, <2>3 DEF rollback_committed
    <3>2. ~At("idle") /\ served \in Releases \cup {None}
          /\ budget' \in [faults: 0..MaxFaults, crashes: 0..MaxCrashes, starts: 0..MaxStarts]
      BY <2>1 DEF At, ScriptInv, ScriptTypes
    <3> QED
      BY <2>1, <2>2, <3>1, <3>2, DeletingKeeps
  <2>4. CASE ~script.switched
    <3>1. ModeBegins /\ dirs' = dirs
      BY <1>2, <2>4 DEF rollback_committed
    <3>2. script.switched = FALSE
      BY <2>4 DEF ScriptInv, ScriptTypes
    <3>3. script.mode \in {"run", "build"} => current # script.release
      BY <2>1, <2>2 DEF ScriptInv, NewIsNotInUse, At
    <3> QED
      BY <2>1, <2>2, <3>1, <3>2, <3>3, ModeKeeps DEF At
  <2> QED
    BY <2>3, <2>4
<1> QED
  BY <1>1, <1>2

LEMMA TrapEndKeeps ==
    ASSUME ScriptInv, TrapFails \/ TrapRestored PROVE ScriptInv'
<1>1. CASE TrapFails
  <2>1. /\ ~At("idle") /\ Exits /\ UNCHANGED <<dirs, current, served, transaction, proven, lastId>>
        /\ budget' \in [faults: 0..MaxFaults, crashes: 0..MaxCrashes, starts: 0..MaxStarts]
    BY <1>1, FaultTyped DEF TrapFails, runtimeVars, At, TrapSteps
  <2>2. served' \in Releases \cup {None}
    BY <2>1 DEF ScriptInv, ScriptTypes
  <2> QED
    BY <2>1, <2>2, DeletingKeeps
<1>2. CASE TrapRestored
  <2>1. /\ At("trapValidate") /\ Exits /\ transaction' = NoPair /\ proven' = proven \cup {served}
        /\ UNCHANGED <<dirs, current, served, lastId, budget>>
    BY <1>2 DEF TrapRestored, runtimeVars
  <2>2. served = current /\ current \in Releases
    BY <2>1 DEF ScriptInv, ScriptTypes, ProductionFits, At
  <2> QED
    BY <2>1, <2>2, EndingKeeps DEF ScriptInv, ScriptTypes
<1> QED
  BY <1>1, <1>2

LEMMA CrashKeeps ==
    ASSUME ScriptInv, ScriptKilled \/ PowerFails PROVE ScriptInv'
<1>1. /\ Exits /\ UNCHANGED <<dirs, current, transaction, proven, lastId>>
      /\ budget' \in [faults: 0..MaxFaults, crashes: 0..MaxCrashes, starts: 0..MaxStarts]
  BY ReleaseAssumption DEF ScriptKilled, PowerFails, HostReboots, runtimeVars, ScriptInv, ScriptTypes
<1>2. /\ served' \in Releases \cup {None}
      /\ (transaction = NoPair /\ Exists(current) => served' = current /\ current \in proven)
  <2>1. CASE ScriptKilled
    BY <2>1 DEF ScriptKilled, runtimeVars, ScriptInv, ScriptTypes, ProductionFits
  <2>2. CASE HostReboots
    BY <2>2, ReleasesAreNumbers DEF HostReboots, ScriptInv, ScriptTypes, ProductionFits
  <2> QED
    BY <2>1, <2>2 DEF PowerFails
<1> QED
  BY <1>1, <1>2, EndingKeeps DEF ScriptInv, ScriptTypes, RollbackTargetKept, Exists

LEMMA AloneKeeps ==
    ASSUME ScriptInv, UNCHANGED <<dirs, current, served, script, transaction, proven, lastId, budget>>
    PROVE  ScriptInv'
  BY DEF ScriptInv, ScriptTypes, TransactionFits, NewIsNotInUse, ProductionFits, RollbackTargetKept,
         At, Exists

LEMMA ReleaseStepKeeps ==
    ASSUME ScriptInv, ReleaseStep PROVE ScriptInv'
<1>1. ASSUME stop_production("stop", "switch") \/ stop_production("rbStop", "rbSwitch")
      PROVE  ScriptInv'
  <2>1. CASE stop_production("stop", "switch")
    BY <2>1, StopKeeps
  <2>2. CASE stop_production("rbStop", "rbSwitch")
    BY <2>2, StopKeeps
  <2> QED
    BY <1>1, <2>1, <2>2
<1>2. CASE ScriptStep
  BY <1>2, <1>1, BuildKeeps, LayoutKeeps, SealKeeps, ReadyKeeps, CheckKeeps, SwitchKeeps,
     ForgetKeeps, SkeletonKeeps, RecreateKeeps, ValidationKeeps, TrapStopKeeps, OpeningKeeps,
     CommitKeeps, RecordKeeps, PruneKeeps, RecoverKeeps, RollbackEndKeeps, TrapEndKeeps
     DEF ScriptStep
<1>3. ASSUME NEW mode \in Modes, NEW r \in Releases, Start(mode, r) PROVE ScriptInv'
  BY <1>3, StartKeeps
<1> QED
  BY <1>2, <1>3, StartRecoveryKeeps, CommandFailsKeeps, SwitchFailsKeeps, ActivationFailsKeeps,
     RollbackEndKeeps, TrapEndKeeps, CrashKeeps DEF ReleaseStep

LEMMA ScriptAlways == HostSpec => []ScriptInv
<1>1. HostInit => ScriptInv
  BY ScriptInitial DEF HostInit
<1>2. ScriptInv /\ [HostNext]_hostVars => ScriptInv'
  <2> SUFFICES ASSUME ScriptInv, [HostNext]_hostVars PROVE ScriptInv'
    OBVIOUS
  <2>1. CASE ReleaseStep
    BY <2>1, ReleaseStepKeeps
  <2>2. CASE HostFails
    BY <2>2, CrashKeeps DEF HostFails
  <2>3. CASE UpdaterActs
    BY <2>3, AloneKeeps DEF UpdaterActs, UpdaterNext, scriptVars
  <2>4. CASE UNCHANGED hostVars
    BY <2>4, AloneKeeps DEF hostVars, releaseVars, runtimeVars, scriptVars
  <2> QED
    BY <2>1, <2>2, <2>3, <2>4 DEF HostNext
<1> QED
  BY <1>1, <1>2, PTL DEF HostSpec

(* An interrupted activation can be taken back at any time: neither a      *)
(* failing build nor the pruning deletes what transaction.env names, for   *)
(* any number of releases, starts, failures, kills and power failures.     *)
THEOREM RollbackIsPossible == HostSpec => []RollbackTargetKept
<1>1. ScriptInv => RollbackTargetKept
  BY DEF ScriptInv
<1> QED
  BY <1>1, ScriptAlways, PTL

(* Production at rest runs the release `current' names, and it was         *)
(* validated in production, whatever failed before.                        *)
THEOREM RestIsValidated == HostSpec => []SettledIsValidated
<1>1. ScriptInv => SettledIsValidated
  BY DEF ScriptInv, ProductionFits, SettledIsValidated
<1> QED
  BY <1>1, ScriptAlways, PTL

-----------------------------------------------------------------------------
(* The files of /run/valhalla-traffic and the run of the updater.          *)
FileTypes ==
    /\ archive \in [graph: Releases \cup {None}, set: SUBSET Edges]
    /\ edgeList \in [there: BOOLEAN, edges: SUBSET Edges]
    /\ lastApplied \in Releases \cup {None}
    /\ detached \in BOOLEAN

TracesKnownData == AtStep("trace") => upd.dataset \in Releases

(* What the run still has to clear or to list: the records that are set    *)
(* are, at each of its steps, among those it knows of, and a run that has  *)
(* another archive open than the one in place changes nothing there.       *)
RunCovers ==
    /\ AtStep("wipe") => archive.set \subseteq upd.previous \cup upd.speeds \cup lost
    /\ upd.pc \in {"wipe", "write"} => upd.speeds \subseteq edgeList.edges \cup lost
    /\ upd.pc \in {"write", "list"} => archive.set \subseteq upd.speeds \cup lost
    /\ detached => archive.set = {}

EdgeInv == FileTypes /\ UpdaterTypeOK /\ TracesKnownData /\ RunCovers /\ EdgeListCoversArchive

LEMMA EdgesInitial == HostInit => EdgeInv
<1> SUFFICES ASSUME HostInit PROVE EdgeInv
  OBVIOUS
<1> USE ReleasesAreNumbers
<1>1. FileTypes
  BY DEF HostInit, ReleaseInit, RuntimeInit, FileTypes, Skeleton, NoList, Edges
<1>2. UpdaterTypeOK /\ TracesKnownData
  BY DEF HostInit, UpdaterInit, UpdaterTypeOK, TracesKnownData, Resting, UpdaterSteps, AtStep
<1>3. RunCovers /\ EdgeListCoversArchive
  BY DEF HostInit, ReleaseInit, RuntimeInit, UpdaterInit, RunCovers, EdgeListCoversArchive,
         Skeleton, Resting, AtStep
<1> QED
  BY <1>1, <1>2, <1>3 DEF EdgeInv

(* What the release script does to the files: a new archive has no record  *)
(* set, and the list stays or goes.                                        *)
FilesMove ==
    /\ archive' = archive \/ (archive'.graph \in Releases \cup {None} /\ archive' = Skeleton(archive'.graph))
    /\ edgeList' = edgeList \/ edgeList' = NoList
    /\ lastApplied' = lastApplied \/ lastApplied' = None
    /\ detached' = detached \/ (detached' \in BOOLEAN /\ archive'.set = {})

LEMMA ContainerMoves ==
    ASSUME ScriptInv, ContainerStarts
    PROVE  archive' = archive \/ (archive'.graph \in Releases \cup {None} /\ archive' = Skeleton(archive'.graph))
  BY DEF ContainerStarts, Skeleton, ScriptInv, ScriptTypes

LEMMA SkeletonMoves ==
    ASSUME ScriptInv, NEW from, NEW p, NEW target \in Releases \cup {None}, NEW b,
           install_skeleton(from, p, target, b)
    PROVE  FilesMove
<1>1. archive' = Skeleton(target) \/ archive' = NoArchive
  BY DEF install_skeleton
<1>2. NoArchive = Skeleton(None)
  BY DEF NoArchive, Skeleton
<1>3. PICK g \in Releases \cup {None} : archive' = Skeleton(g)
  BY <1>1, <1>2
<1>4. archive'.graph = g /\ archive'.set = {}
  BY <1>3 DEF Skeleton
<1> QED
  BY <1>3, <1>4 DEF install_skeleton, FilesMove

LEMMA ScriptMovesFiles == ASSUME ScriptInv, ReleaseStep PROVE FilesMove
<1> USE DEF FilesMove, trafficVars
<1>1. CASE UNCHANGED trafficVars
  BY <1>1
<1>2. CASE recover_transaction \/ prepare_release_layout \/ download_sources \/ compile_release
           \/ validate_candidate \/ candidate_ready \/ check_complete \/ write_transaction
  BY <1>2 DEF recover_transaction, prepare_release_layout, download_sources, compile_release,
              BuildStep, validate_candidate, candidate_ready, check_complete, write_transaction,
              fail, runtimeVars
<1>3. CASE \/ stop_production("stop", "switch") \/ stop_production("rbStop", "rbSwitch")
           \/ switch_current("switch", "forget", script.release)
           \/ switch_current("rbSwitch", "rbForget", script.previous)
           \/ switch_current("trapSwitch", "trapRecreate", script.previous)
  BY <1>3 DEF stop_production, switch_current
<1>4. CASE forget_applied("forget", "traffic") \/ forget_applied("rbForget", "rbTraffic")
  BY <1>4 DEF forget_applied
<1>5. CASE \/ install_skeleton("traffic", "recreate", script.release, TRUE)
           \/ install_skeleton("rbTraffic", "rbRecreate", script.previous, script.switched)
  <2>1. script.release \in Releases \cup {None} /\ script.previous \in Releases \cup {None}
    BY DEF ScriptInv, ScriptTypes
  <2>2. CASE install_skeleton("traffic", "recreate", script.release, TRUE)
    BY <2>1, <2>2, SkeletonMoves
  <2>3. CASE install_skeleton("rbTraffic", "rbRecreate", script.previous, script.switched)
    BY <2>1, <2>3, SkeletonMoves
  <2> QED
    BY <1>5, <2>2, <2>3
<1>6. CASE \/ recreate_production("recreate", "validate")
           \/ recreate_production("rbRecreate", "rbValidate")
           \/ recreate_production("trapRecreate", "trapValidate")
  BY <1>6, ContainerMoves DEF recreate_production
<1>7. CASE validate_full \/ commit_activation \/ record_success \/ prune_releases
           \/ rollback_validated \/ rollback_committed \/ TrapStops \/ TrapRestored
  BY <1>7 DEF validate_full, commit_activation, record_success, prune_releases,
              rollback_validated, rollback_committed, TrapStops, TrapRestored, runtimeVars
<1>8. CASE \/ StartRecovery \/ CommandFails \/ ActivationFails \/ RollbackInvalid \/ TrapFails
           \/ ScriptKilled \/ \E mode \in Modes, r \in Releases : Start(mode, r)
  BY <1>8 DEF Start, StartRecovery, CommandFails, ActivationFails, RollbackInvalid, TrapFails,
              ScriptKilled, unexpected_failure, fail, runtimeVars
<1>9. CASE SwitchFails
  BY <1>9, ContainerMoves DEF SwitchFails
<1>10. CASE ScriptStep
  BY <1>10, <1>2, <1>3, <1>4, <1>5, <1>6, <1>7 DEF ScriptStep
<1> QED
  BY <1>8, <1>9, <1>10 DEF ReleaseStep

LEMMA SeenKeeps ==
    ASSUME EdgeInv, FilesMove, UpdaterSees PROVE EdgeInv'
<1>1. /\ archive' = archive \/ (archive'.set = {} /\ archive' \in [graph: Releases \cup {None}, set: SUBSET Edges])
      /\ detached' = detached \/ archive'.set = {}
  BY DEF FilesMove, Skeleton
<1>2. FileTypes'
  <2>1. archive' \in [graph: Releases \cup {None}, set: SUBSET Edges]
    BY <1>1 DEF EdgeInv, FileTypes
  <2>2. NoList \in [there: BOOLEAN, edges: SUBSET Edges]
    BY DEF NoList
  <2>3. edgeList' \in [there: BOOLEAN, edges: SUBSET Edges]
    BY <2>2 DEF EdgeInv, FileTypes, FilesMove
  <2>4. lastApplied' \in Releases \cup {None} /\ detached' \in BOOLEAN
    BY DEF EdgeInv, FileTypes, FilesMove
  <2> QED
    BY <2>1, <2>3, <2>4 DEF FileTypes
<1>3. UNCHANGED <<feed, changed, maps, upd, bounds>>
  BY DEF UpdaterSees
<1>4. lost' \subseteq Edges /\ aged' \in BOOLEAN
  BY <1>2 DEF UpdaterSees, EdgeInv, FileTypes, UpdaterTypeOK
<1>5. UpdaterTypeOK' /\ TracesKnownData'
  BY <1>3, <1>4 DEF EdgeInv, UpdaterTypeOK, TracesKnownData, AtStep
<1>6. CASE archive' # archive /\ upd.pc \notin {"wipe", "write", "list"}
  BY <1>1, <1>2, <1>3, <1>5, <1>6 DEF RunCovers, EdgeListCoversArchive, AtStep, EdgeInv
<1>7. CASE archive' = archive \/ upd.pc \in {"wipe", "write", "list"}
  <2>1. lost \subseteq lost' /\ edgeList.edges \subseteq edgeList'.edges \cup lost'
    BY <1>7 DEF UpdaterSees, FilesMove
  <2>2. archive'.set \subseteq archive.set
    BY <1>1
  <2>3. detached' => archive'.set = {}
    BY <1>1 DEF EdgeInv, RunCovers
  <2> QED
    BY <1>2, <1>3, <1>5, <2>1, <2>2, <2>3 DEF RunCovers, EdgeListCoversArchive, AtStep, EdgeInv
<1> QED
  BY <1>2, <1>5, <1>6, <1>7 DEF EdgeInv

-----------------------------------------------------------------------------
(* The steps of the updater.                                               *)
RunTypes == [pc: {"idle"} \cup UpdaterSteps, dataset: Releases \cup {None},
             mapped: Releases \cup {None}, copy: Releases \cup {None},
             previous: SUBSET Edges, speeds: SUBSET Edges]

LEMMA RestingTyped == Resting \in RunTypes /\ Resting.pc = "idle"
  BY DEF Resting, RunTypes

LEMMA ThenMoves ==
    ASSUME upd \in RunTypes, NEW p \in UpdaterSteps, Then(p)
    PROVE  /\ upd' \in RunTypes /\ upd'.pc = p /\ upd'.dataset = upd.dataset
           /\ upd'.previous = upd.previous /\ upd'.speeds = upd.speeds
  BY DEF Then, RunTypes

LEMMA MapTyped == ASSUME NEW d, Mapped(d) PROVE MapOf(d) \in Releases \cup {None}
  BY DEF Mapped, MapOf

LEMMA RestOfTypes ==
    ASSUME EdgeInv
    PROVE  upd \in RunTypes /\ UpdaterTypeOK /\ FileTypes
  BY DEF EdgeInv, UpdaterTypeOK, RunTypes

(* Steps that leave the archive and the list alone and do not enter the    *)
(* part of the run that writes them.                                       *)
LEMMA ReadingKeeps ==
    ASSUME EdgeInv, UNCHANGED <<archive, edgeList, detached, lost>>,
           lastApplied' \in Releases \cup {None}, upd' \in RunTypes,
           upd'.pc \notin {"wipe", "write", "list"},
           upd'.pc = "trace" => upd'.dataset \in Releases,
           maps' \subseteq Releases \X (Releases \cup {None}),
           feed' \in {"speeds", "idle", "down"}, changed' \in BOOLEAN, aged' \in BOOLEAN,
           bounds' \in [runs: 0..MaxRuns, kills: 0..MaxKills]
    PROVE  EdgeInv'
<1>1. FileTypes' /\ UpdaterTypeOK' /\ TracesKnownData'
  BY DEF EdgeInv, FileTypes, UpdaterTypeOK, RunTypes, TracesKnownData, AtStep
<1>2. RunCovers' /\ EdgeListCoversArchive'
  BY DEF EdgeInv, RunCovers, EdgeListCoversArchive, AtStep
<1> QED
  BY <1>1, <1>2 DEF EdgeInv

LEMMA BeginningKeeps ==
    ASSUME ScriptInv, EdgeInv, RunBegins \/ ClearBegins PROVE EdgeInv'
<1>1. /\ UNCHANGED <<archive, edgeList, detached, lost, lastApplied, maps, feed, changed, aged>>
      /\ bounds' \in [runs: 0..MaxRuns, kills: 0..MaxKills]
  BY UpdaterAssumption DEF RunBegins, ClearBegins, FilesKept, EdgeInv, UpdaterTypeOK
<1>2. upd' \in RunTypes /\ upd'.pc \in {"archive", "trace", "superset"}
      /\ (upd'.pc = "trace" => upd'.dataset \in Releases)
  <2>1. CASE RunBegins
    <3>1. served \in Releases
      BY <2>1 DEF RunBegins, ScriptInv, ScriptTypes
    <3>2. CASE Mapped(served)
      <4>1. MapOf(served) \in Releases \cup {None}
        BY <3>2, MapTyped
      <4>2. upd' = [Resting EXCEPT !.pc = "archive", !.dataset = served, !.mapped = MapOf(served)]
        BY <2>1, <3>2 DEF RunBegins
      <4> QED
        BY <3>1, <4>1, <4>2 DEF Resting, RunTypes, UpdaterSteps
    <3>3. CASE ~Mapped(served)
      <4>1. upd' = [Resting EXCEPT !.pc = "trace", !.dataset = served]
        BY <2>1, <3>3 DEF RunBegins
      <4> QED
        BY <3>1, <4>1 DEF Resting, RunTypes, UpdaterSteps
    <3> QED
      BY <3>2, <3>3
  <2>2. CASE ClearBegins
    BY <2>2 DEF ClearBegins, Resting, RunTypes, UpdaterSteps
  <2> QED
    BY <2>1, <2>2
<1> QED
  BY <1>1, <1>2, ReadingKeeps, RestOfTypes DEF FileTypes, UpdaterTypeOK

LEMMA MappingKeeps ==
    ASSUME ScriptInv, EdgeInv, build_mapping \/ RefetchAfterMapping PROVE EdgeInv'
<1>1. UNCHANGED <<archive, edgeList, detached, lost, lastApplied, feed, changed, aged, bounds>>
  BY DEF build_mapping, RefetchAfterMapping, FilesKept, HistoryKept
<1>2. CASE build_mapping
  <2>1. PICK g \in {served, None} :
          /\ maps' = maps \cup {<<upd.dataset, g>>}
          /\ upd' = [upd EXCEPT !.pc = "refetch", !.mapped = g]
    BY <1>2 DEF build_mapping
  <2>2. g \in Releases \cup {None} /\ upd.dataset \in Releases
    BY <1>2 DEF build_mapping, ScriptInv, ScriptTypes, EdgeInv, TracesKnownData
  <2>3. upd' \in RunTypes /\ upd'.pc = "refetch"
    BY <2>1, <2>2, RestOfTypes DEF RunTypes, UpdaterSteps
  <2>4. maps' \subseteq Releases \X (Releases \cup {None})
    BY <2>1, <2>2 DEF EdgeInv, UpdaterTypeOK
  <2> QED
    BY <1>1, <2>3, <2>4, ReadingKeeps, RestOfTypes DEF FileTypes, UpdaterTypeOK
<1>3. CASE RefetchAfterMapping
  <2>1. upd' \in RunTypes /\ upd'.pc = "archive" /\ maps' = maps
    BY <1>3, ThenMoves, RestOfTypes DEF RefetchAfterMapping, UpdaterSteps
  <2> QED
    BY <1>1, <2>1, ReadingKeeps, RestOfTypes DEF FileTypes, UpdaterTypeOK
<1> QED
  BY <1>2, <1>3

LEMMA ArchiveKeeps ==
    ASSUME ScriptInv, EdgeInv, ensure_runtime_archive PROVE EdgeInv'
<1>1. UNCHANGED <<archive, edgeList, detached, lost, lastApplied, feed, changed, aged, bounds, maps>>
  BY DEF ensure_runtime_archive, FilesKept, HistoryKept
<1>2. upd' \in RunTypes /\ upd'.pc \in {"superset", "replace"}
  <2>1. CASE Then("superset")
    BY <2>1, ThenMoves, RestOfTypes DEF UpdaterSteps
  <2>2. CASE upd' = [upd EXCEPT !.pc = "replace", !.copy = current]
    BY <2>2, RestOfTypes DEF RunTypes, UpdaterSteps, ScriptInv, ScriptTypes
  <2> QED
    BY <2>1, <2>2 DEF ensure_runtime_archive
<1> QED
  BY <1>1, <1>2, ReadingKeeps, RestOfTypes DEF FileTypes, UpdaterTypeOK

LEMMA ReplacingKeeps ==
    ASSUME EdgeInv, ReplaceArchive PROVE EdgeInv'
<1>1. /\ archive' = Skeleton(upd.copy) /\ lost' = {}
      /\ upd' = [upd EXCEPT !.pc = "superset", !.copy = None]
      /\ UNCHANGED <<feed, changed, bounds, edgeList, lastApplied, detached, aged, maps>>
  BY DEF ReplaceArchive
<1>2. upd' \in RunTypes /\ upd'.pc = "superset"
  BY <1>1, RestOfTypes DEF RunTypes, UpdaterSteps
<1>3. archive'.set = {} /\ archive' \in [graph: Releases \cup {None}, set: SUBSET Edges]
  BY <1>1, RestOfTypes DEF Skeleton, RunTypes
<1>4. FileTypes' /\ UpdaterTypeOK' /\ TracesKnownData'
  BY <1>1, <1>2, <1>3 DEF EdgeInv, FileTypes, UpdaterTypeOK, RunTypes, TracesKnownData, AtStep
<1>5. RunCovers' /\ EdgeListCoversArchive'
  BY <1>2, <1>3 DEF RunCovers, EdgeListCoversArchive, AtStep
<1> QED
  BY <1>4, <1>5 DEF EdgeInv

LEMMA SupersetKeeps ==
    ASSUME EdgeInv, WriteSuperset PROVE EdgeInv'
<1>1. PICK speeds \in SUBSET (Edges \cap {upd.mapped}) :
        /\ upd' = [upd EXCEPT !.pc = "wipe", !.previous = edgeList.edges, !.speeds = speeds]
        /\ edgeList' = ListOf(edgeList.edges \cup speeds)
  BY DEF WriteSuperset, read_previous_edges
<1>2. detached' = FALSE /\ UNCHANGED <<archive, lastApplied, maps, feed, changed, lost, bounds>>
      /\ aged' \in BOOLEAN
  BY DEF WriteSuperset, HistoryKept, EdgeInv, UpdaterTypeOK
<1>3. edgeList.edges \in SUBSET Edges /\ speeds \in SUBSET Edges
  BY DEF EdgeInv, FileTypes
<1>4. /\ upd' \in RunTypes /\ upd'.pc = "wipe" /\ upd'.previous = edgeList.edges
      /\ upd'.speeds = speeds
  BY <1>1, <1>3, RestOfTypes DEF RunTypes, UpdaterSteps
<1>5. edgeList'.edges = edgeList.edges \cup speeds /\ edgeList' \in [there: BOOLEAN, edges: SUBSET Edges]
  BY <1>1, <1>3 DEF ListOf
<1>6. FileTypes' /\ UpdaterTypeOK' /\ TracesKnownData'
  BY <1>2, <1>4, <1>5 DEF EdgeInv, FileTypes, UpdaterTypeOK, RunTypes, TracesKnownData, AtStep
<1>7. RunCovers' /\ EdgeListCoversArchive'
  BY <1>2, <1>4, <1>5 DEF EdgeInv, RunCovers, EdgeListCoversArchive, AtStep
<1> QED
  BY <1>6, <1>7 DEF EdgeInv

LEMMA RewriteMoves ==
    ASSUME EdgeInv, NEW S \in SUBSET Edges, Rewrite(S)
    PROVE  /\ archive' \in [graph: Releases \cup {None}, set: SUBSET Edges]
           /\ (detached => archive'.set = {}) /\ (~detached => archive'.set = S)
  BY DEF Rewrite, EdgeInv, FileTypes, RunCovers

LEMMA ClearingKeeps ==
    ASSUME EdgeInv, ClearPrevious PROVE EdgeInv'
<1>1. /\ AtStep("wipe") /\ Then("write") /\ Rewrite(archive.set \ upd.previous)
      /\ UNCHANGED <<feed, changed, lost, bounds, edgeList, lastApplied, detached, aged, maps>>
  BY DEF ClearPrevious, HistoryKept
<1>2. archive.set \ upd.previous \in SUBSET Edges
  BY DEF EdgeInv, FileTypes
<1>3. /\ archive' \in [graph: Releases \cup {None}, set: SUBSET Edges]
      /\ (detached => archive'.set = {}) /\ (~detached => archive'.set = archive.set \ upd.previous)
  BY <1>1, <1>2, RewriteMoves
<1>4. upd' \in RunTypes /\ upd'.pc = "write" /\ upd'.speeds = upd.speeds
  BY <1>1, ThenMoves, RestOfTypes DEF UpdaterSteps
<1>5. FileTypes' /\ UpdaterTypeOK' /\ TracesKnownData'
  BY <1>1, <1>3, <1>4 DEF EdgeInv, FileTypes, UpdaterTypeOK, RunTypes, TracesKnownData, AtStep
<1>6. archive'.set \subseteq archive.set /\ archive'.set \subseteq upd.speeds \cup lost
  BY <1>1, <1>3 DEF EdgeInv, RunCovers, FileTypes
<1>7. RunCovers' /\ EdgeListCoversArchive'
  BY <1>1, <1>3, <1>4, <1>6 DEF EdgeInv, RunCovers, EdgeListCoversArchive, AtStep
<1> QED
  BY <1>5, <1>7 DEF EdgeInv

LEMMA SpeedsKeep ==
    ASSUME EdgeInv, WriteSpeeds PROVE EdgeInv'
<1>1. /\ AtStep("write") /\ Then("list") /\ Rewrite(archive.set \cup upd.speeds)
      /\ UNCHANGED <<feed, changed, lost, bounds, edgeList, lastApplied, detached, aged, maps>>
  BY DEF WriteSpeeds, HistoryKept
<1>2. archive.set \cup upd.speeds \in SUBSET Edges
  BY RestOfTypes DEF FileTypes, RunTypes
<1>3. /\ archive' \in [graph: Releases \cup {None}, set: SUBSET Edges]
      /\ (detached => archive'.set = {}) /\ (~detached => archive'.set = archive.set \cup upd.speeds)
  BY <1>1, <1>2, RewriteMoves
<1>4. upd' \in RunTypes /\ upd'.pc = "list" /\ upd'.speeds = upd.speeds
  BY <1>1, ThenMoves, RestOfTypes DEF UpdaterSteps
<1>5. FileTypes' /\ UpdaterTypeOK' /\ TracesKnownData'
  BY <1>1, <1>3, <1>4 DEF EdgeInv, FileTypes, UpdaterTypeOK, RunTypes, TracesKnownData, AtStep
<1>6. archive'.set \subseteq upd.speeds \cup lost /\ archive'.set \subseteq edgeList.edges \cup lost
  BY <1>1, <1>3 DEF EdgeInv, RunCovers, EdgeListCoversArchive, FileTypes, AtStep
<1>7. RunCovers' /\ EdgeListCoversArchive'
  BY <1>1, <1>3, <1>4, <1>6 DEF RunCovers, EdgeListCoversArchive, AtStep
<1> QED
  BY <1>5, <1>7 DEF EdgeInv

LEMMA ListKeeps ==
    ASSUME EdgeInv, WriteList PROVE EdgeInv'
<1>1. /\ AtStep("list") /\ edgeList' = ListOf(upd.speeds) /\ aged' \in BOOLEAN
      /\ UNCHANGED <<feed, changed, lost, bounds, archive, lastApplied, detached, maps>>
  BY DEF WriteList, HistoryKept, EdgeInv, UpdaterTypeOK
<1>2. upd' \in RunTypes /\ upd'.pc \in {"unlink", "report"}
  <2>1. Then("unlink") \/ Then("report")
    BY DEF WriteList
  <2> QED
    BY <2>1, ThenMoves, RestOfTypes DEF UpdaterSteps
<1>3. edgeList'.edges = upd.speeds /\ edgeList' \in [there: BOOLEAN, edges: SUBSET Edges]
  BY <1>1, RestOfTypes DEF ListOf, RunTypes
<1>4. FileTypes' /\ UpdaterTypeOK' /\ TracesKnownData'
  BY <1>1, <1>2, <1>3 DEF EdgeInv, FileTypes, UpdaterTypeOK, RunTypes, TracesKnownData, AtStep
<1>5. RunCovers' /\ EdgeListCoversArchive'
  BY <1>1, <1>2, <1>3 DEF EdgeInv, RunCovers, EdgeListCoversArchive, AtStep
<1> QED
  BY <1>4, <1>5 DEF EdgeInv

LEMMA EndKeeps ==
    ASSUME EdgeInv, ReportAndRemember \/ UnlinkRevision \/ RunFails PROVE EdgeInv'
<1>1. /\ UNCHANGED <<archive, edgeList, detached, lost, maps, feed, bounds>> /\ upd' = Resting
      /\ lastApplied' \in {lastApplied, upd.dataset, None}
      /\ changed' \in {changed, FALSE} /\ aged' \in {aged, FALSE}
  BY DEF ReportAndRemember, UnlinkRevision, RunFails, Ends, FilesKept, HistoryKept
<1>2. lastApplied' \in Releases \cup {None} /\ changed' \in BOOLEAN /\ aged' \in BOOLEAN
  BY <1>1, RestOfTypes DEF FileTypes, RunTypes, UpdaterTypeOK
<1> QED
  BY <1>1, <1>2, RestingTyped, ReadingKeeps, RestOfTypes DEF FileTypes, UpdaterTypeOK

LEMMA KillKeeps ==
    ASSUME EdgeInv, RunKilled PROVE EdgeInv'
<1>1. /\ upd' = Resting /\ bounds' \in [runs: 0..MaxRuns, kills: 0..MaxKills]
      /\ UNCHANGED <<archive, lastApplied, detached, feed, changed, aged, maps>>
  BY UpdaterAssumption DEF RunKilled, Ends, EdgeInv, UpdaterTypeOK
<1>2. CASE UNCHANGED <<edgeList, lost>>
  BY <1>1, <1>2, RestingTyped, ReadingKeeps, RestOfTypes DEF FileTypes, UpdaterTypeOK
<1>3. CASE edgeList' = ListOf({}) /\ lost' = lost \cup edgeList.edges
  <2>1. edgeList' \in [there: BOOLEAN, edges: SUBSET Edges] /\ lost' \subseteq Edges
    BY <1>3, RestOfTypes DEF ListOf, FileTypes, UpdaterTypeOK
  <2>2. FileTypes' /\ UpdaterTypeOK' /\ TracesKnownData'
    BY <1>1, <2>1, RestingTyped DEF EdgeInv, FileTypes, UpdaterTypeOK, RunTypes, TracesKnownData, AtStep
  <2>3. RunCovers' /\ EdgeListCoversArchive'
    BY <1>1, <1>3, RestingTyped DEF EdgeInv, RunCovers, EdgeListCoversArchive, AtStep
  <2> QED
    BY <2>2, <2>3 DEF EdgeInv
<1> QED
  BY <1>2, <1>3 DEF RunKilled

LEMMA FeedKeeps ==
    ASSUME EdgeInv, FeedChanges PROVE EdgeInv'
<1>1. /\ UNCHANGED <<archive, edgeList, detached, lost, lastApplied, maps, upd, bounds>>
      /\ feed' \in {"speeds", "idle", "down"} /\ changed' \in BOOLEAN /\ aged' \in BOOLEAN
  BY DEF FeedChanges, FilesKept, EdgeInv, UpdaterTypeOK, FileTypes
<1>2. FileTypes' /\ UpdaterTypeOK' /\ TracesKnownData'
  BY <1>1 DEF EdgeInv, FileTypes, UpdaterTypeOK, TracesKnownData, AtStep
<1>3. RunCovers' /\ EdgeListCoversArchive'
  BY <1>1 DEF EdgeInv, RunCovers, EdgeListCoversArchive, AtStep
<1> QED
  BY <1>2, <1>3 DEF EdgeInv

LEMMA RebootKeeps ==
    ASSUME ScriptInv, EdgeInv, HostFails PROVE EdgeInv'
<1>1. /\ edgeList' = NoList /\ lastApplied' = None /\ detached' = FALSE
      /\ archive' = Skeleton(current) \/ archive' = NoArchive
      /\ upd' = Resting /\ aged' = FALSE /\ lost' = {}
      /\ UNCHANGED <<feed, changed, maps, bounds>>
  BY DEF HostFails, PowerFails, HostReboots
<1>2. archive'.set = {} /\ archive' \in [graph: Releases \cup {None}, set: SUBSET Edges]
  BY <1>1 DEF Skeleton, NoArchive, ScriptInv, ScriptTypes
<1>3. edgeList' \in [there: BOOLEAN, edges: SUBSET Edges]
  BY <1>1 DEF NoList
<1>4. FileTypes' /\ UpdaterTypeOK' /\ TracesKnownData'
  BY <1>1, <1>2, <1>3, RestingTyped DEF EdgeInv, FileTypes, UpdaterTypeOK, RunTypes, TracesKnownData, AtStep
<1>5. RunCovers' /\ EdgeListCoversArchive'
  BY <1>1, <1>2, RestingTyped DEF RunCovers, EdgeListCoversArchive, AtStep
<1> QED
  BY <1>4, <1>5 DEF EdgeInv

LEMMA HostStepKeeps ==
    ASSUME ScriptInv, EdgeInv, [HostNext]_hostVars PROVE EdgeInv'
<1>1. CASE ReleaseStep /\ UpdaterSees
  BY <1>1, ScriptMovesFiles, SeenKeeps
<1>2. CASE UpdaterActs
  BY <1>2, BeginningKeeps, MappingKeeps, ArchiveKeeps, ReplacingKeeps, SupersetKeeps,
     ClearingKeeps, SpeedsKeep, ListKeeps, EndKeeps, KillKeeps, FeedKeeps
     DEF UpdaterActs, UpdaterNext, UpdaterStep
<1>3. CASE UNCHANGED hostVars
  <2>1. UNCHANGED <<archive, edgeList, lastApplied, detached, feed, changed, aged, maps, upd, lost, bounds>>
    BY <1>3 DEF hostVars, releaseVars, runtimeVars, updaterVars
  <2>2. FileTypes' /\ UpdaterTypeOK' /\ TracesKnownData'
    BY <2>1 DEF EdgeInv, FileTypes, UpdaterTypeOK, TracesKnownData, AtStep
  <2>3. RunCovers' /\ EdgeListCoversArchive'
    BY <2>1 DEF EdgeInv, RunCovers, EdgeListCoversArchive, AtStep
  <2> QED
    BY <2>2, <2>3 DEF EdgeInv
<1> QED
  BY <1>1, <1>2, <1>3, RebootKeeps DEF HostNext

LEMMA HostAlways == HostSpec => [](ScriptInv /\ EdgeInv)
<1>1. HostInit => EdgeInv
  BY EdgesInitial
<1>2. ScriptInv /\ EdgeInv /\ [HostNext]_hostVars => EdgeInv'
  BY HostStepKeeps
<1> QED
  BY <1>1, <1>2, ScriptAlways, PTL DEF HostSpec

(* Every record set in the archive stands in the edge list, or in a list   *)
(* that was cut short or removed, whatever is killed, switched or retried  *)
(* in between: the next run can clear it.                                  *)
THEOREM ListCoversArchive == HostSpec => []EdgeListCoversArchive
<1>1. EdgeInv => EdgeListCoversArchive
  BY DEF EdgeInv
<1> QED
  BY <1>1, HostAlways, PTL

(* Type correctness of the host, of the script and the updater together.   *)
THEOREM HostTyped == HostSpec => []HostTypeOK
<1>1. ScriptInv /\ EdgeInv => HostTypeOK
  BY DEF ScriptInv, ScriptTypes, EdgeInv, FileTypes, HostTypeOK, ReleaseTypeOK, RuntimeTypeOK, Steps
<1> QED
  BY <1>1, HostAlways, PTL
================================================================================
