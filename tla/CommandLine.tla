----------------------------- MODULE CommandLine -----------------------------
(***************************************************************************)
(* The command line (greentyper cli.rs) over the product's Ledgers: every   *)
(* command is a process of its own that loads the Config files, opens the   *)
(* Ledgers, does its work and ends.  It shares the Ledgers with the App     *)
(* Server; while either holds a driver the other's opens fail.              *)
(***************************************************************************)
EXTENDS AppServer

CONSTANT MaxCrashes     \* bound: processes that die

VARIABLE crashes

cli == <<config, server, shown, reply>>
ByCli == driver.by = "cli"

-----------------------------------------------------------------------------
(* headless: a new Turn.  The Preset is the staged one, or the default; a   *)
(* staged one must still freeze to what was staged.                         *)

HeadlessError(value) ==
    IF (value.default # "none" \/ disk.staged # {}) /\ ~value.resolves THEN "Config"
    ELSE IF ~value.executable THEN "UnsupportedContextMode"
    ELSE IF has_product_driver_state(disk) = "IncompleteState" THEN "IncompleteState" ELSE "ok"

\* Without sidecars and without --tool the Runtime is opened alone; with
\* either, the product is, and is created when it is not there.
HeadlessPlain ==
    /\ Closed
    /\ HeadlessError(config.value) = "ok"
    /\ has_product_driver_state(disk) = "no"
    /\ disk' = [disk EXCEPT !.files = @ \cup {"runtime"}, !.torn = @ \ {"runtime"}]
    /\ Hold("cli", "run", "ready", Nobody)
    /\ UNCHANGED <<ghosts, cli, crashes>>

run_product_turn ==
    /\ HeadlessError(config.value) = "ok"
    /\ open_with_executor("cli")
    /\ UNCHANGED <<cli, crashes>>

-----------------------------------------------------------------------------
(* resume, retry, agent turn, agent retry.                                  *)

\* The Runtime alone, when there are no sidecars.
ResumePlain ==
    /\ Closed
    /\ require_pending_context_mode_execution(disk) = "ok"
    /\ has_product_driver_state(disk) = "no"
    /\ Status(disk) = "ResumeRequired" /\ Owner(disk, CurrentTurn(disk)) = Nobody
    /\ disk' = [disk EXCEPT !.torn = @ \ {"runtime"}]
    /\ Hold("cli", "resume", "asking", Nobody)
    /\ UNCHANGED <<ghosts, cli, crashes>>

resume_product_turn ==
    LET t == CurrentTurn(disk)
    IN  /\ Status(disk) = "ResumeRequired"
        /\ open_existing_for_provider_recovery(disk, t) = "ok"
        /\ resume_error(disk, Owner(disk, t)) = "ok"
        /\ Hold("cli", "resume", "asking", Owner(disk, t))
        /\ UNCHANGED <<disk, ghosts, cli, crashes>>

\* Rearm in one process step; the resume that follows is resume_product_turn
\* or ResumePlain, whether this process gets to it or a later one.
Retry(t) ==
    /\ IF has_product_driver_state(disk) = "yes"
       THEN request_product_provider_turn_recovery(disk, t) = "ok"
       ELSE /\ has_product_driver_state(disk) = "no"
            /\ require_pending_context_mode_execution(disk) = "ok"
            /\ OpenRuntime(disk) = "ok" /\ retry_error(disk, t, Nobody) = "ok"
    /\ disk' = Rearmed(disk)
    /\ UNCHANGED <<driver, ghosts, cli, crashes>>

retry_product_agent_turn(a, t) ==
    /\ request_product_agent_provider_turn_recovery(disk, a, t) = "ok"
    /\ disk' = Rearmed(disk)
    /\ UNCHANGED <<driver, ghosts, cli, crashes>>

run_agent_turn(a) ==
    /\ open_existing_for_agent(disk, a) = "ok"
    /\ disk.agents[a].preset # "none" \/ config.value.default # "none"
    /\ config.value.resolves /\ config.value.executable
    /\ Hold("cli", "run", "ready", a)
    /\ UNCHANGED <<disk, ghosts, cli, crashes>>

-----------------------------------------------------------------------------
(* The end of a Turn: written out and flushed, then acknowledged.           *)

deliver_product_and_ack_Unwritten ==
    /\ ByCli /\ At("done")
    /\ IF driver.res = "Prepared" THEN Goto("deliver") ELSE driver' = NoDriver
    /\ UNCHANGED <<disk, ghosts, cli, crashes>>
deliver_product_and_ack ==
    /\ ByCli /\ At("done")
    /\ \/ /\ driver.res = "Prepared"
          /\ delivered' = delivered \cup {CurrentTurn(disk)}
          /\ Goto("deliver")
       \/ driver' = NoDriver /\ UNCHANGED delivered       \* any error, the write's too
    /\ UNCHANGED <<disk, ran, presented, cli, crashes>>

AcknowledgeDelivered ==
    /\ ByCli /\ At("deliver")
    /\ disk' = IF acknowledge_error(disk, CurrentTurn(disk), driver.session) = "ok"
               THEN Acknowledged(disk) ELSE disk
    /\ driver' = NoDriver
    /\ UNCHANGED <<ghosts, cli, crashes>>

-----------------------------------------------------------------------------
(* Commands of one step.                                                    *)

CancelTurn(t) ==
    /\ IF has_product_driver_state(disk) = "yes"
       THEN cancel_product_provider_turn(disk, t) = "ok"
       ELSE has_product_driver_state(disk) = "no" /\ OpenRuntime(disk) = "ok"
            /\ cancel_error(disk, t, Nobody) = "ok"
    /\ disk' = Cancelled(disk)
    /\ UNCHANGED <<driver, ghosts, cli, crashes>>

\* reconcile: the user says the output arrived.  The Runtime Ledger alone is
\* opened, and a torn tail of it repaired, whoever owns the Turn.
Reconcile ==
    /\ Closed /\ path_entry_exists(disk, "runtime")
    /\ Status(disk) = "ReconciliationRequired"
    /\ disk' = Acknowledged([disk EXCEPT !.torn = @ \ {"runtime"}])
    /\ delivered' = delivered \cup {CurrentTurn(disk)}
    /\ UNCHANGED <<driver, ran, presented, cli, crashes>>

StageSelection ==
    /\ stage_product_model_selection(disk) = "ok"
    /\ disk' = Staged(disk)
    /\ UNCHANGED <<driver, ghosts, cli, crashes>>

\* Another process commits a Config.
ConfigSet(value) ==
    /\ config.revision < MaxRevision /\ value # config.value
    /\ config' = [revision |-> config.revision + 1, value |-> value]
    /\ UNCHANGED <<disk, driver, ghosts, server, reply, shown, crashes>>

\* The holder of the driver dies, in an append of one of the Ledgers or not.
Crash ==
    /\ ~Closed /\ crashes < MaxCrashes
    /\ crashes' = crashes + 1
    /\ \E torn \in {{}} \cup {{f} : f \in disk.files} :
            disk' = [disk EXCEPT !.torn = @ \cup torn]
    /\ driver' = NoDriver
    /\ IF driver.by = "server"
       THEN server' = NewConnection /\ shown' = {} /\ reply' = NoReply
       ELSE UNCHANGED <<server, shown, reply>>
    /\ UNCHANGED <<ghosts, config>>

CliStep ==
    \/ HeadlessPlain \/ run_product_turn
    \/ ResumePlain \/ resume_product_turn
    \/ \E t \in Turns :
        \/ Retry(t) \/ CancelTurn(t)
        \/ \E a \in Agents : retry_product_agent_turn(a, t)
    \/ \E a \in Agents : run_agent_turn(a)
    \/ deliver_product_and_ack \/ AcknowledgeDelivered
    \/ Reconcile \/ StageSelection
    \/ \E value \in ConfigValue : ConfigSet(value)
    \/ Crash

-----------------------------------------------------------------------------
(* A ledger an older program wrote may hold a Turn whose Context mode this  *)
(* one cannot execute.                                                      *)

OldTurn == [EmptyDisk EXCEPT !.files = {"runtime"},
    !.turns = <<[owner |-> Nobody, ending |-> "none", executable |-> FALSE]>>,
    !.pending = [NoTurn EXCEPT !.phase = "Admitted"]]

Init ==
    /\ disk \in {EmptyDisk, OldTurn}
    /\ driver = NoDriver
    /\ ran = {} /\ presented = {} /\ delivered = {}
    /\ config \in [revision : {0}, value : ConfigValue]
    /\ server = NewConnection
    /\ reply = NoReply /\ shown = {} /\ crashes = 0

vars == <<disk, driver, ran, presented, delivered, config, server, reply, shown, crashes>>

Next ==
    \/ DriverStep /\ UNCHANGED <<cli, crashes>>
    \/ ServerStep /\ UNCHANGED crashes
    \/ CliStep

Spec == Init /\ [][Next]_vars

-----------------------------------------------------------------------------
(* Properties.                                                              *)

\* Every effect the App Server lets run was shown on the connection that
\* approved it, with the same arguments, by a review that approval alone used
\* up: a review is dropped by the next review, by any decision and by a
\* restart, and the Provider, asked again, must still ask for the same call.
EffectsWereReviewed ==
    \A effect \in ran : effect.by = "server" => effect.saw = {effect.binding}

\* The Agent that owns a pending Turn is Active whoever gave Team commands in
\* between: the Turn can be resumed, delivered or cancelled by its owner.
PendingTurnOwnerIsActive ==
    Status(disk) # "Ready" /\ Owner(disk, CurrentTurn(disk)) # Nobody
        => Owner(disk, CurrentTurn(disk)) \in Active(disk)

\* No output is lost: a Turn is completed only after its output was written
\* out, or after the user or client said so.
CompletedWasDelivered ==
    \A t \in DOMAIN disk.turns : disk.turns[t].ending = "completed" => t \in delivered

\* A Team operation is closed only after someone was shown it, across crashes
\* between its commit, its presentation and its acknowledgement.
AcknowledgedWasPresented ==
    disk.op.acked /\ disk.op.id > 0 => disk.op.id \in presented

\* What is closed was seen: a completed Turn's output was delivered, and an
\* acknowledged Team operation presented, whichever process did it and whatever
\* crashed in between.
ClosedWasSeen == CompletedWasDelivered /\ AcknowledgedWasPresented

\* A Turn whose status is resume-required can be resumed, by resume and by
\* runtime.resume, once its Ledgers are whole and free.
ResumeRequiredIsResumable ==
    LET t == CurrentTurn(disk)
    IN  (/\ Closed /\ disk.torn = {} /\ Status(disk) = "ResumeRequired"
         /\ require_pending_context_mode_execution(disk) = "ok")
        => IF has_product_driver_state(disk) = "no" THEN Owner(disk, t) = Nobody
           ELSE open_existing_for_provider_recovery(disk, t) = "ok"
==============================================================================
