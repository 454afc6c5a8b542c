----------------------------- MODULE Constructor -----------------------------
(***************************************************************************)
(* The command line (docker/constructor_cli.py) over the services of one   *)
(* project: invocations of doctor, check-updates, build, run and verify    *)
(* side by side, sharing the inventory, the local companion and the        *)
(* metadata cache.  Doctors and update checks take all their steps; of a   *)
(* build, a launch or a verification only what it needs from the companion *)
(* is followed, BuildTransaction and Launch have the rest.                 *)
(***************************************************************************)
EXTENDS UpdateCheck, Doctor

CONSTANTS
    Typed       \* the command lines

NoMode == "none"
Command == {"doctor", "check-updates", "build", "run", "verify"}

VARIABLES
    line,       \* per invocation: its command line
    phase,      \* per invocation: where the command line handling is
    refused,    \* per invocation: the companion was the reason of exit 3
    kind,       \* per invocation: exit kind of what is not followed further
    settled     \* history: a doctor succeeded in saving an address

cliVars == <<line, phase, refused, kind, settled>>
all == <<vars, doctorVars, cliVars>>

ASSUME ConstructorAssumption ==
    /\ Doctors = Session
    /\ Typed \subseteq [command : Command, malformed : BOOLEAN, yes : BOOLEAN, terminal : BOOLEAN,
                        repair : BOOLEAN, dry : BOOLEAN, runtime : BOOLEAN]

ConstructorTypeOK ==
    /\ TypeOK /\ DoctorTypeOK
    /\ line \in [Session -> Typed]
    /\ phase \in [Session -> {"new", "asking", "working", "done"}]
    /\ refused \subseteq Session
    /\ kind \in [Session -> ExitKinds \cup {"CLI"}]
    /\ settled \in BOOLEAN

ConstructorInit ==
    /\ Init /\ DoctorInit
    /\ line \in [Session -> Typed]
    /\ phase = [i \in Session |-> "new"]
    /\ refused = {}
    /\ kind = [i \in Session |-> "none"]
    /\ settled = FALSE

-----------------------------------------------------------------------------
Working(i) == phase' = [phase EXCEPT ![i] = "working"] /\ UNCHANGED <<refused, kind>>

Ends(i, result) ==
    /\ phase' = [phase EXCEPT ![i] = "done"]
    /\ kind' = [kind EXCEPT ![i] = result]

Services == <<vars, doctorVars>>
Is(i, command) == line[i].command = command

(* argparse, the overrides and doctor's numbers: exit 2.  Everything up to *)
(* a prompt or a service is one step.                                      *)
Unparsed(i) ==
    /\ phase[i] = "new" /\ line[i].malformed
    /\ Ends(i, "CLI")
    /\ UNCHANGED <<Services, line, refused, settled>>

(* build asks unless it is a dry run, doctor when it is to repair.         *)
Asks(i) ==
    /\ ~line[i].yes
    /\ \/ Is(i, "build") /\ ~line[i].dry
       \/ Is(i, "doctor") /\ line[i].repair

Prompt(i) ==
    /\ phase[i] = "new" /\ ~line[i].malformed /\ Asks(i)
    /\ phase' = [phase EXCEPT ![i] = "asking"]
    /\ UNCHANGED <<Services, line, refused, kind, settled>>

(* Without a terminal, at the end of input and for any other answer the    *)
(* command is cancelled, which is a success.                               *)
Cancelled(i) ==
    /\ phase[i] = "asking"
    /\ Ends(i, "SUCCESS")
    /\ UNCHANGED <<Services, line, refused, settled>>

Ready(i, command) ==
    /\ Is(i, command)
    /\ \/ phase[i] = "new" /\ ~line[i].malformed /\ ~Asks(i)
       \/ phase[i] = "asking" /\ line[i].terminal

-----------------------------------------------------------------------------
(* doctor, to the end of orchestrate_doctor.                               *)
RunDoctor(i) ==
    /\ Ready(i, "doctor") /\ Dispatch(i, line[i].repair, Loads(doc))
    /\ Working(i)
    /\ UNCHANGED <<vars, line, settled>>

DoctorWorks(i) ==
    /\ Is(i, "doctor") /\ phase[i] = "working"
    /\ DoctorStep(i)
    /\ settled' = (settled \/ (policy = "gateway" /\ ended'[i] = "SUCCESS"))
    /\ UNCHANGED <<vars, line, phase, refused, kind>>

(* check-updates: the inventory, the companion, then the checks.           *)
RunCheck(i) ==
    /\ Ready(i, "check-updates")
    /\ IF Loads(doc) /\ ~CompanionLoads(NoMode)
         THEN Ends(i, "CONFIG") /\ refused' = refused \cup {i} /\ UNCHANGED vars
         ELSE Load(i) /\ Working(i)
    /\ UNCHANGED <<doctorVars, line, settled>>

CheckWorks(i) ==
    /\ Is(i, "check-updates") /\ phase[i] \in {"working", "done"}
    /\ Check(i) \/ Paste(i)
    /\ UNCHANGED <<doctorVars, cliVars>>

(* plan_build wants a companion that loads, without telling the mode.      *)
BuildRefused == ~CompanionLoads(NoMode)

(* orchestrate_run loads it with the mode, and again without it when host  *)
(* access is enabled and it needs the address.                             *)
RunRefused ==
    \/ ~CompanionLoads(IF policy = "gateway" THEN "docker-gateway" ELSE NoMode)
    \/ /\ policy \in {"gateway", "external"}
       /\ ~CompanionLoads(NoMode) \/ companion.address = NoAddress

(* verify loads it without the mode, and wants the address to look at the  *)
(* container.                                                              *)
VerifyRefused(i) ==
    \/ ~CompanionLoads(NoMode)
    \/ /\ line[i].runtime /\ policy \in {"gateway", "external"}
       /\ companion.address = NoAddress

Outcomes(i) ==
    CASE Is(i, "build") -> IF line[i].dry THEN {"SUCCESS"} ELSE {"SUCCESS", "OPERATIONAL"}
      [] Is(i, "run") -> {"SUCCESS", "OPERATIONAL"}
      [] Is(i, "verify") -> {"SUCCESS", "OPERATIONAL", "CONFIG"}

Serve(i, command, needed, refuses) ==
    /\ Ready(i, command)
    /\ IF needed /\ ~Loads(doc) THEN Ends(i, "CONFIG") /\ UNCHANGED refused
       ELSE IF refuses THEN Ends(i, "CONFIG") /\ refused' = refused \cup {i}
       ELSE (\E result \in Outcomes(i) : Ends(i, result)) /\ UNCHANGED refused
    /\ UNCHANGED <<Services, line, settled>>

RunBuild(i) == Serve(i, "build", TRUE, BuildRefused)
RunRun(i) == Serve(i, "run", TRUE, RunRefused)
RunVerify(i) == Serve(i, "verify", line[i].runtime, VerifyRefused(i))

Invocation(i) ==
    Unparsed(i) \/ Prompt(i) \/ Cancelled(i) \/ RunDoctor(i) \/ DoctorWorks(i) \/ RunCheck(i)
        \/ CheckWorks(i) \/ RunBuild(i) \/ RunRun(i) \/ RunVerify(i)

Outside ==
    \/ (Edit \/ UpdateWorld) /\ UNCHANGED <<doctorVars, cliVars>>
    \/ (EditCompanion \/ HostChanges) /\ UNCHANGED <<vars, cliVars>>

ConstructorNext == (\E i \in Session : Invocation(i)) \/ Outside

ConstructorSpec == ConstructorInit /\ [][ConstructorNext]_all

-----------------------------------------------------------------------------
(* Once a doctor has succeeded in gateway mode, the companion is no reason *)
(* any more to refuse a command (launcher.py: "Run 'doctor' first"), as    *)
(* long as the user spells the table the way the doctor writes it and the  *)
(* probe has named an address.                                             *)
DoctorSettles ==
    [][settled /\ latest.table \in {"none", "plain"} /\ companion.address # HostGateway
         => refused' = refused]_all

(* The same for every companion and every answer of the probe.             *)
DoctorSuffices == [][settled => refused' = refused]_all
=============================================================================
