------------------------------ MODULE Recovery ------------------------------
(***************************************************************************)
(* Startup recovery: RecoveryPipeline::Recover reads one save, parses it,  *)
(* validates it, migrates it and hands its records to the restore sinks,   *)
(* phase by phase.  It runs once, before the first frame; a sink may       *)
(* refuse any record.                                                      *)
(*                                                                         *)
(* A save file is abstracted to what the pipeline's verdicts tell apart:   *)
(* whether its bytes are there, whole and of this format, the ids and      *)
(* references of its records, and its versions.  The inventory and owner   *)
(* references of an entity are one reference here: both are checked alike. *)
(* What a migration step makes of the loaded save is any of Rewritten.     *)
(***************************************************************************)
EXTENDS Integers, SequencesExt

CONSTANTS
    MaxId,          \* bound: entity ids 1..MaxId, 0 is no entity
    MaxEntities,    \* bound: entity records of a save
    MaxVersion,     \* bound: save versions
    Target,         \* RecoveryPipeline::m_targetVersion
    Compatibility,  \* VersionSet::compatibility of this build
    Rewritten       \* bound: what a migration step may make of a loaded save

ASSUME RecoveryAssumption == MaxId \in Nat /\ MaxEntities \in Nat /\ MaxVersion \in Nat

ASSUME VersionAssumption ==
    /\ Target \in 1..MaxVersion /\ Compatibility \in 1..MaxVersion

VARIABLES
    save,      \* the artifact the store holds under the id
    loaded,    \* the LoadedSave: as it was parsed, then as the migration steps leave it
    steps,     \* SaveMigrator::m_steps: from version |-> to version
    state,     \* RecoveryReport::finalState
    version,   \* how far the migration has come
    phase,     \* RecoveryReport::reachedPhase
    next,      \* the record of the phase that goes to its sink next
    applied,   \* history: the records the sinks have accepted
    outcome,   \* RecoveryReport::outcome
    restored   \* RecoveryReport::entitiesRestored

recoveryVars ==
    <<save, loaded, steps, state, version, phase, next, applied, outcome, restored>>

Id       == 0..MaxId
Version  == 1..MaxVersion
Restores == {"World", "Registry", "Players", "ALife", "Scheduler"}
Failures == {"NothingToLoad", "CorruptedSave", "ChecksumFailure", "VersionMismatch",
             "IntegrityFailure", "MissingData", "VersionUnsupported", "StepFailed"}

EntityRecord == [id : Id, ref : Id]

\* Whole files differ in their content; of the others only the damage counts.
SaveContent ==
    [entities : BoundedSeq(EntityRecord, MaxEntities), players : BoundedSeq(Id, 1),
     alife : BoundedSeq({1}, 1), miscounted : BOOLEAN,
     build : {Compatibility, Compatibility + 1}]

NoContent ==
    [entities |-> <<>>, players |-> <<>>, alife |-> <<>>, miscounted |-> FALSE,
     build |-> Compatibility]

ASSUME RewrittenAssumption == Rewritten \subseteq SaveContent

Damage == {"absent", "torn", "otherFormat", "altered"}

Artifact ==
    [file : {"whole"}, content : SaveContent] \cup [file : Damage, content : {NoContent}]

RecoveryInit ==
    /\ save \in Artifact
    /\ loaded = NoContent
    /\ steps = <<>>
    /\ state = "Idle"
    /\ version = 0
    /\ phase = "World"
    /\ next = 1
    /\ applied = <<>>
    /\ outcome = "none"
    /\ restored = 0

content == save.content

Ends(verdict) == outcome' = verdict /\ state' = "Failed"

---------------------------------------------------------------------------
(* SaveMigrator.                                                           *)

\* The step that is not advancing is rejected; one that leaves the same version
\* replaces the earlier one.
Register(from, to) ==
    /\ state = "Idle"
    /\ to > from
    /\ steps' = [v \in DOMAIN steps \cup {from} |-> IF v = from THEN to ELSE steps[v]]
    /\ UNCHANGED <<save, loaded, state, version, phase, next, applied, outcome, restored>>

\* SaveMigrator::CanMigrate, the dry run.
CanMigrate(from, to) ==
    LET reaches[v \in Version] ==
            v = to \/ (v < to /\ v \in DOMAIN steps /\ steps[v] > v /\ reaches[steps[v]])
    IN  reaches[from]

\* Mutant: a step may go past the target.
StepFitsAny(v) == v \in DOMAIN steps /\ steps[v] > v

StepFits(v) == v \in DOMAIN steps /\ steps[v] > v /\ steps[v] <= Target

---------------------------------------------------------------------------
(* The pipeline.                                                           *)

Recover ==
    /\ state = "Idle"
    /\ state' = "Reading"
    /\ UNCHANGED <<save, loaded, steps, version, phase, next, applied, outcome, restored>>

\* Mutant: the trailer is not compared.
ParseVerdictUnchecked(file) ==
    CASE file = "absent" -> "NothingToLoad"
      [] file = "torn" -> "CorruptedSave"
      [] file = "otherFormat" -> "VersionMismatch"
      [] OTHER -> "Ok"

\* ISaveSource::Read and SaveReader::Parse.
ParseVerdict(file) ==
    CASE file = "absent" -> "NothingToLoad"
      [] file = "torn" -> "CorruptedSave"
      [] file = "otherFormat" -> "VersionMismatch"
      [] file = "altered" -> "ChecksumFailure"
      [] OTHER -> "Ok"

Parse ==
    /\ state = "Reading"
    /\ IF ParseVerdict(save.file) = "Ok"
       THEN state' = "Validating" /\ loaded' = content /\ UNCHANGED outcome
       ELSE Ends(ParseVerdict(save.file)) /\ UNCHANGED loaded
    /\ UNCHANGED <<save, steps, version, phase, next, applied, restored>>

\* SaveIntegrityValidator::ValidateRegistry and ValidateReferences.
RegistryAscends(c) ==
    \A i \in DOMAIN c.entities :
        c.entities[i].id # 0 /\ (i > 1 => c.entities[i].id > c.entities[i - 1].id)

ReferencesResolve(c) ==
    LET present == {0} \cup {c.entities[j].id : j \in DOMAIN c.entities}
    IN  /\ \A i \in DOMAIN c.entities : c.entities[i].ref \in present
        /\ \A i \in DOMAIN c.players : c.players[i] \in present

\* Counts, registry, references, version, in this order.  The candidate takes
\* its compatibility from the build version and its world from the save; a world
\* other than the build's is MigrationRequired, which passes.
IntegrityVerdict(c) ==
    CASE c.miscounted -> "IntegrityFailure"
      [] ~c.miscounted /\ ~RegistryAscends(c) -> "IntegrityFailure"
      [] ~c.miscounted /\ RegistryAscends(c) /\ ~ReferencesResolve(c) -> "MissingData"
      [] OTHER -> IF c.build # Compatibility THEN "VersionMismatch" ELSE "Ok"

\* DetectVersion is the build version.
Validate ==
    /\ state = "Validating"
    /\ IF IntegrityVerdict(loaded) = "Ok"
       THEN state' = "Migrating" /\ version' = loaded.build /\ UNCHANGED outcome
       ELSE Ends(IntegrityVerdict(loaded)) /\ UNCHANGED version
    /\ UNCHANGED <<save, loaded, steps, phase, next, applied, restored>>

\* A registered step transforms the loaded save in place, and may fail with an outcome
\* of its own.  Nothing validates what it leaves.
MigrateStep ==
    /\ state = "Migrating" /\ version < Target /\ StepFits(version)
    /\ \/ version' = steps[version] /\ UNCHANGED <<state, outcome>>
       \/ Ends("StepFailed") /\ UNCHANGED version
    /\ loaded' \in {loaded} \cup Rewritten
    /\ UNCHANGED <<save, steps, phase, next, applied, restored>>

\* The version the walk starts from is that of the save as it was read.
NoPath ==
    /\ state = "Migrating"
    /\ content.build > Target \/ (version < Target /\ ~StepFits(version))
    /\ Ends("VersionUnsupported")
    /\ UNCHANGED <<save, loaded, steps, version, phase, next, applied, restored>>

\* The loop ends at the target: from here on records are applied.
Migrated ==
    /\ state = "Migrating"
    /\ content.build <= Target /\ version >= Target
    /\ state' = "Restoring"
    /\ UNCHANGED <<save, loaded, steps, version, phase, next, applied, outcome, restored>>

Records(p) ==
    CASE p = "World" -> <<"world", "environment">>
      [] p = "Registry" -> loaded.entities
      [] p = "Players" -> loaded.players
      [] p = "ALife" -> loaded.alife
      [] OTHER -> <<"scheduler">>

\* Mutant: the players come before their entities.
PhaseAfterPlayersFirst(p) ==
    CASE p = "World" -> "Players"
      [] p = "Players" -> "Registry"
      [] p = "Registry" -> "ALife"
      [] p = "ALife" -> "Scheduler"
      [] OTHER -> "Complete"
PhaseAfter(p) ==
    CASE p = "World" -> "Registry"
      [] p = "Registry" -> "Players"
      [] p = "Players" -> "ALife"
      [] p = "ALife" -> "Scheduler"
      [] OTHER -> "Complete"

\* One record to its sink.
Apply ==
    /\ state = "Restoring" /\ next <= Len(Records(phase))
    /\ applied' = Append(applied, [phase |-> phase, record |-> Records(phase)[next]])
    /\ next' = next + 1
    /\ UNCHANGED <<save, loaded, steps, state, version, phase, outcome, restored>>

\* Mutant: the restorer goes on with the next record.
RefusedSkipped == next' = next + 1 /\ UNCHANGED <<state, outcome>>

\* The restorer returns what the sink said, and the pipeline stops.
Refused == Ends("PartialRecovery") /\ UNCHANGED next

SinkRefuses ==
    /\ state = "Restoring" /\ next <= Len(Records(phase))
    /\ Refused
    /\ UNCHANGED <<save, loaded, steps, version, phase, applied, restored>>

PhaseDone ==
    /\ state = "Restoring" /\ next > Len(Records(phase))
    /\ phase' = PhaseAfter(phase)
    /\ next' = 1
    /\ restored' = IF phase = "Registry" THEN Len(loaded.entities) ELSE restored
    /\ IF phase = "Scheduler" THEN state' = "Completed" /\ outcome' = "Ok"
                              ELSE UNCHANGED <<state, outcome>>
    /\ UNCHANGED <<save, loaded, steps, version, applied>>

RecoveryNext ==
    \/ \E from, to \in Version : Register(from, to)
    \/ Recover \/ Parse \/ Validate
    \/ MigrateStep \/ NoPath \/ Migrated
    \/ Apply \/ SinkRefuses \/ PhaseDone

RecoverySpec == RecoveryInit /\ [][RecoveryNext]_recoveryVars

---------------------------------------------------------------------------
(* Properties.                                                             *)

RecoveryTypeOK ==
    /\ save \in Artifact /\ loaded \in SaveContent
    /\ DOMAIN steps \subseteq Version /\ \A v \in DOMAIN steps : steps[v] \in Version
    /\ state \in {"Idle", "Reading", "Validating", "Migrating", "Restoring",
                  "Completed", "Failed"}
    /\ version \in 0..MaxVersion
    /\ phase \in Restores \cup {"Complete"}
    /\ next \in Nat \ {0}
    /\ \A i \in DOMAIN applied : applied[i].phase \in Restores
    /\ outcome \in {"none", "Ok", "PartialRecovery"} \cup Failures
    /\ restored \in 0..MaxEntities

\* The records of the save in the order the restorers apply them.
Tagged(p) == [i \in DOMAIN Records(p) |-> [phase |-> p, record |-> Records(p)[i]]]
Everything ==
    Tagged("World") \o Tagged("Registry") \o Tagged("Players") \o Tagged("ALife")
                   \o Tagged("Scheduler")

\* Nothing reaches a sink from a file that is damaged, of another format or of
\* an incompatible build, nor from records a chain of migration steps did not
\* bring exactly to the target: the dry run and the walk agree.
OnlySoundSavesAreApplied ==
    /\ applied # <<>> => save.file = "whole" /\ ~content.miscounted
    /\ state \in {"Restoring", "Completed"} =>
          content.build = Compatibility /\ version = Target /\ CanMigrate(content.build, Target)

\* A player is never restored before the entity it names, whatever the migration
\* steps have made of the save; and where they have left it as it was read, the
\* entity is there: the phases' order and the reference check together.
PlayersFollowTheirEntity ==
    \A i \in DOMAIN applied :
        (applied[i].phase = "Players" /\ applied[i].record # 0) =>
            LET Registered(j) == /\ applied[j].phase = "Registry"
                                 /\ applied[j].record.id = applied[i].record
            IN  /\ \A j \in DOMAIN applied : Registered(j) => j < i
                /\ loaded = content => \E j \in 1..(i - 1) : Registered(j)

\* What the report says happened: the sinks have accepted a prefix of the
\* records the migration has left, all of them if and only if it says Ok, none unless it says Ok or
\* PartialRecovery; an unsupported version has no chain of steps to the target; and
\* the entities counted are all of them, each accepted, or none.
ReportIsTrue ==
    /\ RecoveryTypeOK
    /\ outcome = "Ok" <=> state = "Completed"
    /\ IsPrefix(applied, Everything)
    /\ outcome = "Ok" => applied = Everything
    /\ outcome = "PartialRecovery" => applied # Everything
    /\ outcome \in Failures => applied = <<>>
    /\ outcome = "VersionUnsupported" => ~CanMigrate(content.build, Target)
    /\ restored \in {0, Len(loaded.entities)}
    /\ \A i \in 1..restored : \E j \in DOMAIN applied :
          applied[j] = [phase |-> "Registry", record |-> loaded.entities[i]]

=============================================================================
