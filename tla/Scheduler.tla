----------------------------- MODULE Scheduler ------------------------------
(***************************************************************************)
(* The placement of services and of the named volumes they are to share,   *)
(* computed by a client from a snapshot of the cluster.                    *)
(***************************************************************************)
EXTENDS ServiceSpecs

ScheduleErrors ==
    {"InvalidServiceSpec", "DuplicateServiceName", "ConflictingVolumeDefinitions", "ExistingVolumeMismatch",
     "NoEligibleMachines", "ExistingVolumesConflict", "SharedServicePlacement", "MixedGlobalAndReplicated",
     "Internal", "PropagationAfterScheduling"}

\* inspect_cluster_state: the machines of the first query with the volumes of
\* the second, which may tell of other machines too.
InspectClusterState(members, volumes) ==
    [i \in 1..Len(members) |->
        [id |-> members[i].id, name |-> members[i].name, scheduled |-> {},
         volumes |-> {v.volume : v \in {w \in volumes : w.machine = members[i].id}}]]

(***************************************************************************)
(* Constraints and the service scheduler.                                  *)
(***************************************************************************)
PlacementAllows(spec, machine) == spec.placement = {} \/ machine.id \in spec.placement \/ machine.name \in spec.placement

\* VolumesConstraint::evaluate, of one volume that the service mounts.
HasVolume(machine, required) ==
    \/ \E existing \in machine.volumes : MatchesDockerVolume(required, existing)
    \/ \E scheduled \in machine.scheduled :
          /\ DockerVolumeName(required) = DockerVolumeName(scheduled)
          /\ \/ required.options = Unset \/ required.options.driver = Unset
             \/ LET driver == VolumeDefaults(scheduled).options.driver IN
                required.options.driver = IF driver = Unset THEN [name |-> "local", options |-> Nil] ELSE driver

EligibleMachines(state, spec) ==
    LET available == {machine \in ToSet(state) : PlacementAllows(spec, machine)
                                                 /\ \A volume \in MountedDockerVolumes(spec) : HasVolume(machine, volume)}
    IN  IF available = {} THEN Failure("NoEligibleMachines") ELSE [machines |-> available]

(***************************************************************************)
(* VolumeScheduler::new.                                                   *)
(***************************************************************************)
Normal(volume) == [VolumeDefaults(volume) EXCEPT !.name = DockerVolumeName(volume)]
NormalVolumes(spec) == {Normal(volume) : volume \in MountedDockerVolumes(spec)}
AllVolumes(specs) == UNION {NormalVolumes(specs[i]) : i \in 1..Len(specs)}
FirstWith(specs, name) == Min({i \in 1..Len(specs) : \E v \in NormalVolumes(specs[i]) : v.name = name})

\* What is wrong with the i-th service, after the ones before it.
SpecError(specs, i) ==
    IF ~ServiceValid(specs[i]) THEN "InvalidServiceSpec"
    ELSE IF \E j \in 1..(i - 1) : specs[j].name = specs[i].name THEN "DuplicateServiceName"
    ELSE IF \E v \in NormalVolumes(specs[i]), w \in AllVolumes(SubSeq(specs, 1, i)) :
                v.name = w.name /\ ~VolumesEquivalent(v, w) THEN "ConflictingVolumeDefinitions"
    ELSE "none"

VolumeScheduler(state, specs) ==
    LET names == {v.name : v \in AllVolumes(specs)}
        mounting == SelectSeq(specs, LAMBDA spec : MountedDockerVolumes(spec) # {})
        wrong == {i \in 1..Len(specs) : SpecError(specs, i) # "none"}
        volume_specs == [name \in names |-> CHOOSE v \in NormalVolumes(specs[FirstWith(specs, name)]) : v.name = name]
    IN  IF wrong # {} THEN Failure(SpecError(specs, Min(wrong)))
        ELSE IF \E machine \in ToSet(state) : \E existing \in machine.volumes :
                    existing.name \in names /\ ~MatchesDockerVolume(volume_specs[existing.name], existing)
             THEN Failure("ExistingVolumeMismatch")
        ELSE [state |-> state,
              service_specs |-> mounting,
              volume_specs |-> volume_specs,
              volume_services |-> [name \in names |->
                {spec.name : spec \in {s \in ToSet(mounting) : \E v \in NormalVolumes(s) : v.name = name}}],
              existing |-> [name \in names |->
                {machine.id : machine \in {n \in ToSet(state) : \E v \in n.volumes : v.name = name}}]]

IsVolumeForGlobalService(vs, volume) ==
    \E spec \in ToSet(vs.service_specs) : spec.name \in vs.volume_services[volume] /\ spec.mode = "global"
IsVolumeShared(vs, volume) ==
    IsVolumeForGlobalService(vs, volume)
    /\ \E spec \in ToSet(vs.service_specs) : spec.name \in vs.volume_services[volume] /\ spec.mode # "global"

(***************************************************************************)
(* propagate_constraints: the services that share a volume which is not    *)
(* placed yet get the same machines, until nothing changes.                *)
(***************************************************************************)
Volumes(vs) == SetToSortSeq(DOMAIN vs.volume_specs, <)
Common(vs, eligible, volume) == {m \in UNION Range(eligible) : \A service \in vs.volume_services[volume] : m \in eligible[service]}

Narrow(vs, eligible, volume, skipped) ==
    IF IsFailure(eligible) \/ volume \in skipped THEN eligible
    ELSE LET common == Common(vs, eligible.of, volume) IN
         IF common = {} THEN Failure("SharedServicePlacement")
         ELSE [of |-> [s \in DOMAIN eligible.of |-> IF s \in vs.volume_services[volume] THEN common ELSE eligible.of[s]]]

\* Mutant: one pass over the volumes.
PropagateOnce(vs, eligible, skipped) ==
    FoldLeft(LAMBDA e, volume : Narrow(vs, e, volume, skipped), eligible, Volumes(vs))

RECURSIVE Propagate(_, _, _)
Propagate(vs, eligible, skipped) ==
    LET next == FoldLeft(LAMBDA e, volume : Narrow(vs, e, volume, skipped), eligible, Volumes(vs)) IN
    IF IsFailure(next) \/ next = eligible THEN next ELSE Propagate(vs, next, skipped)

(***************************************************************************)
(* VolumeScheduler::schedule.                                              *)
(***************************************************************************)
\* A service that uses a volume which exists must be where the volume is.
NarrowExisting(vs, eligible, volume) ==
    IF IsFailure(eligible) \/ vs.existing[volume] = {} \/ IsVolumeForGlobalService(vs, volume) THEN eligible
    ELSE IF \E s \in vs.volume_services[volume] : eligible.of[s] \cap vs.existing[volume] = {}
         THEN Failure("ExistingVolumesConflict")
    ELSE [of |-> [s \in DOMAIN eligible.of |->
                    IF s \in vs.volume_services[volume] THEN eligible.of[s] \cap vs.existing[volume] ELSE eligible.of[s]]]

InitiallyEligible(vs) ==
    LET machines(spec) == EligibleMachines(vs.state, [spec EXCEPT !.mounts = Slice(<<>>)])
        specOf(name) == CHOOSE spec \in ToSet(vs.service_specs) : spec.name = name
    IN  IF \E spec \in ToSet(vs.service_specs) : IsFailure(machines(spec)) THEN Failure("NoEligibleMachines")
        ELSE FoldLeft(LAMBDA e, volume : NarrowExisting(vs, e, volume),
                [of |-> [name \in {spec.name : spec \in ToSet(vs.service_specs)} |->
                            {m.id : m \in machines(specOf(name)).machines}]],
                Volumes(vs))

Placed(vs) == {v \in DOMAIN vs.volume_specs : IsVolumeForGlobalService(vs, v) \/ vs.existing[v] # {}}

\* Mutant: a global volume goes to the machines of one service that uses it.
GlobalMachinesFirst(vs, eligible, volume) == eligible[Min(vs.volume_services[volume])]

GlobalMachines(vs, eligible, volume) == UNION {eligible[s] : s \in vs.volume_services[volume]}

\* One turn of the loop over the volumes: acc has the eligible machines, the
\* volumes placed, and the pairs of a machine and a volume scheduled.
ScheduleVolume(vs, acc, volume) ==
    IF IsFailure(acc) THEN acc
    ELSE LET services == vs.volume_services[volume]
             global == IsVolumeForGlobalService(vs, volume)
             machines == IF global THEN GlobalMachines(vs, acc.of, volume) ELSE acc.of[Min(services)]
             first == Min(machines)
             moved == [of |-> [s \in DOMAIN acc.of |-> IF s \in services THEN {first} ELSE acc.of[s]]]
             propagated == Propagate(vs, moved, acc.placed \cup {volume})
         IN  IF machines = {} THEN Failure("Internal")
             ELSE IF global THEN [acc EXCEPT !.scheduled = @ \cup ((machines \ vs.existing[volume]) \X {volume})]
             ELSE IF vs.existing[volume] # {} THEN acc
             ELSE IF IsFailure(propagated) THEN Failure("PropagationAfterScheduling")
             ELSE [of |-> propagated.of, placed |-> acc.placed \cup {volume},
                   scheduled |-> acc.scheduled \cup {<<first, volume>>}]

ScheduleVolumes(vs) ==
    LET eligible == InitiallyEligible(vs) IN
    IF IsFailure(eligible) THEN eligible
    ELSE IF \E v \in DOMAIN vs.volume_specs : IsVolumeShared(vs, v) THEN Failure("MixedGlobalAndReplicated")
    ELSE LET settled == Propagate(vs, eligible, Placed(vs)) IN
         IF IsFailure(settled) THEN settled
         ELSE FoldLeft(LAMBDA acc, volume : ScheduleVolume(vs, acc, volume),
                       [of |-> settled.of, placed |-> Placed(vs), scheduled |-> {}], Volumes(vs))

\* The state with the scheduled volumes, or an error.
Schedule(state, specs) ==
    LET vs == VolumeScheduler(state, specs) IN
    IF IsFailure(vs) THEN vs
    ELSE IF vs.service_specs = <<>> THEN [state |-> state, scheduled |-> {}]
    ELSE LET made1 == ScheduleVolumes(vs) IN
         IF IsFailure(made1) THEN made1
         ELSE [scheduled |-> made1.scheduled,
               state |-> [i \in 1..Len(state) |->
                 [state[i] EXCEPT !.scheduled = @ \cup {vs.volume_specs[p[2]] : p \in {q \in made1.scheduled : q[1] = state[i].id}}]]]

-----------------------------------------------------------------------------
\* The volumes and machines of the deployment, without the algorithm.
Needs(spec) == {v.name : v \in NormalVolumes(spec)}
Has(state, machine, volume) == \E v \in machine.volumes : v.name = volume
Exists(state, volume) == \E machine \in ToSet(state) : Has(state, machine, volume)

\* A placement puts every volume that exists nowhere on one machine, and then
\* every service that is not global has a machine that it may run on with all
\* of its volumes.
PlacementExists(state, specs) ==
    LET missing1 == {v \in UNION {Needs(specs[i]) : i \in 1..Len(specs)} : ~Exists(state, v)}
        mounting == {specs[i] : i \in {j \in 1..Len(specs) : Needs(specs[j]) # {}}}
    IN  \E home \in [missing1 -> ToSet(state)] :
            \A spec \in mounting : \E machine \in ToSet(state) :
                /\ PlacementAllows(spec, machine)
                /\ spec.mode # "global" =>
                      \A v \in Needs(spec) : IF v \in missing1 THEN home[v] = machine ELSE Has(state, machine, v)

\* The service writes the driver of each of its volumes as the first service with
\* the volume does. What counts as the same volume when they are compared, no
\* options and empty ones or no name and "local", is told apart by the constraint
\* (constraint.rs:72).
WritesAlike(specs, spec) ==
    \A v \in MountedDockerVolumes(spec) :
        \/ v.options = Unset \/ v.options.driver = Unset
        \/ \E w \in NormalVolumes(specs[FirstWith(specs, DockerVolumeName(v))]) :
              w.name = DockerVolumeName(v) /\ v.options.driver = w.options.driver

\* A schedule is right: every service that writes its drivers like the first one
\* with the volume then has machines with all its volumes, a global service on
\* every machine that it may run on; a volume of other services is made on one
\* machine only, and not where one exists; a schedule is refused for the lack of
\* a machine only if there is no placement; and the errors that the code calls
\* bugs, or unexpected, do not come up.
ScheduleIsRight(state, specs) ==
    LET result == Schedule(state, specs) IN
    IF IsFailure(result)
    THEN /\ result.error \in ScheduleErrors \ {"Internal", "PropagationAfterScheduling"}
         /\ result.error \in {"NoEligibleMachines", "ExistingVolumesConflict", "SharedServicePlacement"} =>
               ~PlacementExists(state, specs)
    ELSE /\ \A i \in 1..Len(specs) : LET spec == specs[i] IN
              Needs(spec) # {} =>
                /\ WritesAlike(specs, spec) => ~IsFailure(EligibleMachines(result.state, spec))
                /\ WritesAlike(specs, spec) /\ spec.mode = "global" =>
                     EligibleMachines(result.state, spec).machines
                     = {m \in ToSet(result.state) : PlacementAllows(spec, m)}
                /\ spec.mode # "global" =>
                     \A p \in result.scheduled : p[2] \in Needs(spec) =>
                        ~Exists(state, p[2]) /\ \A q \in result.scheduled : q[2] = p[2] => q = p
         /\ \A p \in result.scheduled : \E i \in 1..Len(specs) : p[2] \in Needs(specs[i])
=============================================================================
