------------------------------ MODULE Services ------------------------------
(***************************************************************************)
(* The three registries of the core: ServiceRegistry, FrameDispatcher and  *)
(* ModuleRegistry.  A service or a subscriber is its name.  Every operator *)
(* on the registries is the successful call; what makes the call fail is   *)
(* named beside it.                                                        *)
(***************************************************************************)
EXTENDS Naturals, Sequences, FiniteSets, SequencesExt

VARIABLES
    services,     \* ServiceRegistry: the names, in the order of registration
    initialized,  \* the services whose entry is marked initialized
    subscribers,  \* FrameDispatcher: [who, order] in the order of dispatch
    turn,         \* the subscriber Dispatch comes to next; 0: not dispatching
    modules       \* ModuleRegistry: of each declared module, is it implemented

registries == <<services, initialized, subscribers, turn, modules>>

RegistriesInit ==
    /\ services = <<>>
    /\ initialized = {}
    /\ subscribers = <<>>
    /\ turn = 0
    /\ modules = <<>>

---------------------------------------------------------------------------
(* ServiceRegistry.                                                        *)

\* The type and the name of a service go together.
AlreadyRegistered(n) == n \in ToSet(services)

Register(n) == services' = Append(services, n)

\* What Dependencies() of each service names: an order of registration, nothing more.
Producers == {"World", "EntityRegistry", "BubbleManager", "TransitionManager"}

Dependencies ==
    [World |-> {}, EntityRegistry |-> {}, WorldQueries |-> {"World"},
     Environment |-> {"World"}, Session |-> {},
     BubbleManager |-> {"World", "EntityRegistry"},
     TransitionManager |-> {"World", "EntityRegistry", "BubbleManager"},
     Transport |-> {}, MessageRegistry |-> {}, Networking |-> Producers,
     PlayerManager |-> Producers \cup {"Networking"},
     SnapshotManager |-> Producers \cup {"PlayerManager"},
     Replication |-> Producers \cup {"PlayerManager", "Networking", "SnapshotManager"},
     Persistence |-> Producers \cup {"PlayerManager", "Networking", "SnapshotManager",
                                     "Replication"},
     Scripting |-> Producers \cup {"PlayerManager"},
     Plugins |-> Producers \cup {"PlayerManager"}]

\* ValidateDependencies: each dependency of a service is registered before it.
DependenciesInOrder ==
    \A i \in DOMAIN services :
        Dependencies[services[i]] \subseteq {services[j] : j \in 1..(i - 1)}

Pending  == {i \in DOMAIN services : services[i] \notin initialized}
Finished == {i \in DOMAIN services : services[i] \in initialized}

\* Mutant: services are shut down in the order they were initialized.
FirstInitialized == services[CHOOSE i \in Finished : \A j \in Finished : i <= j]

\* The service InitializeAll comes to next, and the one ShutdownAll comes to next.
FirstPending == services[CHOOSE i \in Pending : \A j \in Pending : i <= j]
LastInitialized == services[CHOOSE i \in Finished : \A j \in Finished : j <= i]

---------------------------------------------------------------------------
(* FrameDispatcher.                                                        *)

\* A subscriber, or its key, is there already.
SubscriptionTaken(who, order) ==
    \E i \in DOMAIN subscribers : subscribers[i].who = who \/ subscribers[i].order = order

\* Mutant: a new subscriber is simply appended.
SubscribeLast(who, order) ==
    subscribers' = Append(subscribers, [who |-> who, order |-> order])

\* Inserted before the first subscriber whose key is not below its own.
Subscribe(who, order) ==
    LET below == {i \in DOMAIN subscribers : subscribers[i].order < order} IN
    subscribers' = InsertAt(subscribers, Cardinality(below) + 1,
                            [who |-> who, order |-> order])

\* A subscriber that is not there is a warning in the log.
Unsubscribe(who) ==
    LET found == {i \in DOMAIN subscribers : subscribers[i].who = who} IN
    subscribers' = IF found = {} THEN subscribers
                   ELSE RemoveAt(subscribers, CHOOSE i \in found : \A j \in found : i <= j)

---------------------------------------------------------------------------
(* ModuleRegistry.                                                         *)

Declare(names) == [name \in names |-> FALSE]
AttachImplementation(declared, name) == [declared EXCEPT ![name] = TRUE]
=============================================================================
