--------------------------- MODULE Bootstrap_proofs ---------------------------
(***************************************************************************)
(* Proofs about Bootstrap, for any configuration files, any weather and    *)
(* any number of starts and frames.                                        *)
(***************************************************************************)
EXTENDS Bootstrap, FiniteSetTheorems, SequenceTheorems, WellFoundedInduction, TLAPS

-----------------------------------------------------------------------------
(***************************************************************************)
(* The inductive invariant.                                                *)
(***************************************************************************)

\* Who a start has come to in the steps before step k.
Went(do, k) == {StartUp[j].who : j \in {i \in 1..(k - 1) : StartUp[i].do = do}}

Subscription(step) == [who |-> step.who, order |-> step.key]
Subscribed(k) ==
    {Subscription(StartUp[j]) : j \in {i \in 1..(k - 1) : StartUp[i].do = "subscribe"}}

\* The place of InitializeAll in the table.
AllServices == 59

\* What the root is doing, and what it leaves alone meanwhile.
Placed ==
    /\ stage \in {"off", "running"} => at = 0
    /\ stage = "starting" => at \in 1..Len(StartUp)
    /\ stage = "unwinding" => at = AllServices
    /\ stage = "stopping" => at \in DOMAIN TearDown
    /\ stage # "running" => turn = 0

\* Services are initialised in the order of their registration, which is one in which
\* whoever is called comes before its caller.
Ordered ==
    /\ services \in Seq(DOMAIN Dependencies)
    /\ \A i, j \in DOMAIN services : services[i] = services[j] => i = j
    /\ \A pair \in References : \A i \in DOMAIN services :
          services[i] = pair[1] => \E j \in 1..(i - 1) : services[j] = pair[2]
    /\ initialized \subseteq ToSet(services)
    /\ \A i, j \in DOMAIN services :
          i < j /\ services[j] \in initialized => services[i] \in initialized
    /\ initialized # {} => DependenciesInOrder

Entry == [who : DOMAIN Dependencies \cup {"EntityFeed"}, order : Nat]
Ascend == \A i, j \in DOMAIN subscribers : i < j => subscribers[i].order < subscribers[j].order

\* How far a start has come.
Begun ==
    stage = "starting" =>
        /\ ToSet(services) = Went("register", at)
        /\ ToSet(subscribers) = Subscribed(at) /\ Ascend
        /\ held = {what \in {"feed", "driver"} : \E j \in 1..(at - 1) : StartUp[j].do = what}
        /\ at < AllServices => initialized = {}
        /\ at > AllServices => initialized = ToSet(services)
        /\ world = IF "World" \notin initialized THEN "Created"
                   ELSE IF \E j \in 1..(at - 1) : StartUp[j].do = "world" THEN "Running"
                   ELSE "Initialized"
        /\ clock.tick = 0 /\ frames = 0

Nothings ==
    stage = "off" =>
        /\ services = <<>> /\ subscribers = <<>> /\ initialized = {} /\ held = {}
        /\ world = "Created" /\ clock.tick = 0

\* While the bridge exists everything is there, and the clock counts the frames.
Bridged ==
    /\ stage = "running" => "bridge" \in held
    /\ "bridge" \in held =>
        /\ stage = "running" \/ (stage = "stopping" /\ at = 1)
        /\ {"feed", "driver"} \subseteq held
        /\ world \in {"Running", "Paused"}
        /\ initialized = DOMAIN Dependencies
        /\ ToSet(subscribers) = Subscribed(Len(StartUp) + 1) /\ Ascend
        /\ \A i \in DOMAIN subscribers : subscribers[i].who = "World" =>
              IF turn \in 1..i THEN clock.tick + 1 = frames
              ELSE clock.tick = frames /\ (turn > i => context.tick = frames)

\* The configuration the root has accepted so far.
Accepted ==
    \A j \in DOMAIN StartUp :
       (stage = "running" \/ (stage = "starting" /\ j < at)) /\ StartUp[j].do = "config" =>
          Accepts(FileOf(StartUp[j].who), StartUp[j].who)

Inv ==
    /\ TypeOK /\ Placed /\ Ordered /\ subscribers \in Seq(Entry) /\ frames \in Nat
    /\ clock.tick \in Nat /\ Begun /\ Nothings /\ Bridged /\ Accepted

-----------------------------------------------------------------------------
(***************************************************************************)
(* The table of steps.                                                     *)
(***************************************************************************)

\* Where in the table a service is registered, and a subscriber subscribed with what key.
RegisteredAt ==
    [World |-> 9, EntityRegistry |-> 10, WorldQueries |-> 13, Environment |-> 14,
     Session |-> 17, BubbleManager |-> 18, TransitionManager |-> 21, Transport |-> 25,
     MessageRegistry |-> 26, Networking |-> 27, PlayerManager |-> 30, SnapshotManager |-> 35,
     Replication |-> 39, Persistence |-> 45, Scripting |-> 49, Plugins |-> 53]
SubscribedAt ==
    [EntityFeed |-> 12, BubbleManager |-> 19, TransitionManager |-> 22, Networking |-> 28,
     PlayerManager |-> 32, World |-> 33, SnapshotManager |-> 36, Replication |-> 40,
     Persistence |-> 46, Scripting |-> 50, Plugins |-> 54]
KeyOf ==
    [World |-> 100, EntityFeed |-> 200, PlayerManager |-> 250, BubbleManager |-> 300,
     TransitionManager |-> 350, Scripting |-> 375, SnapshotManager |-> 400,
     Replication |-> 450, Persistence |-> 500, Plugins |-> 700, Networking |-> 900]

LEMMA Places ==
    /\ DOMAIN RegisteredAt = DOMAIN Dependencies
    /\ \A s \in DOMAIN RegisteredAt : RegisteredAt[s] \in 1..58
    /\ \A pair \in References :
          /\ pair[1] \in DOMAIN RegisteredAt /\ pair[2] \in DOMAIN RegisteredAt
          /\ RegisteredAt[pair[2]] < RegisteredAt[pair[1]]
    /\ \A s, u \in DOMAIN RegisteredAt : RegisteredAt[s] = RegisteredAt[u] => s = u
    /\ DOMAIN SubscribedAt = DOMAIN KeyOf
    /\ DOMAIN KeyOf \subseteq DOMAIN Dependencies \cup {"EntityFeed"}
    /\ \A s \in DOMAIN KeyOf : SubscribedAt[s] \in 1..58 /\ KeyOf[s] \in Nat
<1>1. DOMAIN RegisteredAt = DOMAIN Dependencies
  BY DEF RegisteredAt, Dependencies
<1>2. \A s \in DOMAIN RegisteredAt : RegisteredAt[s] \in 1..58
  BY DEF RegisteredAt
<1>3. \A pair \in References :
         /\ pair[1] \in DOMAIN RegisteredAt /\ pair[2] \in DOMAIN RegisteredAt
         /\ RegisteredAt[pair[2]] < RegisteredAt[pair[1]]
  BY DEF References, RegisteredAt
<1>4. \A s, u \in DOMAIN RegisteredAt : RegisteredAt[s] = RegisteredAt[u] => s = u
  BY DEF RegisteredAt
<1>5. /\ DOMAIN SubscribedAt = DOMAIN KeyOf
      /\ DOMAIN KeyOf \subseteq DOMAIN Dependencies \cup {"EntityFeed"}
  BY DEF SubscribedAt, KeyOf, Dependencies
<1>6. \A s \in DOMAIN KeyOf : SubscribedAt[s] \in 1..58 /\ KeyOf[s] \in Nat
  BY DEF SubscribedAt, KeyOf
<1> QED
  BY <1>1, <1>2, <1>3, <1>4, <1>5, <1>6

LEMMA Wiring ==
    /\ Len(StartUp) = 63 /\ DOMAIN StartUp = 1..63
    /\ \A k \in 1..63 : StartUp[k].do = "register" =>
          \E s \in DOMAIN RegisteredAt : k = RegisteredAt[s]
    /\ \A s \in DOMAIN RegisteredAt : StartUp[RegisteredAt[s]] = Registered(s)
    /\ \A k \in 1..63 : StartUp[k].do = "subscribe" =>
          \E s \in DOMAIN SubscribedAt : k = SubscribedAt[s]
    /\ \A s \in DOMAIN SubscribedAt : StartUp[SubscribedAt[s]] = Ticked(s, KeyOf[s])
<1> USE DEF StartUp, WorldConfigs, WorldService, EntityServices, PlayerFoundation, Bubble,
            Transition, Networking, Players, Snapshot, Replicating, Saving, Scripts, Extensions,
            Presentation, Step, Config, Registered, Ticked, Cached, Do
<1>1. Len(StartUp) = 63 /\ DOMAIN StartUp = 1..63
  OBVIOUS
<1>2. \A k \in 1..63 : StartUp[k].do = "register" =>
         k \in {9, 10, 13, 14, 17, 18, 21, 25, 26, 27, 30, 35, 39, 45, 49, 53}
  BY SMTT(30)
<1>3. \A k \in {9, 10, 13, 14, 17, 18, 21, 25, 26, 27, 30, 35, 39, 45, 49, 53} :
         \E s \in DOMAIN RegisteredAt : k = RegisteredAt[s]
  BY ONLY DEF RegisteredAt
<1>4. ASSUME NEW s \in DOMAIN RegisteredAt PROVE StartUp[RegisteredAt[s]] = Registered(s)
  BY DEF RegisteredAt
<1>5. \A k \in 1..63 : StartUp[k].do = "subscribe" =>
         k \in {12, 19, 22, 28, 32, 33, 36, 40, 46, 50, 54}
  BY SMTT(30)
<1>6. \A k \in {12, 19, 22, 28, 32, 33, 36, 40, 46, 50, 54} :
         \E s \in DOMAIN SubscribedAt : k = SubscribedAt[s]
  BY ONLY DEF SubscribedAt
<1>7. ASSUME NEW s \in DOMAIN SubscribedAt PROVE StartUp[SubscribedAt[s]] = Ticked(s, KeyOf[s])
  BY DEF SubscribedAt, KeyOf, kWorld, kEntityRegistry, kPlayerLifecycle, kBubble,
         kAlifeTransition, kScripting, kReplication, kReplicationPipeline, kPersistence,
         kPlugins, kNetworking
<1> HIDE DEF StartUp, WorldConfigs, WorldService, EntityServices, PlayerFoundation, Bubble,
             Transition, Networking, Players, Snapshot, Replicating, Saving, Scripts, Extensions,
             Presentation, Step, Config, Registered, Ticked, Cached, Do
<1> QED
  BY <1>1, <1>2, <1>3, <1>4, <1>5, <1>6, <1>7

\* The other steps.
LEMMA Order ==
    \A k \in 1..63 :
       /\ StartUp[k].do = "cache" => k < 59 /\ StartUp[k].who \in DOMAIN Dependencies
       /\ StartUp[k].do = "config" => k > 5
       /\ StartUp[k].do \in ConfigFile => k < 5
       /\ StartUp[k].do = "initialize" <=> k = 59
       /\ StartUp[k].do = "modules" <=> k = 60
       /\ StartUp[k].do = "world" <=> k = 61
       /\ StartUp[k].do = "bridge" <=> k = 63
       /\ StartUp[k].do \in {"logging", "engine", "backend", "feed", "driver"} => k < 59
<1> USE DEF StartUp, WorldConfigs, WorldService, EntityServices, PlayerFoundation, Bubble,
            Transition, Networking, Players, Snapshot, Replicating, Saving, Scripts, Extensions,
            Presentation, Step, Config, Registered, Ticked, Cached, Do
<1>1. ASSUME NEW k \in 1..63
      PROVE  /\ StartUp[k].do = "config" => k > 5
             /\ StartUp[k].do \in ConfigFile => k < 5
  BY SMTT(30) DEF ConfigFile
<1>2. ASSUME NEW k \in 1..63
      PROVE  StartUp[k].do = "cache" => k < 59 /\ StartUp[k].who \in DOMAIN Dependencies
  BY SMTT(30) DEF Dependencies
<1>3. ASSUME NEW k \in 1..63
      PROVE  /\ StartUp[k].do = "initialize" <=> k = 59
             /\ StartUp[k].do = "modules" <=> k = 60
  BY SMTT(30)
<1>4. ASSUME NEW k \in 1..63
      PROVE  /\ StartUp[k].do = "world" <=> k = 61
             /\ StartUp[k].do = "bridge" <=> k = 63
  BY SMTT(30)
<1>5. ASSUME NEW k \in 1..63
      PROVE  StartUp[k].do \in {"logging", "engine", "backend", "feed", "driver"} => k < 59
  BY SMTT(30)
<1> HIDE DEF StartUp, WorldConfigs, WorldService, EntityServices, PlayerFoundation, Bubble,
             Transition, Networking, Players, Snapshot, Replicating, Saving, Scripts, Extensions,
             Presentation, Step, Config, Registered, Ticked, Cached, Do
<1> QED
  BY <1>1, <1>2, <1>3, <1>4, <1>5

LEMMA RegistrationSteps ==
    /\ \A k \in 59..64 : Went("register", k) = DOMAIN Dependencies
    /\ \A k \in 1..63 : StartUp[k].do = "register" =>
          /\ k < 59 /\ StartUp[k].who \in DOMAIN Dependencies
          /\ \A pair \in References : pair[1] = StartUp[k].who => pair[2] \in Went("register", k)
<1>1. ASSUME NEW s \in DOMAIN RegisteredAt
      PROVE  /\ RegisteredAt[s] \in 1..63 /\ RegisteredAt[s] < 59
             /\ StartUp[RegisteredAt[s]].do = "register" /\ StartUp[RegisteredAt[s]].who = s
  <2>1. RegisteredAt[s] \in 1..58
    BY Places
  <2>2. StartUp[RegisteredAt[s]] = Registered(s)
    BY Wiring
  <2> QED
    BY <2>1, <2>2 DEF Registered, Step
<1>2. ASSUME NEW k \in 59..64 PROVE Went("register", k) = DOMAIN Dependencies
  <2>1. \A j \in 1..(k - 1) : j \in 1..63
    OBVIOUS
  <2>2. \A s \in DOMAIN RegisteredAt : RegisteredAt[s] \in 1..(k - 1)
    BY <1>1
  <2>3. \A j \in 1..(k - 1) : StartUp[j].do = "register" =>
           \E s \in DOMAIN RegisteredAt : j = RegisteredAt[s]
    BY <2>1, Wiring
  <2>4. ASSUME NEW who \in Went("register", k) PROVE who \in DOMAIN RegisteredAt
    <3>1. PICK j \in 1..(k - 1) : StartUp[j].do = "register" /\ StartUp[j].who = who
      BY DEF Went
    <3>2. PICK s \in DOMAIN RegisteredAt : j = RegisteredAt[s]
      BY <2>3, <3>1
    <3> QED
      BY <1>1, <3>1, <3>2
  <2>5. ASSUME NEW s \in DOMAIN RegisteredAt PROVE s \in Went("register", k)
    BY <1>1, <2>2 DEF Went
  <2> QED
    BY <2>4, <2>5, Places
<1>3. ASSUME NEW k \in 1..63, StartUp[k].do = "register"
      PROVE  /\ k < 59 /\ StartUp[k].who \in DOMAIN Dependencies
             /\ \A pair \in References :
                   pair[1] = StartUp[k].who => pair[2] \in Went("register", k)
  <2>1. PICK s \in DOMAIN RegisteredAt : k = RegisteredAt[s]
    BY <1>3, Wiring
  <2>2. StartUp[k].who = s
    BY <1>1, <2>1
  <2>3. ASSUME NEW pair \in References, pair[1] = s PROVE pair[2] \in Went("register", k)
    <3>1. RegisteredAt[pair[2]] \in 1..(k - 1)
      BY <1>1, <2>1, <2>3, Places
    <3> QED
      BY <1>1, <3>1, Places DEF Went
  <2> QED
    BY <1>1, <2>1, <2>2, <2>3, Places
<1> QED
  BY <1>2, <1>3

LEMMA SubscriptionSteps ==
    /\ \A k \in 59..64 :
          Subscribed(k) = {[who |-> s, order |-> KeyOf[s]] : s \in DOMAIN KeyOf}
    /\ \A k \in 1..63 : StartUp[k].do = "subscribe" =>
          k < 59 /\ Subscription(StartUp[k]) \in Entry
<1>1. ASSUME NEW s \in DOMAIN KeyOf
      PROVE  /\ SubscribedAt[s] \in 1..63 /\ SubscribedAt[s] < 59
             /\ StartUp[SubscribedAt[s]].do = "subscribe"
             /\ Subscription(StartUp[SubscribedAt[s]]) = [who |-> s, order |-> KeyOf[s]]
             /\ [who |-> s, order |-> KeyOf[s]] \in Entry
  <2>1. /\ SubscribedAt[s] \in 1..58 /\ KeyOf[s] \in Nat
        /\ s \in DOMAIN Dependencies \cup {"EntityFeed"}
    BY Places
  <2>2. StartUp[SubscribedAt[s]] = Ticked(s, KeyOf[s])
    BY Wiring, Places
  <2> QED
    BY <2>1, <2>2 DEF Ticked, Step, Subscription, Entry
<1>2. ASSUME NEW k \in 59..64
      PROVE  Subscribed(k) = {[who |-> s, order |-> KeyOf[s]] : s \in DOMAIN KeyOf}
  <2>1. \A j \in 1..(k - 1) : j \in 1..63
    OBVIOUS
  <2>2. ASSUME NEW s \in DOMAIN KeyOf PROVE SubscribedAt[s] \in 1..(k - 1)
    <3>1. SubscribedAt[s] \in 1..58
      BY Places
    <3> QED
      BY <3>1
  <2>3. \A j \in 1..(k - 1) : StartUp[j].do = "subscribe" =>
           \E s \in DOMAIN KeyOf : j = SubscribedAt[s]
    BY <2>1, Wiring, Places
  <2> DEFINE all == {[who |-> s, order |-> KeyOf[s]] : s \in DOMAIN KeyOf}
  <2>4. ASSUME NEW entry \in Subscribed(k) PROVE entry \in all
    <3>1. PICK j \in 1..(k - 1) :
             StartUp[j].do = "subscribe" /\ Subscription(StartUp[j]) = entry
      BY DEF Subscribed
    <3>2. PICK s \in DOMAIN KeyOf : j = SubscribedAt[s]
      BY <2>3, <3>1
    <3> QED
      BY <1>1, <3>1, <3>2
  <2>5. ASSUME NEW entry \in all PROVE entry \in Subscribed(k)
    <3>1. PICK s \in DOMAIN KeyOf : entry = [who |-> s, order |-> KeyOf[s]]
      OBVIOUS
    <3> QED
      BY <1>1, <2>2, <3>1 DEF Subscribed
  <2> HIDE DEF all
  <2>6. Subscribed(k) = all
    BY <2>4, <2>5
  <2> QED
    BY <2>6 DEF all
<1>3. ASSUME NEW k \in 1..63, StartUp[k].do = "subscribe"
      PROVE  k < 59 /\ Subscription(StartUp[k]) \in Entry
  <2>1. PICK s \in DOMAIN KeyOf : k = SubscribedAt[s]
    BY <1>3, Wiring, Places
  <2> QED
    BY <1>1, <2>1
<1> QED
  BY <1>2, <1>3

\* What one step adds.
LEMMA OneStepFurther ==
    ASSUME NEW k \in 1..63
    PROVE  /\ \A do : Went(do, k + 1) = Went(do, k) \cup
                          (IF StartUp[k].do = do THEN {StartUp[k].who} ELSE {})
           /\ Subscribed(k + 1) = Subscribed(k) \cup
                 (IF StartUp[k].do = "subscribe" THEN {Subscription(StartUp[k])} ELSE {})
<1>1. 1..((k + 1) - 1) = (1..(k - 1)) \cup {k}
  OBVIOUS
<1> QED
  BY <1>1 DEF Went, Subscribed

-----------------------------------------------------------------------------
(***************************************************************************)
(* The registries: sequences, and the first and the last of a set.         *)
(***************************************************************************)

LEMMA LeastExists ==
    ASSUME NEW S \in SUBSET Nat, S # {}
    PROVE  \E m \in S : \A k \in S : m <= k
<1>1. PICK m \in S : \A k \in S : ~(<<k, m>> \in OpToRel(<, Nat))
  BY NatLessThanWellFounded, WFMin
<1>2. \A k \in S : ~(k < m)
  BY <1>1 DEF OpToRel
<1>3. \A k \in S : m <= k
  BY <1>2
<1> QED
  BY <1>3

LEMMA GreatestExists ==
    ASSUME NEW n \in Nat, NEW S \in SUBSET (1..n), S # {}
    PROVE  \E m \in S : \A k \in S : k <= m
<1> DEFINE T == {n - k : k \in S}
<1>1. T \in SUBSET Nat /\ T # {}
  <2>1. \A k \in S : k \in 1..n
    OBVIOUS
  <2>2. \A k \in S : n - k \in Nat
    BY <2>1
  <2> QED
    BY <2>2
<1> HIDE DEF T
<1>2. PICK l \in T : \A k \in T : l <= k
  BY <1>1, LeastExists
<1>3. PICK m \in S : l = n - m
  BY DEF T
<1>4. \A k \in S : n - m <= n - k
  BY <1>2, <1>3 DEF T
<1>5. \A k \in S : k <= m
  BY <1>4
<1> QED
  BY <1>5

\* A set of places that leaves none out below one of its own.
LEMMA InitialPlaces ==
    ASSUME NEW n \in Nat, NEW B \in SUBSET (1..n), \A i \in B : \A j \in 1..i : j \in B
    PROVE  Cardinality(B) \in 0..n /\ B = 1..Cardinality(B)
<1>0. Cardinality(1..n) = n
  BY FS_Interval
<1>b. \A k \in B : k \in 1..n
  OBVIOUS
<1>1. CASE B = 1..n
  BY <1>0, <1>1
<1>2. CASE B # 1..n
  <2>1. PICK m \in (1..n) \ B : \A k \in (1..n) \ B : m <= k
    <3>1. (1..n) \ B \in SUBSET Nat
      OBVIOUS
    <3>2. (1..n) \ B # {}
      BY <1>2, <1>b
    <3> QED
      BY <3>1, <3>2, LeastExists
  <2>2. ASSUME NEW i \in B PROVE i \in 1..(m - 1)
    <3>1. CASE m <= i
      BY <1>b, <2>1, <3>1
    <3>2. CASE ~(m <= i)
      BY <1>b, <2>1, <3>2
    <3> QED
      BY <3>1, <3>2
  <2>3. B = 1..(m - 1)
    <3>1. ASSUME NEW i \in 1..(m - 1) PROVE i \in B
      <4>1. i \in 1..n /\ ~(m <= i)
        BY <2>1
      <4> QED
        BY <2>1, <4>1
    <3> QED
      BY <2>2, <3>1
  <2>4. Cardinality(1..(m - 1)) = m - 1
    BY <2>1, FS_Interval
  <2> QED
    BY <2>1, <2>3, <2>4
<1> QED
  BY <1>1, <1>2

LEMMA InsertAtProperties ==
    ASSUME NEW S, NEW s \in Seq(S), NEW e \in S, NEW i \in 1..(Len(s) + 1),
           NEW w, w = InsertAt(s, i, e)
    PROVE  /\ w \in Seq(S) /\ Len(w) = Len(s) + 1
           /\ \A k \in 1..(i - 1) : w[k] = s[k]
           /\ w[i] = e
           /\ \A k \in i..Len(s) : w[k + 1] = s[k]
<1> DEFINE n == Len(s)
           a == SubSeq(s, 1, i - 1)
           b == SubSeq(s, i, n)
           ae == a \o <<e>>
           v == ae \o b
<1>1. n \in Nat /\ i \in Nat /\ 1 <= i /\ i <= n + 1
  BY LenProperties
<1>2. \A k \in 1..n : s[k] \in S
  BY ElementOfSeq
<1> HIDE DEF n
<1>3. a \in Seq(S) /\ Len(a) = i - 1 /\ \A k \in 1..(i - 1) : a[k] = s[k]
  <2>1. \A k \in 1..(i - 1) : s[k] \in S
    BY <1>1, <1>2
  <2>2. /\ a \in Seq(S) /\ Len(a) = IF 1 <= i - 1 THEN i - 1 - 1 + 1 ELSE 0
        /\ \A k \in 1..(i - 1 - 1 + 1) : a[k] = s[1 + k - 1]
    BY <1>1, <2>1, SubSeqProperties
  <2> QED
    BY <1>1, <2>2
<1>4. b \in Seq(S) /\ Len(b) = n + 1 - i /\ \A k \in 1..(n + 1 - i) : b[k] = s[i + k - 1]
  <2>1. \A k \in i..n : s[k] \in S
    BY <1>1, <1>2
  <2>2. /\ b \in Seq(S) /\ Len(b) = IF i <= n THEN n - i + 1 ELSE 0
        /\ \A k \in 1..(n - i + 1) : b[k] = s[i + k - 1]
    BY <1>1, <2>1, SubSeqProperties
  <2> QED
    BY <1>1, <2>2
<1> HIDE DEF a, b
<1>5. /\ ae \in Seq(S) /\ Len(ae) = i
      /\ \A k \in 1..i : ae[k] = IF k < i THEN s[k] ELSE e
  <2>1. <<e>> \in Seq(S) /\ Len(<<e>>) = 1 /\ <<e>>[1] = e
    OBVIOUS
  <2>2. /\ ae \in Seq(S) /\ Len(ae) = Len(a) + 1
        /\ \A k \in 1..(Len(a) + 1) : ae[k] = IF k <= Len(a) THEN a[k] ELSE <<e>>[k - Len(a)]
    BY <1>3, <2>1, ConcatProperties
  <2> HIDE DEF ae
  <2>3. ASSUME NEW k \in 1..i PROVE ae[k] = IF k < i THEN s[k] ELSE e
    <3>1. CASE k < i
      BY <1>1, <1>3, <2>2, <3>1
    <3>2. CASE k = i
      <4>1. ~(k <= Len(a)) /\ k - Len(a) = 1 /\ k \in 1..(Len(a) + 1)
        BY <1>1, <1>3, <3>2
      <4> QED
        BY <2>1, <2>2, <3>2, <4>1
    <3> QED
      BY <1>1, <3>1, <3>2
  <2> QED
    BY <1>1, <1>3, <2>2, <2>3
<1> HIDE DEF ae
<1>6. /\ v \in Seq(S) /\ Len(v) = n + 1
      /\ \A k \in 1..(n + 1) : v[k] = IF k <= i THEN ae[k] ELSE b[k - i]
  <2>1. /\ v \in Seq(S) /\ Len(v) = Len(ae) + Len(b)
        /\ \A k \in 1..(Len(ae) + Len(b)) : v[k] = IF k <= Len(ae) THEN ae[k] ELSE b[k - Len(ae)]
    BY <1>4, <1>5, ConcatProperties
  <2>2. Len(ae) = i /\ Len(ae) + Len(b) = n + 1
    BY <1>1, <1>4, <1>5
  <2> HIDE DEF v
  <2> QED
    BY <2>1, <2>2
<1>7. w = v
  BY DEF InsertAt, v, ae, a, b, n
<1> HIDE DEF v
<1>8. ASSUME NEW k \in 1..(i - 1) PROVE v[k] = s[k]
  <2>1. k \in 1..(n + 1) /\ k <= i /\ k \in 1..i /\ k < i
    BY <1>1
  <2> QED
    BY <1>5, <1>6, <2>1
<1>9. v[i] = e
  <2>1. i \in 1..(n + 1) /\ i <= i /\ i \in 1..i /\ ~(i < i)
    BY <1>1
  <2> QED
    BY <1>5, <1>6, <2>1
<1>10. ASSUME NEW k \in i..n PROVE v[k + 1] = s[k]
  <2>1. /\ k + 1 \in 1..(n + 1) /\ ~(k + 1 <= i)
        /\ (k + 1) - i \in 1..(n + 1 - i) /\ i + ((k + 1) - i) - 1 = k
    BY <1>1
  <2> QED
    BY <1>4, <1>6, <2>1
<1> QED
  BY <1>6, <1>7, <1>8, <1>9, <1>10 DEF n

LEMMA RemoveAtType ==
    ASSUME NEW S, NEW s \in Seq(S), NEW i \in 1..Len(s)
    PROVE  RemoveAt(s, i) \in Seq(S)
<1>1. Len(s) \in Nat /\ i \in Nat /\ 1 <= i /\ i <= Len(s)
  BY LenProperties
<1>2. \A k \in 1..Len(s) : s[k] \in S
  BY ElementOfSeq
<1>3. SubSeq(s, 1, i - 1) \in Seq(S)
  <2>1. \A k \in 1..(i - 1) : s[k] \in S
    BY <1>1, <1>2
  <2> QED
    BY <1>1, <2>1, SubSeqProperties
<1>4. SubSeq(s, i + 1, Len(s)) \in Seq(S)
  <2>1. \A k \in (i + 1)..Len(s) : s[k] \in S
    BY <1>1, <1>2
  <2> QED
    BY <1>1, <2>1, SubSeqProperties
<1> QED
  BY <1>3, <1>4, ConcatProperties DEF RemoveAt

\* A subscriber comes where its key belongs.
LEMMA SubscribeEffect ==
    ASSUME subscribers \in Seq(Entry), Ascend, NEW who, NEW key,
           [who |-> who, order |-> key] \in Entry,
           ~SubscriptionTaken(who, key), Subscribe(who, key)
    PROVE  /\ subscribers' \in Seq(Entry) /\ Ascend'
           /\ ToSet(subscribers') = ToSet(subscribers) \cup {[who |-> who, order |-> key]}
<1> DEFINE n     == Len(subscribers)
           entry == [who |-> who, order |-> key]
           below == {i \in DOMAIN subscribers : subscribers[i].order < key}
           c     == Cardinality(below)
<1>1. n \in Nat /\ DOMAIN subscribers = 1..n
  BY LenProperties
<1>2. \A i \in 1..n : subscribers[i] \in Entry /\ subscribers[i].order \in Nat
  <2> SUFFICES ASSUME NEW i \in 1..n
               PROVE  subscribers[i] \in Entry /\ subscribers[i].order \in Nat
    OBVIOUS
  <2>1. subscribers[i] \in Entry
    BY ElementOfSeq
  <2> QED
    BY <2>1 DEF Entry
<1>3. key \in Nat /\ entry.order = key
  BY DEF Entry
<1>4. \A i \in 1..n : subscribers[i].order # key
  BY <1>1 DEF SubscriptionTaken
<1>5. \A i, j \in 1..n : i < j => subscribers[i].order < subscribers[j].order
  BY <1>1 DEF Ascend
<1>6. below \in SUBSET (1..n)
  BY <1>1
<1>7. \A i \in below : \A j \in 1..i : j \in below
  <2> SUFFICES ASSUME NEW i \in below, NEW j \in 1..i PROVE j \in below
    OBVIOUS
  <2>1. i \in 1..n /\ j \in 1..n /\ subscribers[i].order < key
    BY <1>1
  <2>2. j = i \/ subscribers[j].order < subscribers[i].order
    BY <1>5, <2>1
  <2> QED
    BY <1>1, <1>2, <1>3, <2>1, <2>2
<1> HIDE DEF below
<1>8. c \in 0..n /\ below = 1..c
  BY <1>1, <1>6, <1>7, InitialPlaces
<1> HIDE DEF c, n
<1>9. subscribers' = InsertAt(subscribers, c + 1, entry)
  BY DEF Subscribe, below, c
<1>10. entry \in Entry
  OBVIOUS
<1> HIDE DEF entry
<1> DEFINE w == subscribers'
<1>11. /\ w \in Seq(Entry) /\ Len(w) = n + 1
       /\ \A k \in 1..c : w[k] = subscribers[k]
       /\ w[c + 1] = entry
       /\ \A k \in (c + 1)..n : w[k + 1] = subscribers[k]
  <2>1. c + 1 \in 1..(Len(subscribers) + 1) /\ (c + 1) - 1 = c
    BY <1>1, <1>8 DEF n
  <2>2. subscribers \in Seq(Entry)
    OBVIOUS
  <2>3. w = InsertAt(subscribers, c + 1, entry)
    BY <1>9
  <2> HIDE DEF w
  <2>4. /\ w \in Seq(Entry) /\ Len(w) = Len(subscribers) + 1
        /\ \A k \in 1..((c + 1) - 1) : w[k] = subscribers[k]
        /\ w[c + 1] = entry
        /\ \A k \in (c + 1)..Len(subscribers) : w[k + 1] = subscribers[k]
    BY ONLY <1>10, <2>1, <2>2, <2>3, InsertAtProperties
  <2> QED
    BY <2>1, <2>4 DEF n
<1> HIDE DEF w
<1>12. DOMAIN w = 1..(n + 1)
  BY <1>11, LenProperties
<1>13. \A k \in 1..c : subscribers[k].order < key
  BY <1>8 DEF below
<1>14. \A k \in (c + 1)..n : key < subscribers[k].order
  <2> SUFFICES ASSUME NEW k \in (c + 1)..n PROVE key < subscribers[k].order
    OBVIOUS
  <2>1. k \in 1..n /\ k \notin below
    BY <1>1, <1>8
  <2> QED
    BY <1>1, <1>2, <1>3, <1>4, <2>1 DEF below
<1>a. \A k \in 1..(n + 1) :
         \/ k \in 1..c /\ k \in 1..n /\ w[k] = subscribers[k]
         \/ k = c + 1 /\ w[k] = entry
         \/ k - 1 \in (c + 1)..n /\ k - 1 \in 1..n /\ w[k] = subscribers[k - 1]
  <2> SUFFICES ASSUME NEW k \in 1..(n + 1)
               PROVE  \/ k \in 1..c /\ k \in 1..n /\ w[k] = subscribers[k]
                      \/ k = c + 1 /\ w[k] = entry
                      \/ /\ k - 1 \in (c + 1)..n /\ k - 1 \in 1..n
                         /\ w[k] = subscribers[k - 1]
    OBVIOUS
  <2>1. CASE k < c + 1
    BY <1>1, <1>8, <1>11, <2>1
  <2>2. CASE k = c + 1
    BY <1>11, <2>2
  <2>3. CASE k > c + 1
    <3>1. k - 1 \in (c + 1)..n /\ k - 1 \in 1..n /\ (k - 1) + 1 = k
      BY <1>1, <1>8, <2>3
    <3>2. w[(k - 1) + 1] = subscribers[k - 1]
      BY <1>11, <3>1
    <3> QED
      BY <3>1, <3>2
  <2> QED
    BY <1>1, <1>8, <2>1, <2>2, <2>3
<1>15. ASSUME NEW i \in 1..(n + 1), NEW j \in 1..(n + 1), i < j
       PROVE  w[i].order < w[j].order
  <2>1. CASE i \in 1..c /\ i \in 1..n /\ w[i] = subscribers[i]
    <3>1. CASE j \in 1..c /\ j \in 1..n /\ w[j] = subscribers[j]
      BY <1>5, <1>15, <2>1, <3>1
    <3>2. CASE j = c + 1 /\ w[j] = entry
      BY <1>3, <1>13, <2>1, <3>2
    <3>3. CASE j - 1 \in (c + 1)..n /\ j - 1 \in 1..n /\ w[j] = subscribers[j - 1]
      <4>1. subscribers[i].order < key /\ key < subscribers[j - 1].order
        BY <1>13, <1>14, <2>1, <3>3
      <4> QED
        BY <1>2, <1>3, <2>1, <3>3, <4>1
    <3> QED
      BY <1>a, <3>1, <3>2, <3>3
  <2>2. CASE i = c + 1 /\ w[i] = entry
    <3>1. j - 1 \in (c + 1)..n /\ w[j] = subscribers[j - 1]
      BY <1>1, <1>8, <1>a, <1>15, <2>2
    <3> QED
      BY <1>3, <1>14, <2>2, <3>1
  <2>3. CASE i - 1 \in (c + 1)..n /\ i - 1 \in 1..n /\ w[i] = subscribers[i - 1]
    <3>1. j - 1 \in 1..n /\ w[j] = subscribers[j - 1] /\ i - 1 < j - 1
      BY <1>1, <1>8, <1>a, <1>15, <2>3
    <3> QED
      BY <1>5, <2>3, <3>1
  <2> QED
    BY <1>a, <2>1, <2>2, <2>3
<1>16. ASSUME NEW k \in 1..(n + 1) PROVE w[k] \in ToSet(subscribers) \cup {entry}
  BY <1>1, <1>a DEF ToSet
<1>17. ASSUME NEW k \in 1..n PROVE \E i \in 1..(n + 1) : w[i] = subscribers[k]
  <2>1. CASE k < c + 1
    <3>1. k \in 1..(n + 1) /\ k \in 1..c
      BY <1>1, <1>8, <2>1
    <3> QED
      BY <1>11, <3>1
  <2>2. CASE ~(k < c + 1)
    <3>1. k + 1 \in 1..(n + 1) /\ k \in (c + 1)..n
      BY <1>1, <1>8, <2>2
    <3> QED
      BY <1>11, <3>1
  <2> QED
    BY <2>1, <2>2
<1>18. c + 1 \in 1..(n + 1) /\ w[c + 1] = entry
  BY <1>1, <1>8, <1>11
<1>19. ToSet(w) = ToSet(subscribers) \cup {entry}
  <2>1. ToSet(w) = {w[k] : k \in 1..(n + 1)}
    BY <1>12 DEF ToSet
  <2>2. ToSet(subscribers) = {subscribers[k] : k \in 1..n}
    BY <1>1 DEF ToSet
  <2> QED
    BY <1>16, <1>17, <1>18, <2>1, <2>2
<1> QED
  BY <1>11, <1>12, <1>15, <1>19 DEF w, entry, Ascend

LEMMA UnsubscribeEffect ==
    ASSUME subscribers \in Seq(Entry), NEW who, Unsubscribe(who)
    PROVE  subscribers' \in Seq(Entry)
<1> DEFINE found == {i \in DOMAIN subscribers : subscribers[i].who = who}
           first == CHOOSE i \in found : \A j \in found : i <= j
<1>1. Len(subscribers) \in Nat /\ DOMAIN subscribers = 1..Len(subscribers)
  BY LenProperties
<1>2. subscribers' = IF found = {} THEN subscribers ELSE RemoveAt(subscribers, first)
  BY DEF Unsubscribe
<1>3. found \in SUBSET Nat /\ found \subseteq 1..Len(subscribers)
  BY <1>1
<1> HIDE DEF found
<1>4. found # {} => first \in 1..Len(subscribers)
  BY <1>3, LeastExists
<1> HIDE DEF first
<1> QED
  BY <1>2, <1>4, RemoveAtType

\* A service comes after whoever it calls.
LEMMA RegisterEffect ==
    ASSUME Ordered, NEW who \in DOMAIN Dependencies, ~AlreadyRegistered(who), Register(who),
           initialized = {}, initialized' = {},
           \A pair \in References : pair[1] = who => pair[2] \in ToSet(services)
    PROVE  Ordered' /\ ToSet(services') = ToSet(services) \cup {who}
<1> DEFINE n == Len(services)
           w == services'
<1>1. services \in Seq(DOMAIN Dependencies) /\ n \in Nat /\ DOMAIN services = 1..n
  BY LenProperties DEF Ordered
<1>2. /\ w \in Seq(DOMAIN Dependencies) /\ Len(w) = n + 1
      /\ \A i \in 1..n : w[i] = services[i]
      /\ w[n + 1] = who
  BY <1>1, AppendProperties DEF Register
<1>3. DOMAIN w = 1..(n + 1)
  BY <1>2, LenProperties
<1>4. \A i \in 1..n : services[i] # who
  BY <1>1 DEF AlreadyRegistered, ToSet
<1> HIDE DEF n, w
<1>5. 1..(n + 1) = (1..n) \cup {n + 1}
  BY <1>1
<1>6. ToSet(w) = ToSet(services) \cup {who}
  BY <1>1, <1>2, <1>3, <1>5 DEF ToSet
<1>7. \A i, j \in DOMAIN w : w[i] = w[j] => i = j
  BY <1>1, <1>2, <1>3, <1>4, <1>5 DEF Ordered
<1>8. ASSUME NEW pair \in References, NEW i \in DOMAIN w, w[i] = pair[1]
      PROVE  \E j \in 1..(i - 1) : w[j] = pair[2]
  <2>1. CASE i \in 1..n
    <3>1. PICK j \in 1..(i - 1) : services[j] = pair[2]
      BY <1>1, <1>2, <1>8, <2>1 DEF Ordered
    <3>2. j \in 1..n
      BY <1>1, <2>1, <3>1
    <3> QED
      BY <1>2, <3>1, <3>2
  <2>2. CASE i = n + 1
    <3>1. PICK j \in 1..n : services[j] = pair[2]
      BY <1>1, <1>2, <1>8, <2>2 DEF ToSet
    <3>2. j \in 1..(i - 1)
      BY <1>1, <2>2
    <3> QED
      BY <1>2, <3>1, <3>2
  <2> QED
    BY <1>3, <1>5, <2>1, <2>2
<1>9. Ordered'
  BY <1>2, <1>7, <1>8 DEF Ordered, w
<1> QED
  BY <1>6, <1>9 DEF w

LEMMA InitializeEffect ==
    ASSUME Ordered, DependenciesInOrder, Pending # {}, services' = services,
           initialized' = initialized \cup {FirstPending}
    PROVE  Ordered' /\ FirstPending \in ToSet(services) \ initialized
<1> DEFINE m == CHOOSE i \in Pending : \A j \in Pending : i <= j
<1>1. /\ services \in Seq(DOMAIN Dependencies) /\ Len(services) \in Nat
      /\ DOMAIN services = 1..Len(services)
  BY LenProperties DEF Ordered
<1>2. Pending \in SUBSET Nat
  BY <1>1 DEF Pending
<1>3. m \in Pending /\ \A j \in Pending : m <= j
  BY <1>2, LeastExists
<1>4. FirstPending = services[m]
  BY DEF FirstPending
<1> HIDE DEF m
<1>5. m \in DOMAIN services /\ services[m] \notin initialized /\ m \in Nat
  BY <1>1, <1>3 DEF Pending
<1>6. \A i \in DOMAIN services : i < m => services[i] \in initialized
  BY <1>1, <1>3, <1>5 DEF Pending
<1>7. initialized' = initialized \cup {services[m]}
  BY <1>4
<1>8. ASSUME NEW i \in DOMAIN services, NEW j \in DOMAIN services,
             i < j, services[j] \in initialized'
      PROVE  services[i] \in initialized'
  <2>1. CASE services[j] \in initialized
    BY <1>7, <1>8, <2>1 DEF Ordered
  <2>2. CASE services[j] = services[m]
    <3>1. j = m
      BY <1>5, <2>2 DEF Ordered
    <3> QED
      BY <1>6, <1>7, <1>8, <3>1
  <2> QED
    BY <1>7, <1>8, <2>1, <2>2
<1>9. services[m] \in ToSet(services)
  BY <1>5 DEF ToSet
<1>10. initialized' \subseteq ToSet(services)
  BY <1>7, <1>9 DEF Ordered
<1>11. DependenciesInOrder'
  BY DEF DependenciesInOrder
<1>12. ToSet(services)' = ToSet(services)
  OBVIOUS
<1> QED
  BY <1>4, <1>5, <1>8, <1>9, <1>10, <1>11, <1>12 DEF Ordered

LEMMA ShutdownEffect ==
    ASSUME Ordered, Finished # {}, services' = services,
           initialized' = initialized \ {LastInitialized}
    PROVE  Ordered'
<1> DEFINE m == CHOOSE i \in Finished : \A j \in Finished : j <= i
<1>1. /\ services \in Seq(DOMAIN Dependencies) /\ Len(services) \in Nat
      /\ DOMAIN services = 1..Len(services)
  BY LenProperties DEF Ordered
<1>2. Finished \in SUBSET (1..Len(services))
  BY <1>1 DEF Finished
<1>3. m \in Finished /\ \A j \in Finished : j <= m
  BY <1>1, <1>2, GreatestExists
<1>4. LastInitialized = services[m]
  BY DEF LastInitialized
<1> HIDE DEF m
<1>5. m \in DOMAIN services /\ m \in Nat
  BY <1>1, <1>3 DEF Finished
<1>6. initialized' = initialized \ {services[m]}
  BY <1>4
<1>7. ASSUME NEW i \in DOMAIN services, NEW j \in DOMAIN services,
             i < j, services[j] \in initialized'
      PROVE  services[i] \in initialized'
  <2>1. services[i] \in initialized
    BY <1>6, <1>7 DEF Ordered
  <2>2. j \in Finished
    BY <1>6, <1>7 DEF Finished
  <2>3. i # m
    BY <1>1, <1>3, <1>5, <1>7, <2>2
  <2>4. services[i] # services[m]
    BY <1>5, <2>3 DEF Ordered
  <2> QED
    BY <1>6, <2>1, <2>4
<1>8. ToSet(services)' = ToSet(services) /\ (DependenciesInOrder => DependenciesInOrder')
  BY DEF DependenciesInOrder
<1>9. initialized' \subseteq ToSet(services)'
  BY <1>6, <1>8 DEF Ordered
<1>10. initialized' # {} => DependenciesInOrder'
  BY <1>6, <1>8 DEF Ordered
<1> QED
  BY <1>7, <1>9, <1>10 DEF Ordered

\* What is up is supported.
LEMMA OrderSupports ==
    ASSUME Ordered
    PROVE  /\ \A s \in initialized : Dependencies[s] \subseteq initialized
           /\ \A pair \in References : pair[1] \in initialized => pair[2] \in initialized
<1>1. /\ services \in Seq(DOMAIN Dependencies) /\ Len(services) \in Nat
      /\ DOMAIN services = 1..Len(services)
  BY LenProperties DEF Ordered
<1>2. ASSUME NEW i \in DOMAIN services, services[i] \in initialized, NEW j \in 1..(i - 1)
      PROVE  services[j] \in initialized
  BY <1>1, <1>2 DEF Ordered
<1>3. ASSUME NEW s \in initialized PROVE Dependencies[s] \subseteq initialized
  <2>1. PICK i \in DOMAIN services : services[i] = s
    BY DEF Ordered, ToSet
  <2>2. Dependencies[s] \subseteq {services[j] : j \in 1..(i - 1)}
    BY <2>1 DEF Ordered, DependenciesInOrder
  <2> QED
    BY <1>2, <2>1, <2>2
<1>4. ASSUME NEW pair \in References, pair[1] \in initialized PROVE pair[2] \in initialized
  <2>1. PICK i \in DOMAIN services : services[i] = pair[1]
    BY <1>4 DEF Ordered, ToSet
  <2>2. PICK j \in 1..(i - 1) : services[j] = pair[2]
    BY <2>1 DEF Ordered
  <2> QED
    BY <1>2, <1>4, <2>1, <2>2
<1> QED
  BY <1>3, <1>4
-----------------------------------------------------------------------------
(***************************************************************************)
(* The invariant is inductive.                                             *)
(***************************************************************************)

LEMMA Hands ==
    /\ StartUp[11].do = "feed" /\ StartUp[58].do = "driver"
    /\ StartUp[61].do = "world"
  BY DEF StartUp, WorldConfigs, WorldService, EntityServices, PlayerFoundation, Bubble,
         Transition, Networking, Players, Snapshot, Replicating, Saving, Scripts, Extensions,
         Presentation, Step, Config, Registered, Ticked, Cached, Do

LEMMA Dismantling ==
    /\ DOMAIN TearDown = 1..14
    /\ \A k \in 1..14 :
          /\ TearDown[k] = "bridge" <=> k = 1
          /\ TearDown[k] = "driver" <=> k = 2
          /\ TearDown[k] = "EntityFeed" <=> k = 3
          /\ TearDown[k] = "services" <=> k = 14
          /\ TearDown[k] \in DOMAIN Dependencies => k \in 4..13
  BY DEF TearDown, Dependencies

\* Nobody subscribes twice, and everybody with the key of the table.
LEMMA OneEach ==
    ASSUME subscribers \in Seq(Entry), Ascend, ToSet(subscribers) = Subscribed(64)
    PROVE  /\ \A i \in DOMAIN subscribers :
                 /\ subscribers[i].who \in DOMAIN KeyOf
                 /\ subscribers[i].order = KeyOf[subscribers[i].who]
           /\ \A s \in DOMAIN KeyOf : \E i \in DOMAIN subscribers : subscribers[i].who = s
           /\ \A i, j \in DOMAIN subscribers :
                 subscribers[i].who = subscribers[j].who => i = j
<1>1. /\ Len(subscribers) \in Nat /\ DOMAIN subscribers = 1..Len(subscribers)
      /\ ToSet(subscribers) = {[who |-> s, order |-> KeyOf[s]] : s \in DOMAIN KeyOf}
  <2>1. Len(subscribers) \in Nat /\ DOMAIN subscribers = 1..Len(subscribers)
    BY LenProperties
  <2>2. 64 \in 59..64
    OBVIOUS
  <2>3. Subscribed(64) = {[who |-> s, order |-> KeyOf[s]] : s \in DOMAIN KeyOf}
    BY ONLY <2>2, SubscriptionSteps
  <2> QED
    BY <2>1, <2>3
<1>2. ASSUME NEW i \in DOMAIN subscribers
      PROVE  /\ subscribers[i].who \in DOMAIN KeyOf
             /\ subscribers[i].order = KeyOf[subscribers[i].who]
  <2>1. subscribers[i] \in ToSet(subscribers)
    BY DEF ToSet
  <2>2. PICK s \in DOMAIN KeyOf : subscribers[i] = [who |-> s, order |-> KeyOf[s]]
    BY <1>1, <2>1
  <2> QED
    BY <2>2
<1>3. ASSUME NEW s \in DOMAIN KeyOf
      PROVE  \E i \in DOMAIN subscribers : subscribers[i].who = s
  <2>1. [who |-> s, order |-> KeyOf[s]] \in ToSet(subscribers)
    BY <1>1
  <2> QED
    BY <2>1 DEF ToSet
<1>4. ASSUME NEW i \in DOMAIN subscribers, NEW j \in DOMAIN subscribers,
             subscribers[i].who = subscribers[j].who
      PROVE  i = j
  <2>1. subscribers[i].order = subscribers[j].order
    BY <1>2, <1>4
  <2>2. subscribers[i].order \in Nat
    BY <1>2, Places
  <2>3. ~(i < j) /\ ~(j < i)
    BY <2>1, <2>2 DEF Ascend
  <2> QED
    BY <1>1, <2>3
<1> QED
  BY <1>2, <1>3, <1>4

\* What the invariant says of a start.
LEMMA InStart ==
    ASSUME Inv, stage = "starting"
    PROVE  /\ at \in 1..63 /\ turn = 0 /\ "bridge" \notin held
           /\ Now.do # "bridge" /\ Proceed => at \in 1..62 /\ at' = at + 1 /\ stage' = "starting"
<1>1. at \in 1..63 /\ turn = 0 /\ "bridge" \notin held
  BY Wiring DEF Inv, Placed, Bridged
<1>2. Now.do # "bridge" => at # 63
  BY <1>1, Order DEF Now
<1> QED
  BY <1>1, <1>2, Wiring DEF Proceed

LEMMA Unmoved ==
    ASSUME Ordered, services' = services, initialized' = initialized
    PROVE  Ordered'
<1>1. DependenciesInOrder' = DependenciesInOrder
  BY DEF DependenciesInOrder
<1>2. ToSet(services)' = ToSet(services)
  OBVIOUS
<1> QED
  BY <1>1, <1>2 DEF Ordered

\* One step of the start that is done leaves the rest as the table has it.
LEMMA Onward ==
    ASSUME Inv, stage = "starting", Now.do # "bridge", Proceed,
           ToSet(services)' = ToSet(services) \cup
               (IF Now.do = "register" THEN {Now.who} ELSE {}),
           ToSet(subscribers)' = ToSet(subscribers) \cup
               (IF Now.do = "subscribe" THEN {Subscription(Now)} ELSE {}),
           Ascend',
           held' = held \cup (IF Now.do \in {"feed", "driver"} THEN {Now.do} ELSE {}),
           initialized' = initialized,
           Now.do = "initialize" => initialized = ToSet(services),
           world' = IF Now.do = "world" THEN "Running" ELSE world,
           clock' = clock, frames' = frames, turn' = turn,
           disk' = disk \/ Now.do \in ConfigFile,
           Now.do = "config" => Accepts(FileOf(Now.who), Now.who)
    PROVE  Placed' /\ Begun' /\ Nothings' /\ Bridged' /\ Accepted'
<1>1. at \in 1..62 /\ at \in 1..63 /\ at' = at + 1 /\ stage' = "starting" /\ turn = 0
  BY InStart
<1>2. Now = StartUp[at]
  BY DEF Now
<1>3. /\ ToSet(services) = Went("register", at) /\ ToSet(subscribers) = Subscribed(at)
      /\ held = {what \in {"feed", "driver"} : \E j \in 1..(at - 1) : StartUp[j].do = what}
      /\ at < 59 => initialized = {}
      /\ at > 59 => initialized = ToSet(services)
      /\ world = IF "World" \notin initialized THEN "Created"
                 ELSE IF \E j \in 1..(at - 1) : StartUp[j].do = "world" THEN "Running"
                 ELSE "Initialized"
      /\ clock.tick = 0 /\ frames = 0
  BY DEF Inv, Begun, AllServices
<1>4. Placed'
  BY <1>1, Wiring DEF Placed
<1>5. ToSet(services)' = Went("register", at)'
  BY <1>1, <1>2, <1>3, OneStepFurther DEF Went
<1>6. ToSet(subscribers)' = Subscribed(at)'
  BY <1>1, <1>2, <1>3, OneStepFurther DEF Subscribed
<1>7. 1..(at' - 1) = (1..(at - 1)) \cup {at}
  BY <1>1
<1>8. held' = {what \in {"feed", "driver"} : \E j \in 1..(at' - 1) : StartUp[j].do = what}
  BY <1>2, <1>3, <1>7
<1>9. at' < 59 => initialized' = {}
  BY <1>1, <1>3
<1>10. at' > 59 => initialized' = ToSet(services)'
  <2>1. CASE at < 59
    BY <1>1, <2>1
  <2>2. CASE at = 59
    BY <1>1, <1>2, <2>2, Order
  <2>3. CASE at > 59
    BY <1>1, <1>2, <1>3, <2>3, RegistrationSteps
  <2> QED
    BY <1>1, <2>1, <2>2, <2>3
<1>11. world' = IF "World" \notin initialized THEN "Created"
                ELSE IF \E j \in 1..(at' - 1) : StartUp[j].do = "world" THEN "Running"
                ELSE "Initialized"
  <2>1. CASE Now.do = "world"
    <3>1. at = 61
      BY <1>1, <1>2, <2>1, Order
    <3>2. initialized = DOMAIN Dependencies
      BY <1>3, <3>1, RegistrationSteps
    <3>3. "World" \in initialized
      BY <3>2 DEF Dependencies
    <3> QED
      BY <1>2, <1>7, <2>1, <3>3
  <2>2. CASE Now.do # "world"
    BY <1>2, <1>3, <1>7, <2>2
  <2> QED
    BY <2>1, <2>2
<1>12. Begun'
  BY <1>3, <1>5, <1>6, <1>8, <1>9, <1>10, <1>11 DEF Begun, AllServices
<1>13. Nothings' /\ Bridged'
  <2>1. "bridge" \notin held'
    BY <1>8
  <2> QED
    BY <1>1, <2>1 DEF Nothings, Bridged
<1>14. Accepted'
  <2> SUFFICES ASSUME NEW j \in DOMAIN StartUp, j < at', StartUp[j].do = "config"
               PROVE  Accepts(FileOf(StartUp[j].who), StartUp[j].who)'
    BY <1>1 DEF Accepted
  <2>1. j \in 1..63
    BY Wiring
  <2>2. j > 5
    BY <2>1, Order
  <2>3. disk' = disk
    <3>1. ~(at < 5)
      BY <1>1, <2>1, <2>2
    <3>2. StartUp[at].do \notin ConfigFile
      BY <1>1, <3>1, Order
    <3> QED
      BY <1>2, <3>2
  <2>4. Accepts(FileOf(StartUp[j].who), StartUp[j].who)
    <3>1. CASE j < at
      BY <3>1 DEF Inv, Accepted
    <3>2. CASE j = at
      BY <1>2, <3>2
    <3> QED
      BY <1>1, <2>1, <3>1, <3>2
  <2> QED
    BY <2>3, <2>4 DEF FileOf
<1> QED
  BY <1>4, <1>12, <1>13, <1>14

\* The steps that move nothing but what they are for.
LEMMA OnwardAlone ==
    ASSUME Inv, stage = "starting", Now.do \notin {"bridge", "register", "subscribe"}, Proceed,
           services' = services, subscribers' = subscribers, turn' = turn,
           held' = held \cup (IF Now.do \in {"feed", "driver"} THEN {Now.do} ELSE {}),
           initialized' = initialized,
           Now.do = "initialize" => initialized = ToSet(services),
           world' = IF Now.do = "world" THEN "Running" ELSE world,
           clock' = clock, frames' = frames,
           disk' = disk \/ Now.do \in ConfigFile,
           disk' \in [ConfigFile ->
                        UNION {Contents[f] \cup {DefaultContent(f)} : f \in ConfigFile}],
           cached' \subseteq DOMAIN Dependencies,
           Now.do = "config" => Accepts(FileOf(Now.who), Now.who)
    PROVE  Inv'
<1>1. Ascend'
  <2>1. Ascend
    BY DEF Inv, Begun
  <2> QED
    BY <2>1 DEF Ascend
<1>2. ToSet(services)' = ToSet(services) /\ ToSet(subscribers)' = ToSet(subscribers)
  OBVIOUS
<1>3. Placed' /\ Begun' /\ Nothings' /\ Bridged' /\ Accepted'
  BY <1>1, <1>2, Onward
<1>4. Ordered'
  BY Unmoved DEF Inv
<1>5. TypeOK'
  <2>1. at' \in 1..63 /\ stage' = "starting"
    BY InStart
  <2>2. held' \subseteq {"feed", "driver", "bridge"} /\ cached' \subseteq DOMAIN Dependencies
    BY DEF Inv, TypeOK
  <2>3. ToSet(services') \subseteq DOMAIN Dependencies
    BY DEF Inv, TypeOK
  <2>4. turn' \in 0..(Len(subscribers') + 1)
    BY DEF Inv, TypeOK
  <2>5. world' \in WorldLifecycleState
    BY DEF Inv, TypeOK, WorldLifecycleState
  <2>6. at' \in 0..Len(StartUp)
    BY <2>1, Wiring
  <2> QED
    BY <2>1, <2>2, <2>3, <2>4, <2>5, <2>6 DEF TypeOK
<1> QED
  BY <1>3, <1>4, <1>5 DEF Inv

\* Whatever fails leaves a start that is to be taken down.
LEMMA FailStep ==
    ASSUME Inv, stage \in {"starting", "unwinding"}, Fail,
           disk' \in [ConfigFile ->
                        UNION {Contents[f] \cup {DefaultContent(f)} : f \in ConfigFile}]
    PROVE  Inv'
<1> USE DEF Fail, registries, worldVars
<1>1. "bridge" \notin held /\ turn = 0
  BY DEF Inv, Bridged, Placed
<1>2. Ordered'
  BY Unmoved DEF Inv
<1>3. Placed' /\ Begun' /\ Nothings' /\ Bridged' /\ Accepted'
  BY <1>1, Dismantling DEF Placed, Begun, Nothings, Bridged, Accepted
<1>5. TypeOK'
  <2>1. stage' = "stopping" /\ at' \in 0..Len(StartUp)
    BY Wiring
  <2>2. held' \subseteq {"feed", "driver", "bridge"} /\ cached' \subseteq DOMAIN Dependencies
    BY DEF Inv, TypeOK
  <2>3. ToSet(services') \subseteq DOMAIN Dependencies
    BY DEF Inv, TypeOK
  <2>4. turn' \in 0..(Len(subscribers') + 1)
    BY DEF Inv, TypeOK
  <2>5. world' \in WorldLifecycleState
    BY DEF Inv, TypeOK
  <2> QED
    BY <2>1, <2>2, <2>3, <2>4, <2>5 DEF TypeOK
<1> QED
  BY <1>2, <1>3, <1>5 DEF Inv

LEMMA RefusalSteps ==
    ASSUME Inv,
           \/ \E f \in ConfigFile : RefuseConfiguration(f)
           \/ RefuseStep \/ Unavailable \/ Unwound
    PROVE  Inv'
<1>1. disk \in [ConfigFile -> UNION {Contents[f] \cup {DefaultContent(f)} : f \in ConfigFile}]
  BY DEF Inv, TypeOK
<1>2. ASSUME NEW f \in ConfigFile, RefuseConfiguration(f) PROVE Inv'
  <2>1. LoadOrCreate(f) = disk[f] \/ LoadOrCreate(f) = DefaultContent(f)
    BY DEF LoadOrCreate
  <2>2. disk' \in [ConfigFile ->
                     UNION {Contents[g] \cup {DefaultContent(g)} : g \in ConfigFile}]
    BY <1>1, <1>2, <2>1 DEF RefuseConfiguration
  <2>3. stage = "starting" /\ Fail
    BY <1>2 DEF RefuseConfiguration, Starting
  <2> QED
    BY <2>2, <2>3, FailStep
<1>3. CASE RefuseStep \/ Unavailable \/ Unwound
  <2>1. stage \in {"starting", "unwinding"} /\ Fail /\ disk' = disk
    BY <1>3 DEF RefuseStep, Unavailable, Unwound
  <2> QED
    BY <1>1, <2>1, FailStep
<1> QED
  BY <1>2, <1>3

LEMMA LoadStep ==
    ASSUME Inv, NEW f \in ConfigFile, LoadConfiguration(f)
    PROVE  Inv'
<1> USE DEF LoadConfiguration, Starting, registries, worldVars
<1>1. disk \in [ConfigFile -> UNION {Contents[g] \cup {DefaultContent(g)} : g \in ConfigFile}]
  BY DEF Inv, TypeOK
<1>2. LoadOrCreate(f) = disk[f] \/ LoadOrCreate(f) = DefaultContent(f)
  BY DEF LoadOrCreate
<1>3. disk' \in [ConfigFile ->
                   UNION {Contents[g] \cup {DefaultContent(g)} : g \in ConfigFile}]
  BY <1>1, <1>2
<1>4. Now.do \in ConfigFile
  OBVIOUS
<1>5. Now.do \notin {"bridge", "register", "subscribe", "feed", "driver", "initialize",
                     "world", "config"}
  BY DEF ConfigFile
<1>6. cached' \subseteq DOMAIN Dependencies
  BY DEF Inv, TypeOK
<1> QED
  BY <1>3, <1>4, <1>5, <1>6, OnwardAlone

LEMMA SimpleSteps ==
    ASSUME Inv, Configure \/ Build \/ Cache \/ AllInitialized \/ RegisterModules \/ StartWorld
    PROVE  Inv'
<1> USE DEF Starting, registries, worldVars
<1>1. /\ disk \in [ConfigFile ->
                     UNION {Contents[g] \cup {DefaultContent(g)} : g \in ConfigFile}]
      /\ cached \subseteq DOMAIN Dependencies
  BY DEF Inv, TypeOK
<1>2. CASE Configure
  <2>1. Accepts(FileOf(Now.who), Now.who)
    BY <1>2 DEF Configure, Refused
  <2> QED
    BY <1>1, <1>2, <2>1, OnwardAlone DEF Configure
<1>3. CASE Build
  BY <1>1, <1>3, OnwardAlone DEF Build
<1>4. CASE Cache
  <2>1. Now.who \in DOMAIN Dependencies
    BY <1>4, InStart, Order DEF Cache, Now
  <2> QED
    BY <1>1, <1>4, <2>1, OnwardAlone DEF Cache
<1>5. CASE AllInitialized
  <2>1. initialized = ToSet(services)
    BY <1>5 DEF AllInitialized, Pending, Inv, Ordered, ToSet
  <2> QED
    BY <1>1, <1>5, <2>1, OnwardAlone DEF AllInitialized
<1>6. CASE RegisterModules
  BY <1>1, <1>6, OnwardAlone DEF RegisterModules
<1>7. CASE StartWorld
  BY <1>1, <1>7, OnwardAlone DEF StartWorld, WorldStart, TransitionTo
<1> QED
  BY <1>2, <1>3, <1>4, <1>5, <1>6, <1>7

LEMMA CreateStep ==
    ASSUME Inv, Create
    PROVE  Inv'
<1> USE DEF registries, worldVars
<1>1. /\ disk \in [ConfigFile ->
                     UNION {Contents[g] \cup {DefaultContent(g)} : g \in ConfigFile}]
      /\ cached \subseteq DOMAIN Dependencies
  BY DEF Inv, TypeOK
<1>2. CASE Now.do # "bridge"
  <2>1. Now.do \in {"feed", "driver"} /\ stage = "starting"
    BY <1>2 DEF Create
  <2> QED
    BY <1>1, <1>2, <2>1, OnwardAlone DEF Create
<1>3. CASE Now.do = "bridge"
  <2>1. stage = "starting" /\ turn = 0 /\ at = 63
    BY <1>3, InStart, Order DEF Create, Now
  <2>2. stage' = "running" /\ at' = 0 /\ held' = held \cup {"bridge"}
    BY <1>3, <2>1, Wiring DEF Create, Proceed
  <2>3. UNCHANGED <<disk, cached, starts, frames, services, initialized, subscribers, turn,
                    modules, world, clock, sampled, context>>
    BY DEF Create
  <2>4. /\ ToSet(services) = Went("register", 63) /\ ToSet(subscribers) = Subscribed(63)
        /\ held = {what \in {"feed", "driver"} : \E j \in 1..(63 - 1) : StartUp[j].do = what}
        /\ initialized = ToSet(services) /\ Ascend
        /\ world = IF "World" \notin initialized THEN "Created"
                   ELSE IF \E j \in 1..(63 - 1) : StartUp[j].do = "world" THEN "Running"
                   ELSE "Initialized"
        /\ clock.tick = 0 /\ frames = 0
    BY <2>1 DEF Inv, Begun, AllServices
  <2>5. initialized = DOMAIN Dependencies /\ "World" \in initialized
    <3>1. initialized = DOMAIN Dependencies
      BY <2>4, RegistrationSteps
    <3> QED
      BY <3>1 DEF Dependencies
  <2>6. ToSet(subscribers) = Subscribed(64)
    <3>1. 63 \in 59..64 /\ 64 \in 59..64
      OBVIOUS
    <3>2. Subscribed(63) = Subscribed(64)
      BY ONLY <3>1, SubscriptionSteps
    <3> QED
      BY <2>4, <3>2
  <2>7. {"feed", "driver"} \subseteq held /\ world = "Running"
    <3>1. 11 \in 1..(63 - 1) /\ 58 \in 1..(63 - 1) /\ 61 \in 1..(63 - 1)
      OBVIOUS
    <3> QED
      BY <2>4, <2>5, <3>1, Hands
  <2>8. Ascend' /\ ToSet(subscribers)' = ToSet(subscribers) /\ ToSet(services)' = ToSet(services)
    BY <2>3, <2>4 DEF Ascend
  <2>9. Placed' /\ Begun' /\ Nothings'
    BY <2>1, <2>2, <2>3 DEF Placed, Begun, Nothings
  <2>10. Bridged'
    <3>1. ToSet(subscribers)' = Subscribed(Len(StartUp) + 1)'
      BY <2>6, <2>8, Wiring DEF Subscribed
    <3>2. \A i \in DOMAIN subscribers' : turn' \notin 1..i /\ ~(turn' > i)
      <4>1. DOMAIN subscribers = 1..Len(subscribers) /\ Len(subscribers) \in Nat
        BY LenProperties DEF Inv
      <4> QED
        BY <2>1, <2>3, <4>1
    <3>3. "bridge" \in held' /\ {"feed", "driver"} \subseteq held'
      BY <2>2, <2>7
    <3> QED
      BY <2>2, <2>3, <2>4, <2>5, <2>7, <2>8, <3>1, <3>2, <3>3 DEF Bridged
  <2>11. Accepted'
    <3> SUFFICES ASSUME NEW j \in DOMAIN StartUp, StartUp[j].do = "config"
                 PROVE  Accepts(FileOf(StartUp[j].who), StartUp[j].who)'
      BY DEF Accepted
    <3>1. j < 63
      BY Wiring, Order
    <3>2. Accepts(FileOf(StartUp[j].who), StartUp[j].who)
      BY <2>1, <3>1 DEF Inv, Accepted
    <3> QED
      BY <2>3, <3>2 DEF FileOf
  <2>12. Ordered'
    BY <2>3, Unmoved DEF Inv
  <2>13. TypeOK'
    <3>1. held' \subseteq {"feed", "driver", "bridge"} /\ cached' \subseteq DOMAIN Dependencies
      BY <2>2, <2>3 DEF Inv, TypeOK
    <3>2. ToSet(services') \subseteq DOMAIN Dependencies
      BY <2>3 DEF Inv, TypeOK
    <3>3. turn' \in 0..(Len(subscribers') + 1)
      BY <2>3 DEF Inv, TypeOK
    <3>4. world' \in WorldLifecycleState
      BY <2>3 DEF Inv, TypeOK
    <3>5. at' \in 0..Len(StartUp)
      BY <2>2, Wiring
    <3>6. disk' \in [ConfigFile ->
                       UNION {Contents[g] \cup {DefaultContent(g)} : g \in ConfigFile}]
      BY <1>1, <2>3
    <3> QED
      BY <2>2, <3>1, <3>2, <3>3, <3>4, <3>5, <3>6 DEF TypeOK
  <2> QED
    BY <2>3, <2>9, <2>10, <2>11, <2>12, <2>13 DEF Inv
<1> QED
  BY <1>2, <1>3

LEMMA RegisterStep ==
    ASSUME Inv, RegisterService
    PROVE  Inv'
<1> USE DEF worldVars, Starting
<1>1. /\ at \in 1..63 /\ stage = "starting" /\ turn = 0
      /\ Now = StartUp[at] /\ Now.do = "register"
  BY InStart DEF RegisterService, Now
<1>2. /\ Now.who \in DOMAIN Dependencies /\ at < 59
      /\ \A pair \in References : pair[1] = Now.who => pair[2] \in Went("register", at)
  BY <1>1, RegistrationSteps
<1>3. ~AlreadyRegistered(Now.who) /\ Register(Now.who) /\ Proceed
  BY <1>1 DEF RegisterService, Refused
<1>4. UNCHANGED <<disk, cached, held, starts, frames, initialized, subscribers, turn,
                  modules, world, clock, sampled, context>>
  BY DEF RegisterService
<1>5. initialized = {} /\ ToSet(services) = Went("register", at) /\ Ascend
  BY <1>1, <1>2 DEF Inv, Begun, AllServices
<1>6. Ordered' /\ ToSet(services') = ToSet(services) \cup {Now.who}
  BY <1>2, <1>3, <1>4, <1>5, RegisterEffect DEF Inv
<1>7. Ascend' /\ ToSet(subscribers)' = ToSet(subscribers)
  BY <1>4, <1>5 DEF Ascend
<1>8. Placed' /\ Begun' /\ Nothings' /\ Bridged' /\ Accepted'
  BY <1>1, <1>3, <1>4, <1>6, <1>7, Onward
<1>9. TypeOK'
  <2>1. at' \in 1..63 /\ stage' = "starting"
    BY <1>1, <1>3, InStart
  <2>2. held' \subseteq {"feed", "driver", "bridge"} /\ cached' \subseteq DOMAIN Dependencies
    BY <1>4 DEF Inv, TypeOK
  <2>3. ToSet(services') \subseteq DOMAIN Dependencies
    BY <1>2, <1>6 DEF Inv, TypeOK
  <2>4. turn' \in 0..(Len(subscribers') + 1)
    BY <1>4 DEF Inv, TypeOK
  <2>5. world' \in WorldLifecycleState
    BY <1>4 DEF Inv, TypeOK
  <2>6. disk' \in [ConfigFile ->
                     UNION {Contents[g] \cup {DefaultContent(g)} : g \in ConfigFile}]
    BY <1>4 DEF Inv, TypeOK
  <2>7. at' \in 0..Len(StartUp)
    BY <2>1, Wiring
  <2> QED
    BY <2>1, <2>2, <2>3, <2>4, <2>5, <2>6, <2>7 DEF TypeOK
<1> QED
  BY <1>4, <1>6, <1>8, <1>9 DEF Inv

LEMMA SubscribeStep ==
    ASSUME Inv, SubscribeToFrames
    PROVE  Inv'
<1> USE DEF worldVars, Starting
<1>1. /\ at \in 1..63 /\ stage = "starting" /\ turn = 0
      /\ Now = StartUp[at] /\ Now.do = "subscribe"
  BY InStart DEF SubscribeToFrames, Now
<1>2. [who |-> Now.who, order |-> Now.key] \in Entry
  BY <1>1, SubscriptionSteps DEF Subscription
<1>3. ~SubscriptionTaken(Now.who, Now.key) /\ Subscribe(Now.who, Now.key) /\ Proceed
  BY <1>1 DEF SubscribeToFrames, Refused
<1>4. UNCHANGED <<disk, cached, held, starts, frames, services, initialized, turn,
                  modules, world, clock, sampled, context>>
  BY DEF SubscribeToFrames
<1>5. Ascend /\ subscribers \in Seq(Entry)
  BY <1>1 DEF Inv, Begun
<1>6. /\ subscribers' \in Seq(Entry) /\ Ascend'
      /\ ToSet(subscribers') = ToSet(subscribers) \cup {[who |-> Now.who, order |-> Now.key]}
  BY <1>2, <1>3, <1>5, SubscribeEffect
<1>7. ToSet(subscribers)' = ToSet(subscribers) \cup {Subscription(Now)}
  BY <1>6 DEF Subscription
<1>8. Placed' /\ Begun' /\ Nothings' /\ Bridged' /\ Accepted'
  BY <1>1, <1>3, <1>4, <1>6, <1>7, Onward
<1>9. Ordered'
  BY <1>4, Unmoved DEF Inv
<1>10. TypeOK'
  <2>1. at' \in 1..63 /\ stage' = "starting"
    BY <1>1, <1>3, InStart
  <2>2. held' \subseteq {"feed", "driver", "bridge"} /\ cached' \subseteq DOMAIN Dependencies
    BY <1>4 DEF Inv, TypeOK
  <2>3. ToSet(services') \subseteq DOMAIN Dependencies
    BY <1>4 DEF Inv, TypeOK
  <2>4. turn' \in 0..(Len(subscribers') + 1)
    <3>1. Len(subscribers') \in Nat
      BY <1>6, LenProperties
    <3> QED
      BY <1>1, <1>4, <3>1
  <2>5. world' \in WorldLifecycleState
    BY <1>4 DEF Inv, TypeOK
  <2>6. disk' \in [ConfigFile ->
                     UNION {Contents[g] \cup {DefaultContent(g)} : g \in ConfigFile}]
    BY <1>4 DEF Inv, TypeOK
  <2>7. at' \in 0..Len(StartUp)
    BY <2>1, Wiring
  <2> QED
    BY <2>1, <2>2, <2>3, <2>4, <2>5, <2>6, <2>7 DEF TypeOK
<1> QED
  BY <1>4, <1>6, <1>8, <1>9, <1>10 DEF Inv

LEMMA InitializeStep ==
    ASSUME Inv, InitializeService
    PROVE  Inv'
<1> USE DEF worldVars, rootVars, Starting
<1>1. at = 59 /\ stage = "starting" /\ turn = 0 /\ "bridge" \notin held
  BY InStart, Order DEF InitializeService, Now
<1>2. UNCHANGED <<stage, at, disk, cached, held, starts, frames, services, subscribers, turn,
                  modules>>
  BY DEF InitializeService
<1>3. Ordered' /\ FirstPending \in ToSet(services) \ initialized
  BY InitializeEffect DEF InitializeService, Inv
<1>4. initialized' = initialized \cup {FirstPending}
  BY DEF InitializeService
<1>5. /\ ToSet(services) = Went("register", at) /\ ToSet(subscribers) = Subscribed(at)
      /\ Ascend
      /\ held = {what \in {"feed", "driver"} : \E j \in 1..(at - 1) : StartUp[j].do = what}
      /\ world = IF "World" \notin initialized THEN "Created"
                 ELSE IF \E j \in 1..(at - 1) : StartUp[j].do = "world" THEN "Running"
                 ELSE "Initialized"
      /\ clock.tick = 0 /\ frames = 0
  BY <1>1 DEF Inv, Begun
<1>6. ~ \E j \in 1..(at - 1) : StartUp[j].do = "world"
  <2>1. \A j \in 1..(at - 1) : j \in 1..63 /\ j # 61
    BY <1>1
  <2> QED
    BY <2>1, Order
<1>7. clock' = clock /\ (IF FirstPending = "World" THEN world' = "Initialized" ELSE world' = world)
  BY DEF InitializeService, TransitionTo
<1>8. world' = IF "World" \notin initialized' THEN "Created" ELSE "Initialized"
  BY <1>3, <1>4, <1>5, <1>6, <1>7
<1>9. Ascend' /\ ToSet(subscribers)' = ToSet(subscribers) /\ ToSet(services)' = ToSet(services)
  BY <1>2, <1>5 DEF Ascend
<1>10. Begun'
  <2>1. ToSet(services)' = Went("register", at)'
    BY <1>2, <1>5, <1>9 DEF Went
  <2>2. ToSet(subscribers)' = Subscribed(at)'
    BY <1>2, <1>5, <1>9 DEF Subscribed
  <2> QED
    BY <1>1, <1>2, <1>5, <1>6, <1>7, <1>8, <1>9, <2>1, <2>2 DEF Begun, AllServices
<1>11. Placed' /\ Nothings' /\ Bridged'
  BY <1>1, <1>2 DEF Placed, Nothings, Bridged, Inv
<1>12. Accepted'
  BY <1>2 DEF Accepted, FileOf, Inv
<1>13. TypeOK'
  <2>1. ToSet(services') \subseteq DOMAIN Dependencies
    BY <1>2 DEF Inv, TypeOK
  <2>2. turn' \in 0..(Len(subscribers') + 1)
    BY <1>2 DEF Inv, TypeOK
  <2>3. world' \in WorldLifecycleState
    BY <1>8 DEF WorldLifecycleState
  <2> QED
    BY <1>2, <2>1, <2>2, <2>3 DEF Inv, TypeOK
<1> QED
  BY <1>2, <1>3, <1>7, <1>10, <1>11, <1>12, <1>13 DEF Inv

LEMMA ServiceFailsStep ==
    ASSUME Inv, ServiceFails
    PROVE  Inv'
<1> USE DEF worldVars, registries, Starting
<1>1. at = 59 /\ stage = "starting" /\ turn = 0 /\ "bridge" \notin held
  BY InStart, Order DEF ServiceFails, Now
<1>2. /\ stage' = "unwinding"
      /\ UNCHANGED <<at, disk, cached, held, starts, frames, services, initialized,
                     subscribers, turn, modules, world, clock, sampled, context>>
  BY DEF ServiceFails
<1>3. Ordered'
  BY <1>2, Unmoved DEF Inv
<1>4. Placed' /\ Begun' /\ Nothings' /\ Bridged' /\ Accepted'
  BY <1>1, <1>2 DEF Placed, Begun, Nothings, Bridged, Accepted, AllServices
<1>5. TypeOK'
  <2>1. ToSet(services') \subseteq DOMAIN Dependencies
    BY <1>2 DEF Inv, TypeOK
  <2>2. turn' \in 0..(Len(subscribers') + 1)
    BY <1>2 DEF Inv, TypeOK
  <2> QED
    BY <1>2, <2>1, <2>2 DEF Inv, TypeOK
<1> QED
  BY <1>2, <1>3, <1>4, <1>5 DEF Inv

LEMMA ShutdownSteps ==
    ASSUME Inv, Unwind \/ ShutdownService
    PROVE  Inv'
<1> USE DEF worldVars, rootVars
<1>1. ShutdownNext /\ stage \in {"unwinding", "stopping"} /\ (stage = "stopping" => at = 14)
  BY Dismantling DEF Unwind, ShutdownService, Stopping, Gone
<1>2. UNCHANGED <<stage, at, disk, cached, held, starts, frames, services, subscribers, turn,
                  modules>>
  BY <1>1 DEF ShutdownNext
<1>3. clock' = clock /\ (world' = world \/ world' = "ShutDown")
  BY <1>1 DEF ShutdownNext, WorldShutdown
<1>4. Ordered'
  BY <1>1, <1>2, ShutdownEffect DEF Inv, ShutdownNext
<1>5. turn = 0 /\ "bridge" \notin held
  BY <1>1 DEF Inv, Placed, Bridged
<1>6. Placed' /\ Begun' /\ Nothings' /\ Bridged' /\ Accepted'
  BY <1>1, <1>2, <1>5 DEF Inv, Placed, Begun, Nothings, Bridged, Accepted
<1>7. TypeOK'
  <2>1. ToSet(services') \subseteq DOMAIN Dependencies
    BY <1>2 DEF Inv, TypeOK
  <2>2. turn' \in 0..(Len(subscribers') + 1)
    BY <1>2 DEF Inv, TypeOK
  <2>3. world' \in WorldLifecycleState
    BY <1>3 DEF Inv, TypeOK, WorldLifecycleState
  <2> QED
    BY <1>2, <2>1, <2>2, <2>3 DEF Inv, TypeOK
<1> QED
  BY <1>2, <1>3, <1>4, <1>6, <1>7 DEF Inv

\* The frames.
LEMMA RunSteps ==
    ASSUME Inv, Run
    PROVE  Inv'
<1> USE DEF worldVars, rootVars, registries
<1>1. /\ subscribers \in Seq(Entry)
      /\ Len(subscribers) \in Nat /\ DOMAIN subscribers = 1..Len(subscribers)
      /\ turn \in 0..(Len(subscribers) + 1)
  BY LenProperties DEF Inv, TypeOK
<1>2. stage = "running" /\ at = 0 /\ "bridge" \in held
  BY <1>1 DEF Run, BeginFrame, TickSubscriber, AdvanceClientPresentation, PauseOrResume, Inv,
              Placed, Bridged
<1>3. UNCHANGED <<stage, at, disk, cached, held, starts, services, initialized, subscribers,
                  modules>>
  BY DEF Run, BeginFrame, TickSubscriber, AdvanceClientPresentation, PauseOrResume
<1>4. /\ {"feed", "driver"} \subseteq held /\ world \in {"Running", "Paused"}
      /\ initialized = DOMAIN Dependencies
      /\ ToSet(subscribers) = Subscribed(Len(StartUp) + 1) /\ Ascend
      /\ \A i \in DOMAIN subscribers : subscribers[i].who = "World" =>
            IF turn \in 1..i THEN clock.tick + 1 = frames
            ELSE clock.tick = frames /\ (turn > i => context.tick = frames)
      /\ clock.tick \in Nat /\ frames \in Nat
  BY <1>2 DEF Inv, Bridged
<1>5. \A i, j \in DOMAIN subscribers : subscribers[i].who = subscribers[j].who => i = j
  BY <1>1, <1>4, Wiring, OneEach
<1>6. /\ turn' \in 0..(Len(subscribers) + 1)
      /\ world' \in {"Running", "Paused"}
      /\ clock'.tick \in Nat /\ frames' \in Nat
      /\ \A i \in DOMAIN subscribers : subscribers[i].who = "World" =>
            IF turn' \in 1..i THEN clock'.tick + 1 = frames'
            ELSE clock'.tick = frames' /\ (turn' > i => context'.tick = frames')
  <2>1. CASE BeginFrame
    BY <1>1, <1>4, <2>1 DEF BeginFrame
  <2>2. CASE TickSubscriber
    <3>1. turn \in 1..Len(subscribers) /\ turn' = turn + 1 /\ frames' = frames
      BY <1>1, <2>2 DEF TickSubscriber
    <3>2. CASE subscribers[turn].who = "World"
      <4>1. /\ clock'.tick = clock.tick + 1 /\ context'.tick = clock.tick + 1
            /\ world' = world
        BY <1>4, <2>2, <3>2 DEF TickSubscriber, WorldTick, Advanced, PublishContext
      <4>2. \A i \in DOMAIN subscribers : subscribers[i].who = "World" => i = turn
        BY <1>1, <1>5, <3>1, <3>2
      <4>3. clock.tick + 1 = frames
        BY <1>1, <1>4, <3>1, <3>2
      <4> QED
        BY <1>1, <1>4, <3>1, <4>1, <4>2, <4>3
    <3>3. CASE subscribers[turn].who # "World"
      <4>1. clock' = clock /\ context' = context /\ world' = world
        BY <2>2, <3>3 DEF TickSubscriber
      <4>2. \A i \in DOMAIN subscribers : subscribers[i].who = "World" => i # turn
        BY <3>3
      <4> QED
        BY <1>1, <1>4, <3>1, <4>1, <4>2
    <3> QED
      BY <3>2, <3>3
  <2>3. CASE AdvanceClientPresentation
    BY <1>1, <1>4, <2>3 DEF AdvanceClientPresentation
  <2>4. CASE PauseOrResume
    <3>1. /\ world' \in {"Running", "Paused"} /\ clock' = clock /\ context' = context
          /\ turn' = turn /\ frames' = frames /\ turn = 0
      BY <2>4 DEF PauseOrResume, Pause, Resume, TransitionTo
    <3> QED
      BY <1>1, <1>4, <3>1
  <2> QED
    BY <2>1, <2>2, <2>3, <2>4 DEF Run
<1>7. Ascend' /\ ToSet(subscribers)' = ToSet(subscribers)
  BY <1>3, <1>4 DEF Ascend
<1>8. Subscribed(Len(StartUp) + 1)' = Subscribed(Len(StartUp) + 1)
  BY DEF Subscribed
<1>9. Bridged'
  BY <1>2, <1>3, <1>4, <1>6, <1>7, <1>8 DEF Bridged
<1>10. Placed' /\ Begun' /\ Nothings'
  BY <1>2, <1>3 DEF Placed, Begun, Nothings
<1>11. Accepted'
  BY <1>3 DEF Accepted, FileOf, Inv
<1>12. Ordered'
  BY <1>3, Unmoved DEF Inv
<1>13. TypeOK'
  <2>1. ToSet(services') \subseteq DOMAIN Dependencies
    BY <1>3 DEF Inv, TypeOK
  <2>2. turn' \in 0..(Len(subscribers') + 1)
    BY <1>3, <1>6
  <2>3. world' \in WorldLifecycleState
    BY <1>6 DEF WorldLifecycleState
  <2> QED
    BY <1>3, <2>1, <2>2, <2>3 DEF Inv, TypeOK
<1> QED
  BY <1>1, <1>3, <1>6, <1>9, <1>10, <1>11, <1>12, <1>13 DEF Inv

LEMMA StopSteps ==
    ASSUME Inv, Shutdown \/ TakeAway \/ TakeAwayFeed \/ UnsubscribeCached
    PROVE  Inv'
<1> USE DEF worldVars, registries
<1>1. /\ UNCHANGED <<disk, starts, frames, services, initialized, turn, modules, world, clock,
                     sampled, context>>
      /\ stage' = "stopping" /\ held' \subseteq held /\ cached' \subseteq cached
  BY DEF Shutdown, TakeAway, TakeAwayFeed, UnsubscribeCached, Stopping
<1>2. subscribers \in Seq(Entry) /\ clock.tick \in Nat /\ frames \in Nat
  BY DEF Inv
<1>3. turn = 0
  BY DEF Shutdown, TakeAway, TakeAwayFeed, UnsubscribeCached, Stopping, Inv, Placed
<1>4. at' \in 1..14 /\ (subscribers' = subscribers \/ subscribers' \in Seq(Entry))
  <2>1. CASE Shutdown
    BY <2>1 DEF Shutdown
  <2>2. CASE TakeAway
    <3>1. at \in 1..14 /\ at \in {1, 2}
      BY <2>2, Dismantling DEF TakeAway, Stopping, Gone
    <3> QED
      BY <2>2, <3>1 DEF TakeAway
  <2>3. CASE TakeAwayFeed
    <3>1. at \in 1..14 /\ at = 3
      BY <2>3, Dismantling DEF TakeAwayFeed, Stopping, Gone
    <3> QED
      BY <1>2, <2>3, <3>1, UnsubscribeEffect DEF TakeAwayFeed
  <2>4. CASE UnsubscribeCached
    <3>1. at \in 1..14 /\ at \in 4..13
      BY <2>4, Dismantling DEF UnsubscribeCached, Gone
    <3> QED
      BY <1>2, <2>4, <3>1, UnsubscribeEffect DEF UnsubscribeCached
  <2> QED
    BY <2>1, <2>2, <2>3, <2>4
<1>5. "bridge" \in held' => at' = 1 /\ subscribers' = subscribers /\ held' = held
  <2>1. CASE Shutdown
    BY <2>1 DEF Shutdown
  <2>2. CASE TakeAway
    <3>1. at \in 1..14 /\ Gone \in {"bridge", "driver"} /\ stage = "stopping"
      BY <2>2, Dismantling DEF TakeAway, Stopping
    <3>2. CASE at = 1
      <4>1. held' = held \ {"bridge"}
        BY <2>2, <3>1, <3>2, Dismantling DEF TakeAway, Gone
      <4> QED
        BY <4>1
    <3>3. CASE at # 1
      <4>1. "bridge" \notin held
        BY <3>1, <3>3 DEF Inv, Bridged
      <4> QED
        BY <1>1, <4>1
    <3> QED
      BY <3>2, <3>3
  <2>3. CASE TakeAwayFeed \/ UnsubscribeCached
    <3>1. at # 1 /\ stage = "stopping"
      BY <2>3, Dismantling DEF TakeAwayFeed, UnsubscribeCached, Stopping, Gone, Dependencies
    <3>2. "bridge" \notin held
      BY <3>1 DEF Inv, Bridged
    <3> QED
      BY <1>1, <3>2
  <2> QED
    BY <2>1, <2>2, <2>3
<1>6. subscribers' \in Seq(Entry) /\ Len(subscribers') \in Nat
  BY <1>2, <1>4, LenProperties
<1>7. Placed' /\ Begun' /\ Nothings'
  BY <1>1, <1>3, <1>4, Dismantling DEF Placed, Begun, Nothings
<1>8. Bridged'
  <2>1. CASE "bridge" \notin held'
    BY <1>1, <2>1 DEF Bridged
  <2>2. CASE "bridge" \in held'
    <3>1. at' = 1 /\ subscribers' = subscribers /\ held' = held
      BY <1>5, <2>2
    <3>2. ToSet(subscribers)' = ToSet(subscribers) /\ (Ascend => Ascend')
      BY <3>1 DEF Ascend
    <3>3. Subscribed(Len(StartUp) + 1)' = Subscribed(Len(StartUp) + 1)
      BY DEF Subscribed
    <3> QED
      BY <1>1, <3>1, <3>2, <3>3 DEF Inv, Bridged
  <2> QED
    BY <2>1, <2>2
<1>9. Accepted'
  BY <1>1 DEF Accepted
<1>10. Ordered'
  BY <1>1, Unmoved DEF Inv
<1>11. TypeOK'
  <2>1. ToSet(services') \subseteq DOMAIN Dependencies
    BY <1>1 DEF Inv, TypeOK
  <2>2. turn' \in 0..(Len(subscribers') + 1)
    BY <1>1, <1>3, <1>6
  <2>3. at' \in 0..Len(StartUp)
    BY <1>4, Wiring
  <2>4. held' \subseteq {"feed", "driver", "bridge"} /\ cached' \subseteq DOMAIN Dependencies
    BY <1>1 DEF Inv, TypeOK
  <2> QED
    BY <1>1, <2>1, <2>2, <2>3, <2>4 DEF Inv, TypeOK
<1> QED
  BY <1>1, <1>2, <1>6, <1>7, <1>8, <1>9, <1>10, <1>11 DEF Inv

\* Nothing is left of a runtime that is destroyed, and nothing is there at first.
LEMMA Nowhere ==
    ASSUME stage = "off", at = 0, cached = {}, held = {}, services = <<>>, initialized = {},
           subscribers = <<>>, turn = 0, world = "Created", clock.tick = 0, frames \in Nat,
           disk \in [ConfigFile -> UNION {Contents[f] \cup {DefaultContent(f)} : f \in ConfigFile}]
    PROVE  Inv
<1>1. ToSet(services) = {} /\ DOMAIN services = {} /\ Len(subscribers) = 0
      /\ <<>> \in Seq(DOMAIN Dependencies) /\ <<>> \in Seq(Entry)
  BY DEF ToSet
<1>2. TypeOK
  <2>1. at \in 0..Len(StartUp) /\ turn \in 0..(Len(subscribers) + 1)
    BY <1>1, Wiring
  <2>2. world \in WorldLifecycleState
    BY DEF WorldLifecycleState
  <2> QED
    BY <1>1, <2>1, <2>2 DEF TypeOK
<1>3. Ordered
  BY <1>1 DEF Ordered
<1>4. Placed /\ Begun /\ Nothings /\ Bridged /\ Accepted
  BY DEF Placed, Begun, Nothings, Bridged, Accepted
<1> QED
  BY <1>1, <1>2, <1>3, <1>4 DEF Inv

LEMMA DestroyStep ==
    ASSUME Inv, Destroy
    PROVE  Inv'
<1>1. /\ stage' = "off" /\ at' = 0 /\ cached' = {} /\ held' = {} /\ services' = <<>>
      /\ initialized' = {} /\ subscribers' = <<>> /\ turn' = 0 /\ world' = "Created"
      /\ clock'.tick = 0 /\ frames' \in Nat /\ disk' = disk
  BY DEF Destroy, Inv
<1>2. disk' \in [ConfigFile ->
                   UNION {Contents[f] \cup {DefaultContent(f)} : f \in ConfigFile}]
  BY <1>1 DEF Inv, TypeOK
<1>3. /\ ToSet(services') = {} /\ DOMAIN services' = {} /\ Len(subscribers') = 0
      /\ <<>> \in Seq(DOMAIN Dependencies) /\ <<>> \in Seq(Entry)
  BY <1>1 DEF ToSet
<1>4. TypeOK'
  <2>1. at' \in 0..Len(StartUp) /\ turn' \in 0..(Len(subscribers') + 1)
    BY <1>1, <1>3, Wiring
  <2>2. world' \in WorldLifecycleState
    BY <1>1 DEF WorldLifecycleState
  <2> QED
    BY <1>1, <1>2, <1>3, <2>1, <2>2 DEF TypeOK
<1>5. Ordered'
  BY <1>1, <1>3 DEF Ordered
<1>6. Placed' /\ Begun' /\ Nothings' /\ Bridged' /\ Accepted'
  BY <1>1 DEF Placed, Begun, Nothings, Bridged, Accepted
<1> QED
  BY <1>1, <1>3, <1>4, <1>5, <1>6 DEF Inv

LEMMA CallStep ==
    ASSUME Inv, Initialize
    PROVE  Inv'
<1> USE DEF registries, worldVars
<1>1. /\ stage' = "starting" /\ at' = 1 /\ frames' = 0
      /\ UNCHANGED <<disk, cached, held, services, initialized, subscribers, turn, modules,
                     world, clock, sampled, context>>
  BY DEF Initialize
<1>2. /\ services = <<>> /\ subscribers = <<>> /\ initialized = {} /\ held = {}
      /\ world = "Created" /\ clock.tick = 0 /\ turn = 0
  BY DEF Initialize, Inv, Nothings, Placed
<1>3. 1..(1 - 1) = {}
  OBVIOUS
<1>4. Went("register", 1) = {} /\ Subscribed(1) = {}
  BY <1>3 DEF Went, Subscribed
<1>5. /\ ToSet(services') = {} /\ ToSet(subscribers') = {} /\ DOMAIN subscribers' = {}
      /\ Len(subscribers') = 0
  BY <1>1, <1>2 DEF ToSet
<1>6. Ascend'
  BY <1>5 DEF Ascend
<1>7. ToSet(services)' = Went("register", at)' /\ ToSet(subscribers)' = Subscribed(at)'
  BY <1>1, <1>4, <1>5 DEF Went, Subscribed
<1>8. held' = {what \in {"feed", "driver"} : \E j \in 1..(at' - 1) : StartUp[j].do = what}
  BY <1>1, <1>2, <1>3
<1>9. Begun'
  BY <1>1, <1>2, <1>6, <1>7, <1>8 DEF Begun, AllServices
<1>10. Placed' /\ Nothings' /\ Bridged'
  BY <1>1, <1>2, Wiring DEF Placed, Nothings, Bridged
<1>11. Accepted'
  BY <1>1, Wiring DEF Accepted
<1>12. Ordered'
  BY <1>1, Unmoved DEF Inv
<1>13. TypeOK'
  <2>1. at' \in 0..Len(StartUp)
    BY <1>1, Wiring
  <2>2. turn' \in 0..(Len(subscribers') + 1)
    BY <1>1, <1>2, <1>5
  <2> QED
    BY <1>1, <1>5, <2>1, <2>2 DEF Inv, TypeOK
<1> QED
  BY <1>1, <1>9, <1>10, <1>11, <1>12, <1>13 DEF Inv

LEMMA Stutter ==
    ASSUME Inv, UNCHANGED vars
    PROVE  Inv'
<1>1. UNCHANGED <<stage, at, disk, cached, held, starts, frames, services, initialized,
                  subscribers, turn, modules, world, clock, sampled, context>>
  BY DEF vars, rootVars, registries, worldVars
<1>2. Ordered'
  BY <1>1, Unmoved DEF Inv
<1>3. /\ ToSet(services)' = ToSet(services) /\ ToSet(subscribers)' = ToSet(subscribers)
      /\ Ascend' = Ascend
  BY <1>1 DEF Ascend
<1>4. TypeOK' /\ Placed' /\ Nothings'
  BY <1>1, <1>3 DEF Inv, TypeOK, Placed, Nothings
<1>5. Begun' /\ Bridged'
  BY <1>1, <1>3 DEF Inv, Begun, Bridged, Went, Subscribed
<1>6. Accepted'
  BY <1>1 DEF Inv, Accepted, FileOf
<1> QED
  BY <1>1, <1>2, <1>4, <1>5, <1>6 DEF Inv

LEMMA InvInductive == Spec => []Inv
<1>1. Init => Inv
  <2> SUFFICES ASSUME Init PROVE Inv
    OBVIOUS
  <2>1. /\ stage = "off" /\ at = 0 /\ cached = {} /\ held = {} /\ services = <<>>
        /\ initialized = {} /\ subscribers = <<>> /\ turn = 0 /\ world = "Created"
        /\ clock.tick = 0 /\ frames \in Nat
    BY DEF Init, RegistriesInit, WorldInit
  <2>2. disk \in [ConfigFile ->
                    UNION {Contents[f] \cup {DefaultContent(f)} : f \in ConfigFile}]
    BY DEF Init
  <2> QED
    BY <2>1, <2>2, Nowhere
<1>2. Inv /\ [Next]_vars => Inv'
  <2> SUFFICES ASSUME Inv, [Next]_vars PROVE Inv'
    OBVIOUS
  <2>1. CASE Start
    <3>1. CASE Initialize
      BY <3>1, CallStep
    <3>2. CASE \E f \in ConfigFile : LoadConfiguration(f)
      BY <3>2, LoadStep
    <3>3. CASE \/ \E f \in ConfigFile : RefuseConfiguration(f)
               \/ RefuseStep \/ Unavailable \/ Unwound
      BY <3>3, RefusalSteps
    <3>4. CASE Configure \/ Build \/ Cache \/ AllInitialized \/ RegisterModules \/ StartWorld
      BY <3>4, SimpleSteps
    <3>5. CASE Create \/ RegisterService \/ SubscribeToFrames
      BY <3>5, CreateStep, RegisterStep, SubscribeStep
    <3>6. CASE InitializeService \/ ServiceFails
      BY <3>6, InitializeStep, ServiceFailsStep
    <3>7. CASE Unwind
      BY <3>7, ShutdownSteps
    <3> QED
      BY <2>1, <3>1, <3>2, <3>3, <3>4, <3>5, <3>6, <3>7 DEF Start
  <2>2. CASE Run
    BY <2>2, RunSteps
  <2>3. CASE Stop
    BY <2>3, StopSteps, ShutdownSteps, DestroyStep DEF Stop
  <2>4. CASE UNCHANGED vars
    BY <2>4, Stutter
  <2> QED
    BY <2>1, <2>2, <2>3, <2>4 DEF Next
<1> QED
  BY <1>1, <1>2, PTL DEF Spec

-----------------------------------------------------------------------------
(***************************************************************************)
(* The theorems.                                                           *)
(***************************************************************************)

\* Whatever a start, a start that fails half way or a shutdown has come to, a service
\* that is up finds every service it calls up (ServiceRegistry::InitializeAll and
\* ShutdownAll, over the registrations of InitializeRuntime).
THEOREM Supported == Spec => []SupportedWhileUp
<1>1. Inv => SupportedWhileUp
  BY OrderSupports DEF Inv, SupportedWhileUp
<1> QED
  BY <1>1, InvInductive, PTL

\* The engine's frame bridge exists only while all that a frame reaches is alive.
THEOREM Reached == Spec => []FramesReachTheLiving
<1>1. Inv => FramesReachTheLiving
  <2> SUFFICES ASSUME Inv, "bridge" \in held PROVE FramesReachTheLiving
    BY DEF FramesReachTheLiving
  <2>1. /\ {"feed", "driver"} \subseteq held /\ world \in {"Running", "Paused"}
        /\ initialized = DOMAIN Dependencies
    BY DEF Inv, Bridged
  <2>2. \A i \in DOMAIN subscribers : subscribers[i].who \in DOMAIN Dependencies \cup {"EntityFeed"}
    <3> SUFFICES ASSUME NEW i \in DOMAIN subscribers
                 PROVE  subscribers[i].who \in DOMAIN Dependencies \cup {"EntityFeed"}
      OBVIOUS
    <3>1. subscribers[i] \in Entry
      BY ElementOfSeq, LenProperties DEF Inv
    <3> QED
      BY <3>1 DEF Entry
  <2> QED
    BY <2>1, <2>2 DEF FramesReachTheLiving
<1> QED
  BY <1>1, InvInductive, PTL

\* The turns of a frame (the order keys of tick_order, WorldManager::Tick): the world
\* first, the listed consumers after their producers, and the listed late ones before.
THEOREM Fresh == Spec => []FramesAreFresh
<1>1. Inv => FramesAreFresh
  <2> SUFFICES ASSUME Inv, "bridge" \in held PROVE FramesAreFresh
    BY DEF FramesAreFresh
  <2>1. subscribers \in Seq(Entry) /\ Ascend /\ ToSet(subscribers) = Subscribed(64)
    BY Wiring DEF Inv, Bridged
  <2>2. /\ \A i \in DOMAIN subscribers :
              /\ subscribers[i].who \in DOMAIN KeyOf
              /\ subscribers[i].order = KeyOf[subscribers[i].who]
        /\ \A s \in DOMAIN KeyOf : \E i \in DOMAIN subscribers : subscribers[i].who = s
    BY <2>1, OneEach
  <2>3. Len(subscribers) \in Nat /\ DOMAIN subscribers = 1..Len(subscribers)
    BY <2>1, LenProperties
  <2>4. ASSUME NEW s \in DOMAIN KeyOf
        PROVE  Position(s) \in DOMAIN subscribers /\ subscribers[Position(s)].who = s
    BY <2>2 DEF Position
  <2>5. ASSUME NEW s \in DOMAIN KeyOf, NEW u \in DOMAIN KeyOf, KeyOf[s] < KeyOf[u]
        PROVE  Position(s) < Position(u)
    <3> DEFINE i == Position(s)
               j == Position(u)
    <3>1. /\ i \in DOMAIN subscribers /\ subscribers[i].who = s
          /\ j \in DOMAIN subscribers /\ subscribers[j].who = u
      BY <2>4
    <3> HIDE DEF i, j
    <3>2. KeyOf[s] \in Nat /\ KeyOf[u] \in Nat
      BY Places
    <3>3. /\ subscribers[i].order \in Nat /\ subscribers[j].order \in Nat
          /\ subscribers[i].order < subscribers[j].order
      BY <2>2, <2>5, <3>1, <3>2
    <3>4. ~(j < i)
      BY <2>1, <3>1, <3>3 DEF Ascend
    <3>5. i # j
      BY <3>3
    <3> QED
      BY <2>3, <3>1, <3>4, <3>5 DEF i, j
  <2>6. \A pair \in Feeds : Position(pair[1]) < Position(pair[2])
    <3> SUFFICES ASSUME NEW pair \in Feeds PROVE Position(pair[1]) < Position(pair[2])
      OBVIOUS
    <3>1. /\ pair[1] \in DOMAIN KeyOf /\ pair[2] \in DOMAIN KeyOf
          /\ KeyOf[pair[1]] < KeyOf[pair[2]]
      BY DEF Feeds, KeyOf
    <3> QED
      BY <2>5, <3>1
  <2>7. \A pair \in LateFeeds : Position(pair[2]) < Position(pair[1])
    <3> SUFFICES ASSUME NEW pair \in LateFeeds PROVE Position(pair[2]) < Position(pair[1])
      OBVIOUS
    <3>1. /\ pair[1] \in DOMAIN KeyOf /\ pair[2] \in DOMAIN KeyOf
          /\ KeyOf[pair[2]] < KeyOf[pair[1]]
      BY DEF LateFeeds, KeyOf
    <3> QED
      BY <2>5, <3>1
  <2>8. Position("World") = 1
    <3>1. "World" \in DOMAIN KeyOf
      BY DEF KeyOf
    <3>2. /\ Position("World") \in DOMAIN subscribers
          /\ subscribers[Position("World")].who = "World"
      BY <2>4, <3>1
    <3>3. 1 \in DOMAIN subscribers
      BY <2>3, <3>2
    <3>4. KeyOf["World"] <= KeyOf[subscribers[1].who]
      <4>1. subscribers[1].who \in DOMAIN KeyOf
        BY <2>2, <3>3
      <4>2. \A s \in DOMAIN KeyOf : KeyOf["World"] <= KeyOf[s]
        BY DEF KeyOf
      <4> QED
        BY <4>1, <4>2
    <3>5. subscribers[Position("World")].order <= subscribers[1].order
      BY <2>2, <3>2, <3>3, <3>4
    <3>6. subscribers[Position("World")].order \in Nat /\ subscribers[1].order \in Nat
      BY <2>2, <3>2, <3>3, Places
    <3>7. ~(1 < Position("World"))
      BY <2>1, <3>2, <3>3, <3>5, <3>6 DEF Ascend
    <3> QED
      BY <2>3, <3>2, <3>7
  <2>9. turn > 1 => context.tick = frames
    <3>1. turn \in Nat
      BY <2>3 DEF Inv, TypeOK
    <3>2. "World" \in DOMAIN KeyOf
      BY DEF KeyOf
    <3>3. 1 \in DOMAIN subscribers /\ subscribers[1].who = "World"
      BY <2>4, <2>8, <3>2
    <3>4. IF turn \in 1..1 THEN clock.tick + 1 = frames
          ELSE clock.tick = frames /\ (turn > 1 => context.tick = frames)
      BY <3>3 DEF Inv, Bridged
    <3> QED
      BY <3>1, <3>4
  <2> QED
    BY <2>6, <2>7, <2>8, <2>9 DEF FramesAreFresh
<1> QED
  BY <1>1, InvInductive, PTL

-----------------------------------------------------------------------------
(***************************************************************************)
(* The settings.                                                           *)
(***************************************************************************)

\* Nothing is lost of a value within the width.
LEMMA Fits ==
    ASSUME NEW v \in 0..MaxU32
    PROVE  v % (MaxU32 + 1) = v
  BY WidthAssumption

\* A section that is accepted gets of every number the default, or one within its bounds.
LEMMA NumberInBounds ==
    ASSUME NEW file, NEW s \in Section, Accepts(file, s), NEW k \in DOMAIN Reads[s],
           Reads[s][k].get = "int",
           Reads[s][k].least \in Nat, Reads[s][k].most \in Nat, Reads[s][k].most <= MaxU32
    PROVE  \/ Settings(file, s)[k] = Defaults[s][k]
           \/ /\ Settings(file, s)[k] \in Nat
              /\ Reads[s][k].least <= Settings(file, s)[k]
              /\ Settings(file, s)[k] <= Reads[s][k].most
<1> DEFINE given == Given(file, s)
           read == Reads[s][k]
           understood == Understood(read, given[k])
<1>1. Settings(file, s)[k] =
         IF k \notin DOMAIN given \/ understood = {} THEN Defaults[s][k]
         ELSE (CHOOSE v \in understood : TRUE) % (MaxU32 + 1)
  BY DEF Settings
<1>2. CASE k \notin DOMAIN given \/ understood = {}
  BY <1>1, <1>2
<1>3. CASE k \in DOMAIN given /\ understood # {}
  <2>1. ValueAccepted(read, given[k])
    BY <1>3 DEF Accepts
  <2>2. \A v \in understood : v \in read.least..read.most
    BY <2>1 DEF ValueAccepted
  <2> HIDE DEF understood
  <2>3. PICK v \in understood : v = CHOOSE u \in understood : TRUE
    BY <1>3
  <2>4. v \in read.least..read.most
    BY <2>2, <2>3
  <2> HIDE DEF read
  <2>5. v \in 0..MaxU32
    BY <2>4, WidthAssumption DEF read
  <2>6. v % (MaxU32 + 1) = v
    BY <2>5, Fits
  <2>7. Settings(file, s)[k] = v
    BY <1>1, <1>3, <2>3, <2>6
  <2> QED
    BY <2>4, <2>7 DEF read
<1> QED
  BY <1>2, <1>3

LEMMA SectionsRead ==
    \A s \in {"networking", "transport", "snapshot", "replication", "persistence"} :
       /\ s \in Section
       /\ \E j \in 1..63 : StartUp[j].do = "config" /\ StartUp[j].who = s
<1>1. /\ StartUp[15] = Config("networking") /\ StartUp[24] = Config("transport")
      /\ StartUp[34] = Config("snapshot") /\ StartUp[38] = Config("replication")
      /\ StartUp[42] = Config("persistence")
  BY DEF StartUp, WorldConfigs, WorldService, EntityServices, PlayerFoundation, Bubble,
         Transition, Networking, Players, Snapshot, Replicating, Saving, Scripts, Extensions,
         Presentation, Step, Config, Registered, Ticked, Cached, Do
<1>2. \A s \in {"networking", "transport", "snapshot", "replication", "persistence"} :
         /\ Config(s).do = "config" /\ Config(s).who = s
         /\ s \in Section
  BY DEF Config, Step, Section, Reads
<1>3. 15 \in 1..63 /\ 24 \in 1..63 /\ 34 \in 1..63 /\ 38 \in 1..63 /\ 42 \in 1..63
  OBVIOUS
<1> QED
  BY <1>1, <1>2, <1>3

\* Whatever the files say, what a program that runs has taken from them is what the
\* modules count on (the FromConfig of every section, called by InitializeRuntime).
THEOREM Fit == Spec => []SettingsFit
<1>1. Inv => SettingsFit
  <2> SUFFICES ASSUME Inv, stage = "running" PROVE SettingsFit
    BY DEF SettingsFit
  <2> DEFINE file == disk["server"]
             net  == Settings(file, "networking")
             udp  == Settings(file, "transport")
             save == Settings(file, "persistence")
  <2>1. ASSUME NEW s \in {"networking", "transport", "snapshot", "replication", "persistence"}
        PROVE  s \in Section /\ Accepts(file, s)
    <3>1. PICK j \in 1..63 : StartUp[j].do = "config" /\ StartUp[j].who = s
      BY SectionsRead
    <3>2. Accepts(FileOf(s), s)
      BY <3>1, Wiring DEF Inv, Accepted
    <3>3. FileOf(s) = file
      BY DEF FileOf
    <3> QED
      BY <3>2, <3>3, SectionsRead
  <2> HIDE DEF file
  <2>2. /\ NetworkingRules(net) /\ TransportRules(udp) /\ PersistenceRules(save)
    BY <2>1 DEF Accepts, RulesKept
  <2>3. net.max_connections \in Nat /\ 1 <= net.max_connections
    <3>1. LET read == Reads["networking"]["max_connections"] IN
          /\ "max_connections" \in DOMAIN Reads["networking"]
          /\ read.get = "int" /\ read.least = 1 /\ read.most = 4096
          /\ Defaults["networking"]["max_connections"] = 16
      BY DEF Reads, NetworkingReads, AtLeast, Within, Defaults, NetworkingDefaults
    <3>2. 1 \in Nat /\ 4096 \in Nat /\ 4096 <= MaxU32
      BY WidthAssumption
    <3> QED
      BY <2>1, <3>1, <3>2, NumberInBounds, WidthAssumption
  <2>4. net.handshake_timeout_ms \in 500..MaxU32
    <3>1. LET read == Reads["networking"]["handshake_timeout_ms"] IN
          /\ "handshake_timeout_ms" \in DOMAIN Reads["networking"]
          /\ read.get = "int" /\ read.least = 500 /\ read.most = MaxU32
          /\ Defaults["networking"]["handshake_timeout_ms"] = 5000
      BY DEF Reads, NetworkingReads, AtLeast, Within, Defaults, NetworkingDefaults
    <3>2. 5000 \in 500..MaxU32 /\ 500 \in Nat /\ MaxU32 \in Nat /\ MaxU32 <= MaxU32
      BY WidthAssumption
    <3> QED
      BY <2>1, <3>1, <3>2, NumberInBounds, WidthAssumption
  <2>5. net.connection_timeout_ms \in 1000..MaxU32
    <3>1. LET read == Reads["networking"]["connection_timeout_ms"] IN
          /\ "connection_timeout_ms" \in DOMAIN Reads["networking"]
          /\ read.get = "int" /\ read.least = 1000 /\ read.most = MaxU32
          /\ Defaults["networking"]["connection_timeout_ms"] = 15000
      BY DEF Reads, NetworkingReads, AtLeast, Within, Defaults, NetworkingDefaults
    <3>2. 15000 \in 1000..MaxU32 /\ 1000 \in Nat /\ MaxU32 \in Nat /\ MaxU32 <= MaxU32
      BY WidthAssumption
    <3> QED
      BY <2>1, <3>1, <3>2, NumberInBounds, WidthAssumption
  <2>6. net.heartbeat_interval_ms \in 100..MaxU32
    <3>1. LET read == Reads["networking"]["heartbeat_interval_ms"] IN
          /\ "heartbeat_interval_ms" \in DOMAIN Reads["networking"]
          /\ read.get = "int" /\ read.least = 100 /\ read.most = MaxU32
          /\ Defaults["networking"]["heartbeat_interval_ms"] = 2000
      BY DEF Reads, NetworkingReads, AtLeast, Within, Defaults, NetworkingDefaults
    <3>2. 2000 \in 100..MaxU32 /\ 100 \in Nat /\ MaxU32 \in Nat /\ MaxU32 <= MaxU32
      BY WidthAssumption
    <3> QED
      BY <2>1, <3>1, <3>2, NumberInBounds, WidthAssumption
  <2>7. udp.mtu_payload_bytes \in Nat /\ 256 <= udp.mtu_payload_bytes
    <3>1. LET read == Reads["transport"]["mtu_payload_bytes"] IN
          /\ "mtu_payload_bytes" \in DOMAIN Reads["transport"]
          /\ read.get = "int" /\ read.least = 256 /\ read.most = 9000
          /\ Defaults["transport"]["mtu_payload_bytes"] = 1200
      BY DEF Reads, TransportReads, AtLeast, Within, Defaults, TransportDefaults
    <3>2. 256 \in Nat /\ 9000 \in Nat /\ 9000 <= MaxU32
      BY WidthAssumption
    <3> QED
      BY <2>1, <3>1, <3>2, NumberInBounds, WidthAssumption
  <2>8. udp.max_bytes_per_tick \in Nat
    <3>1. LET read == Reads["transport"]["max_bytes_per_tick"] IN
          /\ "max_bytes_per_tick" \in DOMAIN Reads["transport"]
          /\ read.get = "int" /\ read.least = 1 /\ read.most = MaxU32
          /\ Defaults["transport"]["max_bytes_per_tick"] = 262144
      BY DEF Reads, TransportReads, AtLeast, Within, Defaults, TransportDefaults
    <3>2. 262144 \in Nat /\ 1 \in Nat /\ MaxU32 \in Nat /\ MaxU32 <= MaxU32
      BY WidthAssumption
    <3> QED
      BY <2>1, <3>1, <3>2, NumberInBounds, WidthAssumption
  <2>9. Settings(file, "snapshot").pool_capacity \in 2..MaxU32
    <3>1. LET read == Reads["snapshot"]["pool_capacity"] IN
          /\ "pool_capacity" \in DOMAIN Reads["snapshot"]
          /\ read.get = "int" /\ read.least = 2 /\ read.most = MaxU32
          /\ Defaults["snapshot"]["pool_capacity"] = 4
      BY DEF Reads, SnapshotReads, AtLeast, Within, Defaults, SnapshotDefaults
    <3>2. 4 \in 2..MaxU32 /\ 2 \in Nat /\ MaxU32 \in Nat /\ MaxU32 <= MaxU32
      BY WidthAssumption
    <3> QED
      BY <2>1, <3>1, <3>2, NumberInBounds, WidthAssumption
  <2>10. Settings(file, "replication").reliable_queue_depth \in 1..MaxU32
    <3>1. LET read == Reads["replication"]["reliable_queue_depth"] IN
          /\ "reliable_queue_depth" \in DOMAIN Reads["replication"]
          /\ read.get = "int" /\ read.least = 1 /\ read.most = MaxU32
          /\ Defaults["replication"]["reliable_queue_depth"] = 256
      BY DEF Reads, ReplicationReads, AtLeast, Within, Defaults, ReplicationDefaults
    <3>2. 256 \in 1..MaxU32 /\ 1 \in Nat /\ MaxU32 \in Nat /\ MaxU32 <= MaxU32
      BY WidthAssumption
    <3> QED
      BY <2>1, <3>1, <3>2, NumberInBounds, WidthAssumption
  <2>11. save.version \in 1..MaxU32
    <3>1. LET read == Reads["persistence"]["version"] IN
          /\ "version" \in DOMAIN Reads["persistence"]
          /\ read.get = "int" /\ read.least = 1 /\ read.most = MaxU32
          /\ Defaults["persistence"]["version"] = 1
      BY DEF Reads, PersistenceReads, AtLeast, Within, Defaults, PersistenceDefaults
    <3>2. 1 \in 1..MaxU32 /\ 1 \in Nat /\ MaxU32 \in Nat /\ MaxU32 <= MaxU32
      BY WidthAssumption
    <3> QED
      BY <2>1, <3>1, <3>2, NumberInBounds, WidthAssumption
  <2> HIDE DEF net, udp, save
  <2>12. \A x, y \in 1..MaxU32 : x <= y => Ticks(x) \in 1..Ticks(y)
    BY WidthAssumption DEF Ticks
  <2>13. /\ net.handshake_timeout_ms \in 1..MaxU32 /\ net.connection_timeout_ms \in 1..MaxU32
         /\ net.heartbeat_interval_ms \in 1..MaxU32
         /\ net.handshake_timeout_ms <= net.connection_timeout_ms
         /\ net.heartbeat_interval_ms <= net.connection_timeout_ms
    BY <2>2, <2>4, <2>5, <2>6, WidthAssumption DEF NetworkingRules
  <2>14. /\ Ticks(net.handshake_timeout_ms) \in 1..Ticks(net.connection_timeout_ms)
         /\ Ticks(net.heartbeat_interval_ms) \in 1..Ticks(net.connection_timeout_ms)
    BY <2>12, <2>13
  <2>15. udp.mtu_payload_bytes \in (PacketHeaderWireSize + 1)..udp.max_bytes_per_tick
    <3>1. udp.mtu_payload_bytes <= udp.max_bytes_per_tick
      BY <2>2, <2>7, <2>8 DEF TransportRules
    <3> QED
      BY <2>7, <2>8, <3>1 DEF PacketHeaderWireSize
  <2>16. /\ net.max_connections >= 1 /\ Settings(file, "snapshot").pool_capacity >= 2
         /\ Settings(file, "replication").reliable_queue_depth >= 1 /\ save.version >= 1
    BY <2>3, <2>9, <2>10, <2>11, WidthAssumption
  <2>17. /\ save.backpressure_low_watermark <= save.backpressure_high_watermark
         /\ save.backpressure_high_watermark <= save.queue_depth
    BY <2>2 DEF PersistenceRules
  <2> HIDE DEF SettingsFit
  <2>18. LET f == file IN
         /\ Settings(f, "networking") = net /\ Settings(f, "transport") = udp
         /\ Settings(f, "persistence") = save /\ disk["server"] = f
    BY DEF file, net, udp, save
  <2> QED
    BY ONLY <2>14, <2>15, <2>16, <2>17, <2>18 DEF SettingsFit
<1> QED
  BY <1>1, InvInductive, PTL

=============================================================================
