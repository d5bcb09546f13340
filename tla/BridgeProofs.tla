---------------------------- MODULE BridgeProofs ----------------------------
(***************************************************************************)
(* Proofs about Bridge for every set of clients, addresses and keys.       *)
(*                                                                         *)
(* A handle is a bare address, and a client that goes on calling with that *)
(* of an app it has closed may reach a later app there.  The first half    *)
(* allows it: AnyUseInv holds however the clients use their handles, and   *)
(* carries what the bridge then still promises.  The second half rests on  *)
(* UsageAssumption, and says what holds without such a client.             *)
(***************************************************************************)
EXTENDS Bridge, TLAPS

\* Where a call holds a raw pointer it has looked up.
UseLabels == {"subscribe_register", "subscribe_request", "register", "unregister",
              "unsubscribe", "track"}
\* Where destroy holds the app it has taken out of g_apps.
DestroyLabels == {"destroy_unregister", "destroy_join"}
\* Before an app is in g_apps.
Unpublished == {"new", "start", "publish"}

\* One live app to an address.
ApartInv ==
    \A c, d \in Clients :
        /\ handle[c] # None /\ handle[c] = handle[d]
        /\ object[c] = "live" /\ object[d] = "live"
        => c = d

\* What a client has in hand at a label.
HandInv(c) ==
    /\ pc[c] = "new" => object[c] = "none" /\ loop[c] = "none"
    /\ pc[c] \in {"start", "publish"} => object[c] = "live"
    /\ pc[c] = "start" => loop[c] = "none"
    /\ object[c] = "live" => handle[c] # None
    /\ handle[c] # None => object[c] # "none"
    /\ pc[c] \notin {"new", "closed"} => handle[c] # None
    /\ app[c] # None <=> pc[c] \in UseLabels \cup DestroyLabels
    /\ pc[c] \in UseLabels => key[c] \in Keys
    /\ pc[c] \in {"subscribe_register", "subscribe_request", "unsubscribe"} =>
          key[c] \in Events

\* The pointer a call holds: what it points at, and who else may free that.
PointerInv(c) ==
    app[c] # None =>
        /\ handle[app[c]] = handle[c]
        /\ pc[app[c]] \notin Unpublished
        /\ app[c] # c => object[c] = "freed"
        /\ object[app[c]] # "live" =>
              \E d \in Clients \ {app[c]} : handle[d] = handle[app[c]] /\ object[d] = "freed"

\* The app a destroy has taken is its alone, and there until it frees it.
TakenInv(c) ==
    pc[c] \in DestroyLabels =>
        /\ object[app[c]] = "live"
        /\ \A h \in Handles : g_apps[h] # app[c]
        /\ \A d \in Clients : pc[d] \in DestroyLabels /\ app[d] = app[c] => d = c

ClientsInv == \A c \in Clients : HandInv(c) /\ PointerInv(c) /\ TakenInv(c)

\* g_apps maps an address to a live app there.
PublishedInv ==
    \A h \in Handles : g_apps[h] # None =>
        /\ handle[g_apps[h]] = h
        /\ object[g_apps[h]] = "live"
        /\ pc[g_apps[h]] \notin Unpublished

\* Callbacks run inside a loop, a loop inside a live object; a handler that is
\* not the app's own is that of a client whose app is gone.
InsideInv ==
    \A c \in Clients :
        /\ running[c] # {} => loop[c] \in {"running", "stopping"}
        /\ loop[c] \in {"running", "stopping"} => object[c] = "live"
        /\ \A cb \in running[c] : cb[2] # c => object[cb[2]] = "freed"
        /\ \A k \in Keys : table[c][k] \notin {c, None} => object[table[c][k]] = "freed"

\* Holds whatever handles the clients use.
AnyUseInv == TypeOK /\ ApartInv /\ ClientsInv /\ PublishedInv /\ InsideInv

USE DEF globals, locals, appstate, Goto, Return, Done, RegisterMessageHandler,
        UseLabels, DestroyLabels, Unpublished

\* A new object takes an address no live object has, and nobody points at it.
LEMMA CreateConstructAnyUse ==
    ASSUME AnyUseInv, NEW c \in Clients, CreateConstruct(c)
    PROVE  AnyUseInv'
  <1>a. PICK h \in FreeAddresses : handle' = [handle EXCEPT ![c] = h]
    BY DEF CreateConstruct
  <1>b. /\ h \in Handles /\ h # None
        /\ \A d \in Clients : handle[d] = h => object[d] # "live"
    BY <1>a, NoneAssumption DEF FreeAddresses
  <1>c. \A d \in Clients : app[d] # None => app[d] \in Clients \ {c}
    BY DEF AnyUseInv, TypeOK, ClientsInv, PointerInv, CreateConstruct
  <1>1. TypeOK'
    <2>1. pc' \in [Clients -> Labels]
      BY DEF AnyUseInv, TypeOK, Labels, CreateConstruct
    <2>2. handle' \in [Clients -> Handles \cup {None}]
      BY <1>a, <1>b DEF AnyUseInv, TypeOK
    <2>3. object' \in [Clients -> {"none", "live", "freed"}]
      BY DEF AnyUseInv, TypeOK, CreateConstruct
    <2> QED BY <2>1, <2>2, <2>3 DEF AnyUseInv, TypeOK, CreateConstruct
  <1>2. ApartInv'
    BY <1>a, <1>b DEF AnyUseInv, TypeOK, ApartInv, CreateConstruct
  <1>3. ASSUME NEW d \in Clients PROVE HandInv(d)'
    BY <1>a, <1>b DEF AnyUseInv, TypeOK, ClientsInv, HandInv, CreateConstruct
  <1>4. ASSUME NEW d \in Clients PROVE PointerInv(d)'
    <2> SUFFICES ASSUME app[d] # None PROVE PointerInv(d)'
      BY DEF PointerInv, CreateConstruct
    <2>1. /\ app[d] \in Clients \ {c} /\ d # c
          /\ handle'[app[d]] = handle[app[d]] /\ object'[app[d]] = object[app[d]]
      BY <1>a, <1>c DEF AnyUseInv, ClientsInv, HandInv, CreateConstruct
    <2>2. \A e \in Clients : object[e] = "freed" => handle'[e] = handle[e] /\ object'[e] = "freed"
      BY <1>a DEF AnyUseInv, ClientsInv, HandInv, CreateConstruct
    <2> QED BY <1>a, <2>1, <2>2 DEF AnyUseInv, TypeOK, ClientsInv, PointerInv, CreateConstruct
  <1>5. ASSUME NEW d \in Clients PROVE TakenInv(d)'
    BY DEF AnyUseInv, ClientsInv, TakenInv, CreateConstruct
  <1>6. PublishedInv'
    BY DEF AnyUseInv, PublishedInv, CreateConstruct
  <1>7. InsideInv'
    BY DEF AnyUseInv, ClientsInv, HandInv, InsideInv, CreateConstruct
  <1> QED BY <1>1, <1>2, <1>3, <1>4, <1>5, <1>6, <1>7 DEF AnyUseInv, ClientsInv

\* A failed construction leaves no object.
LEMMA CreateFailsAnyUse ==
    ASSUME AnyUseInv, NEW c \in Clients, CreateFails(c)
    PROVE  AnyUseInv'
  <1>1. TypeOK'
    <2>1. pc' \in [Clients -> Labels]
      BY DEF AnyUseInv, TypeOK, Labels, CreateFails
    <2>2. port' \in [Clients -> {"open", "closing", "closed"}]
      BY DEF AnyUseInv, TypeOK, CreateFails
    <2> QED BY <2>1, <2>2 DEF AnyUseInv, TypeOK, CreateFails
  <1>2. ApartInv'
    BY DEF AnyUseInv, ApartInv, CreateFails
  <1>3. ASSUME NEW d \in Clients PROVE HandInv(d)'
    BY DEF AnyUseInv, ClientsInv, HandInv, TakenInv, CreateFails
  <1>4. ASSUME NEW d \in Clients PROVE PointerInv(d)'
    BY DEF AnyUseInv, ClientsInv, PointerInv, CreateFails
  <1>5. ASSUME NEW d \in Clients PROVE TakenInv(d)'
    BY DEF AnyUseInv, ClientsInv, TakenInv, CreateFails
  <1>6. PublishedInv'
    BY DEF AnyUseInv, PublishedInv, CreateFails
  <1>7. InsideInv'
    BY DEF AnyUseInv, InsideInv, CreateFails
  <1> QED BY <1>1, <1>2, <1>3, <1>4, <1>5, <1>6, <1>7 DEF AnyUseInv, ClientsInv

\* The loop starts inside a live object.
LEMMA CreateStartAnyUse ==
    ASSUME AnyUseInv, NEW c \in Clients, CreateStart(c)
    PROVE  AnyUseInv'
  <1>1. TypeOK'
    <2>1. pc' \in [Clients -> Labels]
      BY DEF AnyUseInv, TypeOK, Labels, CreateStart
    <2>2. loop' \in [Clients -> {"none", "running", "stopping", "ended"}]
      BY DEF AnyUseInv, TypeOK, CreateStart
    <2> QED BY <2>1, <2>2 DEF AnyUseInv, TypeOK, CreateStart
  <1>2. ApartInv'
    BY DEF AnyUseInv, ApartInv, CreateStart
  <1>3. ASSUME NEW d \in Clients PROVE HandInv(d)'
    BY DEF AnyUseInv, TypeOK, ClientsInv, HandInv, CreateStart
  <1>4. ASSUME NEW d \in Clients PROVE PointerInv(d)'
    BY DEF AnyUseInv, ClientsInv, PointerInv, CreateStart
  <1>5. ASSUME NEW d \in Clients PROVE TakenInv(d)'
    BY DEF AnyUseInv, ClientsInv, TakenInv, CreateStart
  <1>6. PublishedInv'
    BY DEF AnyUseInv, PublishedInv, CreateStart
  <1>7. InsideInv'
    BY DEF AnyUseInv, ClientsInv, HandInv, InsideInv, CreateStart
  <1> QED BY <1>1, <1>2, <1>3, <1>4, <1>5, <1>6, <1>7 DEF AnyUseInv, ClientsInv

\* An app that is freed before its publication was known to no other call.
LEMMA CreateStartFailsAnyUse ==
    ASSUME AnyUseInv, NEW c \in Clients, CreateStartFails(c)
    PROVE  AnyUseInv'
  <1>1. TypeOK'
    <2>1. pc' \in [Clients -> Labels]
      BY DEF AnyUseInv, TypeOK, Labels, CreateStartFails
    <2>2. object' \in [Clients -> {"none", "live", "freed"}]
      BY DEF AnyUseInv, TypeOK, CreateStartFails
    <2>3. handle' \in [Clients -> Handles \cup {None}]
      BY DEF AnyUseInv, TypeOK, CreateStartFails
    <2>4. port' \in [Clients -> {"open", "closing", "closed"}]
      BY DEF AnyUseInv, TypeOK, CreateStartFails
    <2> QED BY <2>1, <2>2, <2>3, <2>4 DEF AnyUseInv, TypeOK, CreateStartFails
  <1>2. ApartInv'
    BY DEF AnyUseInv, ApartInv, CreateStartFails
  <1>3. ASSUME NEW d \in Clients PROVE HandInv(d)'
    BY DEF AnyUseInv, TypeOK, ClientsInv, HandInv, CreateStartFails
  <1>4. ASSUME NEW d \in Clients PROVE PointerInv(d)'
    BY DEF AnyUseInv, ClientsInv, HandInv, PointerInv, CreateStartFails
  <1>5. ASSUME NEW d \in Clients PROVE TakenInv(d)'
    BY DEF AnyUseInv, ClientsInv, HandInv, PointerInv, TakenInv, CreateStartFails
  <1>6. PublishedInv'
    BY DEF AnyUseInv, PublishedInv, CreateStartFails
  <1>7. InsideInv'
    BY DEF AnyUseInv, ClientsInv, HandInv, InsideInv, CreateStartFails
  <1> QED BY <1>1, <1>2, <1>3, <1>4, <1>5, <1>6, <1>7 DEF AnyUseInv, ClientsInv

\* Only a live app is published, at its own address.
LEMMA CreatePublishAnyUse ==
    ASSUME AnyUseInv, NEW c \in Clients, CreatePublish(c)
    PROVE  AnyUseInv'
  <1>1. TypeOK'
    <2>1. pc' \in [Clients -> Labels]
      BY DEF AnyUseInv, TypeOK, Labels, CreatePublish
    <2>2. g_apps' \in [Handles -> Clients \cup {None}]
      BY DEF AnyUseInv, TypeOK, CreatePublish
    <2> QED BY <2>1, <2>2 DEF AnyUseInv, TypeOK, CreatePublish
  <1>2. ApartInv'
    BY DEF AnyUseInv, ApartInv, CreatePublish
  <1>3. ASSUME NEW d \in Clients PROVE HandInv(d)'
    BY DEF AnyUseInv, ClientsInv, HandInv, PublishedInv, CreatePublish
  <1>4. ASSUME NEW d \in Clients PROVE PointerInv(d)'
    BY DEF AnyUseInv, ClientsInv, PointerInv, CreatePublish
  <1>5. ASSUME NEW d \in Clients PROVE TakenInv(d)'
    BY DEF AnyUseInv, ClientsInv, HandInv, PointerInv, TakenInv, CreatePublish
  <1>6. PublishedInv'
    BY DEF AnyUseInv, TypeOK, ClientsInv, HandInv, PublishedInv, CreatePublish
  <1>7. InsideInv'
    BY DEF AnyUseInv, InsideInv, CreatePublish
  <1> QED BY <1>1, <1>2, <1>3, <1>4, <1>5, <1>6, <1>7 DEF AnyUseInv, ClientsInv

\* get_app finds the live app at that address: the own one, or the own one is gone.
LEMMA GetAppAnyUse ==
    ASSUME AnyUseInv, NEW c \in Clients, NEW l \in UseLabels \ {"subscribe_request", "track"},
           NEW k \in IF l \in {"register", "unregister"} THEN Methods ELSE Events, GetApp(c, l, k)
    PROVE  AnyUseInv'
  <1>a. PICK a \in Clients : a = g_apps[handle[c]]
    BY DEF AnyUseInv, TypeOK, ClientsInv, HandInv, GetApp, Idle
  <1>b. /\ handle[c] \in Handles /\ handle[a] = handle[c]
        /\ object[a] = "live" /\ pc[a] \notin Unpublished
        /\ pc[c] \in {"open", "closed"}
    BY <1>a DEF AnyUseInv, TypeOK, ClientsInv, HandInv, PublishedInv, GetApp, Idle
  <1>c. a # c => object[c] = "freed"
    BY <1>b DEF AnyUseInv, TypeOK, ApartInv, ClientsInv, HandInv
  <1>d. app' = [app EXCEPT ![c] = a] /\ key' = [key EXCEPT ![c] = k] /\ k \in Keys
    BY <1>a DEF GetApp, Keys
  <1>1. TypeOK'
    <2>1. pc' \in [Clients -> Labels]
      BY DEF AnyUseInv, TypeOK, Labels, GetApp
    <2>2. key' \in [Clients -> Keys \cup {None}]
      BY <1>d DEF AnyUseInv, TypeOK
    <2>3. app' \in [Clients -> Clients \cup {None}]
      BY <1>d DEF AnyUseInv, TypeOK
    <2> QED BY <2>1, <2>2, <2>3 DEF AnyUseInv, TypeOK, GetApp
  <1>2. ApartInv'
    BY DEF AnyUseInv, ApartInv, GetApp
  <1>3. ASSUME NEW d \in Clients PROVE HandInv(d)'
    BY <1>b, <1>d DEF AnyUseInv, TypeOK, ClientsInv, HandInv, GetApp
  <1>4. ASSUME NEW d \in Clients PROVE PointerInv(d)'
    <2>1. CASE d = c
      BY <1>b, <1>c, <1>d, <2>1 DEF AnyUseInv, TypeOK, PointerInv, GetApp
    <2>2. CASE d # c
      BY <1>d, <2>2 DEF AnyUseInv, ClientsInv, PointerInv, GetApp
    <2> QED BY <2>1, <2>2
  <1>5. ASSUME NEW d \in Clients PROVE TakenInv(d)'
    BY DEF AnyUseInv, TypeOK, ClientsInv, TakenInv, GetApp
  <1>6. PublishedInv'
    BY DEF AnyUseInv, PublishedInv, GetApp
  <1>7. InsideInv'
    BY DEF AnyUseInv, InsideInv, GetApp
  <1> QED BY <1>1, <1>2, <1>3, <1>4, <1>5, <1>6, <1>7 DEF AnyUseInv, ClientsInv

\* A handler is put in for the port of the caller.
LEMMA SubscribeRegisterAnyUse ==
    ASSUME AnyUseInv, NEW c \in Clients, SubscribeRegister(c)
    PROVE  AnyUseInv'
  <1>1. TypeOK'
    <2>1. pc' \in [Clients -> Labels]
      BY DEF AnyUseInv, TypeOK, Labels, SubscribeRegister
    <2>2. table' \in [Clients -> [Keys -> Clients \cup {None}]]
      BY DEF AnyUseInv, TypeOK, SubscribeRegister
    <2> QED BY <2>1, <2>2 DEF AnyUseInv, TypeOK, SubscribeRegister
  <1>2. ApartInv'
    BY DEF AnyUseInv, ApartInv, SubscribeRegister
  <1>3. ASSUME NEW d \in Clients PROVE HandInv(d)'
    BY DEF AnyUseInv, ClientsInv, HandInv, SubscribeRegister
  <1>4. ASSUME NEW d \in Clients PROVE PointerInv(d)'
    BY DEF AnyUseInv, ClientsInv, PointerInv, SubscribeRegister
  <1>5. ASSUME NEW d \in Clients PROVE TakenInv(d)'
    BY DEF AnyUseInv, ClientsInv, TakenInv, SubscribeRegister
  <1>6. PublishedInv'
    BY DEF AnyUseInv, PublishedInv, SubscribeRegister
  <1>7. InsideInv'
    BY DEF AnyUseInv, ClientsInv, HandInv, PointerInv, InsideInv, SubscribeRegister
  <1> QED BY <1>1, <1>2, <1>3, <1>4, <1>5, <1>6, <1>7 DEF AnyUseInv, ClientsInv

\* A subscription moves no object.
LEMMA SubscribeRequestAnyUse ==
    ASSUME AnyUseInv, NEW c \in Clients, SubscribeRequest(c)
    PROVE  AnyUseInv'
  <1>1. TypeOK'
    <2>1. pc' \in [Clients -> Labels]
      BY DEF AnyUseInv, TypeOK, Labels, SubscribeRequest
    <2>2. subs' \in [Clients -> SUBSET Events]
      BY DEF AnyUseInv, TypeOK, ClientsInv, HandInv, SubscribeRequest
    <2> QED BY <2>1, <2>2 DEF AnyUseInv, TypeOK, SubscribeRequest
  <1>2. ApartInv'
    BY DEF AnyUseInv, ApartInv, SubscribeRequest
  <1>3. ASSUME NEW d \in Clients PROVE HandInv(d)'
    BY DEF AnyUseInv, ClientsInv, HandInv, SubscribeRequest
  <1>4. ASSUME NEW d \in Clients PROVE PointerInv(d)'
    BY DEF AnyUseInv, ClientsInv, PointerInv, SubscribeRequest
  <1>5. ASSUME NEW d \in Clients PROVE TakenInv(d)'
    BY DEF AnyUseInv, ClientsInv, TakenInv, SubscribeRequest
  <1>6. PublishedInv'
    BY DEF AnyUseInv, PublishedInv, SubscribeRequest
  <1>7. InsideInv'
    BY DEF AnyUseInv, InsideInv, SubscribeRequest
  <1> QED BY <1>1, <1>2, <1>3, <1>4, <1>5, <1>6, <1>7 DEF AnyUseInv, ClientsInv

\* A handler is put in for the port of the caller.
LEMMA RegisterAnyUse ==
    ASSUME AnyUseInv, NEW c \in Clients, Register(c)
    PROVE  AnyUseInv'
  <1>1. TypeOK'
    <2>1. pc' \in [Clients -> Labels]
      BY DEF AnyUseInv, TypeOK, Labels, Register
    <2>2. table' \in [Clients -> [Keys -> Clients \cup {None}]]
      BY DEF AnyUseInv, TypeOK, Register
    <2> QED BY <2>1, <2>2 DEF AnyUseInv, TypeOK, Register
  <1>2. ApartInv'
    BY DEF AnyUseInv, ApartInv, Register
  <1>3. ASSUME NEW d \in Clients PROVE HandInv(d)'
    BY DEF AnyUseInv, ClientsInv, HandInv, Register
  <1>4. ASSUME NEW d \in Clients PROVE PointerInv(d)'
    BY DEF AnyUseInv, ClientsInv, PointerInv, Register
  <1>5. ASSUME NEW d \in Clients PROVE TakenInv(d)'
    BY DEF AnyUseInv, ClientsInv, TakenInv, Register
  <1>6. PublishedInv'
    BY DEF AnyUseInv, PublishedInv, Register
  <1>7. InsideInv'
    BY DEF AnyUseInv, ClientsInv, HandInv, PointerInv, InsideInv, Register
  <1> QED BY <1>1, <1>2, <1>3, <1>4, <1>5, <1>6, <1>7 DEF AnyUseInv, ClientsInv

\* Tracking a key touches no app.
LEMMA TrackAnyUse ==
    ASSUME AnyUseInv, NEW c \in Clients, Track(c)
    PROVE  AnyUseInv'
  <1>1. TypeOK'
    <2>1. pc' \in [Clients -> Labels]
      BY DEF AnyUseInv, TypeOK, Labels, Track
    <2>2. g_handlers' \in [Handles -> SUBSET Keys]
      BY DEF AnyUseInv, TypeOK, ClientsInv, HandInv, Track
    <2>3. key' \in [Clients -> Keys \cup {None}]
      BY DEF AnyUseInv, TypeOK, Track
    <2>4. app' \in [Clients -> Clients \cup {None}]
      BY DEF AnyUseInv, TypeOK, Track
    <2> QED BY <2>1, <2>2, <2>3, <2>4 DEF AnyUseInv, TypeOK, Track
  <1>2. ApartInv'
    BY DEF AnyUseInv, ApartInv, Track
  <1>3. ASSUME NEW d \in Clients PROVE HandInv(d)'
    BY DEF AnyUseInv, TypeOK, ClientsInv, HandInv, Track
  <1>4. ASSUME NEW d \in Clients PROVE PointerInv(d)'
    BY DEF AnyUseInv, ClientsInv, PointerInv, Track
  <1>5. ASSUME NEW d \in Clients PROVE TakenInv(d)'
    BY DEF AnyUseInv, ClientsInv, TakenInv, Track
  <1>6. PublishedInv'
    BY DEF AnyUseInv, PublishedInv, Track
  <1>7. InsideInv'
    BY DEF AnyUseInv, InsideInv, Track
  <1> QED BY <1>1, <1>2, <1>3, <1>4, <1>5, <1>6, <1>7 DEF AnyUseInv, ClientsInv

\* Taking a handler out leaves the others as they are.
LEMMA UnregisterAnyUse ==
    ASSUME AnyUseInv, NEW c \in Clients, Unregister(c)
    PROVE  AnyUseInv'
  <1>1. TypeOK'
    <2>1. pc' \in [Clients -> Labels]
      BY DEF AnyUseInv, TypeOK, Labels, Unregister
    <2>2. table' \in [Clients -> [Keys -> Clients \cup {None}]]
      BY DEF AnyUseInv, TypeOK, Unregister
    <2>3. key' \in [Clients -> Keys \cup {None}]
      BY DEF AnyUseInv, TypeOK, Unregister
    <2>4. app' \in [Clients -> Clients \cup {None}]
      BY DEF AnyUseInv, TypeOK, Unregister
    <2> QED BY <2>1, <2>2, <2>3, <2>4 DEF AnyUseInv, TypeOK, Unregister
  <1>2. ApartInv'
    BY DEF AnyUseInv, ApartInv, Unregister
  <1>3. ASSUME NEW d \in Clients PROVE HandInv(d)'
    BY DEF AnyUseInv, TypeOK, ClientsInv, HandInv, Unregister
  <1>4. ASSUME NEW d \in Clients PROVE PointerInv(d)'
    BY DEF AnyUseInv, ClientsInv, PointerInv, Unregister
  <1>5. ASSUME NEW d \in Clients PROVE TakenInv(d)'
    BY DEF AnyUseInv, ClientsInv, TakenInv, Unregister
  <1>6. PublishedInv'
    BY DEF AnyUseInv, PublishedInv, Unregister
  <1>7. InsideInv'
    BY DEF AnyUseInv, InsideInv, Unregister
  <1> QED BY <1>1, <1>2, <1>3, <1>4, <1>5, <1>6, <1>7 DEF AnyUseInv, ClientsInv

\* Unsubscribing moves no object.
LEMMA UnsubscribeAnyUse ==
    ASSUME AnyUseInv, NEW c \in Clients, Unsubscribe(c)
    PROVE  AnyUseInv'
  <1>1. TypeOK'
    <2>1. pc' \in [Clients -> Labels]
      BY DEF AnyUseInv, TypeOK, Labels, Unsubscribe
    <2>2. subs' \in [Clients -> SUBSET Events]
      BY DEF AnyUseInv, TypeOK, Unsubscribe
    <2>3. key' \in [Clients -> Keys \cup {None}]
      BY DEF AnyUseInv, TypeOK, Unsubscribe
    <2>4. app' \in [Clients -> Clients \cup {None}]
      BY DEF AnyUseInv, TypeOK, Unsubscribe
    <2> QED BY <2>1, <2>2, <2>3, <2>4 DEF AnyUseInv, TypeOK, Unsubscribe
  <1>2. ApartInv'
    BY DEF AnyUseInv, ApartInv, Unsubscribe
  <1>3. ASSUME NEW d \in Clients PROVE HandInv(d)'
    BY DEF AnyUseInv, TypeOK, ClientsInv, HandInv, Unsubscribe
  <1>4. ASSUME NEW d \in Clients PROVE PointerInv(d)'
    BY DEF AnyUseInv, ClientsInv, PointerInv, Unsubscribe
  <1>5. ASSUME NEW d \in Clients PROVE TakenInv(d)'
    BY DEF AnyUseInv, ClientsInv, TakenInv, Unsubscribe
  <1>6. PublishedInv'
    BY DEF AnyUseInv, PublishedInv, Unsubscribe
  <1>7. InsideInv'
    BY DEF AnyUseInv, InsideInv, Unsubscribe
  <1> QED BY <1>1, <1>2, <1>3, <1>4, <1>5, <1>6, <1>7 DEF AnyUseInv, ClientsInv

\* Closing takes nothing away yet.
LEMMA CloseAnyUse ==
    ASSUME AnyUseInv, NEW c \in Clients, Close(c)
    PROVE  AnyUseInv'
  <1>1. TypeOK'
    <2>1. pc' \in [Clients -> Labels]
      BY DEF AnyUseInv, TypeOK, Labels, Close
    <2>2. port' \in [Clients -> {"open", "closing", "closed"}]
      BY DEF AnyUseInv, TypeOK, Close
    <2> QED BY <2>1, <2>2 DEF AnyUseInv, TypeOK, Close
  <1>2. ApartInv'
    BY DEF AnyUseInv, ApartInv, Close
  <1>3. ASSUME NEW d \in Clients PROVE HandInv(d)'
    BY DEF AnyUseInv, ClientsInv, HandInv, Close, Idle
  <1>4. ASSUME NEW d \in Clients PROVE PointerInv(d)'
    BY DEF AnyUseInv, ClientsInv, PointerInv, Close
  <1>5. ASSUME NEW d \in Clients PROVE TakenInv(d)'
    BY DEF AnyUseInv, ClientsInv, TakenInv, Close
  <1>6. PublishedInv'
    BY DEF AnyUseInv, PublishedInv, Close
  <1>7. InsideInv'
    BY DEF AnyUseInv, InsideInv, Close
  <1> QED BY <1>1, <1>2, <1>3, <1>4, <1>5, <1>6, <1>7 DEF AnyUseInv, ClientsInv

\* A port that closes changes nothing in the bridge.
LEMMA PortClosesAnyUse ==
    ASSUME AnyUseInv, NEW c \in Clients, PortCloses(c)
    PROVE  AnyUseInv'
  <1>1. TypeOK'
    <2>1. port' \in [Clients -> {"open", "closing", "closed"}]
      BY DEF AnyUseInv, TypeOK, PortCloses
    <2> QED BY <2>1 DEF AnyUseInv, TypeOK, PortCloses
  <1>2. ApartInv'
    BY DEF AnyUseInv, ApartInv, PortCloses
  <1>3. ASSUME NEW d \in Clients PROVE HandInv(d)'
    BY DEF AnyUseInv, ClientsInv, HandInv, PortCloses
  <1>4. ASSUME NEW d \in Clients PROVE PointerInv(d)'
    BY DEF AnyUseInv, ClientsInv, PointerInv, PortCloses
  <1>5. ASSUME NEW d \in Clients PROVE TakenInv(d)'
    BY DEF AnyUseInv, ClientsInv, TakenInv, PortCloses
  <1>6. PublishedInv'
    BY DEF AnyUseInv, PublishedInv, PortCloses
  <1>7. InsideInv'
    BY DEF AnyUseInv, InsideInv, PortCloses
  <1> QED BY <1>1, <1>2, <1>3, <1>4, <1>5, <1>6, <1>7 DEF AnyUseInv, ClientsInv

\* A handle with no app is closed without effect.
LEMMA DestroyUnknownAnyUse ==
    ASSUME AnyUseInv, NEW c \in Clients, DestroyUnknown(c)
    PROVE  AnyUseInv'
  <1>1. TypeOK'
    <2>1. pc' \in [Clients -> Labels]
      BY DEF AnyUseInv, TypeOK, Labels, DestroyUnknown
    <2> QED BY <2>1 DEF AnyUseInv, TypeOK, DestroyUnknown
  <1>2. ApartInv'
    BY DEF AnyUseInv, ApartInv, DestroyUnknown
  <1>3. ASSUME NEW d \in Clients PROVE HandInv(d)'
    BY DEF AnyUseInv, ClientsInv, HandInv, DestroyUnknown
  <1>4. ASSUME NEW d \in Clients PROVE PointerInv(d)'
    BY DEF AnyUseInv, ClientsInv, PointerInv, DestroyUnknown
  <1>5. ASSUME NEW d \in Clients PROVE TakenInv(d)'
    BY DEF AnyUseInv, ClientsInv, TakenInv, DestroyUnknown
  <1>6. PublishedInv'
    BY DEF AnyUseInv, PublishedInv, DestroyUnknown
  <1>7. InsideInv'
    BY DEF AnyUseInv, InsideInv, DestroyUnknown
  <1> QED BY <1>1, <1>2, <1>3, <1>4, <1>5, <1>6, <1>7 DEF AnyUseInv, ClientsInv

\* What destroy takes is live, and nobody else has taken it or can find it.
LEMMA DestroyTakeAnyUse ==
    ASSUME AnyUseInv, NEW c \in Clients, DestroyTake(c)
    PROVE  AnyUseInv'
  <1>a. PICK a \in Clients : a = g_apps[handle[c]]
    BY DEF AnyUseInv, TypeOK, ClientsInv, HandInv, DestroyTake
  <1>b. /\ handle[c] \in Handles /\ handle[a] = handle[c]
        /\ object[a] = "live" /\ pc[a] \notin Unpublished
    BY <1>a DEF AnyUseInv, TypeOK, ClientsInv, HandInv, PublishedInv, DestroyTake
  <1>c. a # c => object[c] = "freed"
    BY <1>b DEF AnyUseInv, TypeOK, ApartInv, ClientsInv, HandInv
  <1>d. /\ app' = [app EXCEPT ![c] = a]
        /\ g_apps' = [g_apps EXCEPT ![handle[c]] = None]
        /\ pc' = [pc EXCEPT ![c] = "destroy_unregister"]
    BY <1>a DEF DestroyTake
  <1>1. TypeOK'
    <2>1. pc' \in [Clients -> Labels]
      BY DEF AnyUseInv, TypeOK, Labels, DestroyTake
    <2>2. app' \in [Clients -> Clients \cup {None}]
      BY DEF AnyUseInv, TypeOK, ClientsInv, HandInv, DestroyTake
    <2>3. handlers' \in [Clients -> SUBSET Keys]
      BY <1>b DEF AnyUseInv, TypeOK, DestroyTake
    <2>4. g_apps' \in [Handles -> Clients \cup {None}]
      BY DEF AnyUseInv, TypeOK, DestroyTake
    <2>5. g_handlers' \in [Handles -> SUBSET Keys]
      BY DEF AnyUseInv, TypeOK, DestroyTake
    <2> QED BY <2>1, <2>2, <2>3, <2>4, <2>5 DEF AnyUseInv, TypeOK, DestroyTake
  <1>2. ApartInv'
    BY DEF AnyUseInv, ApartInv, DestroyTake
  <1>3. ASSUME NEW d \in Clients PROVE HandInv(d)'
    BY <1>d DEF AnyUseInv, TypeOK, ClientsInv, HandInv, DestroyTake
  <1>4. ASSUME NEW d \in Clients PROVE PointerInv(d)'
    <2>1. CASE d = c
      BY <1>b, <1>c, <1>d, <2>1 DEF AnyUseInv, TypeOK, PointerInv, DestroyTake
    <2>2. CASE d # c
      BY <1>d, <2>2 DEF AnyUseInv, ClientsInv, PointerInv, DestroyTake
    <2> QED BY <2>1, <2>2
  <1>5. ASSUME NEW d \in Clients PROVE TakenInv(d)'
    <2>1. \A h \in Handles : g_apps'[h] # a
      BY <1>b, <1>d, NoneAssumption DEF AnyUseInv, TypeOK, PublishedInv
    <2>2. \A e \in Clients : pc[e] \in DestroyLabels => app[e] # a
      BY <1>a, <1>b DEF AnyUseInv, ClientsInv, TakenInv
    <2>3. CASE d = c
      BY <1>b, <1>d, <2>1, <2>2, <2>3 DEF AnyUseInv, TypeOK, TakenInv, DestroyTake
    <2>4. CASE d # c
      BY <1>d, <2>2, <2>4 DEF AnyUseInv, ClientsInv, HandInv, TakenInv, DestroyTake
    <2> QED BY <2>3, <2>4
  <1>6. PublishedInv'
    BY DEF AnyUseInv, PublishedInv, DestroyTake
  <1>7. InsideInv'
    BY DEF AnyUseInv, InsideInv, DestroyTake
  <1> QED BY <1>1, <1>2, <1>3, <1>4, <1>5, <1>6, <1>7 DEF AnyUseInv, ClientsInv

\* Taking handlers out leaves the others as they are.
LEMMA DestroyUnregisterAnyUse ==
    ASSUME AnyUseInv, NEW c \in Clients, DestroyUnregister(c)
    PROVE  AnyUseInv'
  <1>1. TypeOK'
    <2>1. handlers' \in [Clients -> SUBSET Keys]
      BY DEF AnyUseInv, TypeOK, DestroyUnregister
    <2>2. table' \in [Clients -> [Keys -> Clients \cup {None}]]
      BY DEF AnyUseInv, TypeOK, ClientsInv, HandInv, DestroyUnregister
    <2> QED BY <2>1, <2>2 DEF AnyUseInv, TypeOK, DestroyUnregister
  <1>2. ApartInv'
    BY DEF AnyUseInv, ApartInv, DestroyUnregister
  <1>3. ASSUME NEW d \in Clients PROVE HandInv(d)'
    BY DEF AnyUseInv, ClientsInv, HandInv, DestroyUnregister
  <1>4. ASSUME NEW d \in Clients PROVE PointerInv(d)'
    BY DEF AnyUseInv, ClientsInv, PointerInv, DestroyUnregister
  <1>5. ASSUME NEW d \in Clients PROVE TakenInv(d)'
    BY DEF AnyUseInv, ClientsInv, TakenInv, DestroyUnregister
  <1>6. PublishedInv'
    BY DEF AnyUseInv, PublishedInv, DestroyUnregister
  <1>7. InsideInv'
    BY DEF AnyUseInv, InsideInv, DestroyUnregister
  <1> QED BY <1>1, <1>2, <1>3, <1>4, <1>5, <1>6, <1>7 DEF AnyUseInv, ClientsInv

\* Stopping the loop frees nothing.
LEMMA DestroyStopAnyUse ==
    ASSUME AnyUseInv, NEW c \in Clients, DestroyStop(c)
    PROVE  AnyUseInv'
  <1>1. TypeOK'
    <2>1. pc' \in [Clients -> Labels]
      BY DEF AnyUseInv, TypeOK, Labels, DestroyStop
    <2>2. loop' \in [Clients -> {"none", "running", "stopping", "ended"}]
      BY DEF AnyUseInv, TypeOK, DestroyStop
    <2> QED BY <2>1, <2>2 DEF AnyUseInv, TypeOK, DestroyStop
  <1>2. ApartInv'
    BY DEF AnyUseInv, ApartInv, DestroyStop
  <1>3. ASSUME NEW d \in Clients PROVE HandInv(d)'
    BY DEF AnyUseInv, ClientsInv, HandInv, DestroyStop
  <1>4. ASSUME NEW d \in Clients PROVE PointerInv(d)'
    BY DEF AnyUseInv, ClientsInv, PointerInv, DestroyStop
  <1>5. ASSUME NEW d \in Clients PROVE TakenInv(d)'
    BY DEF AnyUseInv, ClientsInv, TakenInv, DestroyStop
  <1>6. PublishedInv'
    BY DEF AnyUseInv, PublishedInv, DestroyStop
  <1>7. InsideInv'
    BY DEF AnyUseInv, InsideInv, DestroyStop
  <1> QED BY <1>1, <1>2, <1>3, <1>4, <1>5, <1>6, <1>7 DEF AnyUseInv, ClientsInv

\* Whoever still points at the app freed here, or has it for its own, shares its address.
LEMMA DestroyJoinAnyUse ==
    ASSUME AnyUseInv, NEW c \in Clients, DestroyJoin(c)
    PROVE  AnyUseInv'
  <1>1. TypeOK'
    <2>1. pc' \in [Clients -> Labels]
      BY DEF AnyUseInv, TypeOK, Labels, DestroyJoin
    <2>2. object' \in [Clients -> {"none", "live", "freed"}]
      BY DEF AnyUseInv, TypeOK, DestroyJoin
    <2>3. key' \in [Clients -> Keys \cup {None}]
      BY DEF AnyUseInv, TypeOK, DestroyJoin
    <2>4. app' \in [Clients -> Clients \cup {None}]
      BY DEF AnyUseInv, TypeOK, DestroyJoin
    <2> QED BY <2>1, <2>2, <2>3, <2>4 DEF AnyUseInv, TypeOK, DestroyJoin
  <1>2. ApartInv'
    BY DEF AnyUseInv, ApartInv, DestroyJoin
  <1>3. ASSUME NEW d \in Clients PROVE HandInv(d)'
    BY DEF AnyUseInv, TypeOK, ClientsInv, HandInv, PointerInv, DestroyJoin
  <1>4. ASSUME NEW d \in Clients PROVE PointerInv(d)'
    BY DEF AnyUseInv, TypeOK, ClientsInv, PointerInv, DestroyJoin
  <1>5. ASSUME NEW d \in Clients PROVE TakenInv(d)'
    BY DEF AnyUseInv, TypeOK, ClientsInv, TakenInv, DestroyJoin
  <1>6. PublishedInv'
    BY DEF AnyUseInv, ClientsInv, TakenInv, PublishedInv, DestroyJoin
  <1>7. InsideInv'
    BY DEF AnyUseInv, InsideInv, DestroyJoin
  <1> QED BY <1>1, <1>2, <1>3, <1>4, <1>5, <1>6, <1>7 DEF AnyUseInv, ClientsInv

\* A state callback goes to the own port.
LEMMA StateCallbackAnyUse ==
    ASSUME AnyUseInv, NEW c \in Clients, StateCallback(c)
    PROVE  AnyUseInv'
  <1>1. TypeOK'
    <2>1. running' \in [Clients -> SUBSET ((Keys \cup {StateChange}) \X Clients)]
      BY DEF AnyUseInv, TypeOK, StateCallback
    <2> QED BY <2>1 DEF AnyUseInv, TypeOK, StateCallback
  <1>2. ApartInv'
    BY DEF AnyUseInv, ApartInv, StateCallback
  <1>3. ASSUME NEW d \in Clients PROVE HandInv(d)'
    BY DEF AnyUseInv, ClientsInv, HandInv, StateCallback
  <1>4. ASSUME NEW d \in Clients PROVE PointerInv(d)'
    BY DEF AnyUseInv, ClientsInv, PointerInv, StateCallback
  <1>5. ASSUME NEW d \in Clients PROVE TakenInv(d)'
    BY DEF AnyUseInv, ClientsInv, TakenInv, StateCallback
  <1>6. PublishedInv'
    BY DEF AnyUseInv, PublishedInv, StateCallback
  <1>7. InsideInv'
    BY DEF AnyUseInv, InsideInv, StateCallback
  <1> QED BY <1>1, <1>2, <1>3, <1>4, <1>5, <1>6, <1>7 DEF AnyUseInv, ClientsInv

\* A message goes to a port from the table.
LEMMA DispatchAnyUse ==
    ASSUME AnyUseInv, NEW c \in Clients, NEW k \in Keys, Dispatch(c, k)
    PROVE  AnyUseInv'
  <1>1. TypeOK'
    <2>1. running' \in [Clients -> SUBSET ((Keys \cup {StateChange}) \X Clients)]
      BY DEF AnyUseInv, TypeOK, Dispatch
    <2> QED BY <2>1 DEF AnyUseInv, TypeOK, Dispatch
  <1>2. ApartInv'
    BY DEF AnyUseInv, ApartInv, Dispatch
  <1>3. ASSUME NEW d \in Clients PROVE HandInv(d)'
    BY DEF AnyUseInv, ClientsInv, HandInv, Dispatch
  <1>4. ASSUME NEW d \in Clients PROVE PointerInv(d)'
    BY DEF AnyUseInv, ClientsInv, PointerInv, Dispatch
  <1>5. ASSUME NEW d \in Clients PROVE TakenInv(d)'
    BY DEF AnyUseInv, ClientsInv, TakenInv, Dispatch
  <1>6. PublishedInv'
    BY DEF AnyUseInv, PublishedInv, Dispatch
  <1>7. InsideInv'
    BY DEF AnyUseInv, InsideInv, Dispatch
  <1> QED BY <1>1, <1>2, <1>3, <1>4, <1>5, <1>6, <1>7 DEF AnyUseInv, ClientsInv

\* A callback that returned is gone.
LEMMA CallbackReturnsAnyUse ==
    ASSUME AnyUseInv, NEW c \in Clients, CallbackReturns(c)
    PROVE  AnyUseInv'
  <1>1. TypeOK'
    <2>1. running' \in [Clients -> SUBSET ((Keys \cup {StateChange}) \X Clients)]
      BY DEF AnyUseInv, TypeOK, CallbackReturns
    <2> QED BY <2>1 DEF AnyUseInv, TypeOK, CallbackReturns
  <1>2. ApartInv'
    BY DEF AnyUseInv, ApartInv, CallbackReturns
  <1>3. ASSUME NEW d \in Clients PROVE HandInv(d)'
    BY DEF AnyUseInv, ClientsInv, HandInv, CallbackReturns
  <1>4. ASSUME NEW d \in Clients PROVE PointerInv(d)'
    BY DEF AnyUseInv, ClientsInv, PointerInv, CallbackReturns
  <1>5. ASSUME NEW d \in Clients PROVE TakenInv(d)'
    BY DEF AnyUseInv, ClientsInv, TakenInv, CallbackReturns
  <1>6. PublishedInv'
    BY DEF AnyUseInv, PublishedInv, CallbackReturns
  <1>7. InsideInv'
    BY DEF AnyUseInv, InsideInv, CallbackReturns
  <1> QED BY <1>1, <1>2, <1>3, <1>4, <1>5, <1>6, <1>7 DEF AnyUseInv, ClientsInv

\* The loop ends with no callback left.
LEMMA LoopEndsAnyUse ==
    ASSUME AnyUseInv, NEW c \in Clients, LoopEnds(c)
    PROVE  AnyUseInv'
  <1>1. TypeOK'
    <2>1. loop' \in [Clients -> {"none", "running", "stopping", "ended"}]
      BY DEF AnyUseInv, TypeOK, LoopEnds
    <2> QED BY <2>1 DEF AnyUseInv, TypeOK, LoopEnds
  <1>2. ApartInv'
    BY DEF AnyUseInv, ApartInv, LoopEnds
  <1>3. ASSUME NEW d \in Clients PROVE HandInv(d)'
    BY DEF AnyUseInv, ClientsInv, HandInv, LoopEnds
  <1>4. ASSUME NEW d \in Clients PROVE PointerInv(d)'
    BY DEF AnyUseInv, ClientsInv, PointerInv, LoopEnds
  <1>5. ASSUME NEW d \in Clients PROVE TakenInv(d)'
    BY DEF AnyUseInv, ClientsInv, TakenInv, LoopEnds
  <1>6. PublishedInv'
    BY DEF AnyUseInv, PublishedInv, LoopEnds
  <1>7. InsideInv'
    BY DEF AnyUseInv, InsideInv, LoopEnds
  <1> QED BY <1>1, <1>2, <1>3, <1>4, <1>5, <1>6, <1>7 DEF AnyUseInv, ClientsInv

\* A loop that throws ends with no callback left.
LEMMA LoopFailsAnyUse ==
    ASSUME AnyUseInv, NEW c \in Clients, LoopFails(c)
    PROVE  AnyUseInv'
  <1>1. TypeOK'
    <2>1. loop' \in [Clients -> {"none", "running", "stopping", "ended"}]
      BY DEF AnyUseInv, TypeOK, LoopFails
    <2> QED BY <2>1 DEF AnyUseInv, TypeOK, LoopFails
  <1>2. ApartInv'
    BY DEF AnyUseInv, ApartInv, LoopFails
  <1>3. ASSUME NEW d \in Clients PROVE HandInv(d)'
    BY DEF AnyUseInv, ClientsInv, HandInv, LoopFails
  <1>4. ASSUME NEW d \in Clients PROVE PointerInv(d)'
    BY DEF AnyUseInv, ClientsInv, PointerInv, LoopFails
  <1>5. ASSUME NEW d \in Clients PROVE TakenInv(d)'
    BY DEF AnyUseInv, ClientsInv, TakenInv, LoopFails
  <1>6. PublishedInv'
    BY DEF AnyUseInv, PublishedInv, LoopFails
  <1>7. InsideInv'
    BY DEF AnyUseInv, InsideInv, LoopFails
  <1> QED BY <1>1, <1>2, <1>3, <1>4, <1>5, <1>6, <1>7 DEF AnyUseInv, ClientsInv

\* Nothing is there at first.
LEMMA InitAnyUse ==
    ASSUME Init
    PROVE  AnyUseInv
  <1>1. TypeOK
    BY DEF Init, TypeOK, Labels
  <1>2. ApartInv
    BY DEF Init, ApartInv
  <1>3. ClientsInv
    BY DEF Init, ClientsInv, HandInv, PointerInv, TakenInv
  <1>4. PublishedInv
    BY DEF Init, PublishedInv
  <1>5. InsideInv
    BY DEF Init, InsideInv
  <1> QED BY <1>1, <1>2, <1>3, <1>4, <1>5 DEF AnyUseInv

\* A step that changes nothing keeps the invariant.
LEMMA StutterAnyUse ==
    ASSUME AnyUseInv, UNCHANGED vars
    PROVE  AnyUseInv'
  <1>1. TypeOK'
    BY DEF AnyUseInv, TypeOK, vars
  <1>2. ApartInv'
    BY DEF AnyUseInv, ApartInv, vars
  <1>3. ClientsInv'
    BY DEF AnyUseInv, ClientsInv, HandInv, PointerInv, TakenInv, vars
  <1>4. PublishedInv'
    BY DEF AnyUseInv, PublishedInv, vars
  <1>5. InsideInv'
    BY DEF AnyUseInv, InsideInv, vars
  <1> QED BY <1>1, <1>2, <1>3, <1>4, <1>5 DEF AnyUseInv

\* Any of the calls that begin with get_app keeps the invariant.
LEMMA CallAnyUse ==
    ASSUME AnyUseInv, NEW c \in Clients, Call(c)
    PROVE  AnyUseInv'
  <1>1. ASSUME NEW k \in Events, GetApp(c, "subscribe_register", k)
        PROVE  AnyUseInv'
    BY <1>1, GetAppAnyUse
  <1>2. ASSUME NEW k \in Events, GetApp(c, "unsubscribe", k)
        PROVE  AnyUseInv'
    BY <1>2, GetAppAnyUse
  <1>3. ASSUME NEW k \in Methods, GetApp(c, "register", k)
        PROVE  AnyUseInv'
    BY <1>3, GetAppAnyUse
  <1>4. ASSUME NEW k \in Methods, GetApp(c, "unregister", k)
        PROVE  AnyUseInv'
    BY <1>4, GetAppAnyUse
  <1> QED BY <1>1, <1>2, <1>3, <1>4 DEF Call

\* Every step keeps the invariant.
LEMMA NextAnyUse ==
    ASSUME AnyUseInv, [Next]_vars
    PROVE  AnyUseInv'
  <1>1. CASE UNCHANGED vars
    BY <1>1, StutterAnyUse
  <1>2. ASSUME NEW c \in Clients, Create(c)
        PROVE  AnyUseInv'
    BY <1>2, CreateConstructAnyUse, CreateFailsAnyUse, CreateStartAnyUse, CreateStartFailsAnyUse,
       CreatePublishAnyUse DEF Create
  <1>3. ASSUME NEW c \in Clients, Use(c)
        PROVE  AnyUseInv'
    <2>1. CASE GetAppNull(c)
      BY <2>1, StutterAnyUse DEF GetAppNull
    <2> QED
      BY <1>3, <2>1, CallAnyUse, SubscribeRegisterAnyUse, SubscribeRequestAnyUse, RegisterAnyUse,
         TrackAnyUse, UnregisterAnyUse, UnsubscribeAnyUse DEF Use
  <1>4. ASSUME NEW c \in Clients, Destroy(c)
        PROVE  AnyUseInv'
    BY <1>4, CloseAnyUse, DestroyUnknownAnyUse, DestroyTakeAnyUse, DestroyUnregisterAnyUse,
       DestroyStopAnyUse, DestroyJoinAnyUse DEF Destroy
  <1>5. ASSUME NEW c \in Clients, PortCloses(c)
        PROVE  AnyUseInv'
    BY <1>5, PortClosesAnyUse
  <1>6. ASSUME NEW c \in Clients, Vsomeip(c)
        PROVE  AnyUseInv'
    BY <1>6, StateCallbackAnyUse, DispatchAnyUse, CallbackReturnsAnyUse, LoopEndsAnyUse, LoopFailsAnyUse
       DEF Vsomeip
  <1> QED BY <1>1, <1>2, <1>3, <1>4, <1>5, <1>6 DEF Next

\* The invariant holds in every state.
LEMMA SpecAnyUse == Spec => []AnyUseInv
  <1>1. Init => AnyUseInv
    BY InitAnyUse
  <1>2. AnyUseInv /\ [Next]_vars => AnyUseInv'
    BY NextAnyUse
  <1> QED BY <1>1, <1>2, PTL DEF Spec

\* The bridge's globals and every call's locals keep their kinds.
THEOREM BridgeTypeOK == Spec => []TypeOK
  <1>1. AnyUseInv => TypeOK
    BY DEF AnyUseInv
  <1> QED BY <1>1, SpecAnyUse, PTL

\* vsomeip_app_destroy leaves nothing that could still post to Dart.
THEOREM BridgeDestroyedIsQuiet == Spec => []DestroyedIsQuiet
  <1>1. AnyUseInv => DestroyedIsQuiet
    BY NoneAssumption DEF AnyUseInv, TypeOK, PublishedInv, InsideInv, DestroyedIsQuiet
  <1> QED BY <1>1, SpecAnyUse, PTL

\* A call is left with a freed VsomeipApp only where another client keeps the
\* handle of a destroyed app that had the same address; a callback never is.
THEOREM BridgeNoUseAfterFree == Spec => []NoUseAfterFree
  <1>1. AnyUseInv => NoUseAfterFree
    BY DEF AnyUseInv, ClientsInv, PointerInv, InsideInv, NoUseAfterFree
  <1> QED BY <1>1, SpecAnyUse, PTL

\* A client whose own app lives acts on no other, and hears from no other but
\* one that acts on it after its own was destroyed.
THEOREM BridgeOwnAppOnly == Spec => []OwnAppOnly
  <1>1. AnyUseInv => OwnAppOnly
    BY DEF AnyUseInv, ClientsInv, PointerInv, InsideInv, OwnAppOnly
  <1> QED BY <1>1, SpecAnyUse, PTL

-----------------------------------------------------------------------------
(* What follows holds of clients of which none goes on calling after its     *)
(* close(), or of an allocator that hands no address out twice.  Two apps    *)
(* then never answer to one address, which is AddressInv.                    *)

UsageAssumption == ~(StaleCalls /\ ReuseAddresses)

\* One live app to an address; with no reuse, one app ever.
AddressInv ==
    \A c, d \in Clients :
        (/\ handle[c] # None /\ handle[c] = handle[d]
         /\ ~ReuseAddresses \/ (object[c] = "live" /\ object[d] = "live")) => c = d

\* What is true of a client, its app and its port while it is at a label.
ClientInv(c) ==
    /\ pc[c] = "new" => object[c] = "none" /\ handle[c] = None /\ loop[c] = "none"
    /\ pc[c] \in {"start", "publish"} => object[c] = "live" /\ handle[c] # None
    /\ pc[c] = "start" => loop[c] = "none"
    /\ pc[c] \in {"new", "start", "publish"} => port[c] = "open"
    /\ pc[c] \in UseLabels \cup {"open"} =>
          handle[c] # None /\ g_apps[handle[c]] = c /\ port[c] = "open"
    /\ pc[c] \in UseLabels => app[c] = c /\ key[c] \in Keys
    /\ pc[c] \in {"subscribe_register", "subscribe_request", "unsubscribe"} =>
          key[c] \in Events
    /\ pc[c] \in {"register", "unregister"} => key[c] \in Methods
    /\ pc[c] = "destroy" =>
          /\ handle[c] # None
          /\ g_apps[handle[c]] = c \/ (~ReuseAddresses /\ object[c] # "live")
    /\ pc[c] \in {"destroy_unregister", "destroy_join"} =>
          app[c] = c /\ object[c] = "live" /\ handle[c] # None
    /\ pc[c] = "closed" => object[c] # "live"
    /\ pc[c] \in {"closed", "destroy", "destroy_unregister", "destroy_join"} =>
          port[c] # "open"
    /\ pc[c] \in Labels \ (UseLabels \cup {"destroy_unregister", "destroy_join"}) =>
          app[c] = None

CallInv == \A c \in Clients : ClientInv(c)

\* g_apps maps an address to the app that lives there, from its publication to
\* the moment destroy takes it.
AppsInv ==
    \A h \in Handles :
        /\ g_apps[h] # None =>
              /\ handle[g_apps[h]] = h
              /\ object[g_apps[h]] = "live"
              /\ pc[g_apps[h]] \in UseLabels \cup {"open", "destroy"}
        /\ g_apps[h] = None => g_handlers[h] = {}

\* Every handler in vsomeip's table is one destroy will unregister.
TableInv ==
    \A c \in Clients, k \in Keys :
        /\ table[c][k] \in {c, None}
        /\ table[c][k] # None =>
              \/ /\ handle[c] # None /\ g_apps[handle[c]] = c
                 /\ \/ k \in g_handlers[handle[c]]
                    \/ pc[c] \in {"subscribe_request", "track"} /\ key[c] = k
              \/ pc[c] = "destroy_unregister" /\ k \in handlers[c]
        /\ pc[c] = "subscribe_request" => table[c][key[c]] # None

\* A published app has a handler for every event it is subscribed to.
SubsInv ==
    \A c \in Clients : handle[c] # None /\ g_apps[handle[c]] = c =>
        \A k \in subs[c] : table[c][k] # None

\* Before an app is published it is subscribed to nothing.
NewInv ==
    \A c \in Clients : pc[c] \in {"new", "start", "publish"} => subs[c] = {}

IInv == AddressInv /\ CallInv /\ AppsInv /\ TableInv /\ SubsInv /\ NewInv
USE DEF ClientInv

\* A new object takes an address no live object has.
LEMMA CreateConstructIInv ==
    ASSUME TypeOK, IInv, UsageAssumption, NEW c \in Clients, CreateConstruct(c)
    PROVE  IInv'
  <1>a. PICK h \in FreeAddresses : handle' = [handle EXCEPT ![c] = h]
    BY DEF CreateConstruct
  <1>b. /\ h \in Handles /\ h # None
        /\ \A d \in Clients : handle[d] = h => ReuseAddresses /\ object[d] # "live"
    BY <1>a, NoneAssumption DEF FreeAddresses
  <1>c. /\ g_apps[h] # c
        /\ \A d \in Clients : handle[d] # None /\ g_apps[handle[d]] = d => d # c
    BY <1>b, NoneAssumption DEF IInv, TypeOK, CallInv, AppsInv, CreateConstruct
  <1>1. AddressInv'
    BY <1>a, <1>b DEF IInv, TypeOK, AddressInv, CreateConstruct
  <1>2. CallInv'
    <2> SUFFICES ASSUME NEW d \in Clients PROVE ClientInv(d)'
      BY DEF CallInv
    <2>1. CASE d = c
      BY <1>a, <1>b, <2>1 DEF IInv, TypeOK, CallInv, CreateConstruct, Labels
    <2>2. CASE d # c
      BY <1>a, <2>2 DEF IInv, TypeOK, CallInv, CreateConstruct
    <2> QED BY <2>1, <2>2
  <1>3. AppsInv'
    BY NoneAssumption DEF IInv, AppsInv, CreateConstruct
  <1>4. TableInv'
    BY NoneAssumption DEF IInv, TypeOK, CallInv, TableInv, CreateConstruct
  <1>5. SubsInv'
    BY <1>a, <1>c DEF IInv, TypeOK, SubsInv, CreateConstruct
  <1>6. NewInv'
    BY NoneAssumption DEF IInv, NewInv, CreateConstruct
  <1> QED BY <1>1, <1>2, <1>3, <1>4, <1>5, <1>6 DEF IInv

\* A failed construction leaves no object and no thread.
LEMMA CreateFailsIInv ==
    ASSUME TypeOK, IInv, UsageAssumption, NEW c \in Clients, CreateFails(c)
    PROVE  IInv'
  <1>1. AddressInv'
    BY NoneAssumption DEF IInv, AddressInv, CreateFails
  <1>2. CallInv'
    BY NoneAssumption DEF IInv, TypeOK, CallInv, CreateFails, Labels
  <1>3. AppsInv'
    BY NoneAssumption DEF IInv, AppsInv, CreateFails
  <1>4. TableInv'
    BY NoneAssumption DEF IInv, TableInv, CreateFails
  <1>5. SubsInv'
    BY NoneAssumption DEF IInv, SubsInv, CreateFails
  <1>6. NewInv'
    BY NoneAssumption DEF IInv, NewInv, CreateFails
  <1> QED BY <1>1, <1>2, <1>3, <1>4, <1>5, <1>6 DEF IInv

\* The loop starts inside a live object.
LEMMA CreateStartIInv ==
    ASSUME TypeOK, IInv, UsageAssumption, NEW c \in Clients, CreateStart(c)
    PROVE  IInv'
  <1>1. AddressInv'
    BY NoneAssumption DEF IInv, AddressInv, CreateStart
  <1>2. CallInv'
    BY NoneAssumption DEF IInv, TypeOK, CallInv, CreateStart, Labels
  <1>3. AppsInv'
    BY NoneAssumption DEF IInv, AppsInv, CreateStart
  <1>4. TableInv'
    BY NoneAssumption DEF IInv, TableInv, CreateStart
  <1>5. SubsInv'
    BY NoneAssumption DEF IInv, SubsInv, CreateStart
  <1>6. NewInv'
    BY NoneAssumption DEF IInv, NewInv, CreateStart
  <1> QED BY <1>1, <1>2, <1>3, <1>4, <1>5, <1>6 DEF IInv

\* An app whose thread cannot start is gone again.
LEMMA CreateStartFailsIInv ==
    ASSUME TypeOK, IInv, UsageAssumption, NEW c \in Clients, CreateStartFails(c)
    PROVE  IInv'
  <1>1. AddressInv'
    BY NoneAssumption DEF IInv, AddressInv, CreateStartFails
  <1>2. CallInv'
    BY NoneAssumption DEF IInv, TypeOK, CallInv, CreateStartFails, Labels
  <1>3. AppsInv'
    BY NoneAssumption DEF IInv, AppsInv, CreateStartFails
  <1>4. TableInv'
    BY NoneAssumption DEF IInv, TypeOK, CallInv, AppsInv, TableInv, CreateStartFails, Labels
  <1>5. SubsInv'
    BY NoneAssumption DEF IInv, SubsInv, CreateStartFails
  <1>6. NewInv'
    BY NoneAssumption DEF IInv, NewInv, CreateStartFails
  <1> QED BY <1>1, <1>2, <1>3, <1>4, <1>5, <1>6 DEF IInv

\* Publishing an app overwrites no other app's entry.
LEMMA CreatePublishIInv ==
    ASSUME TypeOK, IInv, UsageAssumption, NEW c \in Clients, CreatePublish(c)
    PROVE  IInv'
  <1>a. /\ handle[c] \in Handles /\ object[c] = "live"
        /\ \A d \in Clients : handle[d] # None /\ g_apps[handle[d]] = d =>
              object[d] = "live" /\ handle[d] \in Handles
    BY NoneAssumption DEF IInv, TypeOK, CallInv, AppsInv, CreatePublish
  <1>b. \A d \in Clients : handle[d] # None /\ g_apps[handle[d]] = d => d = c \/ handle[d] # handle[c]
    BY <1>a, NoneAssumption DEF IInv, AddressInv
  <1>1. AddressInv'
    BY NoneAssumption DEF IInv, AddressInv, CreatePublish
  <1>2. CallInv'
    <2> SUFFICES ASSUME NEW d \in Clients PROVE ClientInv(d)'
      BY DEF CallInv
    <2>1. CASE d = c
      BY <1>a, <2>1 DEF IInv, TypeOK, CallInv, CreatePublish, Labels
    <2>2. CASE d # c
      BY <1>a, <1>b, <2>2 DEF IInv, TypeOK, CallInv, CreatePublish
    <2> QED BY <2>1, <2>2
  <1>3. AppsInv'
    BY NoneAssumption DEF IInv, TypeOK, CallInv, AppsInv, CreatePublish
  <1>4. TableInv'
    BY NoneAssumption DEF IInv, TypeOK, AddressInv, CallInv, AppsInv, TableInv, CreatePublish, Labels
  <1>5. SubsInv'
    <2> SUFFICES ASSUME NEW d \in Clients, handle[d] # None, g_apps'[handle[d]] = d,
                        NEW k \in subs[d]
                 PROVE  table[d][k] # None
      BY DEF SubsInv, CreatePublish
    <2>1. CASE d = c
      BY <2>1 DEF IInv, NewInv, CreatePublish
    <2>2. CASE d # c
      BY <1>a, <2>2 DEF IInv, TypeOK, SubsInv, CreatePublish
    <2> QED BY <2>1, <2>2
  <1>6. NewInv'
    BY NoneAssumption DEF IInv, NewInv, CreatePublish
  <1> QED BY <1>1, <1>2, <1>3, <1>4, <1>5, <1>6 DEF IInv

\* get_app only ever finds the caller's own app.
LEMMA GetAppIInv ==
    ASSUME TypeOK, IInv, UsageAssumption, NEW c \in Clients, NEW l \in UseLabels \ {"subscribe_request", "track"},
           NEW k \in IF l \in {"register", "unregister"} THEN Methods ELSE Events, GetApp(c, l, k)
    PROVE  IInv'
  <1>a. pc[c] = "open" /\ g_apps[handle[c]] = c
    <2>1. handle[c] \in Handles
      BY NoneAssumption DEF IInv, TypeOK, CallInv, GetApp, Idle
    <2>2. /\ g_apps[handle[c]] # None
          /\ g_apps[handle[c]] \in Clients
          /\ handle[g_apps[handle[c]]] = handle[c]
          /\ pc[g_apps[handle[c]]] # "closed"
      <3>1. g_apps[handle[c]] # None
        BY DEF GetApp
      <3>2. g_apps[handle[c]] \in Clients
        BY <2>1, <3>1 DEF IInv, TypeOK
      <3> QED BY <2>1, <3>1, <3>2 DEF IInv, AppsInv
    <2>3. CASE pc[c] = "open"
      BY <2>3 DEF IInv, CallInv
    <2>4. CASE StaleCalls /\ pc[c] = "closed"
      BY <2>1, <2>2, <2>4, NoneAssumption DEF IInv, AddressInv, UsageAssumption
    <2> QED BY <2>3, <2>4 DEF GetApp, Idle
  <1>b. app' = [app EXCEPT ![c] = c] /\ key' = [key EXCEPT ![c] = k] /\ k \in Keys
    BY <1>a DEF GetApp, Keys
  <1>1. AddressInv'
    BY NoneAssumption DEF IInv, AddressInv, GetApp
  <1>2. CallInv'
    <2> SUFFICES ASSUME NEW d \in Clients PROVE ClientInv(d)'
      BY DEF CallInv
    <2>1. CASE d = c
      BY <1>a, <1>b, <2>1 DEF IInv, TypeOK, CallInv, GetApp, Labels
    <2>2. CASE d # c
      BY <2>2 DEF IInv, TypeOK, CallInv, GetApp
    <2> QED BY <2>1, <2>2
  <1>3. AppsInv'
    BY NoneAssumption DEF IInv, AppsInv, GetApp
  <1>4. TableInv'
    BY <1>a, <1>b DEF IInv, TypeOK, TableInv, GetApp
  <1>5. SubsInv'
    BY NoneAssumption DEF IInv, SubsInv, GetApp
  <1>6. NewInv'
    BY NoneAssumption DEF IInv, NewInv, GetApp
  <1> QED BY <1>1, <1>2, <1>3, <1>4, <1>5, <1>6 DEF IInv

\* The handler is in place before the subscription.
LEMMA SubscribeRegisterIInv ==
    ASSUME TypeOK, IInv, UsageAssumption, NEW c \in Clients, SubscribeRegister(c)
    PROVE  IInv'
  <1>1. AddressInv'
    BY NoneAssumption DEF IInv, AddressInv, SubscribeRegister
  <1>2. CallInv'
    BY NoneAssumption DEF IInv, CallInv, SubscribeRegister, Labels
  <1>3. AppsInv'
    BY NoneAssumption DEF IInv, AppsInv, SubscribeRegister
  <1>4. TableInv'
    BY NoneAssumption DEF IInv, TypeOK, CallInv, TableInv, SubscribeRegister
  <1>5. SubsInv'
    BY NoneAssumption DEF IInv, SubsInv, SubscribeRegister
  <1>6. NewInv'
    BY NoneAssumption DEF IInv, NewInv, SubscribeRegister
  <1> QED BY <1>1, <1>2, <1>3, <1>4, <1>5, <1>6 DEF IInv

\* The subscription finds its handler in place.
LEMMA SubscribeRequestIInv ==
    ASSUME TypeOK, IInv, UsageAssumption, NEW c \in Clients, SubscribeRequest(c)
    PROVE  IInv'
  <1>1. AddressInv'
    BY NoneAssumption DEF IInv, AddressInv, SubscribeRequest
  <1>2. CallInv'
    BY NoneAssumption DEF IInv, CallInv, SubscribeRequest, Labels
  <1>3. AppsInv'
    BY NoneAssumption DEF IInv, AppsInv, SubscribeRequest
  <1>4. TableInv'
    BY NoneAssumption DEF IInv, TableInv, SubscribeRequest
  <1>5. SubsInv'
    <2>1. app[c] = c /\ table[c][key[c]] # None
      BY DEF IInv, CallInv, TableInv, SubscribeRequest, Keys
    <2> QED BY <2>1 DEF IInv, TypeOK, SubsInv, SubscribeRequest
  <1>6. NewInv'
    BY NoneAssumption DEF IInv, TypeOK, CallInv, NewInv, SubscribeRequest
  <1> QED BY <1>1, <1>2, <1>3, <1>4, <1>5, <1>6 DEF IInv

\* A method handler waits for its key to be tracked.
LEMMA RegisterIInv ==
    ASSUME TypeOK, IInv, UsageAssumption, NEW c \in Clients, Register(c)
    PROVE  IInv'
  <1>1. AddressInv'
    BY NoneAssumption DEF IInv, AddressInv, Register
  <1>2. CallInv'
    BY NoneAssumption DEF IInv, CallInv, Register, Labels
  <1>3. AppsInv'
    BY NoneAssumption DEF IInv, AppsInv, Register
  <1>4. TableInv'
    BY NoneAssumption DEF IInv, TypeOK, CallInv, TableInv, Register
  <1>5. SubsInv'
    BY NoneAssumption DEF IInv, SubsInv, Register
  <1>6. NewInv'
    BY NoneAssumption DEF IInv, NewInv, Register
  <1> QED BY <1>1, <1>2, <1>3, <1>4, <1>5, <1>6 DEF IInv

\* The handler's key is one destroy will find.
LEMMA TrackIInv ==
    ASSUME TypeOK, IInv, UsageAssumption, NEW c \in Clients, Track(c)
    PROVE  IInv'
  <1>1. AddressInv'
    BY NoneAssumption DEF IInv, AddressInv, Track
  <1>2. CallInv'
    BY NoneAssumption DEF IInv, TypeOK, CallInv, Track, Labels
  <1>3. AppsInv'
    BY NoneAssumption DEF IInv, TypeOK, CallInv, AppsInv, Track
  <1>4. TableInv'
    BY NoneAssumption DEF IInv, TypeOK, TableInv, Track
  <1>5. SubsInv'
    BY NoneAssumption DEF IInv, SubsInv, Track
  <1>6. NewInv'
    BY NoneAssumption DEF IInv, NewInv, Track
  <1> QED BY <1>1, <1>2, <1>3, <1>4, <1>5, <1>6 DEF IInv

\* Unregistering a method leaves the event handlers.
LEMMA UnregisterIInv ==
    ASSUME TypeOK, IInv, UsageAssumption, NEW c \in Clients, Unregister(c)
    PROVE  IInv'
  <1>1. AddressInv'
    BY NoneAssumption DEF IInv, AddressInv, Unregister
  <1>2. CallInv'
    BY NoneAssumption DEF IInv, TypeOK, CallInv, Unregister, Labels
  <1>3. AppsInv'
    BY NoneAssumption DEF IInv, TypeOK, CallInv, AppsInv, Unregister
  <1>4. TableInv'
    BY NoneAssumption DEF IInv, TypeOK, CallInv, TableInv, Unregister
  <1>5. SubsInv'
    <2> SUFFICES ASSUME NEW d \in Clients, handle[d] # None, g_apps[handle[d]] = d,
                        NEW k \in subs[d]
                 PROVE  table'[d][k] # None
      BY DEF SubsInv, Unregister
    <2>1. k \in Keys /\ table[d][k] # None /\ app[c] = c /\ key[c] # k
      BY KeysAssumption DEF IInv, TypeOK, CallInv, SubsInv, Unregister, Keys
    <2> QED BY <2>1 DEF IInv, TypeOK, Unregister
  <1>6. NewInv'
    BY NoneAssumption DEF IInv, NewInv, Unregister
  <1> QED BY <1>1, <1>2, <1>3, <1>4, <1>5, <1>6 DEF IInv

\* Unsubscribing leaves the handlers.
LEMMA UnsubscribeIInv ==
    ASSUME TypeOK, IInv, UsageAssumption, NEW c \in Clients, Unsubscribe(c)
    PROVE  IInv'
  <1>1. AddressInv'
    BY NoneAssumption DEF IInv, AddressInv, Unsubscribe
  <1>2. CallInv'
    BY NoneAssumption DEF IInv, TypeOK, CallInv, Unsubscribe, Labels
  <1>3. AppsInv'
    BY NoneAssumption DEF IInv, TypeOK, CallInv, AppsInv, Unsubscribe
  <1>4. TableInv'
    BY NoneAssumption DEF IInv, TableInv, Unsubscribe
  <1>5. SubsInv'
    BY NoneAssumption DEF IInv, SubsInv, Unsubscribe
  <1>6. NewInv'
    BY NoneAssumption DEF IInv, NewInv, Unsubscribe
  <1> QED BY <1>1, <1>2, <1>3, <1>4, <1>5, <1>6 DEF IInv

\* Closing takes nothing away yet.
LEMMA CloseIInv ==
    ASSUME TypeOK, IInv, UsageAssumption, NEW c \in Clients, Close(c)
    PROVE  IInv'
  <1>1. AddressInv'
    BY NoneAssumption DEF IInv, AddressInv, Close
  <1>2. CallInv'
    <2> SUFFICES ASSUME NEW d \in Clients PROVE ClientInv(d)'
      BY DEF CallInv
    <2>1. CASE d = c
      BY <2>1, NoneAssumption DEF IInv, TypeOK, CallInv, Close, Idle, UsageAssumption, Labels
    <2>2. CASE d # c
      BY <2>2 DEF IInv, TypeOK, CallInv, Close
    <2> QED BY <2>1, <2>2
  <1>3. AppsInv'
    BY NoneAssumption DEF IInv, AppsInv, Close
  <1>4. TableInv'
    BY DEF IInv, TypeOK, TableInv, Close, Idle
  <1>5. SubsInv'
    BY NoneAssumption DEF IInv, SubsInv, Close
  <1>6. NewInv'
    BY NoneAssumption DEF IInv, NewInv, Close
  <1> QED BY <1>1, <1>2, <1>3, <1>4, <1>5, <1>6 DEF IInv

\* A port that closes changes nothing in the bridge.
LEMMA PortClosesIInv ==
    ASSUME TypeOK, IInv, UsageAssumption, NEW c \in Clients, PortCloses(c)
    PROVE  IInv'
  <1>1. AddressInv'
    BY NoneAssumption DEF IInv, AddressInv, PortCloses
  <1>2. CallInv'
    BY NoneAssumption DEF IInv, CallInv, PortCloses, Labels
  <1>3. AppsInv'
    BY NoneAssumption DEF IInv, AppsInv, PortCloses
  <1>4. TableInv'
    BY NoneAssumption DEF IInv, TableInv, PortCloses
  <1>5. SubsInv'
    BY NoneAssumption DEF IInv, SubsInv, PortCloses
  <1>6. NewInv'
    BY NoneAssumption DEF IInv, NewInv, PortCloses
  <1> QED BY <1>1, <1>2, <1>3, <1>4, <1>5, <1>6 DEF IInv

\* A second close finds nothing to destroy.
LEMMA DestroyUnknownIInv ==
    ASSUME TypeOK, IInv, UsageAssumption, NEW c \in Clients, DestroyUnknown(c)
    PROVE  IInv'
  <1>1. AddressInv'
    BY NoneAssumption DEF IInv, AddressInv, DestroyUnknown
  <1>2. CallInv'
    <2> SUFFICES ASSUME NEW d \in Clients PROVE ClientInv(d)'
      BY DEF CallInv
    <2>1. CASE d = c
      BY <2>1, NoneAssumption DEF IInv, TypeOK, CallInv, DestroyUnknown, Labels
    <2>2. CASE d # c
      BY <2>2 DEF IInv, TypeOK, CallInv, DestroyUnknown
    <2> QED BY <2>1, <2>2
  <1>3. AppsInv'
    BY NoneAssumption DEF IInv, AppsInv, DestroyUnknown
  <1>4. TableInv'
    BY NoneAssumption DEF IInv, TableInv, DestroyUnknown
  <1>5. SubsInv'
    BY NoneAssumption DEF IInv, SubsInv, DestroyUnknown
  <1>6. NewInv'
    BY NoneAssumption DEF IInv, NewInv, DestroyUnknown
  <1> QED BY <1>1, <1>2, <1>3, <1>4, <1>5, <1>6 DEF IInv

\* Destroy takes its own app and all its handler keys.
LEMMA DestroyTakeIInv ==
    ASSUME TypeOK, IInv, UsageAssumption, NEW c \in Clients, DestroyTake(c)
    PROVE  IInv'
  <1>1. AddressInv'
    BY NoneAssumption DEF IInv, AddressInv, DestroyTake
  <1>2. CallInv'
    BY NoneAssumption DEF IInv, TypeOK, AddressInv, CallInv, AppsInv, DestroyTake, Labels
  <1>3. AppsInv'
    BY NoneAssumption DEF IInv, TypeOK, AppsInv, DestroyTake
  <1>4. TableInv'
    BY NoneAssumption DEF IInv, TypeOK, AddressInv, CallInv, AppsInv, TableInv, DestroyTake, Labels
  <1>5. SubsInv'
    BY NoneAssumption DEF IInv, SubsInv, DestroyTake
  <1>6. NewInv'
    BY NoneAssumption DEF IInv, NewInv, DestroyTake
  <1> QED BY <1>1, <1>2, <1>3, <1>4, <1>5, <1>6 DEF IInv

\* A handler that is gone is crossed off.
LEMMA DestroyUnregisterIInv ==
    ASSUME TypeOK, IInv, UsageAssumption, NEW c \in Clients, DestroyUnregister(c)
    PROVE  IInv'
  <1>1. AddressInv'
    BY NoneAssumption DEF IInv, AddressInv, DestroyUnregister
  <1>2. CallInv'
    BY NoneAssumption DEF IInv, CallInv, DestroyUnregister, Labels
  <1>3. AppsInv'
    BY NoneAssumption DEF IInv, AppsInv, DestroyUnregister
  <1>4. TableInv'
    BY NoneAssumption DEF IInv, TypeOK, CallInv, TableInv, DestroyUnregister
  <1>5. SubsInv'
    <2>1. app[c] = c /\ handle[c] \in Handles /\ g_apps[handle[c]] # c
      BY NoneAssumption DEF IInv, TypeOK, CallInv, AppsInv, DestroyUnregister
    <2> SUFFICES ASSUME NEW d \in Clients, handle[d] # None, g_apps[handle[d]] = d,
                        NEW k \in subs[d]
                 PROVE  table'[d][k] # None
      BY DEF SubsInv, DestroyUnregister
    <2>2. d # c
      BY <2>1
    <2> QED BY <2>1, <2>2 DEF IInv, TypeOK, SubsInv, DestroyUnregister
  <1>6. NewInv'
    BY NoneAssumption DEF IInv, NewInv, DestroyUnregister
  <1> QED BY <1>1, <1>2, <1>3, <1>4, <1>5, <1>6 DEF IInv

\* No handler is left when the loop is told to stop.
LEMMA DestroyStopIInv ==
    ASSUME TypeOK, IInv, UsageAssumption, NEW c \in Clients, DestroyStop(c)
    PROVE  IInv'
  <1>1. AddressInv'
    BY NoneAssumption DEF IInv, AddressInv, DestroyStop
  <1>2. CallInv'
    BY NoneAssumption DEF IInv, CallInv, DestroyStop, Labels
  <1>3. AppsInv'
    BY NoneAssumption DEF IInv, AppsInv, DestroyStop
  <1>4. TableInv'
    BY NoneAssumption DEF IInv, TableInv, DestroyStop
  <1>5. SubsInv'
    BY NoneAssumption DEF IInv, SubsInv, DestroyStop
  <1>6. NewInv'
    BY NoneAssumption DEF IInv, NewInv, DestroyStop
  <1> QED BY <1>1, <1>2, <1>3, <1>4, <1>5, <1>6 DEF IInv

\* Nothing runs in the object when it is freed.
LEMMA DestroyJoinIInv ==
    ASSUME TypeOK, IInv, UsageAssumption, NEW c \in Clients, DestroyJoin(c)
    PROVE  IInv'
  <1>1. AddressInv'
    BY NoneAssumption DEF IInv, AddressInv, DestroyJoin
  <1>2. CallInv'
    BY NoneAssumption DEF IInv, TypeOK, CallInv, DestroyJoin, Labels
  <1>3. AppsInv'
    BY NoneAssumption DEF IInv, TypeOK, CallInv, AppsInv, DestroyJoin
  <1>4. TableInv'
    BY NoneAssumption DEF IInv, TableInv, DestroyJoin
  <1>5. SubsInv'
    BY NoneAssumption DEF IInv, SubsInv, DestroyJoin
  <1>6. NewInv'
    BY NoneAssumption DEF IInv, NewInv, DestroyJoin
  <1> QED BY <1>1, <1>2, <1>3, <1>4, <1>5, <1>6 DEF IInv

\* A state callback runs inside the loop.
LEMMA StateCallbackIInv ==
    ASSUME TypeOK, IInv, UsageAssumption, NEW c \in Clients, StateCallback(c)
    PROVE  IInv'
  <1>1. AddressInv'
    BY NoneAssumption DEF IInv, AddressInv, StateCallback
  <1>2. CallInv'
    BY NoneAssumption DEF IInv, CallInv, StateCallback, Labels
  <1>3. AppsInv'
    BY NoneAssumption DEF IInv, AppsInv, StateCallback
  <1>4. TableInv'
    BY NoneAssumption DEF IInv, TableInv, StateCallback
  <1>5. SubsInv'
    BY NoneAssumption DEF IInv, SubsInv, StateCallback
  <1>6. NewInv'
    BY NoneAssumption DEF IInv, NewInv, StateCallback
  <1> QED BY <1>1, <1>2, <1>3, <1>4, <1>5, <1>6 DEF IInv

\* A message callback runs inside the loop.
LEMMA DispatchIInv ==
    ASSUME TypeOK, IInv, UsageAssumption, NEW c \in Clients, NEW k \in Keys, Dispatch(c, k)
    PROVE  IInv'
  <1>1. AddressInv'
    BY NoneAssumption DEF IInv, AddressInv, Dispatch
  <1>2. CallInv'
    BY NoneAssumption DEF IInv, CallInv, Dispatch, Labels
  <1>3. AppsInv'
    BY NoneAssumption DEF IInv, AppsInv, Dispatch
  <1>4. TableInv'
    BY NoneAssumption DEF IInv, TableInv, Dispatch
  <1>5. SubsInv'
    BY NoneAssumption DEF IInv, SubsInv, Dispatch
  <1>6. NewInv'
    BY NoneAssumption DEF IInv, NewInv, Dispatch
  <1> QED BY <1>1, <1>2, <1>3, <1>4, <1>5, <1>6 DEF IInv

\* A callback that returned is gone.
LEMMA CallbackReturnsIInv ==
    ASSUME TypeOK, IInv, UsageAssumption, NEW c \in Clients, CallbackReturns(c)
    PROVE  IInv'
  <1>1. AddressInv'
    BY NoneAssumption DEF IInv, AddressInv, CallbackReturns
  <1>2. CallInv'
    BY NoneAssumption DEF IInv, CallInv, CallbackReturns, Labels
  <1>3. AppsInv'
    BY NoneAssumption DEF IInv, AppsInv, CallbackReturns
  <1>4. TableInv'
    BY NoneAssumption DEF IInv, TableInv, CallbackReturns
  <1>5. SubsInv'
    BY NoneAssumption DEF IInv, SubsInv, CallbackReturns
  <1>6. NewInv'
    BY NoneAssumption DEF IInv, NewInv, CallbackReturns
  <1> QED BY <1>1, <1>2, <1>3, <1>4, <1>5, <1>6 DEF IInv

\* The loop ends with no callback left.
LEMMA LoopEndsIInv ==
    ASSUME TypeOK, IInv, UsageAssumption, NEW c \in Clients, LoopEnds(c)
    PROVE  IInv'
  <1>1. AddressInv'
    BY NoneAssumption DEF IInv, AddressInv, LoopEnds
  <1>2. CallInv'
    BY NoneAssumption DEF IInv, CallInv, LoopEnds, Labels
  <1>3. AppsInv'
    BY NoneAssumption DEF IInv, AppsInv, LoopEnds
  <1>4. TableInv'
    BY NoneAssumption DEF IInv, TableInv, LoopEnds
  <1>5. SubsInv'
    BY NoneAssumption DEF IInv, SubsInv, LoopEnds
  <1>6. NewInv'
    BY NoneAssumption DEF IInv, NewInv, LoopEnds
  <1> QED BY <1>1, <1>2, <1>3, <1>4, <1>5, <1>6 DEF IInv

\* A loop that throws ends with no callback left.
LEMMA LoopFailsIInv ==
    ASSUME TypeOK, IInv, UsageAssumption, NEW c \in Clients, LoopFails(c)
    PROVE  IInv'
  <1>1. AddressInv'
    BY NoneAssumption DEF IInv, AddressInv, LoopFails
  <1>2. CallInv'
    BY NoneAssumption DEF IInv, CallInv, LoopFails, Labels
  <1>3. AppsInv'
    BY NoneAssumption DEF IInv, AppsInv, LoopFails
  <1>4. TableInv'
    BY NoneAssumption DEF IInv, TableInv, LoopFails
  <1>5. SubsInv'
    BY NoneAssumption DEF IInv, SubsInv, LoopFails
  <1>6. NewInv'
    BY NoneAssumption DEF IInv, NewInv, LoopFails
  <1> QED BY <1>1, <1>2, <1>3, <1>4, <1>5, <1>6 DEF IInv

\* Nothing is there at first.
LEMMA InitIInv ==
    ASSUME Init
    PROVE  IInv
  <1>1. AddressInv
    BY DEF Init, AddressInv
  <1>2. CallInv
    BY NoneAssumption DEF Init, CallInv, Labels
  <1>3. AppsInv
    BY DEF Init, AppsInv
  <1>4. TableInv
    BY DEF Init, TableInv
  <1>5. SubsInv
    BY NoneAssumption DEF Init, SubsInv
  <1>6. NewInv
    BY DEF Init, NewInv
  <1> QED BY <1>1, <1>2, <1>3, <1>4, <1>5, <1>6 DEF IInv

\* A step that changes nothing keeps the invariant.
LEMMA StutterIInv ==
    ASSUME TypeOK, IInv, UNCHANGED vars
    PROVE  IInv'
  <1>1. AddressInv'
    BY DEF IInv, AddressInv, vars
  <1>2. CallInv'
    BY DEF IInv, CallInv, vars
  <1>3. AppsInv'
    BY DEF IInv, AppsInv, vars
  <1>4. TableInv'
    BY DEF IInv, TableInv, vars
  <1>5. SubsInv'
    BY DEF IInv, SubsInv, vars
  <1>6. NewInv'
    BY DEF IInv, NewInv, vars
  <1> QED BY <1>1, <1>2, <1>3, <1>4, <1>5, <1>6 DEF IInv

\* Any of the calls that begin with get_app keeps the invariant.
LEMMA CallIInv ==
    ASSUME TypeOK, IInv, UsageAssumption, NEW c \in Clients, Call(c)
    PROVE  IInv'
  <1>1. ASSUME NEW k \in Events, GetApp(c, "subscribe_register", k)
        PROVE  IInv'
    BY <1>1, GetAppIInv
  <1>2. ASSUME NEW k \in Events, GetApp(c, "unsubscribe", k)
        PROVE  IInv'
    BY <1>2, GetAppIInv
  <1>3. ASSUME NEW k \in Methods, GetApp(c, "register", k)
        PROVE  IInv'
    BY <1>3, GetAppIInv
  <1>4. ASSUME NEW k \in Methods, GetApp(c, "unregister", k)
        PROVE  IInv'
    BY <1>4, GetAppIInv
  <1> QED BY <1>1, <1>2, <1>3, <1>4 DEF Call

\* Every step keeps the invariant.
LEMMA NextIInv ==
    ASSUME TypeOK, IInv, UsageAssumption, [Next]_vars
    PROVE  IInv'
  <1>1. CASE UNCHANGED vars
    BY <1>1, StutterIInv
  <1>2. ASSUME NEW c \in Clients, Create(c)
        PROVE  IInv'
    BY <1>2, CreateConstructIInv, CreateFailsIInv, CreateStartIInv, CreateStartFailsIInv,
       CreatePublishIInv DEF Create
  <1>3. ASSUME NEW c \in Clients, Use(c)
        PROVE  IInv'
    <2>1. CASE GetAppNull(c)
      BY <2>1, StutterIInv DEF GetAppNull
    <2> QED
      BY <1>3, <2>1, CallIInv, SubscribeRegisterIInv, SubscribeRequestIInv, RegisterIInv,
         TrackIInv, UnregisterIInv, UnsubscribeIInv DEF Use
  <1>4. ASSUME NEW c \in Clients, Destroy(c)
        PROVE  IInv'
    BY <1>4, CloseIInv, DestroyUnknownIInv, DestroyTakeIInv, DestroyUnregisterIInv,
       DestroyStopIInv, DestroyJoinIInv DEF Destroy
  <1>5. ASSUME NEW c \in Clients, PortCloses(c)
        PROVE  IInv'
    BY <1>5, PortClosesIInv
  <1>6. ASSUME NEW c \in Clients, Vsomeip(c)
        PROVE  IInv'
    BY <1>6, StateCallbackIInv, DispatchIInv, CallbackReturnsIInv, LoopEndsIInv, LoopFailsIInv
       DEF Vsomeip
  <1> QED BY <1>1, <1>2, <1>3, <1>4, <1>5, <1>6 DEF Next

\* The inductive invariant holds in every state.
LEMMA SpecIInv ==
    ASSUME UsageAssumption
    PROVE  Spec => []IInv
  <1>1. Init => IInv
    BY InitIInv
  <1>2. TypeOK /\ IInv /\ [Next]_vars => IInv'
    BY NextIInv
  <1> QED BY <1>1, <1>2, BridgeTypeOK, PTL DEF Spec

\* destroy unregisters every message handler before it stops the loop.
THEOREM BridgeHandlersGoneBeforeStop ==
    ASSUME UsageAssumption
    PROVE  Spec => []HandlersGoneBeforeStop
  <1>1. TypeOK /\ IInv => HandlersGoneBeforeStop
    BY NoneAssumption
       DEF IInv, TypeOK, CallInv, AppsInv, TableInv, HandlersGoneBeforeStop
  <1> QED BY <1>1, SpecIInv, BridgeTypeOK, PTL

\* g_apps, g_handlers and the objects they speak of agree.
THEOREM BridgeRegistryConsistent ==
    ASSUME UsageAssumption
    PROVE  Spec => []RegistryConsistent
  <1>1. TypeOK /\ IInv => RegistryConsistent
    BY DEF IInv, AppsInv, RegistryConsistent
  <1> QED BY <1>1, SpecIInv, BridgeTypeOK, PTL

\* A published app has a handler for every event it is subscribed to.
THEOREM BridgeNoEventWithoutHandler ==
    ASSUME UsageAssumption
    PROVE  Spec => []NoEventWithoutHandler
  <1>1. TypeOK /\ IInv => NoEventWithoutHandler
    <2> SUFFICES ASSUME TypeOK, IInv, NEW c \in Clients, NEW h \in Handles, g_apps[h] = c
                 PROVE  \A k \in subs[c] : table[c][k] # None
      BY DEF NoEventWithoutHandler
    <2>1. handle[c] = h /\ h # None
      BY NoneAssumption DEF IInv, AppsInv
    <2> QED BY <2>1 DEF IInv, SubsInv
  <1> QED BY <1>1, SpecIInv, BridgeTypeOK, PTL
=============================================================================
