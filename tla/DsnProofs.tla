----------------------------- MODULE DsnProofs -----------------------------
(***************************************************************************)
(* Events go to their own object's project, and the clients of a DSN stay  *)
(* bounded, for any owners and annotations, any number of goroutines and   *)
(* whatever requests fail.                                                 *)
(***************************************************************************)
EXTENDS DsnClients, FiniteSetTheorems, TLAPS

----------------------------------------------------------------------------
(* The objects a search comes to.                                          *)

(* They contain the first one, the search goes on inside of them, and they *)
(* are the least such set.                                                 *)
LEMMA PathGoesOn ==
    ASSUME NEW o \in Objects
    PROVE  /\ o \in SearchPath[o]
           /\ SearchPath[o] \subseteq Objects
           /\ GoesOn(SearchPath[o])
  <1>1. o \in SearchPath[o] /\ SearchPath[o] \subseteq Objects
    BY DEF SearchPath
  <1>2. ASSUME NEW x \in SearchPath[o],
               Annotation[x] = NoAnnotation, Owner[x] # NoOwner
        PROVE  Owner[x] \in SearchPath[o]
    <2>1. x \in Objects /\ Owner[x] \in Objects
      BY <1>1, <1>2, DsnAssumption
    <2>2. ASSUME NEW S \in SUBSET Objects, o \in S, GoesOn(S)
          PROVE  Owner[x] \in S
      <3>1. x \in S
        BY <2>2 DEF SearchPath
      <3>2. QED
        BY <1>2, <2>2, <3>1 DEF GoesOn
    <2>3. QED
      BY <2>1, <2>2 DEF SearchPath
  <1>3. QED
    BY <1>1, <1>2 DEF GoesOn

LEMMA PathIsLeast ==
    ASSUME NEW o \in Objects, NEW S \in SUBSET Objects, o \in S, GoesOn(S)
    PROVE  SearchPath[o] \subseteq S
  BY DEF SearchPath

(* A search that ends at once has come to its first object only.           *)
LEMMA PathOfLast ==
    ASSUME NEW o \in Objects, Annotation[o] # NoAnnotation \/ Owner[o] = NoOwner
    PROVE  CustomDsns(o) = {Annotation[o]} \ {NoAnnotation}
  <1>1. GoesOn({o})
    BY DEF GoesOn
  <1>2. SearchPath[o] = {o}
    BY <1>1, PathGoesOn, PathIsLeast
  <1>3. QED
    BY <1>2 DEF CustomDsns

(* One that goes on finds what a search from the owner finds.              *)
LEMMA PathOfOwner ==
    ASSUME NEW o \in Objects, Annotation[o] = NoAnnotation, Owner[o] # NoOwner
    PROVE  Owner[o] \in Objects /\ CustomDsns(o) = CustomDsns(Owner[o])
  <1> DEFINE p == Owner[o]
  <1>1. p \in Objects
    BY DsnAssumption
  <1>2. SearchPath[p] \subseteq SearchPath[o]
    <2>1. p \in SearchPath[o]
      BY PathGoesOn DEF GoesOn
    <2>2. QED
      BY <1>1, <2>1, PathGoesOn, PathIsLeast
  <1>3. SearchPath[o] \subseteq {o} \cup SearchPath[p]
    <2>1. GoesOn({o} \cup SearchPath[p])
      BY <1>1, PathGoesOn DEF GoesOn
    <2>2. QED
      BY <1>1, <2>1, PathGoesOn, PathIsLeast
  <1>4. SearchPath[o] = {o} \cup SearchPath[p]
    BY <1>2, <1>3, PathGoesOn
  <1> HIDE DEF p
  <1>5. CustomDsns(o) = CustomDsns(p)
    BY <1>4 DEF CustomDsns
  <1>6. QED
    BY <1>1, <1>5 DEF p

----------------------------------------------------------------------------
(* The project of an event.                                                *)

(* clientMap holds under each DSN a client of that DSN. *)
MapInv ==
    /\ IsFiniteSet(created)
    /\ \A d \in Dsns : clientMap[d] # NoClient => clientMap[d].dsn = d

(* However far the search has come, what it will find is what a search     *)
(* from the subject finds, and a lookup is for a DSN that was found.       *)
SearchInv ==
    \A g \in Goroutines :
        /\ pc[g] # "idle" => subject[g] \in Objects /\ at[g] \in Objects
        /\ pc[g] \in {"search", "get", "add"}
              => CustomDsns(at[g]) = CustomDsns(subject[g])
        /\ pc[g] \in {"get", "add"} => DsnOf(g) # NoAnnotation

(* A layer has a client other than the default one only when the event is  *)
(* about to be sent, and then it is the right one; it has the default one  *)
(* then only if there is no right one, or a request failed.                *)
BoundInv ==
    \A g \in Goroutines :
        IF bound[g] = Default
        THEN pc[g] = "send"
                => failed[g] \/ CustomDsns(subject[g]) \cap ValidDsns = {}
        ELSE pc[g] = "send" /\ CustomDsns(subject[g]) = {bound[g].dsn}

ProjectInv == TypeOK /\ MapInv /\ SearchInv /\ BoundInv /\ SentToItsProject

LEMMA ReceiveProject ==
    ASSUME ProjectInv, NEW g \in Goroutines, NEW o \in Objects, Receive(g, o)
    PROVE  ProjectInv'
  <1> USE DEF ProjectInv
  <1>1. /\ pc[g] = "idle" /\ pc' = [pc EXCEPT ![g] = pc'[g]]
        /\ pc'[g] \in {"search", "send"} /\ (pc'[g] = "send" => failed'[g])
        /\ failed' \in [Goroutines -> BOOLEAN]
        /\ \A h \in Goroutines \ {g} : failed'[h] = failed[h]
        /\ subject' = [subject EXCEPT ![g] = o] /\ at' = [at EXCEPT ![g] = o]
        /\ handled' = handled + 1
        /\ UNCHANGED <<clientMap, created, bound, sent>>
    BY DEF Receive, TypeOK
  <1>2. TypeOK'
    BY <1>1 DEF TypeOK
  <1>3. MapInv' /\ SentToItsProject'
    BY <1>1 DEF MapInv, SentToItsProject
  <1>4. SearchInv'
    BY <1>1 DEF SearchInv, TypeOK, DsnOf
  <1>5. BoundInv'
    BY <1>1 DEF BoundInv, TypeOK
  <1>6. QED
    BY <1>2, <1>3, <1>4, <1>5

LEMMA SearchProject ==
    ASSUME ProjectInv, NEW g \in Goroutines, SearchDsn(g)
    PROVE  ProjectInv'
  <1> USE DEF ProjectInv
  <1>1. /\ pc[g] = "search" /\ bound[g] = Default
        /\ at[g] \in Objects /\ subject[g] \in Objects
        /\ CustomDsns(at[g]) = CustomDsns(subject[g])
        /\ UNCHANGED <<clientMap, created, subject, bound, sent, handled>>
    BY DEF SearchDsn, SearchInv, BoundInv
  <1>2. MapInv' /\ SentToItsProject'
    BY <1>1 DEF MapInv, SentToItsProject
  <1>3. CASE Annotated(g)
    <2>1. Annotation[at[g]] # NoAnnotation /\ UNCHANGED <<at, failed>>
          /\ pc' = [pc EXCEPT ![g] =
                      IF Annotation[at[g]] = EmptyDsn THEN "send" ELSE "get"]
      BY <1>3 DEF Annotated
    <2>2. CustomDsns(subject[g]) = {Annotation[at[g]]}
      BY <1>1, <2>1, PathOfLast
    <2>3. EmptyDsn \notin ValidDsns
      BY DsnAssumption
    <2>4. TypeOK'
      BY <1>1, <2>1 DEF TypeOK
    <2>5. SearchInv'
      BY <1>1, <2>1 DEF SearchInv, TypeOK, DsnOf
    <2>6. BoundInv'
      BY <1>1, <2>1, <2>2, <2>3 DEF BoundInv, TypeOK
    <2>7. QED
      BY <1>2, <2>4, <2>5, <2>6
  <1>4. CASE NoDsn(g)
    <2>1. /\ Annotation[at[g]] = NoAnnotation /\ Owner[at[g]] = NoOwner
          /\ pc' = [pc EXCEPT ![g] = "send"] /\ UNCHANGED <<at, failed>>
      BY <1>4 DEF NoDsn
    <2>2. CustomDsns(subject[g]) = {}
      BY <1>1, <2>1, PathOfLast
    <2>3. TypeOK'
      BY <1>1, <2>1 DEF TypeOK
    <2>4. SearchInv'
      BY <1>1, <2>1 DEF SearchInv, TypeOK, DsnOf
    <2>5. BoundInv'
      BY <1>1, <2>1, <2>2 DEF BoundInv, TypeOK
    <2>6. QED
      BY <1>2, <2>3, <2>4, <2>5
  <1>5. CASE OwnerNotFound(g)
    <2>1. /\ pc' = [pc EXCEPT ![g] = "send"]
          /\ failed' = [failed EXCEPT ![g] = TRUE] /\ UNCHANGED at
      BY <1>5 DEF OwnerNotFound
    <2>2. TypeOK'
      BY <1>1, <2>1 DEF TypeOK
    <2>3. SearchInv'
      BY <1>1, <2>1 DEF SearchInv, TypeOK, DsnOf
    <2>4. BoundInv'
      BY <1>1, <2>1 DEF BoundInv, TypeOK
    <2>5. QED
      BY <1>2, <2>2, <2>3, <2>4
  <1>6. CASE OwnerFound(g)
    <2>1. /\ Annotation[at[g]] = NoAnnotation /\ Owner[at[g]] \in Findable
          /\ at' = [at EXCEPT ![g] = Owner[at[g]]] /\ UNCHANGED <<pc, failed>>
      BY <1>6 DEF OwnerFound
    <2>2. Owner[at[g]] \in Objects
          /\ CustomDsns(Owner[at[g]]) = CustomDsns(subject[g])
      BY <1>1, <2>1, PathOfOwner, DsnAssumption
    <2>3. TypeOK'
      BY <1>1, <2>1, <2>2 DEF TypeOK
    <2>4. SearchInv'
      BY <1>1, <2>1, <2>2 DEF SearchInv, TypeOK, DsnOf
    <2>5. BoundInv'
      BY <1>1, <2>1 DEF BoundInv
    <2>6. QED
      BY <1>2, <2>3, <2>4, <2>5
  <1>7. QED
    BY <1>3, <1>4, <1>5, <1>6 DEF SearchDsn

(* A client that is found in the map is one of the DSN that was found.     *)
LEMMA GetProject ==
    ASSUME ProjectInv, NEW g \in Goroutines, GetClientFromMap(g)
    PROVE  ProjectInv'
  <1> USE DEF ProjectInv
  <1>1. /\ pc[g] = "get" /\ bound[g] = Default /\ at[g] \in Objects
        /\ DsnOf(g) \in Dsns /\ CustomDsns(subject[g]) = {DsnOf(g)}
        /\ UNCHANGED <<clientMap, created, subject, at, failed, sent, handled>>
    <2>1. /\ pc[g] = "get" /\ bound[g] = Default /\ at[g] \in Objects
          /\ DsnOf(g) # NoAnnotation
          /\ CustomDsns(at[g]) = CustomDsns(subject[g])
          /\ UNCHANGED <<clientMap, created, subject, at, failed, sent, handled>>
      BY DEF GetClientFromMap, SearchInv, BoundInv
    <2>2. QED
      BY <2>1, PathOfLast, DsnAssumption DEF DsnOf
  <1>2. MapInv' /\ SentToItsProject'
    BY <1>1 DEF MapInv, SentToItsProject
  <1>3. CASE clientMap[DsnOf(g)] = NoClient
    <2>1. pc' = [pc EXCEPT ![g] = "add"] /\ UNCHANGED bound
      BY <1>3 DEF GetClientFromMap
    <2>2. TypeOK'
      BY <1>1, <2>1 DEF TypeOK
    <2>3. SearchInv'
      BY <1>1, <2>1 DEF SearchInv, TypeOK, DsnOf
    <2>4. BoundInv'
      BY <1>1, <2>1 DEF BoundInv, TypeOK
    <2>5. QED
      BY <1>2, <2>2, <2>3, <2>4
  <1>4. CASE clientMap[DsnOf(g)] # NoClient
    <2> DEFINE c == clientMap[DsnOf(g)]
    <2>1. pc' = [pc EXCEPT ![g] = "send"] /\ bound' = [bound EXCEPT ![g] = c]
      BY <1>4 DEF GetClientFromMap
    <2>2. c \in Client /\ c.dsn = DsnOf(g) /\ c # Default
      BY <1>1, <1>4, DsnAssumption DEF TypeOK, MapInv
    <2>3. TypeOK'
      BY <1>1, <2>1, <2>2 DEF TypeOK
    <2>4. SearchInv'
      BY <1>1, <2>1 DEF SearchInv, TypeOK, DsnOf
    <2>5. BoundInv'
      BY <1>1, <2>1, <2>2 DEF BoundInv, TypeOK
    <2>6. QED
      BY <1>2, <2>3, <2>4, <2>5
  <1>5. QED
    BY <1>3, <1>4

(* What AddClientToMap makes is a client of the DSN that was found, or it  *)
(* fails because that DSN is not valid.                                    *)
LEMMA AddProject ==
    ASSUME ProjectInv, NEW g \in Goroutines, AddClientToMap(g)
    PROVE  ProjectInv'
  <1> USE DEF ProjectInv
  <1>1. /\ pc[g] = "add" /\ bound[g] = Default /\ at[g] \in Objects
        /\ DsnOf(g) \in Dsns /\ CustomDsns(subject[g]) = {DsnOf(g)}
        /\ pc' = [pc EXCEPT ![g] = "send"]
        /\ UNCHANGED <<subject, at, failed, sent, handled>>
    <2>1. /\ pc[g] = "add" /\ bound[g] = Default /\ at[g] \in Objects
          /\ DsnOf(g) # NoAnnotation
          /\ CustomDsns(at[g]) = CustomDsns(subject[g])
          /\ pc' = [pc EXCEPT ![g] = "send"]
          /\ UNCHANGED <<subject, at, failed, sent, handled>>
      BY DEF AddClientToMap, SearchInv, BoundInv
    <2>2. QED
      BY <2>1, PathOfLast, DsnAssumption DEF DsnOf
  <1>2. SentToItsProject'
    BY <1>1 DEF SentToItsProject
  <1>3. SearchInv'
    BY <1>1 DEF SearchInv, TypeOK, DsnOf
  <1>4. CASE DsnOf(g) \in ValidDsns
    <2> DEFINE c == [no |-> Cardinality(created) + 1, dsn |-> DsnOf(g)]
    <2>1. /\ created' = created \cup {c}
          /\ clientMap' = [clientMap EXCEPT ![c.dsn] = c]
          /\ bound' = [bound EXCEPT ![g] = c]
      BY <1>4 DEF AddClientToMap
    <2>2. c \in Client /\ c.dsn = DsnOf(g) /\ c # Default
      <3>1. Cardinality(created) \in Nat
        BY FS_CardinalityType DEF MapInv
      <3>2. QED
        BY <1>4, <3>1, DsnAssumption DEF Client
    <2> HIDE DEF c
    <2>3. TypeOK'
      BY <1>1, <2>1, <2>2 DEF TypeOK
    <2>4. MapInv'
      <3>1. IsFiniteSet(created')
        BY <2>1, FS_AddElement DEF MapInv
      <3>2. QED
        BY <1>1, <2>1, <2>2, <3>1 DEF MapInv, TypeOK
    <2>5. BoundInv'
      BY <1>1, <2>1, <2>2 DEF BoundInv, TypeOK
    <2>6. QED
      BY <1>2, <1>3, <2>3, <2>4, <2>5
  <1>5. CASE DsnOf(g) \notin ValidDsns
    <2>1. UNCHANGED <<created, clientMap, bound>>
      BY <1>5 DEF AddClientToMap
    <2>2. TypeOK' /\ MapInv'
      BY <1>1, <2>1 DEF TypeOK, MapInv
    <2>3. BoundInv'
      BY <1>1, <1>5, <2>1 DEF BoundInv, TypeOK
    <2>4. QED
      BY <1>2, <1>3, <2>2, <2>3
  <1>6. QED
    BY <1>4, <1>5

LEMMA SendProject ==
    ASSUME ProjectInv, NEW g \in Goroutines, Send(g)
    PROVE  ProjectInv'
  <1> USE DEF ProjectInv
  <1> DEFINE s == [subject |-> subject[g], client |-> bound[g], failed |-> failed[g]]
  <1>1. /\ pc[g] = "send" /\ subject[g] \in Objects
        /\ sent' = sent \cup {s}
        /\ pc' = [pc EXCEPT ![g] = "idle"]
        /\ subject' = [subject EXCEPT ![g] = NoOwner]
        /\ at' = [at EXCEPT ![g] = NoOwner]
        /\ failed' = [failed EXCEPT ![g] = FALSE]
        /\ bound' = [bound EXCEPT ![g] = Default]
        /\ UNCHANGED <<clientMap, created, handled>>
    BY DEF Send, SearchInv
  <1>2. TypeOK'
    BY <1>1 DEF TypeOK
  <1>3. MapInv'
    BY <1>1 DEF MapInv
  <1>4. SearchInv'
    BY <1>1 DEF SearchInv, TypeOK, DsnOf
  <1>5. BoundInv'
    BY <1>1 DEF BoundInv, TypeOK
  <1>6. SentToItsProject'
    <2>1. IF s.client = Default
          THEN s.failed \/ CustomDsns(s.subject) \cap ValidDsns = {}
          ELSE CustomDsns(s.subject) = {s.client.dsn}
      BY <1>1 DEF BoundInv
    <2> HIDE DEF s
    <2>2. QED
      BY <1>1, <2>1 DEF SentToItsProject
  <1>7. QED
    BY <1>2, <1>3, <1>4, <1>5, <1>6

LEMMA ProjectInvariant == Spec => []ProjectInv
  <1>1. Init => ProjectInv
    BY DsnAssumption, FS_EmptySet
       DEF Init, ProjectInv, TypeOK, MapInv, SearchInv, BoundInv, SentToItsProject
  <1>2. ProjectInv /\ [Next]_vars => ProjectInv'
    <2>1. ASSUME ProjectInv, UNCHANGED vars
          PROVE  ProjectInv'
      BY <2>1 DEF ProjectInv, TypeOK, MapInv, SearchInv, BoundInv, DsnOf,
                  SentToItsProject, vars
    <2>2. QED
      BY <2>1, ReceiveProject, SearchProject, GetProject, AddProject, SendProject
         DEF Next, Step
  <1>3. QED
    BY <1>1, <1>2, PTL DEF Spec

(* Every state is well-typed: no event is sent without a subject or with a *)
(* client that could not be created.                                       *)
THEOREM DsnTypeCorrect == Spec => []TypeOK
  <1>1. ProjectInv => TypeOK
    BY DEF ProjectInv
  <1>2. QED
    BY <1>1, ProjectInvariant, PTL

(* An event is sent to the project of its object's own DSN or that of the  *)
(* nearest owner that has one, and with the default client only if there   *)
(* is none that is valid or a request for this event failed (searchDsn,    *)
(* GetClientFromMap and AddClientToMap).                                   *)
THEOREM EventsReachTheirProject == Spec => []SentToItsProject
  <1>1. ProjectInv => SentToItsProject
    BY DEF ProjectInv
  <1>2. QED
    BY <1>1, ProjectInvariant, PTL

----------------------------------------------------------------------------
(* How many clients there are.                                             *)

ClientsOf(d) == {c \in created : c.dsn = d}

(* The goroutines that have missed d in the map and will add a client.     *)
Adding(d) == {g \in Goroutines : pc[g] = "add" /\ DsnOf(g) = d}

(* While the map has no client of a DSN there is none at all; from then on *)
(* each one that is created has one goroutine less about to add another.   *)
ClientsInv ==
    \A d \in ValidDsns :
        /\ clientMap[d] = NoClient => ClientsOf(d) = {}
        /\ Cardinality(ClientsOf(d)) + Cardinality(Adding(d))
              <= Cardinality(Goroutines)

LEMMA FiniteClients ==
    ASSUME ProjectInv, NEW d
    PROVE  /\ IsFiniteSet(Goroutines) /\ Cardinality(Goroutines) \in Nat
           /\ IsFiniteSet(ClientsOf(d)) /\ Cardinality(ClientsOf(d)) \in Nat
           /\ IsFiniteSet(Adding(d)) /\ Cardinality(Adding(d)) \in Nat
           /\ Cardinality(Adding(d)) <= Cardinality(Goroutines)
  <1>1. IsFiniteSet(created) /\ ClientsOf(d) \subseteq created
    BY DEF ProjectInv, MapInv, ClientsOf
  <1>2. IsFiniteSet(Goroutines) /\ Adding(d) \subseteq Goroutines
    BY DsnAssumption DEF Adding
  <1>3. QED
    BY <1>1, <1>2, FS_Subset, FS_CardinalityType

(* Steps of a goroutine that is neither about to add nor gets there.       *)
LEMMA OtherStepsAddNothing ==
    ASSUME ProjectInv, ClientsInv, NEW g \in Goroutines, pc[g] # "add",
           \A h \in Goroutines \ {g} : pc'[h] = pc[h] /\ at'[h] = at[h],
           pc'[g] # "add", UNCHANGED <<clientMap, created>>
    PROVE  ClientsInv'
  <1>1. ASSUME NEW d \in ValidDsns
        PROVE  Adding(d)' = Adding(d) /\ ClientsOf(d)' = ClientsOf(d)
    BY DEF Adding, ClientsOf, DsnOf
  <1>2. QED
    BY <1>1 DEF ClientsInv

LEMMA GetClients ==
    ASSUME ProjectInv, ClientsInv, NEW g \in Goroutines, GetClientFromMap(g)
    PROVE  ClientsInv'
  <1>1. /\ pc \in [Goroutines -> {"idle", "search", "get", "add", "send"}]
        /\ pc[g] = "get" /\ UNCHANGED <<clientMap, created, at>>
    BY DEF ProjectInv, TypeOK, GetClientFromMap
  <1>2. CASE clientMap[DsnOf(g)] # NoClient
    <2>1. pc' = [pc EXCEPT ![g] = "send"]
      BY <1>2 DEF GetClientFromMap
    <2>2. QED
      BY <1>1, <2>1, OtherStepsAddNothing
  <1>3. CASE clientMap[DsnOf(g)] = NoClient
    <2>1. pc' = [pc EXCEPT ![g] = "add"]
      BY <1>3 DEF GetClientFromMap
    <2>2. ASSUME NEW d \in ValidDsns, d # DsnOf(g)
          PROVE  Adding(d)' = Adding(d)
      BY <1>1, <2>1, <2>2 DEF Adding, DsnOf
    <2>3. ASSUME NEW d \in ValidDsns
          PROVE  ClientsOf(d)' = ClientsOf(d)
      BY <1>1 DEF ClientsOf
    <2>4. ASSUME NEW d \in ValidDsns, d = DsnOf(g)
          PROVE  Cardinality(ClientsOf(d)') + Cardinality(Adding(d)')
                    <= Cardinality(Goroutines)
      <3>1. ClientsOf(d)' = {} /\ Cardinality(ClientsOf(d)') = 0
        BY <1>3, <2>3, <2>4, FS_EmptySet DEF ClientsInv
      <3>2. /\ Cardinality(Adding(d)') \in Nat
            /\ Cardinality(Adding(d)') <= Cardinality(Goroutines)
        <4>1. Adding(d)' \subseteq Goroutines
          BY DEF Adding
        <4>2. QED
          BY <4>1, DsnAssumption, FS_Subset, FS_CardinalityType
      <3>3. QED
        BY <3>1, <3>2
    <2>5. QED
      BY <1>1, <2>2, <2>3, <2>4 DEF ClientsInv
  <1>4. QED
    BY <1>2, <1>3

LEMMA AddClients ==
    ASSUME ProjectInv, ClientsInv, NEW g \in Goroutines, AddClientToMap(g)
    PROVE  ClientsInv'
  <1>1. /\ pc \in [Goroutines -> {"idle", "search", "get", "add", "send"}]
        /\ clientMap \in [Dsns -> Client \cup {NoClient}]
        /\ pc[g] = "add" /\ pc' = [pc EXCEPT ![g] = "send"] /\ UNCHANGED at
    BY DEF ProjectInv, TypeOK, AddClientToMap
  <1>2. ASSUME NEW d
        PROVE  Adding(d)' = IF d = DsnOf(g) THEN Adding(d) \ {g} ELSE Adding(d)
    BY <1>1 DEF Adding, DsnOf
  <1>3. CASE DsnOf(g) \notin ValidDsns
    <2>1. UNCHANGED <<created, clientMap>>
      BY <1>3 DEF AddClientToMap
    <2>2. QED
      BY <1>2, <1>3, <2>1 DEF ClientsInv, ClientsOf
  <1>4. CASE DsnOf(g) \in ValidDsns
    <2> DEFINE c == [no |-> Cardinality(created) + 1, dsn |-> DsnOf(g)]
    <2>1. /\ created' = created \cup {c}
          /\ clientMap' = [clientMap EXCEPT ![DsnOf(g)] = c]
      BY <1>4 DEF AddClientToMap
    <2>2. c.dsn = DsnOf(g) /\ c # NoClient
      <3>1. Cardinality(created) \in Nat
        BY FS_CardinalityType DEF ProjectInv, MapInv
      <3>2. QED
        BY <1>4, <3>1, DsnAssumption DEF Client
    <2> HIDE DEF c
    <2>3. ASSUME NEW d \in ValidDsns
          PROVE  ClientsOf(d)' = IF d = DsnOf(g) THEN ClientsOf(d) \cup {c}
                                 ELSE ClientsOf(d)
      BY <2>1, <2>2 DEF ClientsOf
    <2>4. ASSUME NEW d \in ValidDsns, d # DsnOf(g)
          PROVE  /\ clientMap'[d] = NoClient => ClientsOf(d)' = {}
                 /\ Cardinality(ClientsOf(d)') + Cardinality(Adding(d)')
                      <= Cardinality(Goroutines)
      BY <1>1, <1>2, <2>1, <2>3, <2>4 DEF ClientsInv
    <2>5. ASSUME NEW d \in ValidDsns, d = DsnOf(g)
          PROVE  /\ clientMap'[d] # NoClient
                 /\ Cardinality(ClientsOf(d)') + Cardinality(Adding(d)')
                      <= Cardinality(Goroutines)
      <3>1. clientMap'[d] = c
        BY <1>1, <2>1, <2>5, DsnAssumption
      <3>2. Cardinality(Adding(d)') = Cardinality(Adding(d)) - 1
        <4>1. g \in Adding(d) /\ Adding(d)' = Adding(d) \ {g}
          BY <1>1, <1>2, <2>5 DEF Adding
        <4>2. QED
          BY <4>1, FiniteClients, FS_RemoveElement
      <3>3. Cardinality(ClientsOf(d)') \in {Cardinality(ClientsOf(d)),
                                            Cardinality(ClientsOf(d)) + 1}
        <4>1. ClientsOf(d)' = ClientsOf(d) \cup {c}
          BY <2>3, <2>5
        <4>2. Cardinality(ClientsOf(d) \cup {c}) =
                 IF c \in ClientsOf(d) THEN Cardinality(ClientsOf(d))
                 ELSE Cardinality(ClientsOf(d)) + 1
          BY FiniteClients, FS_AddElement
        <4>3. QED
          BY <4>1, <4>2
      <3>4. /\ Cardinality(ClientsOf(d)) \in Nat /\ Cardinality(Adding(d)) \in Nat
            /\ Cardinality(Goroutines) \in Nat
            /\ Cardinality(ClientsOf(d)) + Cardinality(Adding(d))
                  <= Cardinality(Goroutines)
        BY FiniteClients DEF ClientsInv
      <3>5. QED
        BY <2>2, <3>1, <3>2, <3>3, <3>4
    <2>6. QED
      BY <2>4, <2>5 DEF ClientsInv
  <1>5. QED
    BY <1>3, <1>4

(* There are never more clients of a DSN than goroutines, however many     *)
(* events are handled: two may race to create the first one, but nobody    *)
(* starts to when the map has one (GetClientFromMap and AddClientToMap     *)
(* lock the map separately).                                               *)
THEOREM ClientsAreBounded == Spec => []ClientsPerDsn
  <1>1. Init => ClientsInv
    <2> SUFFICES ASSUME Init, NEW d \in ValidDsns
                 PROVE  /\ ClientsOf(d) = {}
                        /\ Cardinality(ClientsOf(d)) + Cardinality(Adding(d))
                             <= Cardinality(Goroutines)
      BY DEF ClientsInv
    <2>1. ClientsOf(d) = {} /\ Adding(d) = {}
      BY DEF Init, ClientsOf, Adding
    <2>2. Cardinality({}) = 0 /\ Cardinality(Goroutines) \in Nat
      BY DsnAssumption, FS_EmptySet, FS_CardinalityType
    <2>3. QED
      BY <2>1, <2>2
  <1>2. ProjectInv /\ ClientsInv /\ [Next]_vars => ClientsInv'
    <2> SUFFICES ASSUME ProjectInv, ClientsInv, [Next]_vars
                 PROVE  ClientsInv'
      OBVIOUS
    <2>1. pc \in [Goroutines -> {"idle", "search", "get", "add", "send"}]
          /\ at \in [Goroutines -> Objects \cup {NoOwner}]
      BY DEF ProjectInv, TypeOK
    <2>2. ASSUME NEW g \in Goroutines, NEW o \in Objects, Receive(g, o)
          PROVE  ClientsInv'
      BY <2>1, <2>2, OtherStepsAddNothing DEF Receive
    <2>3. ASSUME NEW g \in Goroutines, SearchDsn(g)
          PROVE  ClientsInv'
      <3>1. /\ pc[g] = "search" /\ pc'[g] # "add"
            /\ UNCHANGED <<clientMap, created>>
            /\ \A h \in Goroutines \ {g} : pc'[h] = pc[h] /\ at'[h] = at[h]
        BY <2>1, <2>3 DEF SearchDsn, Annotated, NoDsn, OwnerNotFound, OwnerFound
      <3>2. QED
        BY <3>1, OtherStepsAddNothing
    <2>4. ASSUME NEW g \in Goroutines, Send(g)
          PROVE  ClientsInv'
      BY <2>1, <2>4, OtherStepsAddNothing DEF Send
    <2>5. CASE UNCHANGED vars
      BY <2>5 DEF vars, ClientsInv, ClientsOf, Adding, DsnOf
    <2>6. QED
      BY <2>2, <2>3, <2>4, <2>5, GetClients, AddClients DEF Next, Step
  <1>3. ProjectInv /\ ClientsInv => ClientsPerDsn
    <2> SUFFICES ASSUME ProjectInv, ClientsInv, NEW d \in ValidDsns
                 PROVE  Cardinality(ClientsOf(d)) <= Cardinality(Goroutines)
      BY DEF ClientsPerDsn, ClientsOf
    <2>1. QED
      BY FiniteClients DEF ClientsInv
  <1>4. QED
    BY <1>1, <1>2, <1>3, ProjectInvariant, PTL DEF Spec
=============================================================================
