-------------------------- MODULE ServerHost_proofs --------------------------
(***************************************************************************)
(* Proofs about one run of the server (ServerHost): for every list of      *)
(* services, every list of realms and every number of faults, a service    *)
(* takes work only while the ones registered before it do, and a run that  *)
(* ends well leaves no work in flight and no trail unsealed but one whose  *)
(* sink could not write its seal and said so.                              *)
(*                                                                         *)
(* Neither is inductive as it stands.  What carries them is how far `run`  *)
(* has got: the services that take work are exactly the first ones of the  *)
(* list, up to the one `run` is at; as long as everything was finished,    *)
(* work is in flight only in services that were not yet told to stop or    *)
(* are being waited for; and the trails with records behind their last     *)
(* seal are among the ones still to be released or were warned about.      *)
(***************************************************************************)
EXTENDS ServerHost, TLAPS

\* The first n services; the trails of the realms from the n-th on.
FirstServices(n) == {Services[i] : i \in 1..n}
LaterRealms(n) == {Realms[i] : i \in n..Len(Realms)}
InitialServices == {FirstServices(n) : n \in 0..Len(Services)}

\* The steps of `run` by what they have done to the services.
Before == {"down", "opening", "storing"}
After == {"storage", "final", "realms", "system", "ok", "unfinished"}
Steps == Before \cup After \cup {"starting", "recording start", "started", "serving",
                                 "stopping", "draining", "failed"}

\* The services that take work are the first ones, up to where `run` is.
UpInOrder ==
    /\ host \in Steps
    /\ host \in Before \cup {"storage", "final"} => at = 1
    /\ host \in Before \cup After => up = {}
    /\ host \in {"starting", "draining"} => at \in 1..Len(Services) /\ up = FirstServices(at - 1)
    /\ host \in {"recording start", "stopping"} => at \in 1..Len(Services) /\ up = FirstServices(at)
    /\ host \in {"started", "serving"} => at = Len(Services) /\ up = Service
    /\ host = "failed" => up \in InitialServices
    /\ ready => host = "serving"

\* Work in flight is in services that take it, or that `run` waits for; once
\* one was given up, nothing is said.
BusyInOrder ==
    /\ busy \subseteq Service
    /\ host \in Before => busy = {}
    /\ host \in {"starting", "recording start", "started", "serving"} => busy \subseteq up
    /\ host \in {"stopping", "draining"} /\ unfinished = {} => busy \subseteq FirstServices(at)
    /\ host \in After /\ unfinished = {} => busy = {}

\* A trail with records behind its last seal is still to be released, or its
\* release warned that it could not seal it.
SealedInOrder ==
    /\ unsealed \subseteq ToSet(Realms) \cup {System}
    /\ host = "realms" => at \in 1..Len(Realms)
    /\ host = "realms" /\ unfinished = {} => unsealed \subseteq LaterRealms(at) \cup {System} \cup warned
    /\ host = "system" /\ unfinished = {} => unsealed \subseteq {System} \cup warned
    /\ host = "ok" => unfinished = {} /\ unsealed \subseteq warned

\* The inductive invariant.
HostInv == UpInOrder /\ BusyInOrder /\ SealedInOrder

----------------------------------------------------------------------------
(* The lists *)

\* The list of services is a function on 1..Len(Services) that names each one
\* once, and is not empty (the services registered with the host).
LEMMA ServicesFacts ==
    /\ Len(Services) \in Nat \ {0}
    /\ DOMAIN Services = 1..Len(Services)
    /\ \A i \in 1..Len(Services) : Services[i] \in Service
    /\ \A i, j \in 1..Len(Services) : Services[i] = Services[j] => i = j
    /\ \A s \in Service : \E i \in 1..Len(Services) : s = Services[i]
<1>1. Services \in Seq(ToSet(Services)) /\ Services # <<>> /\ IsInjective(Services)
  BY ServerHostAssumption
<1>2. Len(Services) \in Nat /\ DOMAIN Services = 1..Len(Services) /\ Len(Services) # 0
  BY <1>1
<1>3. QED
  BY <1>1, <1>2 DEF Service, ToSet, IsInjective

\* The list of the realms' trails, which may be empty.
LEMMA RealmsFacts ==
    /\ Len(Realms) \in Nat
    /\ DOMAIN Realms = 1..Len(Realms)
    /\ Realms # <<>> => Len(Realms) # 0
    /\ ToSet(Realms) = LaterRealms(1)
    /\ Realms = <<>> => ToSet(Realms) = {}
<1>1. Realms \in Seq(ToSet(Realms))
  BY ServerHostAssumption
<1>2. Len(Realms) \in Nat /\ DOMAIN Realms = 1..Len(Realms)
  BY <1>1
<1>3. Realms # <<>> => Len(Realms) # 0
  BY <1>1
<1>4. ToSet(Realms) = LaterRealms(1)
  BY <1>2 DEF ToSet, LaterRealms
<1>5. Realms = <<>> => ToSet(Realms) = {}
  BY DEF ToSet
<1>6. QED
  BY <1>2, <1>3, <1>4, <1>5

\* Where the next one is in a list of n, or that there is none.
LEMMA NextIndex ==
    ASSUME NEW n \in Nat, NEW a \in 1..n
    PROVE  /\ a < n => (a + 1) - 1 = a /\ a + 1 \in 1..n
           /\ ~(a < n) => a = n
OBVIOUS

\* One more service than the first n - 1 is the first n (start_services).
LEMMA FirstServicesStep ==
    ASSUME NEW n \in 1..Len(Services)
    PROVE  /\ FirstServices(n) = FirstServices(n - 1) \cup {Services[n]}
           /\ FirstServices(n) \ {Services[n]} = FirstServices(n - 1)
           /\ Services[n] \notin FirstServices(n - 1)
<1>1. /\ Len(Services) \in Nat
      /\ \A i, j \in 1..Len(Services) : Services[i] = Services[j] => i = j
  BY ServicesFacts
<1>2. FirstServices(n) = FirstServices(n - 1) \cup {Services[n]}
  BY <1>1 DEF FirstServices
<1>3. Services[n] \notin FirstServices(n - 1)
  <2>1. SUFFICES ASSUME NEW i \in 1..(n - 1), Services[n] = Services[i]
                 PROVE  FALSE
    BY DEF FirstServices
  <2>2. i \in 1..Len(Services) /\ i # n
    BY <1>1
  <2>3. QED
    BY <1>1, <2>1, <2>2
<1>4. QED
  BY <1>2, <1>3

\* The first none are none, and the first Len(Services) are all.
LEMMA FirstServicesEnds ==
    /\ FirstServices(0) = {}
    /\ FirstServices(Len(Services)) = Service
    /\ \A n \in 0..Len(Services) : FirstServices(n) \subseteq Service
BY ServicesFacts DEF FirstServices

\* Wherever a start fails, the services that take work are the first ones.
LEMMA PrefixesFacts ==
    /\ {} \in InitialServices /\ Service \in InitialServices
    /\ \A n \in 1..Len(Services) : FirstServices(n) \in InitialServices
    /\ \A n \in 1..Len(Services) : FirstServices(n - 1) \in InitialServices
<1>1. \A n \in 0..Len(Services) : FirstServices(n) \in InitialServices
  BY DEF InitialServices
<1>2. Len(Services) \in Nat
  BY ServicesFacts
<1>3. {} \in InitialServices /\ Service \in InitialServices
  <2>1. 0 \in 0..Len(Services) /\ Len(Services) \in 0..Len(Services)
    BY <1>2
  <2>2. QED
    BY <1>1, <2>1, FirstServicesEnds
<1>4. ASSUME NEW n \in 1..Len(Services)
      PROVE  FirstServices(n) \in InitialServices /\ FirstServices(n - 1) \in InitialServices
  <2>1. n \in 0..Len(Services) /\ n - 1 \in 0..Len(Services)
    BY <1>2
  <2>2. QED
    BY <1>1, <2>1
<1>5. QED
  BY <1>3, <1>4

\* Releasing the trail of the n-th realm leaves the later ones.
LEMMA LaterRealmsStep ==
    ASSUME NEW n \in 1..Len(Realms)
    PROVE  /\ LaterRealms(n) \ {Realms[n]} \subseteq LaterRealms(n + 1)
           /\ n = Len(Realms) => LaterRealms(n) \ {Realms[n]} = {}
<1>1. Len(Realms) \in Nat
  BY RealmsFacts
<1>2. QED
  BY <1>1 DEF LaterRealms

\* Of the first n services an earlier one is there with every later one.
LEMMA FirstServicesAreFirst ==
    ASSUME NEW n \in 0..Len(Services), NEW i \in 1..Len(Services),
           NEW j \in 1..Len(Services), i < j, Services[j] \in FirstServices(n)
    PROVE  Services[i] \in FirstServices(n)
<1>1. PICK k \in 1..n : Services[j] = Services[k]
  BY DEF FirstServices
<1>2. k \in 1..Len(Services) /\ Len(Services) \in Nat
  BY ServicesFacts
<1>3. j = k
  BY <1>1, <1>2, ServicesFacts
<1>4. i \in 1..n
  BY <1>2, <1>3
<1>5. QED
  BY <1>4 DEF FirstServices

----------------------------------------------------------------------------
(* The inductive invariant *)

\* A server that is down satisfies the invariant.
LEMMA HostInit == Init => HostInv
BY DEF Init, HostInv, UpInOrder, BusyInOrder, SealedInOrder, Before, After, Steps

\* Services come up and go down in the order of the list, wherever a step fails.
LEMMA StepKeepsUpInOrder ==
    ASSUME HostInv, [Next]_vars
    PROVE  UpInOrder'
<1>1. UpInOrder /\ BusyInOrder /\ SealedInOrder
  BY DEF HostInv
<1>2. Len(Services) \in Nat \ {0} /\ FirstServices(0) = {} /\ FirstServices(Len(Services)) = Service
  BY ServicesFacts, FirstServicesEnds
<1>3. at \in 1..Len(Services) =>
          /\ FirstServices(at) = FirstServices(at - 1) \cup {Services[at]}
          /\ FirstServices(at) \ {Services[at]} = FirstServices(at - 1)
          /\ FirstServices(at) \subseteq Service /\ Services[at] \in Service
  BY FirstServicesStep, FirstServicesEnds, ServicesFacts
<1>4. {} \in InitialServices /\ Service \in InitialServices
  BY PrefixesFacts
<1>5. at \in 1..Len(Services) => FirstServices(at) \in InitialServices /\ FirstServices(at - 1) \in InitialServices
  BY PrefixesFacts
<1> USE <1>1, <1>2, <1>3, <1>4, <1>5
<1> USE DEF UpInOrder, BusyInOrder, SealedInOrder, Before, After, Steps
<1>6. CASE Run
  BY <1>6 DEF Run, To, Succeeds, Fault, runVars
<1>7. CASE RecordServerStart
  BY <1>7 DEF RecordServerStart, To, Succeeds, Fault, runVars, Fails
<1>8. CASE StorePut
  <2>1. host' \in {"starting", "failed"} /\ UNCHANGED <<at, up, ready>> /\ host = "storing"
    BY <1>8 DEF StorePut, To, Fails, runVars
  <2>2. at - 1 = 0 /\ at \in 1..Len(Services) /\ up = {}
    BY <2>1
  <2>3. QED
    BY <2>1, <2>2
<1>9. CASE StartService
  BY <1>9 DEF StartService, To, Succeeds, Fault, runVars, Fails
<1>10. CASE BindSecured
  BY <1>10 DEF BindSecured, To, Succeeds, Fault, runVars, Fails
<1>11. CASE StartSecured
  BY <1>11 DEF StartSecured, To, Succeeds, Fault, runVars
<1>12. CASE RecordStart
  <2>1. /\ host = "recording start" /\ UNCHANGED <<up, ready>>
        /\ at \in 1..Len(Services) /\ up = FirstServices(at)
    BY <1>12 DEF RecordStart
  <2>2. CASE at' = at + 1 /\ host' = "starting" /\ at < Len(Services)
    <3>1. at' - 1 = at /\ at' \in 1..Len(Services)
      BY <2>1, <2>2, ServicesFacts, NextIndex
    <3>2. QED
      BY <2>1, <2>2, <3>1
  <2>3. CASE at' = at /\ host' = "started" /\ ~(at < Len(Services))
    <3>1. at = Len(Services)
      BY <2>1, <2>3, ServicesFacts, NextIndex
    <3>2. QED
      BY <2>1, <2>3, <3>1
  <2>4. CASE at' = at /\ host' = "failed"
    BY <2>1, <2>4
  <2>5. QED
    BY <1>12, <2>2, <2>3, <2>4 DEF RecordStart, To, Fails
<1>13. CASE SetReady
  BY <1>13 DEF SetReady, To, Succeeds, Fault, runVars
<1>14. CASE Signal
  BY <1>14 DEF Signal, To, Succeeds, Fault, runVars
<1>15. CASE Shutdown
  BY <1>15 DEF Shutdown, To, Succeeds, Fault, runVars
<1>16. CASE Deadline
  BY <1>16 DEF Deadline, To, Succeeds, Fault, runVars
<1>17. CASE AskToStop
  BY <1>17 DEF AskToStop, To, Succeeds, Fault, runVars
<1>18. CASE Stopped
  <2>1. CASE at > 1
    <3>1. at' = at - 1 /\ at' \in 1..Len(Services) /\ host' = "stopping"
      BY <1>18, <2>1 DEF Stopped, To, Succeeds, Fault, runVars, OnToTheNext
    <3>2. QED
      BY <1>18, <3>1 DEF Stopped, To, Succeeds, Fault, runVars, OnToTheNext
  <2>2. CASE ~(at > 1)
    <3>1. at - 1 = 0 /\ at' = 1 /\ host' = "storage"
      BY <1>18, <2>2 DEF Stopped, To, Succeeds, Fault, runVars, OnToTheNext
    <3>2. QED
      BY <1>18, <3>1 DEF Stopped, To, Succeeds, Fault, runVars, OnToTheNext
  <2>3. QED
    BY <2>1, <2>2
<1>19. CASE NotStopped
  <2>1. CASE at > 1
    <3>1. at' = at - 1 /\ at' \in 1..Len(Services) /\ host' = "stopping"
      BY <1>19, <2>1 DEF NotStopped, To, Succeeds, Fault, runVars, OnToTheNext
    <3>2. QED
      BY <1>19, <3>1 DEF NotStopped, To, Succeeds, Fault, runVars, OnToTheNext
  <2>2. CASE ~(at > 1)
    <3>1. at - 1 = 0 /\ at' = 1 /\ host' = "storage"
      BY <1>19, <2>2 DEF NotStopped, To, Succeeds, Fault, runVars, OnToTheNext
    <3>2. QED
      BY <1>19, <3>1 DEF NotStopped, To, Succeeds, Fault, runVars, OnToTheNext
  <2>3. QED
    BY <2>1, <2>2
<1>20. CASE StorageShutdown
  BY <1>20 DEF StorageShutdown, To, Succeeds, Fault, runVars
<1>21. CASE RecordServerStop
  BY <1>21 DEF RecordServerStop, To, Succeeds, Fault, runVars, Fails
<1>22. CASE ReleaseRealm
  BY <1>22 DEF ReleaseRealm, To, Succeeds, Fault, runVars, Released
<1>23. CASE ReleaseSystem
  BY <1>23 DEF ReleaseSystem, To, Succeeds, Fault, runVars, Released
<1>24. CASE Exit
  BY <1>24 DEF Exit, To, Succeeds, Fault, runVars
<1>25. ASSUME NEW s \in Service, WorkBegins(s)
      PROVE  UpInOrder'
  BY <1>25 DEF WorkBegins
<1>26. ASSUME NEW s \in Service, WorkEnds(s)
      PROVE  UpInOrder'
  BY <1>26 DEF WorkEnds
<1>27. ASSUME NEW s \in Service, GraceEnds(s)
      PROVE  UpInOrder'
  BY <1>27 DEF GraceEnds
<1>28. CASE UNCHANGED hostVars
  BY <1>28 DEF hostVars
<1>29. QED
  BY <1>6, <1>7, <1>8, <1>9, <1>10, <1>11, <1>12, <1>13, <1>14, <1>15, <1>16, <1>17, <1>18, <1>19, <1>20, <1>21, <1>22, <1>23, <1>24, <1>25, <1>26, <1>27, <1>28 DEF Next, HostStep, vars, hostVars

\* Work in flight stays in services that take it or are waited for.
LEMMA StepKeepsBusyInOrder ==
    ASSUME HostInv, [Next]_vars
    PROVE  BusyInOrder'
<1>1. UpInOrder /\ BusyInOrder /\ SealedInOrder
  BY DEF HostInv
<1>2. Len(Services) \in Nat \ {0} /\ FirstServices(0) = {} /\ FirstServices(Len(Services)) = Service
  BY ServicesFacts, FirstServicesEnds
<1>3. at \in 1..Len(Services) =>
          /\ FirstServices(at) = FirstServices(at - 1) \cup {Services[at]}
          /\ FirstServices(at) \ {Services[at]} = FirstServices(at - 1)
          /\ FirstServices(at) \subseteq Service /\ Services[at] \in Service
  BY FirstServicesStep, FirstServicesEnds, ServicesFacts
<1> USE <1>1, <1>2, <1>3
<1> USE DEF UpInOrder, BusyInOrder, SealedInOrder, Before, After, Steps
<1>4. CASE Run
  BY <1>4 DEF Run, To, Succeeds, Fault, runVars
<1>5. CASE RecordServerStart
  BY <1>5 DEF RecordServerStart, To, Succeeds, Fault, runVars, Fails
<1>6. CASE StorePut
  BY <1>6 DEF StorePut, To, Succeeds, Fault, runVars, Fails
<1>7. CASE StartService
  BY <1>7 DEF StartService, To, Succeeds, Fault, runVars, Fails
<1>8. CASE BindSecured
  BY <1>8 DEF BindSecured, To, Succeeds, Fault, runVars, Fails
<1>9. CASE StartSecured
  BY <1>9 DEF StartSecured, To, Succeeds, Fault, runVars
<1>10. CASE RecordStart
  BY <1>10 DEF RecordStart, To, Succeeds, Fault, runVars, Fails
<1>11. CASE SetReady
  BY <1>11 DEF SetReady, To, Succeeds, Fault, runVars
<1>12. CASE Signal
  BY <1>12 DEF Signal, To, Succeeds, Fault, runVars
<1>13. CASE Shutdown
  BY <1>13 DEF Shutdown, To, Succeeds, Fault, runVars
<1>14. CASE Deadline
  BY <1>14 DEF Deadline, To, Succeeds, Fault, runVars
<1>15. CASE AskToStop
  BY <1>15 DEF AskToStop, To, Succeeds, Fault, runVars
<1>16. CASE Stopped
  <2>1. CASE at > 1
    <3>1. at' = at - 1 /\ at' \in 1..Len(Services) /\ host' = "stopping"
      BY <1>16, <2>1 DEF Stopped, To, Succeeds, Fault, runVars, OnToTheNext
    <3>2. QED
      BY <1>16, <3>1 DEF Stopped, To, Succeeds, Fault, runVars, OnToTheNext
  <2>2. CASE ~(at > 1)
    <3>1. at - 1 = 0 /\ at' = 1 /\ host' = "storage"
      BY <1>16, <2>2 DEF Stopped, To, Succeeds, Fault, runVars, OnToTheNext
    <3>2. QED
      BY <1>16, <3>1 DEF Stopped, To, Succeeds, Fault, runVars, OnToTheNext
  <2>3. QED
    BY <2>1, <2>2
<1>17. CASE NotStopped
  <2>1. CASE at > 1
    <3>1. at' = at - 1 /\ at' \in 1..Len(Services) /\ host' = "stopping"
      BY <1>17, <2>1 DEF NotStopped, To, Succeeds, Fault, runVars, OnToTheNext
    <3>2. QED
      BY <1>17, <3>1 DEF NotStopped, To, Succeeds, Fault, runVars, OnToTheNext
  <2>2. CASE ~(at > 1)
    <3>1. at - 1 = 0 /\ at' = 1 /\ host' = "storage"
      BY <1>17, <2>2 DEF NotStopped, To, Succeeds, Fault, runVars, OnToTheNext
    <3>2. QED
      BY <1>17, <3>1 DEF NotStopped, To, Succeeds, Fault, runVars, OnToTheNext
  <2>3. QED
    BY <2>1, <2>2
<1>18. CASE StorageShutdown
  BY <1>18 DEF StorageShutdown, To, Succeeds, Fault, runVars
<1>19. CASE RecordServerStop
  BY <1>19 DEF RecordServerStop, To, Succeeds, Fault, runVars, Fails
<1>20. CASE ReleaseRealm
  BY <1>20 DEF ReleaseRealm, To, Succeeds, Fault, runVars, Released
<1>21. CASE ReleaseSystem
  BY <1>21 DEF ReleaseSystem, To, Succeeds, Fault, runVars, Released
<1>22. CASE Exit
  BY <1>22 DEF Exit, To, Succeeds, Fault, runVars
<1>23. ASSUME NEW s \in Service, WorkBegins(s)
      PROVE  BusyInOrder'
  <2>1. host \notin Before \cup After /\ s \in up /\ busy' = busy \cup {s}
    BY <1>23 DEF WorkBegins
  <2>2. UNCHANGED <<host, at, up, unfinished>>
    BY <1>23 DEF WorkBegins
  <2>3. host \in {"stopping", "draining"} => s \in FirstServices(at)
    BY <2>1
  <2>4. QED
    BY <2>1, <2>2, <2>3
<1>24. ASSUME NEW s \in Service, WorkEnds(s)
      PROVE  BusyInOrder'
  BY <1>24 DEF WorkEnds
<1>25. ASSUME NEW s \in Service, GraceEnds(s)
      PROVE  BusyInOrder'
  BY <1>25 DEF GraceEnds
<1>26. CASE UNCHANGED hostVars
  BY <1>26 DEF hostVars
<1>27. QED
  BY <1>4, <1>5, <1>6, <1>7, <1>8, <1>9, <1>10, <1>11, <1>12, <1>13, <1>14, <1>15, <1>16, <1>17, <1>18, <1>19, <1>20, <1>21, <1>22, <1>23, <1>24, <1>25, <1>26 DEF Next, HostStep, vars, hostVars

\* Trails are released in order, and nothing is written behind a seal by work that
\* was waited for.
LEMMA StepKeepsSealedInOrder ==
    ASSUME HostInv, [Next]_vars
    PROVE  SealedInOrder'
<1>1. UpInOrder /\ BusyInOrder /\ SealedInOrder
  BY DEF HostInv
<1>2. /\ Len(Realms) \in Nat /\ ToSet(Realms) = LaterRealms(1)
      /\ Realms # <<>> => Len(Realms) # 0
      /\ Realms = <<>> => ToSet(Realms) = {}
  BY RealmsFacts
<1>3. at \in 1..Len(Realms) =>
          /\ LaterRealms(at) \ {Realms[at]} \subseteq LaterRealms(at + 1)
          /\ at = Len(Realms) => LaterRealms(at) \ {Realms[at]} = {}
  BY LaterRealmsStep
<1>4. \A s \in Service : {TrailOf[s]} \ {None} \subseteq ToSet(Realms) \cup {System}
  BY ServerHostAssumption DEF Service
<1> USE <1>1, <1>2, <1>3, <1>4
<1> USE DEF UpInOrder, BusyInOrder, SealedInOrder, Before, After, Steps
<1>5. CASE Run
  BY <1>5 DEF Run, To, Succeeds, Fault, runVars
<1>6. CASE RecordServerStart
  BY <1>6 DEF RecordServerStart, To, Succeeds, Fault, runVars, Fails
<1>7. CASE StorePut
  BY <1>7 DEF StorePut, To, Succeeds, Fault, runVars, Fails
<1>8. CASE StartService
  BY <1>8 DEF StartService, To, Succeeds, Fault, runVars, Fails
<1>9. CASE BindSecured
  BY <1>9 DEF BindSecured, To, Succeeds, Fault, runVars, Fails
<1>10. CASE StartSecured
  BY <1>10 DEF StartSecured, To, Succeeds, Fault, runVars
<1>11. CASE RecordStart
  BY <1>11 DEF RecordStart, To, Succeeds, Fault, runVars, Fails
<1>12. CASE SetReady
  BY <1>12 DEF SetReady, To, Succeeds, Fault, runVars
<1>13. CASE Signal
  BY <1>13 DEF Signal, To, Succeeds, Fault, runVars
<1>14. CASE Shutdown
  BY <1>14 DEF Shutdown, To, Succeeds, Fault, runVars
<1>15. CASE Deadline
  BY <1>15 DEF Deadline, To, Succeeds, Fault, runVars
<1>16. CASE AskToStop
  BY <1>16 DEF AskToStop, To, Succeeds, Fault, runVars
<1>17. CASE Stopped
  BY <1>17 DEF Stopped, To, Succeeds, Fault, runVars, OnToTheNext
<1>18. CASE NotStopped
  BY <1>18 DEF NotStopped, To, Succeeds, Fault, runVars, OnToTheNext
<1>19. CASE StorageShutdown
  BY <1>19 DEF StorageShutdown, To, Succeeds, Fault, runVars
<1>20. CASE RecordServerStop
  BY <1>20 DEF RecordServerStop, To, Succeeds, Fault, runVars, Fails
<1>21. CASE ReleaseRealm
  <2>1. CASE at < Len(Realms)
    <3>1. host' = "realms" /\ at' = at + 1 /\ at' \in 1..Len(Realms)
      BY <1>21, <2>1 DEF ReleaseRealm, To, Succeeds, Fault, runVars, Released
    <3>2. QED
      BY <1>21, <3>1 DEF ReleaseRealm, To, Succeeds, Fault, runVars, Released
  <2>2. CASE ~(at < Len(Realms))
    <3>1. host' = "system" /\ at = Len(Realms)
      BY <1>21, <2>2 DEF ReleaseRealm, To, Succeeds, Fault, runVars, Released
    <3>2. QED
      BY <1>21, <3>1 DEF ReleaseRealm, To, Succeeds, Fault, runVars, Released
  <2>3. QED
    BY <2>1, <2>2
<1>22. CASE ReleaseSystem
  BY <1>22 DEF ReleaseSystem, To, Succeeds, Fault, runVars, Released
<1>23. CASE Exit
  BY <1>23 DEF Exit, To, Succeeds, Fault, runVars
<1>24. ASSUME NEW s \in Service, WorkBegins(s)
      PROVE  SealedInOrder'
  BY <1>24 DEF WorkBegins
<1>25. ASSUME NEW s \in Service, WorkEnds(s)
      PROVE  SealedInOrder'
  BY <1>25 DEF WorkEnds
<1>26. ASSUME NEW s \in Service, GraceEnds(s)
      PROVE  SealedInOrder'
  BY <1>26 DEF GraceEnds
<1>27. CASE UNCHANGED hostVars
  BY <1>27 DEF hostVars
<1>28. QED
  BY <1>5, <1>6, <1>7, <1>8, <1>9, <1>10, <1>11, <1>12, <1>13, <1>14, <1>15, <1>16, <1>17, <1>18, <1>19, <1>20, <1>21, <1>22, <1>23, <1>24, <1>25, <1>26, <1>27 DEF Next, HostStep, vars, hostVars

----------------------------------------------------------------------------
(* What is proved *)

\* The inductive invariant holds of every behaviour of the host, with every
\* interleaving of requests, signals, renewals and faults.
THEOREM HostInvariance == Spec => []HostInv
<1>1. Init => HostInv
  BY HostInit
<1>2. HostInv /\ [Next]_vars => HostInv'
  BY StepKeepsUpInOrder, StepKeepsBusyInOrder, StepKeepsSealedInOrder DEF HostInv
<1>3. QED
  BY <1>1, <1>2, PTL DEF Spec

\* A service takes work only while the ones registered before it do, and
\* readiness is told only while all of them do (start_services,
\* stop_services, Health::set_ready).
THEOREM ServicesNest == Spec => []FirstUpLastDown
<1>1. HostInv => FirstUpLastDown
  <2>1. SUFFICES ASSUME HostInv
                 PROVE  FirstUpLastDown
    OBVIOUS
  <2>2. up \in InitialServices
    BY <2>1, ServicesFacts, PrefixesFacts DEF HostInv, UpInOrder, Before, After, Steps
  <2>3. \A i, j \in DOMAIN Services : i < j /\ Services[j] \in up => Services[i] \in up
    BY <2>2, ServicesFacts, FirstServicesAreFirst DEF InitialServices
  <2>4. ready => up = Service
    BY <2>1 DEF HostInv, UpInOrder
  <2>5. QED
    BY <2>3, <2>4 DEF FirstUpLastDown
<1>2. QED
  BY <1>1, HostInvariance, PTL

\* A run that ends well leaves no work in flight, and no trail with records
\* behind its last seal but one that its sink warned about when it was released
\* (DefaultServerHost::run, FileAuditSink::shutdown).
THEOREM CleanEndsAreSealed == Spec => []CleanEndIsSealed
<1>1. HostInv => CleanEndIsSealed
  BY DEF HostInv, BusyInOrder, SealedInOrder, CleanEndIsSealed, After
<1>2. QED
  BY <1>1, HostInvariance, PTL
=============================================================================
