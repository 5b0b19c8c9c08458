----------------------------- MODULE ServerHost -----------------------------
(***************************************************************************)
(* One run of the server: DefaultServerHost of src/crates/pic-x-server/src *)
(* /host.rs, the services it starts and stops, and the audit trails it     *)
(* leaves behind.                                                          *)
(*                                                                         *)
(* The host records that it starts, starts the services in order, waits    *)
(* for a signal, stops them in the reverse order within one budget,        *)
(* records that it stopped and releases the trails.  Meanwhile requests    *)
(* are in flight that write to the same trails, and one of the surfaces    *)
(* has material that is renewed (Material).  Of a trail only this is kept: *)
(* whether this run has written to it since it was last sealed.  Time is   *)
(* one moment, the deadline of the shutdown.                               *)
(***************************************************************************)
EXTENDS Material, Sequences, SequencesExt, FiniteSets

CONSTANTS
    Services,   \* the registered services, in order
    Secured,    \* the one whose surface has the material
    TrailOf,    \* the trail the work of each service is recorded in, or None
    System,     \* the server's own trail
    Realms,     \* the trails of the realms, in order
    MaxFaults   \* bound: how many steps fail

ASSUME ServerHostAssumption ==
    /\ Services \in Seq(ToSet(Services)) /\ Services # <<>>
    /\ IsInjective(Services) /\ Secured \in ToSet(Services)
    /\ Realms \in Seq(ToSet(Realms))
    /\ DOMAIN TrailOf = ToSet(Services)
    /\ \A s \in ToSet(Services) : TrailOf[s] \in ToSet(Realms) \cup {System, None}
    /\ System \notin ToSet(Realms) /\ MaxFaults \in Nat

VARIABLES
    host,       \* what `run` is doing
    at,         \* the service or the realm it has got to
    ready,      \* Health.ready
    requested,  \* a stop signal has come
    late,       \* the deadline has passed
    up,         \* services that take work
    busy,       \* services with work in flight
    unsealed,   \* trails this run wrote to since they were last sealed
    warned,     \* history: trails with nothing but a warning that their last seal failed
    unfinished, \* what stop_services and the releases after it could not finish
    faults

runVars == <<ready, requested, late, up, busy, unsealed, warned, unfinished>>
hostVars == <<host, at, ready, requested, late, up, busy, unsealed, warned, unfinished,
              faults>>
vars == <<host, at, ready, requested, late, up, busy, unsealed, warned, unfinished, faults,
          disk, served, seen, starter, watch, hangup, slipped>>

Service == ToSet(Services)

Init ==
    /\ host = "down" /\ at = 1
    /\ ready = FALSE /\ requested = FALSE /\ late = FALSE
    /\ up = {} /\ busy = {}
    /\ unsealed = {} /\ warned = {} /\ unfinished = {} /\ faults = 0
    /\ MaterialInit

To(step) == host' = step
Fault == faults < MaxFaults /\ faults' = faults + 1

\* `run` and the process have ended.
Over == {"down", "ok", "unfinished", "failed"}

\* A step of `run` that succeeds, or that fails with another outcome.
Succeeds == UNCHANGED faults
Fails == Fault /\ To("failed")

----------------------------------------------------------------------------
(* Up to serving *)

Run ==
    /\ host = "down"
    /\ To("opening")
    /\ UNCHANGED <<at, runVars, faults, materialVars>>

\* record_audit("server.start")
RecordServerStart ==
    /\ host = "opening"
    /\ \/ Succeeds /\ To("storing") /\ unsealed' = unsealed \cup {System}
       \/ Fails /\ UNCHANGED unsealed
    /\ UNCHANGED <<at, ready, requested, late, up, busy, warned, unfinished, materialVars>>

StorePut ==
    /\ host = "storing"
    /\ \/ Succeeds /\ To("starting")
       \/ Fails
    /\ UNCHANGED <<at, runVars, materialVars>>

\* A service without material: it binds its address, or the start fails.
StartService ==
    /\ host = "starting" /\ Services[at] # Secured
    /\ \/ Succeeds /\ To("recording start") /\ up' = up \cup {Services[at]}
       \/ Fails /\ UNCHANGED up
    /\ UNCHANGED <<at, ready, requested, late, busy, unsealed, warned, unfinished, materialVars>>

\* The surface with material binds, and builds it before it listens.
BindSecured ==
    /\ host = "starting" /\ Services[at] = Secured /\ starter.at = "off"
    /\ \/ Succeeds /\ UNCHANGED host /\ starter' = Reader("building")
       \/ Fails /\ UNCHANGED starter
    /\ UNCHANGED <<at, runVars, disk, served, seen, watch, hangup, slipped>>

StartSecured ==
    /\ host = "starting" /\ Services[at] = Secured
    /\ \/ starter.at = "started" /\ To("recording start") /\ up' = up \cup {Secured}
       \/ starter.at = "refused" /\ To("failed") /\ UNCHANGED up
    /\ UNCHANGED <<at, ready, requested, late, busy, unsealed, warned, unfinished, faults,
                   materialVars>>

\* record_audit("service.start"), and on to the next service.
RecordStart ==
    /\ host = "recording start"
    /\ \/ /\ Succeeds
          /\ unsealed' = unsealed \cup {System}
          /\ IF at < Len(Services) THEN To("starting") /\ at' = at + 1
                                   ELSE To("started") /\ UNCHANGED at
       \/ Fails /\ UNCHANGED <<at, unsealed>>
    /\ UNCHANGED <<ready, requested, late, up, busy, warned, unfinished, materialVars>>

SetReady ==
    /\ host = "started"
    /\ To("serving") /\ ready' = TRUE
    /\ UNCHANGED <<at, requested, late, up, busy, unsealed, warned, unfinished, faults,
                   materialVars>>

\* process_shutdown listens from before the volume is prepared, so a signal
\* that comes while the server starts is kept.
Signal ==
    /\ host \notin Over /\ ~requested
    /\ requested' = TRUE
    /\ UNCHANGED <<host, at, ready, late, up, busy, unsealed, warned, unfinished, faults,
                   materialVars>>

----------------------------------------------------------------------------
(* The way down *)

\* Readiness goes first, and the budget starts.
Shutdown ==
    /\ host = "serving" /\ requested
    /\ To("stopping") /\ ready' = FALSE /\ at' = Len(Services)
    /\ UNCHANGED <<requested, late, up, busy, unsealed, warned, unfinished, faults, materialVars>>

Deadline ==
    /\ host \in {"stopping", "draining", "storage", "final", "realms", "system"}
    /\ ~late
    /\ late' = TRUE
    /\ UNCHANGED <<host, at, ready, requested, up, busy, unsealed, warned, unfinished, faults,
                   materialVars>>

\* Mutant: services stop in the order they started.
AskInOrder ==
    /\ host = "stopping"
    /\ LET s == Services[Len(Services) + 1 - at] IN
           /\ up' = up \ {s}
           /\ IF s = Secured THEN Withdraw ELSE UNCHANGED materialVars
    /\ To("draining")
    /\ UNCHANGED <<at, ready, requested, late, busy, unsealed, warned, unfinished, faults>>

\* service.stop, up to where it waits: no more work is taken, and a surface
\* withdraws its material.
AskToStop ==
    /\ host = "stopping"
    /\ To("draining") /\ up' = up \ {Services[at]}
    /\ IF Services[at] = Secured THEN Withdraw ELSE UNCHANGED materialVars
    /\ UNCHANGED <<at, ready, requested, late, busy, unsealed, warned, unfinished, faults>>

OnToTheNext ==
    IF at > 1 THEN To("stopping") /\ at' = at - 1 ELSE To("storage") /\ at' = 1

\* Stopped: the answer counts although the deadline has passed, when it is
\* there as soon as it is asked for.  A record of it that fails is a warning.
Stopped ==
    /\ host = "draining" /\ Services[at] \notin busy
    /\ \/ Succeeds /\ unsealed' = unsealed \cup {System}
       \/ Fault /\ UNCHANGED unsealed
    /\ OnToTheNext
    /\ UNCHANGED <<ready, requested, late, up, busy, warned, unfinished, materialVars>>

\* Mutant: a service that is busy is waited for, deadline or not.
StopFailsOnly ==
    /\ host = "draining"
    /\ Fault
    /\ unfinished' = unfinished \cup {Services[at]}
    /\ OnToTheNext
    /\ UNCHANGED <<ready, requested, late, up, busy, unsealed, warned, materialVars>>

\* Mutant: only what failed is named, not what ran out of time.
NotStoppedUntold ==
    /\ host = "draining"
    /\ \/ Fault /\ unfinished' = unfinished \cup {Services[at]}
       \/ late /\ UNCHANGED <<faults, unfinished>>
    /\ OnToTheNext
    /\ UNCHANGED <<ready, requested, late, up, busy, unsealed, warned, materialVars>>

\* It fails, or the budget is gone before it has stopped: its name is kept.  A
\* service without work may be late too, when its task is not joined yet.
NotStopped ==
    /\ host = "draining"
    /\ \/ Fault
       \/ late /\ UNCHANGED faults
    /\ unfinished' = unfinished \cup {Services[at]}
    /\ OnToTheNext
    /\ UNCHANGED <<ready, requested, late, up, busy, unsealed, warned, materialVars>>

StorageShutdown ==
    /\ host = "storage"
    /\ To("final")
    /\ \/ Succeeds /\ UNCHANGED unfinished
       \/ Fault /\ unfinished' = unfinished \cup {"storage"}
    /\ UNCHANGED <<at, ready, requested, late, up, busy, unsealed, warned, materialVars>>

\* record_audit("server.stop"): when it fails `run` returns there and then.
RecordServerStop ==
    /\ host = "final"
    /\ \/ /\ Succeeds /\ unsealed' = unsealed \cup {System}
          /\ To(IF Realms = <<>> THEN "system" ELSE "realms")
       \/ Fails /\ UNCHANGED unsealed
    /\ UNCHANGED <<at, ready, requested, late, up, busy, warned, unfinished, materialVars>>

\* Releasing a sink flushes what it holds and seals it.  A flush that fails is
\* told to the host; a seal that fails is a warning, and the release succeeds.
Released(trail) ==
    \/ Succeeds /\ unsealed' = unsealed \ {trail} /\ UNCHANGED <<warned, unfinished>>
    \/ /\ Fault /\ trail \in unsealed
       /\ warned' = warned \cup {trail} /\ UNCHANGED <<unsealed, unfinished>>
    \/ Fault /\ unfinished' = unfinished \cup {trail} /\ UNCHANGED <<unsealed, warned>>

ReleaseRealm ==
    /\ host = "realms"
    /\ Released(Realms[at])
    /\ IF at < Len(Realms) THEN at' = at + 1 /\ UNCHANGED host
                           ELSE at' = 1 /\ To("system")
    /\ UNCHANGED <<ready, requested, late, up, busy, materialVars>>

ReleaseSystem ==
    /\ host = "system"
    /\ Released(System)
    /\ To(IF unfinished' = {} THEN "ok" ELSE "unfinished")
    /\ UNCHANGED <<at, ready, requested, late, up, busy, materialVars>>

----------------------------------------------------------------------------
(* The work of the services *)

WorkBegins(s) ==
    /\ s \in up \ busy
    /\ busy' = busy \cup {s}
    /\ UNCHANGED <<host, at, ready, requested, late, up, unsealed, warned, unfinished, faults,
                   materialVars>>

\* What was done is recorded, wherever the host has got to: a sink that was
\* released opens its file again.
WorkEnds(s) ==
    /\ s \in busy
    /\ busy' = busy \ {s}
    /\ unsealed' = unsealed \cup ({TrailOf[s]} \ {None})
    /\ warned' = warned \ {TrailOf[s]}
    /\ UNCHANGED <<host, at, ready, requested, late, up, unfinished, faults, materialVars>>

\* The grace of a surface is as long as the budget and starts later.
GraceEnds(s) ==
    /\ s \in busy \ up /\ late
    /\ busy' = busy \ {s}
    /\ UNCHANGED <<host, at, ready, requested, late, up, unsealed, warned, unfinished, faults,
                   materialVars>>

\* The process goes: after `run`, or where it stands.  What was started goes
\* with it.
Exit ==
    /\ host # "down"
    /\ host' = "down" /\ at' = 1
    /\ ready' = FALSE /\ requested' = FALSE /\ late' = FALSE
    /\ up' = {} /\ busy' = {}
    /\ unsealed' = {} /\ warned' = {} /\ unfinished' = {}
    /\ UNCHANGED faults
    /\ Withdraw

----------------------------------------------------------------------------

HostStep ==
    \/ RecordServerStart \/ StorePut \/ StartService \/ BindSecured \/ StartSecured
    \/ RecordStart \/ SetReady \/ Shutdown \/ AskToStop \/ Stopped \/ NotStopped
    \/ StorageShutdown \/ RecordServerStop \/ ReleaseRealm \/ ReleaseSystem

Next ==
    \/ Run \/ HostStep \/ Signal \/ Deadline \/ Exit
    \/ \E s \in Service : WorkBegins(s) \/ WorkEnds(s) \/ GraceEnds(s)
    \/ (MaterialStep \/ Renewal) /\ UNCHANGED hostVars

\* The host goes on whenever what it waits for is there, the deadline comes,
\* and the watcher's timer fires.  Nothing is assumed of the work in flight.
Fairness ==
    /\ WF_vars(HostStep) /\ WF_vars(Deadline)
    /\ WF_vars((StartBuild \/ StartNote) /\ UNCHANGED hostVars)
    /\ WF_vars(WatchStep /\ UNCHANGED hostVars)
    /\ WF_vars(HangupReloads /\ UNCHANGED hostVars)

Spec == Init /\ [][Next]_vars /\ Fairness

----------------------------------------------------------------------------
(* What is checked *)

\* A service can count on the ones registered before it for as long as it
\* takes work itself, on the way up and on the way down, and a load balancer
\* that is told "ready" can send work to all of them (start_services,
\* stop_services, Health::set_ready).
FirstUpLastDown ==
    /\ \A i, j \in DOMAIN Services : i < j /\ Services[j] \in up => Services[i] \in up
    /\ ready => up = Service

\* "A sink flushed before the last write is a trail with a hole in it": a run
\* that ends well leaves no work in flight, and no trail with records behind
\* its last seal but one whose sealing failed when it was released, which the
\* sink says in a warning only (DefaultServerHost::run, FileAuditSink::shutdown).
CleanEndIsSealed == host = "ok" => busy = {} /\ unsealed \subseteq warned

\* Once a renewal is through, the surface comes to serve it, however the
\* writes fell between the reads (watch, remember, reload), unless one of the
\* two unguarded moments was hit.
FollowsTheFiles ==
    <>[](Secured \in up /\ ~slipped /\ Builds(disk)) => <>[](served = disk)

\* "The point of a shutdown is to release as much as it can": once the services
\* are told to stop, the run ends, and none of them is left taking work,
\* whichever of them failed, hung or ran out of time (stop_services, within).
ShutdownEnds == host = "stopping" ~> host \in Over /\ up = {}
=============================================================================
