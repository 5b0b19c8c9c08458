------------------------------ MODULE Material ------------------------------
(***************************************************************************)
(* The certificate and the key of one surface, re-read while it serves     *)
(* (src/crates/pic-x-transport/src/reload.rs, material.rs, surface.rs).    *)
(*                                                                         *)
(* A renewal replaces the two files one at a time, in either order, each   *)
(* by a rename or by writing over it.  The surface reads them when it      *)
(* starts; its watcher compares digests every interval and reloads; SIGHUP *)
(* reloads without asking.  Each of them reads the certificate and then    *)
(* the key, and a file may change between any two reads.                   *)
(*                                                                         *)
(* What is in a file is a number that only grows: an even one is a whole   *)
(* file of that version, an odd one is a file half written.                *)
(***************************************************************************)
EXTENDS Naturals

CONSTANTS
    MaxVersion,     \* bound: how often the material is renewed
    Reload,         \* whether tls.reload is set, so that there is a watcher
    None

VARIABLES
    disk,       \* the files
    served,     \* what handshakes use: Reloadable.config
    seen,       \* Reloadable.seen
    starter,    \* Listener::start
    watch,      \* the task of `watch`
    hangup,     \* reload_all, in the task of on_hangup
    slipped     \* history: one of the two moments nothing guards, below

materialVars == <<disk, served, seen, starter, watch, hangup, slipped>>

ASSUME MaterialAssumption == MaxVersion \in Nat /\ Reload \in BOOLEAN

Whole(file) == file % 2 = 0
Pair(c, k) == [cert |-> c, key |-> k]
NoPair == Pair(None, None)

\* A reader: what it does, the certificate it has read so far, and the
\* configuration it has built and not yet installed.
Reader(at) == [at |-> at, cert |-> None, config |-> NoPair]

MaterialInit ==
    /\ disk = Pair(0, 0)
    /\ served = NoPair /\ seen = NoPair
    /\ starter = Reader("off") /\ watch = Reader("off") /\ hangup = Reader("off")
    /\ slipped = FALSE

\* `build`: both parse, and the key is the certificate's own.
Builds(pair) == Whole(pair.cert) /\ Whole(pair.key) /\ pair.cert = pair.key

\* Whether two readers are between reading the material and installing it.
Overlap(w, h) == w.at \in {"building", "installing"} /\ h.at \in {"building", "installing"}

\* A file moves on.  A surface that is starting has read what it serves and
\* has yet to note what it has seen: a change in between is taken as seen.
Replace(f) ==
    /\ \E file \in {disk[f] + 1, disk[f] + 2} :
           /\ file <= 2 * MaxVersion
           /\ Whole(disk[f]) \/ file = disk[f] + 1
           /\ disk' = [disk EXCEPT ![f] = file]
    /\ slipped' = (slipped \/ starter.at = "noting" \/ starter.cert # None)
    /\ UNCHANGED <<served, seen, starter, watch, hangup>>

----------------------------------------------------------------------------
(* Listener::start *)

StartBuild ==
    /\ starter.at = "building"
    /\ IF starter.cert = None
       THEN starter' = [starter EXCEPT !.cert = disk.cert] /\ UNCHANGED served
       ELSE LET read == Pair(starter.cert, disk.key) IN
            IF Builds(read) THEN starter' = Reader("noting") /\ served' = read
                            ELSE starter' = Reader("refused") /\ UNCHANGED served
    /\ UNCHANGED <<disk, seen, watch, hangup, slipped>>

\* Reloadable::new, then register and spawn the watcher.
StartNote ==
    /\ starter.at = "noting"
    /\ IF starter.cert = None
       THEN starter' = [starter EXCEPT !.cert = disk.cert] /\ UNCHANGED <<seen, watch>>
       ELSE /\ seen' = Pair(starter.cert, disk.key)
            /\ starter' = Reader("started")
            /\ watch' = IF Reload THEN Reader("asleep") ELSE Reader("off")
    /\ UNCHANGED <<disk, served, hangup, slipped>>

----------------------------------------------------------------------------
(* `watch` and `reload_all` *)

\* `seen` is under a lock, held while the files are read against it.
Locks(r) == r.at \in {"comparing", "remembering"} /\ r.cert # None

\* The interval is over: `changed` reads the files against what was seen.
Compare ==
    /\ watch.at = "asleep" /\ ~Locks(hangup)
    /\ watch' = [Reader("comparing") EXCEPT !.cert = disk.cert]
    /\ UNCHANGED <<disk, served, seen, starter, hangup, slipped>>

\* What has changed is left to settle, in which time it may change again.
Compared ==
    /\ watch.at = "comparing"
    /\ watch' = Reader(IF Pair(watch.cert, disk.key) = seen THEN "asleep" ELSE "remembering")
    /\ UNCHANGED <<disk, served, seen, starter, hangup, slipped>>

\* The next state of a reader that remembers, builds or installs; `rest` is
\* where it is when it is done.  What is on disk is remembered before it is
\* read to be used, and what does not build is left alone.
Reloading(r, rest) ==
    CASE r.at = "remembering" /\ r.cert = None ->
             [r EXCEPT !.cert = disk.cert]
      [] r.at = "remembering" /\ r.cert # None -> Reader("building")
      [] r.at = "building" /\ r.cert = None -> [r EXCEPT !.cert = disk.cert]
      [] r.at = "building" /\ r.cert # None ->
             IF Builds(Pair(r.cert, disk.key))
             THEN [Reader("installing") EXCEPT !.config = Pair(r.cert, disk.key)]
             ELSE Reader(rest)
      [] r.at = "installing" -> Reader(rest)

\* Mutant: what is on disk is remembered when the reload is over.
RememberedAfter(r) ==
    IF r.at = "installing" THEN disk ELSE seen

Remembered(r) ==
    IF r.at = "remembering" /\ r.cert # None THEN Pair(r.cert, disk.key) ELSE seen

Installed(r) == IF r.at = "installing" THEN r.config ELSE served

AtWork(r, other) ==
    /\ r.at \in {"remembering", "building", "installing"}
    /\ r.at = "remembering" /\ r.cert = None => ~Locks(other)
    /\ seen' = Remembered(r)
    /\ served' = Installed(r)

WatchReloads ==
    /\ AtWork(watch, hangup)
    /\ watch' = Reloading(watch, "asleep")
    /\ slipped' = (slipped \/ Overlap(watch', hangup))
    /\ UNCHANGED <<disk, starter, hangup>>

\* SIGHUP while the surface is registered.
Hangup ==
    /\ hangup.at = "off" /\ starter.at = "started"
    /\ ~Locks(watch)
    /\ hangup' = [Reader("remembering") EXCEPT !.cert = disk.cert]
    /\ UNCHANGED <<disk, served, seen, starter, watch, slipped>>

HangupReloads ==
    /\ AtWork(hangup, watch)
    /\ hangup' = Reloading(hangup, "off")
    /\ slipped' = (slipped \/ Overlap(watch, hangup'))
    /\ UNCHANGED <<disk, starter, watch>>

\* Surface::stop, or the end of the process.  A reload that is under way goes
\* on into a configuration that nobody uses any more.
Withdraw ==
    /\ served' = NoPair /\ seen' = NoPair
    /\ starter' = Reader("off") /\ watch' = Reader("off") /\ hangup' = Reader("off")
    /\ slipped' = FALSE
    /\ UNCHANGED disk

----------------------------------------------------------------------------

Renewal == \E f \in {"cert", "key"} : Replace(f)
WatchStep == Compare \/ Compared \/ WatchReloads
MaterialStep == StartBuild \/ StartNote \/ WatchStep \/ Hangup \/ HangupReloads
=============================================================================
