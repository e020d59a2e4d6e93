------------------------------ MODULE TunSetup ------------------------------
(***************************************************************************)
(* The transaction that sets up the TUN device (tun.c): what is on the     *)
(* interface is saved, the interface is taken down while queues and        *)
(* offloads are negotiated, and restored and extended at the end.  Every   *)
(* netlink request and ioctl may fail; a netlink request may also take     *)
(* effect although its answer is lost.                                     *)
(*                                                                         *)
(* Several processes of one network namespace may try, as a daemon or with *)
(* --mktun and --rmtun.  Routes are those of the main table, by            *)
(* destination: an administrator's over the device, another interface's,   *)
(* or the daemon's own.  Routes the kernel derives from addresses are left *)
(* out, and so is anybody else who changes the interface meanwhile.        *)
(***************************************************************************)
EXTENDS Integers, Sequences, FiniteSets, SequencesExt

CONSTANTS
  Processes,
  Modes,          \* [Processes -> SUBSET {"run", "mktun", "rmtun"}]
  Networks,       \* what the network may look like at first
  V4, V6,         \* addresses
  Dests,          \* destinations of routes
  Conf,           \* tayga.conf: [addrs, routes, up]
  Queues,         \* worker queues of a daemon that does not dispatch
  Able,           \* queue -> offloads it accepts; queue 0 is the primary one
  Offload,        \* the offload asked for
  Vnet,           \* the device has virtio headers
  Nobody          \* who holds a lock that nobody holds

Network ==
  [exists : BOOLEAN, up : BOOLEAN, persist : BOOLEAN, addrs : SUBSET (V4 \cup V6),
   routes : [Dests -> {"none", "static", "tayga", "other"}]]

\* What the kernel keeps true: an interface that does not exist has nothing, one
\* that is down has no routes; and the daemon's routes are those of tayga.conf.
Legal(n) ==
  /\ n \in Network
  /\ ~n.exists => ~n.up /\ ~n.persist /\ n.addrs = {}
  /\ \A d \in Dests : /\ n.routes[d] \in {"static", "tayga"} => n.up
                      /\ n.routes[d] = "tayga" => d \in Conf.routes
\* ... and an interface that nobody has open persists.
Settled(n) == Legal(n) /\ (n.exists => n.persist)

ASSUME SetupAssumption ==
  /\ Nobody \notin Processes
  /\ Modes \in [Processes -> SUBSET {"run", "mktun", "rmtun"}]
  /\ Conf \in [addrs : SUBSET (V4 \cup V6), routes : SUBSET Dests, up : BOOLEAN]
  /\ \A n \in Networks : Settled(n)
  /\ Queues \in Nat
  /\ Offload \in {"auto", "udp", "tcp", "off"}

VARIABLES
  net,            \* the interface and the routes
  lock,           \* the process that holds the lock file
  tun,            \* [Processes -> tun_transaction and what goes with it]
  before          \* [Processes -> net when the process took the lock]; for properties

setupVars == <<net, lock, tun, before>>

----------------------------------------------------------------------------
(* The kernel *)

Absent == [exists |-> FALSE, up |-> FALSE, persist |-> FALSE, addrs |-> {}]
Vanished(n) ==
  [d \in Dests |-> IF n.routes[d] \in {"static", "tayga"} THEN "none" ELSE n.routes[d]]

\* A device that goes down loses its routes, and perhaps its IPv6 addresses.
Downs(n) ==
  IF ~n.up THEN {n}
  ELSE {[n EXCEPT !.up = FALSE, !.routes = Vanished(n), !.addrs = kept] :
          kept \in {n.addrs, n.addrs \cap V4}}
Up(n) == [n EXCEPT !.up = TRUE]

\* The last descriptor of a device is closed.
Closed(n) ==
  IF n.persist THEN n
  ELSE [n EXCEPT !.exists = FALSE, !.up = FALSE, !.addrs = {}, !.routes = Vanished(n)]

AddAddr(n, a) == [n EXCEPT !.addrs = @ \cup {a}]
DelAddr(n, a) == [n EXCEPT !.addrs = @ \ {a}]
PutRoute(n, d, route) == [n EXCEPT !.routes[d] = route]
DelRoute(n, d) == [n EXCEPT !.routes[d] = IF @ = "tayga" THEN "none" ELSE @]

----------------------------------------------------------------------------
(* The transaction *)

NoConfig == [addrs |-> {}, routes |-> [d \in Dests |-> "none"]]

Fresh ==
  [stage |-> "idle", mode |-> "run", dispatch |-> FALSE,
   fd |-> FALSE, queues |-> 0, mask |-> "none",
   valid |-> FALSE, wasUp |-> FALSE, created |-> FALSE,
   saved |-> NoConfig, undo |-> <<>>]

\* tun_save_config for addresses, then routes: those of this interface and
\* those that the routes of tayga.conf will replace.
SavedConfig(n) ==
  [addrs |-> n.addrs,
   routes |-> [d \in Dests |->
     IF n.routes[d] = "static" \/ d \in Conf.routes THEN n.routes[d] ELSE "none"]]

\* tun_restore_config: addresses, then routes.
Restored(n, saved) ==
  [n EXCEPT !.addrs = @ \cup saved.addrs,
            !.routes = [d \in Dests |->
              IF saved.routes[d] # "none" THEN saved.routes[d] ELSE @[d]]]

\* The inverse of one request.
Undone(item, n) ==
  IF item.kind = "addr" THEN DelAddr(n, item.what) ELSE DelRoute(n, item.what)

\* tun_negotiate: the first candidate that every queue accepts.
Candidates ==
  IF Vnet /\ Offload = "auto" THEN <<"udp", "tcp", "none">>
  ELSE IF Offload \in {"auto", "off"} THEN <<"none">>
  ELSE IF Vnet THEN <<Offload>> ELSE <<>>
Accepted(count) ==
  {k \in DOMAIN Candidates : \A q \in 0..count : Candidates[k] \in Able[q]}
First(ks) == CHOOSE k \in ks : \A other \in ks : k <= other

\* tun_setup_commit
Committed(t) == [t EXCEPT !.saved = NoConfig, !.undo = <<>>, !.valid = FALSE]

\* The network after tun_setup_abort, if the kernel refuses nothing: requests
\* are undone, newest first, the link gets its old state, what was saved is back.
Rollbacks(t, n) ==
  LET count == Len(t.undo)
      undone[k \in 0..count] == IF k = 0 THEN n ELSE Undone(t.undo[k], undone[k - 1])
  IN {Restored(m, t.saved) :
        m \in IF t.wasUp THEN {Up(undone[count])} ELSE Downs(undone[count])}

\* ... and after the descriptors were closed.
Aborts(t, n) ==
  {IF t.fd THEN Closed([m EXCEPT !.persist = @ /\ ~t.created]) ELSE m :
     m \in IF t.valid THEN Rollbacks(t, n) ELSE {n}}

Drop(t) == [Committed(t) EXCEPT !.fd = FALSE, !.queues = 0]

\* tun_setup_abort.  Its second call, after one of tun_setup's, finds nothing.
Abort(p, stage) ==
  /\ net' \in Aborts(tun[p], net)
  /\ lock' = IF lock = p THEN Nobody ELSE lock
  /\ tun' = [tun EXCEPT ![p] = [Drop(@) EXCEPT !.stage = stage]]
  /\ UNCHANGED before

----------------------------------------------------------------------------
(* tun_setup, one action per call that may fail. *)

At(p, stage) == tun[p].stage = stage
Goto(p, stage) == tun' = [tun EXCEPT ![p].stage = stage]
Mode(p) == tun[p].mode

\* Everything a step can do besides succeeding: go to setup_fail.
Fails(p) == Goto(p, "fail") /\ UNCHANGED <<net, lock, before>>

\* A netlink request: done, refused, or done although it seems to have failed.
Request(p, results, stage) ==
  \/ net' \in results /\ Goto(p, stage) /\ UNCHANGED <<lock, before>>
  \/ net' \in results /\ Goto(p, "fail") /\ UNCHANGED <<lock, before>>
  \/ Fails(p)

\* A daemon that dispatches wants a device of its own.
Begin(p) ==
  /\ At(p, "idle")
  /\ \E mode \in Modes[p], dispatch \in BOOLEAN :
       tun' = [tun EXCEPT ![p] = [Fresh EXCEPT
                 !.mode = mode, !.dispatch = dispatch,
                 !.stage = IF ~dispatch \/ (mode = "run" /\ ~net.exists) THEN "lock"
                           ELSE IF mode = "run" THEN "refused" ELSE "over"]]
  /\ UNCHANGED <<net, lock, before>>

Lock(p) ==
  /\ At(p, "lock")
  /\ \/ /\ lock = Nobody
        /\ lock' = p /\ before' = [before EXCEPT ![p] = net] /\ Goto(p, "attach") /\ UNCHANGED net
     \/ Fails(p)

\* open, TUNSETIFF: the device is created if it is not there.
Attach(p) ==
  /\ At(p, "attach")
  /\ \/ /\ tun[p].dispatch => ~net.exists
        /\ net' = [net EXCEPT !.exists = TRUE]
        /\ tun' = [tun EXCEPT ![p].fd = TRUE, ![p].stage = "save"]
        /\ UNCHANGED <<lock, before>>
     \/ Fails(p)

Save(p) ==
  /\ At(p, "save")
  /\ \/ /\ tun' = [tun EXCEPT ![p] =
                     IF Mode(p) = "rmtun" THEN [@ EXCEPT !.stage = "unpersist"]
                     ELSE [@ EXCEPT !.valid = TRUE, !.wasUp = net.up,
                                    !.saved = SavedConfig(net), !.stage = "down"]]
        /\ UNCHANGED <<net, lock, before>>
     \/ Fails(p)

Down(p) ==
  /\ At(p, "down")
  /\ Request(p, IF tun[p].wasUp THEN Downs(net) ELSE {net},
             IF Mode(p) = "mktun" THEN "persist" ELSE "queues")

\* Each worker has a queue, unless the main thread dispatches.  Then packets
\* left on the interface are discarded, and the offload is negotiated.
AttachQueues(p) ==
  /\ At(p, "queues")
  /\ \/ LET count == IF tun[p].dispatch THEN 0 ELSE Queues
        IN /\ Accepted(count) # {}
           /\ tun' = [tun EXCEPT ![p].queues = count, ![p].stage = "up",
                                 ![p].mask = Candidates[First(Accepted(count))]]
           /\ UNCHANGED <<net, lock, before>>
     \/ Fails(p)

\* The queue of the main thread is detached, then the link comes up.
LinkUp(p) ==
  /\ At(p, "up")
  /\ Request(p, {IF tun[p].wasUp \/ Conf.up THEN Up(net) ELSE net}, "restore")

\* Several requests, of which one may fail.
Restore(p) ==
  /\ At(p, "restore")
  /\ Request(p, {IF tun[p].wasUp THEN Restored(net, tun[p].saved) ELSE net}, "add")

Todo(p) ==
  {[kind |-> "addr", what |-> a] : a \in Conf.addrs}
    \cup {[kind |-> "route", what |-> d] : d \in Conf.routes}
Left(p) == {item \in Todo(p) : item \notin ToSet(tun[p].undo)}

\* Mutant: a request that seems to have failed is not taken back.
Log_Successes(p, item, done) == IF done THEN <<item>> \o tun[p].undo ELSE tun[p].undo
\* netlink_exchange keeps the inverse of each request, even of one that fails.
Log(p, item, done) == <<item>> \o tun[p].undo

\* The addresses of tayga.conf, then its routes; a route needs the link.
Add(p) ==
  /\ At(p, "add")
  /\ \E item \in Left(p) :
       /\ item.kind = "route" => \A other \in Left(p) : other.kind = "route"
       /\ \E applied, done \in BOOLEAN :
            /\ done => applied
            /\ applied => item.kind = "addr" \/ net.up
            /\ net' = IF ~applied THEN net
                      ELSE IF item.kind = "addr" THEN AddAddr(net, item.what)
                      ELSE PutRoute(net, item.what, "tayga")
            /\ tun' = [tun EXCEPT ![p].undo = Log(p, item, done),
                                  ![p].stage = IF done THEN "add" ELSE "fail"]
  /\ UNCHANGED <<lock, before>>

SetupDone(p) ==
  /\ At(p, "add") /\ Left(p) = {}
  /\ Goto(p, "ready") /\ UNCHANGED <<net, lock, before>>

\* --mktun: negotiated as above, then TUNSETPERSIST; owner and group follow.
Persist(p) ==
  /\ At(p, "persist")
  /\ \/ /\ Accepted(0) # {}
        /\ net' = [net EXCEPT !.persist = TRUE]
        /\ \E stage \in {"reup", "fail"} :
             tun' = [tun EXCEPT ![p].created = ~net.persist, ![p].stage = stage]
        /\ UNCHANGED <<lock, before>>
     \/ Fails(p)

\* The link and what was on it come back.
ReUp(p) ==
  /\ At(p, "reup")
  /\ Request(p, {IF tun[p].wasUp THEN Restored(Up(net), tun[p].saved) ELSE net}, "made")

\* --rmtun
Unpersist(p) ==
  /\ At(p, "unpersist")
  /\ \/ /\ net' = [net EXCEPT !.persist = FALSE]
        /\ Goto(p, "made") /\ UNCHANGED <<lock, before>>
     \/ Fails(p)

\* --mktun and --rmtun end: commit, close.
Made(p) ==
  /\ At(p, "made")
  /\ net' = Closed(net) /\ lock' = Nobody
  /\ tun' = [tun EXCEPT ![p] = [Drop(@) EXCEPT !.stage = "over"]]
  /\ UNCHANGED before

\* setup_fail; a daemon goes to startup_failed.
SetupFails(p) ==
  /\ At(p, "fail")
  /\ Abort(p, IF Mode(p) = "run" THEN "refused" ELSE "over")

SetupStep(p) ==
  \/ Begin(p) \/ Lock(p) \/ Attach(p) \/ Save(p) \/ Down(p) \/ AttachQueues(p)
  \/ LinkUp(p) \/ Restore(p) \/ Add(p) \/ SetupDone(p)
  \/ Persist(p) \/ ReUp(p) \/ Unpersist(p) \/ Made(p) \/ SetupFails(p)

\* A killed process: its descriptors and its lock are closed.
Killed(p) ==
  /\ net' = IF tun[p].fd THEN Closed(net) ELSE net
  /\ lock' = IF lock = p THEN Nobody ELSE lock
  /\ tun' = [tun EXCEPT ![p] = [Fresh EXCEPT !.stage = "over"]]
  /\ UNCHANGED before

SetupInit ==
  /\ net \in Networks
  /\ lock = Nobody
  /\ tun = [p \in Processes |-> Fresh]
  /\ before = [p \in Processes |-> net]
============================================================================
