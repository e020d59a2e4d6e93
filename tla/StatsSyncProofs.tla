---------------------------- MODULE StatsSyncProofs ----------------------------
(* The handshake of the statistics keeps its promise, for any number of workers, any *)
(* number of reports and exports, and whenever threads begin, stop and end.          *)
EXTENDS StatsSync, TLAPS

\* Types of what the promise is about.
Types ==
  /\ priv \in [Slots -> Nat] /\ pub \in [Slots -> Nat]
  /\ req \in Nat /\ ack \in [Slots -> Nat] /\ gen \in [Threads -> Nat]
  /\ registered \in BOOLEAN /\ active \in SUBSET Workers
  /\ pc = [t \in Threads |-> pc[t]]
  /\ target \in [Callers -> [main : BOOLEAN, workers : SUBSET Workers]]
  /\ synced \in [Callers -> BOOLEAN]
  /\ got \in [Callers -> [Slots -> Nat]] /\ need \in [Callers -> [Slots -> Nat]]

\* A caller has fixed what it needs; it knows its targets; it has a generation of its own.
Asking == {"target", "request", "ownflush", "ownack", "wait"}
Aimed == Asking \ {"target"}
Waiting == {"ownflush", "ownack", "wait"}

\* A slot shows no more than was counted, and all of it when its thread is about to end
\* or to be forgotten; nothing acknowledged was not requested.
SlotInv(s) ==
  /\ pub[s] <= priv[s]
  /\ ack[s] <= req
  /\ s \in Workers /\ pc[s] \in {"exit", "done"} => pub[s] = priv[s]
  /\ s \in Workers /\ s \notin active => pc[s] = "done"
  /\ s = Main /\ pc[s] = "dereg" => pub[s] = priv[s]

\* What caller c needs of slot s has been published.
Shown(c, s) == need[c][s] <= pub[s]

\* Why caller c may go on without slot s, or with its acknowledgement.
PairInv(c, s) ==
  /\ pc[c] \in Asking => need[c][s] <= priv[s]
  /\ pc[c] \in Asking /\ s = Main /\ (~registered \/ ~target[c].main) => Shown(c, s)
  /\ pc[c] \in Aimed /\ s \in Workers /\ s \notin target[c].workers => Shown(c, s)
  /\ pc[c] \in Waiting /\ ack[s] >= gen[c] => Shown(c, s)
  /\ pc[c] \in Waiting /\ pc[s] \in {"ack", "ownack"} /\ gen[s] >= gen[c] => Shown(c, s)
  /\ pc[c] = "read" /\ synced[c] => Shown(c, s)
  /\ pc[c] = "report" /\ synced[c] => need[c][s] <= got[c][s]

\* The inductive invariant behind SyncedSeesCounted.
SInv ==
  /\ Types
  /\ \A t \in Threads : gen[t] <= req
  /\ \A s \in Slots : SlotInv(s)
  /\ \A c \in Callers, s \in Slots : PairInv(c, s)

\* Who has a slot: the main thread and the workers, and not the telemetry thread.
LEMMA Names ==
  /\ Main \in Slots /\ Main \notin Workers /\ Exporter \notin Slots
  /\ Slots \subseteq Threads /\ Callers \subseteq Threads /\ Workers \subseteq Slots
  /\ \A s \in Slots : s = Main \/ s \in Workers
  /\ \A c \in Callers : c = Main \/ c \notin Slots
  /\ \A c \in Callers : c \notin Workers
BY Workers64 DEF Main, Exporter, Slots, Workers, Threads, Callers

\* It holds when telemetry_start writes the first status: nothing is counted or asked.
LEMMA SInit == Init => SInv
<1> SUFFICES ASSUME Init PROVE SInv OBVIOUS
<1> USE Names DEF Init
<1>1. Types BY DEF Types, Zero, NoTarget
<1>2. \A t \in Threads : pc[t] \in {"lock", "off", "run"} BY DEF Threads
<1>3. \A s \in Slots : SlotInv(s) BY <1>2 DEF SlotInv, Zero
<1>4. \A c \in Callers, s \in Slots : PairInv(c, s)
  BY <1>2 DEF PairInv, Asking, Aimed, Waiting
<1>5. \A t \in Threads : gen[t] <= req OBVIOUS
<1> QED BY <1>1, <1>3, <1>4, <1>5 DEF SInv

\* A thread that moves leaves pc an array of the threads.
LEMMA Moves ==
  ASSUME pc = [t \in Threads |-> pc[t]], NEW t, NEW label, pc' = [pc EXCEPT ![t] = label]
  PROVE  pc' = [u \in Threads |-> pc'[u]]
OBVIOUS

\* Labels that promise nothing.
Rest == {"run", "lock", "begin", "flush", "join", "drain", "joinx", "publish"}

\* A thread goes where nothing is promised, or where it keeps its promise; besides its
\* own locals only flushed counters change.
LEMMA Leaves ==
  ASSUME SInv, NEW t \in Threads, Types',
         UNCHANGED <<priv, req, ack, registered, active>>,
         \A s \in Slots : pub[s] <= pub'[s] /\ pub'[s] <= priv[s],
         \A u \in Threads \ {t} : pc'[u] = pc[u] /\ gen'[u] = gen[u],
         \A c \in Callers \ {t} : /\ target'[c] = target[c] /\ synced'[c] = synced[c]
                                  /\ got'[c] = got[c] /\ need'[c] = need[c],
         gen'[t] <= req,
         \/ pc'[t] \in Rest
         \/ t \notin Workers /\ pc'[t] = "done"
         \/ t \in Callers /\ pc'[t] = "read" /\ (synced'[t] => \A s \in Slots : Shown(t, s)')
         \/ t \in Callers /\ pc'[t] = "report"
              /\ (synced'[t] => \A s \in Slots : need'[t][s] <= got'[t][s]),
         t \in Workers => pc[t] # "done"
  PROVE  SInv'
<1> USE Names
<1>1. \A u \in Threads : gen'[u] <= req' BY DEF SInv
<1>2. \A s \in Slots : pub[s] \in Nat /\ pub'[s] \in Nat /\ priv[s] \in Nat
  BY DEF SInv, Types
<1>3. ASSUME NEW s \in Slots PROVE SlotInv(s)'
  <2>1. SlotInv(s) BY DEF SInv
  <2>2. pub[s] = priv[s] => pub'[s] = priv[s] BY <1>2
  <2> QED BY <2>1, <2>2 DEF SlotInv, Rest
<1>4. ASSUME NEW c \in Callers, NEW s \in Slots PROVE PairInv(c, s)'
  <2>1. CASE c = t BY <2>1 DEF PairInv, Asking, Aimed, Waiting, Rest
  <2>2. CASE c # t
    <3>1. PairInv(c, s) /\ need[c][s] \in Nat BY DEF SInv, Types
    <3>2. Shown(c, s) => Shown(c, s)' BY <1>2, <2>2, <3>1 DEF Shown
    <3>3. pc'[s] \in {"ack", "ownack"} => pc'[s] = pc[s] /\ gen'[s] = gen[s]
      BY DEF Rest
    <3> QED BY <2>2, <3>1, <3>2, <3>3 DEF PairInv
  <2> QED BY <2>1, <2>2
<1> QED BY <1>1, <1>3, <1>4 DEF SInv

\* Nothing of the handshake changes.
LEMMA Aside ==
  ASSUME SInv,
         UNCHANGED <<priv, pub, req, ack, registered, active, pc, gen, target, synced, got, need>>
  PROVE  SInv'
BY DEF SInv, Types, SlotInv, PairInv, Shown

\* stats_flush_worker: what was counted is shown.
LEMMA Flushes ==
  ASSUME SInv, NEW t \in Slots, NEW label,
         pub' = [pub EXCEPT ![t] = priv[t]],
         UNCHANGED <<priv, req, ack, registered, active, gen, target, synced, got, need>>,
         pc' = [pc EXCEPT ![t] = label],
         \/ label = pc[t]
         \/ label \in {"ack", "run", "begin", "exit", "dereg"}
         \/ pc[t] = "ownflush" /\ label = "ownack",
         t \in Workers => pc[t] # "done"
  PROVE  SInv'
<1> USE Names
<1>1. Types' BY DEF SInv, Types
<1>2. \A u \in Threads : gen'[u] <= req' BY DEF SInv
<1>3. pub'[t] = priv[t] /\ pc'[t] = label /\ \A s \in Slots \ {t} : pub'[s] = pub[s]
  BY DEF SInv, Types
<1>4. \A u \in Threads : u # t => pc'[u] = pc[u] BY DEF SInv, Types
<1>5. \A s \in Slots : pub[s] <= pub'[s] /\ pub[s] \in Nat /\ pub'[s] \in Nat /\ priv[s] \in Nat
  <2>1. \A s \in Slots : pub[s] \in Nat /\ pub'[s] \in Nat /\ priv[s] \in Nat
    BY <1>1 DEF SInv, Types
  <2>2. \A s \in Slots : pub[s] <= priv[s] BY DEF SInv, SlotInv
  <2> QED BY <1>3, <2>1, <2>2
<1>6. ASSUME NEW s \in Slots PROVE SlotInv(s)'
  <2>1. SlotInv(s) BY DEF SInv
  <2>2. CASE s = t BY <1>3, <1>5, <2>1, <2>2 DEF SlotInv
  <2>3. CASE s # t BY <1>3, <1>4, <2>1, <2>3 DEF SlotInv
  <2> QED BY <2>2, <2>3
<1>7. ASSUME NEW c \in Callers, NEW s \in Slots PROVE PairInv(c, s)'
  <2>1. PairInv(c, s) /\ need[c][s] \in Nat BY DEF SInv, Types
  <2>2. Shown(c, s) => Shown(c, s)' BY <1>5, <2>1 DEF Shown
  <2>3. s = t /\ need[c][s] <= priv[s] => Shown(c, s)' BY <1>3 DEF Shown
  <2>4. pc'[c] \in Asking => pc[c] \in Asking /\ (pc'[c] \in Aimed <=> pc[c] \in Aimed)
                            /\ (pc'[c] \in Waiting <=> pc[c] \in Waiting)
    BY <1>3, <1>4 DEF Asking, Aimed, Waiting
  <2>5. pc'[c] \in {"read", "report"} => pc'[c] = pc[c] BY <1>3, <1>4
  <2>6. Waiting \subseteq Aimed /\ Aimed \subseteq Asking BY DEF Waiting, Aimed, Asking
  <2>7. pc'[c] \in Waiting /\ pc'[s] \in {"ack", "ownack"} /\ gen[s] >= gen[c] => Shown(c, s)'
    <3>1. CASE s = t BY <2>1, <2>3, <2>4, <2>6, <3>1 DEF PairInv
    <3>2. CASE s # t BY <1>4, <2>1, <2>2, <2>4, <2>6, <3>2 DEF PairInv
    <3> QED BY <3>1, <3>2
  <2> QED BY <2>1, <2>2, <2>4, <2>5, <2>6, <2>7 DEF PairInv
<1> QED BY <1>1, <1>2, <1>6, <1>7 DEF SInv

\* Counting only makes the private counters grow, and no thread counts after its last flush.
LEMMA Counts ==
  ASSUME SInv, NEW t \in Slots, Count(t)
  PROVE  SInv'
<1> USE Names
<1>1. /\ priv' = [priv EXCEPT ![t] = @ + 1] /\ (pub' = pub \/ pub' = [pub EXCEPT ![t] = priv'[t]])
      /\ UNCHANGED <<req, ack, registered, active, pc, gen, target, synced, got, need>>
      /\ pc[t] \in {"run", "drain"}
  BY DEF Count, Counting, shake, life, snap
<1>2. Types' BY <1>1 DEF SInv, Types
<1>3. \A s \in Slots : /\ pub[s] \in Nat /\ pub'[s] \in Nat /\ priv[s] \in Nat /\ priv'[s] \in Nat
                       /\ pub[s] <= priv[s] /\ ack[s] \in Nat
  BY <1>2 DEF SInv, Types, SlotInv
<1>4. priv'[t] = priv[t] + 1 /\ (pub'[t] = pub[t] \/ pub'[t] = priv'[t])
      /\ \A s \in Slots \ {t} : priv'[s] = priv[s] /\ pub'[s] = pub[s]
  BY <1>1, <1>2 DEF SInv, Types
<1>5. \A s \in Slots : priv[s] <= priv'[s] /\ pub[s] <= pub'[s] /\ pub'[s] <= priv'[s]
  BY <1>3, <1>4
<1>6. ASSUME NEW s \in Slots PROVE SlotInv(s)'
  BY <1>1, <1>4, <1>5 DEF SInv, SlotInv
<1>7. ASSUME NEW c \in Callers, NEW s \in Slots PROVE PairInv(c, s)'
  <2>1. PairInv(c, s) /\ need[c][s] \in Nat BY DEF SInv, Types
  <2>2. Shown(c, s) => Shown(c, s)' BY <1>1, <1>3, <1>5, <2>1 DEF Shown
  <2>3. need[c][s] <= priv[s] => need'[c][s] <= priv'[s] BY <1>1, <1>3, <1>5, <2>1
  <2> QED BY <1>1, <2>1, <2>2, <2>3 DEF PairInv
<1>8. \A u \in Threads : gen'[u] <= req' BY <1>1 DEF SInv
<1> QED BY <1>2, <1>6, <1>7, <1>8 DEF SInv

\* The label after a call: the next one, or the loop.
LEMMA ReturnGoes ==
  ASSUME NEW c, Return(c)
  PROVE  \E label \in {"run", "lock", "begin"} : pc' = [pc EXCEPT ![c] = label]
BY DEF Return, Enter, Goto

\* Counters that do not change.
LEMMA Still ==
  ASSUME SInv, pub' = pub
  PROVE  \A s \in Slots : pub[s] <= pub'[s] /\ pub'[s] <= priv[s]
<1>1. \A s \in Slots : pub[s] \in Nat /\ pub[s] <= priv[s] BY DEF SInv, Types, SlotInv
<1>2. \A s \in Slots : pub[s] <= pub[s] BY <1>1
<1> QED BY <1>1, <1>2

\* stats_check_sync_request.
LEMMA ChecksSync ==
  ASSUME SInv, NEW t \in Slots, CheckSync(t)
  PROVE  SInv'
<1> USE Names
<1>1. /\ gen' = [gen EXCEPT ![t] = req] /\ pc' = [pc EXCEPT ![t] = "flush"]
      /\ UNCHANGED <<priv, pub, req, ack, registered, active, target, synced, got, need>>
      /\ pc[t] \in {"run", "lock"}
  BY DEF CheckSync, Checking, Goto, counters, shake, life
<1>2. Types' BY <1>1 DEF SInv, Types
<1>3. gen'[t] <= req /\ pc'[t] = "flush" /\ pc[t] # "done"
      /\ \A u \in Threads \ {t} : pc'[u] = pc[u] /\ gen'[u] = gen[u]
  BY <1>1, <1>2 DEF SInv, Types
<1>4. \A s \in Slots : pub[s] <= pub'[s] /\ pub'[s] <= priv[s]
  BY <1>1, Still
<1> QED BY <1>1, <1>2, <1>3, <1>4, Leaves DEF Rest

\* Between load and acknowledgement a thread publishes all it has counted.
LEMMA ChecksFlush ==
  ASSUME SInv, NEW t \in Slots, CheckFlush(t)
  PROVE  SInv'
BY Flushes DEF CheckFlush, FlushSlot, Goto, shake, life, snap

\* What a thread acknowledges it has flushed since it was requested.
LEMMA Acknowledges ==
  ASSUME SInv, NEW t \in Slots, pc[t] \in {"ack", "ownack"}, NEW label,
         ack' = [ack EXCEPT ![t] = gen[t]], pc' = [pc EXCEPT ![t] = label],
         \/ gen' = [gen EXCEPT ![t] = 0] /\ label \in {"run", "lock"}
         \/ gen' = gen /\ pc[t] = "ownack" /\ label = "wait",
         UNCHANGED <<priv, pub, req, registered, active, target, synced, got, need>>
  PROVE  SInv'
<1> USE Names
<1>1. Types' BY DEF SInv, Types
<1>2. /\ ack'[t] = gen[t] /\ pc'[t] = label
      /\ \A s \in Slots \ {t} : ack'[s] = ack[s]
      /\ \A u \in Threads \ {t} : pc'[u] = pc[u] /\ gen'[u] = gen[u]
  BY DEF SInv, Types
<1>3. \A u \in Threads : gen'[u] <= req' /\ gen[u] <= req BY <1>1, <1>2 DEF SInv, Types
<1>4. ASSUME NEW s \in Slots PROVE SlotInv(s)'
  BY <1>2, <1>3 DEF SInv, SlotInv
<1>5. ASSUME NEW c \in Callers, NEW s \in Slots PROVE PairInv(c, s)'
  <2>1. PairInv(c, s) BY DEF SInv
  <2>2. pc'[c] \in Asking => /\ pc[c] \in Asking /\ (pc'[c] \in Aimed <=> pc[c] \in Aimed)
                             /\ (pc'[c] \in Waiting <=> pc[c] \in Waiting) /\ gen'[c] = gen[c]
    BY <1>2 DEF Asking, Aimed, Waiting
  <2>3. pc'[c] \in {"read", "report"} => pc'[c] = pc[c] BY <1>2
  <2>4. Waiting \subseteq Aimed /\ Aimed \subseteq Asking BY DEF Waiting, Aimed, Asking
  <2>5. Shown(c, s)' <=> Shown(c, s) BY DEF Shown
  <2>6. pc'[c] \in Waiting /\ ack'[s] >= gen'[c] => Shown(c, s)
    BY <1>2, <2>1, <2>2, <2>4 DEF PairInv
  <2>7. pc'[c] \in Waiting /\ pc'[s] \in {"ack", "ownack"} /\ gen'[s] >= gen'[c] => Shown(c, s)
    BY <1>2, <2>1, <2>2, <2>4 DEF PairInv
  <2>8. pc'[c] \in Asking => need'[c][s] <= priv'[s] BY <2>1, <2>2 DEF PairInv
  <2>9. pc'[c] \in Asking /\ s = Main /\ (~registered' \/ ~target'[c].main) => Shown(c, s)
    BY <2>1, <2>2 DEF PairInv
  <2>10. pc'[c] \in Aimed /\ s \in Workers /\ s \notin target'[c].workers => Shown(c, s)
    BY <2>1, <2>2, <2>4 DEF PairInv
  <2>11. /\ pc'[c] = "read" /\ synced'[c] => Shown(c, s)
         /\ pc'[c] = "report" /\ synced'[c] => need'[c][s] <= got'[c][s]
    BY <2>1, <2>3 DEF PairInv
  <2> QED BY <2>5, <2>6, <2>7, <2>8, <2>9, <2>10, <2>11 DEF PairInv
<1> QED BY <1>1, <1>3, <1>4, <1>5 DEF SInv

\* A caller's targets, as far as the main thread is concerned.
LEMMA AimsMain ==
  ASSUME target \in [Callers -> [main : BOOLEAN, workers : SUBSET Workers]],
         NEW c \in Callers, NEW asked \in BOOLEAN
  PROVE  [target EXCEPT ![c].main = asked] \in [Callers -> [main : BOOLEAN, workers : SUBSET Workers]]
OBVIOUS

\* stats_sync_slots notes what is needed, and whether the main thread is to be asked.
LEMMA Begins ==
  ASSUME SInv, NEW c \in Callers, Begin(c)
  PROVE  SInv'
<1> USE Names
<1>1. /\ need' = [need EXCEPT ![c] =
                   [s \in Slots |-> IF s # Main \/ registered THEN priv[s] ELSE pub[s]]]
      /\ target' = [target EXCEPT ![c].main = registered]
      /\ pc' = [pc EXCEPT ![c] = "target"]
      /\ UNCHANGED <<priv, pub, req, ack, registered, active, gen, synced, got>>
  BY DEF Begin, Goto, counters, shake, life
<1>2. \A s \in Slots : pub[s] \in Nat /\ priv[s] \in Nat /\ pub[s] <= priv[s]
  BY DEF SInv, Types, SlotInv
<1>3. Types'
  <2>1. pc' = [u \in Threads |-> pc'[u]] BY <1>1, Moves DEF SInv, Types
  <2>2. target' \in [Callers -> [main : BOOLEAN, workers : SUBSET Workers]]
    <3>1. registered \in BOOLEAN BY DEF SInv, Types
    <3> QED BY <1>1, <3>1, AimsMain DEF SInv, Types
  <2>3. need' \in [Callers -> [Slots -> Nat]]
    <3>1. [s \in Slots |-> IF s # Main \/ registered THEN priv[s] ELSE pub[s]] \in [Slots -> Nat]
      BY <1>2
    <3> QED BY <1>1, <3>1 DEF SInv, Types
  <2> QED BY <1>1, <2>1, <2>2, <2>3 DEF SInv, Types
<1>4. /\ pc'[c] = "target" /\ target'[c].main = registered
      /\ \A s \in Slots : need'[c][s] = IF s # Main \/ registered THEN priv[s] ELSE pub[s]
      /\ \A u \in Threads \ {c} : pc'[u] = pc[u]
      /\ \A d \in Callers \ {c} : need'[d] = need[d] /\ target'[d] = target[d]
  BY <1>1, <1>3 DEF SInv, Types
<1>5. ASSUME NEW s \in Slots PROVE SlotInv(s)'
  BY <1>1, <1>4 DEF SInv, SlotInv
<1>6. ASSUME NEW d \in Callers, NEW s \in Slots PROVE PairInv(d, s)'
  <2>1. CASE d = c
    BY <1>1, <1>2, <1>4, <2>1 DEF PairInv, Shown, Asking, Aimed, Waiting
  <2>2. CASE d # c
    <3>1. PairInv(d, s) BY DEF SInv
    <3>2. Shown(d, s)' <=> Shown(d, s) BY <1>1, <1>4, <2>2 DEF Shown
    <3>3. pc'[s] \in {"ack", "ownack"} => pc[s] \in {"ack", "ownack"} BY <1>4
    <3> QED BY <1>1, <1>4, <2>2, <3>1, <3>2, <3>3 DEF PairInv
  <2> QED BY <2>1, <2>2
<1>7. \A u \in Threads : gen'[u] <= req' BY <1>1 DEF SInv
<1> QED BY <1>3, <1>5, <1>6, <1>7 DEF SInv

\* A worker that is no target has ended, and shows all it counted.
LEMMA Targets ==
  ASSUME SInv, NEW c \in Callers, Target(c)
  PROVE  SInv'
<1> USE Names
<1>1. /\ target' = [target EXCEPT ![c].workers = active]
      /\ pc' = [pc EXCEPT ![c] = "request"] /\ pc[c] = "target"
      /\ UNCHANGED <<priv, pub, req, ack, registered, active, gen, synced, got, need>>
  BY DEF Target, Goto, counters, shake, life
<1>2. Types'
  <2>1. pc' = [u \in Threads |-> pc'[u]] BY <1>1, Moves DEF SInv, Types
  <2>2. target' \in [Callers -> [main : BOOLEAN, workers : SUBSET Workers]]
    BY <1>1 DEF SInv, Types
  <2> QED BY <1>1, <2>1, <2>2 DEF SInv, Types
<1>3. /\ pc'[c] = "request" /\ target'[c].main = target[c].main /\ target'[c].workers = active
      /\ \A u \in Threads \ {c} : pc'[u] = pc[u]
      /\ \A d \in Callers \ {c} : target'[d] = target[d]
  BY <1>1, <1>2 DEF SInv, Types
<1>4. ASSUME NEW s \in Slots PROVE SlotInv(s)'
  BY <1>1, <1>3 DEF SInv, SlotInv
<1>5. ASSUME NEW d \in Callers, NEW s \in Slots PROVE PairInv(d, s)'
  <2>1. PairInv(d, s) /\ SlotInv(s) BY DEF SInv
  <2>2. Shown(d, s)' <=> Shown(d, s) BY <1>1 DEF Shown
  <2>3. CASE d = c
    BY <1>1, <1>3, <2>1, <2>2, <2>3 DEF PairInv, SlotInv, Shown, Asking, Aimed, Waiting
  <2>4. CASE d # c
    <3>1. pc'[s] \in {"ack", "ownack"} => pc[s] \in {"ack", "ownack"} BY <1>3
    <3> QED BY <1>1, <1>3, <2>1, <2>2, <2>4, <3>1 DEF PairInv
  <2> QED BY <2>3, <2>4
<1>6. \A u \in Threads : gen'[u] <= req' BY <1>1 DEF SInv
<1> QED BY <1>2, <1>4, <1>5, <1>6 DEF SInv

\* A new generation is above all that was acknowledged or loaded.
LEMMA Requests ==
  ASSUME SInv, NEW c \in Callers, Request(c)
  PROVE  SInv'
<1> USE Names
<1>1. PICK label \in {"ownflush", "wait"} : pc' = [pc EXCEPT ![c] = label]
  BY DEF Request, Goto
<1>2. /\ req' = req + 1 /\ gen' = [gen EXCEPT ![c] = req + 1] /\ pc[c] = "request"
      /\ UNCHANGED <<priv, pub, ack, registered, active, target, synced, got, need>>
  BY DEF Request, counters, life
<1>3. Types'
  <2>1. pc' = [u \in Threads |-> pc'[u]] BY <1>1, Moves DEF SInv, Types
  <2>2. req' \in Nat /\ gen' \in [Threads -> Nat] BY <1>2 DEF SInv, Types
  <2> QED BY <1>2, <2>1, <2>2 DEF SInv, Types
<1>4. /\ pc'[c] = label /\ gen'[c] = req + 1
      /\ \A u \in Threads \ {c} : pc'[u] = pc[u] /\ gen'[u] = gen[u]
  BY <1>1, <1>2, <1>3 DEF SInv, Types
<1>5. req \in Nat /\ \A u \in Threads : gen[u] \in Nat /\ gen[u] <= req
  BY DEF SInv, Types
<1>6. \A u \in Threads : gen'[u] <= req' BY <1>2, <1>4, <1>5
<1>7. ASSUME NEW s \in Slots PROVE SlotInv(s)'
  <2>1. SlotInv(s) /\ ack[s] \in Nat BY DEF SInv, Types
  <2> QED BY <1>2, <1>4, <1>5, <2>1 DEF SlotInv
<1>8. ASSUME NEW d \in Callers, NEW s \in Slots PROVE PairInv(d, s)'
  <2>1. PairInv(d, s) /\ ack[s] \in Nat /\ ack[s] <= req BY DEF SInv, SlotInv, Types
  <2>2. Shown(d, s)' <=> Shown(d, s) BY <1>2 DEF Shown
  <2>3. CASE d = c
    <3>1. ~(ack'[s] >= gen'[c]) BY <1>2, <1>4, <1>5, <2>1
    <3>2. ~(pc'[s] \in {"ack", "ownack"} /\ gen'[s] >= gen'[c])
      BY <1>4, <1>5
    <3> QED BY <1>2, <1>4, <2>1, <2>2, <2>3, <3>1, <3>2 DEF PairInv, Asking, Aimed, Waiting
  <2>4. CASE d # c
    <3>1. pc'[s] \in {"ack", "ownack"} => pc[s] \in {"ack", "ownack"} /\ gen'[s] = gen[s]
      BY <1>4
    <3> QED BY <1>2, <1>4, <2>1, <2>2, <2>4, <3>1 DEF PairInv
  <2> QED BY <2>3, <2>4
<1> QED BY <1>3, <1>6, <1>7, <1>8 DEF SInv

\* A caller's entry in an array of the callers.
LEMMA Replaced ==
  ASSUME NEW S, NEW f \in [Callers -> S], NEW c \in Callers, NEW z \in S, NEW g,
         g = [f EXCEPT ![c] = z] \/ g = f
  PROVE  g \in [Callers -> S]
OBVIOUS

\* Locals of a call that is over.
Clear(c) ==
  /\ gen' = [gen EXCEPT ![c] = 0] \/ gen' = gen
  /\ target' = [target EXCEPT ![c] = NoTarget] \/ target' = target
  /\ \E ok \in BOOLEAN : synced' = [synced EXCEPT ![c] = ok]
  /\ need' = [need EXCEPT ![c] = Zero] \/ need' = need
  /\ got' = [got EXCEPT ![c] = Zero] \/ got' = got

\* A call that is over asks for nothing: the threads may go on as they like.
LEMMA Cleared ==
  ASSUME SInv, NEW c \in Callers, Clear(c), NEW label, pc' = [pc EXCEPT ![c] = label],
         UNCHANGED <<priv, req, ack, registered, active>>, pub' \in [Slots -> Nat]
  PROVE  /\ Types' /\ gen'[c] <= req /\ pc'[c] = label
         /\ \A u \in Threads \ {c} : pc'[u] = pc[u] /\ gen'[u] = gen[u]
         /\ \A d \in Callers \ {c} : /\ target'[d] = target[d] /\ synced'[d] = synced[d]
                                     /\ got'[d] = got[d] /\ need'[d] = need[d]
<1> USE Names
<1>1. pc' = [u \in Threads |-> pc'[u]]
  <2>1. pc = [u \in Threads |-> pc[u]] BY DEF SInv, Types
  <2> QED BY <2>1, Moves
<1>2. Zero \in [Slots -> Nat] BY DEF Zero
<1>3. NoTarget \in [main : BOOLEAN, workers : SUBSET Workers] BY DEF NoTarget
<1>4. gen' \in [Threads -> Nat] /\ gen'[c] <= req
  <2>1. gen' = [gen EXCEPT ![c] = 0] \/ gen' = gen BY DEF Clear
  <2>2. gen \in [Threads -> Nat] /\ req \in Nat /\ gen[c] <= req BY DEF SInv, Types
  <2> QED BY <2>1, <2>2
<1>5. target' \in [Callers -> [main : BOOLEAN, workers : SUBSET Workers]]
  <2>1. target' = [target EXCEPT ![c] = NoTarget] \/ target' = target BY DEF Clear
  <2>2. target \in [Callers -> [main : BOOLEAN, workers : SUBSET Workers]] BY DEF SInv, Types
  <2> QED BY <1>3, <2>1, <2>2
<1>6. synced' \in [Callers -> BOOLEAN]
  <2>1. PICK ok \in BOOLEAN : synced' = [synced EXCEPT ![c] = ok] BY DEF Clear
  <2>2. synced \in [Callers -> BOOLEAN] BY DEF SInv, Types
  <2> QED BY <2>1, <2>2
<1>7. need' \in [Callers -> [Slots -> Nat]] /\ got' \in [Callers -> [Slots -> Nat]]
  <2>1. /\ need' = [need EXCEPT ![c] = Zero] \/ need' = need
        /\ got' = [got EXCEPT ![c] = Zero] \/ got' = got
    BY DEF Clear
  <2>2. need \in [Callers -> [Slots -> Nat]] /\ got \in [Callers -> [Slots -> Nat]]
    BY DEF SInv, Types
  <2>3. need' \in [Callers -> [Slots -> Nat]] BY <1>2, <2>1, <2>2, Replaced
  <2>4. got' \in [Callers -> [Slots -> Nat]] BY <1>2, <2>1, <2>2, Replaced
  <2> QED BY <2>3, <2>4
<1>8. Types' BY <1>1, <1>4, <1>5, <1>6, <1>7 DEF SInv, Types
<1>9. pc'[c] = label /\ \A u \in Threads \ {c} : pc'[u] = pc[u] /\ gen'[u] = gen[u]
  BY DEF Clear, SInv, Types
<1>10. \A d \in Callers \ {c} : /\ target'[d] = target[d] /\ synced'[d] = synced[d]
                                /\ got'[d] = got[d] /\ need'[d] = need[d]
  BY DEF Clear, SInv, Types
<1> QED BY <1>4, <1>8, <1>9, <1>10

\* The end of the waiting loop: with a promise about every slot, or without one.
LEMMA Ends ==
  ASSUME SInv, NEW c \in Callers, NEW ok \in BOOLEAN, Synced(c, ok),
         UNCHANGED <<priv, req, ack, registered, active>>, pub' \in [Slots -> Nat],
         \A s \in Slots : pub[s] <= pub'[s] /\ pub'[s] <= priv[s],
         ok => \A s \in Slots : need[c][s] <= pub'[s]
  PROVE  SInv'
<1> USE Names
<1>1. CASE call[c] = "sync"
  <2>1. Return(c) /\ EndWait(c) /\ EndSnapshot(c) BY <1>1 DEF Synced
  <2>2. PICK label \in {"run", "lock", "begin"} : pc' = [pc EXCEPT ![c] = label]
    BY <2>1, ReturnGoes
  <2>3. Clear(c) BY <2>1 DEF Clear, EndWait, EndSnapshot
  <2>4. pc'[c] \in Rest BY <2>2, <2>3, Cleared DEF Rest
  <2> QED BY <2>2, <2>3, <2>4, Cleared, Leaves
<1>2. CASE call[c] # "sync"
  <2>1. EndWait(c) /\ synced' = [synced EXCEPT ![c] = ok] /\ pc' = [pc EXCEPT ![c] = "read"]
        /\ got' = got /\ need' = need
    BY <1>2 DEF Synced, Goto
  <2>2. Clear(c) BY <2>1 DEF Clear, EndWait
  <2>3. pc'[c] = "read" /\ synced'[c] = ok BY <2>1, <2>2, Cleared DEF SInv, Types
  <2>4. synced'[c] => \A s \in Slots : Shown(c, s)' BY <2>1, <2>3 DEF Shown
  <2> QED BY <2>1, <2>2, <2>3, <2>4, Cleared, Leaves
<1> QED BY <1>1, <1>2

\* A pass of the waiting loop that succeeds, and the deadline.
LEMMA Waits ==
  ASSUME SInv, NEW c \in Callers, Acked(c) \/ Deadline(c)
  PROVE  SInv'
<1> USE Names
<1>1. UNCHANGED <<priv, pub, req, ack, registered, active>>
  BY DEF Acked, Deadline, counters, shake, life
<1>2. pub' \in [Slots -> Nat] /\ \A s \in Slots : pub[s] <= pub'[s] /\ pub'[s] <= priv[s]
  BY <1>1, Still DEF SInv, Types
<1>3. CASE Acked(c)
  <2>1. pc[c] = "wait" /\ AllAcked(c) /\ Synced(c, TRUE) BY <1>3 DEF Acked
  <2>2. ASSUME NEW s \in Slots PROVE need[c][s] <= pub'[s]
    <3>1. PairInv(c, s) /\ SlotInv(s) BY DEF SInv
    <3>2. s = Main \/ s \in Workers OBVIOUS
    <3>3. pc[c] \in Asking /\ pc[c] \in Aimed /\ pc[c] \in Waiting
      BY <2>1 DEF Asking, Aimed, Waiting
    <3>4. CASE s = Main
      BY <1>1, <2>1, <3>1, <3>3, <3>4 DEF AllAcked, MainAcked, PairInv, Shown, SInv, Types
    <3>5. CASE s \in Workers
      BY <1>1, <2>1, <3>1, <3>3, <3>5 DEF AllAcked, PairInv, SlotInv, Shown
    <3> QED BY <3>2, <3>4, <3>5
  <2> QED BY <1>1, <1>2, <2>1, <2>2, Ends
<1>4. CASE Deadline(c)
  <2>1. Synced(c, FALSE) BY <1>4 DEF Deadline
  <2> QED BY <1>1, <1>2, <2>1, Ends
<1> QED BY <1>3, <1>4

\* With nobody to ask, all slots are of threads that have ended, or the caller's own.
LEMMA SyncsAlone ==
  ASSUME SInv, NEW c \in Callers, SyncAlone(c)
  PROVE  SInv'
<1> USE Names
<1>1. /\ pc[c] = "request" /\ Alone(c) /\ Synced(c, TRUE)
      /\ UNCHANGED <<priv, req, ack, registered, active>>
      /\ pub' = pub \/ (c \in Slots /\ pub' = [pub EXCEPT ![c] = priv[c]])
  BY DEF SyncAlone, FlushSlot, counters, shake, life
<1>2. \A s \in Slots : pub[s] \in Nat /\ priv[s] \in Nat /\ pub[s] <= priv[s]
  BY DEF SInv, Types, SlotInv
<1>3. pub' \in [Slots -> Nat] BY <1>1 DEF SInv, Types
<1>4. \A s \in Slots : pub'[s] \in {pub[s], priv[s]} BY <1>1 DEF SInv, Types
<1>5. \A s \in Slots : pub[s] <= pub'[s] /\ pub'[s] <= priv[s] BY <1>2, <1>4
<1>6. ASSUME NEW s \in Slots PROVE need[c][s] <= pub'[s]
  <2>1. PairInv(c, s) /\ need[c][s] \in Nat BY DEF SInv, Types
  <2>2. pc[c] \in Asking /\ pc[c] \in Aimed BY <1>1 DEF Asking, Aimed
  <2>3. ~target[c].main /\ target[c].workers = {} BY <1>1 DEF Alone, NoTarget
  <2>4. need[c][s] <= pub[s] BY <2>1, <2>2, <2>3 DEF PairInv, Shown
  <2> QED BY <1>2, <1>4, <2>1, <2>4
<1> QED BY <1>1, <1>3, <1>5, <1>6, Ends

\* The snapshot takes what is shown.
LEMMA Reads ==
  ASSUME SInv, NEW c \in Callers, Read(c)
  PROVE  SInv'
<1> USE Names
<1>1. /\ got' = [got EXCEPT ![c] = pub] /\ pc' = [pc EXCEPT ![c] = "report"] /\ pc[c] = "read"
      /\ UNCHANGED <<priv, pub, req, ack, registered, active, gen, target, synced, need>>
  BY DEF Read, Goto, counters, shake, life
<1>2. Types'
  <2>1. pc' = [u \in Threads |-> pc'[u]] BY <1>1, Moves DEF SInv, Types
  <2>2. got' \in [Callers -> [Slots -> Nat]] BY <1>1 DEF SInv, Types
  <2> QED BY <1>1, <2>1, <2>2 DEF SInv, Types
<1>3. /\ pc'[c] = "report" /\ got'[c] = pub
      /\ \A u \in Threads \ {c} : pc'[u] = pc[u]
      /\ \A d \in Callers \ {c} : got'[d] = got[d]
  BY <1>1 DEF SInv, Types
<1>4. synced'[c] => \A s \in Slots : need'[c][s] <= got'[c][s]
  BY <1>1, <1>3 DEF SInv, PairInv, Shown
<1>5. gen'[c] <= req BY <1>1 DEF SInv
<1>6. \A s \in Slots : pub[s] <= pub'[s] /\ pub'[s] <= priv[s] BY <1>1, Still
<1> QED BY <1>1, <1>2, <1>3, <1>4, <1>5, <1>6, Leaves

\* The main thread is forgotten only after its flush.
LEMMA Deregisters ==
  ASSUME SInv, MainDeregister
  PROVE  SInv'
<1> USE Names
<1>1. /\ pc[Main] = "dereg" /\ registered' = FALSE /\ pc' = [pc EXCEPT ![Main] = "join"]
      /\ UNCHANGED <<priv, pub, req, ack, active, gen, target, synced, got, need>>
  BY DEF MainDeregister, Goto, counters, shake, snap
<1>2. Types'
  <2>1. pc' = [u \in Threads |-> pc'[u]] BY <1>1, Moves DEF SInv, Types
  <2> QED BY <1>1, <2>1 DEF SInv, Types
<1>3. pc'[Main] = "join" /\ \A u \in Threads \ {Main} : pc'[u] = pc[u] BY <1>1 DEF SInv, Types
<1>4. pub[Main] = priv[Main] BY <1>1 DEF SInv, SlotInv
<1>5. ASSUME NEW s \in Slots PROVE SlotInv(s)' BY <1>1, <1>3 DEF SInv, SlotInv
<1>6. ASSUME NEW c \in Callers, NEW s \in Slots PROVE PairInv(c, s)'
  <2>1. PairInv(c, s) BY DEF SInv
  <2>2. Shown(c, s)' <=> Shown(c, s) BY <1>1 DEF Shown
  <2>3. s = Main /\ pc[c] \in Asking => Shown(c, s) BY <1>4, <2>1 DEF PairInv, Shown
  <2>4. CASE c = Main BY <1>3, <2>4 DEF PairInv, Asking, Aimed, Waiting
  <2>5. CASE c # Main
    <3>1. pc'[c] = pc[c] BY <1>3, <2>5
    <3>2. pc'[s] \in {"ack", "ownack"} => pc[s] \in {"ack", "ownack"} BY <1>3
    <3> QED BY <1>1, <2>1, <2>2, <2>3, <3>1, <3>2 DEF PairInv
  <2> QED BY <2>4, <2>5
<1>7. \A u \in Threads : gen'[u] <= req' BY <1>1 DEF SInv
<1> QED BY <1>2, <1>5, <1>6, <1>7 DEF SInv

\* stats_thread_exit: a worker gives up its slot after its last flush.
LEMMA Exits ==
  ASSUME SInv, NEW w \in Workers, WorkerExit(w)
  PROVE  SInv'
<1> USE Names
<1>1. /\ pc[w] = "exit" /\ active' = active \ {w} /\ pc' = [pc EXCEPT ![w] = "done"]
      /\ UNCHANGED <<priv, pub, req, ack, registered, gen, target, synced, got, need>>
  BY DEF WorkerExit, Goto, counters, shake, snap
<1>2. Types'
  <2>1. pc' = [u \in Threads |-> pc'[u]] BY <1>1, Moves DEF SInv, Types
  <2> QED BY <1>1, <2>1 DEF SInv, Types
<1>3. pc'[w] = "done" /\ \A u \in Threads \ {w} : pc'[u] = pc[u] BY <1>1 DEF SInv, Types
<1>4. ASSUME NEW s \in Slots PROVE SlotInv(s)' BY <1>1, <1>3 DEF SInv, SlotInv
<1>5. ASSUME NEW c \in Callers, NEW s \in Slots PROVE PairInv(c, s)'
  <2>1. PairInv(c, s) BY DEF SInv
  <2>2. Shown(c, s)' <=> Shown(c, s) BY <1>1 DEF Shown
  <2>3. pc'[c] = pc[c] BY <1>3
  <2>4. pc'[s] \in {"ack", "ownack"} => pc[s] \in {"ack", "ownack"} BY <1>3
  <2> QED BY <1>1, <2>1, <2>2, <2>3, <2>4 DEF PairInv
<1>6. \A u \in Threads : gen'[u] <= req' BY <1>1 DEF SInv
<1> QED BY <1>2, <1>4, <1>5, <1>6 DEF SInv

\* A caller that begins or ends a call, and a thread between calls.
LEMMA Calls ==
  ASSUME SInv, NEW c \in Callers, Clear(c), NEW label \in Rest \cup {"done"},
         pc' = [pc EXCEPT ![c] = label],
         UNCHANGED <<priv, pub, req, ack, registered, active>>
  PROVE  SInv'
<1> USE Names
<1>1. pub' \in [Slots -> Nat] /\ \A s \in Slots : pub[s] <= pub'[s] /\ pub'[s] <= priv[s]
  BY Still DEF SInv, Types
<1>2. pc'[c] \in Rest \/ (c \notin Workers /\ pc'[c] = "done")
  <2>1. pc'[c] = label BY <1>1, Cleared
  <2> QED BY <2>1
<1> QED BY <1>1, <1>2, Cleared, Leaves

\* A step of a caller that leaves its locals.
LEMMA Clean == ASSUME SInv, NEW c \in Callers, UNCHANGED snap PROVE Clear(c)
<1>1. synced' = [synced EXCEPT ![c] = synced[c]] /\ synced[c] \in BOOLEAN
  BY DEF snap, SInv, Types
<1> QED BY <1>1 DEF snap, Clear

\* The end of a call clears its locals.
LEMMA EndsSnapshot ==
  ASSUME SInv, NEW c \in Callers, EndSnapshot(c), UNCHANGED <<gen, target>>
  PROVE  Clear(c)
BY DEF EndSnapshot, Clear

\* A worker that leaves its loop.
LEMMA Drains ==
  ASSUME SInv, NEW w \in Workers, WorkerLeave(w)
  PROVE  SInv'
<1> USE Names
<1>1. /\ pc' = [pc EXCEPT ![w] = "drain"] /\ pc[w] = "run"
      /\ UNCHANGED <<priv, pub, req, ack, registered, active, gen, target, synced, got, need>>
  BY DEF WorkerLeave, Goto, counters, shake, life, snap
<1>2. Types'
  <2>1. pc' = [u \in Threads |-> pc'[u]] BY <1>1, Moves DEF SInv, Types
  <2> QED BY <1>1, <2>1 DEF SInv, Types
<1>3. pc'[w] = "drain" /\ \A u \in Threads \ {w} : pc'[u] = pc[u] BY <1>1 DEF SInv, Types
<1>4. gen'[w] <= req BY <1>1 DEF SInv
<1>5. \A s \in Slots : pub[s] <= pub'[s] /\ pub'[s] <= priv[s] BY <1>1, Still
<1> QED BY <1>1, <1>2, <1>3, <1>4, <1>5, Leaves DEF Rest

\* The telemetry thread has no slot to flush or to acknowledge with: it never comes to
\* these labels, and if it did they would change nothing but where it is.
LEMMA NoSlotNoChange ==
  ASSUME SInv, NEW c \in Callers, c \notin Slots, OwnFlush(c) \/ OwnAck(c)
  PROVE  SInv'
<1> USE Names
<1>1. UNCHANGED <<priv, req, registered, active, gen, target, synced, got, need>>
  BY DEF OwnFlush, OwnAck, FlushSlot, counters, shake, life, snap
<1>2. pub' = pub BY DEF OwnFlush, OwnAck, FlushSlot, counters, SInv, Types
<1>3. ack' = ack BY DEF OwnFlush, OwnAck, shake, SInv, Types
<1>4. PICK label \in {"ownack", "wait"} : pc' = [pc EXCEPT ![c] = label]
  BY DEF OwnFlush, OwnAck, Goto
<1>5. pc[c] \in {"ownflush", "ownack"} BY DEF OwnFlush, OwnAck
<1>6. Types'
  <2>1. pc' = [u \in Threads |-> pc'[u]] BY <1>4, Moves DEF SInv, Types
  <2> QED BY <1>1, <1>2, <1>3, <2>1 DEF SInv, Types
<1>7. pc'[c] = label /\ \A u \in Threads \ {c} : pc'[u] = pc[u] BY <1>4 DEF SInv, Types
<1>8. ASSUME NEW s \in Slots PROVE SlotInv(s)'
  BY <1>1, <1>2, <1>3, <1>7 DEF SInv, SlotInv
<1>9. ASSUME NEW d \in Callers, NEW s \in Slots PROVE PairInv(d, s)'
  <2>1. PairInv(d, s) BY DEF SInv
  <2>2. Shown(d, s)' <=> Shown(d, s) BY <1>1, <1>2 DEF Shown
  <2>3. pc'[s] = pc[s] BY <1>7
  <2>4. CASE d = c
    BY <1>1, <1>2, <1>3, <1>5, <1>7, <2>1, <2>2, <2>3, <2>4 DEF PairInv, Asking, Aimed, Waiting
  <2>5. CASE d # c
    <3>1. pc'[d] = pc[d] BY <1>7, <2>5
    <3> QED BY <1>1, <1>2, <1>3, <2>1, <2>2, <2>3, <3>1 DEF PairInv
  <2> QED BY <2>4, <2>5
<1>10. \A u \in Threads : gen'[u] <= req' BY <1>1 DEF SInv
<1> QED BY <1>6, <1>8, <1>9, <1>10 DEF SInv

\* Every step of a call keeps the promise.
LEMMA CallStepKeeps ==
  ASSUME SInv, NEW c \in Callers, CallStep(c)
  PROVE  SInv'
<1> USE Names
<1>1. CASE Lock(c)
  <2>1. PICK label \in {"run", "lock", "begin"} : pc' = [pc EXCEPT ![c] = label]
    BY <1>1, ReturnGoes DEF Lock, Goto
  <2>2. UNCHANGED <<priv, pub, req, ack, registered, active>> /\ UNCHANGED snap
    BY <1>1 DEF Lock, counters, shake, life
  <2>3. label \in Rest \cup {"done"} BY DEF Rest
  <2> QED BY <2>1, <2>2, <2>3, Clean, Calls
<1>2. CASE Begin(c) BY <1>2, Begins
<1>3. CASE Target(c) BY <1>3, Targets
<1>4. CASE SyncAlone(c) BY <1>4, SyncsAlone
<1>5. CASE Request(c) BY <1>5, Requests
<1>6. CASE OwnFlush(c)
  <2>1. CASE c \in Slots
    BY <1>6, <2>1, Flushes DEF OwnFlush, FlushSlot, Goto, shake, life, snap
  <2>2. CASE c \notin Slots BY <1>6, <2>2, NoSlotNoChange
  <2> QED BY <2>1, <2>2
<1>7. CASE OwnAck(c)
  <2>1. CASE c \in Slots
    BY <1>7, <2>1, Acknowledges DEF OwnAck, Goto, counters, life, snap
  <2>2. CASE c \notin Slots BY <1>7, <2>2, NoSlotNoChange
  <2> QED BY <2>1, <2>2
<1>8. CASE Acked(c) BY <1>8, Waits
<1>9. CASE Read(c) BY <1>9, Reads
<1>10. CASE Dumped(c) \/ Written(c)
  <2>1. Return(c) /\ EndSnapshot(c) /\ UNCHANGED <<gen, target>>
        /\ UNCHANGED <<priv, pub, req, ack, registered, active>>
    BY <1>10 DEF Dumped, Written, counters, shake, life
  <2>2. PICK label \in {"run", "lock", "begin"} : pc' = [pc EXCEPT ![c] = label]
    BY <2>1, ReturnGoes
  <2>3. label \in Rest \cup {"done"} BY DEF Rest
  <2> QED BY <2>1, <2>2, <2>3, EndsSnapshot, Calls
<1>11. CASE Numbered(c)
  <2>1. /\ UNCHANGED <<priv, pub, req, ack, registered, active, gen, target, synced, got, need>>
        /\ pc' = [pc EXCEPT ![c] = "publish"]
    BY <1>11 DEF Numbered, Goto, counters, shake, life
  <2>2. synced' = [synced EXCEPT ![c] = synced[c]] /\ synced[c] \in BOOLEAN
    BY <2>1 DEF SInv, Types
  <2>3. Clear(c) BY <2>1, <2>2 DEF Clear
  <2>4. "publish" \in Rest \cup {"done"} BY DEF Rest
  <2> QED BY <2>1, <2>3, <2>4, Calls
<1> QED BY <1>1, <1>2, <1>3, <1>4, <1>5, <1>6, <1>7, <1>8, <1>9, <1>10, <1>11 DEF CallStep

\* Every step of stats_check_sync_request keeps it.
LEMMA CheckStepKeeps ==
  ASSUME SInv, NEW t \in Slots, CheckStep(t)
  PROVE  SInv'
<1>1. CASE CheckSync(t) BY <1>1, ChecksSync
<1>2. CASE CheckFlush(t) BY <1>2, ChecksFlush
<1>3. CASE CheckAck(t)
  <2>1. /\ pc[t] = "ack" /\ ack' = [ack EXCEPT ![t] = gen[t]] /\ gen' = [gen EXCEPT ![t] = 0]
        /\ UNCHANGED <<priv, pub, req, registered, active, target, synced, got, need>>
    BY <1>3 DEF CheckAck, counters, life
  <2>2. PICK label \in {"run", "lock"} : pc' = [pc EXCEPT ![t] = label]
    BY <1>3 DEF CheckAck, Goto
  <2> QED BY <2>1, <2>2, Acknowledges
<1> QED BY <1>1, <1>2, <1>3 DEF CheckStep

\* Steps of the main thread between its calls.
LEMMA MainKeeps ==
  ASSUME SInv,
         \/ StartTelemetry \/ MainFlush \/ MainDeregister \/ MainJoin \/ MainDrained
         \/ StopTelemetry \/ FinalStatus \/ MainEnd \/ Usr2
  PROVE  SInv'
<1> USE Names
<1>0. Main \in Callers /\ Exporter \in Callers BY DEF Callers
<1>1. CASE StartTelemetry
  <2>1. UNCHANGED <<priv, pub, req, ack, registered, active>> /\ UNCHANGED snap
    BY <1>1 DEF StartTelemetry, counters, shake
  <2>2. CASE Goto(Exporter, "run")
    <3>1. pc' = [pc EXCEPT ![Exporter] = "run"] /\ "run" \in Rest \cup {"done"}
      BY <2>2 DEF Goto, Rest
    <3> QED BY <1>0, <2>1, <3>1, Clean, Calls
  <2>3. CASE pc' = pc BY <2>1, <2>3, Aside DEF snap
  <2> QED BY <1>1, <2>2, <2>3 DEF StartTelemetry
<1>2. CASE MainFlush
  BY <1>2, Flushes DEF MainFlush, FlushSlot, Goto, shake, snap
<1>3. CASE MainDeregister BY <1>3, Deregisters
<1>4. CASE MainDrained
  <2>1. /\ pub' = [pub EXCEPT ![Main] = priv[Main]] /\ priv' = priv
        /\ UNCHANGED <<req, ack, registered, active, gen, target, synced, got, need>>
        /\ pc' = [pc EXCEPT ![Main] = "begin"]
    BY <1>4 DEF MainDrained, FlushSlot, Enter, Goto, shake, life, snap
  <2> QED BY <2>1, Flushes
<1>5. CASE MainJoin \/ StopTelemetry \/ FinalStatus \/ MainEnd \/ Usr2
  <2>1. UNCHANGED <<priv, pub, req, ack, registered, active>> /\ UNCHANGED snap
    BY <1>5 DEF MainJoin, StopTelemetry, FinalStatus, MainEnd, Usr2, counters, shake, life
  <2>2. PICK label \in {"drain", "joinx", "done", "lock", "begin"} :
          pc' = [pc EXCEPT ![Main] = label]
    BY <1>5 DEF MainJoin, StopTelemetry, FinalStatus, MainEnd, Usr2, Enter, Goto
  <2>3. label \in Rest \cup {"done"} BY DEF Rest
  <2> QED BY <1>0, <2>1, <2>2, <2>3, Clean, Calls
<1> QED BY <1>1, <1>2, <1>3, <1>4, <1>5

\* Every step of every thread keeps the promise.
LEMMA SNext == SInv /\ [Next]_vars => SInv'
<1> SUFFICES ASSUME SInv, [Next]_vars PROVE SInv' OBVIOUS
<1> USE Names
<1>0. Main \in Callers /\ Exporter \in Callers BY DEF Callers
<1>1. ASSUME NEW t \in Slots, Count(t) PROVE SInv' BY <1>1, Counts
<1>2. ASSUME NEW t \in Slots, IdleFlush(t) PROVE SInv'
  <2>1. /\ pub' = [pub EXCEPT ![t] = priv[t]] /\ priv' = priv /\ pc' = pc /\ pc[t] = "run"
        /\ UNCHANGED <<req, ack, registered, active, gen, target, synced, got, need>>
    BY <1>2 DEF IdleFlush, FlushSlot, shake, life, snap
  <2>2. pc' = [pc EXCEPT ![t] = "run"] BY <2>1 DEF SInv, Types
  <2> QED BY <2>1, <2>2, Flushes
<1>3. ASSUME NEW t \in Slots, Stop(t) PROVE SInv'
  BY <1>3, Aside DEF Stop, counters, shake, snap
<1>4. ASSUME NEW w \in Workers, WorkerStep(w) PROVE SInv'
  <2>1. CASE CheckStep(w) BY <2>1, CheckStepKeeps
  <2>2. CASE WorkerLeave(w) BY <2>2, Drains
  <2>3. CASE WorkerFlush(w)
    BY <2>3, Flushes DEF WorkerFlush, FlushSlot, Goto, shake, life, snap
  <2>4. CASE WorkerExit(w) BY <2>4, Exits
  <2> QED BY <1>4, <2>1, <2>2, <2>3, <2>4 DEF WorkerStep
<1>5. ASSUME NEW c \in Callers, Deadline(c) PROVE SInv' BY <1>5, Waits
<1>6. CASE MainStep
  BY <1>0, <1>6, CallStepKeeps, CheckStepKeeps, MainKeeps DEF MainStep
<1>7. CASE ExporterStep \/ Export
  <2>1. CASE CallStep(Exporter) BY <1>0, <2>1, CallStepKeeps
  <2>2. CASE ExporterEnd \/ Export
    <3>1. UNCHANGED <<priv, pub, req, ack, registered, active>> /\ UNCHANGED snap
      BY <2>2 DEF ExporterEnd, Export, counters, shake, life
    <3>2. PICK label \in {"done", "lock"} : pc' = [pc EXCEPT ![Exporter] = label]
      BY <2>2 DEF ExporterEnd, Export, Enter, Goto
    <3>3. label \in Rest \cup {"done"} BY DEF Rest
    <3> QED BY <1>0, <3>1, <3>2, <3>3, Clean, Calls
  <2> QED BY <1>7, <2>1, <2>2 DEF ExporterStep
<1>8. CASE Usr2 BY <1>8, MainKeeps
<1>9. CASE Finished \/ UNCHANGED vars
  BY <1>9, Aside DEF Finished, vars, counters, shake, life, snap
<1> QED BY <1>1, <1>2, <1>3, <1>4, <1>5, <1>6, <1>7, <1>8, <1>9 DEF Next

\* A snapshot that says workers_synced holds, for each slot, all that the thread had
\* counted when the snapshot's request began, or ever counted if it has ended: a thread
\* flushes before it acknowledges (stats_check_sync_request) and before it gives up its
\* slot (stats_thread_exit), and requests are numbered, so an acknowledgement of the
\* newer of two requests serves both.
THEOREM SyncedSeesCountedAlways == Spec => []SyncedSeesCounted
<1>1. SInv => SyncedSeesCounted
  <2> SUFFICES ASSUME SInv, NEW c \in Callers, NEW s \in Slots, pc[c] = "report", synced[c]
               PROVE  got[c][s] >= need[c][s]
    BY DEF SyncedSeesCounted
  <2>1. need[c][s] <= got[c][s] BY DEF SInv, PairInv
  <2> QED BY <2>1 DEF SInv, Types
<1> QED BY <1>1, SInit, SNext, PTL DEF Spec

----------------------------------------------------------------------------
\* Before the last flush of the main thread.
Closing == {"dereg", "join", "drain"}
\* All threads but the telemetry thread have published their last.
Ended == phase \in {"ending", "final"} /\ pc[Main] \notin Closing

\* The invariant behind StoppedIsExact, beside SInv: who is still there at the end.
EInv ==
  /\ Ended \/ pc[Main] = "drain" => \A w \in Workers : pc[w] = "done"
  /\ Ended => pub[Main] = priv[Main]
  /\ pc[Main] = "joinx" => phase = "ending"
  /\ phase = "final" => pc[Exporter] = "done" /\ pc[Main] \notin Closing
  /\ phase = "final" /\ pc[Main] \in {"report", "publish"} => got[Main] = priv
  /\ status.state = "stopped" => phase = "final" /\ status.got = priv

\* When all have ended the shown counters are the private ones.
LEMMA EndedExact == ASSUME SInv, EInv, Ended PROVE pub = priv
<1> USE Names
<1>1. ASSUME NEW s \in Slots PROVE pub[s] = priv[s]
  BY DEF SInv, SlotInv, EInv
<1> QED BY <1>1 DEF SInv, Types

\* At the start nobody has ended and no status says so.
LEMMA EInit == Init => EInv
BY Names DEF Init, EInv, Ended, Threads

\* The main thread moves on, and may have flushed.
LEMMA MainMoves ==
  ASSUME SInv, EInv, NEW label,
         UNCHANGED <<priv, phase>>,
         pub'[Main] \in {pub[Main], priv[Main]},
         pc' = [pc EXCEPT ![Main] = label], label \notin Closing, pc[Main] \notin Closing,
         label = "joinx" => phase = "ending",
         phase = "final" /\ label \in {"report", "publish"} => got'[Main] = priv,
         status'.state = "stopped" => phase = "final" /\ status'.got = priv
  PROVE  EInv'
<1> USE Names
<1>1. pc'[Main] = label /\ \A t \in Threads \ {Main} : pc'[t] = pc[t] BY DEF SInv, Types
<1>2. Exporter \in Threads /\ Exporter # Main BY DEF Threads, Callers
<1>3. Ended' => Ended BY <1>1 DEF Ended
<1> QED BY <1>1, <1>2, <1>3 DEF EInv, Closing

\* The main thread stays where it is.
LEMMA MainStays ==
  ASSUME EInv,
         UNCHANGED <<priv, phase>>, pub'[Main] = pub[Main], pc'[Main] = pc[Main],
         got'[Main] = got[Main],
         \A w \in Workers : pc[w] = "done" => pc'[w] = "done",
         phase = "final" => pc'[Exporter] = "done",
         status' = status \/ status'.state # "stopped"
  PROVE  EInv'
BY DEF EInv, Ended

\* A caller's step: where it goes, and what it does to the rest.
LEMMA CallerGoes ==
  ASSUME SInv, NEW c \in Callers, CallStep(c) \/ Deadline(c)
  PROVE  /\ UNCHANGED <<priv, phase>>
         /\ pub' = pub \/ pub' = [pub EXCEPT ![c] = priv[c]]
         /\ \E label : pc' = [pc EXCEPT ![c] = label] /\ label \notin Closing \cup {"joinx"}
         /\ pc[c] \notin Closing /\ pc[c] # "done"
<1>1. UNCHANGED <<priv, phase>>
  BY DEF CallStep, Lock, Begin, Target, SyncAlone, Request, OwnFlush, OwnAck, Acked, Read,
         Dumped, Numbered, Written, Deadline, FlushSlot, counters, life
<1>2. pub' = pub \/ pub' = [pub EXCEPT ![c] = priv[c]]
  BY DEF CallStep, Lock, Begin, Target, SyncAlone, Request, OwnFlush, OwnAck, Acked, Read,
         Dumped, Numbered, Written, Deadline, FlushSlot, counters
<1>3. pc[c] \notin Closing /\ pc[c] # "done"
  BY DEF CallStep, Lock, Begin, Target, SyncAlone, Request, OwnFlush, OwnAck, Acked, Read,
         Dumped, Numbered, Written, Deadline, Closing
<1>4. \E label : pc' = [pc EXCEPT ![c] = label] /\ label \notin Closing \cup {"joinx"}
  <2>1. CASE Return(c)
    <3>1. PICK label \in {"run", "lock", "begin"} : pc' = [pc EXCEPT ![c] = label]
      BY <2>1, ReturnGoes
    <3> QED BY <3>1 DEF Closing
  <2>2. CASE \E label \in {"begin", "target", "request", "ownflush", "ownack", "wait", "read",
                           "report", "publish"} : Goto(c, label)
    BY <2>2 DEF Goto, Closing
  <2>3. ASSUME NEW ok, Synced(c, ok)
        PROVE  Return(c) \/ \E label \in {"begin", "target", "request", "ownflush", "ownack",
                                          "wait", "read", "report", "publish"} : Goto(c, label)
    BY <2>3 DEF Synced
  <2> QED BY <2>1, <2>2, <2>3
       DEF CallStep, Lock, Begin, Target, SyncAlone, Request, OwnFlush, OwnAck, Acked, Read,
           Dumped, Numbered, Written, Deadline
<1> QED BY <1>1, <1>2, <1>3, <1>4

\* A step of a call of the main thread: it reports what it read at the end.
LEMMA MainCalls ==
  ASSUME SInv, EInv, CallStep(Main) \/ Deadline(Main)
  PROVE  EInv'
<1> USE Names
<1>1. Main \in Callers BY DEF Callers
<1>2. PICK label : pc' = [pc EXCEPT ![Main] = label] /\ label \notin Closing \cup {"joinx"}
  BY <1>1, CallerGoes
<1>3. /\ UNCHANGED <<priv, phase>> /\ pc[Main] \notin Closing
      /\ pub' = pub \/ pub' = [pub EXCEPT ![Main] = priv[Main]]
  BY <1>1, CallerGoes
<1>4. pub'[Main] \in {pub[Main], priv[Main]} BY <1>3 DEF SInv, Types
<1>5. pc'[Main] = label BY <1>2 DEF SInv, Types
<1>6. ASSUME phase = "final", label \in {"report", "publish"} PROVE got'[Main] = priv
  <2>1. CASE Read(Main)
    <3>1. got'[Main] = pub BY <1>1, <2>1 DEF Read, SInv, Types
    <3>2. Ended BY <1>3, <1>6 DEF Ended
    <3> QED BY <3>1, <3>2, EndedExact
  <2>2. CASE Numbered(Main)
    <3>1. pc[Main] = "report" /\ got' = got BY <2>2 DEF Numbered
    <3> QED BY <1>6, <3>1 DEF EInv
  <2>3. Read(Main) \/ Numbered(Main)
    <3>1. ~Return(Main) 
      <4>1. ASSUME NEW other \in {"run", "lock", "begin"}, pc' = [pc EXCEPT ![Main] = other]
            PROVE  pc'[Main] = other
        BY <4>1 DEF SInv, Types
      <4> QED BY <1>5, <1>6, <4>1, ReturnGoes
    <3>2. \A other : Goto(Main, other) => other = label BY <1>5 DEF Goto, SInv, Types
    <3>3. ASSUME NEW ok, Synced(Main, ok) PROVE FALSE
      BY <1>6, <3>1, <3>2, <3>3 DEF Synced
    <3> QED BY <1>6, <3>1, <3>2, <3>3
         DEF CallStep, Lock, Begin, Target, SyncAlone, Request, OwnFlush, OwnAck, Acked,
             Dumped, Written, Deadline
  <2> QED BY <2>1, <2>2, <2>3
<1>7. status'.state = "stopped" => phase = "final" /\ status'.got = priv
  <2>1. CASE Written(Main)
    <3>1. pc[Main] = "publish" /\ (status' = status \/ status' =
            [state |-> IF phase = "final" THEN "stopped" ELSE "running",
             seq |-> number[Main], got |-> got[Main]])
      BY <2>1 DEF Written
    <3> QED BY <3>1 DEF EInv
  <2>2. CASE ~Written(Main)
    <3>1. status' = status
      BY <2>2 DEF CallStep, Lock, Begin, Target, SyncAlone, Request, OwnFlush, OwnAck, Acked,
                  Read, Dumped, Numbered, Deadline, file
    <3> QED BY <3>1 DEF EInv
  <2> QED BY <2>1, <2>2
<1> QED BY <1>2, <1>3, <1>4, <1>6, <1>7, MainMoves

\* A step of a call of the telemetry thread, which has none left at the end.
LEMMA ExporterCalls ==
  ASSUME SInv, EInv, CallStep(Exporter) \/ Deadline(Exporter)
  PROVE  EInv'
<1> USE Names
<1>1. Exporter \in Callers /\ Exporter # Main /\ Exporter \in Threads BY DEF Callers, Threads
<1>2. PICK label : pc' = [pc EXCEPT ![Exporter] = label] BY <1>1, CallerGoes
<1>3. /\ UNCHANGED <<priv, phase>> /\ pc[Exporter] # "done"
      /\ pub' = pub \/ pub' = [pub EXCEPT ![Exporter] = priv[Exporter]]
  BY <1>1, CallerGoes
<1>4. pub' = pub BY <1>3 DEF SInv, Types
<1>5. \A t \in Threads \ {Exporter} : pc'[t] = pc[t] BY <1>2 DEF SInv, Types
<1>6. phase # "final" BY <1>3 DEF EInv
<1>7. got'[Main] = got[Main]
  <2>1. ASSUME EndSnapshot(Exporter) PROVE got'[Main] = got[Main]
    BY <1>1, <2>1 DEF EndSnapshot, SInv, Types
  <2>2. CASE Read(Exporter) BY <1>1, <2>2 DEF Read, SInv, Types
  <2> QED BY <2>1, <2>2
       DEF CallStep, Lock, Begin, Target, SyncAlone, Request, OwnFlush, OwnAck, Acked,
           Dumped, Numbered, Written, Deadline, Synced, snap
<1>8. status' = status \/ status'.state # "stopped"
  <2>1. CASE Written(Exporter) BY <1>6, <2>1 DEF Written
  <2>2. CASE ~Written(Exporter)
    BY <2>2 DEF CallStep, Lock, Begin, Target, SyncAlone, Request, OwnFlush, OwnAck, Acked,
                Read, Dumped, Numbered, Deadline, file
  <2> QED BY <2>1, <2>2
<1>9. pc'[Main] = pc[Main] /\ \A w \in Workers : pc'[w] = pc[w]
  BY <1>1, <1>5
<1> QED BY <1>3, <1>4, <1>6, <1>7, <1>8, <1>9, MainStays

\* A packet thread's step; a worker that has ended takes none.
LEMMA SlotSteps ==
  ASSUME SInv, EInv, NEW t \in Slots, Count(t) \/ IdleFlush(t) \/ Stop(t) \/ CheckStep(t)
  PROVE  EInv'
<1> USE Names
<1>1. Exporter \in Threads /\ Exporter # t BY DEF Threads, Callers
<1>2. /\ phase' = phase /\ got' = got /\ status' = status
      /\ priv' = priv \/ priv' = [priv EXCEPT ![t] = @ + 1]
  BY DEF Count, IdleFlush, Stop, CheckStep, CheckSync, CheckFlush, CheckAck, FlushSlot,
         counters, life, snap, file
<1>3. pub' = pub \/ pub' = [pub EXCEPT ![t] = priv'[t]]
  BY DEF Count, IdleFlush, Stop, CheckStep, CheckSync, CheckFlush, CheckAck, FlushSlot, counters
<1>4. PICK label \in {"flush", "ack", "lock", "run", "drain"} :
        pc' = [pc EXCEPT ![t] = label] /\ (label = "drain" => pc[t] = "drain")
  <2>1. CASE pc' = pc /\ pc[t] \in {"run", "drain"}
    BY <2>1 DEF SInv, Types
  <2>2. CASE CheckStep(t)
    BY <2>2 DEF CheckStep, CheckSync, CheckFlush, CheckAck, Goto
  <2> QED BY <2>1, <2>2 DEF Count, Counting, IdleFlush, Stop
<1>5. /\ pc'[t] = label /\ \A u \in Threads \ {t} : pc'[u] = pc[u]
  BY <1>4 DEF SInv, Types
<1>6. pc[t] # "done"
  BY DEF Count, Counting, IdleFlush, Stop, CheckStep, CheckSync, Checking, CheckFlush, CheckAck
<1>7. CASE t = Main
  <2>1. Ended => priv' = priv
    <3>1. ASSUME Ended, Count(t) PROVE FALSE
      BY <1>7, <3>1 DEF Count, Counting, Ended, Closing
    <3> QED BY <3>1
         DEF IdleFlush, Stop, CheckStep, CheckSync, CheckFlush, CheckAck, FlushSlot, counters
  <2>2. pc[Main] = "drain" => label = "drain"
    BY <1>5, <1>7 DEF Count, IdleFlush, Stop, CheckStep, CheckSync, Checking, CheckFlush, CheckAck
  <2>3. pc[Main] \in Closing => pc[Main] = "drain"
    BY <1>7 DEF Count, Counting, IdleFlush, Stop, CheckStep, CheckSync, Checking, CheckFlush,
                CheckAck, Closing
  <2>4. CASE Ended
    <3>1. pub'[Main] \in {pub[Main], priv[Main]} BY <1>3, <1>7, <2>1, <2>4 DEF SInv, Types
    <3>2. label \notin Closing /\ label \notin {"report", "publish"}
      BY <1>4, <1>7, <2>4 DEF Ended, Closing
    <3>3. status'.state = "stopped" => phase = "final" /\ status'.got = priv
      BY <1>2 DEF EInv
    <3> QED BY <1>2, <1>4, <1>7, <2>1, <2>4, <3>1, <3>2, <3>3, MainMoves DEF Ended
  <2>5. CASE ~Ended
    <3>1. ~Ended' BY <1>2, <1>5, <1>7, <2>2, <2>3, <2>5 DEF Ended, Closing
    <3>2. phase # "final" BY <2>5 DEF EInv, Ended
    <3>3. pc'[Main] = "drain" => pc[Main] = "drain" BY <1>4, <1>5, <1>7
    <3>4. \A w \in Workers : pc'[w] = pc[w] BY <1>5, <1>7
    <3>5. pc'[Main] # "joinx" BY <1>5, <1>7
    <3> QED BY <1>2, <3>1, <3>2, <3>3, <3>4, <3>5 DEF EInv
  <2> QED BY <2>4, <2>5
<1>8. CASE t # Main
  <2>1. t \in Workers BY <1>8
  <2>2. ~Ended /\ pc[Main] # "drain" BY <1>6, <2>1 DEF EInv
  <2>3. phase # "final" BY <2>2 DEF EInv, Ended
  <2>4. pc'[Main] = pc[Main] BY <1>5, <1>8
  <2> QED BY <1>2, <2>2, <2>3, <2>4 DEF EInv, Ended
<1> QED BY <1>7, <1>8

\* A worker that leaves is still there.
LEMMA WorkerSteps ==
  ASSUME SInv, EInv, NEW w \in Workers, WorkerLeave(w) \/ WorkerFlush(w) \/ WorkerExit(w)
  PROVE  EInv'
<1> USE Names
<1>1. /\ phase' = phase /\ got' = got /\ status' = status /\ pc[w] # "done"
      /\ \E label : pc' = [pc EXCEPT ![w] = label]
  BY DEF WorkerLeave, WorkerFlush, WorkerExit, Goto, life, snap, file
<1>2. pc'[Main] = pc[Main] BY <1>1 DEF SInv, Types
<1>3. ~Ended /\ pc[Main] # "drain" BY <1>1 DEF EInv
<1>4. phase # "final" BY <1>3 DEF EInv, Ended
<1> QED BY <1>1, <1>2, <1>3, <1>4 DEF EInv, Ended

\* The main thread through its shutdown: flush, deregister, join, last flush, telemetry.
LEMMA MainSteps ==
  ASSUME SInv, EInv,
         \/ StartTelemetry \/ MainFlush \/ MainDeregister \/ MainJoin \/ MainDrained
         \/ StopTelemetry \/ FinalStatus \/ MainEnd \/ Usr2
  PROVE  EInv'
<1> USE Names
<1>0. Exporter \in Threads /\ Exporter # Main /\ Exporter \notin Workers BY DEF Threads, Callers
<1>1. CASE StartTelemetry
  <2>1. phase = "start" /\ phase' = "loop" /\ status' = status BY <1>1 DEF StartTelemetry, file
  <2>2. pc[Main] = "run" /\ pc'[Main] = "run" 
    BY <1>0, <1>1 DEF StartTelemetry, Goto, SInv, Types
  <2> QED BY <2>1, <2>2 DEF EInv, Ended
<1>2. CASE MainFlush
  <2>1. /\ phase = "loop" /\ phase' = "ending" /\ status' = status
        /\ pc' = [pc EXCEPT ![Main] = "dereg"]
    BY <1>2 DEF MainFlush, Goto, file
  <2>2. pc'[Main] = "dereg" BY <2>1 DEF SInv, Types
  <2> QED BY <2>1, <2>2 DEF EInv, Ended, Closing
<1>3. CASE MainDeregister \/ MainJoin
  <2>1. /\ phase' = phase /\ status' = status /\ pc[Main] \in Closing
        /\ \/ pc' = [pc EXCEPT ![Main] = "join"]
           \/ pc' = [pc EXCEPT ![Main] = "drain"] /\ \A w \in Workers : pc[w] = "done"
    BY <1>3 DEF MainDeregister, MainJoin, Goto, life, file, Closing
  <2>2. pc'[Main] \in Closing /\ (pc'[Main] = "drain" => \A w \in Workers : pc'[w] = "done")
    BY <2>1 DEF SInv, Types, Closing
  <2>3. phase # "final" BY <2>1 DEF EInv
  <2>4. pc'[Main] # "joinx" BY <2>2 DEF Closing
  <2> QED BY <2>1, <2>2, <2>3, <2>4 DEF EInv, Ended
<1>4. CASE MainDrained
  <2>1. /\ phase' = phase /\ status' = status /\ pc[Main] = "drain" /\ priv' = priv
        /\ pc' = [pc EXCEPT ![Main] = "begin"] /\ pub' = [pub EXCEPT ![Main] = priv[Main]]
    BY <1>4 DEF MainDrained, FlushSlot, Enter, Goto, life, file
  <2>2. /\ pc'[Main] = "begin" /\ pub'[Main] = priv[Main]
        /\ \A w \in Workers : pc'[w] = pc[w]
    BY <2>1 DEF SInv, Types
  <2>3. phase # "final" BY <2>1 DEF EInv, Closing
  <2> QED BY <2>1, <2>2, <2>3 DEF EInv, Ended
<1>5. CASE StopTelemetry \/ MainEnd \/ Usr2
  <2>1. /\ UNCHANGED <<priv, pub, phase, got, status>> /\ pc[Main] = "run"
    BY <1>5 DEF StopTelemetry, MainEnd, Usr2, counters, life, snap, file
  <2>2. PICK label \in {"joinx", "done", "begin"} : pc' = [pc EXCEPT ![Main] = label]
    BY <1>5 DEF StopTelemetry, MainEnd, Usr2, Enter, Goto
  <2>3. label \notin Closing /\ label \notin {"report", "publish"} /\ pc[Main] \notin Closing
    BY <2>1 DEF Closing
  <2>5. label = "joinx" => phase = "ending"
    <3>1. CASE StopTelemetry BY <3>1 DEF StopTelemetry
    <3>2. CASE MainEnd \/ Usr2
      <4>1. pc' = [pc EXCEPT ![Main] = "done"] \/ pc' = [pc EXCEPT ![Main] = "begin"]
        BY <3>2 DEF MainEnd, Usr2, Enter, Goto
      <4> QED BY <2>2, <4>1 DEF SInv, Types
    <3> QED BY <1>5, <3>1, <3>2
  <2>4. status'.state = "stopped" => phase = "final" /\ status'.got = priv
    BY <2>1 DEF EInv
  <2> QED BY <2>1, <2>2, <2>3, <2>4, <2>5, MainMoves
<1>6. CASE FinalStatus
  <2>1. /\ UNCHANGED <<priv, pub, got, status>> /\ pc[Main] = "joinx" /\ pc[Exporter] = "done"
        /\ phase' = "final" /\ pc' = [pc EXCEPT ![Main] = "lock"]
    BY <1>6 DEF FinalStatus, Enter, Goto, counters, snap, file
  <2>2. /\ pc'[Main] = "lock" /\ pc'[Exporter] = "done" /\ \A w \in Workers : pc'[w] = pc[w]
    BY <1>0, <2>1 DEF SInv, Types
  <2> QED BY <2>1, <2>2 DEF EInv, Ended, Closing
<1> QED BY <1>1, <1>2, <1>3, <1>4, <1>5, <1>6

\* Every step keeps it.
LEMMA ENext == SInv /\ EInv /\ [Next]_vars => EInv'
<1> SUFFICES ASSUME SInv, EInv, [Next]_vars PROVE EInv' OBVIOUS
<1> USE Names
<1>1. ASSUME NEW t \in Slots, Count(t) \/ IdleFlush(t) \/ Stop(t) PROVE EInv'
  BY <1>1, SlotSteps
<1>2. ASSUME NEW w \in Workers, WorkerStep(w) PROVE EInv'
  BY <1>2, SlotSteps, WorkerSteps DEF WorkerStep
<1>3. ASSUME NEW c \in Callers, Deadline(c) PROVE EInv'
  BY <1>3, MainCalls, ExporterCalls DEF Callers
<1>4. CASE MainStep
  BY <1>4, MainCalls, SlotSteps, MainSteps DEF MainStep
<1>5. CASE ExporterStep \/ Export
  <2>1. CASE CallStep(Exporter) BY <2>1, ExporterCalls
  <2>2. CASE ExporterEnd \/ Export
    <3>1. /\ UNCHANGED <<priv, pub, phase, got, status>> /\ pc[Exporter] = "run"
          /\ \E label : pc' = [pc EXCEPT ![Exporter] = label]
      BY <2>2 DEF ExporterEnd, Export, Enter, Goto, counters, life, snap, file
    <3>2. phase # "final" BY <3>1 DEF EInv
    <3>3. pc'[Main] = pc[Main] /\ \A w \in Workers : pc'[w] = pc[w]
      BY <3>1 DEF SInv, Types, Callers
    <3> QED BY <3>1, <3>2, <3>3, MainStays
  <2> QED BY <1>5, <2>1, <2>2 DEF ExporterStep
<1>6. CASE Usr2 BY <1>6, MainSteps
<1>7. CASE Finished \/ UNCHANGED vars
  BY <1>7 DEF Finished, vars, counters, life, snap, file, EInv, Ended
<1> QED BY <1>1, <1>2, <1>3, <1>4, <1>5, <1>6, <1>7 DEF Next

\* The status "stopped" shows exactly what was counted: telemetry_stop writes it when the
\* workers and the telemetry thread are joined and the main thread has flushed twice.
THEOREM StoppedIsExactAlways == Spec => []StoppedIsExact
<1>1. EInv => StoppedIsExact BY DEF EInv, StoppedIsExact
<1> QED BY <1>1, SInit, SNext, EInit, ENext, PTL DEF Spec

----------------------------------------------------------------------------
\* Where a caller is inside stats_sync_workers, stats_dump or stats_write_json, past the lock.
InCall == {"begin", "target", "request", "ownflush", "ownack", "wait", "read", "report", "publish"}
\* The caller writes the file: it holds s_stats_export_mutex.
Holds(c) == call[c] = "write" /\ pc[c] \in InCall

\* The invariant behind StatusMovesOn, beside SInv: one writer at a time, whose number
\* and counters are not behind the file.
LInv ==
  /\ seqNo \in Nat /\ number \in [Callers -> Nat]
  /\ call = [c \in Callers |-> call[c]]
  /\ status.seq \in Nat /\ status.got \in [Slots -> Nat]
  /\ status.seq <= seqNo
  /\ \A s \in Slots : status.got[s] <= pub[s]
  /\ \A c \in Callers :
       /\ Holds(c) => lock = {c}
       /\ pc[c] = "publish" => call[c] = "write" /\ number[c] = seqNo /\ status.seq < seqNo
       /\ Holds(c) /\ pc[c] \in {"report", "publish"} =>
            \A s \in Slots : status.got[s] <= got[c][s] /\ got[c][s] <= pub[s]

\* At the start nobody writes and nothing is written.
LEMMA LInit == Init => LInv
<1> SUFFICES ASSUME Init PROVE LInv OBVIOUS
<1>1. \A c \in Callers : pc[c] \notin InCall
  BY Names DEF Init, InCall
<1>2. /\ seqNo \in Nat /\ number \in [Callers -> Nat] /\ call = [c \in Callers |-> call[c]]
  BY DEF Init
<1>3. status.seq = 0 /\ status.got = Zero /\ pub = Zero BY DEF Init
<1>4. "publish" \in InCall BY DEF InCall
<1>5. Zero \in [Slots -> Nat] /\ \A s \in Slots : Zero[s] <= Zero[s] BY DEF Zero
<1>6. status.got \in [Slots -> Nat] /\ \A s \in Slots : status.got[s] <= pub[s]
  BY <1>3, <1>5
<1>7. status.seq \in Nat /\ status.seq <= seqNo BY <1>3 DEF Init
<1>8. \A c \in Callers : ~Holds(c) /\ pc[c] # "publish" BY <1>1, <1>4 DEF Holds
<1> QED BY <1>2, <1>6, <1>7, <1>8 DEF LInv

\* Steps that neither take the lock nor read, number or write a snapshot.
LEMMA Writerless ==
  ASSUME SInv, SInv', LInv, UNCHANGED <<lock, seqNo, status>>,
         \A s \in Slots : pub[s] <= pub'[s],
         number' \in [Callers -> Nat], call' = [c \in Callers |-> call'[c]],
         \A c \in Callers :
           \/ pc'[c] \notin InCall
           \/ call'[c] # "write" /\ pc'[c] # "publish"
           \/ /\ pc[c] \in InCall /\ call'[c] = call[c]
              /\ pc'[c] \in {"report", "publish"} =>
                   pc'[c] = pc[c] /\ got'[c] = got[c] /\ number'[c] = number[c]
  PROVE  LInv'
<1>1. \A s \in Slots : pub[s] \in Nat /\ pub'[s] \in Nat /\ status.got[s] \in Nat
  BY DEF SInv, Types, LInv
<1>2. \A s \in Slots : status'.got[s] <= pub'[s] BY <1>1 DEF LInv
<1>3. ASSUME NEW c \in Callers
      PROVE  /\ Holds(c)' => lock' = {c}
             /\ pc'[c] = "publish" => call'[c] = "write" /\ number'[c] = seqNo' /\ status'.seq < seqNo'
             /\ Holds(c)' /\ pc'[c] \in {"report", "publish"} =>
                  \A s \in Slots : status'.got[s] <= got'[c][s] /\ got'[c][s] <= pub'[s]
  <2>1. /\ Holds(c) => lock = {c}
        /\ pc[c] = "publish" => call[c] = "write" /\ number[c] = seqNo /\ status.seq < seqNo
        /\ Holds(c) /\ pc[c] \in {"report", "publish"} =>
             \A s \in Slots : status.got[s] <= got[c][s] /\ got[c][s] <= pub[s]
    BY DEF LInv
  <2>2. "publish" \in InCall BY DEF InCall
  <2>3. got \in [Callers -> [Slots -> Nat]] BY DEF SInv, Types
  <2>4. CASE ~Holds(c)' /\ pc'[c] # "publish" BY <2>4
  <2>5. CASE /\ pc[c] \in InCall /\ call'[c] = call[c]
             /\ pc'[c] \in {"report", "publish"} =>
                  pc'[c] = pc[c] /\ got'[c] = got[c] /\ number'[c] = number[c]
    <3>1. Holds(c)' => Holds(c) BY <2>5 DEF Holds
    <3>2. Holds(c)' /\ pc'[c] \in {"report", "publish"} =>
            \A s \in Slots : status'.got[s] <= got'[c][s] /\ got'[c][s] <= pub'[s]
      <4> SUFFICES ASSUME Holds(c)', pc'[c] \in {"report", "publish"}, NEW s \in Slots
                   PROVE  status'.got[s] <= got'[c][s] /\ got'[c][s] <= pub'[s]
        OBVIOUS
      <4>1. status.got[s] <= got[c][s] /\ got[c][s] <= pub[s] /\ got'[c] = got[c]
        BY <2>1, <2>5, <3>1
      <4>2. got[c][s] \in Nat BY <2>3
      <4> QED BY <1>1, <4>1, <4>2
    <3> QED BY <2>1, <2>5, <3>1, <3>2
  <2> QED BY <2>2, <2>4, <2>5 DEF Holds
<1> QED BY <1>2, <1>3 DEF LInv

\* Return, as far as the lock is concerned.
LEMMA ReturnsIdle ==
  ASSUME SInv, LInv, NEW c \in Callers, Return(c)
  PROVE  /\ call' = [d \in Callers |-> call'[d]]
         /\ \A d \in Callers \ {c} : pc'[d] = pc[d] /\ call'[d] = call[d]
         /\ ~Holds(c)' /\ pc'[c] # "publish"
<1> USE Names
<1>1. PICK kind, label : /\ call' = [call EXCEPT ![c] = kind] /\ pc' = [pc EXCEPT ![c] = label]
                         /\ kind = "write" => label = "lock"
                         /\ label \in {"run", "lock", "begin"}
  BY DEF Return, Enter, Goto
<1>2. call'[c] = kind /\ pc'[c] = label /\ call' = [d \in Callers |-> call'[d]]
      /\ \A d \in Callers \ {c} : pc'[d] = pc[d] /\ call'[d] = call[d]
  BY <1>1 DEF SInv, Types, LInv
<1> QED BY <1>1, <1>2 DEF Holds, InCall

\* Steps of other threads, and of callers outside the lock.
LEMMA Outside ==
  ASSUME SInv, SInv', LInv, NEW t \in Threads, NEW label, pc' = [pc EXCEPT ![t] = label],
         label \notin InCall, UNCHANGED <<lock, seqNo, status, number, got>>,
         \A s \in Slots : pub[s] <= pub'[s],
         call' = [c \in Callers |-> call'[c]], \A c \in Callers \ {t} : call'[c] = call[c]
  PROVE  LInv'
<1> USE Names
<1>1. ASSUME NEW c \in Callers, c # t PROVE pc'[c] = pc[c] BY <1>1 DEF SInv, Types
<1>2. pc'[t] = label BY DEF SInv, Types
<1>3. number' \in [Callers -> Nat] BY DEF LInv
<1>4. ASSUME NEW c \in Callers
      PROVE  \/ pc'[c] \notin InCall
             \/ /\ pc[c] \in InCall /\ call'[c] = call[c]
                /\ pc'[c] \in {"report", "publish"} =>
                     pc'[c] = pc[c] /\ got'[c] = got[c] /\ number'[c] = number[c]
  <2>1. CASE c = t BY <1>2, <2>1
  <2>2. CASE c # t BY <1>1, <2>2
  <2> QED BY <2>1, <2>2
<1> QED BY <1>3, <1>4, Writerless

\* Shown counters grow.
LEMMA Grows ==
  ASSUME SInv, NEW t, pub' = pub \/ pub' = [pub EXCEPT ![t] = priv[t]]
  PROVE  \A s \in Slots : pub[s] <= pub'[s]
<1>1. \A s \in Slots : pub[s] \in Nat /\ priv[s] \in Nat /\ pub[s] <= priv[s]
  BY DEF SInv, Types, SlotInv
<1>2. \A s \in Slots : pub'[s] \in {pub[s], priv[s]} BY DEF SInv, Types
<1> QED BY <1>1, <1>2

\* A caller on its way to its snapshot.
LEMMA GoesOn ==
  ASSUME SInv, SInv', LInv, NEW c \in Callers, NEW label, pc' = [pc EXCEPT ![c] = label],
         pc[c] \in InCall, label \notin {"report", "publish"},
         UNCHANGED <<lock, seqNo, status, call, number, got>>,
         \A s \in Slots : pub[s] <= pub'[s]
  PROVE  LInv'
<1> USE Names
<1>1. pc'[c] = label /\ \A d \in Callers \ {c} : pc'[d] = pc[d] BY DEF SInv, Types
<1>2. number' \in [Callers -> Nat] /\ call' = [d \in Callers |-> call'[d]] BY DEF LInv
<1>3. ASSUME NEW d \in Callers
      PROVE  \/ pc'[d] \notin InCall
             \/ /\ pc[d] \in InCall /\ call'[d] = call[d]
                /\ pc'[d] \in {"report", "publish"} =>
                     pc'[d] = pc[d] /\ got'[d] = got[d] /\ number'[d] = number[d]
  <2>1. CASE d = c BY <1>1, <2>1
  <2>2. CASE d # c BY <1>1, <2>2
  <2> QED BY <2>1, <2>2
<1> QED BY <1>2, <1>3, Writerless

\* A caller that ends a call without the lock.
LEMMA GoesBack ==
  ASSUME SInv, SInv', LInv, NEW c \in Callers, Return(c), EndSnapshot(c) \/ UNCHANGED snap,
         UNCHANGED <<lock, seqNo, status>>, \A s \in Slots : pub[s] <= pub'[s]
  PROVE  LInv'
<1>1. /\ call' = [d \in Callers |-> call'[d]]
      /\ \A d \in Callers \ {c} : pc'[d] = pc[d] /\ call'[d] = call[d]
      /\ ~Holds(c)' /\ pc'[c] # "publish"
  BY ReturnsIdle
<1>2. number' \in [Callers -> Nat] /\ \A d \in Callers \ {c} : number'[d] = number[d] /\ got'[d] = got[d]
  <2>1. number' = [number EXCEPT ![c] = 0] \/ number' = number BY DEF EndSnapshot, snap
  <2>2. got' = [got EXCEPT ![c] = Zero] \/ got' = got BY DEF EndSnapshot, snap
  <2>3. number \in [Callers -> Nat] BY DEF LInv
  <2>4. got \in [Callers -> [Slots -> Nat]] BY DEF SInv, Types
  <2>5. number' \in [Callers -> Nat] /\ \A d \in Callers \ {c} : number'[d] = number[d]
    BY <2>1, <2>3
  <2>6. \A d \in Callers \ {c} : got'[d] = got[d] BY <2>2, <2>4
  <2> QED BY <2>5, <2>6
<1>3. ASSUME NEW d \in Callers
      PROVE  \/ pc'[d] \notin InCall
             \/ call'[d] # "write" /\ pc'[d] # "publish"
             \/ /\ pc[d] \in InCall /\ call'[d] = call[d]
                /\ pc'[d] \in {"report", "publish"} =>
                     pc'[d] = pc[d] /\ got'[d] = got[d] /\ number'[d] = number[d]
  <2>1. CASE d = c BY <1>1, <2>1 DEF Holds
  <2>2. CASE d # c BY <1>1, <1>2, <2>2
  <2> QED BY <2>1, <2>2
<1> QED BY <1>1, <1>2, <1>3, Writerless

\* Nobody holds the lock when it is taken.
LEMMA Locks ==
  ASSUME SInv, SInv', LInv, NEW c \in Callers, Lock(c)
  PROVE  LInv'
<1> USE Names
<1>1. UNCHANGED snap /\ UNCHANGED <<pub, seqNo, status>> /\ lock = {}
  BY DEF Lock, counters
<1>2. \A s \in Slots : pub[s] <= pub'[s] BY <1>1, Grows
<1>3. CASE Return(c) /\ UNCHANGED lock BY <1>1, <1>2, <1>3, GoesBack
<1>4. CASE lock' = {c} /\ Goto(c, "begin") /\ UNCHANGED work
  <2>1. pc'[c] = "begin" /\ call' = call /\ \A d \in Callers \ {c} : pc'[d] = pc[d]
    BY <1>4 DEF Goto, work, SInv, Types
  <2>2. \A d \in Callers : ~Holds(d) BY <1>1 DEF LInv
  <2>3. \A d \in Callers : pc[d] # "publish" BY <2>2 DEF LInv, Holds, InCall
  <2>4. ASSUME NEW d \in Callers
        PROVE  ((Holds(d)' => d = c) /\ pc'[d] \notin {"report", "publish"}) \/ (~Holds(d)' /\ pc'[d] # "publish")
    BY <2>1, <2>2, <2>3 DEF Holds
  <2>5. \A d \in Callers : (Holds(d)' => d = c) /\ pc'[d] # "publish"
                           /\ (Holds(d)' => pc'[d] # "report")
    BY <2>4
  <2> QED BY <1>1, <1>4, <2>1, <2>5 DEF LInv, snap
<1> QED BY <1>3, <1>4 DEF Lock

\* The snapshot is not behind the file: it is read when nobody else writes.
LEMMA ReadsOn ==
  ASSUME SInv, SInv', LInv, NEW c \in Callers, Read(c)
  PROVE  LInv'
<1> USE Names
<1>1. /\ got' = [got EXCEPT ![c] = pub] /\ pc' = [pc EXCEPT ![c] = "report"] /\ pc[c] = "read"
      /\ UNCHANGED <<pub, lock, seqNo, status, number, call>>
  BY DEF Read, Goto, counters, file, work
<1>2. /\ pc'[c] = "report" /\ got'[c] = pub
      /\ \A d \in Callers \ {c} : pc'[d] = pc[d] /\ got'[d] = got[d]
  BY <1>1 DEF SInv, Types
<1>3. \A s \in Slots : pub[s] \in Nat /\ status.got[s] <= pub[s] /\ pub[s] <= pub[s]
  BY DEF SInv, Types, LInv
<1>4. ASSUME NEW d \in Callers
      PROVE  /\ Holds(d)' => lock' = {d}
             /\ pc'[d] = "publish" => call'[d] = "write" /\ number'[d] = seqNo' /\ status'.seq < seqNo'
             /\ Holds(d)' /\ pc'[d] \in {"report", "publish"} =>
                  \A s \in Slots : status'.got[s] <= got'[d][s] /\ got'[d][s] <= pub'[s]
  <2>1. CASE d = c
    <3>1. Holds(c)' => Holds(c) BY <1>1 DEF Holds, InCall
    <3> QED BY <1>1, <1>2, <1>3, <2>1, <3>1 DEF LInv
  <2>2. CASE d # c BY <1>1, <1>2, <2>2 DEF LInv, Holds
  <2> QED BY <2>1, <2>2
<1> QED BY <1>1, <1>4 DEF LInv

\* Its number is the highest yet.
LEMMA NumbersOn ==
  ASSUME SInv, SInv', LInv, NEW c \in Callers, Numbered(c)
  PROVE  LInv'
<1> USE Names
<1>1. /\ seqNo' = seqNo + 1 /\ number' = [number EXCEPT ![c] = seqNo'] /\ pc[c] = "report"
      /\ pc' = [pc EXCEPT ![c] = "publish"] /\ call[c] = "write"
      /\ UNCHANGED <<pub, lock, status, got, call>>
  BY DEF Numbered, Goto, counters, work
<1>2. /\ pc'[c] = "publish" /\ number'[c] = seqNo + 1 /\ number' \in [Callers -> Nat]
      /\ \A d \in Callers \ {c} : pc'[d] = pc[d]
  BY <1>1 DEF SInv, Types, LInv
<1>3. Holds(c) BY <1>1 DEF Holds, InCall
<1>4. \A d \in Callers : d # c => ~Holds(d) BY <1>3 DEF LInv
<1>5. \A d \in Callers : d # c => ~Holds(d)' /\ pc'[d] # "publish"
  BY <1>1, <1>2, <1>4 DEF Holds, InCall, LInv
<1>6. seqNo \in Nat /\ status.seq \in Nat /\ status.seq <= seqNo BY DEF LInv
<1>7. status.seq < seqNo' /\ status.seq <= seqNo' /\ seqNo' \in Nat BY <1>1, <1>6
<1>8. /\ lock' = {c}
      /\ \A s \in Slots : status.got[s] <= got[c][s] /\ got[c][s] <= pub[s]
  BY <1>1, <1>3 DEF LInv
<1> QED BY <1>1, <1>2, <1>5, <1>7, <1>8 DEF LInv

\* The writer replaces the file by what is not behind it, and lets the next one in.
LEMMA WritesOn ==
  ASSUME SInv, SInv', LInv, NEW c \in Callers, Written(c)
  PROVE  /\ LInv'
         /\ status' # status => /\ status'.seq > status.seq
                                /\ \A s \in Slots : status'.got[s] >= status.got[s]
<1> USE Names
<1>1. /\ pc[c] = "publish" /\ lock' = {} /\ Return(c) /\ EndSnapshot(c)
      /\ UNCHANGED <<pub, seqNo>>
      /\ status' = status \/ (status'.seq = number[c] /\ status'.got = got[c])
  BY DEF Written, counters
<1>2. call[c] = "write" /\ number[c] = seqNo /\ status.seq < seqNo
      /\ seqNo \in Nat /\ status.seq \in Nat
  BY <1>1 DEF LInv
<1>3. Holds(c) BY <1>1, <1>2 DEF Holds, InCall
<1>4. \A s \in Slots : status.got[s] <= got[c][s] /\ got[c][s] <= pub[s]
  BY <1>1, <1>3 DEF LInv
<1>5. \A d \in Callers : d # c => ~Holds(d) /\ pc[d] # "publish"
  BY <1>3 DEF LInv, Holds, InCall
<1>6. /\ call' = [d \in Callers |-> call'[d]]
      /\ \A d \in Callers \ {c} : pc'[d] = pc[d] /\ call'[d] = call[d]
      /\ ~Holds(c)' /\ pc'[c] # "publish"
  BY <1>1, ReturnsIdle
<1>7. \A d \in Callers : ~Holds(d)' /\ pc'[d] # "publish" BY <1>5, <1>6 DEF Holds
<1>8. number' \in [Callers -> Nat] BY <1>1 DEF EndSnapshot, LInv
<1>9. got[c] \in [Slots -> Nat] BY DEF SInv, Types
<1>10. /\ status'.seq \in Nat /\ status'.seq <= seqNo /\ status'.got \in [Slots -> Nat]
       /\ \A s \in Slots : status'.got[s] <= pub[s]
  BY <1>1, <1>2, <1>4, <1>9 DEF LInv
<1>11. LInv' BY <1>1, <1>6, <1>7, <1>8, <1>10 DEF LInv
<1>12. status' # status => status'.seq > status.seq BY <1>1, <1>2
<1>13. status' # status => \A s \in Slots : status'.got[s] >= status.got[s]
  BY <1>1, <1>4, <1>9 DEF LInv
<1> QED BY <1>11, <1>12, <1>13

\* A step of a call keeps the order of the file.
LEMMA CallKeepsOrder ==
  ASSUME SInv, SInv', LInv, NEW c \in Callers, CallStep(c) \/ Deadline(c)
  PROVE  LInv'
<1> USE Names
<1>1. \A s \in Slots : pub[s] <= pub'[s]
  <2>1. pub' = pub \/ pub' = [pub EXCEPT ![c] = priv[c]] BY CallerGoes
  <2> QED BY <2>1, Grows
<1>2. CASE Lock(c) BY <1>2, Locks
<1>3. CASE Begin(c) \/ Target(c) \/ Request(c) \/ OwnFlush(c) \/ OwnAck(c)
  <2>1. pc[c] \in InCall /\ UNCHANGED <<lock, seqNo, status, call, number, got>>
    BY <1>3 DEF Begin, Target, Request, OwnFlush, OwnAck, InCall, file, work, snap
  <2>2. PICK label \in {"target", "request", "ownflush", "ownack", "wait"} :
          pc' = [pc EXCEPT ![c] = label]
    BY <1>3 DEF Begin, Target, Request, OwnFlush, OwnAck, Goto
  <2> QED BY <1>1, <2>1, <2>2, GoesOn
<1>4. CASE SyncAlone(c) \/ Acked(c) \/ Deadline(c)
  <2>1. /\ pc[c] \in InCall /\ UNCHANGED <<lock, seqNo, status>>
        /\ \E ok : Synced(c, ok)
    BY <1>4 DEF SyncAlone, Acked, Deadline, InCall, file
  <2>2. CASE Return(c) /\ EndSnapshot(c) BY <1>1, <2>1, <2>2, GoesBack
  <2>3. CASE Goto(c, "read") /\ UNCHANGED <<work, got, number, need>>
    BY <1>1, <2>1, <2>3, GoesOn DEF Goto, work
  <2> QED BY <2>1, <2>2, <2>3 DEF Synced
<1>5. CASE Read(c) BY <1>5, ReadsOn
<1>6. CASE Dumped(c) BY <1>1, <1>6, GoesBack DEF Dumped, file
<1>7. CASE Numbered(c) BY <1>7, NumbersOn
<1>8. CASE Written(c) BY <1>8, WritesOn
<1> QED BY <1>2, <1>3, <1>4, <1>5, <1>6, <1>7, <1>8 DEF CallStep

\* Only the end of a write changes the file.
LEMMA OnlyWrites ==
  ASSUME NEW c \in Callers, CallStep(c) \/ Deadline(c), ~Written(c)
  PROVE  status' = status
BY DEF CallStep, Lock, Begin, Target, SyncAlone, Request, OwnFlush, OwnAck, Acked, Read,
       Dumped, Numbered, Deadline, file

\* Steps outside the calls leave lock, number and file alone.
LEMMA OthersKeepOrder ==
  ASSUME SInv, SInv', LInv,
         \/ \E t \in Slots : Count(t) \/ IdleFlush(t) \/ Stop(t) \/ CheckStep(t)
         \/ \E w \in Workers : WorkerLeave(w) \/ WorkerFlush(w) \/ WorkerExit(w)
         \/ StartTelemetry \/ MainFlush \/ MainDeregister \/ MainJoin \/ MainDrained
         \/ StopTelemetry \/ FinalStatus \/ MainEnd \/ Usr2 \/ ExporterEnd \/ Export
         \/ Finished \/ UNCHANGED vars
  PROVE  LInv' /\ status' = status
<1> USE Names
<1>0. /\ Main \in Callers /\ Exporter \in Callers /\ Main \in Slots /\ Main \notin Workers
      /\ Exporter \notin Slots /\ Workers \subseteq Slots /\ Workers \subseteq Threads
  BY DEF Callers, Threads
<1>1. ASSUME NEW t \in Slots, Count(t) PROVE LInv' /\ status' = status
  <2>1. UNCHANGED <<lock, seqNo, status, number, got, call, pc>>
    BY <1>1 DEF Count, file, snap, work
  <2>2. \A s \in Slots : pub[s] \in Nat /\ priv[s] \in Nat /\ pub[s] <= priv[s]
    BY DEF SInv, Types, SlotInv
  <2>3. pub' = pub \/ pub' = [pub EXCEPT ![t] = priv[t] + 1]
    BY <1>1 DEF Count, SInv, Types
  <2>4. \A s \in Slots : pub'[s] = pub[s] \/ pub'[s] = priv[s] + 1 BY <2>3 DEF SInv, Types
  <2>5. \A s \in Slots : pub[s] <= pub'[s] BY <2>2, <2>4
  <2>6. number' \in [Callers -> Nat] /\ call' = [c \in Callers |-> call'[c]]
    BY <2>1 DEF LInv
  <2>7. \A c \in Callers : pc'[c] \notin InCall \/ pc[c] \in InCall BY <2>1
  <2> QED BY <2>1, <2>5, <2>6, <2>7, Writerless
<1>2. CASE Finished \/ UNCHANGED vars
  BY <1>2 DEF Finished, vars, counters, life, snap, file, work, LInv, Holds
<1> DEFINE Away == {"run", "flush", "ack", "lock", "drain", "exit", "done", "off", "dereg", "join", "joinx"}
           Steps(t) == /\ \E label \in Away : pc' = [pc EXCEPT ![t] = label]
                       /\ lock' = lock /\ seqNo' = seqNo /\ status' = status
                       /\ number' = number /\ got' = got
                       /\ pub' = pub \/ pub' = [pub EXCEPT ![t] = priv[t]]
                       /\ call' = call \/ \E kind : call' = [call EXCEPT ![t] = kind]
<1>3. ASSUME NEW t \in Threads, Steps(t)
      PROVE  LInv' /\ status' = status
  <2>1. \A s \in Slots : pub[s] <= pub'[s] BY <1>3, Grows
  <2>2. call = [c \in Callers |-> call[c]] BY DEF LInv
  <2>3. call' = [c \in Callers |-> call'[c]] /\ \A c \in Callers \ {t} : call'[c] = call[c]
    BY <1>3, <2>2
  <2>4. PICK label \in Away : pc' = [pc EXCEPT ![t] = label] BY <1>3
  <2>5. label \notin InCall BY DEF InCall
  <2>6. UNCHANGED <<lock, seqNo, status, number, got>> BY <1>3
  <2> QED BY <2>1, <2>3, <2>4, <2>5, <2>6, Outside
<1>4. ASSUME NEW t \in Slots, IdleFlush(t) \/ Stop(t) \/ CheckStep(t)
      PROVE  LInv' /\ status' = status
  <2>1. /\ UNCHANGED <<lock, seqNo, status, number, got, call>>
        /\ pub' = pub \/ pub' = [pub EXCEPT ![t] = priv[t]]
    BY <1>4 DEF IdleFlush, Stop, CheckStep, CheckSync, CheckFlush, CheckAck, FlushSlot,
                counters, file, snap, work
  <2>2. PICK label \in {"flush", "ack", "lock", "run"} : pc' = [pc EXCEPT ![t] = label]
    <3>1. CASE pc' = pc /\ pc[t] = "run" BY <3>1 DEF SInv, Types
    <3>2. CASE CheckStep(t) BY <3>2 DEF CheckStep, CheckSync, CheckFlush, CheckAck, Goto
    <3> QED BY <1>4, <3>1, <3>2 DEF IdleFlush, Stop
  <2>3. t \in Threads /\ Steps(t) BY <2>1, <2>2 DEF Threads
  <2> HIDE DEF Steps
  <2> QED BY <1>3, <2>3
<1>5. ASSUME NEW w \in Workers, WorkerLeave(w) \/ WorkerFlush(w) \/ WorkerExit(w)
      PROVE  LInv' /\ status' = status
  <2>1. /\ UNCHANGED <<lock, seqNo, status, number, got, call>>
        /\ pub' = pub \/ pub' = [pub EXCEPT ![w] = priv[w]]
    BY <1>5 DEF WorkerLeave, WorkerFlush, WorkerExit, FlushSlot, counters, file, snap, work
  <2>2. PICK label \in {"drain", "exit", "done"} : pc' = [pc EXCEPT ![w] = label]
    BY <1>5 DEF WorkerLeave, WorkerFlush, WorkerExit, Goto
  <2>3. w \in Threads /\ Steps(w) BY <2>1, <2>2
  <2> HIDE DEF Steps
  <2> QED BY <1>3, <2>3
<1>6. CASE StartTelemetry
  <2>1. UNCHANGED <<lock, seqNo, status, number, got, call, pub>>
    BY <1>6 DEF StartTelemetry, counters, file, snap, work
  <2>2. PICK t \in Callers : pc' = [pc EXCEPT ![t] = "run"]
    <3>1. CASE Goto(Exporter, "run") BY <1>0, <3>1 DEF Goto
    <3>2. CASE pc' = pc
      <4>1. pc' = [pc EXCEPT ![Main] = "run"] BY <1>6, <3>2 DEF StartTelemetry, SInv, Types
      <4> QED BY <1>0, <4>1
    <3> QED BY <1>6, <3>1, <3>2 DEF StartTelemetry
  <2>3. t \in Threads /\ Steps(t) BY <2>1, <2>2 DEF Threads
  <2> HIDE DEF Steps
  <2> QED BY <1>3, <2>3
<1>7. CASE MainFlush \/ MainDeregister \/ MainJoin \/ StopTelemetry \/ MainEnd
  <2>1. /\ UNCHANGED <<lock, seqNo, status, number, got, call>>
        /\ pub' = pub \/ pub' = [pub EXCEPT ![Main] = priv[Main]]
    BY <1>7 DEF MainFlush, MainDeregister, MainJoin, StopTelemetry, MainEnd, FlushSlot,
                counters, file, snap, work
  <2>2. PICK label \in {"dereg", "join", "drain", "joinx", "done"} :
          pc' = [pc EXCEPT ![Main] = label]
    BY <1>7 DEF MainFlush, MainDeregister, MainJoin, StopTelemetry, MainEnd, Goto
  <2>3. Main \in Threads /\ Steps(Main) BY <2>1, <2>2
  <2> HIDE DEF Steps
  <2> QED BY <1>3, <2>3
<1>8. CASE FinalStatus \/ Export \/ ExporterEnd
  <2>1. UNCHANGED <<lock, seqNo, status, number, got, pub>>
    BY <1>8 DEF FinalStatus, Export, ExporterEnd, counters, file, snap
  <2>2. PICK t \in Callers, label \in {"lock", "done"} :
          /\ pc' = [pc EXCEPT ![t] = label]
          /\ call' = call \/ \E kind : call' = [call EXCEPT ![t] = kind]
    <3>1. CASE FinalStatus BY <1>0, <3>1 DEF FinalStatus, Enter, Goto
    <3>2. CASE Export BY <1>0, <3>2 DEF Export, Enter, Goto
    <3>3. CASE ExporterEnd BY <1>0, <3>3 DEF ExporterEnd, Goto, work
    <3> QED BY <1>8, <3>1, <3>2, <3>3
  <2>3. t \in Threads /\ Steps(t) BY <2>1, <2>2
  <2> HIDE DEF Steps
  <2> QED BY <1>3, <2>3
<1>9. CASE MainDrained \/ Usr2
  <2>1. /\ UNCHANGED <<lock, seqNo, status, number, got>>
        /\ pub' = pub \/ pub' = [pub EXCEPT ![Main] = priv[Main]]
    BY <1>9 DEF MainDrained, Usr2, FlushSlot, counters, file, snap
  <2>2. PICK kind \in {"dump", "sync"} :
          call' = [call EXCEPT ![Main] = kind] /\ pc' = [pc EXCEPT ![Main] = "begin"]
    BY <1>9 DEF MainDrained, Usr2, Enter, Goto
  <2>3. \A s \in Slots : pub[s] <= pub'[s] BY <2>1, Grows
  <2>4. call = [c \in Callers |-> call[c]] /\ number' \in [Callers -> Nat]
    BY <2>1 DEF LInv
  <2>5. call' = [c \in Callers |-> call'[c]] /\ call'[Main] = kind
        /\ \A c \in Callers \ {Main} : call'[c] = call[c]
    BY <1>0, <2>2, <2>4
  <2>6. pc'[Main] = "begin" /\ \A c \in Callers \ {Main} : pc'[c] = pc[c]
    BY <1>0, <2>2 DEF SInv, Types
  <2>7. ASSUME NEW c \in Callers
        PROVE  \/ pc'[c] \notin InCall
               \/ call'[c] # "write" /\ pc'[c] # "publish"
               \/ /\ pc[c] \in InCall /\ call'[c] = call[c]
                  /\ pc'[c] \in {"report", "publish"} =>
                       pc'[c] = pc[c] /\ got'[c] = got[c] /\ number'[c] = number[c]
    <3>1. CASE c = Main BY <2>5, <2>6, <3>1
    <3>2. CASE c # Main BY <2>1, <2>5, <2>6, <3>2
    <3> QED BY <3>1, <3>2
  <2> QED BY <2>1, <2>3, <2>4, <2>5, <2>7, Writerless
<1> QED BY <1>1, <1>2, <1>4, <1>5, <1>6, <1>7, <1>8, <1>9

\* Every step keeps the order of the file, and moves the file on if it changes it.
LEMMA LNext ==
  ASSUME SInv, SInv', LInv, [Next]_vars
  PROVE  /\ LInv'
         /\ status' # status => /\ status'.seq > status.seq
                                /\ \A s \in Slots : status'.got[s] >= status.got[s]
<1>1. ASSUME NEW c \in Callers, CallStep(c) \/ Deadline(c)
      PROVE  /\ LInv'
             /\ status' # status => /\ status'.seq > status.seq
                                    /\ \A s \in Slots : status'.got[s] >= status.got[s]
  <2>1. CASE Written(c) BY <2>1, WritesOn
  <2>2. CASE ~Written(c) BY <1>1, <2>2, CallKeepsOrder, OnlyWrites
  <2> QED BY <2>1, <2>2
<1>2. Main \in Callers /\ Exporter \in Callers /\ Main \in Slots /\ Workers \subseteq Slots
  BY Names DEF Callers
<1> QED BY <1>1, <1>2, OthersKeepOrder DEF Next, WorkerStep, MainStep, ExporterStep

\* Each status written (stats_write_json) has a higher number than the one it replaces
\* and counters no lower: snapshot, number and rename happen under one lock, which the
\* main thread tries for and the telemetry thread waits for.
THEOREM StatusMovesOnAlways == Spec => StatusMovesOn
<1>1. SInv /\ SInv' /\ LInv /\ [Next]_vars =>
        LInv' /\ [/\ status'.seq > status.seq
                  /\ \A s \in Slots : status'.got[s] >= status.got[s]]_status
  BY LNext
<1> QED BY <1>1, SInit, SNext, LInit, PTL DEF Spec, StatusMovesOn
=============================================================================
