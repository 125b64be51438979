-------------------------- MODULE HotReload_proofs --------------------------
(***************************************************************************)
(* Proofs about HotReload and ReloadTraffic for any set of providers, any  *)
(* set of configs and any sequence of edits.  The inductive invariant says *)
(* for each phase of watch_config which providers already agree with the   *)
(* new config, which still agree with the old one, and what is known of    *)
(* the one the watcher is working on.                                      *)
(***************************************************************************)
EXTENDS ReloadTraffic, TLAPS

BusyPc == {"drop_removed", "drop_rebuilt", "add", "add_entry"}
Pc == {"idle", "load", "diff", "remove", "rebuild", "caps"} \cup BusyPc
Client == Nat \X Nat
Entry == [max_rps : Int]

TypeOK ==
    /\ file \in Configs \cup {Invalid}
    /\ touched \in BOOLEAN
    /\ config \in Configs
    /\ clients \in [Provider -> Client]
    /\ entries \in [Provider -> Entry]
    /\ watcher \in [pc : Pc, new : Configs \cup {Invalid}, todo : SUBSET Provider,
                    current : Provider \cup {Nobody}]
    /\ rebuilt \in [Provider -> {0, 1}]
    /\ Applying => watcher.new \in Configs

(* Clients and entries of p are those of config c. *)
AgreesWith(c, p) ==
    IF Lists(c, p) THEN clients[p] = build_client(c, p) /\ entries[p] = NewEntry(c, p)
    ELSE clients[p] = NoClient /\ entries[p] = NoEntry

Rebuilds == {p \in Provider : client_rebuild_reason(config, watcher.new, p)}
Busy(p) == watcher.pc \in BusyPc /\ watcher.current = p

(* Before the first change everything agrees with the config.              *)
Settled ==
    watcher.pc \in {"idle", "load", "diff"} => \A p \in Provider : AgreesWith(config, p)

(* While removed providers are dropped: those done with are gone.          *)
Removing ==
    watcher.pc \in {"remove", "drop_removed"} =>
        /\ watcher.todo \subseteq Removed
        /\ watcher.pc = "drop_removed" => /\ watcher.current \in Removed \ watcher.todo
                                          /\ clients[watcher.current] = NoClient
        /\ \A p \in Provider : ~Busy(p) =>
            IF p \in Removed \ watcher.todo THEN AgreesWith(watcher.new, p)
                                            ELSE AgreesWith(config, p)

(* While providers are rebuilt: those done with agree with the new config. *)
Rebuilding ==
    watcher.pc \in {"rebuild", "drop_rebuilt", "add", "add_entry"} =>
        /\ watcher.todo \subseteq Rebuilds
        /\ watcher.pc # "rebuild" => watcher.current \in Rebuilds \ watcher.todo
        /\ watcher.pc = "add_entry" =>
              clients[watcher.current] = build_client(watcher.new, watcher.current)
        /\ \A p \in Provider : ~Busy(p) =>
            IF p \in (Removed \cup Rebuilds) \ watcher.todo
            THEN AgreesWith(watcher.new, p) ELSE AgreesWith(config, p)

(* While caps are applied: everything agrees with the new config, but for  *)
(* the caps still to be applied.                                           *)
Capping ==
    watcher.pc = "caps" =>
        \A p \in Provider :
            \/ AgreesWith(watcher.new, p)
            \/ /\ p \in watcher.todo
               /\ Lists(config, p) /\ Lists(watcher.new, p)
               /\ clients[p] = build_client(watcher.new, p)
               /\ entries[p] = NewEntry(config, p)

Inv == TypeOK /\ Settled /\ Removing /\ Rebuilding /\ Capping

-----------------------------------------------------------------------------
(* What a config holds of a provider has the types of clients and entries, *)
(* and a listed provider's client and entry are not the missing ones.      *)
LEMMA ConfigFacts ==
    ASSUME NEW c \in Configs, NEW p \in Provider
    PROVE  /\ build_client(c, p) \in Client
           /\ NewEntry(c, p) \in Entry /\ NewEntry(c, p) # NoEntry
           /\ NewEntry(c, p).max_rps = c.providers[p].max_rps
           /\ c.providers[p].max_rps \in Nat
           /\ Lists(c, p) => build_client(c, p) # NoClient
<1>1. c \in ConfigType /\ c.providers[p] \in ProviderConfig
  BY ConfigsAssumption DEF ConfigType
<1>2. c.pool \in Nat /\ c.providers[p].inputs \in Nat /\ c.providers[p].max_rps \in Nat
  BY <1>1 DEF ConfigType, ProviderConfig
<1>3. Lists(c, p) => c.providers[p].inputs # 0
  BY ConfigsAssumption
<1> QED
  BY <1>2, <1>3 DEF build_client, NewEntry, NoEntry, NoClient, Client, Entry

LEMMA MissingTypes == NoClient \in Client /\ NoEntry \in Entry
  BY DEF NoClient, NoEntry, Client, Entry

(* A provider whose client inputs the new config keeps needs no rebuild.   *)
LEMMA KeptClient ==
    ASSUME NEW c \in Configs, NEW d \in Configs, NEW p \in Provider,
           Lists(c, p), Lists(d, p)
    PROVE  client_rebuild_reason(c, d, p) <=> build_client(c, p) # build_client(d, p)
  BY DEF client_rebuild_reason, build_client

LEMMA InvInit == Init => Inv
<1> SUFFICES ASSUME Init PROVE Inv
  OBVIOUS
<1>1. TypeOK
  BY ConfigFacts, MissingTypes DEF Init, TypeOK, Idle, Applying, Pc, Nobody
<1>2. Settled
  BY DEF Init, Settled, AgreesWith
<1> QED
  BY <1>1, <1>2 DEF Inv, Removing, Rebuilding, Capping, Init, Idle

(* What the two ways to move the watcher on write. *)
LEMMA WatcherMoves ==
    ASSUME TypeOK, NEW pc \in Pc, NEW p \in Provider, NEW todo \in SUBSET Provider
    PROVE  /\ GoTo(pc, todo) =>
                watcher' = [pc |-> pc, new |-> watcher.new, todo |-> todo, current |-> Nobody]
           /\ Working(pc, p) =>
                watcher' = [pc |-> pc, new |-> watcher.new, todo |-> watcher.todo \ {p},
                            current |-> p]
  BY DEF TypeOK, GoTo, Working

(* The types are kept by every step. *)
LEMMA TypeNext == TypeOK /\ [Next]_vars => TypeOK'
<1> SUFFICES ASSUME TypeOK, [Next]_vars PROVE TypeOK'
  OBVIOUS
<1> USE DEF TypeOK, Applying, Pc, BusyPc
<1>1. CASE Poll \/ LoadFails \/ Load \/ SwapConfig
  <2>1. CASE Poll
    BY <2>1 DEF Poll
  <2>2. CASE LoadFails
    BY <2>2 DEF LoadFails, Idle
  <2>3. CASE Load
    BY <2>3 DEF Load
  <2>4. CASE SwapConfig
    BY <2>4 DEF SwapConfig, Idle
  <2> QED
    BY <1>1, <2>1, <2>2, <2>3, <2>4
<1>2. CASE Diff \/ StartRebuilds \/ StartCaps
  <2>1. CASE Diff
    <3>1. Removed \in SUBSET Provider
      BY DEF Removed
    <3> QED
      BY <2>1, <3>1 DEF Diff, GoTo
  <2>2. CASE StartRebuilds
    BY <2>2 DEF StartRebuilds, GoTo
  <2>3. CASE StartCaps
    BY <2>3 DEF StartCaps, GoTo
  <2> QED
    BY <1>2, <2>1, <2>2, <2>3
<1>3. ASSUME NEW p \in Provider, DropClient(p) PROVE TypeOK'
  <2>1. CASE Working("drop_removed", p)
    BY <1>3, <2>1, MissingTypes DEF DropClient, Working
  <2>2. CASE Working("drop_rebuilt", p)
    BY <1>3, <2>2, MissingTypes DEF DropClient, Working
  <2> QED
    BY <1>3, <2>1, <2>2 DEF DropClient
<1>4. ASSUME NEW p \in Provider, DropEntry(p) PROVE TypeOK'
  <2>1. entries' \in [Provider -> Entry] /\ UNCHANGED <<file, touched, config, clients>>
        /\ rebuilt' \in [Provider -> {0, 1}]
    BY <1>4, MissingTypes DEF DropEntry
  <2>2. CASE GoTo("remove", watcher.todo)
    BY <1>4, <2>1, <2>2 DEF DropEntry, GoTo
  <2>3. CASE Working("add", p)
    BY <1>4, <2>1, <2>3 DEF DropEntry, Working
  <2> QED
    BY <1>4, <2>2, <2>3 DEF DropEntry
<1>5. ASSUME NEW p \in Provider, AddClient(p) PROVE TypeOK'
  BY <1>5, ConfigFacts DEF AddClient, Working
<1>6. ASSUME NEW p \in Provider, AddEntry(p) PROVE TypeOK'
  <2>1. rebuilt[p] \in {0, 1} /\ 1 - rebuilt[p] \in {0, 1}
    OBVIOUS
  <2> QED
    BY <1>6, <2>1, ConfigFacts DEF AddEntry, GoTo
<1>7. ASSUME NEW p \in Provider, ApplyCap(p) PROVE TypeOK'
  <2>1. CapApplied(entries[p], watcher.new.providers[p].max_rps) \in Entry
    BY <1>7, ConfigFacts DEF ApplyCap, CapApplied, Entry
  <2> QED
    BY <1>7, <2>1 DEF ApplyCap, GoTo
<1>8. ASSUME NEW c \in Configs \cup {Invalid}, Write(c) PROVE TypeOK'
  BY <1>8 DEF Write
<1>9. CASE UNCHANGED vars
  BY <1>9 DEF vars
<1> QED
  BY <1>1, <1>2, <1>3, <1>4, <1>5, <1>6, <1>7, <1>8, <1>9 DEF Next, Watch

-----------------------------------------------------------------------------
(* Poll, Load, LoadFails and Write only prepare a reload. *)
LEMMA QuietStep ==
    ASSUME Inv, TypeOK',
           Poll \/ LoadFails \/ Load \/ (\E c \in Configs \cup {Invalid} : Write(c))
                \/ UNCHANGED vars
    PROVE  Inv'
<1>1. /\ UNCHANGED <<config, clients, entries>>
      /\ \/ UNCHANGED watcher
         \/ /\ watcher.pc \in {"idle", "load"}
            /\ watcher'.pc \in {"idle", "load", "diff"}
  <2>1. CASE Poll
    BY <2>1 DEF Inv, TypeOK, Poll
  <2>2. CASE LoadFails
    BY <2>2 DEF LoadFails, Idle
  <2>3. CASE Load
    BY <2>3 DEF Inv, TypeOK, Load
  <2>4. CASE \E c \in Configs \cup {Invalid} : Write(c)
    BY <2>4 DEF Write
  <2> QED
    BY <2>1, <2>2, <2>3, <2>4 DEF vars
<1>2. CASE UNCHANGED watcher
  BY <1>1, <1>2 DEF Inv, Settled, Removing, Rebuilding, Capping, AgreesWith, Busy,
                    Removed, Rebuilds
<1>3. CASE /\ watcher.pc \in {"idle", "load"}
           /\ watcher'.pc \in {"idle", "load", "diff"}
  BY <1>1, <1>3 DEF Inv, Settled, Removing, Rebuilding, Capping, AgreesWith
<1> QED
  BY <1>1, <1>2, <1>3

(* A provider with nothing to do agrees with both configs' client. *)
LEMMA Untouched ==
    ASSUME TypeOK, watcher.new \in Configs, NEW p \in Provider, p \notin Rebuilds
    PROVE  /\ Lists(watcher.new, p) => /\ Lists(config, p)
                                       /\ build_client(config, p) = build_client(watcher.new, p)
           /\ p \notin Removed /\ ~Lists(watcher.new, p) => ~Lists(config, p)
  BY DEF Rebuilds, Removed, client_rebuild_reason, build_client

(* The steps between the phases. *)
LEMMA PhaseStep ==
    ASSUME Inv, TypeOK', Diff \/ StartRebuilds \/ StartCaps \/ SwapConfig
    PROVE  Inv'
<1>0. TypeOK /\ Settled /\ Removing /\ Rebuilding /\ Capping
  BY DEF Inv
<1>1. CASE Diff
  <2>1. watcher' = [pc |-> "remove", new |-> watcher.new, todo |-> Removed, current |-> Nobody]
    BY <1>0, <1>1 DEF Diff, GoTo, TypeOK, Removed
  <2>2. UNCHANGED <<config, clients, entries>> /\ \A p \in Provider : AgreesWith(config, p)
    BY <1>0, <1>1 DEF Diff, Settled
  <2> QED
    BY <2>1, <2>2 DEF Inv, Settled, Removing, Rebuilding, Capping, AgreesWith, Busy,
                      BusyPc, Removed
<1>2. CASE StartRebuilds
  <2>1. watcher' = [pc |-> "rebuild", new |-> watcher.new, todo |-> Rebuilds, current |-> Nobody]
    BY <1>0, <1>2 DEF StartRebuilds, GoTo, TypeOK, Rebuilds
  <2>2. /\ UNCHANGED <<config, clients, entries>>
        /\ Removed' = Removed /\ Rebuilds' = Rebuilds
    BY <1>2, <2>1 DEF StartRebuilds, Removed, Rebuilds
  <2>3. \A p \in Provider : IF p \in Removed THEN AgreesWith(watcher.new, p)
                                               ELSE AgreesWith(config, p)
    BY <1>0, <1>2 DEF StartRebuilds, Removing, Busy, BusyPc
  <2>4. Rebuilding'
    <3>1. \A p \in Provider : p \in Removed => p \notin Rebuilds
      BY DEF Removed, Rebuilds, client_rebuild_reason
    <3>2. ASSUME NEW p \in Provider
          PROVE  /\ AgreesWith(watcher.new, p) => AgreesWith(watcher.new, p)'
                 /\ AgreesWith(config, p) => AgreesWith(config, p)'
      BY <2>1, <2>2 DEF AgreesWith
    <3> QED
      BY <2>1, <2>2, <2>3, <3>1, <3>2 DEF Rebuilding
  <2> QED
    BY <2>1, <2>4 DEF Inv, Settled, Removing, Capping
<1>3. CASE StartCaps
  <2> DEFINE todo == {p \in Provider : CapChanged(config, watcher.new, p)}
  <2>1. watcher' = [pc |-> "caps", new |-> watcher.new, todo |-> todo, current |-> Nobody]
    BY <1>0, <1>3 DEF StartCaps, GoTo, TypeOK
  <2>2. UNCHANGED <<config, clients, entries>> /\ watcher.new \in Configs
    BY <1>0, <1>3 DEF StartCaps, TypeOK, Applying
  <2>3. \A p \in Provider : IF p \in Removed \cup Rebuilds THEN AgreesWith(watcher.new, p)
                                                           ELSE AgreesWith(config, p)
    BY <1>0, <1>3 DEF StartCaps, Rebuilding, Busy, BusyPc
  <2>4. ASSUME NEW p \in Provider
        PROVE  \/ AgreesWith(watcher.new, p)
               \/ /\ p \in todo
                  /\ Lists(config, p) /\ Lists(watcher.new, p)
                  /\ clients[p] = build_client(watcher.new, p)
                  /\ entries[p] = NewEntry(config, p)
    <3>1. CASE p \in Removed \cup Rebuilds
      BY <2>3, <3>1
    <3>2. CASE p \notin Removed \cup Rebuilds
      <4>1. AgreesWith(config, p)
        BY <2>3, <3>2
      <4>2. CASE Lists(watcher.new, p)
        <5>1. Lists(config, p) /\ build_client(config, p) = build_client(watcher.new, p)
          BY <1>0, <2>2, <3>2, <4>2, Untouched
        <5> QED
          BY <4>1, <4>2, <5>1 DEF AgreesWith, CapChanged, NewEntry
      <4>3. CASE ~Lists(watcher.new, p)
        BY <1>0, <2>2, <3>2, <4>1, <4>3, Untouched DEF AgreesWith
      <4> QED
        BY <4>2, <4>3
    <3> QED
      BY <3>1, <3>2
  <2>5. Capping'
    BY <2>1, <2>2, <2>4 DEF Capping, AgreesWith
  <2> QED
    BY <2>1, <2>5 DEF Inv, Settled, Removing, Rebuilding
<1>4. CASE SwapConfig
  <2>1. \A p \in Provider : AgreesWith(watcher.new, p)
    BY <1>0, <1>4 DEF SwapConfig, Capping
  <2>2. Settled'
    BY <1>4, <2>1 DEF SwapConfig, Settled, AgreesWith
  <2> QED
    BY <1>4, <2>2 DEF Inv, SwapConfig, Idle, Removing, Rebuilding, Capping
<1> QED
  BY <1>1, <1>2, <1>3, <1>4

-----------------------------------------------------------------------------
(* A step for p leaves what the watcher has to do, and the clients and     *)
(* entries of everybody else, as they are.                                 *)
LEMMA OneProvider ==
    ASSUME TypeOK, NEW p \in Provider, NEW client \in Client, NEW entry \in Entry,
           clients' = [clients EXCEPT ![p] = client] \/ UNCHANGED clients,
           entries' = [entries EXCEPT ![p] = entry] \/ UNCHANGED entries,
           UNCHANGED config, watcher'.new = watcher.new
    PROVE  /\ Removed' = Removed /\ Rebuilds' = Rebuilds
           /\ \A q \in Provider \ {p} :
                /\ AgreesWith(config, q)' <=> AgreesWith(config, q)
                /\ AgreesWith(watcher.new, q)' <=> AgreesWith(watcher.new, q)
<1>1. Removed' = Removed /\ Rebuilds' = Rebuilds
  BY DEF Removed, Rebuilds
<1>2. \A q \in Provider \ {p} : clients'[q] = clients[q] /\ entries'[q] = entries[q]
  BY DEF TypeOK
<1> QED
  BY <1>1, <1>2 DEF AgreesWith

LEMMA DropClientStep ==
    ASSUME Inv, TypeOK', NEW p \in Provider, DropClient(p)
    PROVE  Inv'
<1>0. TypeOK /\ Settled /\ Removing /\ Rebuilding /\ Capping
  BY DEF Inv
<1>1. /\ clients' = [clients EXCEPT ![p] = NoClient]
      /\ UNCHANGED <<config, entries>> /\ p \in watcher.todo
      /\ watcher'.new = watcher.new /\ watcher'.todo = watcher.todo \ {p}
      /\ watcher'.current = p
      /\ \/ watcher.pc = "remove" /\ watcher'.pc = "drop_removed"
         \/ watcher.pc = "rebuild" /\ watcher'.pc = "drop_rebuilt"
  BY <1>0 DEF DropClient, Working, TypeOK
<1>2. /\ Removed' = Removed /\ Rebuilds' = Rebuilds
      /\ \A q \in Provider \ {p} :
            /\ AgreesWith(config, q)' <=> AgreesWith(config, q)
            /\ AgreesWith(watcher.new, q)' <=> AgreesWith(watcher.new, q)
  BY <1>0, <1>1, MissingTypes, OneProvider
<1>3. \A q \in Provider : ~Busy(q) /\ (~Busy(q)' <=> q # p)
  BY <1>1 DEF Busy, BusyPc
<1>4. CASE watcher.pc = "remove"
  <2>1. Removing'
    BY <1>0, <1>1, <1>2, <1>3, <1>4 DEF Removing, TypeOK
  <2> QED
    BY <1>1, <1>4, <2>1 DEF Inv, Settled, Rebuilding, Capping
<1>5. CASE watcher.pc = "rebuild"
  <2>1. Rebuilding'
    BY <1>0, <1>1, <1>2, <1>3, <1>5 DEF Rebuilding
  <2> QED
    BY <1>1, <1>5, <2>1 DEF Inv, Settled, Removing, Capping
<1> QED
  BY <1>1, <1>4, <1>5

LEMMA DropEntryStep ==
    ASSUME Inv, TypeOK', NEW p \in Provider, DropEntry(p)
    PROVE  Inv'
<1>0. TypeOK /\ Settled /\ Removing /\ Rebuilding /\ Capping
  BY DEF Inv
<1>1. /\ entries' = [entries EXCEPT ![p] = NoEntry]
      /\ UNCHANGED <<config, clients>> /\ watcher.current = p
      /\ watcher'.new = watcher.new
      /\ \/ /\ watcher.pc = "drop_removed" /\ watcher'.pc = "remove"
            /\ watcher'.todo = watcher.todo
         \/ /\ watcher.pc = "drop_rebuilt" /\ watcher'.pc = "add"
            /\ watcher'.todo = watcher.todo \ {p} /\ watcher'.current = p
  BY <1>0 DEF DropEntry, GoTo, Working, TypeOK
<1>2. /\ Removed' = Removed /\ Rebuilds' = Rebuilds
      /\ \A q \in Provider \ {p} :
            /\ AgreesWith(config, q)' <=> AgreesWith(config, q)
            /\ AgreesWith(watcher.new, q)' <=> AgreesWith(watcher.new, q)
  BY <1>0, <1>1, MissingTypes, OneProvider
<1>3. \A q \in Provider : Busy(q) <=> q = p
  BY <1>1 DEF Busy, BusyPc
<1>4. CASE watcher.pc = "drop_removed"
  <2>1. p \in Removed \ watcher.todo /\ clients[p] = NoClient
    BY <1>0, <1>1, <1>4 DEF Removing
  <2>2. AgreesWith(watcher.new, p)'
    BY <1>0, <1>1, <2>1 DEF AgreesWith, Removed, TypeOK
  <2>3. Removing'
    BY <1>0, <1>1, <1>2, <1>3, <1>4, <2>1, <2>2 DEF Removing, Busy, BusyPc
  <2> QED
    BY <1>1, <1>4, <2>3 DEF Inv, Settled, Rebuilding, Capping
<1>5. CASE watcher.pc = "drop_rebuilt"
  <2>1. p \in Rebuilds \ watcher.todo
    BY <1>0, <1>1, <1>5 DEF Rebuilding
  <2>2. \A q \in Provider : Busy(q)' <=> q = p
    BY <1>1, <1>5 DEF Busy, BusyPc
  <2>3. Rebuilding'
    BY <1>0, <1>1, <1>2, <1>3, <1>5, <2>1, <2>2 DEF Rebuilding
  <2> QED
    BY <1>1, <1>5, <2>3 DEF Inv, Settled, Removing, Capping
<1> QED
  BY <1>1, <1>4, <1>5

LEMMA AddClientStep ==
    ASSUME Inv, TypeOK', NEW p \in Provider, AddClient(p)
    PROVE  Inv'
<1>0. TypeOK /\ Settled /\ Removing /\ Rebuilding /\ Capping
  BY DEF Inv
<1>1. /\ clients' = [clients EXCEPT ![p] = build_client(watcher.new, p)]
      /\ UNCHANGED <<config, entries>>
      /\ watcher'.pc = "add_entry" /\ watcher'.new = watcher.new
      /\ watcher'.todo = watcher.todo \ {p} /\ watcher'.current = p
      /\ \/ watcher.pc = "add" /\ watcher.current = p
         \/ watcher.pc = "rebuild" /\ p \in watcher.todo
  BY <1>0 DEF AddClient, Working, TypeOK
<1>2. /\ Removed' = Removed /\ Rebuilds' = Rebuilds
      /\ \A q \in Provider \ {p} :
            /\ AgreesWith(config, q)' <=> AgreesWith(config, q)
            /\ AgreesWith(watcher.new, q)' <=> AgreesWith(watcher.new, q)
  <2>1. build_client(watcher.new, p) \in Client
    BY <1>0, <1>1, ConfigFacts DEF TypeOK, Applying
  <2> QED
    BY <1>0, <1>1, <2>1, MissingTypes, OneProvider
<1>3. p \in Rebuilds /\ \A q \in Provider : Busy(q)' <=> q = p
  BY <1>0, <1>1 DEF Busy, BusyPc, Rebuilding
<1>4. \A q \in Provider \ {p} : ~Busy(q)
  BY <1>1 DEF Busy, BusyPc
<1>5. Rebuilding'
  BY <1>0, <1>1, <1>2, <1>3, <1>4 DEF Rebuilding, TypeOK, build_client
<1> QED
  BY <1>1, <1>5 DEF Inv, Settled, Removing, Capping

LEMMA AddEntryStep ==
    ASSUME Inv, TypeOK', NEW p \in Provider, AddEntry(p)
    PROVE  Inv'
<1>0. TypeOK /\ Settled /\ Removing /\ Rebuilding /\ Capping
  BY DEF Inv
<1>1. /\ entries' = [entries EXCEPT ![p] = NewEntry(watcher.new, p)]
      /\ UNCHANGED <<config, clients>>
      /\ watcher.pc = "add_entry" /\ watcher.current = p
      /\ watcher'.pc = "rebuild" /\ watcher'.new = watcher.new
      /\ watcher'.todo = watcher.todo
  BY <1>0 DEF AddEntry, GoTo, TypeOK
<1>2. /\ Removed' = Removed /\ Rebuilds' = Rebuilds
      /\ \A q \in Provider \ {p} :
            /\ AgreesWith(config, q)' <=> AgreesWith(config, q)
            /\ AgreesWith(watcher.new, q)' <=> AgreesWith(watcher.new, q)
  <2>1. NewEntry(watcher.new, p) \in Entry
    BY <1>0, <1>1, ConfigFacts DEF TypeOK, Applying
  <2> QED
    BY <1>0, <1>1, <2>1, MissingTypes, OneProvider
<1>3. /\ p \in Rebuilds \ watcher.todo
      /\ clients[p] = build_client(watcher.new, p)
      /\ \A q \in Provider : Busy(q) <=> q = p
  BY <1>0, <1>1 DEF Busy, BusyPc, Rebuilding
<1>4. AgreesWith(watcher.new, p)'
  BY <1>0, <1>1, <1>3 DEF AgreesWith, TypeOK, Rebuilds, client_rebuild_reason,
                          build_client, NewEntry
<1>5. Rebuilding'
  BY <1>0, <1>1, <1>2, <1>3, <1>4 DEF Rebuilding
<1> QED
  BY <1>1, <1>5 DEF Inv, Settled, Removing, Capping

LEMMA ApplyCapStep ==
    ASSUME Inv, TypeOK', NEW p \in Provider, ApplyCap(p)
    PROVE  Inv'
<1> DEFINE cap == watcher.new.providers[p].max_rps
           entry == CapApplied(entries[p], cap)
<1>0. TypeOK /\ Settled /\ Removing /\ Rebuilding /\ Capping
  BY DEF Inv
<1>1. /\ entries' = [entries EXCEPT ![p] = entry]
      /\ UNCHANGED <<config, clients>>
      /\ watcher.pc = "caps" /\ watcher'.pc = "caps" /\ watcher'.new = watcher.new
      /\ watcher'.todo = watcher.todo \ {p} /\ watcher.new \in Configs
  BY <1>0 DEF ApplyCap, GoTo, TypeOK, Applying
<1>2. entry = IF entries[p] = NoEntry THEN NoEntry ELSE [max_rps |-> cap]
  BY <1>0 DEF CapApplied, TypeOK, Entry
<1>3. entry \in Entry
  BY <1>1, <1>2, ConfigFacts DEF Entry, NoEntry
<1> HIDE DEF entry
<1>4. \A q \in Provider \ {p} :
            AgreesWith(watcher.new, q)' <=> AgreesWith(watcher.new, q)
  BY <1>0, <1>1, <1>3, MissingTypes, OneProvider
<1>5. AgreesWith(watcher.new, p)'
  <2>1. clients'[p] = clients[p] /\ entries'[p] = entry
    BY <1>0, <1>1 DEF TypeOK
  <2>2. CASE AgreesWith(watcher.new, p)
    <3>1. entry = entries[p]
      BY <1>2, <2>2 DEF AgreesWith, NewEntry
    <3> QED
      BY <1>1, <2>1, <2>2, <3>1 DEF AgreesWith
  <2>3. CASE /\ Lists(config, p) /\ Lists(watcher.new, p)
             /\ clients[p] = build_client(watcher.new, p)
             /\ entries[p] = NewEntry(config, p)
    <3>1. entry = NewEntry(watcher.new, p)
      BY <1>0, <1>2, <2>3, ConfigFacts DEF NewEntry, TypeOK
    <3> QED
      BY <1>1, <2>1, <2>3, <3>1 DEF AgreesWith
  <2> QED
    BY <1>0, <1>1, <2>2, <2>3 DEF Capping
<1>6. \A q \in Provider \ {p} : clients'[q] = clients[q] /\ entries'[q] = entries[q]
  BY <1>0, <1>1 DEF TypeOK
<1>7. Capping'
  BY <1>0, <1>1, <1>4, <1>5, <1>6 DEF Capping
<1> QED
  BY <1>1, <1>7 DEF Inv, Settled, Removing, Rebuilding

(* The invariant is inductive. *)
LEMMA InvNext == Inv /\ [Next]_vars => Inv'
<1> SUFFICES ASSUME Inv, [Next]_vars PROVE Inv'
  OBVIOUS
<1>1. TypeOK'
  BY TypeNext DEF Inv
<1> QED
  BY <1>1, QuietStep, PhaseStep, DropClientStep, DropEntryStep, AddClientStep,
     AddEntryStep, ApplyCapStep DEF Next, Watch

LEMMA InvAlways == Init /\ [][Next]_vars => []Inv
  BY InvInit, InvNext, PTL

-----------------------------------------------------------------------------
(* The invariant says of an idle watcher what the property asks. *)
LEMMA InvAgrees == Inv => AgreeWhenIdle
<1> SUFFICES ASSUME Inv, watcher.pc = "idle", NEW p \in Provider
             PROVE  IF Lists(config, p)
                    THEN /\ clients[p] = build_client(config, p)
                         /\ entries[p] # NoEntry
                         /\ entries[p].max_rps = config.providers[p].max_rps
                    ELSE clients[p] = NoClient /\ entries[p] = NoEntry
  BY DEF AgreeWhenIdle
<1>1. AgreesWith(config, p) /\ config \in Configs
  BY DEF Inv, Settled, TypeOK
<1> QED
  BY <1>1, ConfigFacts DEF AgreesWith

(* No step of a reload drops or replaces the health of a provider that     *)
(* both configs list with the same client inputs.                          *)
LEMMA KeepsHealth == Init /\ [][Next]_vars => UnchangedKeepHealth
<1> DEFINE Kept(p) ==
        (rebuilt'[p] # rebuilt[p] \/ (entries[p] # NoEntry /\ entries'[p] = NoEntry))
            => \/ ~Lists(config, p) \/ ~Lists(watcher.new, p)
               \/ build_client(config, p) # build_client(watcher.new, p)
<1>1. ASSUME Inv, [Next]_vars PROVE [\A p \in Provider : Kept(p)]_vars
  <2> SUFFICES ASSUME NEW p \in Provider, Next PROVE Kept(p)
    BY <1>1 DEF vars
  <2>0. TypeOK /\ Removing /\ Rebuilding
    BY <1>1 DEF Inv
  <2>1. CASE UNCHANGED <<entries, rebuilt>>
    BY <2>1
  <2>2. ASSUME NEW q \in Provider, DropEntry(q) PROVE Kept(p)
    <3>1. UNCHANGED rebuilt /\ (p # q => entries'[p] = entries[p])
      BY <2>0, <2>2 DEF DropEntry, TypeOK
    <3>2. q \in Removed \cup Rebuilds /\ watcher.new \in Configs /\ config \in Configs
      BY <2>0, <2>2 DEF DropEntry, Removing, Rebuilding, TypeOK, Applying
    <3> QED
      BY <3>1, <3>2, KeptClient DEF Removed, Rebuilds
  <2>3. ASSUME NEW q \in Provider, AddEntry(q) PROVE Kept(p)
    <3>1. p # q => entries'[p] = entries[p] /\ rebuilt'[p] = rebuilt[p]
      BY <2>0, <2>3 DEF AddEntry, TypeOK
    <3>2. q \in Rebuilds /\ watcher.new \in Configs /\ config \in Configs
      BY <2>0, <2>3 DEF AddEntry, Rebuilding, TypeOK, Applying
    <3> QED
      BY <3>1, <3>2, KeptClient DEF Rebuilds
  <2>4. ASSUME NEW q \in Provider, ApplyCap(q) PROVE Kept(p)
    <3>1. UNCHANGED rebuilt /\ (p # q => entries'[p] = entries[p])
      BY <2>0, <2>4 DEF ApplyCap, TypeOK
    <3>2. watcher.new.providers[q].max_rps \in Nat
      BY <2>0, <2>4, ConfigFacts DEF ApplyCap, TypeOK, Applying
    <3>3. p = q /\ entries[p] # NoEntry => entries'[p] # NoEntry
      BY <2>0, <2>4, <3>2 DEF ApplyCap, CapApplied, TypeOK, Entry, NoEntry
    <3> QED
      BY <3>1, <3>3
  <2> QED
    BY <2>1, <2>2, <2>3, <2>4
       DEF Next, Watch, Poll, LoadFails, Load, Diff, StartRebuilds, StartCaps, SwapConfig,
           DropClient, AddClient, Write
<1> QED
  BY <1>1, InvAlways, PTL DEF UnchangedKeepHealth

-----------------------------------------------------------------------------
(* Traffic does not interfere with reloading: ReloadTraffic without its    *)
(* request is HotReload, so all of the above holds under TrafficSpec too.  *)
LEMMA TrafficReloads == TrafficSpec => Init /\ [][Next]_vars
<1>1. TrafficInit => Init
  BY DEF TrafficInit
<1>2. [TrafficNext]_traffic_vars => [Next]_vars
  BY DEF TrafficNext, traffic_vars, Handle, ReadConfig, TakeSnapshot, Refuse, Respond,
         TryProvider
<1> QED
  BY <1>1, <1>2, PTL DEF TrafficSpec

(* Between reloads, clients, entries and config agree for every provider,  *)
(* after any sequence of edits of any configs, with or without traffic.    *)
THEOREM AgreeCorrect ==
    /\ Spec => []AgreeWhenIdle
    /\ TrafficSpec => []AgreeWhenIdle
  BY InvAgrees, InvAlways, TrafficReloads, PTL DEF Spec

(* No step of a reload of watch_config drops or replaces the health of a   *)
(* provider that both configs list with the same client inputs.            *)
THEOREM KeepHealthCorrect ==
    /\ Spec => UnchangedKeepHealth
    /\ TrafficSpec => UnchangedKeepHealth
  BY KeepsHealth, TrafficReloads, PTL DEF Spec

-----------------------------------------------------------------------------
(* The request crossing reloads. *)
RequestType ==
    request \in [pc : {"none", "read", "routed", "refused"}, listed : [Provider -> Client],
                 routed : SUBSET Provider, stable : SUBSET Provider]

(* A stable provider is in the config, and in the one being applied, with  *)
(* the client inputs that the request read.                                *)
StableKept ==
    \A p \in request.stable :
        /\ request.listed[p] # NoClient
        /\ Listing(config)[p] = request.listed[p]
        /\ Applying => Listing(watcher.new)[p] = request.listed[p]

(* The request does not lose a stable provider. *)
StableRouted ==
    /\ request.pc = "routed" => request.stable \subseteq request.routed
    /\ request.pc = "refused" => request.stable = {}

TrafficInv == RequestType /\ StableKept /\ StableRouted

(* What a listing holds. *)
LEMMA ListingFacts ==
    ASSUME NEW c \in Configs, NEW p \in Provider
    PROVE  /\ Listing(c) \in [Provider -> Client]
           /\ Listing(c)[p] # NoClient <=> Lists(c, p)
           /\ Lists(c, p) => Listing(c)[p] = build_client(c, p)
<1>1. Listing(c) \in [Provider -> Client]
  BY ConfigFacts, MissingTypes DEF Listing
<1> QED
  BY <1>1, ConfigFacts DEF Listing

(* Whatever the watcher is doing, a provider that both configs list with   *)
(* the same inputs has its client and its entry all along.                 *)
LEMMA StableServed ==
    ASSUME Inv, NEW p \in Provider, Listing(config)[p] # NoClient,
           Applying => Listing(watcher.new)[p] = Listing(config)[p]
    PROVE  clients[p] # NoClient /\ entries[p] # NoEntry
<1>0. TypeOK /\ Settled /\ Removing /\ Rebuilding /\ Capping
  BY DEF Inv
<1>1. config \in Configs /\ Lists(config, p)
  BY <1>0, ListingFacts DEF TypeOK
<1>2. ASSUME NEW c \in Configs, Lists(c, p), AgreesWith(c, p)
      PROVE  clients[p] # NoClient /\ entries[p] # NoEntry
  BY <1>2, ConfigFacts DEF AgreesWith
<1>3. CASE ~Applying
  BY <1>0, <1>1, <1>2, <1>3 DEF Applying, Settled
<1>4. CASE Applying
  <2>1. watcher.new \in Configs /\ Lists(watcher.new, p)
    BY <1>0, <1>4, ListingFacts DEF TypeOK
  <2>2. build_client(config, p) = build_client(watcher.new, p)
    BY <1>1, <1>4, <2>1, ListingFacts
  <2>3. p \notin Removed /\ p \notin Rebuilds
    BY <1>1, <2>1, <2>2, KeptClient DEF Removed, Rebuilds
  <2>4. CASE watcher.pc = "diff"
    BY <1>0, <1>1, <1>2, <2>4 DEF Settled
  <2>5. CASE watcher.pc \in {"remove", "drop_removed"}
    BY <1>0, <1>1, <1>2, <2>3, <2>5 DEF Removing, Busy, BusyPc
  <2>6. CASE watcher.pc \in {"rebuild", "drop_rebuilt", "add", "add_entry"}
    BY <1>0, <1>1, <1>2, <2>3, <2>6 DEF Rebuilding, Busy, BusyPc
  <2>7. CASE watcher.pc = "caps"
    BY <1>0, <1>1, <1>2, <2>1, <2>7, ConfigFacts DEF Capping
  <2> QED
    BY <1>0, <1>4, <2>4, <2>5, <2>6, <2>7 DEF TypeOK, Pc, BusyPc, Applying
<1> QED
  BY <1>3, <1>4

LEMMA TrafficInvInit == TrafficInit => TrafficInv
<1> SUFFICES ASSUME TrafficInit PROVE TrafficInv
  OBVIOUS
<1>1. Listing(Invalid) \in [Provider -> Client]
  BY MissingTypes DEF Listing, Lists, Invalid
<1> QED
  BY <1>1 DEF TrafficInit, NoRequest, TrafficInv, RequestType, StableKept, StableRouted

(* The steps of the request. *)
LEMMA HandleStep == Inv /\ TrafficInv /\ Handle => TrafficInv'
<1> SUFFICES ASSUME Inv, TrafficInv, Handle PROVE TrafficInv'
  OBVIOUS
<1>0. RequestType /\ StableKept /\ StableRouted /\ TypeOK
  BY DEF TrafficInv, Inv
<1>1. UNCHANGED vars
  BY DEF Handle, ReadConfig, TakeSnapshot, Refuse, Respond, TryProvider
<1>2. ASSUME request' = NoRequest PROVE TrafficInv'
  <2>1. Listing(Invalid) \in [Provider -> Client]
    BY MissingTypes DEF Listing, Lists, Invalid
  <2> QED
    BY <1>2, <2>1 DEF NoRequest, TrafficInv, RequestType, StableKept, StableRouted
<1>3. ASSUME request'.listed = request.listed, request'.stable \subseteq request.stable
      PROVE  StableKept'
  BY <1>0, <1>1, <1>3 DEF StableKept, vars, Listing, Applying
<1>4. CASE ReadConfig
  <2>1. /\ request'.listed = Listing(config) /\ request'.pc = "read"
        /\ request'.stable = KeptBy(Listing(config), Names(config))
    BY <1>4 DEF ReadConfig
  <2>2. config \in Configs
    BY <1>0 DEF TypeOK
  <2>3. RequestType'
    <3>1. Listing(config) \in [Provider -> Client]
      BY <2>2, ConfigFacts, MissingTypes DEF Listing
    <3> QED
      BY <1>4, <3>1 DEF ReadConfig, RequestType, KeptBy, Names
  <2>4. StableKept'
    <3> SUFFICES ASSUME NEW p \in request'.stable
                 PROVE  /\ request'.listed[p] # NoClient
                        /\ Listing(config')[p] = request'.listed[p]
                        /\ Applying' => Listing(watcher'.new)[p] = request'.listed[p]
      BY DEF StableKept
    <3>1. /\ p \in Provider /\ Lists(config, p)
          /\ Applying => Listing(watcher.new)[p] = Listing(config)[p]
      BY <2>1 DEF KeptBy, Names
    <3>2. Listing(config)[p] # NoClient
      BY <2>2, <3>1, ListingFacts
    <3> QED
      BY <1>1, <2>1, <3>1, <3>2 DEF vars, Applying
  <2> QED
    BY <2>1, <2>3, <2>4 DEF TrafficInv, StableRouted
<1>5. CASE TakeSnapshot
  <2>1. /\ request' = [request EXCEPT !.pc = "routed",
                            !.routed = {p \in Provider : entries[p] # NoEntry}]
    BY <1>5 DEF TakeSnapshot
  <2>2. RequestType'
    BY <1>0, <2>1 DEF RequestType
  <2>3. request'.stable = request.stable /\ request'.listed = request.listed
    BY <1>0, <2>1 DEF RequestType
  <2>4. \A p \in request.stable : p \in Provider /\ entries[p] # NoEntry
    BY <1>0, StableServed DEF RequestType, StableKept
  <2>5. StableRouted'
    BY <1>0, <2>1, <2>3, <2>4 DEF StableRouted, RequestType
  <2> QED
    BY <1>3, <2>2, <2>3, <2>5 DEF TrafficInv
<1>6. CASE Refuse
  <2>1. /\ request' = [request EXCEPT !.pc = "refused"]
        /\ request.pc = "routed" /\ request.routed = {}
    BY <1>6 DEF Refuse
  <2>2. RequestType'
    BY <1>0, <2>1 DEF RequestType
  <2>3. request'.stable = request.stable /\ request'.listed = request.listed
    BY <1>0, <2>1 DEF RequestType
  <2>4. StableRouted'
    BY <1>0, <2>1, <2>3 DEF StableRouted, RequestType
  <2> QED
    BY <1>3, <2>2, <2>3, <2>4 DEF TrafficInv
<1>7. CASE Respond
  BY <1>2, <1>7 DEF Respond
<1>8. ASSUME NEW p \in Provider, TryProvider(p) PROVE TrafficInv'
  <2>1. CASE request.listed[p] # NoClient /\ clients[p] # NoClient
    BY <1>2, <1>8, <2>1 DEF TryProvider
  <2>2. CASE ~(request.listed[p] # NoClient /\ clients[p] # NoClient)
    <3>1. request' = [request EXCEPT !.routed = @ \ {p}] /\ request.pc = "routed"
      BY <1>8, <2>2 DEF TryProvider
    <3>2. RequestType'
      BY <1>0, <3>1 DEF RequestType
    <3>3. /\ request'.stable = request.stable /\ request'.listed = request.listed
          /\ request'.pc = request.pc /\ request'.routed = request.routed \ {p}
      BY <1>0, <3>1 DEF RequestType
    <3>4. p \notin request.stable
      BY <1>0, <2>2, StableServed DEF RequestType, StableKept
    <3>5. StableRouted'
      BY <1>0, <3>1, <3>3, <3>4 DEF StableRouted
    <3> QED
      BY <1>3, <3>2, <3>3, <3>5 DEF TrafficInv
  <2> QED
    BY <2>1, <2>2
<1> QED
  BY <1>4, <1>5, <1>6, <1>7, <1>8 DEF Handle

(* The steps of the watcher and the operator, with the history they keep:  *)
(* a provider stays stable only if the config being applied keeps it, and  *)
(* the config it replaces the old one by is the one it was applying.       *)
LEMMA WitnessStep == Inv /\ TrafficInv /\ Next /\ Witness => TrafficInv'
<1> SUFFICES ASSUME Inv, TrafficInv, Next, Witness PROVE TrafficInv'
  OBVIOUS
<1>0. RequestType /\ StableKept /\ StableRouted /\ TypeOK
  BY DEF TrafficInv, Inv
<1>1. /\ RequestType'
      /\ request'.pc = request.pc /\ request'.listed = request.listed
      /\ request'.routed = request.routed
      /\ request'.stable = {p \in request.stable :
                Applying' => Listing(watcher'.new)[p] = request.listed[p]}
  BY <1>0 DEF Witness, RequestType
<1>2. StableRouted'
  BY <1>0, <1>1 DEF StableRouted
<1>3. UNCHANGED config \/ (SwapConfig /\ Applying /\ config' = watcher.new)
  BY DEF Next, Watch, Poll, LoadFails, Load, Diff, StartRebuilds, StartCaps, SwapConfig,
         DropClient, DropEntry, AddClient, AddEntry, ApplyCap, Write, Applying
<1>4. StableKept'
  BY <1>0, <1>1, <1>3 DEF StableKept
<1> QED
  BY <1>1, <1>2, <1>4 DEF TrafficInv

(* A request that crosses any number of reloads is refused without asking  *)
(* anybody only if each provider it read of was dropped or given other     *)
(* client inputs by a config applied meanwhile.                            *)
THEOREM RefusedCorrect == TrafficSpec => []RefusedOnlyByReload
<1>1. Inv /\ TrafficInv /\ [TrafficNext]_traffic_vars => TrafficInv'
  <2> SUFFICES ASSUME Inv, TrafficInv, [TrafficNext]_traffic_vars PROVE TrafficInv'
    OBVIOUS
  <2>1. CASE UNCHANGED traffic_vars
    BY <2>1 DEF traffic_vars, vars, TrafficInv, RequestType, StableKept, StableRouted,
                Listing, Applying
  <2> QED
    BY <2>1, HandleStep, WitnessStep DEF TrafficNext
<1>2. TrafficInv => RefusedOnlyByReload
  BY DEF TrafficInv, StableRouted, RefusedOnlyByReload
<1> QED
  BY <1>1, <1>2, TrafficInvInit, InvAlways, TrafficReloads, PTL DEF TrafficSpec
=============================================================================
