----------------------------- MODULE HotReload ------------------------------
(***************************************************************************)
(* main.rs: watch_config polls the config file and applies a change to the *)
(* running proxy: HTTP clients, the health monitor's entries (health,      *)
(* limiter and probe loop of each provider) and, last, the config itself.  *)
(* Requests read all three at any moment, so every lock the watcher takes  *)
(* is a step of its own.                                                   *)
(*                                                                         *)
(* A provider's config is kept as what the watcher tells apart: `inputs'   *)
(* for url and http3, max_rps (0 for none), and `methods' for the fields   *)
(* that only requests read.  The probe loop reads `methods' when it is     *)
(* spawned and not again; what it does with them is left out.  mtimes are  *)
(* only compared for equality: `touched' says that the file's differs from *)
(* last_mtime.  Every write changes it.                                    *)
(***************************************************************************)
EXTENDS Integers, FiniteSets

CONSTANTS
    Provider,       \* the names a config may list
    Configs         \* the valid contents of the file: [pool, providers]

Absent == [inputs |-> 0, pool |-> 0, max_rps |-> 0, methods |-> 0]
Lists(c, p) == c.providers[p] # Absent
Names(c) == {p \in Provider : Lists(c, p)}

ProviderConfig == [inputs : Nat, pool : Nat, max_rps : Nat, methods : Nat]
ConfigType == [pool : Nat, providers : [Provider -> ProviderConfig]]

(* 0 is nobody's inputs. *)
ASSUME ConfigsAssumption ==
    /\ Configs \subseteq ConfigType
    /\ \A c \in Configs, p \in Provider : Lists(c, p) => c.providers[p].inputs # 0

VARIABLES
    file,           \* a member of Configs, or Invalid
    touched,        \* mtime(path) # last_mtime
    config,         \* the shared config
    clients,        \* [Provider -> what its client was built from, or Absent]
    entries,        \* [Provider -> its ProviderEntry, or Absent]
    watcher,        \* [pc, new, todo, current]
    rebuilt         \* history: [Provider -> times its entry was replaced, mod 2]

vars == <<file, touched, config, clients, entries, watcher, rebuilt>>

Invalid == [pool |-> 0, providers |-> [p \in Provider |-> Absent]]
Nobody == "nobody"

(* build_client takes the provider's url and http3 and the pool size. *)
build_client(c, p) == <<c.providers[p].inputs, c.pool>>
NoClient == <<0, 0>>

(* add_provider: fresh health and a limiter for max_rps. *)
NewEntry(c, p) == [max_rps |-> c.providers[p].max_rps]
NoEntry == [max_rps |-> -1]

Idle == [pc |-> "idle", new |-> Invalid, todo |-> {}, current |-> Nobody]

Init ==
    /\ config \in Configs /\ file = config /\ touched = FALSE
    /\ clients = [p \in Provider |->
            IF Lists(config, p) THEN build_client(config, p) ELSE NoClient]
    /\ entries = [p \in Provider |->
            IF Lists(config, p) THEN NewEntry(config, p) ELSE NoEntry]
    /\ watcher = Idle
    /\ rebuilt = [p \in Provider |-> 0]

(* An operator edits the file; an editor may leave it half written. *)
Write(c) ==
    /\ file' = c /\ touched' = TRUE
    /\ UNCHANGED <<config, clients, entries, watcher, rebuilt>>

-----------------------------------------------------------------------------
(* What the watcher has to do, from the old and the new config. *)

Removed == {p \in Provider : Lists(config, p) /\ ~Lists(watcher.new, p)}

(* Mutant: the pool size is not compared. *)
rebuild_reason_no_pool(old, new, p) ==
    Lists(new, p) /\ (~Lists(old, p)
                      \/ old.providers[p].inputs # new.providers[p].inputs)

client_rebuild_reason(old, new, p) ==
    Lists(new, p) /\ (\/ ~Lists(old, p)
                      \/ old.pool # new.pool
                      \/ old.providers[p].inputs # new.providers[p].inputs)

(* An unlisted provider counts as uncapped, as Absent does. *)
CapChanged(old, new, p) ==
    Lists(new, p) /\ old.providers[p].max_rps # new.providers[p].max_rps

GoTo(pc, todo) == watcher' = [watcher EXCEPT !.pc = pc, !.todo = todo, !.current = Nobody]
Working(pc, p) == watcher' = [watcher EXCEPT !.pc = pc, !.current = p, !.todo = @ \ {p}]

-----------------------------------------------------------------------------
(* The steps of watch_config. *)

(* last_mtime = current *)
Poll ==
    /\ watcher.pc = "idle" /\ touched
    /\ touched' = FALSE
    /\ watcher' = [watcher EXCEPT !.pc = "load"]
    /\ UNCHANGED <<file, config, clients, entries, rebuilt>>

LoadFails ==
    /\ watcher.pc = "load" /\ file = Invalid
    /\ watcher' = Idle
    /\ UNCHANGED <<file, touched, config, clients, entries, rebuilt>>

Load ==
    /\ watcher.pc = "load" /\ file # Invalid
    /\ watcher' = [watcher EXCEPT !.pc = "diff", !.new = file]
    /\ UNCHANGED <<file, touched, config, clients, entries, rebuilt>>

Diff ==
    /\ watcher.pc = "diff"
    /\ GoTo("remove", Removed)
    /\ UNCHANGED <<file, touched, config, clients, entries, rebuilt>>

(* clients.write().remove(name) *)
DropClient(p) ==
    /\ \/ watcher.pc = "remove" /\ p \in watcher.todo /\ Working("drop_removed", p)
       \/ watcher.pc = "rebuild" /\ p \in watcher.todo /\ Lists(config, p)
          /\ Working("drop_rebuilt", p)
    /\ clients' = [clients EXCEPT ![p] = NoClient]
    /\ UNCHANGED <<file, touched, config, entries, rebuilt>>

(* monitor.remove_provider(name) *)
DropEntry(p) ==
    /\ watcher.current = p
    /\ \/ watcher.pc = "drop_removed" /\ GoTo("remove", watcher.todo)
       \/ watcher.pc = "drop_rebuilt" /\ Working("add", p)
    /\ entries' = [entries EXCEPT ![p] = NoEntry]
    /\ UNCHANGED <<file, touched, config, clients, rebuilt>>

StartRebuilds ==
    /\ watcher.pc = "remove" /\ watcher.todo = {}
    /\ GoTo("rebuild",
            {p \in Provider : client_rebuild_reason(config, watcher.new, p)})
    /\ UNCHANGED <<file, touched, config, clients, entries, rebuilt>>

(* clients.write().insert(..) *)
AddClient(p) ==
    /\ \/ watcher.pc = "add" /\ watcher.current = p
       \/ watcher.pc = "rebuild" /\ p \in watcher.todo /\ ~Lists(config, p)
    /\ Working("add_entry", p)
    /\ clients' = [clients EXCEPT ![p] = build_client(watcher.new, p)]
    /\ UNCHANGED <<file, touched, config, entries, rebuilt>>

(* monitor.add_provider(..) *)
AddEntry(p) ==
    /\ watcher.pc = "add_entry" /\ watcher.current = p
    /\ entries' = [entries EXCEPT ![p] = NewEntry(watcher.new, p)]
    /\ rebuilt' = [rebuilt EXCEPT ![p] = 1 - @]
    /\ GoTo("rebuild", watcher.todo)
    /\ UNCHANGED <<file, touched, config, clients>>

StartCaps ==
    /\ watcher.pc = "rebuild" /\ watcher.todo = {}
    /\ GoTo("caps", {p \in Provider : CapChanged(config, watcher.new, p)})
    /\ UNCHANGED <<file, touched, config, clients, entries, rebuilt>>

(* The entry's limiter after apply_rate_limit. *)
CapApplied(entry, max_rps) ==
    IF entry = NoEntry THEN entry ELSE [entry EXCEPT !.max_rps = max_rps]

(* Mutant: a new cap comes with a new entry, hence fresh health. *)
ApplyCapAfresh(p) ==
    /\ watcher.pc = "caps" /\ p \in watcher.todo
    /\ entries' = [entries EXCEPT ![p] = NewEntry(watcher.new, p)]
    /\ rebuilt' = [rebuilt EXCEPT ![p] = 1 - @]
    /\ GoTo("caps", watcher.todo \ {p})
    /\ UNCHANGED <<file, touched, config, clients>>

ApplyCap(p) ==
    /\ watcher.pc = "caps" /\ p \in watcher.todo
    /\ entries' = [entries EXCEPT ![p] = CapApplied(@, watcher.new.providers[p].max_rps)]
    /\ GoTo("caps", watcher.todo \ {p})
    /\ UNCHANGED <<file, touched, config, clients, rebuilt>>

(* Mutant: the mtime is remembered when the reload ends, not when it began. *)
SwapConfigSeen ==
    /\ watcher.pc = "caps" /\ watcher.todo = {}
    /\ config' = watcher.new
    /\ touched' = FALSE
    /\ watcher' = Idle
    /\ UNCHANGED <<file, clients, entries, rebuilt>>

SwapConfig ==
    /\ watcher.pc = "caps" /\ watcher.todo = {}
    /\ config' = watcher.new
    /\ watcher' = Idle
    /\ UNCHANGED <<file, touched, clients, entries, rebuilt>>

Watch ==
    \/ Poll \/ LoadFails \/ Load \/ Diff
    \/ StartRebuilds \/ StartCaps \/ SwapConfig
    \/ \E p \in Provider :
        DropClient(p) \/ DropEntry(p) \/ AddClient(p) \/ AddEntry(p) \/ ApplyCap(p)

Next == Watch \/ \E c \in Configs \cup {Invalid} : Write(c)

(* The watcher's ticker keeps going.  Nothing makes an operator write.      *)
Spec == Init /\ [][Next]_vars /\ WF_vars(Watch)

-----------------------------------------------------------------------------

(* Between reloads the three pieces of shared state agree: the clients and  *)
(* the monitor's entries are those of the config, each client built from    *)
(* its current inputs and each entry with its current cap, after any        *)
(* sequence of edits.                                                       *)
AgreeWhenIdle ==
    watcher.pc = "idle" =>
        \A p \in Provider :
            IF Lists(config, p)
            THEN /\ clients[p] = build_client(config, p)
                 /\ entries[p] # NoEntry
                 /\ entries[p].max_rps = config.providers[p].max_rps
            ELSE clients[p] = NoClient /\ entries[p] = NoEntry

(* A reload leaves alone the providers whose client inputs it does not      *)
(* change: "keep existing health state".                                    *)
UnchangedKeepHealth ==
    [][ \A p \in Provider :
            (rebuilt'[p] # rebuilt[p] \/ (entries[p] # NoEntry /\ entries'[p] = NoEntry))
                => \/ ~Lists(config, p) \/ ~Lists(watcher.new, p)
                   \/ build_client(config, p) # build_client(watcher.new, p) ]_vars

(* Every edit takes effect: once the operator stops writing and leaves a    *)
(* valid file, the proxy ends up running that config, also when an edit     *)
(* lands while an earlier one is being applied.                             *)
EditsTakeEffect ==
    \A c \in Configs : <>[](file = c) => <>[](config = c)
=============================================================================
