---------------------------- MODULE SlotSnapshot ----------------------------
(***************************************************************************)
(* A routing request reads the state of ProbeRounds while the probes go    *)
(* on: HealthMonitor::snapshots_with_tips takes the latest tips, then      *)
(* copies the ring, then snapshots every provider, each under a lock of    *)
(* its own.  (The first loop reads provider after provider; here it is one *)
(* step.)                                                                  *)
(***************************************************************************)
EXTENDS ProbeRounds

VARIABLE reader     \* [pc, latest, book, left, snapped]

reader_vars == <<vars, reader>>

NoReader == [pc |-> "idle", latest |-> NoTips, left |-> {},
             book |-> [i \in 0..(TIP_ROUNDS - 1) |-> NoEntry],
             snapped |-> [p \in Provider |-> [slots |-> NoSlots, rounds |-> NoSlots]]]

SnapshotInit == Init /\ reader = NoReader

(* SlotTips over every provider and the reference. *)
LatestTips ==
    [c \in Commitment |->
        LET known == {slots[s][c] : s \in Sampler} \cup {0}
        IN  CHOOSE m \in known : \A x \in known : x <= m]

ReadLatest ==
    /\ reader.pc = "idle"
    /\ reader' = [NoReader EXCEPT !.pc = "ring", !.latest = LatestTips]
    /\ UNCHANGED vars

ReadRing ==
    /\ reader.pc = "ring"
    /\ reader' = [reader EXCEPT !.pc = "providers", !.book = round_tips,
                                !.left = Provider]
    /\ UNCHANGED vars

ReadProvider(p) ==
    /\ p \in reader.left
    /\ reader' = [reader EXCEPT !.left = @ \ {p},
                    !.snapped[p] = [slots |-> slots[p], rounds |-> rounds[p]]]
    /\ UNCHANGED vars

(* The snapshots are used and dropped. *)
ReaderDone ==
    /\ reader.pc = "providers" /\ reader.left = {}
    /\ reader' = NoReader
    /\ UNCHANGED vars

SnapshotNext ==
    \/ Next /\ UNCHANGED reader
    \/ ReadLatest \/ ReadRing \/ ReaderDone
    \/ \E p \in Provider : ReadProvider(p)

SnapshotSpec == SnapshotInit /\ [][SnapshotNext]_reader_vars

-----------------------------------------------------------------------------
(* Inner::drift as the snapshot computes it. *)
drift(p, c) ==
    LET snap == reader.snapped[p]
        t == tip(reader.book, reader.latest, c, snap.rounds[c])
    IN  IF t > snap.slots[c] THEN t - snap.slots[c] ELSE 0

(* Like is compared with like: whatever the probes did between the reader's *)
(* locks, a provider that was the first of its round is not blamed for a    *)
(* later round's progress if the copied ring has its round, and otherwise   *)
(* only for what somebody's latest slot shows.                              *)
LikeWithLike ==
    \A p \in Provider, c \in Commitment :
        LET snap == reader.snapped[p]
            r == snap.rounds[c]
            known == \E i \in DOMAIN reader.book : reader.book[i].round = r
        IN  snap.slots[c] # None /\ drift(p, c) > 0 =>
                IF r # None /\ known
                THEN drift(p, c) <= highest[r][c] - snap.slots[c]
                ELSE drift(p, c) = reader.latest[c] - snap.slots[c]
=============================================================================
